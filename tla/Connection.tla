----------------------------- MODULE Connection -----------------------------
(***************************************************************************)
(* The SCFConnection objects of a process and what they own: policy        *)
(* contexts and objects, transports and crypto engines, and the one engine *)
(* that is installed in the TLS adaptor                                    *)
(* (connection/scf_connection_impl.cpp, transport/socket_transport.cpp,    *)
(* OpenSSLAdaptor::SetCryptoEngine and InitSsl).                           *)
(*                                                                         *)
(* The interface is non-blocking and meant for an event loop: a call is    *)
(* one step.  The functions a call is made of are operators from a world,  *)
(* the value of all variables, to the set of results they can have.        *)
(* The library is initialised throughout.                                  *)
(***************************************************************************)
EXTENDS Integers, FiniteSets

CONSTANTS
    Conns,          \* the connections that can be created
    MaxSetups,      \* bound on the calls of SetupPolicyContext per connection
    MaxCareless,    \* the same when the application is not careful
    MaxAllSetups,   \* bound on those calls of all connections together
    PskModes,       \* the values of usePSK in the configurations
    None,           \* the null pointer
    NoLib,          \* the library context of a policy context with no SSL_CTX
    Default         \* the default library context, plain software

ASSUME ConnectionAssumption ==
    /\ MaxSetups \in Nat \ {0}
    /\ MaxCareless \in 0..MaxSetups
    /\ MaxAllSetups \in Nat
    /\ PskModes \subseteq BOOLEAN
    /\ None \notin Conns
    /\ {None, NoLib, Default} \cap (Conns \X (1..MaxSetups)) = {}
    /\ NoLib # Default

\* What the k-th setup of connection c makes has the name <<c, k>>.
Ids == Conns \X (1..MaxSetups)

VARIABLES
    careful,        \* does the application use connections as the samples do
    conn,           \* the fields of every SCFConnectionImpl
    heap,           \* what every setup has made, and whether it still exists
    m_cryptoEngine  \* the engine installed in the adaptor

vars == <<careful, conn, heap, m_cryptoEngine>>

World == [conn |-> conn, heap |-> heap, installed |-> m_cryptoEngine]

Become(w) ==
    /\ conn' = w.conn
    /\ heap' = w.heap
    /\ m_cryptoEngine' = w.installed
    /\ UNCHANGED careful

Ok(w) == [w |-> w, ret |-> "SCF_SUCCESS"]
Fail(w) == [w |-> w, ret |-> "error"]

-----------------------------------------------------------------------------
\* Mutant: the state is not initialised.
NewConnNoState(server, psk, parent) ==
    [life |-> "live", server |-> server, usePSK |-> psk, parent |-> parent,
     state |-> None, handshakeDone |-> FALSE,
     ctx |-> None, obj |-> None, transport |-> None,
     engine |-> None, owns |-> FALSE, setups |-> 0]

\* The constructor.
NewConn(server, psk, parent) ==
    [life |-> "live", server |-> server, usePSK |-> psk, parent |-> parent,
     state |-> "INIT", handshakeDone |-> FALSE,
     ctx |-> None, obj |-> None, transport |-> None,
     engine |-> None, owns |-> FALSE, setups |-> 0]

NotYet == [NewConn(FALSE, FALSE, None) EXCEPT !.life = "none"]

Init ==
    /\ careful \in BOOLEAN
    /\ conn = [c \in Conns |-> NotYet]
    /\ heap = [i \in Ids |-> [refs |-> 0, lib |-> NoLib, obj |-> "none", temp |-> "none",
                              handshake |-> "no", transport |-> "none", engine |-> "none"]]
    /\ m_cryptoEngine = None

-----------------------------------------------------------------------------
(* Parts of a call.                                                        *)

\* The engine of a connection is made at most once; when it can not be made
\* or initialised the adaptor is left as it is.
InjectCryptoEngine(w, c, i) ==
    IF w.conn[c].engine # None
    THEN {[w EXCEPT !.installed = w.conn[c].engine]}
    ELSE {w, [w EXCEPT !.conn[c].engine = i, !.conn[c].owns = TRUE,
                       !.heap[i].engine = "live", !.installed = i]}

\* InitSsl binds the SSL_CTX to the library context of the engine installed
\* in the adaptor, or to the default one when the engine has none or
\* SSL_CTX_new_ex fails.
InitSsl(w) == {Default} \cup ({w.installed} \ {None})

\* SCF_CreatePolicyObj for a throw-away object that is not freed.
LookUpCipher(w, i) == [w EXCEPT !.heap[i].refs = @ + 1, !.heap[i].temp = "live"]

\* Everything SetupPolicyContext does after SCF_SetPolicy: versions, cipher
\* suites, then PSK or certificates, and the callback; each may fail.
SetupCredentials(w, c, i) ==
    {Ok(w), Fail(w)} \cup
    (IF w.conn[c].usePSK THEN {Ok(LookUpCipher(w, i)), Fail(LookUpCipher(w, i))} ELSE {})

SetupPolicyContext(world, c, i) ==
    LET entered == [world EXCEPT !.conn[c].setups = @ + 1]
        NoCtx(w) == [w EXCEPT !.conn[c].ctx = None]
        Made(w) == [w EXCEPT !.conn[c].ctx = i, !.heap[i].refs = 1]
        Bound(w, lib) == [Made(w) EXCEPT !.heap[i].lib = lib]
    IN  UNION {{Fail(NoCtx(w)), Fail(Made(w))} \cup
               UNION {SetupCredentials(Bound(w, lib), c, i) : lib \in InitSsl(w)}
               : w \in InjectCryptoEngine(entered, c, i)}

\* SetupTransportClient and SetupTransportServer: Create fails, Connect or
\* Bind fails and has closed the descriptor, or it is open.
SetupTransport(w, c, i, state) ==
    LET With(t) == [w EXCEPT !.conn[c].transport = i, !.heap[i].transport = t]
    IN  {Fail([w EXCEPT !.conn[c].transport = None]),
         Fail(With("closed")),
         Ok([With("open") EXCEPT !.conn[c].state = state])}

\* SCF_CreatePolicyObj fails, SCF_SetFd fails, or none does.
CreatePolicyObj(w, c, i) ==
    LET made == [w EXCEPT !.conn[c].obj = i, !.heap[i].refs = @ + 1,
                          !.heap[i].obj = "live"]
    IN  {Fail([w EXCEPT !.conn[c].obj = None]), Fail(made), Ok(made)}

\* SSL_connect or SSL_accept: a handshake that is over stays over.
SSLHandshake(w, i, transport) ==
    CASE w.heap[i].handshake = "done" -> {"SCF_SUCCESS"}
      [] w.heap[i].handshake = "failed" -> {"error"}
      [] w.heap[i].handshake = "no" /\ (transport = None \/ w.heap[transport].transport # "open")
           -> {"error"}
      [] OTHER -> {"SCF_SUCCESS", "want", "error"}

Handshake(w, c) ==
    LET i == w.conn[c].obj
        After(ret) ==
          CASE ret = "SCF_SUCCESS" ->
                 [w EXCEPT !.heap[i].handshake = "done", !.conn[c].handshakeDone = TRUE,
                           !.conn[c].state = "CONNECTED"]
            [] ret = "want" -> [w EXCEPT !.conn[c].state = "CONNECTING"]
            [] OTHER -> [w EXCEPT !.heap[i].handshake = "failed", !.conn[c].state = "ERROR"]
    IN  {[w |-> After(ret), ret |-> ret] : ret \in SSLHandshake(w, i, w.conn[c].transport)}

\* Mutant: the engine is deleted with the connection, not with the object.
CloseFreesEngine(w, c) ==
    LET closed == [w EXCEPT !.conn[c].state = "CLOSED", !.conn[c].handshakeDone = FALSE]
        t == w.conn[c].transport
        i == w.conn[c].engine
        shut == IF t = None THEN closed ELSE [closed EXCEPT !.heap[t].transport = "closed"]
    IN  IF w.conn[c].state = "CLOSED" THEN w
        ELSE IF i = None \/ ~w.conn[c].owns THEN shut
        ELSE [shut EXCEPT !.heap[i].engine = "deleted", !.installed = None,
                          !.conn[c].engine = None, !.conn[c].owns = FALSE]

\* Close: the memory stays.
CloseConn(w, c) ==
    IF w.conn[c].state \in {"CLOSED", "CLOSING"} THEN w
    ELSE LET closed == [w EXCEPT !.conn[c].state = "CLOSED", !.conn[c].handshakeDone = FALSE]
             t == w.conn[c].transport
         IN  IF t = None THEN closed ELSE [closed EXCEPT !.heap[t].transport = "closed"]

\* SCF_FreePolicyCtx.
DropReference(w, i) ==
    [w EXCEPT !.heap[i].refs = @ - 1,
              !.heap[i].lib = IF w.heap[i].refs = 1 THEN NoLib ELSE @]

\* Mutant: the object is deleted and keeps its reference to the context.
FreeObjOnly(w, c) ==
    IF w.conn[c].obj = None THEN w
    ELSE [w EXCEPT !.heap[w.conn[c].obj].obj = "freed", !.conn[c].obj = None]

FreePolicyObj(w, c) ==
    LET i == w.conn[c].obj
    IN  IF i = None THEN w
        ELSE [DropReference(w, i) EXCEPT !.heap[i].obj = "freed", !.conn[c].obj = None]

FreePolicyCtx(w, c) ==
    LET i == w.conn[c].ctx
    IN  IF i = None THEN w ELSE [DropReference(w, i) EXCEPT !.conn[c].ctx = None]

\* Mutant: the pointer is not set to null.
FreeTransportKeepsPointer(w, c) ==
    IF w.conn[c].transport = None THEN w
    ELSE [w EXCEPT !.heap[w.conn[c].transport].transport = "deleted"]

FreeTransport(w, c) ==
    LET t == w.conn[c].transport
    IN  IF t = None THEN w
        ELSE [w EXCEPT !.heap[t].transport = "deleted", !.conn[c].transport = None]

\* Mutant: the adaptor keeps its pointer.
FreeEngineOnly(w, c) ==
    IF w.conn[c].engine = None \/ ~w.conn[c].owns THEN w
    ELSE [w EXCEPT !.heap[w.conn[c].engine].engine = "deleted",
                   !.conn[c].engine = None, !.conn[c].owns = FALSE]

\* The adaptor is cleared whichever engine it has.
FreeEngine(w, c) ==
    LET i == w.conn[c].engine
    IN  IF i = None \/ ~w.conn[c].owns THEN w
        ELSE [w EXCEPT !.heap[i].engine = "deleted", !.installed = None,
                       !.conn[c].engine = None, !.conn[c].owns = FALSE]

Cleanup(w, c) ==
    LET closed == IF w.conn[c].state \in {"CONNECTED", "CONNECTING"} THEN CloseConn(w, c) ELSE w
        freed == FreeEngine(FreeTransport(FreePolicyCtx(FreePolicyObj(closed, c), c), c), c)
    IN  [freed EXCEPT !.conn[c].state = "CLOSED"]

\* delete: the destructor cleans up.
Destroy(w, c) == [Cleanup(w, c) EXCEPT !.conn[c].life = "deleted"]

-----------------------------------------------------------------------------
(* The interface.                                                          *)

Live(c) == conn[c].life = "live"

Holds(c, field) == conn[c][field] # None

\* Together they have not set up as often as the bound says.
SetupsLeft == Cardinality({i \in Ids : i[2] <= conn[i[1]].setups}) < MaxAllSetups

\* The samples connect clients and listen on servers, and set a connection
\* up once, or again after a failed Connect has cleaned up.  The code asks
\* for none of this.
MaySetUp(c, server) ==
    /\ conn[c].setups < (IF careful THEN MaxSetups ELSE MaxCareless)
    /\ SetupsLeft
    /\ conn[c].parent = None
    /\ careful => /\ conn[c].server = server
                  /\ ~(Holds(c, "ctx") \/ Holds(c, "transport"))

Create(c, server, psk) ==
    /\ conn[c].life = "none"
    /\ conn' = [conn EXCEPT ![c] = NewConn(server, psk, None)]
    /\ UNCHANGED <<careful, heap, m_cryptoEngine>>

InError(w, c) == [w EXCEPT !.conn[c].state = "ERROR"]

\* Run the next part of a call when this one has succeeded, or give up.
Then(results, OnError(_), Continue(_)) ==
    UNION {IF r.ret = "error" THEN {Fail(OnError(r.w))} ELSE Continue(r.w) : r \in results}

\* A failed setup leaves everything in place; a later failure cleans up; a
\* failed handshake leaves everything in place.
ConnectResults(w, c, i) ==
    LET Keep(x) == InError(x, c)
        Clean(x) == Cleanup(InError(x, c), c)
        Shake(x) == Handshake(x, c)
        MakeObj(x) == Then(CreatePolicyObj(x, c, i), Clean, Shake)
        Transport(x) == Then(SetupTransport(x, c, i, "CONNECTING"), Clean, MakeObj)
    IN  Then(SetupPolicyContext(w, c, i), Keep, Transport)

Connect(c) ==
    /\ Live(c)
    /\ MaySetUp(c, FALSE)
    /\ \E r \in ConnectResults(World, c, <<c, conn[c].setups + 1>>) : Become(r.w)

Listen(c) ==
    LET i == <<c, conn[c].setups + 1>>
        Keep(x) == InError(x, c)
        Bind(x) == Then(SetupTransport(x, c, i, "INIT"), Keep, LAMBDA y : {Ok(y)})
    IN  /\ Live(c)
        /\ MaySetUp(c, TRUE)
        /\ \E r \in Then(SetupPolicyContext(World, c, i), Keep, Bind) : Become(r.w)

\* Mutant: a handshake that has not ended counts as done.
AcceptedStateOptimistic(ret) == "CONNECTED"

\* The state Accept gives to the connection it returns.
AcceptedState(ret) == IF ret = "want" THEN "CONNECTING" ELSE "CONNECTED"

\* Everything Accept does to the new connection: it is returned with its
\* handshake done or under way, or deleted.
AcceptResults(w, c, i) ==
    LET Delete(x) == Destroy(x, c)
        Shake(x) ==
          {IF r.ret = "error" THEN Fail(Delete(r.w))
           ELSE Ok([r.w EXCEPT !.conn[c].state = AcceptedState(r.ret)]) : r \in Handshake(x, c)}
        MakeObj(x) == Then(CreatePolicyObj(x, c, i), Delete, Shake)
    IN  Then(SetupPolicyContext(w, c, i), Delete, MakeObj)

\* The transport is one that Listen has opened: Connect makes an object for
\* its own, or takes it down again.
Listening(t) == heap[t].transport = "open" /\ heap[t].obj = "none"

\* A peer is waiting on the listening transport.  The new connection shares
\* the engine of its parent.
Accept(p, c) ==
    LET i == <<c, 1>>
        new == [NewConn(TRUE, conn[p].usePSK, p) EXCEPT
                  !.transport = i, !.engine = conn[p].engine]
        w == [World EXCEPT !.conn[c] = new, !.heap[i].transport = "open",
                           !.installed = IF Holds(p, "engine") THEN conn[p].engine ELSE @]
    IN  /\ Live(p)
        /\ conn[p].server
        /\ conn[p].parent = None
        /\ Holds(p, "transport")
        /\ Listening(conn[p].transport)
        /\ conn[c].life = "none"
        /\ SetupsLeft
        /\ \E r \in AcceptResults(w, c, i) : Become(r.w)

\* The samples call it until the handshake is no longer under way.
HandshakeStep(c) ==
    /\ Live(c)
    /\ Holds(c, "obj")
    /\ careful => conn[c].state = "CONNECTING"
    /\ \E r \in Handshake(World, c) : Become(r.w)

Close(c) ==
    /\ Live(c)
    /\ Become(CloseConn(World, c))

\* The samples delete a listener after the connections it has accepted.
Delete(c) ==
    /\ Live(c)
    /\ careful => \A d \in Conns : conn[d].parent = c => ~Live(d)
    /\ Become(Destroy(World, c))

Next ==
    \E c \in Conns :
        \/ \E server \in BOOLEAN, psk \in PskModes : Create(c, server, psk)
        \/ Connect(c)
        \/ Listen(c)
        \/ \E p \in Conns : Accept(p, c)
        \/ HandshakeStep(c)
        \/ Close(c)
        \/ Delete(c)

Spec == Init /\ [][Next]_vars

\* Read and Write hand data to the policy object.
CanTransfer(c) == conn[c].state = "CONNECTED" /\ Holds(c, "obj")

IsConnected(c) == conn[c].state = "CONNECTED" /\ conn[c].handshakeDone

-----------------------------------------------------------------------------
(* Properties.                                                             *)

Pointer == Ids \cup {None}

\* Every variable has its type; in particular the reference counter of a
\* context is never taken below zero by Cleanup.
TypeOK ==
    /\ careful \in BOOLEAN
    /\ conn \in [Conns ->
         [life : {"none", "live", "deleted"}, server : BOOLEAN, usePSK : BOOLEAN,
          parent : Conns \cup {None},
          state : {"INIT", "CONNECTING", "CONNECTED", "CLOSED", "ERROR"},
          handshakeDone : BOOLEAN, ctx : Pointer, obj : Pointer, transport : Pointer,
          engine : Pointer, owns : BOOLEAN, setups : 0..MaxSetups]]
    /\ heap \in [Ids ->
         [refs : 0..3, lib : Ids \cup {NoLib, Default}, obj : {"none", "live", "freed"},
          temp : {"none", "live"}, handshake : {"no", "done", "failed"},
          transport : {"none", "open", "closed", "deleted"},
          engine : {"none", "live", "deleted"}]]
    /\ m_cryptoEngine \in Pointer

\* The engine installed in the adaptor has not been deleted, whichever
\* connections were set up, accepted and deleted in between, and although an
\* engine is shared by a listener and the connections it accepts.
InstalledEngineLive ==
    m_cryptoEngine # None => heap[m_cryptoEngine].engine = "live"

\* With a careful application, the pointers of a live connection point to
\* memory that exists, also after a call has failed half way, cleaned up or
\* not, and was made again.
PointersValid ==
    \A c \in Conns : careful /\ Live(c) =>
        /\ Holds(c, "ctx") => heap[conn[c].ctx].refs > 0
        /\ Holds(c, "obj") => heap[conn[c].obj].obj = "live" /\ heap[conn[c].obj].refs > 0
        /\ Holds(c, "transport") => heap[conn[c].transport].transport \in {"open", "closed"}
        /\ conn[c].owns => heap[conn[c].engine].engine = "live"

\* The destructor's promise, when the application is careful: of what a
\* deleted connection has made nothing is left, whichever of its calls failed
\* and in whatever order; except that one which uses a PSK leaves the object
\* made to look up a cipher, and the context by the one reference that this
\* object holds.
DestructorReleases ==
    \A i \in Ids : careful /\ conn[i[1]].life = "deleted" =>
        /\ heap[i].refs = IF heap[i].temp = "live" THEN 1 ELSE 0
        /\ heap[i].temp = "live" => conn[i[1]].usePSK
        /\ heap[i].obj # "live"
        /\ heap[i].transport \notin {"open", "closed"}
        /\ heap[i].engine # "live"

\* The description of SCF_CONN_CONNECTED, the secure channel is ready: Read and
\* Write only ever reach a policy object whose own handshake has succeeded, as
\* IsConnected says, whether it was Connect, Accept or a later HandshakeStep
\* that saw it end; with a careful application the transport is open as well.
ConnectedIsReady ==
    \A c \in Conns : CanTransfer(c) =>
        /\ heap[conn[c].obj].obj = "live"
        /\ heap[conn[c].obj].handshake = "done"
        /\ IsConnected(c)
        /\ careful => Holds(c, "transport") /\ heap[conn[c].transport].transport = "open"

\* A context that is bound to the engine of its connection, its own or its
\* listener's, is not used after the engine is deleted.
EngineOutlivesContext ==
    \A c \in Conns : careful /\ Live(c) /\ Holds(c, "ctx") /\ Holds(c, "engine") =>
        (heap[conn[c].ctx].lib = conn[c].engine => heap[conn[c].engine].engine = "live")

\* The comment and the warning in SetupPolicyContext: a connection without
\* an engine falls back to the default software implementation.
FallbackIsSoftware ==
    \A c \in Conns : Live(c) /\ Holds(c, "ctx") /\ ~Holds(c, "engine") =>
        heap[conn[c].ctx].lib \in {NoLib, Default}
=============================================================================

---------------------------- MODULE PolicyConfig ----------------------------
(***************************************************************************)
(* Configuring a policy context and using it for objects: the setters of   *)
(* scf/policy/policy.cpp and scf/policy/auth/psk/psk.cpp, the functions of *)
(* OpenSSLAdaptor they end in, SCF_SetFd and the handshake.                *)
(*                                                                         *)
(* A function of the adaptor is an operator from the context to the set of *)
(* the results it can have: the context it leaves behind and whether it    *)
(* returns SCF_SUCCESS.  The SSL_CTX of the context is its field ssl.      *)
(* Protocol versions are numbered as on the wire (0x0303 is 3), 0 stands   *)
(* for a bound that is not set, and a set of bits for a verify mode.       *)
(* SSL_OP_NO_RENEGOTIATION and the session cache, which every SSL_CTX gets *)
(* in the same way, are left out.                                          *)
(***************************************************************************)
EXTENDS Integers, FiniteSets

CONSTANTS
    Objs,           \* the policy objects
    VerifyModes,    \* the verify modes the application passes
    Bounds,         \* the protocol versions it passes as bounds
    Forbids,        \* the lists of forbidden versions it passes, as sets
    Suites,         \* the lists of cipher suites it passes, as sets
    Careful,        \* does it configure contexts as the samples do
    None            \* the null pointer

VerifyBits == {"DEFAULT", "CUSTOMER", "PEER", "FAIL_IF_NO_PEER_CERT"}

\* TLS 1.0 to TLS 1.3, the versions OpenSSL knows.
TlsVersions == 1..4
TLS12 == 3
TLS13 == 4

\* The cipher suites that have a name: CipherId2CipherStr returns no string
\* for any other.
NamedSuites == {"tls12_suite", "tls13_suite"}

ASSUME ConfigAssumption ==
    /\ VerifyModes \subseteq SUBSET VerifyBits
    /\ Bounds \subseteq Nat
    /\ Forbids \subseteq SUBSET Nat
    /\ Suites \subseteq SUBSET (NamedSuites \cup {"other_suite"})
    /\ Careful \in BOOLEAN

Roles == {"NONE", "CLIENT", "SERVER"}
PolicyModes == {"HIGH", "MIDDLE", "CUSTOMER"}

VARIABLES
    ctx,        \* the SCF_PolicyCtx
    obj,        \* the SCF_PolicyObjs
    policyOk,   \* did the last SCF_SetPolicy of the context return success
    crashed     \* the null pointer OpenSSL was made to write to, or "no"

vars == <<ctx, obj, policyOk, crashed>>

Ok(c) == {[c |-> c, ok |-> TRUE]}
Fail(c) == {[c |-> c, ok |-> FALSE]}

-----------------------------------------------------------------------------
(* The adaptor.                                                            *)

\* A new SSL_CTX, from SSL_CTX_new or SSL_CTX_new_ex with the method of the
\* role: no bound, nothing forbidden, no verification, no callback.
SslCtxNew(role) ==
    [method |-> role, min |-> 0, max |-> 0, no |-> {}, verify |-> {}, level |-> 1,
     suites |-> NamedSuites, app |-> FALSE, find |-> FALSE, use |-> FALSE]

\* SSL_CTX_set_min_proto_version and SSL_CTX_set_max_proto_version refuse what
\* is no version, and a version that is not built in.
BoundOutcomes(v) ==
    IF v = 0 THEN {TRUE} ELSE IF v \in TlsVersions THEN BOOLEAN ELSE {FALSE}

\* MapVersion2NoOpt has an option for these versions only.
Mapped == {TLS12, TLS13}

\* The options are computed from the whole list before any is set, and are
\* only ever added.  Without an SSL_CTX OpenSSL refuses the bounds.
SetProtocolVersion(c, min, max, forbid) ==
    IF c.ssl = None THEN Fail(c)
    ELSE LET c1 == [c EXCEPT !.ssl.min = min]
             c2 == [c1 EXCEPT !.ssl.max = max]
         IN UNION {
              IF ~minSet THEN Fail(c)
              ELSE IF ~maxSet THEN Fail(c1)
              ELSE IF forbid \subseteq Mapped THEN Ok([c2 EXCEPT !.ssl.no = @ \cup forbid])
              ELSE Fail(c2) : minSet \in BoundOutcomes(min), maxSet \in BoundOutcomes(max)}

\* When no SSL_CTX can be made, or its session cache not turned off, the old
\* one stays; when the versions can not be set, none is left.
InitSsl(c, min) ==
    Fail(c) \cup UNION {IF r.ok THEN Ok(r.c) ELSE Fail([r.c EXCEPT !.ssl = None]) :
        r \in SetProtocolVersion([c EXCEPT !.ssl = [SslCtxNew(c.role) EXCEPT !.level = 2]],
                                 min, TLS13, {})}

InitSslCustomer(c) == Fail(c) \cup Ok([c EXCEPT !.ssl = SslCtxNew(c.role)])

InitPolicyByMode(c) ==
    CASE c.policyMode = "HIGH" -> InitSsl(c, TLS13)
      [] c.policyMode = "MIDDLE" -> InitSsl(c, TLS12)
      [] c.policyMode = "CUSTOMER" -> InitSslCustomer(c)

\* Mutant: every bit is passed on.
SetVerifyModeAllBits(c, verifyMode) ==
    IF c.ssl = None THEN Fail(c) ELSE Ok([c EXCEPT !.ssl.verify = verifyMode])

\* Only these two bits reach OpenSSL.
SetVerifyMode(c, verifyMode) ==
    IF c.ssl = None THEN Fail(c)
    ELSE Ok([c EXCEPT !.ssl.verify = verifyMode \cap {"PEER", "FAIL_IF_NO_PEER_CERT"}])

\* Suites without a name are skipped; OpenSSL keeps its list when it refuses
\* the new one.
SetCipherSuites(c, suites) ==
    IF suites \cap NamedSuites = {} THEN Fail(c)
    ELSE Fail(c) \cup Ok([c EXCEPT !.ssl.suites = suites \cap NamedSuites])

SetPskFindSessionCallback(c, cb) ==
    IF c.ssl = None THEN Fail(c) ELSE Ok([c EXCEPT !.find = cb, !.ssl.find = cb])

SetPskUseSessionCallback(c, cb) ==
    IF c.ssl = None THEN Fail(c) ELSE Ok([c EXCEPT !.use = cb, !.ssl.use = cb])

-----------------------------------------------------------------------------
(* The interface: checks of the arguments, then the adaptor.  A call that  *)
(* a check refuses changes nothing and is not a step.                      *)

NoObj ==
    [made |-> FALSE, role |-> "NONE", policyMode |-> "HIGH", verifyMode |-> {}, isSetRole |-> FALSE,
     find |-> FALSE, use |-> FALSE, fd |-> FALSE, ssl |-> None, handshake |-> "no", session |-> FALSE]

\* SCF_CreatePolicyCtx.
Init ==
    /\ ctx = [role |-> "NONE", policyMode |-> "HIGH", verifyMode |-> {"DEFAULT"},
              isSetRole |-> FALSE, find |-> FALSE, use |-> FALSE, ssl |-> None]
    /\ obj = [o \in Objs |-> NoObj]
    /\ policyOk = FALSE
    /\ crashed = "no"

CheckVerifyMode(verifyMode) ==
    verifyMode \in {{}, {"DEFAULT"}} \/ "PEER" \in verifyMode

\* Mutant: the default mode is passed on as it is.
SamePassedVerifyMode(verifyMode) == verifyMode

PassedVerifyMode(verifyMode) ==
    IF verifyMode = {"DEFAULT"} THEN {"PEER", "FAIL_IF_NO_PEER_CERT"} ELSE verifyMode

\* Mutant: what the adaptor returns is not looked at.
SetPolicyIgnoresErrors(role, verifyMode, policyMode) ==
    LET c == [ctx EXCEPT !.role = role, !.verifyMode = verifyMode, !.policyMode = policyMode]
    IN
    /\ Careful => \A o \in Objs : ~obj[o].made
    /\ role # "NONE"
    /\ CheckVerifyMode(verifyMode)
    /\ \E r \in InitPolicyByMode(c) : ctx' = r.c
    /\ policyOk' = TRUE
    /\ UNCHANGED <<obj, crashed>>

\* Role and modes are stored before anything is known to work.
SetPolicy(role, verifyMode, policyMode) ==
    LET c == [ctx EXCEPT !.role = role, !.verifyMode = verifyMode, !.policyMode = policyMode]
        results == UNION {IF r.ok THEN SetVerifyMode(r.c, PassedVerifyMode(verifyMode)) ELSE {r} :
                             r \in InitPolicyByMode(c)}
    IN
    /\ Careful => \A o \in Objs : ~obj[o].made
    /\ role # "NONE"
    /\ CheckVerifyMode(verifyMode)
    /\ \E r \in results : ctx' = r.c /\ policyOk' = r.ok
    /\ UNCHANGED <<obj, crashed>>

\* A careful application sets the policy before it makes objects, goes on only
\* when that has succeeded, and configures nothing once it is connected.
MayUse == Careful => policyOk
MayConfigure == MayUse /\ (Careful => \A o \in Objs : obj[o].ssl = None)

\* What a call of the adaptor that returns one of results does to the context.
Apply(results) ==
    /\ \E r \in results : ctx' = r.c
    /\ UNCHANGED <<obj, policyOk, crashed>>

\* A call that gives OpenSSL a null SSL_CTX to write to.
Crash ==
    /\ ctx.ssl = None
    /\ crashed' = "SSL_CTX"
    /\ UNCHANGED <<ctx, obj, policyOk>>

\* Mutant: the high mode restricts nothing.
VersionAlwaysAllowed(min, max) == TRUE

VersionAllowed(min, max) == ctx.policyMode = "HIGH" => min = TLS13 /\ max = TLS13

SCF_SetProtocolVersion(min, max, forbid) ==
    /\ MayConfigure
    /\ ctx.role # "NONE"
    /\ VersionAllowed(min, max)
    /\ Apply(SetProtocolVersion(ctx, min, max, forbid))

SCF_SetCipherSuites(suites) ==
    /\ MayConfigure
    /\ ctx.role # "NONE"
    /\ suites # {}
    /\ \/ ctx.ssl # None /\ Apply(SetCipherSuites(ctx, suites))
       \/ suites \cap NamedSuites # {} /\ Crash

SetAppVerifyCallback(cb) ==
    /\ MayConfigure
    /\ ctx.role # "NONE"
    /\ ctx.policyMode = "CUSTOMER" /\ "CUSTOMER" \in ctx.verifyMode
    /\ \/ ctx.ssl # None /\ Apply(Ok([ctx EXCEPT !.ssl.app = cb]))
       \/ Crash

\* These two check the SSL_CTX and not the role.
SCF_SetPskFindSessionCallback(cb) == MayConfigure /\ Apply(SetPskFindSessionCallback(ctx, cb))

SCF_SetPskUseSessionCallback(cb) == MayConfigure /\ Apply(SetPskUseSessionCallback(ctx, cb))

-----------------------------------------------------------------------------
(* Objects.                                                                *)

\* The object copies what the context says at this moment.
CreatePolicyObj(o) ==
    /\ MayUse
    /\ ~obj[o].made
    /\ obj' = [obj EXCEPT ![o] =
                 [NoObj EXCEPT !.made = TRUE, !.role = ctx.role, !.policyMode = ctx.policyMode,
                               !.verifyMode = ctx.verifyMode, !.isSetRole = ctx.isSetRole,
                               !.find = ctx.find, !.use = ctx.use]]
    /\ UNCHANGED <<ctx, policyOk, crashed>>

\* Mutant: any version within the bounds will do.
CheckBoundsOnly(s) ==
    \/ s.min = 0 /\ s.max = 0
    \/ \E v \in s.min..s.max : v \in Mapped

\* The loop over the versions stops at the first one that is not forbidden,
\* and with an error at one it has no option for.
CheckVersion(s) ==
    \/ s.min = 0 /\ s.max = 0
    \/ \E v \in s.min..s.max : s.min..v \subseteq Mapped /\ v \notin s.no

\* Does SCF_SetFd of this object get as far as OpenSSL.
FdAccepted(o) ==
    /\ obj[o].made
    /\ obj[o].role # "NONE"
    /\ obj[o].ssl = None => ctx.ssl # None /\ CheckVersion(ctx.ssl)

\* The SSL takes its settings from the SSL_CTX of this moment.  SSL_set_ex_data
\* or SSL_set_fd may fail; the SSL is then freed if it is new, and nothing has
\* changed.
SetFd(o) ==
    /\ FdAccepted(o)
    /\ obj' = [obj EXCEPT ![o].ssl = IF @ = None THEN ctx.ssl ELSE @, ![o].fd = TRUE]
    /\ UNCHANGED <<ctx, policyOk, crashed>>

\* SSL_new may return null when memory is short.  The pointer is not looked at
\* before SSL_set_ex_data writes through it.
SetFdWithoutSsl(o) ==
    /\ FdAccepted(o)
    /\ obj[o].ssl = None
    /\ crashed' = "SSL"
    /\ UNCHANGED <<ctx, obj, policyOk>>

\* What the application's callback can return.  A careful one says SCF_SUCCESS
\* only when it has made a session, as its prototype asks.
CallbackResults ==
    {"session", "session_without_cipher", "error"} \cup (IF Careful THEN {} ELSE {"no_session"})

\* The results of the callback with which the wrapper goes on, and turns the
\* verification of the peer off.  It takes the callback from the object.
PskFindSessionCbWrapper(o) ==
    IF obj[o].find THEN CallbackResults \ {"error", "session_without_cipher"} ELSE {}

PskUseSessionCbWrapper(o) == IF obj[o].use THEN CallbackResults \ {"error"} ELSE {}

\* How one call of SSL_accept or SSL_connect ends.  The method of the SSL must
\* be the one of the role.
HandshakeOutcomes(o) ==
    IF obj[o].ssl.method = obj[o].role THEN {"no", "done", "failed"} ELSE {"failed"}

\* One call of SSL_accept: it wants more data, fails or ends the handshake;
\* on the way the client may have offered a PSK identity, and an error of the
\* wrapper fails the handshake.
Accept(o) ==
    /\ obj[o].made /\ obj[o].ssl # None
    /\ obj[o].role = "SERVER"
    /\ obj[o].handshake = "no"
    /\ \E h \in HandshakeOutcomes(o) :
         \/ obj' = [obj EXCEPT ![o].isSetRole = TRUE, ![o].handshake = h]
         \/ /\ obj[o].ssl.find
            /\ \E found \in PskFindSessionCbWrapper(o) :
                 obj' = [obj EXCEPT ![o].isSetRole = TRUE, ![o].handshake = h,
                                    ![o].ssl.verify = {}, ![o].session = (found = "session")]
    /\ UNCHANGED <<ctx, policyOk, crashed>>

\* One call of SSL_connect; verification stays as it is with a PSK too.
Connect(o) ==
    /\ obj[o].made /\ obj[o].ssl # None
    /\ obj[o].role = "CLIENT"
    /\ obj[o].handshake = "no"
    /\ \E h \in HandshakeOutcomes(o) :
         \E s \in {obj[o].session} \cup
                  {TRUE : r \in IF obj[o].ssl.use THEN PskUseSessionCbWrapper(o) ELSE {}} :
           obj' = [obj EXCEPT ![o].isSetRole = TRUE, ![o].handshake = h, ![o].session = s]
    /\ UNCHANGED <<ctx, policyOk, crashed>>

\* SCF_FreePolicyObj: the SSL is freed with the object.
FreePolicyObj(o) ==
    /\ obj[o].made
    /\ obj' = [obj EXCEPT ![o] = NoObj]
    /\ UNCHANGED <<ctx, policyOk, crashed>>

-----------------------------------------------------------------------------
Next ==
    /\ crashed = "no"
    /\ \/ \E role \in Roles, verifyMode \in VerifyModes, policyMode \in PolicyModes :
             SetPolicy(role, verifyMode, policyMode)
       \/ \E min, max \in Bounds, forbid \in Forbids : SCF_SetProtocolVersion(min, max, forbid)
       \/ \E suites \in Suites : SCF_SetCipherSuites(suites)
       \/ \E cb \in BOOLEAN :
             \/ SetAppVerifyCallback(cb)
             \/ SCF_SetPskFindSessionCallback(cb)
             \/ SCF_SetPskUseSessionCallback(cb)
       \/ \E o \in Objs :
             \/ CreatePolicyObj(o)
             \/ SetFd(o)
             \/ SetFdWithoutSsl(o)
             \/ Accept(o)
             \/ Connect(o)
             \/ FreePolicyObj(o)

Spec == Init /\ [][Next]_vars

-----------------------------------------------------------------------------
(* Properties.                                                             *)

SslCtxs ==
    [method : Roles, min : {0} \cup Bounds \cup {TLS12, TLS13},
     max : {0} \cup Bounds \cup {TLS13}, no : SUBSET Mapped,
     verify : SUBSET {"PEER", "FAIL_IF_NO_PEER_CERT"}, level : {1, 2},
     suites : SUBSET NamedSuites, app : BOOLEAN, find : BOOLEAN, use : BOOLEAN]

\* The null pointer is no SSL_CTX.
ASSUME NullAssumption == None \notin SslCtxs

Ctxs ==
    [role : Roles, policyMode : PolicyModes, verifyMode : VerifyModes \cup {{"DEFAULT"}},
     isSetRole : {FALSE}, find : BOOLEAN, use : BOOLEAN, ssl : SslCtxs \cup {None}]

PolicyObjs ==
    [made : BOOLEAN, role : Roles, policyMode : PolicyModes, verifyMode : SUBSET VerifyBits,
     isSetRole : BOOLEAN, find : BOOLEAN, use : BOOLEAN, fd : BOOLEAN, ssl : SslCtxs \cup {None},
     handshake : {"no", "done", "failed"}, session : BOOLEAN]

\* Every variable has its type.
TypeOK ==
    /\ ctx \in Ctxs
    /\ obj \in [Objs -> PolicyObjs]
    /\ policyOk \in BOOLEAN
    /\ crashed \in {"no", "SSL_CTX", "SSL"}

\* The versions an SSL offers to its peer, those the library does not support
\* included: OpenSSL offers them when the lower bound leaves them.
Offered(s) ==
    {v \in TlsVersions : (s.min = 0 \/ s.min <= v) /\ (s.max = 0 \/ v <= s.max) /\ v \notin s.no}

\* The bits of a verify mode that a handshake must respect: the default mode is
\* documented as both together.
Demanded(verifyMode) ==
    IF verifyMode = {"DEFAULT"} THEN {"PEER", "FAIL_IF_NO_PEER_CERT"}
    ELSE verifyMode \cap {"PEER", "FAIL_IF_NO_PEER_CERT"}

\* What an object says about itself is true of the SSL it communicates with:
\* the method is the one of its role, in the high mode nothing but TLS 1.3 is
\* offered, and outside the customer mode the security level is two.
ObjectKeepsMode ==
    \A o \in Objs : obj[o].ssl # None =>
        /\ obj[o].ssl.method = obj[o].role
        /\ obj[o].policyMode = "HIGH" => Offered(obj[o].ssl) = {TLS13}
        /\ obj[o].policyMode # "CUSTOMER" => obj[o].ssl.level = 2

\* The verification an object was made with is in force in its handshake,
\* unless the callback of the server has returned a complete PSK session.
ObjectKeepsVerification ==
    \A o \in Objs : obj[o].ssl # None =>
        \/ obj[o].ssl.verify = Demanded(obj[o].verifyMode)
        \/ obj[o].role = "SERVER" /\ obj[o].find /\ obj[o].session

\* The supported versions an SSL can use.  The list of SCF_SetCipherSuites goes
\* to the suites of TLS 1.3; TLS 1.2 keeps the default list of OpenSSL.
Usable(s) == {v \in Offered(s) \cap Mapped : v = TLS13 => "tls13_suite" \in s.suites}

\* An SSL that is made under a bound can negotiate a supported version, whatever
\* sequence of bounds, forbidden versions and suites was configured before,
\* calls that failed half way included.  Two cases are the application's:
\* without any bound CheckVersion lets everything through, and a list without a
\* suite of TLS 1.3 is accepted although nothing but TLS 1.3 is offered.
ObjectCanNegotiate ==
    \A o \in Objs : LET s == obj[o].ssl IN
        s # None /\ (s.min # 0 \/ s.max # 0) =>
            \/ Usable(s) # {}
            \/ Offered(s) = {TLS13} /\ "tls13_suite" \notin s.suites

\* A careful application never makes OpenSSL write to a null SSL_CTX.
NoNullSslCtx == crashed # "SSL_CTX"
=============================================================================

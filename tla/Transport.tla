------------------------------ MODULE Transport ------------------------------
(***************************************************************************)
(* The transports below a connection: SocketTransport                      *)
(* (transport/socket_transport.cpp) over the descriptors of the process,   *)
(* and the stub UrmaTransport (transport/urma_transport.cpp).              *)
(*                                                                         *)
(* The kernel is external: a table of descriptors, in which a number that  *)
(* has been closed is given out again.  The other end of a connection      *)
(* sends and closes as it likes.  An operator on the world, the transports *)
(* and the table together, is one function or one system call.             *)
(***************************************************************************)
EXTENDS Integers

CONSTANTS
    Transports,     \* the transport objects
    MaxFd,          \* the descriptors of the process are 0..MaxFd
    MaxBytes,       \* bound on what is received and not yet read, and on lengths
    Careful,        \* does the application follow the rules below
    None            \* no socket, no result

ASSUME TransportAssumption ==
    /\ MaxFd \in Nat
    /\ MaxBytes \in Nat \ {0}
    /\ Careful \in BOOLEAN

VARIABLES
    world,          \* the transports and the descriptor table
    result          \* what the last Send or Recv returned, None after other calls

vars == <<world, result>>

Fds == 0..MaxFd
TransportResults == {"SUCCESS", "ERROR", "WOULD_BLOCK", "CONNECTION_CLOSED"}
AddressTypes == {"IPv4", "IPv6", "DOMAIN", "URMA", "CUSTOM"}

NoTransport == [alive |-> FALSE, protocol |-> "TCP", fd |-> -1, connected |-> FALSE, bound |-> FALSE]

-----------------------------------------------------------------------------
(* System calls.                                                           *)

\* A socket remembers the transport it was opened by or for, an error that no
\* call has returned yet, and whether the application has been told its end.
Socket(t, state) ==
    [opener |-> t, state |-> state, rx |-> 0, peer |-> "open", error |-> FALSE, ended |-> FALSE]

\* socket() and accept() return a number that is free, closed ones included.
FreeFds(w) == {n \in Fds : w.table[n] = None}

\* close().
CloseFd(w, n) == [w EXCEPT !.table[n] = None]

-----------------------------------------------------------------------------
(* SocketTransport.                                                        *)

\* Mutant: a member is not initialised.
NewUninitialised(w, t, protocol) ==
    [w EXCEPT !.trans[t] = [NoTransport EXCEPT !.alive = TRUE, !.protocol = protocol, !.bound = None]]

\* Both factories and the default constructors.
New(w, t, protocol) ==
    [w EXCEPT !.trans[t] = [NoTransport EXCEPT !.alive = TRUE, !.protocol = protocol]]

\* The constructor with a descriptor.
NewWithFd(w, t, n) ==
    [w EXCEPT !.trans[t] = [NoTransport EXCEPT !.alive = TRUE, !.fd = n, !.connected = (n >= 0)]]

\* Mutant: the number is kept.
CloseKeepsFd(w, t) ==
    [(IF w.trans[t].fd >= 0 THEN CloseFd(w, w.trans[t].fd) ELSE w) EXCEPT
        !.trans[t].connected = FALSE, !.trans[t].bound = FALSE]

\* SocketTransport::Close and, without a descriptor, UrmaTransport::Close.
Close(w, t) ==
    [(IF w.trans[t].fd >= 0 THEN CloseFd(w, w.trans[t].fd) ELSE w) EXCEPT
        !.trans[t] = [@ EXCEPT !.fd = -1, !.connected = FALSE, !.bound = FALSE]]

Destructor(w, t) == [Close(w, t) EXCEPT !.trans[t] = NoTransport]

\* Addresses of these types are left to other transports; the others are parsed
\* or looked up, which may fail.
ResolveAddress(type) == IF type \in {"URMA", "CUSTOM"} THEN {FALSE} ELSE BOOLEAN

\* m_fd = socket(...): what m_fd was before is forgotten, not closed.
OpenSocket(w, t) ==
    {[w EXCEPT !.trans[t].fd = -1]} \cup
    {[w EXCEPT !.table[n] = Socket(t, "new"), !.trans[t].fd = n] : n \in FreeFds(w)}

\* How Connect goes on with a socket: SetNonBlocking or connect() fails and the
\* socket is closed; or the connection is there or on its way.
ConnectSocket(w, t) ==
    LET become(state) ==
            [w EXCEPT !.table[w.trans[t].fd].state = state, !.trans[t].connected = TRUE]
    IN {Close(w, t), become("stream"), become("connecting")}

\* How Bind goes on: bind(), listen() or SetNonBlocking fails, or none does.
BindSocket(w, t) ==
    {Close(w, t),
     [w EXCEPT !.table[w.trans[t].fd].state = "listening", !.trans[t].bound = TRUE]}

\* A socket that could not be opened ends both calls.
WithSocket(w, t, Rest(_, _)) ==
    UNION {IF x.trans[t].fd < 0 THEN {x} ELSE Rest(x, t) : x \in OpenSocket(w, t)}

-----------------------------------------------------------------------------
(* The calls of the application.                                           *)

Init ==
    /\ world = [trans |-> [t \in Transports |-> NoTransport], table |-> [n \in Fds |-> None]]
    /\ result = None

Alive(t, protocol) == world.trans[t].alive /\ world.trans[t].protocol = protocol

\* A call that is not Send or Recv and leaves one of these worlds.
Call(worlds) == world' \in worlds /\ result' = None

Create(t) ==
    /\ ~world.trans[t].alive
    /\ \E protocol \in {"TCP", "URMA"} : Call({New(world, t, protocol)})

\* The application wraps a connection that it has accepted itself, and leaves
\* the descriptor to the transport.
CreateWithFd(t) ==
    /\ ~world.trans[t].alive
    /\ \E n \in FreeFds(world) :
         Call({NewWithFd([world EXCEPT !.table[n] = Socket(t, "stream")], t, n)})

Destroy(t) == world.trans[t].alive /\ Call({Destructor(world, t)})

CallClose(t) == world.trans[t].alive /\ Call({Close(world, t)})

\* A careful application closes a transport before it connects or binds again.
MayOpen(t) == Careful => world.trans[t].fd < 0

Connect(t, type) ==
    /\ Alive(t, "TCP")
    /\ MayOpen(t)
    /\ \E resolved \in ResolveAddress(type) :
         IF resolved THEN Call(WithSocket(world, t, ConnectSocket)) ELSE Call({world})

Bind(t, type) ==
    /\ Alive(t, "TCP")
    /\ MayOpen(t)
    /\ \E resolved \in ResolveAddress(type) :
         IF resolved THEN Call(WithSocket(world, t, BindSocket)) ELSE Call({world})

\* Mutant: the descriptor is not closed when no transport can be made for it.
AcceptLeaks(t, new) ==
    /\ Alive(t, "TCP") /\ ~world.trans[new].alive
    /\ world.trans[t].bound /\ world.trans[t].fd >= 0
    /\ world.table[world.trans[t].fd] # None
    /\ world.table[world.trans[t].fd].state = "listening"
    /\ \E n \in FreeFds(world) :
         LET accepted == [world EXCEPT !.table[n] = Socket(new, "stream")]
         IN Call({accepted, NewWithFd(accepted, new, n)})

\* When nobody has connected, nothing changes.  Otherwise the new descriptor is
\* closed again or becomes a transport.
Accept(t, new) ==
    /\ Alive(t, "TCP") /\ ~world.trans[new].alive
    /\ world.trans[t].bound /\ world.trans[t].fd >= 0
    /\ world.table[world.trans[t].fd] # None
    /\ world.table[world.trans[t].fd].state = "listening"
    /\ \E n \in FreeFds(world) :
         LET accepted == [world EXCEPT !.table[n] = Socket(new, "stream")]
         IN Call({CloseFd(accepted, n), NewWithFd(accepted, new, n)})

\* The copy has the same descriptor.
Clone(t, new) ==
    /\ world.trans[t].alive /\ ~world.trans[new].alive
    /\ Careful => world.trans[t].fd < 0
    /\ Call({[world EXCEPT !.trans[new] = world.trans[t]]})

\* What send() or recv() can return: a number of bytes or one of these.
EAGAIN == -1
OtherErrno == -2

\* A connection that failed (refused, reset, timed out) returns its error once;
\* afterwards nothing can be sent and recv() finds the end.
SendOutcomes(s, len) ==
    IF s = None THEN {OtherErrno}
    ELSE CASE s.state = "stream" -> (IF len = 0 THEN {0} ELSE 1..len) \cup {EAGAIN, OtherErrno}
           [] s.state = "connecting" -> {EAGAIN}
           [] OTHER -> {OtherErrno}

\* What was received can be read also after the end and after a failure.
RecvOutcomes(s, len) ==
    IF s = None THEN {OtherErrno}
    ELSE CASE s.state \in {"stream", "failed"} /\ s.rx > 0 ->
                (IF len = 0 THEN {0} ELSE {n \in 1..len : n <= s.rx}) \cup {OtherErrno}
           [] s.state = "stream" /\ s.rx = 0 /\ s.peer = "open" ->
                {IF len = 0 THEN 0 ELSE EAGAIN, OtherErrno}
           [] s.state = "stream" /\ s.rx = 0 /\ s.peer = "closed" -> {0, OtherErrno}
           [] s.state = "failed" /\ s.rx = 0 -> {IF s.error THEN OtherErrno ELSE 0}
           [] s.state = "connecting" -> {EAGAIN}
           [] OTHER -> {OtherErrno}

\* Mutant: a call that would block is taken for the end of the connection.
ResultOrClosed(n) ==
    IF n = OtherErrno THEN "ERROR" ELSE IF n \in {0, EAGAIN} THEN "CONNECTION_CLOSED" ELSE "SUCCESS"

\* The same in Send and Recv.
ResultOf(n) ==
    CASE n = OtherErrno -> "ERROR"
      [] n = EAGAIN -> "WOULD_BLOCK"
      [] n = 0 -> "CONNECTION_CLOSED"
      [] OTHER -> "SUCCESS"

MayTransfer(t) == Alive(t, "TCP") /\ world.trans[t].fd >= 0 /\ world.trans[t].connected

\* A careful application sends and receives at least one byte.
Lengths == IF Careful THEN 1..MaxBytes ELSE 0..MaxBytes

\* A call on the socket s has returned n and taken so many bytes from it.
Transferred(s, n, taken) ==
    IF s = None THEN None
    ELSE [s EXCEPT !.rx = @ - taken, !.error = @ /\ n # OtherErrno,
                   !.ended = @ \/ ResultOf(n) = "CONNECTION_CLOSED"]

Send(t, len) ==
    /\ MayTransfer(t)
    /\ LET fd == world.trans[t].fd
       IN \E n \in SendOutcomes(world.table[fd], len) :
            /\ result' = [t |-> t, value |-> ResultOf(n)]
            /\ world' = [world EXCEPT !.table[fd] = Transferred(@, n, 0)]

Recv(t, len) ==
    /\ MayTransfer(t)
    /\ LET fd == world.trans[t].fd
       IN \E n \in RecvOutcomes(world.table[fd], len) :
            /\ result' = [t |-> t, value |-> ResultOf(n)]
            /\ world' = [world EXCEPT !.table[fd] = Transferred(@, n, IF n > 0 THEN n ELSE 0)]

\* Send and Recv without a connection, and everything that UrmaTransport is
\* asked to do, return ERROR.
TransferRefused(t) ==
    /\ world.trans[t].alive /\ ~MayTransfer(t)
    /\ result' = [t |-> t, value |-> "ERROR"]
    /\ UNCHANGED world

UrmaConnect(t) == Alive(t, "URMA") /\ Call({[world EXCEPT !.trans[t].connected = FALSE]})

-----------------------------------------------------------------------------
(* The other end.                                                          *)

ConnectionEstablished(n) ==
    /\ world.table[n] # None /\ world.table[n].state = "connecting"
    /\ Call({[world EXCEPT !.table[n].state = "stream"]})

ConnectionFails(n) ==
    /\ world.table[n] # None /\ world.table[n].state \in {"connecting", "stream"}
    /\ Call({[world EXCEPT !.table[n].state = "failed", !.table[n].error = TRUE]})

PeerSends(n) ==
    /\ world.table[n] # None /\ world.table[n].state = "stream" /\ world.table[n].peer = "open"
    /\ world.table[n].rx < MaxBytes
    /\ Call({[world EXCEPT !.table[n].rx = @ + 1]})

PeerCloses(n) ==
    /\ world.table[n] # None /\ world.table[n].state = "stream" /\ world.table[n].peer = "open"
    /\ Call({[world EXCEPT !.table[n].peer = "closed"]})

-----------------------------------------------------------------------------
Next ==
    \/ \E t \in Transports :
         \/ Create(t)
         \/ CreateWithFd(t)
         \/ Destroy(t)
         \/ CallClose(t)
         \/ \E type \in AddressTypes : Connect(t, type) \/ Bind(t, type)
         \/ \E new \in Transports : Accept(t, new) \/ Clone(t, new)
         \/ \E len \in Lengths : Send(t, len) \/ Recv(t, len)
         \/ TransferRefused(t)
         \/ UrmaConnect(t)
    \/ \E n \in Fds :
         \/ ConnectionEstablished(n)
         \/ ConnectionFails(n)
         \/ PeerSends(n)
         \/ PeerCloses(n)

Spec == Init /\ [][Next]_vars

-----------------------------------------------------------------------------
(* Properties.                                                             *)

TransportTypes ==
    [alive : BOOLEAN, protocol : {"TCP", "URMA"}, fd : Fds \cup {-1}, connected : BOOLEAN, bound : BOOLEAN]

SocketTypes ==
    [opener : Transports, state : {"new", "connecting", "stream", "failed", "listening"},
     rx : 0..MaxBytes, peer : {"open", "closed"}, error : BOOLEAN, ended : BOOLEAN]

ResultTypes == [t : Transports, value : TransportResults]

\* None is neither a socket nor a result.
ASSUME NoneAssumption == None \notin SocketTypes /\ None \notin ResultTypes

Worlds ==
    [trans : [Transports -> TransportTypes], table : [Fds -> SocketTypes \cup {None}]]

\* Every variable has its type.
TypeOK ==
    /\ world \in Worlds
    /\ result \in ResultTypes \cup {None}

\* The flags of a transport fit the socket: connected or on its way there, or
\* listening.
Fits(r, s) ==
    /\ r.connected => s.state \in {"connecting", "stream", "failed"}
    /\ r.bound => s.state = "listening"

\* A descriptor that a transport holds is open and was opened by or for this
\* transport, although the numbers of closed descriptors come back: Close and
\* the destructor never close the socket of somebody else, and the flags of an
\* earlier use do not survive into a later one.
HoldsOwnSocket ==
    \A t \in Transports :
        LET fd == world.trans[t].fd
        IN fd >= 0 => /\ world.table[fd] # None
                      /\ world.table[fd].opener = t
                      /\ Fits(world.trans[t], world.table[fd])

\* What Clone is commented with, that the descriptor is not copied and its life
\* is the caller's to manage: nothing closes it while a transport holds it.
HeldIsOpen ==
    \A t \in Transports : world.trans[t].fd >= 0 => world.table[world.trans[t].fd] # None

\* Every open descriptor is held by a transport that is alive, whatever failed
\* on the way: when all transports are destroyed nothing is left open.
NoDescriptorLeaked ==
    \A n \in Fds : world.table[n] # None =>
        \E t \in Transports : world.trans[t].alive /\ world.trans[t].fd = n

\* Once Send or Recv has returned CONNECTION_CLOSED for a length that is not 0,
\* nothing is left on the socket and nothing ever arrives: the other end has
\* closed and all it sent has been read, or the connection has failed.
ClosedIsTheEnd ==
    \A n \in Fds : world.table[n] # None /\ world.table[n].ended => world.table[n].rx = 0
=============================================================================

--------------------------- MODULE TransportProofs ---------------------------
(***************************************************************************)
(* Proofs about the transports of a careful application, for any number of *)
(* transports, descriptors and bytes.                                      *)
(*                                                                         *)
(* Every call makes its new world from the old one in one of four ways: it *)
(* changes the fields of a transport but not its descriptor, gives it a    *)
(* descriptor that was free, takes its descriptor away, or changes a       *)
(* socket.  Each way keeps Safe, the inductive invariant.                  *)
(***************************************************************************)
EXTENDS Transport, TLAPS

\* What a transport holds is its own and fits; without a descriptor it has no
\* flags, and without life no descriptor.
SafeAt(w, t) ==
    LET r == w.trans[t]
    IN /\ r.fd # -1 => /\ r.alive
                       /\ w.table[r.fd] # None
                       /\ w.table[r.fd].opener = t
                       /\ Fits(r, w.table[r.fd])
       /\ r.fd = -1 => ~r.connected /\ ~r.bound

\* Nothing is left on a socket whose end was told, and nothing can arrive.
Dead(s) == s.ended => s.rx = 0 /\ (s.peer = "closed" \/ s.state = "failed")

\* An open socket is held by the transport that it was opened by or for.
HeldAt(w, n) ==
    w.table[n] # None => w.trans[w.table[n].opener].fd = n /\ Dead(w.table[n])

Safe(w) ==
    /\ w \in Worlds
    /\ \A t \in Transports : SafeAt(w, t)
    /\ \A n \in Fds : HeldAt(w, n)

-----------------------------------------------------------------------------
(* The four ways.                                                          *)

\* A transport changes and keeps its descriptor, or goes on having none.
LEMMA ChangeTransport ==
    ASSUME NEW w, Safe(w), NEW x \in Worlds, NEW t \in Transports, NEW r \in TransportTypes,
           x.trans = [w.trans EXCEPT ![t] = r], x.table = w.table,
           r.fd = w.trans[t].fd,
           r.fd = -1 => ~r.connected /\ ~r.bound,
           r.fd # -1 => r.alive /\ Fits(r, w.table[r.fd])
    PROVE  Safe(x)
<1>1. w \in Worlds
  BY DEF Safe
<1>2. ASSUME NEW u \in Transports PROVE SafeAt(x, u)
  <2>1. SafeAt(w, u) /\ SafeAt(w, t)
    BY DEF Safe
  <2>2. CASE u = t
    <3>1. x.trans[u] = r
      BY <1>1, <2>2 DEF Worlds
    <3>2. QED
      BY <2>1, <2>2, <3>1 DEF SafeAt
  <2>3. CASE u # t
    <3>1. x.trans[u] = w.trans[u]
      BY <1>1, <2>3 DEF Worlds
    <3>2. QED
      BY <2>1, <3>1 DEF SafeAt
  <2>4. QED
    BY <2>2, <2>3
<1>3. ASSUME NEW n \in Fds PROVE HeldAt(x, n)
  <2>1. HeldAt(w, n)
    BY DEF Safe
  <2>2. \A u \in Transports : x.trans[u].fd = w.trans[u].fd
    BY <1>1 DEF Worlds
  <2>3. w.table[n] # None => w.table[n].opener \in Transports
    BY <1>1 DEF Worlds, SocketTypes
  <2>4. QED
    BY <2>1, <2>2, <2>3 DEF HeldAt
<1>4. QED
  BY <1>2, <1>3 DEF Safe

\* A transport without a descriptor gets one that was free.
LEMMA GiveDescriptor ==
    ASSUME NEW w, Safe(w), NEW x \in Worlds, NEW t \in Transports, NEW r \in TransportTypes,
           NEW n \in Fds, NEW s \in SocketTypes,
           x.trans = [w.trans EXCEPT ![t] = r], x.table = [w.table EXCEPT ![n] = s],
           w.trans[t].fd = -1, w.table[n] = None,
           r.fd = n, r.alive, s.opener = t, Fits(r, s), Dead(s)
    PROVE  Safe(x)
<1>1. w \in Worlds
  BY DEF Safe
<1>0. n # -1 /\ s # None
  BY NoneAssumption, TransportAssumption DEF Fds
<1>2. ASSUME NEW u \in Transports PROVE SafeAt(x, u)
  <2>1. SafeAt(w, u) /\ SafeAt(w, t)
    BY DEF Safe
  <2>2. CASE u = t
    <3>1. x.trans[u] = r /\ x.table[n] = s
      BY <1>1, <2>2 DEF Worlds
    <3>2. QED
      BY <1>0, <2>1, <2>2, <3>1 DEF SafeAt
  <2>3. CASE u # t
    <3>1. x.trans[u] = w.trans[u]
      BY <1>1, <2>3 DEF Worlds
    <3>2. w.trans[u].fd # -1 => w.trans[u].fd \in Fds /\ w.trans[u].fd # n
      BY <1>1, <2>1 DEF SafeAt, Worlds, TransportTypes
    <3>3. w.trans[u].fd # -1 => x.table[w.trans[u].fd] = w.table[w.trans[u].fd]
      BY <1>1, <3>2 DEF Worlds
    <3>4. QED
      BY <2>1, <3>1, <3>3 DEF SafeAt
  <2>4. QED
    BY <2>2, <2>3
<1>3. ASSUME NEW k \in Fds PROVE HeldAt(x, k)
  <2>1. HeldAt(w, k)
    BY DEF Safe
  <2>2. CASE k = n
    <3>1. x.table[k] = s /\ x.trans[t] = r
      BY <1>1, <2>2 DEF Worlds
    <3>2. QED
      BY <2>2, <3>1 DEF HeldAt
  <2>3. CASE k # n
    <3>1. x.table[k] = w.table[k]
      BY <1>1, <2>3 DEF Worlds
    <3>2. SUFFICES ASSUME w.table[k] # None PROVE x.trans[w.table[k].opener].fd = k
      BY <2>1, <3>1 DEF HeldAt
    <3>3. w.table[k].opener \in Transports /\ w.trans[w.table[k].opener].fd = k
      BY <1>1, <2>1, <3>2 DEF HeldAt, Worlds, SocketTypes
    <3>4. w.table[k].opener # t
      BY <3>3, TransportAssumption DEF Fds
    <3>5. x.trans[w.table[k].opener] = w.trans[w.table[k].opener]
      BY <1>1, <3>3, <3>4 DEF Worlds
    <3>6. QED
      BY <3>3, <3>5
  <2>4. QED
    BY <2>2, <2>3
<1>4. QED
  BY <1>2, <1>3 DEF Safe

\* The descriptor of a transport is closed and forgotten.
LEMMA TakeDescriptor ==
    ASSUME NEW w, Safe(w), NEW x \in Worlds, NEW t \in Transports, NEW r \in TransportTypes,
           w.trans[t].fd # -1,
           x.trans = [w.trans EXCEPT ![t] = r],
           x.table = [w.table EXCEPT ![w.trans[t].fd] = None],
           r.fd = -1, ~r.connected, ~r.bound
    PROVE  Safe(x)
<1>1. w \in Worlds
  BY DEF Safe
<1>0. w.trans[t].fd \in Fds
  BY <1>1 DEF Worlds, TransportTypes
<1>2. ASSUME NEW u \in Transports PROVE SafeAt(x, u)
  <2>1. SafeAt(w, u) /\ SafeAt(w, t)
    BY DEF Safe
  <2>2. CASE u = t
    <3>1. x.trans[u] = r
      BY <1>1, <2>2 DEF Worlds
    <3>2. QED
      BY <3>1 DEF SafeAt
  <2>3. CASE u # t
    <3>1. x.trans[u] = w.trans[u]
      BY <1>1, <2>3 DEF Worlds
    <3>2. w.trans[u].fd # -1 => w.trans[u].fd \in Fds /\ w.trans[u].fd # w.trans[t].fd
      BY <1>1, <2>1, <2>3 DEF SafeAt, Worlds, TransportTypes
    <3>3. w.trans[u].fd # -1 => x.table[w.trans[u].fd] = w.table[w.trans[u].fd]
      BY <1>1, <3>2 DEF Worlds
    <3>4. QED
      BY <2>1, <3>1, <3>3 DEF SafeAt
  <2>4. QED
    BY <2>2, <2>3
<1>3. ASSUME NEW k \in Fds PROVE HeldAt(x, k)
  <2>1. HeldAt(w, k)
    BY DEF Safe
  <2>2. CASE k = w.trans[t].fd
    <3>1. x.table[k] = None
      BY <1>1, <1>0, <2>2 DEF Worlds
    <3>2. QED
      BY <3>1 DEF HeldAt
  <2>3. CASE k # w.trans[t].fd
    <3>1. x.table[k] = w.table[k]
      BY <1>1, <2>3 DEF Worlds
    <3>2. SUFFICES ASSUME w.table[k] # None PROVE x.trans[w.table[k].opener].fd = k
      BY <2>1, <3>1 DEF HeldAt
    <3>3. w.table[k].opener \in Transports /\ w.trans[w.table[k].opener].fd = k
      BY <1>1, <2>1, <3>2 DEF HeldAt, Worlds, SocketTypes
    <3>4. x.trans[w.table[k].opener] = w.trans[w.table[k].opener]
      BY <1>1, <2>3, <3>3 DEF Worlds
    <3>5. QED
      BY <3>3, <3>4
  <2>4. QED
    BY <2>2, <2>3
<1>4. QED
  BY <1>2, <1>3 DEF Safe

\* A socket changes and stays the socket of its transport, whose flags fit.
LEMMA ChangeSocket ==
    ASSUME NEW w, Safe(w), NEW x \in Worlds, NEW n \in Fds, NEW s \in SocketTypes,
           w.table[n] # None,
           x.trans = w.trans, x.table = [w.table EXCEPT ![n] = s],
           s.opener = w.table[n].opener, Dead(s),
           \A t \in Transports : w.trans[t].fd = n => Fits(w.trans[t], s)
    PROVE  Safe(x)
<1>1. w \in Worlds
  BY DEF Safe
<1>0. s # None
  BY NoneAssumption
<1>2. ASSUME NEW u \in Transports PROVE SafeAt(x, u)
  <2>1. SafeAt(w, u)
    BY DEF Safe
  <2>2. w.trans[u].fd # -1 => w.trans[u].fd \in Fds
    BY <1>1 DEF Worlds, TransportTypes
  <2>3. CASE w.trans[u].fd = n
    <3>1. x.table[n] = s
      BY <1>1 DEF Worlds
    <3>2. QED
      BY <1>0, <2>1, <2>3, <3>1 DEF SafeAt
  <2>4. CASE w.trans[u].fd # n
    <3>1. w.trans[u].fd # -1 => x.table[w.trans[u].fd] = w.table[w.trans[u].fd]
      BY <1>1, <2>2, <2>4 DEF Worlds
    <3>2. QED
      BY <2>1, <3>1 DEF SafeAt
  <2>5. QED
    BY <2>3, <2>4
<1>3. ASSUME NEW k \in Fds PROVE HeldAt(x, k)
  <2>1. HeldAt(w, k)
    BY DEF Safe
  <2>2. x.table[k] = IF k = n THEN s ELSE w.table[k]
    BY <1>1 DEF Worlds
  <2>3. QED
    BY <2>1, <2>2 DEF HeldAt
<1>4. QED
  BY <1>2, <1>3 DEF Safe

-----------------------------------------------------------------------------
(* The functions of SocketTransport.                                       *)

\* What Safe says of one transport and of the socket it holds.
LEMMA SafeFacts ==
    ASSUME NEW w, Safe(w), NEW t \in Transports
    PROVE  /\ w.trans \in [Transports -> TransportTypes]
           /\ w.table \in [Fds -> SocketTypes \cup {None}]
           /\ w = [trans |-> w.trans, table |-> w.table]
           /\ w.trans[t] \in TransportTypes
           /\ w.trans[t].fd # -1 => /\ w.trans[t].fd \in Fds
                                    /\ w.trans[t].fd >= 0
                                    /\ w.trans[t].alive
                                    /\ w.table[w.trans[t].fd] \in SocketTypes
                                    /\ w.table[w.trans[t].fd].opener = t
                                    /\ Fits(w.trans[t], w.table[w.trans[t].fd])
           /\ w.trans[t].fd = -1 => ~w.trans[t].connected /\ ~w.trans[t].bound
<1>1. w \in Worlds /\ SafeAt(w, t)
  BY DEF Safe
<1>2. /\ w.trans \in [Transports -> TransportTypes]
      /\ w.table \in [Fds -> SocketTypes \cup {None}]
      /\ w = [trans |-> w.trans, table |-> w.table]
  BY <1>1 DEF Worlds
<1>3. w.trans[t] \in TransportTypes
  BY <1>2
<1>4. w.trans[t].fd # -1 => w.trans[t].fd \in Fds /\ w.trans[t].fd >= 0
  BY <1>3, TransportAssumption DEF TransportTypes, Fds
<1>5. QED
  BY <1>1, <1>2, <1>3, <1>4 DEF SafeAt

\* Close leaves a transport without a descriptor and without flags.
LEMMA CloseSafe ==
    ASSUME NEW w, Safe(w), NEW t \in Transports
    PROVE  /\ Safe(Close(w, t))
           /\ Close(w, t).trans[t].fd = -1
<1> DEFINE x == Close(w, t)
           r == [w.trans[t] EXCEPT !.fd = -1, !.connected = FALSE, !.bound = FALSE]
<1>1. /\ w.trans \in [Transports -> TransportTypes]
      /\ w.table \in [Fds -> SocketTypes \cup {None}]
      /\ w = [trans |-> w.trans, table |-> w.table]
      /\ w.trans[t] \in TransportTypes
      /\ w.trans[t].fd # -1 => w.trans[t].fd \in Fds /\ w.trans[t].fd >= 0
  BY SafeFacts
<1>2. r \in TransportTypes /\ r.fd = -1 /\ ~r.connected /\ ~r.bound
  BY <1>1 DEF TransportTypes
<1>3. CASE w.trans[t].fd = -1
  <2>1. x = [trans |-> [w.trans EXCEPT ![t] = r], table |-> w.table]
    BY <1>1, <1>3 DEF Close
  <2>2. x \in Worlds
    BY <1>1, <1>2, <2>1 DEF Worlds
  <2> HIDE DEF r, x
  <2>3. Safe(x)
    BY <1>2, <1>3, <2>1, <2>2, ChangeTransport
  <2>4. x.trans[t] = r
    BY <1>1, <2>1
  <2>5. QED
    BY <1>2, <2>3, <2>4 DEF x
<1>4. CASE w.trans[t].fd # -1
  <2>1. x = [trans |-> [w.trans EXCEPT ![t] = r], table |-> [w.table EXCEPT ![w.trans[t].fd] = None]]
    BY <1>1, <1>4 DEF Close, CloseFd
  <2> HIDE DEF r, x
  <2>2. x \in Worlds
    BY <1>1, <1>2, <2>1 DEF Worlds
  <2>3. Safe(x)
    BY <1>2, <1>4, <2>1, <2>2, TakeDescriptor
  <2>4. x.trans[t] = r
    BY <1>1, <2>1
  <2>5. QED
    BY <1>2, <2>3, <2>4 DEF x
<1>5. QED
  BY <1>3, <1>4

\* The destructor closes.
LEMMA DestructorSafe ==
    ASSUME NEW w, Safe(w), NEW t \in Transports
    PROVE  Safe(Destructor(w, t))
<1> DEFINE y == Close(w, t)
           x == Destructor(w, t)
<1>1. Safe(y) /\ y.trans[t].fd = -1
  BY CloseSafe
<1> HIDE DEF y
<1>2. /\ y.trans \in [Transports -> TransportTypes]
      /\ y.table \in [Fds -> SocketTypes \cup {None}]
      /\ y = [trans |-> y.trans, table |-> y.table]
  BY <1>1, SafeFacts
<1>3. /\ NoTransport \in TransportTypes
      /\ NoTransport.fd = -1 /\ ~NoTransport.connected /\ ~NoTransport.bound
  BY DEF NoTransport, TransportTypes
<1>4. x = [trans |-> [y.trans EXCEPT ![t] = NoTransport], table |-> y.table]
  BY <1>2 DEF Destructor, y
<1>5. x \in Worlds
  BY <1>2, <1>3, <1>4 DEF Worlds
<1> HIDE DEF x
<1>6. Safe(x)
  BY <1>1, <1>3, <1>4, <1>5, ChangeTransport
<1>7. QED
  BY <1>6 DEF x

\* A transport that is made for a descriptor that was free.
LEMMA NewWithFdSafe ==
    ASSUME NEW w, Safe(w), NEW t \in Transports, ~w.trans[t].alive, NEW n \in FreeFds(w)
    PROVE  Safe(NewWithFd([w EXCEPT !.table[n] = Socket(t, "stream")], t, n))
<1> DEFINE x == NewWithFd([w EXCEPT !.table[n] = Socket(t, "stream")], t, n)
           r == [NoTransport EXCEPT !.alive = TRUE, !.fd = n, !.connected = (n >= 0)]
           s == Socket(t, "stream")
<1>1. /\ w.trans \in [Transports -> TransportTypes]
      /\ w.table \in [Fds -> SocketTypes \cup {None}]
      /\ w = [trans |-> w.trans, table |-> w.table]
      /\ w.trans[t].fd = -1
  BY SafeFacts
<1>2. n \in Fds /\ n >= 0 /\ w.table[n] = None
  BY TransportAssumption DEF FreeFds, Fds
<1>3. r \in TransportTypes /\ r.fd = n /\ r.alive /\ ~r.bound
  BY <1>2 DEF TransportTypes, NoTransport
<1>4. s \in SocketTypes /\ s.opener = t /\ Fits(r, s) /\ Dead(s)
  BY <1>3, TransportAssumption DEF SocketTypes, Socket, Fits, Dead
<1>0. x = [[w EXCEPT !.table[n] = s] EXCEPT !.trans[t] = r]
  BY DEF NewWithFd
<1> HIDE DEF r, s, x
<1>5. x = [trans |-> [w.trans EXCEPT ![t] = r], table |-> [w.table EXCEPT ![n] = s]]
  BY <1>0, <1>1
<1>6. x \in Worlds
  BY <1>1, <1>2, <1>3, <1>4, <1>5 DEF Worlds
<1>7. Safe(x)
  BY <1>1, <1>2, <1>3, <1>4, <1>5, <1>6, GiveDescriptor
<1>8. QED
  BY <1>7 DEF x

\* A socket that is made for a transport without one.
LEMMA OpenSocketSafe ==
    ASSUME NEW w, Safe(w), NEW t \in Transports, w.trans[t].alive, w.trans[t].fd = -1,
           NEW x \in OpenSocket(w, t)
    PROVE  /\ Safe(x)
           /\ ~x.trans[t].connected /\ ~x.trans[t].bound
           /\ x.trans[t].fd # -1 => ~x.table[x.trans[t].fd].ended
<1>1. /\ w.trans \in [Transports -> TransportTypes]
      /\ w.table \in [Fds -> SocketTypes \cup {None}]
      /\ w = [trans |-> w.trans, table |-> w.table]
      /\ w.trans[t] \in TransportTypes
      /\ ~w.trans[t].connected /\ ~w.trans[t].bound
  BY SafeFacts
<1>2. CASE x = [w EXCEPT !.trans[t].fd = -1]
  <2>1. [w.trans[t] EXCEPT !.fd = -1] = w.trans[t]
    BY <1>1 DEF TransportTypes
  <2>2. [w.trans EXCEPT ![t] = w.trans[t]] = w.trans
    BY <1>1
  <2>3. x = w
    BY <1>1, <1>2, <2>1, <2>2
  <2>4. QED
    BY <1>1, <2>3
<1>3. ASSUME NEW n \in FreeFds(w), x = [w EXCEPT !.table[n] = Socket(t, "new"), !.trans[t].fd = n]
      PROVE  /\ Safe(x) /\ ~x.trans[t].connected /\ ~x.trans[t].bound
             /\ ~x.table[x.trans[t].fd].ended
  <2> DEFINE r == [w.trans[t] EXCEPT !.fd = n]
             s == Socket(t, "new")
  <2>1. n \in Fds /\ w.table[n] = None
    BY DEF FreeFds
  <2>2. r \in TransportTypes /\ r.fd = n /\ r.alive /\ ~r.connected /\ ~r.bound
    BY <1>1, <2>1 DEF TransportTypes
  <2>3. s \in SocketTypes /\ s.opener = t /\ ~s.ended
    BY TransportAssumption DEF SocketTypes, Socket
  <2>4. x = [trans |-> [w.trans EXCEPT ![t] = r], table |-> [w.table EXCEPT ![n] = s]]
    BY <1>1, <1>3
  <2>5. x \in Worlds
    BY <1>1, <2>1, <2>2, <2>3, <2>4 DEF Worlds
  <2> HIDE DEF r, s
  <2>6. Fits(r, s) /\ Dead(s)
    BY <2>2, <2>3 DEF Fits, Dead
  <2>7. Safe(x)
    BY <2>1, <2>2, <2>3, <2>4, <2>5, <2>6, GiveDescriptor
  <2>8. x.trans[t] = r /\ x.table[n] = s
    BY <1>1, <2>1, <2>4
  <2>9. QED
    BY <2>2, <2>3, <2>7, <2>8
<1>4. QED
  BY <1>2, <1>3 DEF OpenSocket

\* The socket of a transport changes to a state that its flags fit.
LEMMA SetStateSafe ==
    ASSUME NEW w, Safe(w), NEW n \in Fds, NEW s \in SocketTypes, w.table[n] # None,
           s.opener = w.table[n].opener, Dead(s),
           Fits(w.trans[s.opener], w.table[n]) => Fits(w.trans[s.opener], s)
    PROVE  Safe([w EXCEPT !.table[n] = s])
<1> DEFINE x == [w EXCEPT !.table[n] = s]
<1>1. s.opener \in Transports
  BY DEF SocketTypes
<1>2. /\ w.trans \in [Transports -> TransportTypes]
      /\ w.table \in [Fds -> SocketTypes \cup {None}]
      /\ w = [trans |-> w.trans, table |-> w.table]
  BY <1>1, SafeFacts
<1>3. x = [trans |-> w.trans, table |-> [w.table EXCEPT ![n] = s]]
  BY <1>2
<1>4. x \in Worlds
  BY <1>2, <1>3 DEF Worlds
<1> HIDE DEF x
<1>5. ASSUME NEW t \in Transports, w.trans[t].fd = n PROVE Fits(w.trans[t], s)
  <2>1. n # -1
    BY TransportAssumption DEF Fds
  <2>2. w.table[n].opener = t /\ Fits(w.trans[t], w.table[n])
    BY <1>5, <2>1, SafeFacts
  <2>3. QED
    BY <2>2
<1>6. Safe(x)
  BY <1>3, <1>4, <1>5, ChangeSocket
<1>7. QED
  BY <1>6 DEF x

\* A transport whose descriptor stays, or is still missing, gets other fields.
LEMMA SetTransportSafe ==
    ASSUME NEW w, Safe(w), NEW t \in Transports, NEW r \in TransportTypes,
           r.fd = w.trans[t].fd,
           r.fd = -1 => ~r.connected /\ ~r.bound,
           r.fd # -1 => r.alive /\ Fits(r, w.table[r.fd])
    PROVE  Safe([w EXCEPT !.trans[t] = r])
<1> DEFINE x == [w EXCEPT !.trans[t] = r]
<1>1. /\ w.trans \in [Transports -> TransportTypes]
      /\ w.table \in [Fds -> SocketTypes \cup {None}]
      /\ w = [trans |-> w.trans, table |-> w.table]
  BY SafeFacts
<1>2. x = [trans |-> [w.trans EXCEPT ![t] = r], table |-> w.table]
  BY <1>1
<1> HIDE DEF x
<1>3. x \in Worlds
  BY <1>1, <1>2 DEF Worlds
<1>4. Safe(x)
  BY <1>2, <1>3, ChangeTransport
<1>5. QED
  BY <1>4 DEF x

\* How Connect and Bind end: the socket has reached a state and the flag of the
\* transport says so.
LEMMA EstablishSafe ==
    ASSUME NEW w, Safe(w), NEW t \in Transports, w.trans[t].fd # -1,
           NEW r \in TransportTypes, r.fd = w.trans[t].fd, r.alive,
           NEW s \in SocketTypes, s.opener = t, Dead(s),
           ~w.trans[t].connected, ~w.trans[t].bound, Fits(r, s)
    PROVE  Safe([w EXCEPT !.table[w.trans[t].fd] = s, !.trans[t] = r])
<1> DEFINE n == w.trans[t].fd
           y == [w EXCEPT !.table[n] = s]
<1>1. /\ w.table \in [Fds -> SocketTypes \cup {None}]
      /\ w = [trans |-> w.trans, table |-> w.table]
      /\ n \in Fds /\ w.table[n] \in SocketTypes /\ w.table[n].opener = t
  BY SafeFacts
<1>2. w.table[n] # None
  BY <1>1, NoneAssumption
<1>3. Safe(y)
  BY <1>1, <1>2, SetStateSafe DEF Fits
<1>4. y.trans = w.trans /\ y.table[n] = s
  BY <1>1
<1> HIDE DEF y
<1>5. Safe([y EXCEPT !.trans[t] = r])
  BY <1>3, <1>4, SetTransportSafe
<1>6. QED
  BY <1>5 DEF y

\* Connect and Bind of a transport without a descriptor.
LEMMA ConnectSocketSafe ==
    ASSUME NEW w, Safe(w), NEW t \in Transports, w.trans[t].fd # -1,
           ~w.trans[t].connected, ~w.trans[t].bound, ~w.table[w.trans[t].fd].ended,
           NEW x \in ConnectSocket(w, t) \cup BindSocket(w, t)
    PROVE  Safe(x)
<1> DEFINE n == w.trans[t].fd
<1>1. /\ w.trans \in [Transports -> TransportTypes]
      /\ w.table \in [Fds -> SocketTypes \cup {None}]
      /\ w = [trans |-> w.trans, table |-> w.table]
      /\ w.trans[t] \in TransportTypes /\ w.trans[t].alive
      /\ n \in Fds /\ w.table[n] \in SocketTypes /\ w.table[n].opener = t
  BY SafeFacts
<1>2. CASE x = Close(w, t)
  BY <1>2, CloseSafe
<1>3. ASSUME NEW state \in {"stream", "connecting"},
             x = [w EXCEPT !.table[n].state = state, !.trans[t].connected = TRUE]
      PROVE  Safe(x)
  <2> DEFINE r == [w.trans[t] EXCEPT !.connected = TRUE]
             s == [w.table[n] EXCEPT !.state = state]
  <2>1. r \in TransportTypes /\ r.fd = n /\ r.alive /\ ~r.bound
    BY <1>1 DEF TransportTypes
  <2>2. s \in SocketTypes /\ s.opener = t /\ s.state = state /\ ~s.ended
    BY <1>1 DEF SocketTypes
  <2>3. x = [w EXCEPT !.table[n] = s, !.trans[t] = r]
    BY <1>1, <1>3
  <2> HIDE DEF r, s
  <2>4. Fits(r, s) /\ Dead(s)
    BY <2>1, <2>2 DEF Fits, Dead
  <2>5. QED
    BY <2>1, <2>2, <2>3, <2>4, EstablishSafe
<1>4. CASE x = [w EXCEPT !.table[n].state = "listening", !.trans[t].bound = TRUE]
  <2> DEFINE r == [w.trans[t] EXCEPT !.bound = TRUE]
             s == [w.table[n] EXCEPT !.state = "listening"]
  <2>1. r \in TransportTypes /\ r.fd = n /\ r.alive /\ ~r.connected
    BY <1>1 DEF TransportTypes
  <2>2. s \in SocketTypes /\ s.opener = t /\ s.state = "listening" /\ ~s.ended
    BY <1>1 DEF SocketTypes
  <2>3. x = [w EXCEPT !.table[n] = s, !.trans[t] = r]
    BY <1>1, <1>4
  <2> HIDE DEF r, s
  <2>4. Fits(r, s) /\ Dead(s)
    BY <2>1, <2>2 DEF Fits, Dead
  <2>5. QED
    BY <2>1, <2>2, <2>3, <2>4, EstablishSafe
<1>5. QED
  BY <1>2, <1>3, <1>4 DEF ConnectSocket, BindSocket

\* Both, from the call of socket() on.
LEMMA WithSocketSafe ==
    ASSUME NEW w, Safe(w), NEW t \in Transports, w.trans[t].alive, w.trans[t].fd = -1,
           NEW x \in WithSocket(w, t, ConnectSocket) \cup WithSocket(w, t, BindSocket)
    PROVE  Safe(x)
<1>1. PICK y \in OpenSocket(w, t) :
        \/ y.trans[t].fd < 0 /\ x = y
        \/ ~(y.trans[t].fd < 0) /\ x \in ConnectSocket(y, t) \cup BindSocket(y, t)
  BY DEF WithSocket
<1>2. /\ Safe(y) /\ ~y.trans[t].connected /\ ~y.trans[t].bound
      /\ y.trans[t].fd # -1 => ~y.table[y.trans[t].fd].ended
  BY OpenSocketSafe
<1>3. CASE x = y
  BY <1>2, <1>3
<1>4. CASE ~(y.trans[t].fd < 0) /\ x \in ConnectSocket(y, t) \cup BindSocket(y, t)
  BY <1>2, <1>4, ConnectSocketSafe
<1>5. QED
  BY <1>1, <1>3, <1>4

-----------------------------------------------------------------------------
(* The steps.                                                              *)

\* Initially there are no transports and no sockets.
LEMMA InitSafe == Init => Safe(world)
<1> SUFFICES ASSUME Init PROVE Safe(world)
  OBVIOUS
<1>1. /\ world.trans = [t \in Transports |-> NoTransport]
      /\ world.table = [n \in Fds |-> None]
      /\ world = [trans |-> world.trans, table |-> world.table]
  BY DEF Init
<1>2. /\ NoTransport \in TransportTypes
      /\ NoTransport.fd = -1 /\ ~NoTransport.connected /\ ~NoTransport.bound
  BY DEF NoTransport, TransportTypes
<1>3. world \in Worlds
  BY <1>1, <1>2 DEF Worlds
<1>4. \A t \in Transports : SafeAt(world, t)
  BY <1>1, <1>2 DEF SafeAt
<1>5. \A n \in Fds : HeldAt(world, n)
  BY <1>1 DEF HeldAt
<1>6. QED
  BY <1>3, <1>4, <1>5 DEF Safe

\* What the network does changes the socket of a descriptor; the other end sends
\* nothing on one whose end was told.
LEMMA SocketStepSafe ==
    ASSUME Safe(world), NEW n \in Fds,
           \/ ConnectionEstablished(n)
           \/ ConnectionFails(n)
           \/ PeerSends(n)
           \/ PeerCloses(n)
    PROVE  Safe(world')
<1>1. PICK s : world.table[n] = s /\ s # None
  BY DEF ConnectionEstablished, ConnectionFails, PeerSends, PeerCloses
<1>2. s \in SocketTypes /\ world = [trans |-> world.trans, table |-> world.table]
      /\ world.table \in [Fds -> SocketTypes \cup {None}]
  BY <1>1 DEF Safe, Worlds
<1>3. Dead(s)
  BY <1>1 DEF Safe, HeldAt
<1>4. ASSUME NEW z \in SocketTypes, world' = [world EXCEPT !.table[n] = z],
             z.opener = s.opener, Dead(z), \A r \in TransportTypes : Fits(r, s) => Fits(r, z)
      PROVE  Safe(world')
  <2>1. world.trans[z.opener] \in TransportTypes
    BY DEF Safe, Worlds, SocketTypes
  <2>2. QED
    BY <1>1, <1>4, <2>1, SetStateSafe
<1>5. CASE ConnectionEstablished(n)
  <2> DEFINE z == [s EXCEPT !.state = "stream"]
  <2>1. s.state = "connecting" /\ world' = [world EXCEPT !.table[n].state = "stream"]
    BY <1>1, <1>5 DEF ConnectionEstablished, Call
  <2>2. /\ z \in SocketTypes /\ z.opener = s.opener /\ z.state = "stream"
        /\ z.rx = s.rx /\ z.peer = s.peer /\ z.ended = s.ended
    BY <1>2 DEF SocketTypes
  <2>3. world' = [world EXCEPT !.table[n] = z]
    BY <1>1, <1>2, <2>1
  <2> HIDE DEF z
  <2>4. Dead(z) /\ \A r \in TransportTypes : Fits(r, s) => Fits(r, z)
    BY <1>3, <2>1, <2>2 DEF Fits, Dead
  <2>5. QED
    BY <1>4, <2>2, <2>3, <2>4
<1>6. CASE ConnectionFails(n)
  <2> DEFINE z == [s EXCEPT !.state = "failed", !.error = TRUE]
  <2>1. /\ s.state \in {"connecting", "stream"}
        /\ world' = [world EXCEPT !.table[n].state = "failed", !.table[n].error = TRUE]
    BY <1>1, <1>6 DEF ConnectionFails, Call
  <2>2. /\ z \in SocketTypes /\ z.opener = s.opener /\ z.state = "failed"
        /\ z.rx = s.rx /\ z.peer = s.peer /\ z.ended = s.ended
    BY <1>2 DEF SocketTypes
  <2>3. world' = [world EXCEPT !.table[n] = z]
    BY <1>1, <1>2, <2>1
  <2> HIDE DEF z
  <2>4. Dead(z) /\ \A r \in TransportTypes : Fits(r, s) => Fits(r, z)
    BY <1>3, <2>1, <2>2 DEF Fits, Dead
  <2>5. QED
    BY <1>4, <2>2, <2>3, <2>4
<1>7. CASE PeerSends(n)
  <2> DEFINE z == [s EXCEPT !.rx = @ + 1]
  <2>1. s.state = "stream" /\ s.peer = "open" /\ s.rx < MaxBytes
    BY <1>1, <1>7 DEF PeerSends
  <2>2. z \in SocketTypes /\ z.opener = s.opener /\ z.state = s.state /\ z.ended = s.ended
    BY <1>2, <2>1, TransportAssumption DEF SocketTypes
  <2>3. world' = [world EXCEPT !.table[n] = z]
    BY <1>1, <1>2, <1>7 DEF PeerSends, Call
  <2> HIDE DEF z
  <2>4. Dead(z) /\ \A r \in TransportTypes : Fits(r, s) => Fits(r, z)
    BY <1>3, <2>1, <2>2 DEF Fits, Dead
  <2>5. QED
    BY <1>4, <2>2, <2>3, <2>4
<1>8. CASE PeerCloses(n)
  <2> DEFINE z == [s EXCEPT !.peer = "closed"]
  <2>1. /\ z \in SocketTypes /\ z.opener = s.opener /\ z.state = s.state
        /\ z.rx = s.rx /\ z.peer = "closed" /\ z.ended = s.ended
    BY <1>2 DEF SocketTypes
  <2>2. world' = [world EXCEPT !.table[n] = z]
    BY <1>1, <1>2, <1>8 DEF PeerCloses, Call
  <2> HIDE DEF z
  <2>3. Dead(z) /\ \A r \in TransportTypes : Fits(r, s) => Fits(r, z)
    BY <1>3, <2>1 DEF Fits, Dead
  <2>4. QED
    BY <1>4, <2>1, <2>2, <2>3
<1>9. QED
  BY <1>5, <1>6, <1>7, <1>8

\* What Send returns for a length that is not 0 never says the end.
LEMMA SendNotEnd ==
    ASSUME NEW s, NEW len \in Nat, len > 0, NEW n \in SendOutcomes(s, len)
    PROVE  n \in Int /\ n # 0
BY DEF SendOutcomes, EAGAIN, OtherErrno

\* Where recv() returns 0 for such a length the socket is at its end, and it
\* never returns more than there is.
LEMMA RecvTakes ==
    ASSUME NEW s \in SocketTypes, NEW len \in Nat, len > 0, NEW n \in RecvOutcomes(s, len)
    PROVE  /\ n \in Int
           /\ n > 0 => n <= s.rx
           /\ n = 0 => s.rx = 0 /\ (s.peer = "closed" \/ s.state = "failed")
<1>1. s # None
  BY NoneAssumption
<1>2. s.rx \in 0..MaxBytes /\ s.peer \in {"open", "closed"}
  BY DEF SocketTypes
<1>3. QED
  BY <1>1, <1>2, TransportAssumption DEF RecvOutcomes, EAGAIN, OtherErrno

\* Send and Recv leave a socket of the same transport, from which what was
\* returned has been taken.
LEMMA TransferSafe ==
    ASSUME Careful, Safe(world), NEW t \in Transports, NEW len \in Lengths,
           Send(t, len) \/ Recv(t, len)
    PROVE  Safe(world')
<1> DEFINE fd == world.trans[t].fd
           s == world.table[fd]
<1>1. fd # -1
  BY DEF Send, Recv, MayTransfer
<1>2. /\ world = [trans |-> world.trans, table |-> world.table]
      /\ world.table \in [Fds -> SocketTypes \cup {None}]
      /\ fd \in Fds /\ s \in SocketTypes /\ s.opener = t
  BY <1>1, SafeFacts
<1>3. s # None
  BY <1>2, NoneAssumption
<1>4. Dead(s)
  BY <1>2, <1>3 DEF Safe, HeldAt
<1>5. len \in Nat /\ len > 0
  BY TransportAssumption DEF Lengths
<1>6. PICK n, taken :
        /\ world' = [world EXCEPT !.table[fd] = Transferred(s, n, taken)]
        /\ \/ n \in SendOutcomes(s, len) /\ taken = 0
           \/ n \in RecvOutcomes(s, len) /\ taken = IF n > 0 THEN n ELSE 0
  BY <1>2 DEF Send, Recv
<1> HIDE DEF s, fd
<1>7. /\ n \in Int
      /\ taken \in Nat /\ (taken = 0 \/ taken <= s.rx)
      /\ n = 0 => s.rx = 0 /\ (s.peer = "closed" \/ s.state = "failed")
  <2>1. CASE n \in SendOutcomes(s, len) /\ taken = 0
    BY <1>5, <2>1, SendNotEnd
  <2>2. CASE n \in RecvOutcomes(s, len) /\ taken = IF n > 0 THEN n ELSE 0
    BY <1>2, <1>5, <2>2, RecvTakes
  <2>3. QED
    BY <1>6, <2>1, <2>2
<1> DEFINE z == [s EXCEPT !.rx = @ - taken, !.error = @ /\ n # OtherErrno,
                          !.ended = @ \/ ResultOf(n) = "CONNECTION_CLOSED"]
<1>8. Transferred(s, n, taken) = z
  BY <1>3 DEF Transferred
<1>9. s.rx \in 0..MaxBytes /\ s.rx - taken \in 0..MaxBytes
  <2>1. s.rx \in 0..MaxBytes
    BY <1>2 DEF SocketTypes
  <2>2. QED
    BY <1>7, <2>1, TransportAssumption
<1>10. /\ z \in SocketTypes /\ z.opener = s.opener /\ z.state = s.state /\ z.peer = s.peer
       /\ z.rx = s.rx - taken /\ z.ended = (s.ended \/ ResultOf(n) = "CONNECTION_CLOSED")
  BY <1>2, <1>9 DEF SocketTypes
<1> HIDE DEF z
<1>11. ResultOf(n) = "CONNECTION_CLOSED" => n = 0
  BY DEF ResultOf
<1>12. Dead(z)
  <2>1. z.ended => s.ended \/ n = 0
    BY Zenon, <1>10, <1>11
  <2>2. s.rx = 0 => z.rx = 0
    BY <1>7, <1>9, <1>10
  <2>3. CASE s.ended
    BY <1>4, <1>10, <2>2, <2>3 DEF Dead
  <2>4. CASE n = 0
    BY <1>7, <1>10, <2>2, <2>4 DEF Dead
  <2>5. QED
    BY <2>1, <2>3, <2>4 DEF Dead
<1>13. QED
  BY <1>2, <1>3, <1>6, <1>8, <1>10, <1>12, SetStateSafe DEF Fits, s

\* Accept makes a transport or closes what it has accepted.
LEMMA AcceptSafe ==
    ASSUME Safe(world), NEW t \in Transports, NEW new \in Transports, Accept(t, new)
    PROVE  Safe(world')
<1>1. ~world.trans[new].alive
  BY DEF Accept
<1>2. PICK n \in FreeFds(world) :
        LET accepted == [world EXCEPT !.table[n] = Socket(new, "stream")]
        IN world' \in {CloseFd(accepted, n), NewWithFd(accepted, new, n)}
  BY DEF Accept, Call
<1>3. CASE world' = NewWithFd([world EXCEPT !.table[n] = Socket(new, "stream")], new, n)
  BY <1>1, <1>3, NewWithFdSafe
<1>4. CASE world' = CloseFd([world EXCEPT !.table[n] = Socket(new, "stream")], n)
  <2>1. /\ world = [trans |-> world.trans, table |-> world.table]
        /\ world.table \in [Fds -> SocketTypes \cup {None}]
    BY SafeFacts
  <2>2. n \in Fds /\ world.table[n] = None
    BY DEF FreeFds
  <2>3. [[world.table EXCEPT ![n] = Socket(new, "stream")] EXCEPT ![n] = None] = world.table
    BY <2>1, <2>2
  <2>4. world' = [trans |-> world.trans,
                  table |-> [[world.table EXCEPT ![n] = Socket(new, "stream")] EXCEPT ![n] = None]]
    BY <1>4, <2>1 DEF CloseFd
  <2>5. QED
    BY <2>1, <2>3, <2>4
<1>5. QED
  BY <1>2, <1>3, <1>4

\* A careful application keeps Safe with every call, and so does the other end.
LEMMA StepSafe ==
    ASSUME Careful, Safe(world), Next
    PROVE  Safe(world')
<1>1. ASSUME NEW t \in Transports, Create(t) PROVE Safe(world')
  <2>1. PICK protocol \in {"TCP", "URMA"} : world' = New(world, t, protocol)
    BY <1>1 DEF Create, Call
  <2> DEFINE r == [NoTransport EXCEPT !.alive = TRUE, !.protocol = protocol]
  <2>2. r \in TransportTypes /\ r.fd = -1 /\ ~r.connected /\ ~r.bound
    BY DEF TransportTypes, NoTransport
  <2>3. world.trans[t].fd = -1
    BY <1>1, SafeFacts DEF Create
  <2>4. world' = [world EXCEPT !.trans[t] = r]
    BY <2>1 DEF New
  <2> HIDE DEF r
  <2>5. QED
    BY <2>2, <2>3, <2>4, SetTransportSafe
<1>2. ASSUME NEW t \in Transports, CreateWithFd(t) PROVE Safe(world')
  BY <1>2, NewWithFdSafe DEF CreateWithFd, Call
<1>3. ASSUME NEW t \in Transports, Destroy(t) PROVE Safe(world')
  BY <1>3, DestructorSafe DEF Destroy, Call
<1>4. ASSUME NEW t \in Transports, CallClose(t) PROVE Safe(world')
  BY <1>4, CloseSafe DEF CallClose, Call
<1>5. ASSUME NEW t \in Transports, NEW type \in AddressTypes, Connect(t, type) \/ Bind(t, type)
      PROVE  Safe(world')
  <2>1. \/ world' = world
        \/ world' \in WithSocket(world, t, ConnectSocket) \cup WithSocket(world, t, BindSocket)
    BY <1>5 DEF Connect, Bind, Call
  <2>2. world.trans[t].alive /\ world.trans[t].fd = -1
    <3>1. world.trans[t].alive /\ world.trans[t].fd < 0
      BY <1>5 DEF Connect, Bind, Alive, MayOpen
    <3>2. world.trans[t].fd # -1 => world.trans[t].fd \in Fds /\ world.trans[t].fd >= 0
      BY SafeFacts
    <3>3. QED
      BY <3>1, <3>2, TransportAssumption DEF Fds
  <2>3. QED
    BY <2>1, <2>2, WithSocketSafe
<1>6. ASSUME NEW t \in Transports, NEW new \in Transports, Accept(t, new) PROVE Safe(world')
  BY <1>6, AcceptSafe
<1>7. ASSUME NEW t \in Transports, NEW new \in Transports, Clone(t, new) PROVE Safe(world')
  <2>1. world.trans[t].fd < 0 /\ ~world.trans[new].alive
    BY <1>7 DEF Clone
  <2>2. /\ world.trans[t] \in TransportTypes
        /\ world.trans[t].fd # -1 => world.trans[t].fd \in Fds /\ world.trans[t].fd >= 0
        /\ world.trans[t].fd = -1 => ~world.trans[t].connected /\ ~world.trans[t].bound
    BY SafeFacts
  <2>3. world.trans[t].fd = -1
    BY <2>1, <2>2, TransportAssumption DEF Fds
  <2>4. world.trans[new].fd = -1
    BY <2>1, SafeFacts
  <2>5. world' = [world EXCEPT !.trans[new] = world.trans[t]]
    BY <1>7 DEF Clone, Call
  <2>6. QED
    BY <2>2, <2>3, <2>4, <2>5, SetTransportSafe
<1>8. ASSUME NEW t \in Transports, NEW len \in Lengths, Send(t, len) \/ Recv(t, len) PROVE Safe(world')
  BY <1>8, TransferSafe
<1>9. ASSUME NEW t \in Transports, TransferRefused(t) PROVE Safe(world')
  BY <1>9 DEF TransferRefused
<1>10. ASSUME NEW t \in Transports, UrmaConnect(t) PROVE Safe(world')
  <2> DEFINE r == [world.trans[t] EXCEPT !.connected = FALSE]
  <2>1. /\ world = [trans |-> world.trans, table |-> world.table]
        /\ world.trans \in [Transports -> TransportTypes]
        /\ world.trans[t] \in TransportTypes
        /\ world.trans[t].fd # -1 => /\ world.trans[t].alive
                                     /\ Fits(world.trans[t], world.table[world.trans[t].fd])
        /\ world.trans[t].fd = -1 => ~world.trans[t].bound
    BY SafeFacts
  <2>2. r \in TransportTypes /\ r.fd = world.trans[t].fd /\ r.alive = world.trans[t].alive
        /\ r.bound = world.trans[t].bound /\ ~r.connected
    BY <2>1 DEF TransportTypes
  <2>3. world' = [world EXCEPT !.trans[t] = r]
    BY <1>10, <2>1 DEF UrmaConnect, Call
  <2> HIDE DEF r
  <2>4. r.fd # -1 => r.alive /\ Fits(r, world.table[r.fd])
    BY <2>1, <2>2 DEF Fits
  <2>5. QED
    BY <2>1, <2>2, <2>3, <2>4, SetTransportSafe
<1>11. ASSUME NEW n \in Fds,
              \/ ConnectionEstablished(n)
              \/ ConnectionFails(n)
              \/ PeerSends(n)
              \/ PeerCloses(n)
       PROVE  Safe(world')
  BY <1>11, SocketStepSafe
<1>12. QED
  BY <1>1, <1>2, <1>3, <1>4, <1>5, <1>6, <1>7, <1>8, <1>9, <1>10, <1>11 DEF Next

\* Whatever is returned is one of the results.
LEMMA StepResult ==
    ASSUME Next
    PROVE  (result \in ResultTypes \cup {None})'
<1>1. \A n : ResultOf(n) \in TransportResults
  BY DEF ResultOf, TransportResults
<1>2. ASSUME NEW t \in Transports, NEW len \in Lengths, Send(t, len) \/ Recv(t, len)
      PROVE  (result \in ResultTypes \cup {None})'
  BY <1>1, <1>2 DEF Send, Recv, ResultTypes
<1>3. ASSUME NEW t \in Transports, TransferRefused(t)
      PROVE  (result \in ResultTypes \cup {None})'
  BY <1>3 DEF TransferRefused, ResultTypes, TransportResults
<1>4. QED
  BY <1>2, <1>3
  DEF Next, Call, Create, CreateWithFd, Destroy, CallClose, Connect, Bind, Accept, Clone,
      UrmaConnect, ConnectionEstablished, ConnectionFails, PeerSends, PeerCloses

-----------------------------------------------------------------------------
(* The theorems.                                                           *)

\* The inductive invariant.
TransportInv ==
    /\ Safe(world)
    /\ result \in ResultTypes \cup {None}

\* The inductive invariant holds of every course of calls, failures of system
\* calls and events of the other end.
LEMMA TransportInvariance ==
    ASSUME Careful
    PROVE  Spec => []TransportInv
<1>1. Init => TransportInv
  BY InitSafe DEF TransportInv, Init
<1>2. TransportInv /\ [Next]_vars => TransportInv'
  <2>1. CASE Next
    BY <2>1, StepSafe, StepResult DEF TransportInv
  <2>2. CASE UNCHANGED vars
    BY <2>2 DEF vars, TransportInv
  <2>3. QED
    BY <2>1, <2>2
<1>3. QED
  BY <1>1, <1>2, PTL DEF Spec

\* Every transport, socket and result has its type.
THEOREM TransportTypeCorrect ==
    ASSUME Careful
    PROVE  Spec => []TypeOK
<1>1. TransportInv => TypeOK
  BY DEF TransportInv, Safe, TypeOK
<1>2. QED
  BY <1>1, TransportInvariance, PTL

\* A transport only holds an open socket of its own, with flags that fit it,
\* although closed numbers are given out again.
THEOREM OwnSocketHeld ==
    ASSUME Careful
    PROVE  Spec => []HoldsOwnSocket
<1>1. TransportInv => HoldsOwnSocket
  <2>1. ASSUME TransportInv, NEW t \in Transports, world.trans[t].fd >= 0
        PROVE  /\ world.table[world.trans[t].fd] # None
               /\ world.table[world.trans[t].fd].opener = t
               /\ Fits(world.trans[t], world.table[world.trans[t].fd])
    <3>1. Safe(world) /\ world.trans[t].fd # -1
      BY <2>1 DEF TransportInv
    <3>2. QED
      BY <3>1, SafeFacts, NoneAssumption
  <2>2. QED
    BY <2>1 DEF HoldsOwnSocket
<1>2. QED
  BY <1>1, TransportInvariance, PTL

\* Every open descriptor is held by a transport that is alive.
THEOREM DescriptorsHeld ==
    ASSUME Careful
    PROVE  Spec => []NoDescriptorLeaked
<1>1. TransportInv => NoDescriptorLeaked
  <2>1. ASSUME TransportInv, NEW n \in Fds, world.table[n] # None
        PROVE  \E t \in Transports : world.trans[t].alive /\ world.trans[t].fd = n
    <3> DEFINE t == world.table[n].opener
    <3>1. Safe(world) /\ HeldAt(world, n)
      BY <2>1 DEF TransportInv, Safe
    <3>2. t \in Transports
      BY <2>1, <3>1 DEF Safe, Worlds, SocketTypes
    <3>3. world.trans[t].fd = n /\ n # -1
      BY <2>1, <3>1, TransportAssumption DEF HeldAt, Fds
    <3> HIDE DEF t
    <3>4. world.trans[t].alive
      BY <3>1, <3>2, <3>3, SafeFacts
    <3>5. QED
      BY <3>2, <3>3, <3>4
  <2>2. QED
    BY <2>1 DEF NoDescriptorLeaked
<1>2. QED
  BY <1>1, TransportInvariance, PTL

\* Once a Send or a Recv of at least one byte has returned CONNECTION_CLOSED,
\* nothing is left on the socket and nothing ever arrives on it.
THEOREM ClosedAtTheEnd ==
    ASSUME Careful
    PROVE  Spec => []ClosedIsTheEnd
<1>1. TransportInv => ClosedIsTheEnd
  BY DEF TransportInv, Safe, HeldAt, Dead, ClosedIsTheEnd
<1>2. QED
  BY <1>1, TransportInvariance, PTL
=============================================================================

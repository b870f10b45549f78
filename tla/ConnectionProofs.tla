-------------------------- MODULE ConnectionProofs --------------------------
(***************************************************************************)
(* Proofs about the connections of a process, for any number of them and   *)
(* of their setups: what the pointers of a connection promise, what its    *)
(* destructor releases, and the life of the engine in the adaptor.         *)
(*                                                                         *)
(* A call is made of functions from worlds to worlds.  The invariant is    *)
(* therefore one of worlds, and every function is shown to keep it under   *)
(* the conditions in which it is called.                                   *)
(***************************************************************************)
EXTENDS Connection, TLAPS

-----------------------------------------------------------------------------
(* The inductive invariant, as a conjunction of its parts.                 *)

ConnFields ==
    [life : {"none", "live", "deleted"}, server : BOOLEAN, usePSK : BOOLEAN,
     parent : Conns \cup {None},
     state : {"INIT", "CONNECTING", "CONNECTED", "CLOSED", "ERROR"},
     handshakeDone : BOOLEAN, ctx : Pointer, obj : Pointer, transport : Pointer,
     engine : Pointer, owns : BOOLEAN, setups : 0..MaxSetups]

HeapFields ==
    [refs : 0..3, lib : Ids \cup {NoLib, Default}, obj : {"none", "live", "freed"},
     temp : {"none", "live"}, handshake : {"no", "done", "failed"},
     transport : {"none", "open", "closed", "deleted"},
     engine : {"none", "live", "deleted"}]

Worlds == [conn : [Conns -> ConnFields], heap : [Ids -> HeapFields], installed : Pointer]

\* The references to the context of h that policy objects hold.
ObjRefs(h) == (IF h.obj = "live" THEN 1 ELSE 0) + (IF h.temp = "live" THEN 1 ELSE 0)

\* A connection with the fields r and what its setup i has made, h: what it
\* points to exists, and for a careful application what exists is pointed to.
\* What is not yet made is untouched.
Points(r, i, h) ==
    /\ h.refs \in {ObjRefs(h), ObjRefs(h) + 1}
    /\ r.ctx = i => h.refs = ObjRefs(h) + 1
    /\ r.obj = i => h.obj = "live"
    /\ r.transport = i => h.transport \in {"open", "closed"}
    /\ r.owns /\ r.engine = i => h.engine = "live"
    /\ r.setups < i[2] =>
         h.refs = 0 /\ h.obj = "none" /\ h.temp = "none" /\ h.engine = "none"
    /\ ~r.usePSK => h.temp = "none"
    /\ careful =>
         /\ h.refs = ObjRefs(h) + 1 => r.ctx = i
         /\ h.obj = "live" => r.obj = i
         /\ h.transport \in {"open", "closed"} => r.transport = i
         /\ h.engine = "live" => r.owns /\ r.engine = i

Own(c) == {c} \X (1..MaxSetups)

\* The pointers of a connection c with the fields r, whatever they point to.
Fields(r, c) ==
    /\ {r.ctx, r.obj, r.transport} \subseteq Own(c) \cup {None}
    /\ r.owns => r.engine \in Own(c)
    /\ r.usePSK \in PskModes \cup {FALSE}
    /\ r.life = "none" => r = NotYet
    /\ r.life = "deleted" => r.ctx = None /\ r.obj = None /\ r.transport = None /\ ~r.owns
    /\ careful /\ r.obj # None => r.ctx # None
    /\ r.parent = None /\ r.engine # None => r.owns

\* The state of a connection with the fields r, where hs is what setups made.
States(r, hs) ==
    /\ r.state = "CONNECTED" /\ r.obj # None => r.handshakeDone /\ hs[r.obj].handshake = "done"
    /\ careful /\ r.state \in {"CONNECTING", "CONNECTED"} =>
         r.transport # None /\ hs[r.transport].transport = "open"

\* An accepted connection has a listener for its parent, and with a careful
\* application the engine it shares is the one of that listener, which lives on.
Family(r, cs) ==
    r.parent # None =>
        /\ cs[r.parent].server /\ cs[r.parent].parent = None /\ cs[r.parent].life # "none"
        /\ careful /\ r.life = "live" /\ r.engine # None /\ ~r.owns =>
             /\ cs[r.parent].life = "live"
             /\ cs[r.parent].owns
             /\ cs[r.parent].engine = r.engine

\* If n is an engine, it is alive.
LiveIn(w, n) == n # None => w.heap[n].engine = "live"

\* What a world promises about connection c alone.
SoundAt(w, c) ==
    /\ Fields(w.conn[c], c)
    /\ States(w.conn[c], w.heap)
    /\ \A i \in Own(c) : Points(w.conn[c], i, w.heap[i])

Sound(w) ==
    /\ w \in Worlds
    /\ \A c \in Conns : SoundAt(w, c)
    /\ \A c \in Conns : Family(w.conn[c], w.conn)
    /\ LiveIn(w, w.installed)

ConnectionInv == careful \in BOOLEAN /\ Sound(World)

-----------------------------------------------------------------------------
(* A change of one connection.                                             *)

\* The fields of c become r, what its setup i has made becomes h, and n is the
\* engine in the adaptor.
Changed(w, c, r, i, h, n) ==
    [conn |-> [w.conn EXCEPT ![c] = r], heap |-> [w.heap EXCEPT ![i] = h], installed |-> n]

\* What x, w changed in that way, looks like.
IsChanged(x, w, c, r, i, h, n) ==
    /\ x \in Worlds
    /\ x.conn = [w.conn EXCEPT ![c] = r]
    /\ x.installed = n
    /\ x.conn[c] = r
    /\ x.heap[i] = h
    /\ \A d \in Conns \ {c} : x.conn[d] = w.conn[d]
    /\ \A j \in Ids \ {i} : x.heap[j] = w.heap[j]

\* The connections other than c do not mind that its fields become r.
Kin(w, c, r) ==
    /\ r.parent # c
    /\ Family(r, w.conn)
    /\ \A d \in Conns \ {c} : Family(w.conn[d], [w.conn EXCEPT ![c] = r])

\* Names of setups are no null pointers, and a connection has at least one.
LEMMA Names ==
    /\ \A c \in Conns : Own(c) \subseteq Ids /\ <<c, 1>> \in Own(c)
    /\ \A i \in Ids : i # None /\ i[1] \in Conns /\ i \in Own(i[1])
    /\ \A c, d \in Conns : \A i \in Own(c) : i \in Own(d) => c = d
    /\ \A c \in Conns : c # None
    /\ None \notin Ids
BY ConnectionAssumption DEF Ids, Own

\* The fields of a changed world.
LEMMA ChangedFields ==
    ASSUME NEW w \in Worlds, NEW c \in Conns, NEW r \in ConnFields, NEW i \in Own(c),
           NEW h \in HeapFields, NEW n \in Pointer, NEW x, x = Changed(w, c, r, i, h, n)
    PROVE  IsChanged(x, w, c, r, i, h, n)
<1>1. i \in Ids
  BY Names
<1>2. w.conn \in [Conns -> ConnFields] /\ w.heap \in [Ids -> HeapFields]
  BY DEF Worlds
<1>3. x.conn = [w.conn EXCEPT ![c] = r] /\ x.heap = [w.heap EXCEPT ![i] = h] /\ x.installed = n
  BY DEF Changed
<1>4. [w.conn EXCEPT ![c] = r] \in [Conns -> ConnFields]
  BY <1>2
<1>5. [w.heap EXCEPT ![i] = h] \in [Ids -> HeapFields]
  BY <1>1, <1>2
<1>6. x \in Worlds
  BY <1>4, <1>5 DEF Changed, Worlds
<1>7. QED
  BY <1>1, <1>2, <1>3, <1>6 DEF IsChanged

\* A sound world stays sound when one connection changes, if what is said of
\* that connection still holds, its family does not mind and the engine in the
\* adaptor is alive.
LEMMA LocalChange ==
    ASSUME NEW w, Sound(w), NEW c \in Conns, NEW r \in ConnFields, NEW i \in Own(c),
           NEW h \in HeapFields, NEW n \in Pointer, NEW x, x = Changed(w, c, r, i, h, n),
           Fields(r, c), States(r, x.heap),
           Points(r, i, h), \A j \in Own(c) \ {i} : Points(r, j, w.heap[j]),
           Kin(w, c, r), LiveIn(x, n)
    PROVE  Sound(x)
<1>1. w \in Worlds
  BY DEF Sound
<1>2. IsChanged(x, w, c, r, i, h, n)
  BY <1>1, ChangedFields
<1>3. SoundAt(x, c)
  <2>1. \A j \in Own(c) : Points(r, j, x.heap[j])
    BY <1>2, Names DEF IsChanged
  <2>2. QED
    BY <1>2, <2>1 DEF IsChanged, SoundAt
<1>4. ASSUME NEW d \in Conns, d # c PROVE SoundAt(x, d)
  <2>1. SoundAt(w, d) /\ x.conn[d] = w.conn[d]
    BY <1>2, <1>4 DEF IsChanged, Sound
  <2>2. \A j \in Own(d) : x.heap[j] = w.heap[j]
    <3>1. \A j \in Own(d) : j \in Ids \ {i}
      BY <1>4, Names
    <3>2. QED
      BY <1>2, <3>1 DEF IsChanged
  <2>3. \A j \in Own(d) : Points(x.conn[d], j, x.heap[j])
    BY <2>1, <2>2 DEF SoundAt
  <2>4. States(x.conn[d], x.heap)
    <3>1. Fields(w.conn[d], d) /\ States(w.conn[d], w.heap)
      BY <2>1 DEF SoundAt
    <3>2. w.conn[d].obj # None => x.heap[w.conn[d].obj] = w.heap[w.conn[d].obj]
      BY <2>2, <3>1 DEF Fields
    <3>3. w.conn[d].transport # None => x.heap[w.conn[d].transport] = w.heap[w.conn[d].transport]
      BY <2>2, <3>1 DEF Fields
    <3>4. QED
      BY <2>1, <3>1, <3>2, <3>3 DEF States
  <2>5. QED
    BY <2>1, <2>3, <2>4 DEF SoundAt
<1>5. Family(x.conn[c], x.conn)
  <2>1. Family(r, w.conn) /\ r.parent # c /\ r.parent \in Conns \cup {None}
    BY DEF Kin, ConnFields
  <2>2. r.parent # None => x.conn[r.parent] = w.conn[r.parent]
    BY <1>2, <2>1 DEF IsChanged
  <2>3. QED
    BY <1>2, <2>1, <2>2 DEF IsChanged, Family
<1>6. ASSUME NEW d \in Conns, d # c PROVE Family(x.conn[d], x.conn)
  BY <1>2, <1>6 DEF IsChanged, Kin
<1>7. QED
  BY <1>2, <1>3, <1>4, <1>5, <1>6 DEF IsChanged, Sound

\* With a careful application no live connection was accepted by c.
Alone(w, c) == careful => \A d \in Conns : w.conn[d].parent = c => w.conn[d].life # "live"

\* What every part of a call that changes connection c keeps.
Keeps(x, w, c) == Sound(x) /\ (Alone(w, c) => Alone(x, c))

\* r may replace q as far as setup j goes: of its pointers only those go that
\* a careless application may lose.
AgreeAt(r, q, j) ==
    /\ r.ctx = j => q.ctx = j
    /\ r.obj = j => q.obj = j
    /\ r.transport = j => q.transport = j
    /\ r.owns /\ r.engine = j => q.owns /\ q.engine = j
    /\ r.setups < j[2] => q.setups < j[2]
    /\ ~r.usePSK => ~q.usePSK \/ r.setups < j[2]
    /\ careful =>
         /\ q.ctx = j => r.ctx = j
         /\ q.obj = j => r.obj = j
         /\ q.transport = j => r.transport = j
         /\ q.owns /\ q.engine = j => r.owns /\ r.engine = j

\* What is said of a setup carries over to fields that agree about it.
LEMMA PointsAgree ==
    ASSUME NEW r, NEW q, NEW j, NEW h, Points(q, j, h), AgreeAt(r, q, j)
    PROVE  Points(r, j, h)
BY DEF Points, AgreeAt

\* A change of c to a live or deleted connection keeps what is kept.
LEMMA ChangeKeeps ==
    ASSUME NEW w, Sound(w), NEW c \in Conns, NEW r \in ConnFields, NEW i \in Own(c),
           NEW h \in HeapFields, NEW n \in Pointer, NEW x, x = Changed(w, c, r, i, h, n),
           Fields(r, c), States(r, x.heap),
           Points(r, i, h), \A j \in Own(c) \ {i} : Points(r, j, w.heap[j]),
           Kin(w, c, r), LiveIn(x, n)
    PROVE  Keeps(x, w, c)
<1>1. Sound(x)
  BY LocalChange
<1>2. IsChanged(x, w, c, r, i, h, n)
  BY ChangedFields DEF Sound
<1>3. \A d \in Conns : x.conn[d].parent = c => x.conn[d] = w.conn[d]
  BY <1>2 DEF IsChanged, Kin
<1>4. Alone(w, c) => Alone(x, c)
  BY <1>3 DEF Alone
<1>5. QED
  BY <1>1, <1>4 DEF Keeps

\* The parts of a sound world.
LEMMA SoundParts ==
    ASSUME NEW w, Sound(w), NEW c \in Conns
    PROVE  /\ w \in Worlds
           /\ w.conn \in [Conns -> ConnFields]
           /\ w.heap \in [Ids -> HeapFields]
           /\ w.installed \in Pointer
           /\ w.conn[c] \in ConnFields
           /\ Fields(w.conn[c], c)
           /\ States(w.conn[c], w.heap)
           /\ \A i \in Own(c) : Points(w.conn[c], i, w.heap[i]) /\ w.heap[i] \in HeapFields /\ i \in Ids
           /\ Family(w.conn[c], w.conn)
           /\ LiveIn(w, w.installed)
<1>1. w \in Worlds /\ SoundAt(w, c)
  BY DEF Sound
<1>2. w.conn \in [Conns -> ConnFields] /\ w.heap \in [Ids -> HeapFields] /\ w.installed \in Pointer
  BY <1>1 DEF Worlds
<1>3. \A i \in Own(c) : i \in Ids
  BY Names
<1>4. QED
  BY <1>1, <1>2, <1>3 DEF Sound, SoundAt

\* Nobody is the parent of itself, and parents are listeners that exist.
LEMMA Parents ==
    ASSUME NEW w, Sound(w), NEW d \in Conns, w.conn[d].parent # None
    PROVE  /\ w.conn[d].parent \in Conns
           /\ w.conn[d].parent # d
           /\ w.conn[w.conn[d].parent].server
           /\ w.conn[w.conn[d].parent].parent = None
           /\ w.conn[w.conn[d].parent].life # "none"
<1>1. w.conn[d] \in ConnFields /\ Family(w.conn[d], w.conn)
  BY SoundParts
<1>2. w.conn[d].parent \in Conns
  BY <1>1 DEF ConnFields
<1>3. QED
  BY <1>1, <1>2 DEF Family

\* A connection keeps its family when it keeps its life, its kind and its
\* engine, or gets an engine of its own for the first time.
LEMMA KinSame ==
    ASSUME NEW w, Sound(w), NEW c \in Conns, NEW r,
           r.parent = w.conn[c].parent, r.server = w.conn[c].server, r.life = w.conn[c].life,
           \/ r.engine = w.conn[c].engine /\ r.owns = w.conn[c].owns
           \/ w.conn[c].engine = None /\ r.owns
    PROVE  Kin(w, c, r)
<1>1. r.parent # c
  BY Parents, Names
<1>2. Family(r, w.conn)
  BY SoundParts DEF Family
<1>3. ASSUME NEW d \in Conns, d # c PROVE Family(w.conn[d], [w.conn EXCEPT ![c] = r])
  <2>1. Family(w.conn[d], w.conn) /\ w.conn \in [Conns -> ConnFields]
    BY SoundParts
  <2>2. CASE w.conn[d].parent = c
    <3>1. [w.conn EXCEPT ![c] = r][c] = r
      BY <2>1
    <3>2. QED
      BY <2>1, <2>2, <3>1 DEF Family
  <2>3. CASE w.conn[d].parent # c /\ w.conn[d].parent # None
    <3>1. [w.conn EXCEPT ![c] = r][w.conn[d].parent] = w.conn[w.conn[d].parent]
      BY <2>1, <2>3, Parents
    <3>2. QED
      BY <2>1, <3>1 DEF Family
  <2>4. CASE w.conn[d].parent = None
    BY <2>4 DEF Family
  <2>5. QED
    BY <2>2, <2>3, <2>4
<1>4. QED
  BY <1>1, <1>2, <1>3 DEF Kin

\* A connection that has accepted nothing, or nothing that lives, may also lose
\* its engine or its life.
LEMMA KinAlone ==
    ASSUME NEW w, Sound(w), NEW c \in Conns, NEW r, Alone(w, c),
           r.parent = w.conn[c].parent, r.server = w.conn[c].server, r.life # "none",
           r.life # "live" \/ r.engine = None
    PROVE  Kin(w, c, r)
<1>1. r.parent # c
  BY Parents, Names
<1>2. Family(r, w.conn)
  BY SoundParts DEF Family
<1>3. ASSUME NEW d \in Conns, d # c PROVE Family(w.conn[d], [w.conn EXCEPT ![c] = r])
  <2>1. Family(w.conn[d], w.conn) /\ w.conn \in [Conns -> ConnFields]
    BY SoundParts
  <2>2. CASE w.conn[d].parent = c
    <3>1. [w.conn EXCEPT ![c] = r][c] = r
      BY <2>1
    <3>2. QED
      BY <2>1, <2>2, <3>1 DEF Family, Alone
  <2>3. CASE w.conn[d].parent # c /\ w.conn[d].parent # None
    <3>1. [w.conn EXCEPT ![c] = r][w.conn[d].parent] = w.conn[w.conn[d].parent]
      BY <2>1, <2>3, Parents
    <3>2. QED
      BY <2>1, <3>1 DEF Family
  <2>4. CASE w.conn[d].parent = None
    BY <2>4 DEF Family
  <2>5. QED
    BY <2>2, <2>3, <2>4
<1>4. QED
  BY <1>1, <1>2, <1>3 DEF Kin

-----------------------------------------------------------------------------
(* The parts of a call.                                                    *)

\* Only the fields of connection c change, to r.
OnlyConn(x, w, c, r) ==
    /\ x \in Worlds
    /\ x.conn = [w.conn EXCEPT ![c] = r]
    /\ x.conn[c] = r
    /\ x.heap = w.heap
    /\ x.installed = w.installed

\* A change of the fields of a connection alone.
LEMMA ChangeFields ==
    ASSUME NEW w, Sound(w), NEW c \in Conns, NEW r \in ConnFields, NEW x,
           x = [w EXCEPT !.conn = [w.conn EXCEPT ![c] = r]],
           Fields(r, c), States(r, w.heap), \A j \in Own(c) : AgreeAt(r, w.conn[c], j),
           Kin(w, c, r)
    PROVE  Keeps(x, w, c) /\ OnlyConn(x, w, c, r)
<1> DEFINE i == <<c, 1>>
<1>1. i \in Own(c) /\ i \in Ids
  BY Names
<1> HIDE DEF i
<1>2. /\ w \in Worlds /\ w.installed \in Pointer
      /\ w.conn \in [Conns -> ConnFields] /\ w.heap \in [Ids -> HeapFields]
  BY SoundParts
<1>3. w.heap = [w.heap EXCEPT ![i] = w.heap[i]]
  BY <1>1, <1>2
<1>4. x = [conn |-> [w.conn EXCEPT ![c] = r], heap |-> w.heap, installed |-> w.installed]
  BY <1>2 DEF Worlds
<1>5. x = Changed(w, c, r, i, w.heap[i], w.installed)
  BY <1>3, <1>4 DEF Changed
<1>6. \A j \in Own(c) : Points(r, j, w.heap[j])
  BY SoundParts, PointsAgree
<1>7. x.heap = w.heap /\ x.installed = w.installed
  BY <1>4
<1>8. LiveIn(x, w.installed)
  BY <1>7, SoundParts DEF LiveIn
<1>9. w.heap[i] \in HeapFields
  BY <1>1, <1>2
<1>10. States(r, x.heap)
  BY <1>7
<1>11. Keeps(x, w, c)
  BY <1>1, <1>2, <1>5, <1>6, <1>8, <1>9, <1>10, ChangeKeeps
<1>12. OnlyConn(x, w, c, r)
  <2>1. IsChanged(x, w, c, r, i, w.heap[i], w.installed)
    BY <1>1, <1>2, <1>5, <1>9, ChangedFields
  <2>2. QED
    BY <1>7, <2>1 DEF IsChanged, OnlyConn
<1>13. QED
  BY <1>11, <1>12

\* A new state, which must be one the connection may be in.
LEMMA SetState ==
    ASSUME NEW w, Sound(w), NEW c \in Conns, w.conn[c].life # "none",
           NEW s \in {"INIT", "CONNECTING", "CONNECTED", "CLOSED", "ERROR"},
           NEW x, x = [w EXCEPT !.conn[c].state = s],
           States([w.conn[c] EXCEPT !.state = s], w.heap)
    PROVE  Keeps(x, w, c) /\ OnlyConn(x, w, c, [w.conn[c] EXCEPT !.state = s])
<1> DEFINE q == w.conn[c]
           r == [w.conn[c] EXCEPT !.state = s]
<1>1. q \in ConnFields /\ Fields(q, c)
  BY SoundParts
<1>2. /\ r \in ConnFields
      /\ r.life = q.life /\ r.server = q.server /\ r.usePSK = q.usePSK /\ r.parent = q.parent
      /\ r.ctx = q.ctx /\ r.obj = q.obj /\ r.transport = q.transport
      /\ r.engine = q.engine /\ r.owns = q.owns /\ r.setups = q.setups
  BY <1>1 DEF ConnFields
<1>3. x = [w EXCEPT !.conn = [w.conn EXCEPT ![c] = r]]
  OBVIOUS
<1>4. States(r, w.heap)
  OBVIOUS
<1> HIDE DEF r
<1>5. Fields(r, c)
  BY <1>1, <1>2 DEF Fields
<1>6. \A j \in Own(c) : AgreeAt(r, q, j)
  BY <1>2 DEF AgreeAt
<1>7. Kin(w, c, r)
  BY <1>2, KinSame
<1>8. Keeps(x, w, c) /\ OnlyConn(x, w, c, r)
  BY <1>2, <1>3, <1>4, <1>5, <1>6, <1>7, ChangeFields
<1>9. QED
  BY <1>8 DEF r

\* The fields of a connection, and of what a setup has made, that a part of a
\* call leaves alone.
SameConn(r, q) ==
    /\ r.life = q.life /\ r.server = q.server /\ r.usePSK = q.usePSK /\ r.parent = q.parent
    /\ r.state = q.state /\ r.handshakeDone = q.handshakeDone
    /\ r.obj = q.obj /\ r.transport = q.transport

SameHeap(h, g) ==
    /\ h.transport = g.transport
    /\ h.handshake = g.handshake

\* Before a setup has made its context: it is entered, and its name is new.
Entered(w, c, i) ==
    /\ w.conn[c].life # "none"
    /\ w.conn[c].setups = i[2]
    /\ careful => w.conn[c].ctx = None /\ w.conn[c].obj = None
    /\ w.heap[i].refs = 0 /\ w.heap[i].obj = "none" /\ w.heap[i].temp = "none"

\* What the parts of a setup keep of the world before it.
SetUp(x, w, c, i) ==
    /\ Keeps(x, w, c)
    /\ SameConn(x.conn[c], w.conn[c])
    /\ SameHeap(x.heap[i], w.heap[i])
    /\ \A j \in Ids \ {i} : x.heap[j] = w.heap[j]

\* Two parts of a setup, one after the other, are a part of the setup.
LEMMA SetUpTransitive ==
    ASSUME NEW w, NEW x, NEW y, NEW c, NEW i, SetUp(x, w, c, i), SetUp(y, x, c, i)
    PROVE  SetUp(y, w, c, i)
BY DEF SetUp, Keeps, SameConn, SameHeap

\* A change of the fields of c that keeps all but its context, its engine and
\* the number of setups, and of what its setup i has made.
LEMMA ChangeSetUp ==
    ASSUME NEW w, Sound(w), NEW c \in Conns, w.conn[c].life # "none",
           NEW r \in ConnFields, NEW i \in Own(c),
           NEW h \in HeapFields, NEW n \in Pointer, NEW x, x = Changed(w, c, r, i, h, n),
           SameConn(r, w.conn[c]), SameHeap(h, w.heap[i]),
           Fields(r, c),
           Points(r, i, h), \A j \in Own(c) \ {i} : AgreeAt(r, w.conn[c], j),
           Kin(w, c, r), LiveIn(x, n)
    PROVE  SetUp(x, w, c, i) /\ IsChanged(x, w, c, r, i, h, n)
<1>1. /\ Fields(w.conn[c], c) /\ States(w.conn[c], w.heap) /\ w \in Worlds
      /\ \A j \in Own(c) : Points(w.conn[c], j, w.heap[j])
  BY SoundParts
<1>2. IsChanged(x, w, c, r, i, h, n)
  BY <1>1, ChangedFields
<1>4. \A j \in Own(c) : SameHeap(x.heap[j], w.heap[j])
  BY <1>2, Names DEF IsChanged, SameHeap
<1>5. States(r, x.heap)
  <2>1. r.obj # None => x.heap[r.obj].handshake = w.heap[r.obj].handshake
    BY <1>1, <1>4 DEF Fields, SameHeap
  <2>2. r.transport # None => x.heap[r.transport].transport = w.heap[r.transport].transport
    BY <1>1, <1>4 DEF Fields, SameHeap
  <2>3. QED
    BY <1>1, <2>1, <2>2 DEF States, SameConn
<1>6. \A j \in Own(c) \ {i} : Points(r, j, w.heap[j])
  BY <1>1, PointsAgree
<1>7. Keeps(x, w, c)
  BY <1>5, <1>6, ChangeKeeps
<1>8. QED
  BY <1>2, <1>7 DEF SetUp, IsChanged

\* SetupPolicyContext is entered with a number that was not used.
LEMMA EnterSetup ==
    ASSUME NEW w, Sound(w), NEW c \in Conns, w.conn[c].life # "none", NEW i \in Own(c),
           i[2] = w.conn[c].setups + 1, careful => w.conn[c].ctx = None,
           NEW x, x = [w EXCEPT !.conn[c].setups = @ + 1]
    PROVE  SetUp(x, w, c, i) /\ Entered(x, c, i) /\ x.conn[c].engine = w.conn[c].engine
             /\ x.heap = w.heap
<1> DEFINE q == w.conn[c]
           r == [w.conn[c] EXCEPT !.setups = @ + 1]
<1>1. q \in ConnFields /\ Fields(q, c) /\ States(q, w.heap) /\ Points(q, i, w.heap[i])
  BY SoundParts
<1>2. i[2] \in 1..MaxSetups /\ q.setups \in 0..MaxSetups /\ MaxSetups \in Nat
  BY <1>1, ConnectionAssumption DEF Own, ConnFields
<1>3. /\ r \in ConnFields
      /\ SameConn(r, q)
      /\ r.ctx = q.ctx /\ r.engine = q.engine /\ r.owns = q.owns /\ r.setups = q.setups + 1
  BY <1>1, <1>2 DEF ConnFields, SameConn
<1>4. x = [w EXCEPT !.conn = [w.conn EXCEPT ![c] = r]]
  OBVIOUS
<1> HIDE DEF r
<1>5. Fields(r, c)
  BY <1>1, <1>3 DEF Fields, SameConn
<1>6. States(r, w.heap)
  BY <1>1, <1>3 DEF States, SameConn
<1>7. \A j \in Own(c) : AgreeAt(r, q, j)
  <2>1. \A j \in Own(c) : j[2] \in 1..MaxSetups
    BY DEF Own
  <2>2. \A j \in Own(c) : r.setups < j[2] => q.setups < j[2]
    BY <1>2, <1>3, <2>1
  <2>3. QED
    BY <1>3, <2>2 DEF AgreeAt, SameConn
<1>8. Kin(w, c, r)
  BY <1>3, KinSame DEF SameConn
<1>9. Keeps(x, w, c) /\ OnlyConn(x, w, c, r)
  BY <1>3, <1>4, <1>5, <1>6, <1>7, <1>8, ChangeFields
<1>10. w.heap[i].refs = 0 /\ w.heap[i].obj = "none" /\ w.heap[i].temp = "none"
  BY <1>1, <1>2 DEF Points
<1>11. careful => q.obj = None
  BY <1>1 DEF Fields
<1>12. QED
  BY <1>3, <1>9, <1>10, <1>11 DEF SetUp, Entered, OnlyConn, SameConn, SameHeap

\* Fields and heap changed by EXCEPT, the adaptor left alone.
LEMMA AsChanged ==
    ASSUME NEW w \in Worlds, NEW c, NEW r, NEW i, NEW h, NEW x,
           x = [w EXCEPT !.conn = [w.conn EXCEPT ![c] = r], !.heap = [w.heap EXCEPT ![i] = h]]
    PROVE  x = Changed(w, c, r, i, h, w.installed)
BY DEF Changed, Worlds

\* When another setup than i is changed the engine in the adaptor stays alive,
\* and when i is changed it does if its engine is not touched.
LEMMA InstalledStays ==
    ASSUME NEW w, Sound(w), NEW c \in Conns, NEW r \in ConnFields, NEW i \in Own(c),
           NEW h \in HeapFields, NEW x, x = Changed(w, c, r, i, h, w.installed),
           h.engine = w.heap[i].engine
    PROVE  LiveIn(x, w.installed)
<1>1. w \in Worlds /\ w.installed \in Pointer /\ LiveIn(w, w.installed)
  BY SoundParts
<1>2. IsChanged(x, w, c, r, i, h, w.installed)
  BY <1>1, ChangedFields
<1>3. QED
  BY <1>1, <1>2 DEF IsChanged, Pointer, LiveIn

\* The engine the connection has is installed again, or a new one is made, or
\* none can be made.
LEMMA InjectKeeps ==
    ASSUME NEW w, Sound(w), NEW c \in Conns, NEW i \in Own(c), Entered(w, c, i),
           w.conn[c].life = "live",
           w.conn[c].engine # None => w.heap[w.conn[c].engine].engine = "live",
           NEW x \in InjectCryptoEngine(w, c, i)
    PROVE  SetUp(x, w, c, i) /\ Entered(x, c, i)
<1> DEFINE q == w.conn[c]
           g == w.heap[i]
<1>1. /\ w \in Worlds /\ q \in ConnFields /\ g \in HeapFields
      /\ Fields(q, c) /\ Points(q, i, g) /\ i \in Ids
      /\ w.conn \in [Conns -> ConnFields] /\ w.heap \in [Ids -> HeapFields]
  BY SoundParts
<1>2. CASE x = w
  BY <1>2 DEF SetUp, Keeps, SameConn, SameHeap
<1>3. CASE q.engine # None /\ x = [w EXCEPT !.installed = q.engine]
  <2>1. w.conn = [w.conn EXCEPT ![c] = q] /\ w.heap = [w.heap EXCEPT ![i] = g]
    BY <1>1
  <2>2. x = [conn |-> w.conn, heap |-> w.heap, installed |-> q.engine]
    BY <1>1, <1>3 DEF Worlds
  <2>3. x = Changed(w, c, q, i, g, q.engine)
    BY <2>1, <2>2 DEF Changed
  <2>4. x.heap = w.heap /\ x.conn = w.conn
    BY <2>2
  <2>5. q.engine \in Pointer
    BY <1>1 DEF ConnFields
  <2>6. Kin(w, c, q)
    BY KinSame
  <2>7. \A j \in Own(c) \ {i} : AgreeAt(q, q, j)
    BY DEF AgreeAt
  <2>8. SameConn(q, q) /\ SameHeap(g, g)
    BY DEF SameConn, SameHeap
  <2>9. SetUp(x, w, c, i)
    <3>1. LiveIn(x, q.engine)
      BY <2>4 DEF LiveIn
    <3>2. QED
      BY <1>1, <2>3, <2>5, <2>6, <2>7, <2>8, <3>1, ChangeSetUp DEF Entered
  <2>10. QED
    BY <2>4, <2>9 DEF Entered
<1>4. CASE /\ q.engine = None
           /\ x = [w EXCEPT !.conn[c].engine = i, !.conn[c].owns = TRUE,
                            !.heap[i].engine = "live", !.installed = i]
  <2> DEFINE r == [q EXCEPT !.engine = i, !.owns = TRUE]
             h == [g EXCEPT !.engine = "live"]
  <2>1. x = Changed(w, c, r, i, h, i)
    <3>1. x = [w EXCEPT !.conn = [w.conn EXCEPT ![c] = r], !.heap = [w.heap EXCEPT ![i] = h],
                        !.installed = i]
      BY <1>1, <1>4
    <3>2. QED
      BY <1>1, <3>1 DEF Changed, Worlds
  <2>2. /\ r \in ConnFields /\ SameConn(r, q)
        /\ r.ctx = q.ctx /\ r.setups = q.setups /\ r.engine = i /\ r.owns
    BY <1>1 DEF ConnFields, SameConn, Pointer
  <2>3. /\ h \in HeapFields /\ SameHeap(h, g) /\ h.engine = "live"
        /\ h.refs = g.refs /\ h.obj = g.obj /\ h.temp = g.temp
    BY <1>1 DEF HeapFields, SameHeap
  <2> HIDE DEF r, h
  <2>4. IsChanged(x, w, c, r, i, h, i)
    BY <1>1, <2>1, <2>2, <2>3, ChangedFields DEF Pointer
  <2>5. Points(r, i, h)
    BY <1>1, <2>2, <2>3 DEF Points, ObjRefs, SameConn, SameHeap, Entered, Own
  <2>6. \A j \in Own(c) \ {i} : AgreeAt(r, q, j)
    <3>1. q.owns => q.engine \in Own(c)
      BY <1>1 DEF Fields
    <3>2. None \notin Own(c)
      BY Names
    <3>3. ~q.owns
      BY <1>4, <3>1, <3>2
    <3>4. QED
      BY <2>2, <3>3 DEF AgreeAt, SameConn
  <2>7. Kin(w, c, r)
    BY <1>4, <2>2, KinSame DEF SameConn
  <2>8. i \in Pointer /\ LiveIn(x, i) /\ Fields(r, c)
    <3>1. Fields(r, c)
      BY <1>1, <2>2 DEF Fields, SameConn
    <3>2. i \in Pointer
      BY <1>1 DEF Pointer
    <3>3. LiveIn(x, i)
      BY <2>3, <2>4 DEF IsChanged, LiveIn
    <3>4. QED
      BY <3>1, <3>2, <3>3
  <2>9. SetUp(x, w, c, i)
    BY <1>1, <2>1, <2>2, <2>3, <2>5, <2>6, <2>7, <2>8, ChangeSetUp DEF Entered
  <2>10. QED
    BY <2>2, <2>3, <2>4, <2>9 DEF IsChanged, Entered, SameConn
<1>5. QED
  BY <1>2, <1>3, <1>4 DEF InjectCryptoEngine

\* SCF_CreatePolicyCtx fails: the pointer is null.
LEMMA NoCtxKeeps ==
    ASSUME NEW w, Sound(w), NEW c \in Conns, NEW i \in Own(c), Entered(w, c, i),
           NEW x, x = [w EXCEPT !.conn[c].ctx = None]
    PROVE  SetUp(x, w, c, i)
<1> DEFINE q == w.conn[c]
           r == [w.conn[c] EXCEPT !.ctx = None]
<1>1. q \in ConnFields /\ Fields(q, c) /\ States(q, w.heap)
  BY SoundParts
<1>2. /\ r \in ConnFields /\ SameConn(r, q) /\ r.ctx = None
      /\ r.engine = q.engine /\ r.owns = q.owns /\ r.setups = q.setups
  BY <1>1 DEF ConnFields, SameConn, Pointer
<1>3. x = [w EXCEPT !.conn = [w.conn EXCEPT ![c] = r]]
  OBVIOUS
<1> HIDE DEF r
<1>4. Fields(r, c)
  BY <1>1, <1>2 DEF Fields, SameConn, Entered
<1>5. States(r, w.heap)
  BY <1>1, <1>2 DEF States, SameConn
<1>6. \A j \in Own(c) : AgreeAt(r, q, j)
  BY <1>2, Names DEF AgreeAt, SameConn, Entered
<1>7. Kin(w, c, r)
  BY <1>2, KinSame DEF SameConn
<1>8. Keeps(x, w, c) /\ OnlyConn(x, w, c, r)
  BY <1>2, <1>3, <1>4, <1>5, <1>6, <1>7, ChangeFields
<1>9. QED
  BY <1>2, <1>8 DEF SetUp, OnlyConn, SameHeap

\* The setup i of c has made its context, and no object yet.
HasCtx(x, c, i) ==
    /\ x.conn[c].ctx = i /\ x.conn[c].setups = i[2]
    /\ x.heap[i].obj = "none" /\ x.heap[i].temp = "none"

\* SCF_CreatePolicyCtx makes a context, with one reference.
LEMMA MadeKeeps ==
    ASSUME NEW w, Sound(w), NEW c \in Conns, NEW i \in Own(c), Entered(w, c, i),
           w.conn[c].life = "live",
           NEW x, x = [w EXCEPT !.conn[c].ctx = i, !.heap[i].refs = 1]
    PROVE  SetUp(x, w, c, i) /\ HasCtx(x, c, i)
<1> DEFINE q == w.conn[c]
           g == w.heap[i]
           r == [q EXCEPT !.ctx = i]
           h == [g EXCEPT !.refs = 1]
<1>1. /\ w \in Worlds /\ q \in ConnFields /\ g \in HeapFields /\ w.installed \in Pointer
      /\ Fields(q, c) /\ Points(q, i, g) /\ i \in Ids
      /\ w.conn \in [Conns -> ConnFields] /\ w.heap \in [Ids -> HeapFields]
  BY SoundParts
<1>2. x = Changed(w, c, r, i, h, w.installed)
  <2>1. x = [w EXCEPT !.conn = [w.conn EXCEPT ![c] = r], !.heap = [w.heap EXCEPT ![i] = h]]
    BY <1>1
  <2>2. QED
    BY <1>1, <2>1, AsChanged
<1>3. /\ r \in ConnFields /\ SameConn(r, q) /\ r.ctx = i
      /\ r.setups = q.setups /\ r.engine = q.engine /\ r.owns = q.owns
  BY <1>1 DEF ConnFields, SameConn, Pointer
<1>4. /\ h \in HeapFields /\ SameHeap(h, g) /\ h.engine = g.engine /\ h.refs = 1
      /\ h.obj = g.obj /\ h.temp = g.temp
  BY <1>1 DEF HeapFields, SameHeap
<1> HIDE DEF r, h
<1>5. Points(r, i, h)
  BY <1>1, <1>3, <1>4, Names DEF Points, ObjRefs, SameConn, SameHeap, Entered, Own
<1>6. \A j \in Own(c) \ {i} : AgreeAt(r, q, j)
  <2>1. \A j \in Own(c) : j # None
    BY Names
  <2>2. careful => q.ctx = None
    BY DEF Entered
  <2>3. QED
    BY <1>3, <2>1, <2>2 DEF AgreeAt, SameConn
<1>7. Kin(w, c, r)
  BY <1>3, KinSame DEF SameConn
<1>8. LiveIn(x, w.installed)
  BY <1>2, <1>3, <1>4, InstalledStays
<1>9. Fields(r, c)
  <2>1. i # None
    BY <1>1, Names
  <2>2. QED
    BY <1>1, <1>3, <2>1 DEF Fields, SameConn
<1>10. SetUp(x, w, c, i) /\ IsChanged(x, w, c, r, i, h, w.installed)
  BY <1>1, <1>2, <1>3, <1>4, <1>5, <1>6, <1>7, <1>8, <1>9, ChangeSetUp DEF Entered
<1>11. QED
  BY <1>3, <1>4, <1>10 DEF IsChanged, Entered, HasCtx

\* x differs from w in what setup i has made, which is h.
MadeIs(x, w, c, i, h) == SetUp(x, w, c, i) /\ x.conn = w.conn /\ x.heap[i] = h

\* A change of what setup i has made alone, in the fields that setups make.
LEMMA ChangeMade ==
    ASSUME NEW w, Sound(w), NEW c \in Conns, w.conn[c].life # "none", NEW i \in Own(c),
           NEW h \in HeapFields, NEW x, x = [w EXCEPT !.heap = [w.heap EXCEPT ![i] = h]],
           SameHeap(h, w.heap[i]), h.engine = w.heap[i].engine,
           Points(w.conn[c], i, h)
    PROVE  MadeIs(x, w, c, i, h)
<1> DEFINE q == w.conn[c]
<1>1. /\ w \in Worlds /\ q \in ConnFields /\ w.installed \in Pointer /\ Fields(q, c)
      /\ w.conn \in [Conns -> ConnFields]
  BY SoundParts
<1>2. w.conn = [w.conn EXCEPT ![c] = q]
  BY <1>1
<1>3. x = [conn |-> w.conn, heap |-> [w.heap EXCEPT ![i] = h], installed |-> w.installed]
  BY <1>1 DEF Worlds
<1>4. x = Changed(w, c, q, i, h, w.installed)
  BY <1>2, <1>3 DEF Changed
<1>5. SameConn(q, q) /\ \A j \in Own(c) \ {i} : AgreeAt(q, q, j)
  BY DEF SameConn, AgreeAt
<1>6. Kin(w, c, q)
  BY KinSame
<1>7. LiveIn(x, w.installed)
  BY <1>1, <1>4, InstalledStays
<1>8. SetUp(x, w, c, i) /\ IsChanged(x, w, c, q, i, h, w.installed)
  BY <1>1, <1>4, <1>5, <1>6, <1>7, ChangeSetUp
<1>9. QED
  BY <1>3, <1>8 DEF IsChanged, MadeIs

\* SCF_SetPolicy binds the context to a library context.
LEMMA BoundKeeps ==
    ASSUME NEW w, Sound(w), NEW c \in Conns, w.conn[c].life # "none", NEW i \in Own(c),
           NEW lib \in Ids \cup {NoLib, Default},
           NEW x, x = [w EXCEPT !.heap[i].lib = lib]
    PROVE  /\ SetUp(x, w, c, i) /\ x.conn = w.conn
           /\ x.heap[i].obj = w.heap[i].obj /\ x.heap[i].temp = w.heap[i].temp
<1> DEFINE g == w.heap[i]
           h == [g EXCEPT !.lib = lib]
<1>1. g \in HeapFields /\ Points(w.conn[c], i, g)
  BY SoundParts
<1>2. x = [w EXCEPT !.heap = [w.heap EXCEPT ![i] = h]]
  OBVIOUS
<1>3. /\ h \in HeapFields /\ SameHeap(h, g) /\ h.engine = g.engine /\ h.refs = g.refs
      /\ h.obj = g.obj /\ h.temp = g.temp
  BY <1>1 DEF HeapFields, SameHeap
<1> HIDE DEF h
<1>4. Points(w.conn[c], i, h)
  BY <1>1, <1>3 DEF Points, ObjRefs, SameHeap
<1>5. MadeIs(x, w, c, i, h)
  BY <1>2, <1>3, <1>4, ChangeMade
<1>6. QED
  BY <1>3, <1>5 DEF MadeIs

\* The object that is made to look up a cipher takes a reference, and keeps it.
LEMMA LookUpKeeps ==
    ASSUME NEW w, Sound(w), NEW c \in Conns, w.conn[c].life # "none", NEW i \in Own(c),
           w.conn[c].ctx = i, w.conn[c].setups = i[2], w.conn[c].usePSK,
           w.heap[i].obj = "none", w.heap[i].temp = "none",
           NEW x, x = LookUpCipher(w, i)
    PROVE  SetUp(x, w, c, i) /\ x.conn = w.conn /\ x.heap[i].obj = "none"
<1> DEFINE g == w.heap[i]
           h == [g EXCEPT !.refs = @ + 1, !.temp = "live"]
<1>1. g \in HeapFields /\ Points(w.conn[c], i, g)
  BY SoundParts
<1>2. x = [w EXCEPT !.heap = [w.heap EXCEPT ![i] = h]]
  BY DEF LookUpCipher
<1>3. g.refs = 1 /\ g.obj = "none"
  BY <1>1 DEF Points, ObjRefs
<1>4. /\ h \in HeapFields /\ SameHeap(h, g) /\ h.engine = g.engine /\ h.refs = 2
      /\ h.obj = "none" /\ h.temp = "live"
  <2> DEFINE f == [g EXCEPT !.refs = 2]
  <2>1. h = [f EXCEPT !.temp = "live"]
    BY <1>3
  <2> HIDE DEF g, h
  <2>2. /\ f \in HeapFields /\ SameHeap(f, g) /\ f.engine = g.engine /\ f.refs = 2
        /\ f.obj = g.obj
    BY <1>1 DEF HeapFields, SameHeap
  <2> HIDE DEF f
  <2>3. QED
    BY <1>3, <2>1, <2>2 DEF HeapFields, SameHeap
<1> HIDE DEF h
<1>5. Points(w.conn[c], i, h)
  <2>1. i[2] \in Nat
    BY ConnectionAssumption DEF Own
  <2>2. QED
    BY <1>1, <1>3, <1>4, <2>1 DEF Points, ObjRefs, SameHeap
<1>6. MadeIs(x, w, c, i, h)
  BY <1>2, <1>4, <1>5, ChangeMade
<1>7. QED
  BY <1>4, <1>6 DEF MadeIs

\* What a setup can end with: the world is sound, and after a success it has a
\* context and no object.
SetupResult(r, w, c, i) ==
    /\ SetUp(r.w, w, c, i)
    /\ r.ret \in {"SCF_SUCCESS", "error"}
    /\ r.ret # "error" => r.w.conn[c].ctx = i /\ r.w.heap[i].obj = "none"

\* SetupPolicyContext, wherever it ends.
LEMMA SetupKeeps ==
    ASSUME NEW w, Sound(w), NEW c \in Conns, w.conn[c].life = "live", NEW i \in Own(c),
           i[2] = w.conn[c].setups + 1, careful => w.conn[c].ctx = None,
           LiveIn(w, w.conn[c].engine),
           NEW res \in SetupPolicyContext(w, c, i)
    PROVE  SetupResult(res, w, c, i)
<1> DEFINE e == [w EXCEPT !.conn[c].setups = @ + 1]
<1>1. SetUp(e, w, c, i) /\ Entered(e, c, i) /\ e.conn[c].engine = w.conn[c].engine /\ e.heap = w.heap
  BY EnterSetup
<1> DEFINE NoCtx(v) == [v EXCEPT !.conn[c].ctx = None]
           Made(v) == [v EXCEPT !.conn[c].ctx = i, !.heap[i].refs = 1]
           Bound(v, lib) == [Made(v) EXCEPT !.heap[i].lib = lib]
           Rest(v) == {Fail(NoCtx(v)), Fail(Made(v))} \cup
                        UNION {SetupCredentials(Bound(v, lib), c, i) : lib \in InitSsl(v)}
<1>0. res \in UNION {Rest(v) : v \in InjectCryptoEngine(e, c, i)}
  BY DEF SetupPolicyContext
<1> HIDE DEF e
<1>2. PICK v \in InjectCryptoEngine(e, c, i) :
        \/ res \in {Fail(NoCtx(v)), Fail(Made(v))}
        \/ \E lib \in InitSsl(v) : res \in SetupCredentials(Bound(v, lib), c, i)
  <2> HIDE DEF NoCtx, Made, Bound
  <2>1. QED
    BY <1>0
<1>3. SetUp(v, w, c, i) /\ Entered(v, c, i) /\ Sound(v) /\ v.conn[c].life = "live"
  <2>1. Sound(e) /\ e.conn[c].life = "live"
    BY <1>1 DEF SetUp, Keeps, SameConn
  <2>2. e.conn[c].engine # None => e.heap[e.conn[c].engine].engine = "live"
    BY <1>1 DEF LiveIn
  <2>3. SetUp(v, e, c, i) /\ Entered(v, c, i)
    BY <1>1, <2>1, <2>2, InjectKeeps
  <2>4. SetUp(v, w, c, i)
    BY <1>1, <2>3, SetUpTransitive
  <2>5. QED
    BY <2>1, <2>3, <2>4 DEF SetUp, Keeps, SameConn
<1>4. SetUp(NoCtx(v), w, c, i)
  BY <1>3, NoCtxKeeps, SetUpTransitive
<1>5. SetUp(Made(v), v, c, i) /\ HasCtx(Made(v), c, i)
  BY <1>3, MadeKeeps
<1> HIDE DEF NoCtx, Made
<1>6. SetUp(Made(v), w, c, i) /\ Sound(Made(v)) /\ Made(v).conn[c].life = "live"
  <2>1. SetUp(Made(v), w, c, i)
    BY <1>3, <1>5, SetUpTransitive
  <2>2. QED
    BY <1>3, <1>5, <2>1 DEF SetUp, Keeps, SameConn
<1>7. CASE res \in {Fail(NoCtx(v)), Fail(Made(v))}
  BY <1>4, <1>6, <1>7 DEF SetupResult, Fail
<1>8. ASSUME NEW lib \in InitSsl(v), res \in SetupCredentials(Bound(v, lib), c, i)
      PROVE  SetupResult(res, w, c, i)
  <2> DEFINE b == Bound(v, lib)
  <2>1. lib \in Ids \cup {NoLib, Default}
    <3>1. v.installed \in Pointer
      BY <1>3, SoundParts
    <3>2. QED
      BY <3>1 DEF InitSsl, Pointer
  <2>2. /\ SetUp(b, Made(v), c, i) /\ b.conn = Made(v).conn
        /\ b.heap[i].obj = "none" /\ b.heap[i].temp = "none"
    BY <1>5, <1>6, <2>1, BoundKeeps DEF HasCtx
  <2> HIDE DEF b
  <2>3. SetUp(b, w, c, i) /\ Sound(b) /\ b.conn[c].life = "live"
          /\ b.conn[c].ctx = i /\ b.conn[c].setups = i[2]
    <3>1. SetUp(b, w, c, i)
      BY <1>6, <2>2, SetUpTransitive
    <3>2. QED
      BY <1>5, <1>6, <2>2, <3>1 DEF SetUp, Keeps, HasCtx
  <2>4. CASE res \in {Ok(b), Fail(b)}
    BY <2>2, <2>3, <2>4 DEF SetupResult, Ok, Fail
  <2>5. CASE b.conn[c].usePSK /\ res \in {Ok(LookUpCipher(b, i)), Fail(LookUpCipher(b, i))}
    <3> DEFINE l == LookUpCipher(b, i)
    <3>1. SetUp(l, b, c, i) /\ l.conn = b.conn /\ l.heap[i].obj = "none"
      BY <2>2, <2>3, <2>5, LookUpKeeps
    <3>2. SetUp(l, w, c, i)
      BY <2>3, <3>1, SetUpTransitive
    <3>3. res \in {Ok(l), Fail(l)}
      BY <2>5
    <3> HIDE DEF l
    <3>4. QED
      BY <2>3, <3>1, <3>2, <3>3 DEF SetupResult, Ok, Fail
  <2>6. QED
    BY <1>8, <2>4, <2>5 DEF SetupCredentials, b
<1>9. QED
  BY <1>2, <1>7, <1>8

\* A connection has an open transport.
TransportOpen(w, c) ==
    w.conn[c].transport # None /\ w.heap[w.conn[c].transport].transport = "open"

\* A live connection has the context of setup i, and no object yet.
CtxReady(w, c, i) ==
    /\ w.conn[c].life = "live" /\ w.conn[c].ctx = i
    /\ careful => w.conn[c].obj = None
    /\ w.heap[i].obj = "none"

\* A part of a call that ends with the result r leaves the connection alive.
Result(r, w, c) ==
    /\ Keeps(r.w, w, c)
    /\ r.w.conn[c].life = "live"
    /\ r.ret \in {"SCF_SUCCESS", "want", "error"}

\* Two changes that keep the invariant, one after the other, do.
LEMMA KeepsTransitive ==
    ASSUME NEW w, NEW x, NEW y, NEW c, Keeps(x, w, c), Keeps(y, x, c)
    PROVE  Keeps(y, w, c)
BY DEF Keeps

\* The transport can not be made: the pointer is null.
LEMMA NoTransport ==
    ASSUME NEW w, Sound(w), NEW c \in Conns, w.conn[c].life = "live",
           careful => w.conn[c].transport = None,
           NEW x, x = [w EXCEPT !.conn[c].transport = None]
    PROVE  Keeps(x, w, c) /\ x.conn[c].life = "live"
<1> DEFINE q == w.conn[c]
           r == [w.conn[c] EXCEPT !.transport = None]
<1>1. q \in ConnFields /\ Fields(q, c) /\ States(q, w.heap)
  BY SoundParts
<1>2. /\ r \in ConnFields /\ r.life = q.life /\ r.server = q.server /\ r.usePSK = q.usePSK
      /\ r.parent = q.parent /\ r.state = q.state /\ r.handshakeDone = q.handshakeDone
      /\ r.ctx = q.ctx /\ r.obj = q.obj /\ r.transport = None
      /\ r.engine = q.engine /\ r.owns = q.owns /\ r.setups = q.setups
  BY <1>1 DEF ConnFields, Pointer
<1>3. x = [w EXCEPT !.conn = [w.conn EXCEPT ![c] = r]]
  OBVIOUS
<1> HIDE DEF r
<1>4. Fields(r, c)
  BY <1>1, <1>2 DEF Fields
<1>5. States(r, w.heap)
  BY <1>1, <1>2 DEF States
<1>6. \A j \in Own(c) : AgreeAt(r, q, j)
  BY <1>2, Names DEF AgreeAt
<1>7. Kin(w, c, r)
  BY <1>2, KinSame
<1>8. Keeps(x, w, c) /\ OnlyConn(x, w, c, r)
  BY <1>2, <1>3, <1>4, <1>5, <1>6, <1>7, ChangeFields
<1>9. QED
  BY <1>2, <1>8 DEF OnlyConn

\* What making the transport t of setup i leaves of the world.
TransportMade(x, w, c, i, t) ==
    /\ Keeps(x, w, c)
    /\ x.conn[c].life = "live" /\ x.conn[c].transport = i
    /\ x.conn[c].ctx = w.conn[c].ctx /\ x.conn[c].obj = w.conn[c].obj
    /\ x.heap[i].transport = t /\ x.heap[i].obj = w.heap[i].obj

\* The transport is made, and open or closed.
LEMMA MakeTransport ==
    ASSUME NEW w, Sound(w), NEW c \in Conns, w.conn[c].life = "live", NEW i \in Own(c),
           careful => w.conn[c].transport = None, NEW t \in {"open", "closed"},
           NEW x, x = [w EXCEPT !.conn[c].transport = i, !.heap[i].transport = t]
    PROVE  TransportMade(x, w, c, i, t)
<1> DEFINE q == w.conn[c]
           g == w.heap[i]
           r == [q EXCEPT !.transport = i]
           h == [g EXCEPT !.transport = t]
<1>1. /\ w \in Worlds /\ q \in ConnFields /\ g \in HeapFields /\ w.installed \in Pointer
      /\ Fields(q, c) /\ States(q, w.heap) /\ i \in Ids
      /\ w.conn \in [Conns -> ConnFields] /\ w.heap \in [Ids -> HeapFields]
      /\ \A j \in Own(c) : Points(q, j, w.heap[j])
  BY SoundParts
<1>2. x = Changed(w, c, r, i, h, w.installed)
  <2>1. x = [w EXCEPT !.conn = [w.conn EXCEPT ![c] = r], !.heap = [w.heap EXCEPT ![i] = h]]
    BY <1>1
  <2>2. QED
    BY <1>1, <2>1 DEF Changed, Worlds
<1>3. /\ r \in ConnFields /\ r.life = q.life /\ r.server = q.server /\ r.usePSK = q.usePSK
      /\ r.parent = q.parent /\ r.state = q.state /\ r.handshakeDone = q.handshakeDone
      /\ r.ctx = q.ctx /\ r.obj = q.obj /\ r.transport = i
      /\ r.engine = q.engine /\ r.owns = q.owns /\ r.setups = q.setups
  BY <1>1 DEF ConnFields, Pointer
<1>4. /\ h \in HeapFields /\ h.engine = g.engine /\ h.refs = g.refs
      /\ h.obj = g.obj /\ h.temp = g.temp /\ h.handshake = g.handshake /\ h.transport = t
  BY <1>1 DEF HeapFields
<1> HIDE DEF r, h
<1>5. IsChanged(x, w, c, r, i, h, w.installed)
  BY <1>1, <1>2, <1>3, <1>4, ChangedFields
<1>6. Fields(r, c)
  BY <1>1, <1>3 DEF Fields
<1>7. \A j \in Own(c) : x.heap[j].handshake = w.heap[j].handshake
  BY <1>4, <1>5, Names DEF IsChanged
<1>8. States(r, x.heap)
  <2>1. r.obj # None => x.heap[r.obj].handshake = w.heap[r.obj].handshake
    BY <1>6, <1>7 DEF Fields
  <2>2. QED
    BY <1>1, <1>3, <2>1 DEF States
<1>9. Points(r, i, h)
  BY <1>1, <1>3, <1>4 DEF Points, ObjRefs
<1>10. \A j \in Own(c) \ {i} : Points(r, j, w.heap[j])
  <2>1. ASSUME NEW j \in Own(c) \ {i} PROVE AgreeAt(r, q, j)
    BY <1>3, Names DEF AgreeAt
  <2>2. QED
    BY <1>1, <2>1, PointsAgree
<1>11. Kin(w, c, r)
  BY <1>3, KinSame
<1>12. LiveIn(x, w.installed)
  BY <1>2, <1>3, <1>4, InstalledStays
<1>13. Keeps(x, w, c)
  BY <1>1, <1>2, <1>3, <1>4, <1>6, <1>8, <1>9, <1>10, <1>11, <1>12, ChangeKeeps
<1>14. QED
  BY <1>3, <1>4, <1>5, <1>13 DEF IsChanged, TransportMade

\* SetupTransportClient and SetupTransportServer.
LEMMA SetupTransportKeeps ==
    ASSUME NEW w, Sound(w), NEW c \in Conns, NEW i \in Own(c), CtxReady(w, c, i),
           careful => w.conn[c].transport = None, NEW s \in {"CONNECTING", "INIT"},
           NEW res \in SetupTransport(w, c, i, s)
    PROVE  /\ Result(res, w, c)
           /\ res.ret # "error" =>
                CtxReady(res.w, c, i) /\ TransportOpen(res.w, c) /\ res.w.conn[c].state = s
<1> DEFINE With(t) == [w EXCEPT !.conn[c].transport = i, !.heap[i].transport = t]
           none == [w EXCEPT !.conn[c].transport = None]
           open == [With("open") EXCEPT !.conn[c].state = s]
<1>1. res \in {Fail(none), Fail(With("closed")), Ok(open)}
  BY DEF SetupTransport
<1>2. Keeps(none, w, c) /\ none.conn[c].life = "live"
  BY NoTransport DEF CtxReady
<1>3. \A t \in {"open", "closed"} : TransportMade(With(t), w, c, i, t)
  BY MakeTransport DEF CtxReady
<1> DEFINE v == With("open")
<1> HIDE DEF With, none
<1>4. Sound(v) /\ i # None /\ v.conn[c] \in ConnFields /\ v.conn[c].transport = i
      /\ v.heap[i].transport = "open" /\ v.conn[c].life = "live"
  BY <1>3, SoundParts, Names DEF TransportMade, Keeps
<1> DEFINE r == [v.conn[c] EXCEPT !.state = s]
<1>5. /\ r.state = s /\ r.transport = i /\ r.life = "live"
      /\ r.ctx = v.conn[c].ctx /\ r.obj = v.conn[c].obj
  BY <1>4 DEF ConnFields
<1>6. States(r, v.heap)
  BY <1>4, <1>5 DEF States
<1>7. Keeps(open, v, c) /\ OnlyConn(open, v, c, r)
  BY <1>4, <1>6, SetState
<1> HIDE DEF v, r, open
<1>8. Keeps(open, w, c)
  BY <1>3, <1>7, KeepsTransitive DEF TransportMade, v
<1>9. CtxReady(open, c, i) /\ TransportOpen(open, c) /\ open.conn[c].state = s
  BY <1>3, <1>4, <1>5, <1>7 DEF OnlyConn, CtxReady, TransportOpen, TransportMade, v
<1>10. QED
  BY <1>1, <1>2, <1>3, <1>8, <1>9 DEF Result, Fail, Ok, TransportMade, CtxReady

\* r has the pointers of q, and is the same connection.
SamePointers(r, q) ==
    /\ r.life = q.life /\ r.server = q.server /\ r.usePSK = q.usePSK /\ r.parent = q.parent
    /\ r.ctx = q.ctx /\ r.obj = q.obj /\ r.transport = q.transport
    /\ r.engine = q.engine /\ r.owns = q.owns /\ r.setups = q.setups

\* h holds what g holds, except that a handshake may have gone on and a
\* transport may have been closed.
SameThings(h, g) ==
    /\ h.refs = g.refs /\ h.obj = g.obj /\ h.temp = g.temp /\ h.engine = g.engine
    /\ \/ h.transport = g.transport
       \/ g.transport \in {"open", "closed"} /\ h.transport = "closed"

\* A connection changes its state and takes a handshake on, or closes.
LEMMA ChangeState ==
    ASSUME NEW w, Sound(w), NEW c \in Conns, w.conn[c].life # "none",
           NEW r \in ConnFields, SamePointers(r, w.conn[c]),
           NEW i \in Own(c), NEW h \in HeapFields, SameThings(h, w.heap[i]),
           NEW x, x = [w EXCEPT !.conn = [w.conn EXCEPT ![c] = r],
                                !.heap = [w.heap EXCEPT ![i] = h]],
           States(r, [w.heap EXCEPT ![i] = h])
    PROVE  Keeps(x, w, c) /\ IsChanged(x, w, c, r, i, h, w.installed)
<1> DEFINE q == w.conn[c]
           g == w.heap[i]
<1>1. /\ w \in Worlds /\ g \in HeapFields /\ w.installed \in Pointer
      /\ Fields(q, c)
      /\ \A j \in Own(c) : Points(q, j, w.heap[j])
  BY SoundParts
<1>2. x = [conn |-> [w.conn EXCEPT ![c] = r], heap |-> [w.heap EXCEPT ![i] = h],
           installed |-> w.installed]
  BY <1>1 DEF Worlds
<1>3. x = Changed(w, c, r, i, h, w.installed)
  BY <1>2 DEF Changed
<1>4. IsChanged(x, w, c, r, i, h, w.installed)
  BY <1>1, <1>3, ChangedFields
<1>5. Fields(r, c)
  BY <1>1 DEF Fields, SamePointers
<1>6. States(r, x.heap)
  BY <1>2
<1>7. Points(r, i, h)
  BY <1>1 DEF Points, ObjRefs, SamePointers, SameThings
<1>8. \A j \in Own(c) \ {i} : Points(r, j, w.heap[j])
  <2>1. ASSUME NEW j \in Own(c) \ {i} PROVE AgreeAt(r, q, j)
    BY DEF AgreeAt, SamePointers
  <2>2. QED
    BY <1>1, <2>1, PointsAgree
<1>9. Kin(w, c, r)
  BY KinSame DEF SamePointers
<1>10. LiveIn(x, w.installed)
  BY <1>3, InstalledStays DEF SameThings
<1>11. Keeps(x, w, c)
  BY <1>1, <1>3, <1>5, <1>6, <1>7, <1>8, <1>9, <1>10, ChangeKeeps
<1>12. QED
  BY <1>4, <1>11

\* What setup i has made, with a handshake that has gone on.
LEMMA ShakenRecord ==
    ASSUME NEW g \in HeapFields, NEW s \in {"no", "done", "failed"}
    PROVE  LET h == [g EXCEPT !.handshake = s]
           IN  h \in HeapFields /\ SameThings(h, g) /\ h.handshake = s /\ h.transport = g.transport
BY DEF HeapFields, SameThings

\* A handshake succeeds, goes on or fails.
LEMMA HandshakeKeeps ==
    ASSUME NEW w, Sound(w), NEW c \in Conns, w.conn[c].life = "live", w.conn[c].obj # None,
           careful => TransportOpen(w, c), NEW res \in Handshake(w, c)
    PROVE  /\ Result(res, w, c)
           /\ res.ret = "SCF_SUCCESS" => res.w.conn[c].state = "CONNECTED"
           /\ res.ret = "want" => res.w.conn[c].state = "CONNECTING"
<1> DEFINE q == w.conn[c]
           i == q.obj
           g == w.heap[i]
           done == [w EXCEPT !.heap[i].handshake = "done", !.conn[c].handshakeDone = TRUE,
                             !.conn[c].state = "CONNECTED"]
           wait == [w EXCEPT !.conn[c].state = "CONNECTING"]
           failed == [w EXCEPT !.heap[i].handshake = "failed", !.conn[c].state = "ERROR"]
<1>1. \/ res = [w |-> done, ret |-> "SCF_SUCCESS"]
      \/ res = [w |-> wait, ret |-> "want"]
      \/ res = [w |-> failed, ret |-> "error"]
  BY DEF Handshake, SSLHandshake
<1>2. /\ w \in Worlds /\ q \in ConnFields /\ Fields(q, c) /\ States(q, w.heap)
      /\ w.conn \in [Conns -> ConnFields] /\ w.heap \in [Ids -> HeapFields]
  BY SoundParts
<1>3. i \in Own(c) /\ i \in Ids /\ g \in HeapFields
  BY <1>2, SoundParts DEF Fields
<1>4. Keeps(done, w, c) /\ done.conn[c].life = "live" /\ done.conn[c].state = "CONNECTED"
  <2> DEFINE r == [q EXCEPT !.handshakeDone = TRUE, !.state = "CONNECTED"]
             h == [g EXCEPT !.handshake = "done"]
  <2>1. done = [w EXCEPT !.conn = [w.conn EXCEPT ![c] = r], !.heap = [w.heap EXCEPT ![i] = h]]
    BY <1>2, <1>3 DEF Worlds
  <2>2. r \in ConnFields /\ SamePointers(r, q) /\ r.state = "CONNECTED" /\ r.handshakeDone
    BY <1>2 DEF ConnFields, SamePointers
  <2>3. h \in HeapFields /\ SameThings(h, g) /\ h.handshake = "done" /\ h.transport = g.transport
    BY <1>3, ShakenRecord
  <2> HIDE DEF r, h, done
  <2> DEFINE hs == [w.heap EXCEPT ![i] = h]
  <2>4. hs[i] = h /\ \A j \in Ids : hs[j].transport = w.heap[j].transport
    BY <1>2, <1>3, <2>3
  <2> HIDE DEF hs
  <2>5. r.transport # None => hs[r.transport].transport = w.heap[r.transport].transport
    BY <1>2, <2>2, <2>4 DEF ConnFields, Pointer
  <2>6. States(r, hs)
    BY <2>2, <2>3, <2>4, <2>5 DEF States, SamePointers, TransportOpen
  <2>7. Keeps(done, w, c) /\ IsChanged(done, w, c, r, i, h, w.installed)
    BY <1>3, <2>1, <2>2, <2>3, <2>6, ChangeState DEF hs
  <2>8. QED
    BY <2>2, <2>7 DEF IsChanged, SamePointers
<1>5. Keeps(wait, w, c) /\ wait.conn[c].life = "live" /\ wait.conn[c].state = "CONNECTING"
  <2> DEFINE r == [q EXCEPT !.state = "CONNECTING"]
  <2>1. r.state = "CONNECTING" /\ r.transport = q.transport /\ r.life = q.life
    BY <1>2 DEF ConnFields
  <2>2. States(r, w.heap)
    BY <2>1 DEF States, TransportOpen
  <2>3. Keeps(wait, w, c) /\ OnlyConn(wait, w, c, r)
    BY <2>2, SetState
  <2>4. QED
    BY <2>1, <2>3 DEF OnlyConn
<1>6. Keeps(failed, w, c) /\ failed.conn[c].life = "live"
  <2> DEFINE r == [q EXCEPT !.state = "ERROR"]
             h == [g EXCEPT !.handshake = "failed"]
  <2>1. failed = [w EXCEPT !.conn = [w.conn EXCEPT ![c] = r], !.heap = [w.heap EXCEPT ![i] = h]]
    BY <1>2, <1>3 DEF Worlds
  <2>2. r \in ConnFields /\ SamePointers(r, q) /\ r.state = "ERROR"
    BY <1>2 DEF ConnFields, SamePointers
  <2>3. h \in HeapFields /\ SameThings(h, g)
    BY <1>3, ShakenRecord
  <2> HIDE DEF r, h, failed
  <2>4. States(r, [w.heap EXCEPT ![i] = h])
    BY <2>2 DEF States
  <2>5. Keeps(failed, w, c) /\ IsChanged(failed, w, c, r, i, h, w.installed)
    BY <1>3, <2>1, <2>2, <2>3, <2>4, ChangeState
  <2>6. QED
    BY <2>2, <2>5 DEF IsChanged, SamePointers
<1> HIDE DEF done, wait, failed
<1>7. QED
  BY <1>1, <1>4, <1>5, <1>6 DEF Result

\* A live connection has an object, and its transport is as it was.
ObjReady(x, w, c) ==
    /\ Keeps(x, w, c)
    /\ x.conn[c].life = "live" /\ x.conn[c].obj # None
    /\ TransportOpen(w, c) => TransportOpen(x, c)

\* The policy object is made.
LEMMA MakeObj ==
    ASSUME NEW w, Sound(w), NEW c \in Conns, NEW i \in Own(c), CtxReady(w, c, i),
           w.conn[c].state # "CONNECTED",
           NEW x, x = [w EXCEPT !.conn[c].obj = i, !.heap[i].refs = @ + 1, !.heap[i].obj = "live"]
    PROVE  ObjReady(x, w, c)
<1> DEFINE q == w.conn[c]
           g == w.heap[i]
           r == [q EXCEPT !.obj = i]
           h == [g EXCEPT !.refs = @ + 1, !.obj = "live"]
<1>1. /\ w \in Worlds /\ q \in ConnFields /\ g \in HeapFields /\ w.installed \in Pointer
      /\ Fields(q, c) /\ States(q, w.heap) /\ i \in Ids
      /\ w.conn \in [Conns -> ConnFields] /\ w.heap \in [Ids -> HeapFields]
      /\ \A j \in Own(c) : Points(q, j, w.heap[j])
  BY SoundParts
<1>2. x = Changed(w, c, r, i, h, w.installed)
  <2>1. x = [w EXCEPT !.conn = [w.conn EXCEPT ![c] = r], !.heap = [w.heap EXCEPT ![i] = h]]
    BY <1>1
  <2>2. QED
    BY <1>1, <2>1 DEF Changed, Worlds
<1>3. /\ r \in ConnFields /\ r.life = q.life /\ r.server = q.server /\ r.usePSK = q.usePSK
      /\ r.parent = q.parent /\ r.state = q.state /\ r.handshakeDone = q.handshakeDone
      /\ r.ctx = q.ctx /\ r.obj = i /\ r.transport = q.transport
      /\ r.engine = q.engine /\ r.owns = q.owns /\ r.setups = q.setups
  BY <1>1 DEF ConnFields, Pointer
<1>4. g.refs \in {1, 2} /\ g.refs = ObjRefs(g) + 1 /\ g.obj = "none"
  BY <1>1 DEF Points, ObjRefs, CtxReady
<1>5. /\ h \in HeapFields /\ h.engine = g.engine /\ h.refs = g.refs + 1
      /\ h.obj = "live" /\ h.temp = g.temp /\ h.transport = g.transport
  <2> DEFINE f == [g EXCEPT !.refs = @ + 1]
  <2>1. h = [f EXCEPT !.obj = "live"]
    OBVIOUS
  <2> HIDE DEF g, h
  <2>2. /\ f \in HeapFields /\ f.engine = g.engine /\ f.refs = g.refs + 1
        /\ f.temp = g.temp /\ f.transport = g.transport
    BY <1>1, <1>4 DEF HeapFields
  <2> HIDE DEF f
  <2>3. QED
    BY <2>1, <2>2 DEF HeapFields
<1> HIDE DEF r, h
<1>6. IsChanged(x, w, c, r, i, h, w.installed)
  BY <1>1, <1>2, <1>3, <1>5, ChangedFields
<1>7. Fields(r, c) /\ i # None
  <2>1. i # None
    BY <1>1, Names
  <2>2. q.ctx = i /\ q.life = "live"
    BY DEF CtxReady
  <2>3. Fields(r, c)
    BY <1>1, <1>3, <2>1, <2>2 DEF Fields
  <2>4. QED
    BY <2>1, <2>3
<1>8. \A j \in Own(c) : x.heap[j].transport = w.heap[j].transport
  BY <1>5, <1>6, Names DEF IsChanged
<1>9. r.transport # None => x.heap[r.transport].transport = w.heap[r.transport].transport
  BY <1>7, <1>8 DEF Fields
<1>10. States(r, x.heap)
  BY <1>1, <1>3, <1>9 DEF States
<1>11. Points(r, i, h)
  <2>1. ~(q.setups < i[2])
    BY <1>1, <1>4 DEF Points
  <2>2. QED
    BY <1>1, <1>3, <1>4, <1>5, <2>1 DEF Points, ObjRefs, CtxReady
<1>12. \A j \in Own(c) \ {i} : Points(r, j, w.heap[j])
  <2>1. \A j \in Own(c) : j # None
    BY Names
  <2>2. ASSUME NEW j \in Own(c) \ {i} PROVE AgreeAt(r, q, j)
    BY <1>3, <2>1 DEF AgreeAt, CtxReady
  <2>3. QED
    BY <1>1, <2>2, PointsAgree
<1>13. Kin(w, c, r)
  BY <1>3, KinSame
<1>14. LiveIn(x, w.installed)
  BY <1>2, <1>3, <1>5, InstalledStays
<1>15. Keeps(x, w, c)
  BY <1>1, <1>2, <1>3, <1>5, <1>7, <1>10, <1>11, <1>12, <1>13, <1>14, ChangeKeeps
<1>16. QED
  BY <1>3, <1>6, <1>7, <1>9, <1>15 DEF IsChanged, ObjReady, TransportOpen, CtxReady

\* It can not be made: the pointer is null.
LEMMA NoObj ==
    ASSUME NEW w, Sound(w), NEW c \in Conns, NEW i, CtxReady(w, c, i),
           NEW x, x = [w EXCEPT !.conn[c].obj = None]
    PROVE  Keeps(x, w, c) /\ x.conn[c].life = "live"
<1> DEFINE q == w.conn[c]
           r == [w.conn[c] EXCEPT !.obj = None]
<1>1. q \in ConnFields /\ Fields(q, c) /\ States(q, w.heap)
  BY SoundParts
<1>2. /\ r \in ConnFields /\ r.life = q.life /\ r.server = q.server /\ r.usePSK = q.usePSK
      /\ r.parent = q.parent /\ r.state = q.state /\ r.handshakeDone = q.handshakeDone
      /\ r.ctx = q.ctx /\ r.obj = None /\ r.transport = q.transport
      /\ r.engine = q.engine /\ r.owns = q.owns /\ r.setups = q.setups
  BY <1>1 DEF ConnFields, Pointer
<1>3. x = [w EXCEPT !.conn = [w.conn EXCEPT ![c] = r]]
  OBVIOUS
<1> HIDE DEF r
<1>4. Fields(r, c)
  BY <1>1, <1>2 DEF Fields, CtxReady
<1>5. States(r, w.heap)
  BY <1>1, <1>2 DEF States
<1>6. \A j \in Own(c) : AgreeAt(r, q, j)
  BY <1>2, Names DEF AgreeAt, CtxReady
<1>7. Kin(w, c, r)
  BY <1>2, KinSame
<1>8. Keeps(x, w, c) /\ OnlyConn(x, w, c, r)
  BY <1>2, <1>3, <1>4, <1>5, <1>6, <1>7, ChangeFields
<1>9. QED
  BY <1>2, <1>8 DEF OnlyConn, CtxReady

\* SCF_CreatePolicyObj and SCF_SetFd.
LEMMA CreatePolicyObjKeeps ==
    ASSUME NEW w, Sound(w), NEW c \in Conns, NEW i \in Own(c), CtxReady(w, c, i),
           w.conn[c].state # "CONNECTED", NEW res \in CreatePolicyObj(w, c, i)
    PROVE  Result(res, w, c) /\ (res.ret # "error" => ObjReady(res.w, w, c))
<1> DEFINE made == [w EXCEPT !.conn[c].obj = i, !.heap[i].refs = @ + 1, !.heap[i].obj = "live"]
           none == [w EXCEPT !.conn[c].obj = None]
<1>1. res \in {Fail(none), Fail(made), Ok(made)}
  BY DEF CreatePolicyObj
<1>2. ObjReady(made, w, c)
  BY MakeObj
<1>3. Keeps(none, w, c) /\ none.conn[c].life = "live"
  BY NoObj
<1> HIDE DEF made, none
<1>4. QED
  BY <1>1, <1>2, <1>3 DEF Fail, Ok, Result, ObjReady

\* A call that fails sets the state.
LEMMA InErrorKeeps ==
    ASSUME NEW w, Sound(w), NEW c \in Conns, w.conn[c].life # "none"
    PROVE  /\ Keeps(InError(w, c), w, c)
           /\ InError(w, c).conn[c].life = w.conn[c].life
           /\ InError(w, c).conn[c].state = "ERROR"
<1> DEFINE r == [w.conn[c] EXCEPT !.state = "ERROR"]
<1>1. r.state = "ERROR" /\ r.life = w.conn[c].life
  BY SoundParts DEF ConnFields
<1>2. States(r, w.heap)
  BY <1>1 DEF States
<1>3. Keeps(InError(w, c), w, c) /\ OnlyConn(InError(w, c), w, c, r)
  BY <1>2, SetState DEF InError
<1>4. QED
  BY <1>1, <1>3 DEF OnlyConn

\* Close: the state, and the transport if there is one.
LEMMA CloseKeeps ==
    ASSUME NEW w, Sound(w), NEW c \in Conns, w.conn[c].life # "none"
    PROVE  /\ Keeps(CloseConn(w, c), w, c)
           /\ CloseConn(w, c).conn[c].life = w.conn[c].life
           /\ CloseConn(w, c).conn[c].state = "CLOSED"
<1> DEFINE q == w.conn[c]
           r == [q EXCEPT !.state = "CLOSED", !.handshakeDone = FALSE]
           x == [w EXCEPT !.conn[c].state = "CLOSED", !.conn[c].handshakeDone = FALSE]
<1>1. /\ w \in Worlds /\ q \in ConnFields /\ Fields(q, c) /\ States(q, w.heap)
      /\ w.conn \in [Conns -> ConnFields] /\ w.heap \in [Ids -> HeapFields]
  BY SoundParts
<1>2. r \in ConnFields /\ SamePointers(r, q) /\ r.state = "CLOSED"
  BY <1>1 DEF ConnFields, SamePointers
<1>3. CASE q.state \in {"CLOSED", "CLOSING"}
  <2>1. CloseConn(w, c) = w
    BY <1>3 DEF CloseConn
  <2>2. q.state = "CLOSED"
    BY <1>1, <1>3 DEF ConnFields
  <2>3. QED
    BY <2>1, <2>2 DEF Keeps
<1>4. CASE q.state \notin {"CLOSED", "CLOSING"} /\ q.transport = None
  <2>1. CloseConn(w, c) = x
    BY <1>4 DEF CloseConn
  <2>2. x = [w EXCEPT !.conn = [w.conn EXCEPT ![c] = r]]
    BY <1>1
  <2> HIDE DEF r, x
  <2>3. Fields(r, c)
    BY <1>1, <1>2 DEF Fields, SamePointers
  <2>4. States(r, w.heap)
    BY <1>2 DEF States
  <2>5. \A j \in Own(c) : AgreeAt(r, q, j)
    BY <1>2 DEF AgreeAt, SamePointers
  <2>6. Kin(w, c, r)
    BY <1>2, KinSame DEF SamePointers
  <2>7. Keeps(x, w, c) /\ OnlyConn(x, w, c, r)
    BY <1>2, <2>2, <2>3, <2>4, <2>5, <2>6, ChangeFields
  <2>8. QED
    BY <1>2, <2>1, <2>7 DEF OnlyConn, SamePointers
<1>5. CASE q.state \notin {"CLOSED", "CLOSING"} /\ q.transport # None
  <2> DEFINE t == q.transport
             g == w.heap[t]
             h == [g EXCEPT !.transport = "closed"]
             y == [x EXCEPT !.heap[t].transport = "closed"]
  <2>1. CloseConn(w, c) = y
    BY <1>5 DEF CloseConn
  <2>2. t \in Own(c) /\ t \in Ids /\ g \in HeapFields /\ g.transport \in {"open", "closed"}
    <3>1. t \in Own(c)
      BY <1>1, <1>5 DEF Fields
    <3>2. QED
      BY <3>1, SoundParts DEF Points
  <2>3. y = [w EXCEPT !.conn = [w.conn EXCEPT ![c] = r], !.heap = [w.heap EXCEPT ![t] = h]]
    BY <1>1, <2>2 DEF Worlds
  <2>4. h \in HeapFields /\ SameThings(h, g)
    BY <2>2 DEF HeapFields, SameThings
  <2> HIDE DEF r, x, y, h
  <2>5. States(r, [w.heap EXCEPT ![t] = h])
    BY <1>2 DEF States
  <2>6. Keeps(y, w, c) /\ IsChanged(y, w, c, r, t, h, w.installed)
    BY <1>2, <2>2, <2>3, <2>4, <2>5, ChangeState
  <2>7. QED
    BY <1>2, <2>1, <2>6 DEF IsChanged, SamePointers
<1>6. QED
  BY <1>3, <1>4, <1>5

\* What the release of a pointer keeps.
Released(x, w, c) ==
    Keeps(x, w, c) /\ x.conn[c].life = w.conn[c].life /\ x.conn[c].state = w.conn[c].state

\* What the setup i has made, with a reference less.
Dropped(g) == [g EXCEPT !.refs = @ - 1, !.lib = IF g.refs = 1 THEN NoLib ELSE g.lib]

\* A reference less changes the counter and, when it was the last one, the
\* library of the SSL_CTX, and nothing else.
LEMMA DroppedFields ==
    ASSUME NEW g \in HeapFields, g.refs \in 1..3
    PROVE  /\ Dropped(g) \in HeapFields
           /\ Dropped(g).refs = g.refs - 1
           /\ Dropped(g).obj = g.obj /\ Dropped(g).temp = g.temp
           /\ Dropped(g).handshake = g.handshake
           /\ Dropped(g).transport = g.transport /\ Dropped(g).engine = g.engine
<1> DEFINE n == IF g.refs = 1 THEN NoLib ELSE g.lib
           f == [g EXCEPT !.refs = @ - 1]
           d == [f EXCEPT !.lib = n]
<1>1. Dropped(g) = d
  BY DEF Dropped
<1>2. /\ f \in HeapFields /\ f.refs = g.refs - 1 /\ f.obj = g.obj /\ f.temp = g.temp
      /\ f.handshake = g.handshake /\ f.transport = g.transport /\ f.engine = g.engine
  BY DEF HeapFields
<1>3. n \in Ids \cup {NoLib, Default}
  BY DEF HeapFields
<1> HIDE DEF f, n
<1>4. /\ d \in HeapFields /\ d.refs = f.refs /\ d.obj = f.obj /\ d.temp = f.temp
      /\ d.handshake = f.handshake /\ d.transport = f.transport /\ d.engine = f.engine
  BY <1>2, <1>3 DEF HeapFields
<1> HIDE DEF d
<1>5. QED
  BY <1>1, <1>2, <1>4

\* DropReference changes the setup it is about, and no connection.
LEMMA DropIs ==
    ASSUME NEW w \in Worlds, NEW i \in Ids
    PROVE  /\ DropReference(w, i).conn = w.conn
           /\ DropReference(w, i).heap = [w.heap EXCEPT ![i] = Dropped(w.heap[i])]
           /\ DropReference(w, i).installed = w.installed
           /\ DropReference(w, i) = [conn |-> w.conn,
                                     heap |-> [w.heap EXCEPT ![i] = Dropped(w.heap[i])],
                                     installed |-> w.installed]
<1>1. DropReference(w, i) = [w EXCEPT !.heap = [w.heap EXCEPT ![i] = Dropped(w.heap[i])]]
  BY DEF DropReference, Dropped, Worlds
<1>2. QED
  BY <1>1 DEF Worlds

\* SCF_FreePolicyObj, which gives the reference of the object back.
LEMMA FreePolicyObjKeeps ==
    ASSUME NEW w, Sound(w), NEW c \in Conns, w.conn[c].life # "none"
    PROVE  Released(FreePolicyObj(w, c), w, c) /\ FreePolicyObj(w, c).conn[c].obj = None
<1> DEFINE q == w.conn[c]
           i == q.obj
           g == w.heap[i]
           r == [q EXCEPT !.obj = None]
           d == Dropped(g)
           h == [d EXCEPT !.obj = "freed"]
           x == FreePolicyObj(w, c)
<1>1. /\ w \in Worlds /\ q \in ConnFields /\ Fields(q, c) /\ States(q, w.heap)
      /\ w.conn \in [Conns -> ConnFields] /\ w.heap \in [Ids -> HeapFields]
      /\ w.installed \in Pointer
      /\ \A j \in Own(c) : Points(q, j, w.heap[j])
  BY SoundParts
<1>2. CASE q.obj = None
  <2>1. x = w
    BY <1>2 DEF FreePolicyObj
  <2>2. QED
    BY <1>2, <2>1 DEF Released, Keeps
<1>3. CASE q.obj # None
  <2>1. i \in Own(c) /\ i \in Ids /\ g \in HeapFields /\ Points(q, i, g) /\ g.obj = "live"
    <3>1. i \in Own(c)
      BY <1>1, <1>3 DEF Fields
    <3>2. QED
      BY <3>1, SoundParts DEF Points
  <2>2. g.refs \in 1..3
    BY <2>1 DEF Points, ObjRefs, HeapFields
  <2>3. x = Changed(w, c, r, i, h, w.installed)
    <3> DEFINE v == DropReference(w, i)
    <3>1. x = [v EXCEPT !.heap[i].obj = "freed", !.conn[c].obj = None]
      BY <1>3 DEF FreePolicyObj
    <3>2. v = [conn |-> w.conn, heap |-> [w.heap EXCEPT ![i] = d], installed |-> w.installed]
      BY <1>1, <2>1, DropIs
    <3> HIDE DEF x, v, d
    <3>3. x = [conn |-> [w.conn EXCEPT ![c].obj = None],
               heap |-> [[w.heap EXCEPT ![i] = d] EXCEPT ![i].obj = "freed"],
               installed |-> w.installed]
      BY <3>1, <3>2
    <3>4. [[w.heap EXCEPT ![i] = d] EXCEPT ![i].obj = "freed"] = [w.heap EXCEPT ![i] = h]
      BY <1>1, <2>1
    <3>5. [w.conn EXCEPT ![c].obj = None] = [w.conn EXCEPT ![c] = r]
      OBVIOUS
    <3>6. QED
      BY <3>3, <3>4, <3>5 DEF Changed
  <2>4. /\ r \in ConnFields /\ r.life = q.life /\ r.server = q.server /\ r.usePSK = q.usePSK
        /\ r.parent = q.parent /\ r.state = q.state /\ r.handshakeDone = q.handshakeDone
        /\ r.ctx = q.ctx /\ r.obj = None /\ r.transport = q.transport
        /\ r.engine = q.engine /\ r.owns = q.owns /\ r.setups = q.setups
    BY <1>1 DEF ConnFields, Pointer
  <2>5. /\ h \in HeapFields /\ h.engine = g.engine /\ h.refs = g.refs - 1
        /\ h.obj = "freed" /\ h.temp = g.temp /\ h.transport = g.transport
    <3>1. /\ d \in HeapFields /\ d.refs = g.refs - 1 /\ d.temp = g.temp
          /\ d.transport = g.transport /\ d.engine = g.engine
      BY <2>1, <2>2, DroppedFields
    <3> HIDE DEF d
    <3>2. QED
      BY <3>1 DEF HeapFields
  <2> HIDE DEF r, h, x
  <2>6. IsChanged(x, w, c, r, i, h, w.installed)
    BY <1>1, <2>1, <2>3, <2>4, <2>5, ChangedFields
  <2>7. Fields(r, c)
    BY <1>1, <2>4 DEF Fields
  <2>8. \A j \in Own(c) : x.heap[j].transport = w.heap[j].transport
    BY <2>5, <2>6, Names DEF IsChanged
  <2>9. r.transport # None => x.heap[r.transport].transport = w.heap[r.transport].transport
    BY <2>7, <2>8 DEF Fields
  <2>10. States(r, x.heap)
    BY <1>1, <2>4, <2>9 DEF States
  <2>11. Points(r, i, h)
    <3>1. ~(q.setups < i[2])
      BY <2>1 DEF Points
    <3>2. i # None
      BY <1>3
    <3>3. ObjRefs(g) = ObjRefs(h) + 1 /\ ObjRefs(h) \in Nat
      BY <2>1, <2>5 DEF ObjRefs
    <3>4. /\ g.refs \in {ObjRefs(g), ObjRefs(g) + 1} => h.refs \in {ObjRefs(h), ObjRefs(h) + 1}
          /\ g.refs = ObjRefs(g) + 1 <=> h.refs = ObjRefs(h) + 1
      BY <2>2, <2>5, <3>3
    <3>5. QED
      BY <2>1, <2>4, <2>5, <3>1, <3>2, <3>4 DEF Points
  <2>12. \A j \in Own(c) \ {i} : Points(r, j, w.heap[j])
    <3>1. \A j \in Own(c) : j # None
      BY Names
    <3>2. ASSUME NEW j \in Own(c) \ {i} PROVE AgreeAt(r, q, j)
      BY <2>4, <3>1 DEF AgreeAt
    <3>3. QED
      BY <1>1, <3>2, PointsAgree
  <2>13. Kin(w, c, r)
    BY <2>4, KinSame
  <2>14. LiveIn(x, w.installed)
    BY <2>1, <2>3, <2>4, <2>5, InstalledStays
  <2>15. Keeps(x, w, c)
    BY <1>1, <2>1, <2>3, <2>4, <2>5, <2>7, <2>10, <2>11, <2>12, <2>13, <2>14, ChangeKeeps
  <2>16. QED
    BY <2>4, <2>6, <2>15 DEF IsChanged, Released, x
<1>4. QED
  BY <1>2, <1>3

\* SCF_FreePolicyCtx, after the object of a careful application is gone.
LEMMA FreePolicyCtxKeeps ==
    ASSUME NEW w, Sound(w), NEW c \in Conns, w.conn[c].life # "none", w.conn[c].obj = None
    PROVE  /\ Released(FreePolicyCtx(w, c), w, c)
           /\ FreePolicyCtx(w, c).conn[c].obj = None /\ FreePolicyCtx(w, c).conn[c].ctx = None
<1> DEFINE q == w.conn[c]
           i == q.ctx
           g == w.heap[i]
           r == [q EXCEPT !.ctx = None]
           h == Dropped(g)
           x == FreePolicyCtx(w, c)
<1>1. /\ w \in Worlds /\ q \in ConnFields /\ Fields(q, c) /\ States(q, w.heap)
      /\ w.conn \in [Conns -> ConnFields] /\ w.heap \in [Ids -> HeapFields]
      /\ w.installed \in Pointer
      /\ \A j \in Own(c) : Points(q, j, w.heap[j])
  BY SoundParts
<1>2. CASE q.ctx = None
  <2>1. x = w
    BY <1>2 DEF FreePolicyCtx
  <2>2. QED
    BY <1>2, <2>1 DEF Released, Keeps
<1>3. CASE q.ctx # None
  <2>1. i \in Own(c) /\ i \in Ids /\ g \in HeapFields /\ Points(q, i, g) /\ g.refs = ObjRefs(g) + 1
    <3>1. i \in Own(c)
      BY <1>1, <1>3 DEF Fields
    <3>2. QED
      BY <3>1, SoundParts DEF Points
  <2>2. g.refs \in 1..3
    BY <2>1 DEF ObjRefs, HeapFields
  <2>3. x = Changed(w, c, r, i, h, w.installed)
    <3> DEFINE v == DropReference(w, i)
    <3>1. x = [v EXCEPT !.conn[c].ctx = None]
      BY <1>3 DEF FreePolicyCtx
    <3>2. v = [conn |-> w.conn, heap |-> [w.heap EXCEPT ![i] = h], installed |-> w.installed]
      BY <1>1, <2>1, DropIs
    <3> HIDE DEF x, v, h
    <3>3. x = [conn |-> [w.conn EXCEPT ![c].ctx = None],
               heap |-> [w.heap EXCEPT ![i] = h], installed |-> w.installed]
      BY <3>1, <3>2
    <3>4. [w.conn EXCEPT ![c].ctx = None] = [w.conn EXCEPT ![c] = r]
      OBVIOUS
    <3>5. QED
      BY <3>3, <3>4 DEF Changed
  <2>4. /\ r \in ConnFields /\ r.life = q.life /\ r.server = q.server /\ r.usePSK = q.usePSK
        /\ r.parent = q.parent /\ r.state = q.state /\ r.handshakeDone = q.handshakeDone
        /\ r.ctx = None /\ r.obj = q.obj /\ r.transport = q.transport
        /\ r.engine = q.engine /\ r.owns = q.owns /\ r.setups = q.setups
    BY <1>1 DEF ConnFields, Pointer
  <2>5. /\ h \in HeapFields /\ h.engine = g.engine /\ h.refs = g.refs - 1
        /\ h.obj = g.obj /\ h.temp = g.temp /\ h.transport = g.transport
    BY <2>1, <2>2, DroppedFields
  <2> HIDE DEF r, h, x
  <2>6. IsChanged(x, w, c, r, i, h, w.installed)
    BY <1>1, <2>1, <2>3, <2>4, <2>5, ChangedFields
  <2>7. Fields(r, c)
    BY <1>1, <2>4 DEF Fields
  <2>8. \A j \in Own(c) : x.heap[j].transport = w.heap[j].transport
    BY <2>5, <2>6, Names DEF IsChanged
  <2>9. r.transport # None => x.heap[r.transport].transport = w.heap[r.transport].transport
    BY <2>7, <2>8 DEF Fields
  <2>10. States(r, x.heap)
    BY <1>1, <2>4, <2>9 DEF States
  <2>11. Points(r, i, h)
    <3>1. ~(q.setups < i[2])
      BY <2>1, <2>2 DEF Points
    <3>2. i # None
      BY <1>3
    <3>3. ObjRefs(h) = ObjRefs(g) /\ ObjRefs(g) \in Nat
      BY <2>5 DEF ObjRefs
    <3>4. h.refs = ObjRefs(h) /\ h.refs # ObjRefs(h) + 1
      BY <2>1, <2>5, <3>3
    <3>5. QED
      BY <2>1, <2>4, <2>5, <3>1, <3>2, <3>4 DEF Points
  <2>12. \A j \in Own(c) \ {i} : Points(r, j, w.heap[j])
    <3>1. \A j \in Own(c) : j # None
      BY Names
    <3>2. ASSUME NEW j \in Own(c) \ {i} PROVE AgreeAt(r, q, j)
      BY <2>4, <3>1 DEF AgreeAt
    <3>3. QED
      BY <1>1, <3>2, PointsAgree
  <2>13. Kin(w, c, r)
    BY <2>4, KinSame
  <2>14. LiveIn(x, w.installed)
    BY <2>1, <2>3, <2>4, <2>5, InstalledStays
  <2>15. Keeps(x, w, c)
    BY <1>1, <2>1, <2>3, <2>4, <2>5, <2>7, <2>10, <2>11, <2>12, <2>13, <2>14, ChangeKeeps
  <2>16. QED
    BY <2>4, <2>6, <2>15 DEF IsChanged, Released, x
<1>4. QED
  BY <1>2, <1>3

\* delete m_transport, when nothing is under way.
LEMMA FreeTransportKeeps ==
    ASSUME NEW w, Sound(w), NEW c \in Conns, w.conn[c].life # "none",
           w.conn[c].obj = None, w.conn[c].ctx = None,
           w.conn[c].state \notin {"CONNECTING", "CONNECTED"}
    PROVE  /\ Released(FreeTransport(w, c), w, c)
           /\ FreeTransport(w, c).conn[c].obj = None /\ FreeTransport(w, c).conn[c].ctx = None
           /\ FreeTransport(w, c).conn[c].transport = None
<1> DEFINE q == w.conn[c]
           i == q.transport
           g == w.heap[i]
           r == [q EXCEPT !.transport = None]
           h == [g EXCEPT !.transport = "deleted"]
           x == FreeTransport(w, c)
<1>1. /\ w \in Worlds /\ q \in ConnFields /\ Fields(q, c)
      /\ w.conn \in [Conns -> ConnFields] /\ w.heap \in [Ids -> HeapFields]
      /\ w.installed \in Pointer
      /\ \A j \in Own(c) : Points(q, j, w.heap[j])
  BY SoundParts
<1>2. CASE q.transport = None
  <2>1. x = w
    BY <1>2 DEF FreeTransport
  <2>2. QED
    BY <1>2, <2>1 DEF Released, Keeps
<1>3. CASE q.transport # None
  <2>1. i \in Own(c) /\ i \in Ids /\ g \in HeapFields /\ Points(q, i, g)
    <3>1. i \in Own(c)
      BY <1>1, <1>3 DEF Fields
    <3>2. QED
      BY <3>1, SoundParts
  <2>2. x = Changed(w, c, r, i, h, w.installed)
    <3>1. x = [w EXCEPT !.heap[i].transport = "deleted", !.conn[c].transport = None]
      BY <1>3 DEF FreeTransport
    <3> HIDE DEF x
    <3>2. x = [conn |-> [w.conn EXCEPT ![c] = r], heap |-> [w.heap EXCEPT ![i] = h],
               installed |-> w.installed]
      BY <1>1, <3>1 DEF Worlds
    <3>3. QED
      BY <3>2 DEF Changed
  <2>3. /\ r \in ConnFields /\ r.life = q.life /\ r.server = q.server /\ r.usePSK = q.usePSK
        /\ r.parent = q.parent /\ r.state = q.state /\ r.handshakeDone = q.handshakeDone
        /\ r.ctx = q.ctx /\ r.obj = q.obj /\ r.transport = None
        /\ r.engine = q.engine /\ r.owns = q.owns /\ r.setups = q.setups
    BY <1>1 DEF ConnFields, Pointer
  <2>4. /\ h \in HeapFields /\ h.engine = g.engine /\ h.refs = g.refs
        /\ h.obj = g.obj /\ h.temp = g.temp /\ h.transport = "deleted"
    BY <2>1 DEF HeapFields
  <2> HIDE DEF r, h, x
  <2>5. IsChanged(x, w, c, r, i, h, w.installed)
    BY <1>1, <2>1, <2>2, <2>3, <2>4, ChangedFields
  <2>6. Fields(r, c)
    BY <1>1, <2>3 DEF Fields
  <2>7. States(r, x.heap)
    BY <2>3 DEF States
  <2>8. Points(r, i, h)
    BY <1>3, <2>1, <2>3, <2>4 DEF Points, ObjRefs
  <2>9. \A j \in Own(c) \ {i} : Points(r, j, w.heap[j])
    <3>1. \A j \in Own(c) : j # None
      BY Names
    <3>2. ASSUME NEW j \in Own(c) \ {i} PROVE AgreeAt(r, q, j)
      BY <2>3, <3>1 DEF AgreeAt
    <3>3. QED
      BY <1>1, <3>2, PointsAgree
  <2>10. Kin(w, c, r)
    BY <2>3, KinSame
  <2>11. LiveIn(x, w.installed)
    BY <2>1, <2>2, <2>3, <2>4, InstalledStays
  <2>12. Keeps(x, w, c)
    BY <1>1, <2>1, <2>2, <2>3, <2>4, <2>6, <2>7, <2>8, <2>9, <2>10, <2>11, ChangeKeeps
  <2>13. QED
    BY <2>3, <2>5, <2>12 DEF IsChanged, Released, x
<1>4. QED
  BY <1>2, <1>3

\* A connection without pointers, and without an engine of its own.
Empty(r) == r.ctx = None /\ r.obj = None /\ r.transport = None /\ ~r.owns

\* The engine goes and the adaptor forgets it, when no live connection shares it.
LEMMA FreeEngineKeeps ==
    ASSUME NEW w, Sound(w), NEW c \in Conns, w.conn[c].life # "none", Alone(w, c),
           w.conn[c].obj = None, w.conn[c].ctx = None, w.conn[c].transport = None
    PROVE  Released(FreeEngine(w, c), w, c) /\ Empty(FreeEngine(w, c).conn[c])
<1> DEFINE q == w.conn[c]
           i == q.engine
           g == w.heap[i]
           r == [q EXCEPT !.engine = None, !.owns = FALSE]
           h == [g EXCEPT !.engine = "deleted"]
           x == FreeEngine(w, c)
<1>1. /\ w \in Worlds /\ q \in ConnFields /\ Fields(q, c) /\ States(q, w.heap)
      /\ w.conn \in [Conns -> ConnFields] /\ w.heap \in [Ids -> HeapFields]
      /\ \A j \in Own(c) : Points(q, j, w.heap[j])
  BY SoundParts
<1>2. CASE q.engine = None \/ ~q.owns
  <2>1. x = w
    BY <1>2 DEF FreeEngine
  <2>2. ~q.owns
    BY <1>1, <1>2, Names DEF Fields
  <2>3. QED
    BY <2>1, <2>2 DEF Released, Keeps, Empty
<1>3. CASE q.engine # None /\ q.owns
  <2>1. i \in Own(c) /\ i \in Ids /\ g \in HeapFields /\ Points(q, i, g) /\ g.engine = "live"
    <3>1. i \in Own(c)
      BY <1>1, <1>3 DEF Fields
    <3>2. QED
      BY <1>3, <3>1, SoundParts DEF Points
  <2>2. x = Changed(w, c, r, i, h, None)
    <3>1. x = [w EXCEPT !.heap[i].engine = "deleted", !.installed = None,
                        !.conn[c].engine = None, !.conn[c].owns = FALSE]
      BY <1>3 DEF FreeEngine
    <3> HIDE DEF x
    <3>2. x = [conn |-> [w.conn EXCEPT ![c] = r], heap |-> [w.heap EXCEPT ![i] = h],
               installed |-> None]
      BY <1>1, <3>1 DEF Worlds
    <3>3. QED
      BY <3>2 DEF Changed
  <2>3. /\ r \in ConnFields /\ r.life = q.life /\ r.server = q.server /\ r.usePSK = q.usePSK
        /\ r.parent = q.parent /\ r.state = q.state /\ r.handshakeDone = q.handshakeDone
        /\ r.ctx = q.ctx /\ r.obj = q.obj /\ r.transport = q.transport
        /\ r.engine = None /\ ~r.owns /\ r.setups = q.setups
    BY <1>1 DEF ConnFields, Pointer
  <2>4. /\ h \in HeapFields /\ h.engine = "deleted" /\ h.refs = g.refs /\ h.handshake = g.handshake
        /\ h.obj = g.obj /\ h.temp = g.temp /\ h.transport = g.transport
    BY <2>1 DEF HeapFields
  <2> HIDE DEF r, h, x
  <2>5. None \in Pointer
    BY DEF Pointer
  <2>6. IsChanged(x, w, c, r, i, h, None)
    BY <1>1, <2>1, <2>2, <2>3, <2>4, <2>5, ChangedFields
  <2>7. Fields(r, c)
    BY <1>1, <2>3 DEF Fields
  <2>8. States(r, x.heap)
    BY <1>1, <2>3 DEF States
  <2>9. Points(r, i, h)
    <3>1. ~(q.setups < i[2])
      BY <2>1 DEF Points
    <3>2. QED
      BY <1>3, <2>1, <2>3, <2>4, <3>1 DEF Points, ObjRefs
  <2>10. \A j \in Own(c) \ {i} : Points(r, j, w.heap[j])
    <3>1. ASSUME NEW j \in Own(c) \ {i} PROVE AgreeAt(r, q, j)
      BY <2>3 DEF AgreeAt
    <3>2. QED
      BY <1>1, <3>1, PointsAgree
  <2>11. Kin(w, c, r)
    BY <2>3, KinAlone
  <2>12. LiveIn(x, None)
    BY DEF LiveIn
  <2>13. Keeps(x, w, c)
    BY <1>1, <2>1, <2>2, <2>3, <2>4, <2>5, <2>7, <2>8, <2>9, <2>10, <2>11, <2>12, ChangeKeeps
  <2>14. QED
    BY <2>3, <2>6, <2>13 DEF IsChanged, Released, Empty, x
<1>4. QED
  BY <1>2, <1>3

\* Cleanup, on every path that calls it: nothing is left.
LEMMA CleanupKeeps ==
    ASSUME NEW w, Sound(w), NEW c \in Conns, w.conn[c].life # "none", Alone(w, c)
    PROVE  /\ Keeps(Cleanup(w, c), w, c)
           /\ Cleanup(w, c).conn[c].life = w.conn[c].life
           /\ Cleanup(w, c).conn[c].state = "CLOSED"
           /\ Empty(Cleanup(w, c).conn[c])
<1> DEFINE a == IF w.conn[c].state \in {"CONNECTED", "CONNECTING"} THEN CloseConn(w, c) ELSE w
           b == FreePolicyObj(a, c)
           d == FreePolicyCtx(b, c)
           e == FreeTransport(d, c)
           f == FreeEngine(e, c)
           x == [f EXCEPT !.conn[c].state = "CLOSED"]
<1>1. Cleanup(w, c) = x
  BY DEF Cleanup
<1>2. /\ Keeps(a, w, c) /\ a.conn[c].life = w.conn[c].life
      /\ a.conn[c].state \notin {"CONNECTED", "CONNECTING"}
  BY CloseKeeps DEF Keeps
<1> HIDE DEF a
<1>3. Released(b, a, c) /\ b.conn[c].obj = None
  BY <1>2, FreePolicyObjKeeps DEF Keeps
<1> HIDE DEF b
<1>4. Released(d, b, c) /\ d.conn[c].obj = None /\ d.conn[c].ctx = None
  BY <1>2, <1>3, FreePolicyCtxKeeps DEF Keeps, Released
<1> HIDE DEF d
<1>5. /\ Released(e, d, c) /\ e.conn[c].obj = None /\ e.conn[c].ctx = None
      /\ e.conn[c].transport = None
  BY <1>2, <1>3, <1>4, FreeTransportKeeps DEF Keeps, Released
<1> HIDE DEF e
<1>6. Keeps(e, w, c) /\ e.conn[c].life = w.conn[c].life
  BY <1>2, <1>3, <1>4, <1>5 DEF Keeps, Released
<1>7. Released(f, e, c) /\ Empty(f.conn[c])
  BY <1>5, <1>6, FreeEngineKeeps DEF Keeps
<1> HIDE DEF f
<1> DEFINE r == [f.conn[c] EXCEPT !.state = "CLOSED"]
<1>8. Sound(f) /\ f.conn[c] \in ConnFields
  BY <1>7, SoundParts DEF Released, Keeps
<1>9. r.state = "CLOSED" /\ r.life = w.conn[c].life /\ Empty(r)
  BY <1>6, <1>7, <1>8 DEF ConnFields, Empty, Released
<1>10. States(r, f.heap)
  BY <1>9 DEF States
<1>11. f.conn[c].life # "none"
  BY <1>6, <1>7 DEF Released
<1>12. Keeps(x, f, c) /\ OnlyConn(x, f, c, r)
  BY <1>8, <1>10, <1>11, SetState
<1> HIDE DEF r, x
<1>13. QED
  BY <1>1, <1>6, <1>7, <1>9, <1>12 DEF OnlyConn, Keeps, Released

\* The destructor.
LEMMA DestroyKeeps ==
    ASSUME NEW w, Sound(w), NEW c \in Conns, w.conn[c].life # "none", Alone(w, c)
    PROVE  Sound(Destroy(w, c))
<1> DEFINE v == Cleanup(w, c)
           q == v.conn[c]
           r == [q EXCEPT !.life = "deleted"]
           x == Destroy(w, c)
<1>1. x = [v EXCEPT !.conn[c].life = "deleted"]
  BY DEF Destroy
<1>2. Sound(v) /\ q.life # "none" /\ q.state = "CLOSED" /\ Empty(q) /\ Alone(v, c)
  BY CleanupKeeps DEF Keeps
<1> HIDE DEF v, x
<1>3. q \in ConnFields /\ Fields(q, c)
  BY <1>2, SoundParts
<1>4. /\ r \in ConnFields /\ r.life = "deleted" /\ r.server = q.server /\ r.usePSK = q.usePSK
      /\ r.parent = q.parent /\ r.state = q.state /\ r.handshakeDone = q.handshakeDone
      /\ r.ctx = q.ctx /\ r.obj = q.obj /\ r.transport = q.transport
      /\ r.engine = q.engine /\ r.owns = q.owns /\ r.setups = q.setups
  BY <1>3 DEF ConnFields
<1>5. x = [v EXCEPT !.conn = [v.conn EXCEPT ![c] = r]]
  BY <1>1
<1> HIDE DEF r
<1>6. Fields(r, c)
  BY <1>2, <1>3, <1>4 DEF Fields, Empty
<1>7. States(r, v.heap)
  BY <1>2, <1>4 DEF States
<1>8. \A j \in Own(c) : AgreeAt(r, q, j)
  BY <1>4 DEF AgreeAt
<1>9. Kin(v, c, r)
  BY <1>2, <1>4, KinAlone
<1>10. Keeps(x, v, c)
  BY <1>2, <1>4, <1>5, <1>6, <1>7, <1>8, <1>9, ChangeFields
<1>11. QED
  BY <1>10 DEF Keeps, x

-----------------------------------------------------------------------------
(* The calls.                                                              *)

\* When c may be set up: it lives, the next number is free, and with a careful
\* application it has no context.
MayEnter(w, c, i) ==
    /\ Sound(w) /\ Alone(w, c)
    /\ w.conn[c].life = "live"
    /\ i \in Own(c) /\ i[2] = w.conn[c].setups + 1
    /\ careful => w.conn[c].ctx = None
    /\ LiveIn(w, w.conn[c].engine)

\* The engine of a connection that was not accepted is its own, and alive.
LEMMA OwnEngineLive ==
    ASSUME NEW w, Sound(w), NEW c \in Conns, w.conn[c].parent = None
    PROVE  LiveIn(w, w.conn[c].engine)
<1> DEFINE q == w.conn[c]
<1>1. Fields(q, c) /\ \A i \in Own(c) : Points(q, i, w.heap[i])
  BY SoundParts
<1>2. q.engine # None => q.owns /\ q.engine \in Own(c)
  BY <1>1 DEF Fields
<1>3. QED
  BY <1>1, <1>2 DEF LiveIn, Points

\* Only a listener that was not accepted itself has accepted anything.
LEMMA NoHeirs ==
    ASSUME NEW w, Sound(w), NEW c \in Conns, ~w.conn[c].server \/ w.conn[c].parent # None
    PROVE  Alone(w, c)
<1>1. ASSUME NEW d \in Conns, w.conn[d].parent = c PROVE FALSE
  BY <1>1, Parents, Names
<1>2. QED
  BY <1>1 DEF Alone

\* A setup ends with a context, or does not.
LEMMA SetupReady ==
    ASSUME NEW w, NEW c \in Conns, NEW i, MayEnter(w, c, i),
           NEW r \in SetupPolicyContext(w, c, i)
    PROVE  /\ Keeps(r.w, w, c) /\ SameConn(r.w.conn[c], w.conn[c]) /\ r.w.conn[c].life = "live"
           /\ \A j \in Own(c) : r.w.heap[j].transport = w.heap[j].transport
           /\ r.ret # "error" => CtxReady(r.w, c, i)
<1>1. SetupResult(r, w, c, i)
  BY SetupKeeps DEF MayEnter
<1>2. careful => w.conn[c].obj = None
  BY SoundParts DEF Fields, MayEnter
<1>3. SetUp(r.w, w, c, i)
  BY <1>1 DEF SetupResult
<1>4. \A j \in Own(c) : r.w.heap[j].transport = w.heap[j].transport
  BY <1>3, Names DEF SetUp, SameHeap
<1>5. Keeps(r.w, w, c) /\ SameConn(r.w.conn[c], w.conn[c]) /\ r.w.conn[c].life = "live"
  BY <1>3 DEF SetUp, SameConn, MayEnter
<1>6. r.ret # "error" => CtxReady(r.w, c, i)
  BY <1>1, <1>2, <1>5 DEF SetupResult, CtxReady, SameConn
<1>7. QED
  BY <1>4, <1>5, <1>6

\* A failure that cleans up.
LEMMA CleanKeeps ==
    ASSUME NEW w, NEW x, NEW c \in Conns, Keeps(x, w, c), Alone(w, c), x.conn[c].life = "live"
    PROVE  Sound(Cleanup(InError(x, c), c))
<1>1. Sound(x) /\ Alone(x, c)
  BY DEF Keeps
<1>2. Keeps(InError(x, c), x, c) /\ InError(x, c).conn[c].life = "live"
  BY <1>1, InErrorKeeps
<1>3. QED
  BY <1>1, <1>2, CleanupKeeps DEF Keeps

\* Connect, whichever part of it fails.
LEMMA ConnectKeeps ==
    ASSUME NEW w, NEW c \in Conns, NEW i, MayEnter(w, c, i),
           careful => w.conn[c].transport = None,
           NEW res \in ConnectResults(w, c, i)
    PROVE  Sound(res.w)
<1> DEFINE Clean(x) == Cleanup(InError(x, c), c)
           Objs(x) == UNION {IF r.ret = "error" THEN {Fail(Clean(r.w))} ELSE Handshake(r.w, c)
                              : r \in CreatePolicyObj(x, c, i)}
           Transports(x) == UNION {IF r.ret = "error" THEN {Fail(Clean(r.w))} ELSE Objs(r.w)
                                   : r \in SetupTransport(x, c, i, "CONNECTING")}
<1>1. res \in UNION {IF r.ret = "error" THEN {Fail(InError(r.w, c))} ELSE Transports(r.w)
                     : r \in SetupPolicyContext(w, c, i)}
  BY DEF ConnectResults, Then
<1> HIDE DEF Clean, Transports
<1>2. PICK r \in SetupPolicyContext(w, c, i) :
        res \in IF r.ret = "error" THEN {Fail(InError(r.w, c))} ELSE Transports(r.w)
  BY <1>1
<1>3. /\ Keeps(r.w, w, c) /\ SameConn(r.w.conn[c], w.conn[c]) /\ r.w.conn[c].life = "live"
      /\ r.ret # "error" => CtxReady(r.w, c, i)
  BY SetupReady
<1>4. Sound(r.w) /\ i \in Own(c) /\ Alone(w, c)
  BY <1>3 DEF Keeps, MayEnter
<1>5. CASE r.ret = "error"
  <2>1. Sound(InError(r.w, c))
    BY <1>3, <1>4, InErrorKeeps DEF Keeps
  <2>2. QED
    BY <1>2, <1>5, <2>1 DEF Fail
<1>6. CASE r.ret # "error"
  <2>1. PICK s \in SetupTransport(r.w, c, i, "CONNECTING") :
          res \in IF s.ret = "error" THEN {Fail(Clean(s.w))} ELSE Objs(s.w)
    <3> HIDE DEF Objs
    <3>1. QED
      BY <1>2, <1>6 DEF Transports
  <2>2. careful => r.w.conn[c].transport = None
    BY <1>3 DEF SameConn
  <2>3. /\ Result(s, r.w, c)
        /\ s.ret # "error" =>
             CtxReady(s.w, c, i) /\ TransportOpen(s.w, c) /\ s.w.conn[c].state = "CONNECTING"
    BY <1>3, <1>4, <1>6, <2>2, SetupTransportKeeps
  <2>4. Keeps(s.w, w, c) /\ Sound(s.w) /\ s.w.conn[c].life = "live"
    BY <1>3, <2>3 DEF Result, Keeps
  <2>5. CASE s.ret = "error"
    <3>1. Sound(Clean(s.w))
      BY <1>4, <2>4, CleanKeeps DEF Clean
    <3>2. QED
      BY <2>1, <2>5, <3>1 DEF Fail
  <2>6. CASE s.ret # "error"
    <3>1. PICK o \in CreatePolicyObj(s.w, c, i) :
            res \in IF o.ret = "error" THEN {Fail(Clean(o.w))} ELSE Handshake(o.w, c)
      BY <2>1, <2>6 DEF Objs
    <3>2. Result(o, s.w, c) /\ (o.ret # "error" => ObjReady(o.w, s.w, c))
      BY <1>4, <2>3, <2>4, <2>6, CreatePolicyObjKeeps
    <3>3. Keeps(o.w, w, c) /\ Sound(o.w) /\ o.w.conn[c].life = "live"
      BY <2>4, <3>2 DEF Result, Keeps
    <3>4. CASE o.ret = "error"
      <4>1. Sound(Clean(o.w))
        BY <1>4, <3>3, CleanKeeps DEF Clean
      <4>2. QED
        BY <3>1, <3>4, <4>1 DEF Fail
    <3>5. CASE o.ret # "error"
      <4>1. res \in Handshake(o.w, c)
        BY <3>1, <3>5
      <4>2. o.w.conn[c].obj # None /\ TransportOpen(o.w, c)
        BY <2>3, <2>6, <3>2, <3>5 DEF ObjReady
      <4>3. Result(res, o.w, c)
        BY <3>3, <4>1, <4>2, HandshakeKeeps
      <4>4. QED
        BY <4>3 DEF Result, Keeps
    <3>6. QED
      BY <3>4, <3>5
  <2>7. QED
    BY <2>5, <2>6
<1>7. QED
  BY <1>5, <1>6

\* What Accept does to the new connection.
LEMMA AcceptKeeps ==
    ASSUME NEW w, NEW c \in Conns, NEW i, MayEnter(w, c, i),
           w.conn[c].state # "CONNECTED", TransportOpen(w, c),
           NEW res \in AcceptResults(w, c, i)
    PROVE  Sound(res.w)
<1> DEFINE Shake(x) ==
             {IF r.ret = "error" THEN Fail(Destroy(r.w, c))
              ELSE Ok([r.w EXCEPT !.conn[c].state = AcceptedState(r.ret)]) : r \in Handshake(x, c)}
           Objs(x) == UNION {IF r.ret = "error" THEN {Fail(Destroy(r.w, c))} ELSE Shake(r.w)
                             : r \in CreatePolicyObj(x, c, i)}
<1>1. res \in UNION {IF r.ret = "error" THEN {Fail(Destroy(r.w, c))} ELSE Objs(r.w)
                     : r \in SetupPolicyContext(w, c, i)}
  BY DEF AcceptResults, Then
<1> HIDE DEF Objs
<1>2. PICK r \in SetupPolicyContext(w, c, i) :
        res \in IF r.ret = "error" THEN {Fail(Destroy(r.w, c))} ELSE Objs(r.w)
  BY <1>1
<1>3. /\ Keeps(r.w, w, c) /\ SameConn(r.w.conn[c], w.conn[c]) /\ r.w.conn[c].life = "live"
      /\ \A j \in Own(c) : r.w.heap[j].transport = w.heap[j].transport
      /\ r.ret # "error" => CtxReady(r.w, c, i)
  BY SetupReady
<1>4. Sound(r.w) /\ i \in Own(c) /\ Alone(w, c) /\ Alone(r.w, c) /\ Sound(w)
  BY <1>3 DEF Keeps, MayEnter
<1>5. CASE r.ret = "error"
  <2>1. Sound(Destroy(r.w, c))
    BY <1>3, <1>4, DestroyKeeps
  <2>2. QED
    BY <1>2, <1>5, <2>1 DEF Fail
<1>6. CASE r.ret # "error"
  <2>1. PICK o \in CreatePolicyObj(r.w, c, i) :
          res \in IF o.ret = "error" THEN {Fail(Destroy(o.w, c))} ELSE Shake(o.w)
    <3> HIDE DEF Shake
    <3>1. QED
      BY <1>2, <1>6 DEF Objs
  <2>2. TransportOpen(r.w, c) /\ r.w.conn[c].state # "CONNECTED"
    <3>1. w.conn[c].transport \in Own(c)
      BY <1>4, SoundParts DEF Fields, TransportOpen
    <3>2. QED
      BY <1>3, <3>1 DEF TransportOpen, SameConn
  <2>3. Result(o, r.w, c) /\ (o.ret # "error" => ObjReady(o.w, r.w, c))
    BY <1>3, <1>4, <1>6, <2>2, CreatePolicyObjKeeps
  <2>4. Sound(o.w) /\ o.w.conn[c].life = "live" /\ Alone(o.w, c)
    BY <1>4, <2>3 DEF Result, Keeps
  <2>5. CASE o.ret = "error"
    <3>1. Sound(Destroy(o.w, c))
      BY <2>4, DestroyKeeps
    <3>2. QED
      BY <2>1, <2>5, <3>1 DEF Fail
  <2>6. CASE o.ret # "error"
    <3>1. PICK s \in Handshake(o.w, c) :
            res = IF s.ret = "error" THEN Fail(Destroy(s.w, c))
                  ELSE Ok([s.w EXCEPT !.conn[c].state = AcceptedState(s.ret)])
      BY <2>1, <2>6
    <3>2. o.w.conn[c].obj # None /\ TransportOpen(o.w, c)
      BY <2>2, <2>3, <2>6 DEF ObjReady
    <3>3. /\ Result(s, o.w, c)
          /\ s.ret = "SCF_SUCCESS" => s.w.conn[c].state = "CONNECTED"
          /\ s.ret = "want" => s.w.conn[c].state = "CONNECTING"
      BY <2>4, <3>2, HandshakeKeeps
    <3>4. Sound(s.w) /\ s.w.conn[c].life = "live" /\ Alone(s.w, c)
      BY <2>4, <3>3 DEF Result, Keeps
    <3>5. CASE s.ret = "error"
      <4>1. Sound(Destroy(s.w, c))
        BY <3>4, DestroyKeeps
      <4>2. QED
        BY <3>1, <3>5, <4>1 DEF Fail
    <3>6. CASE s.ret # "error"
      <4>1. s.w.conn[c].state = AcceptedState(s.ret)
        BY <3>3, <3>6 DEF AcceptedState, Result
      <4>2. s.w \in Worlds /\ s.w.conn \in [Conns -> ConnFields] /\ s.w.conn[c] \in ConnFields
        BY <3>4, SoundParts
      <4>3. [s.w EXCEPT !.conn[c].state = AcceptedState(s.ret)] = s.w
        <5>1. [s.w.conn[c] EXCEPT !.state = AcceptedState(s.ret)] = s.w.conn[c]
          BY <4>1, <4>2 DEF ConnFields
        <5>2. [s.w.conn EXCEPT ![c].state = AcceptedState(s.ret)] = s.w.conn
          BY <4>2, <5>1
        <5>3. QED
          BY <4>2, <5>2 DEF Worlds
      <4>4. QED
        BY <3>1, <3>4, <3>6, <4>3 DEF Ok
    <3>7. QED
      BY <3>5, <3>6
  <2>7. QED
    BY <2>5, <2>6
<1>7. QED
  BY <1>5, <1>6

\* A connection that did not exist has no family.
LEMMA KinNew ==
    ASSUME NEW w, Sound(w), NEW c \in Conns, w.conn[c].life = "none", NEW r,
           r.parent # c, Family(r, w.conn)
    PROVE  Kin(w, c, r)
<1>1. ASSUME NEW d \in Conns, d # c PROVE Family(w.conn[d], [w.conn EXCEPT ![c] = r])
  <2>1. Family(w.conn[d], w.conn) /\ w.conn \in [Conns -> ConnFields]
    BY SoundParts
  <2>2. CASE w.conn[d].parent # None
    <3>1. w.conn[d].parent \in Conns \ {c}
      BY <2>2, Parents
    <3>2. [w.conn EXCEPT ![c] = r][w.conn[d].parent] = w.conn[w.conn[d].parent]
      BY <2>1, <3>1
    <3>3. QED
      BY <2>1, <3>2 DEF Family
  <2>3. CASE w.conn[d].parent = None
    BY <2>3 DEF Family
  <2>4. QED
    BY <2>2, <2>3
<1>2. QED
  BY <1>1 DEF Kin

\* The fields of a connection as the constructor leaves them.
LEMMA NewFields ==
    ASSUME NEW server \in BOOLEAN, NEW psk \in BOOLEAN, NEW parent \in Conns \cup {None}
    PROVE  LET r == NewConn(server, psk, parent)
           IN  /\ r \in ConnFields
               /\ r.life = "live" /\ r.server = server /\ r.usePSK = psk /\ r.parent = parent
               /\ r.state = "INIT" /\ r.ctx = None /\ r.obj = None /\ r.transport = None
               /\ r.engine = None /\ ~r.owns /\ r.setups = 0
BY ConnectionAssumption DEF NewConn, ConnFields, Pointer

\* The fields of a connection that has not been created.
LEMMA NotYetFields ==
    /\ NotYet \in ConnFields
    /\ NotYet.life = "none" /\ NotYet.usePSK = FALSE /\ NotYet.parent = None
    /\ NotYet.state = "INIT" /\ NotYet.ctx = None /\ NotYet.obj = None
    /\ NotYet.transport = None /\ NotYet.engine = None /\ ~NotYet.owns /\ NotYet.setups = 0
<1> DEFINE n == NewConn(FALSE, FALSE, None)
<1>1. /\ n \in ConnFields /\ n.usePSK = FALSE /\ n.parent = None /\ n.state = "INIT"
      /\ n.ctx = None /\ n.obj = None /\ n.transport = None /\ n.engine = None
      /\ ~n.owns /\ n.setups = 0
  BY NewFields
<1>2. NotYet = [n EXCEPT !.life = "none"]
  BY DEF NotYet
<1> HIDE DEF n
<1>3. QED
  BY <1>1, <1>2 DEF ConnFields

\* What the setups of a connection that does not exist have made.
LEMMA NothingMade ==
    ASSUME NEW w, Sound(w), NEW c \in Conns, w.conn[c].life = "none", NEW j \in Own(c)
    PROVE  /\ w.conn[c] = NotYet /\ 0 < j[2]
           /\ w.heap[j].refs = 0 /\ w.heap[j].obj = "none" /\ w.heap[j].temp = "none"
           /\ w.heap[j].engine = "none"
           /\ careful => w.heap[j].transport \notin {"open", "closed"}
<1>1. w.conn[c] = NotYet /\ Points(NotYet, j, w.heap[j])
  BY SoundParts DEF Fields
<1>2. j[2] \in 1..MaxSetups /\ MaxSetups \in Nat /\ j # None
  BY ConnectionAssumption, Names DEF Own
<1>3. QED
  BY <1>1, <1>2, NotYetFields DEF Points

\* The variables are the fields of the world.
LEMMA WorldFields ==
    World.conn = conn /\ World.heap = heap /\ World.installed = m_cryptoEngine
BY DEF World

\* A call that ends in a sound world keeps the invariant.
LEMMA BecomeKeeps ==
    ASSUME careful \in BOOLEAN, NEW w, Sound(w), Become(w)
    PROVE  ConnectionInv'
<1>1. w \in Worlds /\ careful' = careful
  BY DEF Sound, Become
<1>2. World' = w
  BY <1>1 DEF Become, World, Worlds
<1>3. /\ World'.conn = w.conn /\ World'.heap = w.heap /\ World'.installed = w.installed
      /\ World' \in Worlds
  BY <1>1, <1>2
<1>4. ASSUME NEW c \in Conns PROVE Fields(World.conn[c], c)'
  <2>1. Fields(w.conn[c], c)
    BY SoundParts
  <2>2. QED
    BY <1>1, <1>3, <2>1 DEF Fields
<1>5. ASSUME NEW c \in Conns PROVE States(World.conn[c], World.heap)'
  <2>1. States(w.conn[c], w.heap)
    BY SoundParts
  <2>2. QED
    BY <1>1, <1>3, <2>1 DEF States
<1>6. ASSUME NEW c \in Conns, NEW i \in Own(c) PROVE Points(World.conn[c], i, World.heap[i])'
  <2>1. Points(w.conn[c], i, w.heap[i])
    BY SoundParts
  <2>2. QED
    BY <1>1, <1>3, <2>1 DEF Points
<1>7. ASSUME NEW c \in Conns PROVE Family(World.conn[c], World.conn)'
  <2>1. Family(w.conn[c], w.conn)
    BY SoundParts
  <2>2. QED
    BY <1>1, <1>3, <2>1 DEF Family
<1>8. LiveIn(World, World.installed)'
  BY <1>3 DEF Sound, LiveIn
<1>9. QED
  BY <1>1, <1>3, <1>4, <1>5, <1>6, <1>7, <1>8 DEF ConnectionInv, Sound, SoundAt

\* The invariant holds in every initial state.
LEMMA InitConnection == Init => ConnectionInv
<1> SUFFICES ASSUME Init PROVE ConnectionInv
  OBVIOUS
<1> DEFINE g == [refs |-> 0, lib |-> NoLib, obj |-> "none", temp |-> "none",
                 handshake |-> "no", transport |-> "none", engine |-> "none"]
<1>1. /\ conn = [c \in Conns |-> NotYet] /\ heap = [i \in Ids |-> g] /\ m_cryptoEngine = None
      /\ careful \in BOOLEAN
  BY DEF Init
<1>2. g \in HeapFields
  BY DEF HeapFields
<1>3. /\ g.refs = 0 /\ g.obj = "none" /\ g.temp = "none" /\ g.engine = "none"
      /\ g.transport = "none"
  OBVIOUS
<1> HIDE DEF g
<1>4. World \in Worlds
  BY <1>1, <1>2, NotYetFields DEF World, Worlds, Pointer
<1>5. ASSUME NEW c \in Conns PROVE SoundAt(World, c) /\ Family(World.conn[c], World.conn)
  <2>1. World.conn[c] = NotYet
    BY <1>1, WorldFields
  <2>2. Fields(NotYet, c)
    BY NotYetFields DEF Fields
  <2>3. States(NotYet, World.heap) /\ Family(NotYet, World.conn)
    BY NotYetFields DEF States, Family
  <2>4. ASSUME NEW i \in Own(c) PROVE Points(NotYet, i, World.heap[i])
    <3>1. World.heap[i] = g /\ i # None
      BY <1>1, WorldFields, Names
    <3>2. QED
      BY <1>3, <3>1, NotYetFields DEF Points, ObjRefs
  <2>5. QED
    BY <2>1, <2>2, <2>3, <2>4 DEF SoundAt
<1>6. LiveIn(World, World.installed)
  BY <1>1, WorldFields DEF LiveIn
<1>7. QED
  BY <1>1, <1>4, <1>5, <1>6 DEF ConnectionInv, Sound

\* SCFConnection::Create makes a connection that points to nothing.
LEMMA CreateStep ==
    ASSUME ConnectionInv, NEW c \in Conns, NEW server \in BOOLEAN, NEW psk \in PskModes,
           Create(c, server, psk)
    PROVE  ConnectionInv'
<1> DEFINE w == World
           r == NewConn(server, psk, None)
           x == [w EXCEPT !.conn = [w.conn EXCEPT ![c] = r]]
<1>1. Sound(w) /\ careful \in BOOLEAN /\ w.conn[c].life = "none"
  BY WorldFields DEF ConnectionInv, Create
<1>2. /\ r \in ConnFields /\ r.life = "live" /\ r.usePSK = psk /\ r.parent = None
      /\ r.state = "INIT" /\ r.ctx = None /\ r.obj = None /\ r.transport = None
      /\ r.engine = None /\ ~r.owns /\ r.setups = 0
  BY NewFields, ConnectionAssumption
<1>3. Become(x)
  BY DEF Create, Become, World
<1> HIDE DEF w, r
<1>4. Fields(r, c)
  BY <1>2 DEF Fields
<1>5. States(r, w.heap)
  BY <1>2 DEF States
<1>6. ASSUME NEW j \in Own(c) PROVE AgreeAt(r, w.conn[c], j)
  <2>1. w.conn[c] = NotYet /\ 0 < j[2] /\ j # None
    BY <1>1, NothingMade, Names
  <2>2. QED
    BY <1>2, <2>1, NotYetFields DEF AgreeAt
<1>7. Kin(w, c, r)
  BY <1>1, <1>2, KinNew, Names DEF Family
<1>8. Keeps(x, w, c)
  BY <1>1, <1>2, <1>4, <1>5, <1>6, <1>7, ChangeFields
<1>9. QED
  BY <1>1, <1>3, <1>8, BecomeKeeps DEF Keeps

\* What MaySetUp means for the world.
LEMMA EnterWhenAllowed ==
    ASSUME ConnectionInv, NEW c \in Conns, NEW server, Live(c), MaySetUp(c, server),
           Alone(World, c)
    PROVE  /\ MayEnter(World, c, <<c, conn[c].setups + 1>>)
           /\ careful => World.conn[c].transport = None
<1> DEFINE i == <<c, conn[c].setups + 1>>
<1>1. Sound(World) /\ careful \in BOOLEAN
  BY DEF ConnectionInv
<1>2. /\ conn[c].life = "live" /\ conn[c].parent = None
      /\ conn[c].setups < (IF careful THEN MaxSetups ELSE MaxCareless)
      /\ careful => conn[c].ctx = None /\ conn[c].transport = None
  BY DEF Live, MaySetUp, Holds
<1>3. conn[c].setups \in 0..MaxSetups
  BY <1>1, SoundParts, WorldFields DEF ConnFields
<1>4. i \in Own(c) /\ i[2] = conn[c].setups + 1
  BY <1>2, <1>3, ConnectionAssumption DEF Own
<1>5. LiveIn(World, World.conn[c].engine)
  BY <1>1, <1>2, OwnEngineLive, WorldFields
<1>6. QED
  BY <1>1, <1>2, <1>4, <1>5, WorldFields DEF MayEnter

\* Connect keeps the invariant, whichever of its links fails.
LEMMA ConnectStep ==
    ASSUME ConnectionInv, NEW c \in Conns, Connect(c)
    PROVE  ConnectionInv'
<1> DEFINE i == <<c, conn[c].setups + 1>>
<1>1. PICK r \in ConnectResults(World, c, i) : Become(r.w)
  BY DEF Connect
<1>2. Alone(World, c)
  <2>1. CASE careful
    BY <2>1, NoHeirs, WorldFields DEF Connect, MaySetUp, ConnectionInv
  <2>2. CASE ~careful
    BY <2>2 DEF Alone
  <2>3. QED
    BY <2>1, <2>2
<1>3. MayEnter(World, c, i) /\ (careful => World.conn[c].transport = None)
  BY <1>2, EnterWhenAllowed DEF Connect
<1> HIDE DEF i
<1>4. Sound(r.w)
  BY <1>3, ConnectKeeps
<1>5. QED
  BY <1>1, <1>4, BecomeKeeps DEF ConnectionInv

\* Listen keeps the invariant, whether the context or the transport fails.
LEMMA ListenStep ==
    ASSUME ConnectionInv, NEW c \in Conns, Listen(c)
    PROVE  ConnectionInv'
<1> DEFINE i == <<c, conn[c].setups + 1>>
           Bind(x) == UNION {IF r.ret = "error" THEN {Fail(InError(r.w, c))} ELSE {Ok(r.w)}
                             : r \in SetupTransport(x, c, i, "INIT")}
<1>1. \E res \in UNION {IF r.ret = "error" THEN {Fail(InError(r.w, c))} ELSE Bind(r.w)
                        : r \in SetupPolicyContext(World, c, i)} : Become(res.w)
  BY DEF Listen, Then
<1>2. Sound(World) /\ careful \in BOOLEAN /\ World.conn[c].life = "live" /\ MaySetUp(c, TRUE) /\ Live(c)
  BY WorldFields DEF ConnectionInv, Listen, Live
<1>3. /\ World.conn[c].parent = None /\ World.conn[c].setups < MaxSetups
      /\ careful => World.conn[c].ctx = None /\ World.conn[c].transport = None
  <2>1. conn[c].setups \in 0..MaxSetups
    BY <1>2, SoundParts, WorldFields DEF ConnFields
  <2>2. QED
    BY <1>2, <2>1, WorldFields, ConnectionAssumption DEF MaySetUp, Holds
<1>4. i \in Own(c) /\ i[2] = World.conn[c].setups + 1
  <2>1. World.conn[c].setups \in 0..MaxSetups
    BY <1>2, SoundParts DEF ConnFields
  <2>2. QED
    BY <1>3, <2>1, WorldFields, ConnectionAssumption DEF Own
<1>5. LiveIn(World, World.conn[c].engine)
  BY <1>2, <1>3, OwnEngineLive
<1> HIDE DEF i, Bind
<1>6. PICK r \in SetupPolicyContext(World, c, i) :
        \E res \in IF r.ret = "error" THEN {Fail(InError(r.w, c))} ELSE Bind(r.w) : Become(res.w)
  BY <1>1
<1>7. SetupResult(r, World, c, i)
  BY <1>2, <1>3, <1>4, <1>5, SetupKeeps
<1> DEFINE v == r.w
<1>8. /\ Sound(v) /\ v.conn[c].life = "live"
      /\ careful => v.conn[c].transport = None
      /\ r.ret # "error" => CtxReady(v, c, i)
  <2>1. SetUp(v, World, c, i)
    BY <1>7 DEF SetupResult
  <2>2. careful => World.conn[c].obj = None
    BY <1>2, <1>3, SoundParts DEF Fields
  <2>3. Sound(v) /\ v.conn[c].life = "live" /\ v.conn[c].obj = World.conn[c].obj
          /\ v.conn[c].transport = World.conn[c].transport
    BY <1>2, <2>1 DEF SetUp, Keeps, SameConn
  <2>4. QED
    BY <1>3, <1>7, <2>2, <2>3 DEF SetupResult, CtxReady
<1>9. CASE r.ret = "error"
  <2>1. Sound(InError(v, c))
    BY <1>8, InErrorKeeps DEF Keeps
  <2>2. Become(InError(v, c))
    BY <1>6, <1>9 DEF Fail
  <2>3. QED
    BY <1>2, <2>1, <2>2, BecomeKeeps
<1>10. CASE r.ret # "error"
  <2>1. PICK s \in SetupTransport(v, c, i, "INIT") :
          \E res \in IF s.ret = "error" THEN {Fail(InError(s.w, c))} ELSE {Ok(s.w)} : Become(res.w)
    BY <1>6, <1>10 DEF Bind
  <2>2. Result(s, v, c)
    BY <1>4, <1>8, <1>10, SetupTransportKeeps
  <2>3. Sound(s.w) /\ s.w.conn[c].life = "live"
    BY <2>2 DEF Result, Keeps
  <2>4. Sound(InError(s.w, c))
    BY <2>3, InErrorKeeps DEF Keeps
  <2>5. Become(InError(s.w, c)) \/ Become(s.w)
    BY <2>1 DEF Fail, Ok
  <2>6. QED
    BY <1>2, <2>3, <2>4, <2>5, BecomeKeeps
<1>11. QED
  BY <1>9, <1>10

\* The fields of a connection that p has accepted and that is not set up yet: it
\* has the transport of i and shares the engine of p.
IsAccepted(r, w, p, i) ==
    /\ r \in ConnFields
    /\ r.life = "live" /\ r.server = TRUE /\ r.usePSK = w.conn[p].usePSK
    /\ r.parent = p /\ r.state = "INIT" /\ r.ctx = None /\ r.obj = None
    /\ r.transport = i /\ r.engine = w.conn[p].engine /\ r.owns = FALSE /\ r.setups = 0

\* The connection Accept makes has the transport and the engine it is given.
LEMMA AcceptedFields ==
    ASSUME NEW w, NEW p \in Conns, w.conn[p] \in ConnFields, NEW i \in Ids, NEW r,
           r = [NewConn(TRUE, w.conn[p].usePSK, p) EXCEPT
                  !.transport = i, !.engine = w.conn[p].engine]
    PROVE  IsAccepted(r, w, p, i)
<1> DEFINE k == NewConn(TRUE, w.conn[p].usePSK, p)
           e == w.conn[p].engine
<1>1. w.conn[p].usePSK \in BOOLEAN /\ e \in Pointer /\ i \in Pointer
  BY DEF ConnFields, Pointer
<1>2. /\ k \in ConnFields /\ k.life = "live" /\ k.server = TRUE /\ k.usePSK = w.conn[p].usePSK
      /\ k.parent = p /\ k.state = "INIT" /\ k.ctx = None /\ k.obj = None
      /\ k.owns = FALSE /\ k.setups = 0
  BY <1>1, ConnectionAssumption DEF NewConn, ConnFields, Pointer
<1>3. r = [k EXCEPT !.transport = i, !.engine = e]
  OBVIOUS
<1> HIDE DEF k, e
<1>4. /\ r \in ConnFields /\ r.life = k.life /\ r.server = k.server /\ r.usePSK = k.usePSK
      /\ r.parent = k.parent /\ r.state = k.state /\ r.ctx = k.ctx /\ r.obj = k.obj
      /\ r.transport = i /\ r.engine = e /\ r.owns = k.owns /\ r.setups = k.setups
  BY <1>1, <1>2, <1>3 DEF ConnFields
<1>5. QED
  BY <1>2, <1>4 DEF IsAccepted, e

\* The accepted connection may be set up.
LEMMA AcceptedWorld ==
    ASSUME NEW w, Sound(w), NEW p \in Conns, NEW c \in Conns,
           w.conn[p].life = "live", w.conn[p].server, w.conn[p].parent = None,
           w.conn[c].life = "none",
           NEW i \in Own(c), i[2] = 1, NEW r, IsAccepted(r, w, p, i),
           NEW h, h = [w.heap[i] EXCEPT !.transport = "open"],
           NEW n, n = (IF w.conn[p].engine # None THEN w.conn[p].engine ELSE w.installed),
           NEW x, x = Changed(w, c, r, i, h, n)
    PROVE  MayEnter(x, c, i) /\ x.conn[c].state # "CONNECTED" /\ TransportOpen(x, c)
<1> DEFINE e == w.conn[p].engine
           g == w.heap[i]
<1>1. /\ w \in Worlds /\ w.conn \in [Conns -> ConnFields] /\ w.heap \in [Ids -> HeapFields]
      /\ w.installed \in Pointer /\ LiveIn(w, w.installed)
      /\ w.conn[p] \in ConnFields /\ Fields(w.conn[p], p)
  BY SoundParts
<1>2. i \in Ids /\ g \in HeapFields /\ i # None
  BY <1>1, Names
<1>3. /\ r \in ConnFields /\ r.life = "live" /\ r.server = TRUE /\ r.usePSK = w.conn[p].usePSK
      /\ r.parent = p /\ r.state = "INIT" /\ r.ctx = None /\ r.obj = None
      /\ r.transport = i /\ r.engine = e /\ r.owns = FALSE /\ r.setups = 0
  BY DEF IsAccepted
<1>4. /\ h \in HeapFields /\ h.engine = g.engine /\ h.refs = g.refs
      /\ h.obj = g.obj /\ h.temp = g.temp /\ h.transport = "open"
  BY <1>2 DEF HeapFields
<1>5. n \in Pointer /\ e \in Pointer /\ LiveIn(w, n) /\ LiveIn(w, e)
  <2>1. LiveIn(w, e) /\ e \in Pointer
    BY <1>1, OwnEngineLive DEF ConnFields
  <2>2. QED
    BY <1>1, <2>1
<1>6. IsChanged(x, w, c, r, i, h, n)
  BY <1>1, <1>3, <1>4, <1>5, ChangedFields
<1>7. LiveIn(x, n) /\ LiveIn(x, e)
  <2>1. ASSUME NEW j \in Ids PROVE x.heap[j].engine = w.heap[j].engine
    <3>1. CASE j = i
      <4>1. x.heap[j] = h
        BY <1>6, <3>1 DEF IsChanged
      <4>2. QED
        BY <1>4, <3>1, <4>1
    <3>2. CASE j # i
      <4>1. x.heap[j] = w.heap[j]
        BY <1>6, <3>2 DEF IsChanged
      <4>2. QED
        BY <4>1
    <3>3. QED
      BY <3>1, <3>2
  <2>2. QED
    BY <1>5, <2>1 DEF LiveIn, Pointer
<1>8. Fields(r, c)
  <2>1. w.conn[p].usePSK \in PskModes \cup {FALSE}
    BY <1>1 DEF Fields
  <2>2. p # None
    BY Names
  <2>3. QED
    BY <1>3, <2>1, <2>2 DEF Fields
<1>9. States(r, x.heap)
  BY <1>3 DEF States
<1>10. Points(r, i, h)
  <2>1. g.refs = 0 /\ g.obj = "none" /\ g.temp = "none" /\ g.engine = "none"
    BY NothingMade
  <2>2. QED
    BY <1>2, <1>3, <1>4, <2>1 DEF Points, ObjRefs
<1>11. ASSUME NEW j \in Own(c) \ {i} PROVE Points(r, j, w.heap[j])
  <2> DEFINE k == w.heap[j]
  <2>1. /\ k.refs = 0 /\ k.obj = "none" /\ k.temp = "none"
        /\ k.engine = "none" /\ (careful => k.transport \notin {"open", "closed"})
    BY NothingMade
  <2>2. j # None /\ j # i
    BY Names
  <2> HIDE DEF k
  <2>3. Points(r, j, k)
    BY <1>3, <2>1, <2>2 DEF Points, ObjRefs
  <2>4. QED
    BY <2>3 DEF k
<1>12. Kin(w, c, r)
  <2>1. e # None => w.conn[p].owns
    BY <1>1 DEF Fields
  <2>2. Family(r, w.conn)
    BY <1>3, <2>1 DEF Family
  <2>3. QED
    BY <1>3, <2>2, KinNew
<1>13. Keeps(x, w, c)
  BY <1>3, <1>4, <1>5, <1>7, <1>8, <1>9, <1>10, <1>11, <1>12, ChangeKeeps
<1>14. x.conn[c] = r /\ x.heap[i] = h /\ Sound(x)
  BY <1>6, <1>13 DEF IsChanged, Keeps
<1>15. Alone(x, c)
  <2>1. x.conn[c].parent # None
    BY <1>3, <1>14, Names
  <2>2. QED
    BY <1>14, <2>1, NoHeirs
<1>16. MayEnter(x, c, i)
  BY <1>3, <1>7, <1>14, <1>15 DEF MayEnter
<1>17. x.conn[c].state # "CONNECTED"
  BY <1>3, <1>14
<1>18. TransportOpen(x, c)
  <2>1. x.conn[c].transport = i /\ x.heap[i].transport = "open"
    BY <1>3, <1>4, <1>14
  <2>2. QED
    BY <1>2, <2>1 DEF TransportOpen
<1>19. QED
  BY <1>16, <1>17, <1>18

\* Accept keeps the invariant: it makes a connection that shares the engine of
\* the listener, and sets it up.
LEMMA AcceptStep ==
    ASSUME ConnectionInv, NEW p \in Conns, NEW c \in Conns, Accept(p, c)
    PROVE  ConnectionInv'
<1> DEFINE i == <<c, 1>>
           new == [NewConn(TRUE, conn[p].usePSK, p) EXCEPT !.transport = i, !.engine = conn[p].engine]
           w == [World EXCEPT !.conn[c] = new, !.heap[i].transport = "open",
                              !.installed = IF conn[p].engine # None THEN conn[p].engine ELSE @]
<1>1. PICK r \in AcceptResults(w, c, i) : Become(r.w)
  BY DEF Accept, Holds
<1>2. /\ conn[p].life = "live" /\ conn[p].server /\ conn[p].parent = None
      /\ conn[c].life = "none"
  BY DEF Accept, Live
<1>3. Sound(World) /\ World \in Worlds /\ World.conn[p] \in ConnFields
  BY SoundParts DEF ConnectionInv
<1>4. i \in Own(c) /\ i \in Ids /\ i[2] = 1
  BY Names
<1>5. IsAccepted(new, World, p, i)
  BY <1>3, <1>4, AcceptedFields, WorldFields
<1> DEFINE h == [World.heap[i] EXCEPT !.transport = "open"]
           n == IF World.conn[p].engine # None THEN World.conn[p].engine ELSE World.installed
<1>6. w = Changed(World, c, new, i, h, n)
  <2> HIDE DEF new, i
  <2>1. n = IF conn[p].engine # None THEN conn[p].engine ELSE World.installed
    BY WorldFields
  <2>2. w = [World EXCEPT !.conn[c] = new, !.heap[i].transport = "open", !.installed = n]
    BY <2>1
  <2> HIDE DEF w, n
  <2>3. w = [conn |-> [conn EXCEPT ![c] = new], heap |-> [heap EXCEPT ![i].transport = "open"],
             installed |-> n]
    BY <2>2 DEF World
  <2>4. [heap EXCEPT ![i].transport = "open"] = [World.heap EXCEPT ![i] = h]
    BY WorldFields
  <2> HIDE DEF h
  <2>5. QED
    BY <2>3, <2>4, WorldFields DEF Changed
<1>7. MayEnter(w, c, i) /\ w.conn[c].state # "CONNECTED" /\ TransportOpen(w, c)
  <2> HIDE DEF w, new, i, h, n
  <2>1. h = [World.heap[i] EXCEPT !.transport = "open"]
    BY DEF h
  <2>2. n = IF World.conn[p].engine # None THEN World.conn[p].engine ELSE World.installed
    BY DEF n
  <2>3. QED
    BY <1>2, <1>3, <1>4, <1>5, <1>6, <2>1, <2>2, AcceptedWorld, WorldFields
<1> HIDE DEF w, i
<1>8. Sound(r.w)
  BY <1>7, AcceptKeeps
<1>9. QED
  BY <1>1, <1>8, BecomeKeeps DEF ConnectionInv

\* HandshakeStep keeps the invariant, whatever OpenSSL answers.
LEMMA HandshakeStepStep ==
    ASSUME ConnectionInv, NEW c \in Conns, HandshakeStep(c)
    PROVE  ConnectionInv'
<1>1. PICK r \in Handshake(World, c) : Become(r.w)
  BY DEF HandshakeStep
<1>2. /\ Sound(World) /\ World.conn[c].life = "live" /\ World.conn[c].obj # None
      /\ careful => World.conn[c].state = "CONNECTING"
  BY WorldFields DEF ConnectionInv, HandshakeStep, Live, Holds
<1>3. careful => TransportOpen(World, c)
  BY <1>2, SoundParts DEF States, TransportOpen
<1>4. Sound(r.w)
  BY <1>2, <1>3, HandshakeKeeps DEF Result, Keeps
<1>5. QED
  BY <1>1, <1>4, BecomeKeeps DEF ConnectionInv

\* Close keeps the invariant.
LEMMA CloseStep ==
    ASSUME ConnectionInv, NEW c \in Conns, Close(c)
    PROVE  ConnectionInv'
<1>1. Sound(World) /\ World.conn[c].life = "live"
  BY WorldFields DEF ConnectionInv, Close, Live
<1>2. Sound(CloseConn(World, c))
  BY <1>1, CloseKeeps DEF Keeps
<1>3. QED
  BY <1>2, BecomeKeeps DEF ConnectionInv, Close

\* The destructor keeps the invariant, the listener's while nobody shares its
\* engine when the application is careful.
LEMMA DeleteStep ==
    ASSUME ConnectionInv, NEW c \in Conns, Delete(c)
    PROVE  ConnectionInv'
<1>1. Sound(World) /\ World.conn[c].life = "live"
  BY WorldFields DEF ConnectionInv, Delete, Live
<1>2. Alone(World, c)
  BY WorldFields DEF Delete, Live, Alone
<1>3. Sound(Destroy(World, c))
  BY <1>1, <1>2, DestroyKeeps
<1>4. QED
  BY <1>3, BecomeKeeps DEF ConnectionInv, Delete

\* A step that changes nothing keeps the invariant.
LEMMA StutterStep ==
    ASSUME ConnectionInv, UNCHANGED vars
    PROVE  ConnectionInv'
<1>1. Become(World)
  BY DEF vars, Become, World
<1>2. QED
  BY <1>1, BecomeKeeps DEF ConnectionInv

\* The invariant holds in every state.
LEMMA ConnectionInvariant == Spec => []ConnectionInv
<1>1. ConnectionInv /\ [Next]_vars => ConnectionInv'
  <2> SUFFICES ASSUME ConnectionInv, Next PROVE ConnectionInv'
    BY StutterStep
  <2>1. QED
    BY CreateStep, ConnectStep, ListenStep, AcceptStep, HandshakeStepStep, CloseStep, DeleteStep
       DEF Next
<1>2. QED
  BY InitConnection, <1>1, PTL DEF Spec

-----------------------------------------------------------------------------
(* The theorems.                                                           *)

\* Connections and what they have made always have their types; in particular
\* no reference counter is taken below zero.
THEOREM ConnectionTypeCorrect == Spec => []TypeOK
<1>1. ConnectionInv => TypeOK
  <2> SUFFICES ASSUME ConnectionInv PROVE TypeOK
    OBVIOUS
  <2>1. World \in Worlds /\ careful \in BOOLEAN
    BY DEF ConnectionInv, Sound
  <2>2. conn \in [Conns -> ConnFields] /\ heap \in [Ids -> HeapFields] /\ m_cryptoEngine \in Pointer
    BY <2>1, WorldFields DEF Worlds
  <2>3. QED
    BY <2>1, <2>2 DEF TypeOK, ConnFields, HeapFields
<1>2. QED
  BY <1>1, ConnectionInvariant, PTL

\* The engine in the adaptor has not been deleted, for any number of connections
\* and whatever the application calls: only its owner deletes an engine, and
\* the adaptor is cleared with it.
THEOREM InstalledAlwaysLive == Spec => []InstalledEngineLive
<1>1. ConnectionInv => InstalledEngineLive
  BY WorldFields DEF ConnectionInv, Sound, LiveIn, InstalledEngineLive
<1>2. QED
  BY <1>1, ConnectionInvariant, PTL

\* Read and Write only reach an object whose own handshake has succeeded,
\* whatever the application calls, and an open transport when it is careful.
THEOREM ReadyWhenConnected == Spec => []ConnectedIsReady
<1>1. ConnectionInv => ConnectedIsReady
  <2> SUFFICES ASSUME ConnectionInv, NEW c \in Conns, CanTransfer(c)
               PROVE  /\ heap[conn[c].obj].obj = "live"
                      /\ heap[conn[c].obj].handshake = "done"
                      /\ IsConnected(c)
                      /\ careful => Holds(c, "transport") /\ heap[conn[c].transport].transport = "open"
    BY DEF ConnectedIsReady
  <2>1. /\ Fields(conn[c], c) /\ States(conn[c], heap)
        /\ \A i \in Own(c) : Points(conn[c], i, heap[i])
    BY SoundParts, WorldFields DEF ConnectionInv
  <2>2. conn[c].state = "CONNECTED" /\ conn[c].obj # None
    BY DEF CanTransfer, Holds
  <2>3. heap[conn[c].obj].obj = "live"
    BY <2>1, <2>2 DEF Fields, Points
  <2>4. QED
    BY <2>1, <2>2, <2>3 DEF States, IsConnected, Holds
<1>2. QED
  BY <1>1, ConnectionInvariant, PTL

\* With a careful application the pointers of a live connection are valid,
\* after any sequence of setups, failures and repetitions.
THEOREM PointersAlwaysValid == Spec => []PointersValid
<1>1. ConnectionInv => PointersValid
  <2> SUFFICES ASSUME ConnectionInv, NEW c \in Conns
               PROVE  /\ Holds(c, "ctx") => heap[conn[c].ctx].refs > 0
                      /\ Holds(c, "obj") => heap[conn[c].obj].obj = "live" /\ heap[conn[c].obj].refs > 0
                      /\ Holds(c, "transport") => heap[conn[c].transport].transport \in {"open", "closed"}
                      /\ conn[c].owns => heap[conn[c].engine].engine = "live"
    BY DEF PointersValid
  <2>1. /\ Fields(conn[c], c)
        /\ \A i \in Own(c) : Points(conn[c], i, heap[i]) /\ heap[i] \in HeapFields
    BY SoundParts, WorldFields DEF ConnectionInv
  <2>2. ASSUME NEW i \in Own(c), conn[c].ctx = i \/ conn[c].obj = i PROVE heap[i].refs > 0
    BY <2>1, <2>2 DEF Points, ObjRefs, HeapFields
  <2>3. QED
    BY <2>1, <2>2 DEF Fields, Points, Holds
<1>2. QED
  BY <1>1, ConnectionInvariant, PTL

\* With a careful application a context that is bound to the engine of its
\* connection, its own or its listener's, is not used after that engine is
\* deleted: the listener lives as long as what it has accepted.
THEOREM EngineAlwaysOutlives == Spec => []EngineOutlivesContext
<1>1. ConnectionInv => EngineOutlivesContext
  <2> SUFFICES ASSUME ConnectionInv, NEW c \in Conns, careful, Live(c), Holds(c, "engine")
               PROVE  heap[conn[c].engine].engine = "live"
    BY DEF EngineOutlivesContext
  <2>1. conn[c].life = "live" /\ conn[c].engine # None /\ Sound(World)
    BY DEF Live, Holds, ConnectionInv
  <2>2. CASE conn[c].parent = None \/ conn[c].owns
    <3>1. Fields(conn[c], c) /\ \A i \in Own(c) : Points(conn[c], i, heap[i])
      BY <2>1, SoundParts, WorldFields
    <3>2. QED
      BY <2>1, <2>2, <3>1 DEF Fields, Points
  <2>3. CASE conn[c].parent # None /\ ~conn[c].owns
    <3> DEFINE p == conn[c].parent
    <3>1. Family(conn[c], conn) /\ p \in Conns
      BY <2>1, <2>3, SoundParts, Parents, WorldFields
    <3>2. conn[p].owns /\ conn[p].engine = conn[c].engine
      BY <2>1, <2>3, <3>1 DEF Family
    <3>3. Fields(conn[p], p) /\ \A i \in Own(p) : Points(conn[p], i, heap[i])
      BY <2>1, <3>1, SoundParts, WorldFields
    <3>4. QED
      BY <3>2, <3>3 DEF Fields, Points
  <2>4. QED
    BY <2>2, <2>3
<1>2. QED
  BY <1>1, ConnectionInvariant, PTL

\* The destructor releases everything a connection has made, whichever of its
\* calls failed, when the application is careful, with and without a PSK;
\* what a connection with a PSK leaves is the object it made to look up a
\* cipher and its one reference to the context, and nothing else.
THEOREM ReleasedByDestructor == Spec => []DestructorReleases
<1>1. ConnectionInv => DestructorReleases
  <2> SUFFICES ASSUME ConnectionInv, NEW i \in Ids, careful, conn[i[1]].life = "deleted"
               PROVE  /\ heap[i].refs = IF heap[i].temp = "live" THEN 1 ELSE 0
                      /\ heap[i].temp = "live" => conn[i[1]].usePSK
                      /\ heap[i].obj # "live"
                      /\ heap[i].transport \notin {"open", "closed"}
                      /\ heap[i].engine # "live"
    BY DEF DestructorReleases
  <2> DEFINE c == i[1]
  <2>1. c \in Conns /\ i \in Own(c) /\ i # None
    BY Names
  <2> HIDE DEF c
  <2>2. Fields(conn[c], c) /\ Points(conn[c], i, heap[i])
    BY <2>1, SoundParts, WorldFields DEF ConnectionInv
  <2>3. /\ conn[c].ctx = None /\ conn[c].obj = None /\ conn[c].transport = None
        /\ ~conn[c].owns
    BY <2>2 DEF Fields, c
  <2>4. QED
    BY <2>1, <2>2, <2>3 DEF Points, ObjRefs, c
<1>2. QED
  BY <1>1, ConnectionInvariant, PTL
=============================================================================

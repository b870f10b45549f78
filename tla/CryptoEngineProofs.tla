------------------------- MODULE CryptoEngineProofs -------------------------
(***************************************************************************)
(* Proofs about the crypto engines, for every number of engines and        *)
(* threads and every width of int: what an engine points to is alive and   *)
(* its own, and nothing is left when all are deleted.                      *)
(*                                                                         *)
(* The heart is that an object on the heap has one owner: freeing what an  *)
(* engine points to then takes nothing from another engine, nor from a     *)
(* request, which can only be in the fallback engine of its own engine or  *)
(* in one that has no owner any more.                                      *)
(***************************************************************************)
EXTENDS CryptoEngine, TLAPS

-----------------------------------------------------------------------------
(* The inductive invariant, as a conjunction of its parts.                 *)

\* What an engine with the fields f points to.
HeldBy(f) == {f.m_libCtx, f.m_defaultProv, f.m_kaeProv, f.m_fallbackEngine} \ {None}

\* The members of an engine fit together.
Shape(f) ==
    /\ f.m_libCtx = None =>
         f.m_defaultProv = None /\ f.m_kaeProv = None /\ f.m_kaeLoaded = FALSE
    /\ f.m_libCtx # None =>
         /\ f.kind = "kae" /\ f.m_initialized
         /\ f.m_defaultProv = <<"default", f.m_libCtx[2]>>
         /\ f.m_kaeProv = IF f.m_kaeLoaded THEN <<"kae", f.m_libCtx[2]>> ELSE None
    /\ f.kind # "kae" => f.m_fallbackEngine = None
    /\ careful /\ f.m_fallbackEngine # None => f.m_initialized

\* Every object on the heap has one owner, and what is owned is on the heap.
\* The fallback engine that a careless application makes twice has none.
Ownership ==
    /\ \A e \in Engines : HeldBy(engine[e]) \subseteq heap
    /\ \A e, d \in Engines : e # d => HeldBy(engine[e]) \cap HeldBy(engine[d]) = {}
    /\ \A o \in heap : o[1] # "software" \/ careful => \E e \in Engines : o \in HeldBy(engine[e])

\* A request is in an engine that exists, and in a software engine that is not
\* the one of another engine.
InCall(t) ==
    /\ call[t].step = "idle" => call[t].engine = None /\ call[t].on = None
    /\ call[t].step # "idle" => call[t].engine \in Engines /\ Alive(call[t].engine)
    /\ call[t].step \in {"missing", "made", "found"} =>
         call[t].on = None /\ engine[call[t].engine].kind = "kae"
    /\ call[t].on # None =>
         /\ call[t].on \in heap
         /\ \A e \in Engines : call[t].on \in HeldBy(engine[e]) => e = call[t].engine

\* With a careful application it is alone there, and nobody else has made the
\* fallback engine it is about to make.
AloneInCall ==
    careful =>
        /\ \A t \in Threads : call[t].step = "missing" =>
             /\ engine[call[t].engine].m_initialized
             /\ engine[call[t].engine].m_fallbackEngine = None
        /\ \A t, u \in Threads : call[t].engine # None /\ call[t].engine = call[u].engine => t = u

EngineInv ==
    /\ TypeOK
    /\ \A e \in Engines : Shape(engine[e])
    /\ Ownership
    /\ \A t \in Threads : InCall(t)
    /\ AloneInCall
    /\ evp = {}

-----------------------------------------------------------------------------
(* Outcomes.                                                               *)

\* A request that frees what it has acquired leaves nothing.
LEMMA OutcomesClean ==
    ASSUME NEW acquired, NEW o \in Outcomes(acquired, acquired)
    PROVE  o.left = {} /\ o.ok \in BOOLEAN
BY DEF Outcomes

\* A request that is refused has acquired nothing.
LEMMA RefusedClean == Refused.left = {} /\ Refused.ok = FALSE
BY DEF Refused

\* The requests leave nothing, wherever they fail.
LEMMA ComputeClean ==
    /\ \A algo, aad, len : \A o \in EncryptOutcomes(algo, aad, len) : o.left = {}
    /\ \A algo, aad, len : \A o \in DecryptOutcomes(algo, aad, len) : o.left = {}
    /\ \A algo : \A o \in ECDHOutcomes(algo) : o.left = {}
    /\ \A algo : \A o \in HashOutcomes(algo) : o.left = {}
    /\ \A algo, len : \A o \in HMACOutcomes(algo, len) : o.left = {}
    /\ \A algo, salt, ikm : \A o \in HKDFExtractOutcomes(algo, salt, ikm) : o.left = {}
    /\ \A algo, prk, info : \A o \in HKDFExpandOutcomes(algo, prk, info) : o.left = {}
    /\ \A len : \A o \in RandomBytesOutcomes(len) : o.left = {}
    /\ \A o \in SignOutcomes \cup VerifyOutcomes : o.left = {}
    /\ \A o \in ImportKeyOutcomes \cup DestroyKeyOutcomes : o.left = {}
<1>1. ASSUME NEW algo, NEW o \in ECDHOutcomes(algo)
      PROVE  o.left = {}
  <2> DEFINE Ends == {[Refused EXCEPT !.left = held] :
                        held \in {{}, {"pkey"}, {"pctx"}, {"pkey", "pctx"}}}
                     \cup DeriveECDHSharedSecret({"pkey", "pctx", "peerKey"})
  <2>1. o = Refused \/ \E q \in Ends : o = [q EXCEPT !.left = @ \ {"pkey", "pctx", "peerKey"}]
    BY DEF ECDHOutcomes
  <2>2. ASSUME NEW q \in Ends
        PROVE  [q EXCEPT !.left = @ \ {"pkey", "pctx", "peerKey"}].left = {}
    <3>1. q.left \subseteq {"pkey", "pctx", "peerKey"} /\ q = [ok |-> q.ok, left |-> q.left]
      BY DEF DeriveECDHSharedSecret, Outcomes, Refused
    <3> HIDE DEF Ends
    <3>2. QED
      BY <3>1
  <2>3. QED
    BY <2>1, <2>2, RefusedClean
<1>2. \A algo : \A o \in HashOutcomes(algo) : o.left = {}
  BY OutcomesClean, RefusedClean DEF HashOutcomes
<1>3. \A algo, len : \A o \in HMACOutcomes(algo, len) : o.left = {}
  BY OutcomesClean DEF HMACOutcomes
<1>4. \A algo, salt, ikm : \A o \in HKDFExtractOutcomes(algo, salt, ikm) : o.left = {}
  BY OutcomesClean, RefusedClean DEF HKDFExtractOutcomes
<1>5. \A algo, prk, info : \A o \in HKDFExpandOutcomes(algo, prk, info) : o.left = {}
  BY OutcomesClean, RefusedClean DEF HKDFExpandOutcomes
<1>6. \A len : \A o \in RandomBytesOutcomes(len) : o.left = {}
  BY OutcomesClean DEF RandomBytesOutcomes
<1>7. \A o \in SignOutcomes \cup VerifyOutcomes : o.left = {}
  BY RefusedClean DEF SignOutcomes, VerifyOutcomes
<1>8. \A o \in ImportKeyOutcomes \cup DestroyKeyOutcomes : o.left = {}
  BY DEF ImportKeyOutcomes, DestroyKeyOutcomes, Refused
<1>9. \A algo, aad, len : \A o \in EncryptOutcomes(algo, aad, len) : o.left = {}
  BY OutcomesClean, RefusedClean DEF EncryptOutcomes
<1>10. \A algo, aad, len : \A o \in DecryptOutcomes(algo, aad, len) : o.left = {}
  BY OutcomesClean, RefusedClean DEF DecryptOutcomes
<1>11. QED
  BY <1>1, <1>2, <1>3, <1>4, <1>5, <1>6, <1>7, <1>8, <1>9, <1>10

-----------------------------------------------------------------------------
(* Ownership.                                                              *)

\* Engine e changes to the fields f and the heap to h without touching what
\* others own: everything new is held by e, e holds nothing that was not new
\* or its own, only its own objects are freed, and it drops no object that
\* must have an owner.
Transfers(e, f, h) ==
    /\ HeldBy(f) \subseteq h
    /\ h \subseteq heap \cup HeldBy(f)
    /\ HeldBy(f) \cap heap \subseteq HeldBy(engine[e])
    /\ heap \subseteq h \cup HeldBy(engine[e])
    /\ \A o \in HeldBy(engine[e]) \cap h : o \in HeldBy(f) \/ (o[1] = "software" /\ ~careful)

\* Such a change keeps the ownership.
LEMMA TransferKeeps ==
    ASSUME Ownership, engine \in [Engines -> EngineFields], NEW e \in Engines, NEW f,
           Transfers(e, f, heap'), engine' = [engine EXCEPT ![e] = f], careful' = careful
    PROVE  Ownership'
<1>1. \A d \in Engines : engine'[d] = IF d = e THEN f ELSE engine[d]
  OBVIOUS
<1> DEFINE H(d) == HeldBy(engine[d])
           K(d) == HeldBy(engine'[d])
           g == HeldBy(f)
<1>2. \A d \in Engines : K(d) = IF d = e THEN g ELSE H(d)
  BY <1>1
<1>3. /\ g \subseteq heap' /\ heap' \subseteq heap \cup g
      /\ g \cap heap \subseteq H(e) /\ heap \subseteq heap' \cup H(e)
      /\ \A o \in H(e) \cap heap' : o \in g \/ (o[1] = "software" /\ ~careful)
  BY DEF Transfers
<1>4. /\ \A d \in Engines : H(d) \subseteq heap
      /\ \A d, c \in Engines : d # c => H(d) \cap H(c) = {}
      /\ \A o \in heap : o[1] # "software" \/ careful => \E d \in Engines : o \in H(d)
  BY DEF Ownership
<1> HIDE DEF H, K, g
<1>5. \A d \in Engines : K(d) \subseteq heap'
  BY <1>2, <1>3, <1>4
<1>6. \A d, c \in Engines : d # c => K(d) \cap K(c) = {}
  BY <1>2, <1>3, <1>4
<1>7. ASSUME NEW o \in heap', o[1] # "software" \/ careful
      PROVE  \E d \in Engines : o \in K(d)
  <2>1. CASE o \in g
    BY <1>2, <2>1
  <2>2. CASE o \notin g
    <3>1. PICK d \in Engines : o \in H(d)
      BY <1>3, <1>4, <1>7, <2>2
    <3>2. d # e
      BY <1>3, <1>7, <2>2, <3>1
    <3>3. QED
      BY <1>2, <3>1, <3>2
  <2>3. QED
    BY <2>1, <2>2
<1>8. QED
  BY <1>5, <1>6, <1>7 DEF Ownership, K

\* What the members of an engine point to are objects.
LEMMA HeldTypes ==
    ASSUME NEW f \in EngineFields
    PROVE  /\ HeldBy(f) \subseteq Objects
           /\ None \notin HeldBy(f)
           /\ \A o \in HeldBy(f) :
                /\ o[1] = "lib" => o = f.m_libCtx
                /\ o[1] = "default" => o = f.m_defaultProv
                /\ o[1] = "kae" => o = f.m_kaeProv
                /\ o[1] = "software" => o = f.m_fallbackEngine
<1>1. /\ f.m_libCtx \in Pointer("lib") /\ f.m_defaultProv \in Pointer("default")
      /\ f.m_kaeProv \in Pointer("kae") /\ f.m_fallbackEngine \in Pointer("software")
  BY DEF EngineFields
<1>2. \A type \in ObjectTypes : \A o \in Pointer(type) \ {None} : o \in Objects /\ o[1] = type
  BY DEF Pointer, Objects
<1>3. QED
  BY <1>1, <1>2 DEF HeldBy, ObjectTypes

\* An engine that no request is in changes.
LEMMA EngineChanges ==
    ASSUME EngineInv, NEW e \in Engines, Unused(e), NEW f \in EngineFields, NEW h,
           Shape(f), Transfers(e, f, h), Become(e, After(f, h))
    PROVE  EngineInv'
<1>1. /\ engine' = [engine EXCEPT ![e] = f] /\ heap' = h
      /\ UNCHANGED <<careful, call, evp>>
  BY DEF Become, After
<1>2. /\ TypeOK /\ Ownership /\ AloneInCall /\ evp = {}
      /\ \A d \in Engines : Shape(engine[d])
      /\ \A t \in Threads : InCall(t)
  BY DEF EngineInv
<1>3. engine \in [Engines -> EngineFields] /\ heap \subseteq Objects
  BY <1>2 DEF TypeOK
<1>4. \A d \in Engines : engine'[d] = IF d = e THEN f ELSE engine[d]
  BY <1>1, <1>3
<1>5. heap' \subseteq Objects
  BY <1>1, <1>3, HeldTypes DEF Transfers
<1>6. TypeOK'
  BY <1>1, <1>2, <1>3, <1>5 DEF TypeOK
<1>7. \A d \in Engines : Shape(engine[d])'
  BY <1>1, <1>2, <1>4 DEF Shape
<1>8. Ownership'
  BY <1>1, <1>2, <1>3, TransferKeeps
<1>9. ASSUME NEW t \in Threads
      PROVE  InCall(t)'
  <2>1. call[t].engine # e
    BY DEF Unused
  <2>2. InCall(t)
    BY <1>2
  <2>3. call[t].step # "idle" =>
           call[t].engine \in Engines /\ engine'[call[t].engine] = engine[call[t].engine]
    BY <1>4, <2>1, <2>2 DEF InCall
  <2>4. ASSUME call[t].on # None
        PROVE  /\ call[t].on \in heap'
               /\ \A d \in Engines : call[t].on \in HeldBy(engine'[d]) => d = call[t].engine
    <3>1. /\ call[t].on \in heap
          /\ \A d \in Engines : call[t].on \in HeldBy(engine[d]) => d = call[t].engine
      BY <2>2, <2>4 DEF InCall
    <3>2. call[t].on \notin HeldBy(engine[e])
      BY <2>1, <3>1
    <3>3. call[t].on \in heap' /\ call[t].on \notin HeldBy(f)
      BY <1>1, <3>1, <3>2 DEF Transfers
    <3>4. QED
      BY <1>4, <3>1, <3>3
  <2>5. QED
    BY <1>1, <2>2, <2>3, <2>4 DEF InCall, Alive
<1>10. AloneInCall'
  <2> SUFFICES ASSUME careful
               PROVE  /\ \A t \in Threads : call[t].step = "missing" =>
                           /\ engine'[call[t].engine].m_initialized
                           /\ engine'[call[t].engine].m_fallbackEngine = None
                      /\ \A t, u \in Threads :
                           call[t].engine # None /\ call[t].engine = call[u].engine => t = u
    BY <1>1 DEF AloneInCall
  <2>1. ASSUME NEW t \in Threads, call[t].step = "missing"
        PROVE  engine'[call[t].engine] = engine[call[t].engine]
    BY <1>2, <1>4, <2>1 DEF Unused, InCall
  <2>2. QED
    BY <1>2, <2>1 DEF AloneInCall
<1>11. evp' = {}
  BY <1>1, <1>2
<1>12. QED
  BY <1>6, <1>7, <1>8, <1>9, <1>10, <1>11 DEF EngineInv

-----------------------------------------------------------------------------
(* The life of an engine.                                                  *)

\* A new engine points to nothing.
LEMMA NewEngine ==
    ASSUME NEW kind \in {"none", "software", "kae"}
    PROVE  New(kind) \in EngineFields /\ HeldBy(New(kind)) = {} /\ Shape(New(kind))
BY DEF New, EngineFields, HeldBy, Shape, Pointer

\* An engine that does not exist points to nothing, and no request is in it.
LEMMA AbsentEngine ==
    ASSUME EngineInv, NEW e \in Engines, ~Alive(e)
    PROVE  HeldBy(engine[e]) = {} /\ Unused(e)
<1>1. engine[e].kind = "none" /\ Shape(engine[e])
  BY DEF Alive, EngineInv
<1>2. HeldBy(engine[e]) = {}
  BY <1>1 DEF Shape, HeldBy
<1>3. ASSUME NEW t \in Threads
      PROVE  call[t].engine # e
  <2>1. InCall(t)
    BY DEF EngineInv
  <2>2. QED
    BY <2>1, EngineAssumption DEF InCall
<1>4. QED
  BY <1>2, <1>3 DEF Unused

\* The constructors.
LEMMA CreateKeeps ==
    ASSUME EngineInv, NEW e \in Engines, Create(e)
    PROVE  EngineInv'
<1>1. PICK kind \in {"software", "kae"} : Become(e, After(New(kind), heap))
  BY DEF Create
<1>2. HeldBy(engine[e]) = {} /\ Unused(e)
  BY AbsentEngine DEF Create
<1>3. New(kind) \in EngineFields /\ HeldBy(New(kind)) = {} /\ Shape(New(kind))
  BY NewEngine
<1>4. Transfers(e, New(kind), heap)
  BY <1>2, <1>3 DEF Transfers
<1>5. QED
  BY <1>1, <1>2, <1>3, <1>4, EngineChanges

\* Finalize frees all that the engine holds, or is not initialised and does
\* nothing.
LEMMA FinalizeTransfers ==
    ASSUME EngineInv, NEW e \in Engines
    PROVE  LET r == FinalizeResult(engine[e], heap)
           IN /\ r = After(r.fields, r.heap)
              /\ r.fields \in EngineFields
              /\ Shape(r.fields)
              /\ Transfers(e, r.fields, r.heap)
              /\ Transfers(e, NoEngine, r.heap)
<1> DEFINE f == engine[e]
           r == FinalizeResult(f, heap)
<1>1. /\ f \in EngineFields /\ Shape(f) /\ Ownership /\ heap \subseteq Objects
      /\ f.kind \in {"none", "software", "kae"}
  BY DEF EngineInv, TypeOK, EngineFields
<1>2. HeldBy(f) \subseteq heap
  BY <1>1 DEF Ownership
<1>3. /\ NoEngine \in EngineFields /\ HeldBy(NoEngine) = {} /\ Shape(NoEngine)
  BY NewEngine DEF NoEngine
<1> HIDE DEF f
<1>4. CASE f.kind = "kae" /\ ~f.m_initialized
  <2>1. r = After(f, heap)
    BY <1>4 DEF FinalizeResult
  <2>2. r.fields = f /\ r.heap = heap
    BY <2>1 DEF After
  <2>3. Transfers(e, f, heap)
    BY <1>2 DEF Transfers, f
  <2>4. \A o \in HeldBy(f) : o[1] = "software" /\ ~careful
    <3>1. f.m_libCtx = None /\ f.m_defaultProv = None /\ f.m_kaeProv = None
          /\ (f.m_fallbackEngine # None => ~careful)
      BY <1>1, <1>4 DEF Shape
    <3>2. f.m_fallbackEngine # None => f.m_fallbackEngine[1] = "software"
      BY <1>1 DEF EngineFields, Pointer
    <3>3. QED
      BY <3>1, <3>2 DEF HeldBy
  <2>5. Transfers(e, NoEngine, heap)
    BY <1>2, <1>3, <2>4 DEF Transfers, f
  <2>6. QED
    BY <1>1, <2>1, <2>2, <2>3, <2>5 DEF f
<1>5. CASE ~(f.kind = "kae" /\ ~f.m_initialized)
  <2> DEFINE h == heap \ {f.m_kaeProv, f.m_defaultProv, f.m_libCtx, f.m_fallbackEngine}
  <2>1. r = After(New(f.kind), h)
    BY <1>5 DEF FinalizeResult
  <2>2. r.fields = New(f.kind) /\ r.heap = h
    BY <2>1 DEF After
  <2>3. h = heap \ HeldBy(f)
    BY <1>1, NullAssumption DEF HeldBy
  <2>4. New(f.kind) \in EngineFields /\ HeldBy(New(f.kind)) = {} /\ Shape(New(f.kind))
    BY <1>1, NewEngine
  <2> HIDE DEF h
  <2>5. Transfers(e, New(f.kind), h) /\ Transfers(e, NoEngine, h)
    BY <1>3, <2>3, <2>4 DEF Transfers, f
  <2>6. QED
    BY <2>1, <2>2, <2>4, <2>5 DEF f
<1>6. QED
  BY <1>4, <1>5

\* Finalize, and the destructor.
LEMMA FinalizeKeeps ==
    ASSUME EngineInv, NEW e \in Engines, Finalize(e) \/ Delete(e)
    PROVE  EngineInv'
<1> DEFINE r == FinalizeResult(engine[e], heap)
<1>1. /\ r = After(r.fields, r.heap)
      /\ r.fields \in EngineFields
      /\ Shape(r.fields)
      /\ Transfers(e, r.fields, r.heap)
      /\ Transfers(e, NoEngine, r.heap)
  BY FinalizeTransfers
<1>2. Unused(e) /\ (Become(e, r) \/ Become(e, After(NoEngine, r.heap)))
  BY DEF Finalize, Delete
<1>3. NoEngine \in EngineFields /\ Shape(NoEngine)
  BY NewEngine DEF NoEngine
<1> HIDE DEF r
<1>4. CASE Become(e, r)
  <2>1. Become(e, After(r.fields, r.heap))
    BY <1>1, <1>4
  <2>2. QED
    BY <1>1, <1>2, <2>1, EngineChanges
<1>5. CASE Become(e, After(NoEngine, r.heap))
  BY <1>1, <1>2, <1>3, <1>5, EngineChanges
<1>6. QED
  BY <1>2, <1>4, <1>5

\* A free address is the address of no object.
LEMMA FreshIsNew ==
    ASSUME NEW type \in ObjectTypes, NEW o \in Fresh(type)
    PROVE  /\ o \in Objects /\ o \notin heap
           /\ o[1] = type /\ o[2] \in 1..Copies /\ o = <<type, o[2]>>
           /\ o \in Pointer(type) /\ o # None
<1>1. PICK n \in 1..Copies : o = <<type, n>> /\ <<type, n>> \notin heap
  BY DEF Fresh
<1>2. o \in Objects
  BY <1>1 DEF Objects
<1>3. o # None
  BY <1>2, NullAssumption
<1>4. QED
  BY <1>1, <1>2, <1>3 DEF Pointer

\* A provider has its library context on the heap, because its owner has.
LEMMA ProviderHasLib ==
    ASSUME EngineInv, NEW o \in heap, o[1] \in {"default", "kae"}
    PROVE  <<"lib", o[2]>> \in heap
<1>1. PICK e \in Engines : o \in HeldBy(engine[e])
  BY DEF EngineInv, Ownership
<1> DEFINE f == engine[e]
<1>2. f \in EngineFields /\ Shape(f) /\ HeldBy(f) \subseteq heap
  BY DEF EngineInv, TypeOK, Ownership
<1>3. o # None /\ (o = f.m_defaultProv \/ o = f.m_kaeProv)
  BY <1>1, <1>2, HeldTypes
<1> HIDE DEF f
<1>4. f.m_libCtx # None
  BY <1>2, <1>3 DEF Shape
<1>5. o[2] = f.m_libCtx[2]
  BY <1>2, <1>3, <1>4 DEF Shape
<1>6. f.m_libCtx = <<"lib", f.m_libCtx[2]>>
  BY <1>2, <1>4 DEF EngineFields, Pointer
<1>7. f.m_libCtx \in heap
  BY <1>2, <1>4 DEF HeldBy
<1>8. QED
  BY <1>5, <1>6, <1>7

\* Initialize makes a library context with its default provider, and with KAE or
\* without, all of them new.
LEMMA InitializeKeeps ==
    ASSUME EngineInv, NEW e \in Engines, Initialize(e)
    PROVE  EngineInv'
<1> DEFINE f == engine[e]
<1>1. PICK r \in InitializeResults(f, heap) : Become(e, r)
  BY DEF Initialize
<1>2. Unused(e) /\ Alive(e)
  BY DEF Initialize
<1>3. f \in EngineFields /\ Shape(f) /\ HeldBy(f) \subseteq heap
  BY DEF EngineInv, TypeOK, Ownership
<1>4. f.kind \in {"software", "kae"} /\ f.m_initialized \in BOOLEAN
  BY <1>2, <1>3 DEF EngineFields, Alive
<1>5. Transfers(e, f, heap)
  BY <1>3 DEF Transfers
<1>6. ASSUME r = After(f, heap)
      PROVE  EngineInv'
  BY <1>1, <1>2, <1>3, <1>5, <1>6, EngineChanges
<1> HIDE DEF f
<1>7. CASE f.kind = "software"
  <2> DEFINE g == [f EXCEPT !.m_initialized = TRUE]
  <2>1. r = After(g, heap)
    BY <1>1, <1>7 DEF InitializeResults
  <2>2. /\ g \in EngineFields /\ g.kind = f.kind /\ g.m_initialized = TRUE
        /\ g.m_libCtx = f.m_libCtx /\ g.m_defaultProv = f.m_defaultProv
        /\ g.m_kaeProv = f.m_kaeProv /\ g.m_kaeLoaded = f.m_kaeLoaded
        /\ g.m_fallbackEngine = f.m_fallbackEngine
    BY <1>3 DEF EngineFields
  <2> HIDE DEF g
  <2>3. Shape(g) /\ HeldBy(g) = HeldBy(f)
    BY <1>3, <2>2 DEF Shape, HeldBy
  <2>4. Transfers(e, g, heap)
    BY <1>5, <2>3 DEF Transfers
  <2>5. QED
    BY <1>1, <1>2, <2>1, <2>2, <2>3, <2>4, EngineChanges
<1>8. ASSUME f.kind = "kae", ~f.m_initialized, NEW lib \in Fresh("lib"),
             r \in LoadKAEProvider([f EXCEPT !.m_initialized = TRUE, !.m_libCtx = lib,
                                             !.m_defaultProv = <<"default", lib[2]>>],
                                   heap \cup {lib, <<"default", lib[2]>>})
      PROVE  EngineInv'
  <2> DEFINE default == <<"default", lib[2]>>
             kae == <<"kae", lib[2]>>
             f1 == [f EXCEPT !.m_initialized = TRUE, !.m_libCtx = lib, !.m_defaultProv = default]
             without == [f1 EXCEPT !.m_kaeProv = None, !.m_kaeLoaded = FALSE]
             with == [f1 EXCEPT !.m_kaeProv = kae, !.m_kaeLoaded = TRUE]
  <2>1. /\ lib \in Objects /\ lib \notin heap /\ lib[2] \in 1..Copies
        /\ lib = <<"lib", lib[2]>> /\ lib \in Pointer("lib") /\ lib # None
    BY FreshIsNew DEF ObjectTypes
  <2>2. default \in Objects /\ kae \in Objects
    BY <2>1 DEF Objects, ObjectTypes
  <2>3. default \notin heap /\ kae \notin heap
    <3>1. <<"lib", default[2]>> = lib /\ <<"lib", kae[2]>> = lib
      BY <2>1
    <3>2. default[1] \in {"default", "kae"} /\ kae[1] \in {"default", "kae"}
      OBVIOUS
    <3> HIDE DEF default, kae
    <3>3. QED
      BY <2>1, <3>1, <3>2, ProviderHasLib
  <2>4. /\ default \in Pointer("default") /\ kae \in Pointer("kae")
        /\ default # None /\ kae # None
    BY <2>1, <2>2, NullAssumption DEF Pointer
  <2>5. /\ f1 \in EngineFields /\ f1.kind = "kae" /\ f1.m_initialized = TRUE
        /\ f1.m_libCtx = lib /\ f1.m_defaultProv = default
        /\ f1.m_fallbackEngine = f.m_fallbackEngine
    BY <1>3, <1>8, <2>1, <2>4 DEF EngineFields
  <2>6. f.m_libCtx = None /\ f.m_defaultProv = None /\ f.m_kaeProv = None
    BY <1>3, <1>8 DEF Shape
  <2>7. r = After(without, heap \cup {lib, default})
        \/ r = After(with, heap \cup {lib, default} \cup {kae})
    <3>1. f1.m_libCtx[2] = lib[2]
      BY <2>5
    <3>2. r \in LoadKAEProvider(f1, heap \cup {lib, default})
      BY <1>8
    <3> HIDE DEF f1
    <3>3. QED
      BY <3>1, <3>2 DEF LoadKAEProvider
  <2> HIDE DEF f1
  <2>8. /\ without \in EngineFields /\ without.kind = "kae" /\ without.m_initialized = TRUE
        /\ without.m_libCtx = lib /\ without.m_defaultProv = default
        /\ without.m_kaeProv = None /\ without.m_kaeLoaded = FALSE
        /\ without.m_fallbackEngine = f.m_fallbackEngine
    BY <2>5 DEF EngineFields, Pointer
  <2>9. /\ with \in EngineFields /\ with.kind = "kae" /\ with.m_initialized = TRUE
        /\ with.m_libCtx = lib /\ with.m_defaultProv = default
        /\ with.m_kaeProv = kae /\ with.m_kaeLoaded = TRUE
        /\ with.m_fallbackEngine = f.m_fallbackEngine
    BY <2>4, <2>5 DEF EngineFields
  <2> HIDE DEF with, without
  <2>10. Shape(without) /\ Shape(with)
    BY <2>1, <2>8, <2>9 DEF Shape
  <2>11. /\ HeldBy(without) = {lib, default} \cup HeldBy(f)
         /\ HeldBy(with) = {lib, default, kae} \cup HeldBy(f)
    BY <2>1, <2>4, <2>6, <2>8, <2>9 DEF HeldBy
  <2>12. /\ Transfers(e, without, heap \cup {lib, default})
         /\ Transfers(e, with, heap \cup {lib, default} \cup {kae})
    <3> HIDE DEF default, kae
    <3>1. QED
      BY <1>3, <2>1, <2>3, <2>11 DEF Transfers, f
  <2>13. QED
    BY <1>1, <1>2, <2>7, <2>8, <2>9, <2>10, <2>12, EngineChanges
<1>9. CASE f.kind = "kae" /\ f.m_initialized
  BY <1>1, <1>6, <1>9 DEF InitializeResults, f
<1>10. CASE f.kind = "kae" /\ ~f.m_initialized
  <2>1. r \in KAEInitialize(f, heap)
    BY <1>1, <1>10 DEF InitializeResults
  <2>2. QED
    BY <1>6, <1>8, <1>10, <2>1 DEF KAEInitialize, f
<1>11. QED
  BY <1>4, <1>7, <1>9, <1>10

-----------------------------------------------------------------------------
(* Requests.                                                               *)

CallRecords ==
    [step : {"idle", "missing", "made", "found", "run", "crashed"},
     engine : Engines \cup {None}, on : Pointer("software")]

\* A thread goes on in its request; its engine and the heap stay as they are.
LEMMA CallSteps ==
    ASSUME EngineInv, NEW t \in Threads, NEW c \in CallRecords,
           call' = [call EXCEPT ![t] = c], UNCHANGED <<careful, engine, heap, evp>>,
           c.step # "idle", c.engine \in Engines, Alive(c.engine),
           c.step \in {"missing", "made", "found"} =>
             c.on = None /\ engine[c.engine].kind = "kae",
           c.on # None => c.on = engine[c.engine].m_fallbackEngine,
           careful /\ c.step = "missing" =>
             engine[c.engine].m_initialized /\ engine[c.engine].m_fallbackEngine = None,
           careful => Unused(c.engine) \/ call[t].engine = c.engine
    PROVE  EngineInv'
<1>1. /\ TypeOK /\ Ownership /\ AloneInCall /\ evp = {}
      /\ \A d \in Engines : Shape(engine[d])
      /\ \A u \in Threads : InCall(u)
  BY DEF EngineInv
<1>2. call \in [Threads -> CallRecords]
  BY <1>1 DEF TypeOK, CallRecords
<1>3. \A u \in Threads : call'[u] = IF u = t THEN c ELSE call[u]
  BY <1>2
<1>4. TypeOK'
  <2>1. call' \in [Threads -> CallRecords]
    BY <1>2
  <2>2. QED
    BY <1>1, <2>1 DEF TypeOK, CallRecords
<1>5. Ownership' /\ \A d \in Engines : Shape(engine[d])'
  BY <1>1 DEF Ownership, Shape
<1>6. ASSUME NEW u \in Threads
      PROVE  InCall(u)'
  <2>1. CASE u # t
    BY <1>1, <1>3, <2>1 DEF InCall, Alive
  <2>2. CASE u = t
    <3>1. call'[u] = c
      BY <1>3, <2>2
    <3>2. ASSUME c.on # None
          PROVE  /\ c.on \in heap
                 /\ \A d \in Engines : c.on \in HeldBy(engine[d]) => d = c.engine
      <4>1. c.on \in HeldBy(engine[c.engine])
        BY <3>2 DEF HeldBy
      <4>2. QED
        BY <1>1, <4>1 DEF Ownership
    <3>3. QED
      BY <3>1, <3>2 DEF InCall, Alive
  <2>3. QED
    BY <2>1, <2>2
<1>7. AloneInCall'
  <2> SUFFICES ASSUME careful
               PROVE  /\ \A u \in Threads : call'[u].step = "missing" =>
                           /\ engine[call'[u].engine].m_initialized
                           /\ engine[call'[u].engine].m_fallbackEngine = None
                      /\ \A u, v \in Threads :
                           call'[u].engine # None /\ call'[u].engine = call'[v].engine => u = v
    BY DEF AloneInCall
  <2>1. \A u \in Threads : u # t => call[u].engine # c.engine
    BY <1>1, EngineAssumption DEF Unused, AloneInCall
  <2>2. QED
    BY <1>1, <1>3, <2>1 DEF AloneInCall
<1>8. QED
  BY <1>1, <1>4, <1>5, <1>6, <1>7 DEF EngineInv

\* A request begins in the engine it was sent to.
LEMMA RequestKeeps ==
    ASSUME EngineInv, NEW t \in Threads, NEW e \in Engines, Request(t, e)
    PROVE  EngineInv'
<1> DEFINE f == engine[e]
           c == [step |-> IF f.kind # "kae" THEN "run"
                          ELSE IF f.m_fallbackEngine = None THEN "missing" ELSE "found",
                 engine |-> e, on |-> None]
<1>1. /\ call' = [call EXCEPT ![t] = c]
      /\ UNCHANGED <<careful, engine, heap, evp>>
      /\ Alive(e) /\ (careful => f.m_initialized /\ Unused(e))
  BY DEF Request, MayCall
<1>2. /\ c \in CallRecords /\ c.engine = e /\ c.on = None
      /\ c.step \in {"missing", "found", "run"}
      /\ c.step # "run" => f.kind = "kae"
      /\ c.step = "missing" => f.m_fallbackEngine = None
  BY DEF CallRecords, Pointer
<1> HIDE DEF c
<1>3. QED
  BY <1>1, <1>2, CallSteps

\* GetFallbackEngine reads its member again, to initialise what it points to and
\* to return it: a request is then in the fallback engine of its own engine, or
\* has crashed at a null pointer.
LEMMA FallbackRead ==
    ASSUME EngineInv, NEW t \in Threads, InitializeFallback(t) \/ ReturnFallback(t)
    PROVE  EngineInv'
<1> DEFINE e == call[t].engine
           o == engine[e].m_fallbackEngine
           c == IF call[t].step = "made"
                THEN [call[t] EXCEPT !.step = IF o = None THEN "crashed" ELSE "found"]
                ELSE [call[t] EXCEPT !.step = IF o = None THEN "crashed" ELSE "run", !.on = o]
<1>1. TypeOK /\ InCall(t)
  BY DEF EngineInv
<1>2. /\ call[t].step \in {"made", "found"}
      /\ UNCHANGED <<careful, engine, heap, evp>>
  BY DEF InitializeFallback, ReturnFallback
<1>3. call \in [Threads -> CallRecords] /\ call[t] \in CallRecords
  BY <1>1 DEF TypeOK, CallRecords
<1>4. e \in Engines /\ Alive(e) /\ engine[e].kind = "kae" /\ call[t].on = None
  BY <1>1, <1>2 DEF InCall
<1>5. o \in Pointer("software")
  BY <1>1, <1>4 DEF TypeOK, EngineFields
<1>6. call' = [call EXCEPT ![t] = c]
  BY <1>2, <1>3 DEF InitializeFallback, ReturnFallback, Fallback
<1>7. /\ c \in CallRecords /\ c.engine = e
      /\ c.step \in {"crashed", "found", "run"}
      /\ c.step = "found" => c.on = None
      /\ c.on # None => c.on = o
  BY <1>2, <1>3, <1>4, <1>5 DEF CallRecords
<1> HIDE DEF c
<1>8. QED
  BY <1>2, <1>4, <1>6, <1>7, CallSteps

\* The fallback engine is made although another thread may have made one since
\* the request looked: that one loses its owner, and stays alive.  Without memory
\* the member becomes null.
LEMMA MakeFallbackKeeps ==
    ASSUME EngineInv, NEW t \in Threads, MakeFallback(t)
    PROVE  EngineInv'
<1> DEFINE e == call[t].engine
           f == engine[e]
<1>1. /\ TypeOK /\ Ownership /\ AloneInCall /\ evp = {}
      /\ \A d \in Engines : Shape(engine[d])
      /\ \A u \in Threads : InCall(u)
  BY DEF EngineInv
<1>2. /\ call[t].step = "missing"
      /\ UNCHANGED <<careful, evp>>
  BY DEF MakeFallback
<1>3. e \in Engines /\ Alive(e) /\ f.kind = "kae"
  BY <1>1, <1>2 DEF InCall
<1>4. /\ engine \in [Engines -> EngineFields] /\ call \in [Threads -> CallRecords]
      /\ f \in EngineFields /\ Shape(f) /\ heap \subseteq Objects
  BY <1>1, <1>3 DEF TypeOK, CallRecords
<1>5. PICK o \in Fresh("software") \cup {None} :
         /\ engine' = [engine EXCEPT ![call[t].engine].m_fallbackEngine = o]
         /\ heap' = heap \cup ({o} \ {None})
         /\ call' = [call EXCEPT ![t].step = "made"]
  BY DEF MakeFallback
<1> DEFINE g == [f EXCEPT !.m_fallbackEngine = o]
           c == [call[t] EXCEPT !.step = "made"]
<1>6. engine' = [engine EXCEPT ![e] = g]
  BY <1>3, <1>4, <1>5
<1>7. call' = [call EXCEPT ![t] = c]
  BY <1>4, <1>5
<1>8. o \in Pointer("software") /\ (o # None => o \in Objects) /\ o \notin heap
  <2>1. CASE o = None
    BY <1>4, <2>1, NullAssumption DEF Pointer
  <2>2. CASE o \in Fresh("software")
    BY <2>2, FreshIsNew DEF ObjectTypes
  <2>3. QED
    BY <2>1, <2>2
<1>9. c \in CallRecords /\ c.step = "made" /\ c.engine = e /\ c.on = None
  BY <1>1, <1>2, <1>4 DEF CallRecords, InCall
<1> HIDE DEF e, f, c
<1>10. /\ g \in EngineFields /\ g.kind = f.kind /\ g.m_initialized = f.m_initialized
       /\ g.m_libCtx = f.m_libCtx /\ g.m_defaultProv = f.m_defaultProv
       /\ g.m_kaeProv = f.m_kaeProv /\ g.m_kaeLoaded = f.m_kaeLoaded
       /\ g.m_fallbackEngine = o
  BY <1>4, <1>8 DEF EngineFields
<1> HIDE DEF g
<1>11. \A d \in Engines : engine'[d] = IF d = e THEN g ELSE engine[d]
  BY <1>4, <1>6
<1>12. \A u \in Threads : call'[u] = IF u = t THEN c ELSE call[u]
  BY <1>4, <1>7
<1>13. careful => f.m_initialized /\ f.m_fallbackEngine = None
  BY <1>1, <1>2 DEF AloneInCall, f, e
<1>14. Shape(g)
  BY <1>3, <1>4, <1>10, <1>13 DEF Shape
<1>15. /\ HeldBy(g) \subseteq HeldBy(f) \cup {o}
       /\ HeldBy(f) \subseteq HeldBy(g) \cup {f.m_fallbackEngine}
       /\ o # None => o \in HeldBy(g)
       /\ None \notin HeldBy(g)
  BY <1>8, <1>10 DEF HeldBy
<1>16. HeldBy(f) \subseteq heap
  BY <1>1, <1>3 DEF Ownership, f
<1>17. Transfers(e, g, heap')
  <2>1. \A q \in HeldBy(f) : q \in HeldBy(g) \/ (q[1] = "software" /\ ~careful)
    <3>1. f.m_fallbackEngine # None => f.m_fallbackEngine[1] = "software"
      BY <1>4 DEF EngineFields, Pointer
    <3>2. None \notin HeldBy(f)
      BY DEF HeldBy
    <3>3. QED
      BY <1>13, <1>15, <3>1, <3>2
  <2>2. QED
    BY <1>5, <1>8, <1>15, <1>16, <2>1 DEF Transfers, f
<1>18. Ownership'
  BY <1>1, <1>2, <1>3, <1>4, <1>6, <1>17, TransferKeeps
<1>19. TypeOK'
  <2>1. call' \in [Threads -> CallRecords]
    BY <1>4, <1>7, <1>9
  <2>2. engine' \in [Engines -> EngineFields] /\ heap' \subseteq Objects
    BY <1>4, <1>5, <1>6, <1>8, <1>10
  <2>3. QED
    BY <1>1, <1>2, <2>1, <2>2 DEF TypeOK, CallRecords
<1>20. \A d \in Engines : Shape(engine[d])'
  BY <1>1, <1>2, <1>11, <1>14 DEF Shape
<1>21. ASSUME NEW u \in Threads
       PROVE  InCall(u)'
  <2>1. \A d \in Engines : engine'[d].kind = engine[d].kind
    BY <1>10, <1>11 DEF f
  <2>2. CASE u # t
    <3>1. call'[u] = call[u] /\ InCall(u)
      BY <1>1, <1>12, <2>2
    <3>2. ASSUME call[u].on # None
          PROVE  /\ call[u].on \in heap'
                 /\ \A d \in Engines : call[u].on \in HeldBy(engine'[d]) => d = call[u].engine
      <4>1. /\ call[u].on \in heap
            /\ \A d \in Engines : call[u].on \in HeldBy(engine[d]) => d = call[u].engine
        BY <3>1, <3>2 DEF InCall
      <4>2. call[u].on # o
        BY <1>8, <4>1
      <4>3. QED
        BY <1>5, <1>11, <1>15, <4>1, <4>2 DEF f
    <3>3. QED
      BY <2>1, <3>1, <3>2 DEF InCall, Alive
  <2>3. CASE u = t
    <3>1. call'[u] = c
      BY <1>12, <2>3
    <3>2. QED
      BY <1>3, <1>9, <2>1, <3>1 DEF InCall, Alive, f
  <2>4. QED
    BY <2>2, <2>3
<1>22. AloneInCall'
  <2> SUFFICES ASSUME careful
               PROVE  /\ \A u \in Threads : call'[u].step = "missing" =>
                           /\ engine'[call'[u].engine].m_initialized
                           /\ engine'[call'[u].engine].m_fallbackEngine = None
                      /\ \A u, v \in Threads :
                           call'[u].engine # None /\ call'[u].engine = call'[v].engine => u = v
    BY <1>2 DEF AloneInCall
  <2>1. \A u \in Threads : call'[u].engine = call[u].engine
    BY <1>9, <1>12 DEF e
  <2>2. \A u, v \in Threads : call[u].engine # None /\ call[u].engine = call[v].engine => u = v
    BY <1>1 DEF AloneInCall
  <2>3. ASSUME NEW u \in Threads, call'[u].step = "missing"
        PROVE  engine'[call'[u].engine] = engine[call[u].engine] /\ call[u].step = "missing"
    <3>1. u # t /\ call'[u] = call[u]
      BY <1>9, <1>12, <2>3
    <3>2. call[u].engine \in Engines /\ call[u].engine # None
      BY <1>1, <2>3, <3>1, EngineAssumption DEF InCall
    <3>3. call[u].engine # e
      BY <2>2, <3>1, <3>2 DEF e
    <3>4. QED
      BY <1>11, <2>3, <3>1, <3>2, <3>3
  <2>4. QED
    BY <1>1, <2>1, <2>2, <2>3 DEF AloneInCall
<1>23. evp' = {}
  BY <1>1, <1>2
<1>24. QED
  BY <1>18, <1>19, <1>20, <1>21, <1>22, <1>23 DEF EngineInv

\* A request that leaves nothing ends.
LEMMA FinishKeeps ==
    ASSUME EngineInv, NEW t \in Threads, NEW o, o.left = {}, Finish(t, o)
    PROVE  EngineInv'
<1>1. /\ TypeOK /\ Ownership /\ AloneInCall /\ evp = {}
      /\ \A d \in Engines : Shape(engine[d])
      /\ \A u \in Threads : InCall(u)
  BY DEF EngineInv
<1>2. call' = [call EXCEPT ![t] = Idle] /\ UNCHANGED <<careful, engine, heap>>
  BY DEF Finish
<1>3. evp' = {}
  <2>1. evp' = evp \cup (o.left \X {t})
    BY DEF Finish
  <2>2. {} \X {t} = {}
    OBVIOUS
  <2>3. QED
    BY <1>1, <2>1, <2>2
<1>4. call \in [Threads -> CallRecords]
  BY <1>1 DEF TypeOK, CallRecords
<1>5. /\ Idle \in CallRecords /\ Idle.step = "idle" /\ Idle.engine = None /\ Idle.on = None
  BY DEF Idle, CallRecords, Pointer
<1>6. \A u \in Threads : call'[u] = IF u = t THEN Idle ELSE call[u]
  BY <1>2, <1>4
<1>7. TypeOK'
  <2>1. call' \in [Threads -> CallRecords]
    BY <1>2, <1>4, <1>5
  <2>2. QED
    BY <1>1, <1>2, <1>3, <2>1 DEF TypeOK, CallRecords
<1>8. Ownership' /\ \A d \in Engines : Shape(engine[d])'
  BY <1>1, <1>2 DEF Ownership, Shape
<1>9. \A u \in Threads : InCall(u)'
  BY <1>1, <1>2, <1>5, <1>6 DEF InCall, Alive
<1>10. AloneInCall'
  BY <1>1, <1>2, <1>5, <1>6 DEF AloneInCall
<1>11. QED
  BY <1>3, <1>7, <1>8, <1>9, <1>10 DEF EngineInv

\* So does every request that computes.
LEMMA ComputeKeeps ==
    ASSUME EngineInv, NEW t \in Threads, NEW outcomes, \A o \in outcomes : o.left = {},
           Compute(t, outcomes)
    PROVE  EngineInv'
<1>1. PICK o \in outcomes : Finish(t, o)
  BY DEF Compute
<1>2. QED
  BY <1>1, FinishKeeps

-----------------------------------------------------------------------------
(* The invariant.                                                          *)

\* At the start there is nothing.
LEMMA InitEngine == Init => EngineInv
<1> SUFFICES ASSUME Init PROVE EngineInv
  OBVIOUS
<1>1. NoEngine \in EngineFields /\ HeldBy(NoEngine) = {} /\ Shape(NoEngine)
  BY NewEngine DEF NoEngine
<1>2. /\ Idle \in CallRecords /\ Idle.step = "idle" /\ Idle.engine = None /\ Idle.on = None
  BY DEF Idle, CallRecords, Pointer
<1>3. /\ \A e \in Engines : engine[e] = NoEngine
      /\ \A t \in Threads : call[t] = Idle
      /\ heap = {} /\ evp = {}
  BY DEF Init
<1>4. TypeOK
  BY <1>1, <1>2 DEF Init, TypeOK, CallRecords
<1>5. Ownership /\ \A e \in Engines : Shape(engine[e])
  BY <1>1, <1>3 DEF Ownership
<1>6. (\A t \in Threads : InCall(t)) /\ AloneInCall
  BY <1>2, <1>3 DEF InCall, AloneInCall
<1>7. QED
  BY <1>3, <1>4, <1>5, <1>6 DEF EngineInv

\* Every step keeps the invariant.
LEMMA NextEngine == EngineInv /\ [Next]_vars => EngineInv'
<1> SUFFICES ASSUME EngineInv, [Next]_vars PROVE EngineInv'
  OBVIOUS
<1>1. CASE \E e \in Engines : Create(e) \/ Initialize(e) \/ Finalize(e) \/ Delete(e)
  BY <1>1, CreateKeeps, InitializeKeeps, FinalizeKeeps
<1>2. CASE \E t \in Threads, e \in Engines : Request(t, e)
  BY <1>2, RequestKeeps
<1>3. ASSUME NEW t \in Threads,
             MakeFallback(t) \/ InitializeFallback(t) \/ ReturnFallback(t)
      PROVE  EngineInv'
  BY <1>3, MakeFallbackKeeps, FallbackRead
<1>4. ASSUME NEW t \in Threads, NEW outcomes, Compute(t, outcomes),
             \A o \in outcomes : o.left = {}
      PROVE  EngineInv'
  BY <1>4, ComputeKeeps
<1>5. ASSUME NEW t \in Threads,
             \/ EncryptAEAD(t) \/ DecryptAEAD(t)
             \/ ECDHKeyAgreement(t) \/ Hash(t) \/ HMAC(t) \/ HKDFExtract(t) \/ HKDFExpand(t)
             \/ RandomBytes(t) \/ Sign(t) \/ Verify(t) \/ ImportKey(t) \/ DestroyKey(t)
      PROVE  EngineInv'
  <2>1. CASE ECDHKeyAgreement(t)
    BY <1>4, <2>1, ComputeClean DEF ECDHKeyAgreement
  <2>2. CASE Hash(t)
    BY <1>4, <2>2, ComputeClean DEF Hash
  <2>3. CASE HMAC(t)
    BY <1>4, <2>3, ComputeClean DEF HMAC
  <2>4. CASE HKDFExtract(t)
    BY <1>4, <2>4, ComputeClean DEF HKDFExtract
  <2>5. CASE HKDFExpand(t)
    BY <1>4, <2>5, ComputeClean DEF HKDFExpand
  <2>6. CASE RandomBytes(t)
    BY <1>4, <2>6, ComputeClean DEF RandomBytes
  <2>7. CASE Sign(t) \/ Verify(t) \/ ImportKey(t) \/ DestroyKey(t)
    BY <1>4, <2>7, ComputeClean DEF Sign, Verify, ImportKey, DestroyKey
  <2>8. CASE EncryptAEAD(t)
    BY <1>4, <2>8, ComputeClean DEF EncryptAEAD
  <2>9. CASE DecryptAEAD(t)
    BY <1>4, <2>9, ComputeClean DEF DecryptAEAD
  <2>10. QED
    BY <1>5, <2>1, <2>2, <2>3, <2>4, <2>5, <2>6, <2>7, <2>8, <2>9
<1>6. CASE UNCHANGED vars
  BY <1>6 DEF vars, EngineInv, TypeOK, Shape, Ownership, InCall, Alive, AloneInCall
<1>7. QED
  BY <1>1, <1>2, <1>3, <1>5, <1>6 DEF Next

\* The invariant holds in every state.
LEMMA EngineInvariant == Spec => []EngineInv
BY InitEngine, NextEngine, PTL DEF Spec

-----------------------------------------------------------------------------
(* The theorems.                                                           *)

\* Engines, objects and requests always have their types.
THEOREM EngineTypeCorrect == Spec => []TypeOK
<1>1. EngineInv => TypeOK
  BY DEF EngineInv
<1>2. QED
  BY <1>1, EngineInvariant, PTL

\* No pointer of an engine, no software engine a request is in and no library
\* context of a provider has been freed, although GetFallbackEngine has no lock
\* and any number of threads may make the fallback engine at the same time.
THEOREM EnginesNeverUsedAfterFree == Spec => []NothingUsedAfterFree
<1>1. ASSUME EngineInv
      PROVE  NothingUsedAfterFree
  <2>1. \A e \in Engines : Held(e) \subseteq heap
    BY <1>1 DEF EngineInv, Ownership, HeldBy, Held
  <2>2. \A t \in Threads : call[t].on # None => call[t].on \in heap
    BY <1>1 DEF EngineInv, InCall
  <2>3. \A o \in heap : o[1] \in {"default", "kae"} => <<"lib", o[2]>> \in heap
    BY <1>1, ProviderHasLib
  <2>4. QED
    BY <2>1, <2>2, <2>3 DEF NothingUsedAfterFree
<1>2. QED
  BY <1>1, EngineInvariant, PTL

\* An engine says that it accelerates only while its KAE provider is loaded in
\* the library context it hands out, and that context has the default provider
\* too, after any sequence of Initialize, Finalize and partial failures.
THEOREM AccelerationAlwaysReal == Spec => []AccelerationIsReal
<1>1. ASSUME EngineInv
      PROVE  AccelerationIsReal
  <2> SUFFICES ASSUME NEW e \in Engines
               PROVE  /\ engine[e].m_kaeLoaded =>
                           /\ engine[e].m_libCtx # None
                           /\ <<"kae", engine[e].m_libCtx[2]>> \in heap
                      /\ engine[e].m_libCtx # None =>
                           /\ engine[e].m_initialized
                           /\ <<"default", engine[e].m_libCtx[2]>> \in heap
    BY DEF AccelerationIsReal
  <2> DEFINE f == engine[e]
  <2>1. f \in EngineFields /\ Shape(f) /\ HeldBy(f) \subseteq heap
    BY <1>1 DEF EngineInv, TypeOK, Ownership
  <2> HIDE DEF f
  <2>2. f.m_kaeLoaded => f.m_libCtx # None
    BY <2>1 DEF Shape
  <2>3. ASSUME f.m_libCtx # None
        PROVE  /\ f.m_initialized
               /\ <<"default", f.m_libCtx[2]>> \in heap
               /\ f.m_kaeLoaded => <<"kae", f.m_libCtx[2]>> \in heap
    <3>1. /\ f.m_initialized /\ f.m_defaultProv = <<"default", f.m_libCtx[2]>>
          /\ f.m_kaeLoaded => f.m_kaeProv = <<"kae", f.m_libCtx[2]>>
      BY <2>1, <2>3 DEF Shape
    <3>2. f.m_libCtx[2] \in 1..Copies
      BY <2>1, <2>3 DEF EngineFields, Pointer
    <3>3. /\ <<"default", f.m_libCtx[2]>> \in Objects
          /\ <<"kae", f.m_libCtx[2]>> \in Objects
      BY <3>2 DEF Objects, ObjectTypes
    <3>4. <<"default", f.m_libCtx[2]>> # None /\ <<"kae", f.m_libCtx[2]>> # None
      BY <3>3, NullAssumption
    <3>5. QED
      BY <2>1, <3>1, <3>4 DEF HeldBy
  <2>4. QED
    BY <2>2, <2>3 DEF f
<1>2. QED
  BY <1>1, EngineInvariant, PTL

\* Every library context and provider, and every fallback engine of a careful
\* application, belongs to exactly one engine, and no request leaves a temporary
\* object, wherever it fails.  So nothing is left when all engines are deleted.
THEOREM NothingLeftOutstanding == Spec => []NothingOutstanding
<1>1. ASSUME EngineInv
      PROVE  NothingOutstanding
  <2>1. \A e \in Engines : Held(e) = HeldBy(engine[e])
    BY DEF Held, HeldBy
  <2>2. /\ \A e, d \in Engines : e # d => HeldBy(engine[e]) \cap HeldBy(engine[d]) = {}
        /\ \A o \in heap : o[1] # "software" \/ careful =>
             \E e \in Engines : o \in HeldBy(engine[e])
        /\ evp = {}
    BY <1>1 DEF EngineInv, Ownership
  <2>3. QED
    BY <2>1, <2>2 DEF NothingOutstanding
<1>2. QED
  BY <1>1, EngineInvariant, PTL
=============================================================================

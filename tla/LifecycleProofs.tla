--------------------------- MODULE LifecycleProofs ---------------------------
(***************************************************************************)
(* Proofs about the reference counter of a policy context, for any number  *)
(* of threads and objects: nothing is used after it is freed, and the      *)
(* counter implements shared ownership.                                    *)
(*                                                                         *)
(* The heart is CounterCounts: the counter is the number of handles whose  *)
(* reference has not been dropped.  It survives the unlocked loop of       *)
(* SCF_FreePolicyCtx because every handle is dropped by one thread only.   *)
(***************************************************************************)
EXTENDS PolicyLifecycle, FiniteSetTheorems, TLAPS

-----------------------------------------------------------------------------
(* The inductive invariant, as a conjunction of its parts.                 *)

Types ==
    /\ g_scfInitialized \in BOOLEAN
    /\ handle \in [Handles -> {"none", "held", "passed"}]
    /\ ctxPtr \in BOOLEAN
    /\ ctxMem \in {"none", "live", "freed"}
    /\ objMem \in [Objs -> {"none", "live", "freed"}]
    /\ objCtx \in [Objs -> BOOLEAN]
    /\ pc \in [Threads -> {"idle", "load", "cas", "delete", "free obj"}]
    /\ arg \in [Threads -> Handles]
    /\ expected \in [Threads -> 0..Cardinality(Handles)]

\* The counter is the number of references.
CounterCounts == refCnt = Cardinality(Holders)

\* A handle in a free function was passed to it, by one thread.
OneThreadPerHandle ==
    /\ \A t \in Threads : pc[t] # "idle" => handle[arg[t]] = "passed"
    /\ \A t, u \in Threads : pc[t] # "idle" /\ pc[u] # "idle" /\ arg[t] = arg[u] => t = u

\* The context exists while somebody holds it, and nothing exists before it.
ContextHeld ==
    /\ Holders # {} => ctxMem = "live"
    /\ ctxMem = "none" <=> handle[Ctx] = "none"
    /\ handle[Ctx] = "none" => \A h \in Handles : handle[h] = "none"

\* The thread that deletes the context is alone: nobody holds a reference, and
\* nobody else deletes.
DeleterAlone ==
    \A t \in Threads : pc[t] = "delete" =>
        /\ Holders = {}
        /\ ctxMem = "live"
        /\ \A u \in Threads : pc[u] = "delete" => u = t

\* Objects exist until the second half of their free function.
ObjectsLive ==
    /\ \A o \in Objs : handle[o] = "held" => objMem[o] = "live" /\ objCtx[o]
    /\ \A t \in Threads : pc[t] # "idle" /\ arg[t] \in Objs => objMem[arg[t]] = "live"
    /\ \A t \in Threads : pc[t] = "free obj" => arg[t] \in Objs

LifecycleInv ==
    /\ Types
    /\ CounterCounts
    /\ OneThreadPerHandle
    /\ ContextHeld
    /\ DeleterAlone
    /\ ObjectsLive

-----------------------------------------------------------------------------
(* The references.                                                         *)

\* The handles, and so the references, are finitely many.
LEMMA HoldersFinite ==
    /\ IsFiniteSet(Handles)
    /\ Holders \subseteq Handles
    /\ IsFiniteSet(Holders)
    /\ Cardinality(Holders) \in 0..Cardinality(Handles)
<1>1. IsFiniteSet(Handles)
  BY HandleAssumption, FS_AddElement DEF Handles
<1>2. Holders \in SUBSET Handles
  BY DEF Holders
<1>3. IsFiniteSet(Holders) /\ Cardinality(Holders) <= Cardinality(Handles)
  BY <1>1, <1>2, FS_Subset
<1>4. Cardinality(Holders) \in Nat /\ Cardinality(Handles) \in Nat
  BY <1>1, <1>3, FS_CardinalityType
<1>5. QED
  BY <1>1, <1>2, <1>3, <1>4

\* Before the context is made there are no references and no calls.
LEMMA NothingBefore ==
    ASSUME LifecycleInv, handle[Ctx] = "none"
    PROVE  /\ Holders = {}
           /\ \A t \in Threads : pc[t] = "idle"
           /\ \A h \in Handles : handle[h] = "none"
<1>1. \A h \in Handles : handle[h] = "none"
  BY DEF LifecycleInv, ContextHeld
<1>2. \A t \in Threads : pc[t] = "idle"
  BY <1>1 DEF LifecycleInv, OneThreadPerHandle, Types
<1>3. QED
  BY <1>1, <1>2 DEF Holders

\* A thread in the loop of SCF_FreePolicyCtx has a reference, so that the
\* context is there, the counter is positive and nobody deletes.
LEMMA InLoop ==
    ASSUME LifecycleInv, NEW t \in Threads, pc[t] \in {"load", "cas"}
    PROVE  /\ arg[t] \in Holders
           /\ refCnt > 0
           /\ ctxMem = "live"
           /\ \A u \in Threads : pc[u] # "delete"
<1>1. arg[t] \in Holders
  BY DEF LifecycleInv, Types, Holders
<1>2. Cardinality(Holders) # 0 /\ Cardinality(Holders) \in Nat
  BY <1>1, HoldersFinite, FS_EmptySet, FS_CardinalityType
<1>3. QED
  BY <1>1, <1>2 DEF LifecycleInv, CounterCounts, ContextHeld, DeleterAlone

-----------------------------------------------------------------------------
(* The steps.                                                              *)

\* Nothing exists at first.
LEMMA InitLifecycle == Init => LifecycleInv
<1> SUFFICES ASSUME Init PROVE LifecycleInv
  OBVIOUS
<1>1. Holders = {}
  BY DEF Init, Holders
<1>2. Types
  <2>1. 0 \in 0..Cardinality(Handles)
    BY HoldersFinite, FS_CardinalityType
  <2>2. QED
    BY <2>1 DEF Init, Types, Handles
<1>3. CounterCounts
  BY <1>1, FS_EmptySet DEF Init, CounterCounts
<1>4. OneThreadPerHandle /\ DeleterAlone
  BY DEF Init, OneThreadPerHandle, DeleterAlone
<1>5. ContextHeld
  BY <1>1 DEF Init, ContextHeld, Handles
<1>6. ObjectsLive
  BY DEF Init, ObjectsLive, Handles
<1>7. QED
  BY <1>2, <1>3, <1>4, <1>5, <1>6 DEF LifecycleInv

\* SCF_CreatePolicyCtx makes the first reference.
LEMMA CreateCtxStep ==
    ASSUME LifecycleInv, CreatePolicyCtx
    PROVE  LifecycleInv' /\ Holders = {} /\ Holders' = {Ctx}
<1>1. /\ Holders = {}
      /\ \A t \in Threads : pc[t] = "idle"
      /\ \A h \in Handles : handle[h] = "none"
  BY NothingBefore DEF CreatePolicyCtx
<1>2. Ctx \in Handles /\ \A h \in Handles : h # Ctx => handle'[h] = "none"
  BY <1>1 DEF CreatePolicyCtx, Handles, LifecycleInv, Types
<1>3. Holders' = {Ctx}
  <2>1. \A t \in Threads : pc'[t] = "idle"
    BY <1>1 DEF CreatePolicyCtx, callVars
  <2>2. handle'[Ctx] = "held"
    BY <1>2 DEF CreatePolicyCtx, LifecycleInv, Types
  <2>3. QED
    BY <1>2, <2>1, <2>2 DEF Holders
<1>4. Types'
  BY <1>2 DEF CreatePolicyCtx, callVars, LifecycleInv, Types
<1>5. CounterCounts'
  BY <1>3, FS_Singleton DEF CreatePolicyCtx, CounterCounts
<1>6. OneThreadPerHandle' /\ DeleterAlone'
  BY <1>1 DEF CreatePolicyCtx, callVars, OneThreadPerHandle, DeleterAlone
<1>7. ContextHeld'
  BY <1>2 DEF CreatePolicyCtx, ContextHeld, LifecycleInv, Types
<1>8. ObjectsLive'
  BY <1>1, <1>2, HandleAssumption DEF CreatePolicyCtx, callVars, ObjectsLive, Handles
<1>9. QED
  BY <1>1, <1>3, <1>4, <1>5, <1>6, <1>7, <1>8 DEF LifecycleInv

\* SCF_CreatePolicyObj takes a reference for the object.
LEMMA CreateObjStep ==
    ASSUME LifecycleInv, NEW o \in Objs, CreatePolicyObj(o)
    PROVE  /\ LifecycleInv'
           /\ Ctx \in Holders
           /\ ctxMem = "live"
           /\ o \notin Holders
           /\ Holders' = Holders \cup {o}
<1>1. o \in Handles /\ Ctx \in Handles /\ o # Ctx
  BY HandleAssumption DEF Handles
<1>2. Ctx \in Holders
  BY <1>1 DEF CreatePolicyObj, Holders
<1>3. ctxMem = "live"
  BY <1>2 DEF LifecycleInv, ContextHeld
<1>4. o \notin Holders
  BY DEF CreatePolicyObj, Holders, LifecycleInv, OneThreadPerHandle
<1>5. Holders' = Holders \cup {o}
  <2>1. handle'[o] = "held" /\ \A h \in Handles : h # o => handle'[h] = handle[h]
    BY <1>1 DEF CreatePolicyObj, LifecycleInv, Types
  <2>2. pc' = pc /\ arg' = arg
    BY DEF CreatePolicyObj, callVars
  <2>3. QED
    BY <1>1, <2>1, <2>2 DEF Holders
<1>6. Types'
  BY DEF CreatePolicyObj, callVars, LifecycleInv, Types
<1>7. CounterCounts'
  <2>1. Cardinality(Holders \cup {o}) = Cardinality(Holders) + 1
    BY <1>4, HoldersFinite, FS_AddElement
  <2>2. QED
    BY <1>5, <2>1 DEF CreatePolicyObj, TakeReference, CounterCounts, LifecycleInv
<1>8. OneThreadPerHandle'
  BY DEF CreatePolicyObj, callVars, LifecycleInv, Types, OneThreadPerHandle
<1>9. ContextHeld'
  BY <1>1, <1>3 DEF CreatePolicyObj, ContextHeld, LifecycleInv, Types
<1>10. DeleterAlone'
  BY <1>2 DEF CreatePolicyObj, callVars, DeleterAlone, LifecycleInv
<1>11. ObjectsLive'
  <2>1. /\ handle'[o] = "held" /\ \A p \in Objs : p # o => handle'[p] = handle[p]
        /\ objMem'[o] = "live" /\ \A p \in Objs : p # o => objMem'[p] = objMem[p]
        /\ objCtx'[o] /\ \A p \in Objs : p # o => objCtx'[p] = objCtx[p]
        /\ pc' = pc /\ arg' = arg
    BY <1>1 DEF CreatePolicyObj, callVars, LifecycleInv, Types, Handles
  <2>2. QED
    BY <2>1 DEF ObjectsLive, LifecycleInv
<1>12. QED
  BY <1>2, <1>3, <1>4, <1>5, <1>6, <1>7, <1>8, <1>9, <1>10, <1>11 DEF LifecycleInv

\* A free function that does something turns a handle into a call.
LEMMA FreeEnterStep ==
    ASSUME LifecycleInv, NEW t \in Threads, NEW h \in Handles, FreeEnter(t, h)
    PROVE  LifecycleInv' /\ Holders' = Holders /\ ctxMem' = ctxMem
<1>1. CASE UNCHANGED vars
  BY <1>1 DEF vars, memVars, callVars, LifecycleInv, Types, CounterCounts, OneThreadPerHandle,
              ContextHeld, DeleterAlone, ObjectsLive, Holders
<1>2. CASE handle' = [handle EXCEPT ![h] = "passed"]
  <2>0. /\ pc[t] = "idle" /\ handle[h] = "held"
        /\ pc' = [pc EXCEPT ![t] = "load"]
        /\ arg' = [arg EXCEPT ![t] = h]
        /\ UNCHANGED <<g_scfInitialized, ctxPtr, memVars, expected>>
    BY <1>2 DEF FreeEnter, vars, callVars, LifecycleInv, Types
  <2>1. Holders' = Holders
    <3>1. /\ handle'[h] = "passed" /\ \A k \in Handles : k # h => handle'[k] = handle[k]
          /\ pc'[t] = "load" /\ \A u \in Threads : u # t => pc'[u] = pc[u]
          /\ arg'[t] = h /\ \A u \in Threads : u # t => arg'[u] = arg[u]
      BY <1>2, <2>0 DEF LifecycleInv, Types
    <3>2. ASSUME NEW k \in Handles PROVE k \in Holders' <=> k \in Holders
      <4>1. CASE k = h
        BY <2>0, <3>1, <4>1 DEF Holders
      <4>2. CASE k # h
        BY <2>0, <3>1, <4>2 DEF Holders
      <4>3. QED
        BY <4>1, <4>2
    <3>3. Holders' \subseteq Handles /\ Holders \subseteq Handles
      BY DEF Holders
    <3>4. QED
      BY <3>2, <3>3
  <2>2. Types'
    BY <1>2, <2>0 DEF LifecycleInv, Types, memVars
  <2>3. CounterCounts'
    BY <2>0, <2>1 DEF LifecycleInv, CounterCounts, memVars
  <2>4. OneThreadPerHandle'
    <3>1. /\ handle'[h] = "passed" /\ \A k \in Handles : k # h => handle'[k] = handle[k]
          /\ pc'[t] = "load" /\ \A u \in Threads : u # t => pc'[u] = pc[u]
          /\ arg'[t] = h /\ \A u \in Threads : u # t => arg'[u] = arg[u]
          /\ \A u \in Threads : arg[u] \in Handles
      BY <1>2, <2>0 DEF LifecycleInv, Types
    <3>2. \A u \in Threads : pc[u] # "idle" => arg[u] # h
      BY <2>0 DEF LifecycleInv, OneThreadPerHandle
    <3>3. QED
      BY <3>1, <3>2 DEF LifecycleInv, OneThreadPerHandle
  <2>5. ContextHeld'
    BY <1>2, <2>0, <2>1 DEF LifecycleInv, Types, ContextHeld, memVars, Handles
  <2>6. DeleterAlone'
    BY <2>0, <2>1 DEF LifecycleInv, Types, DeleterAlone, memVars
  <2>7. ObjectsLive'
    BY <1>2, <2>0 DEF LifecycleInv, Types, ObjectsLive, memVars, Handles
  <2>8. QED
    BY <2>0, <2>1, <2>2, <2>3, <2>4, <2>5, <2>6, <2>7 DEF LifecycleInv, memVars
<1>3. QED
  BY <1>1, <1>2 DEF FreeEnter

\* Loading the counter, at first or after a failed exchange, finds a positive
\* number and leaves everything else alone.
LEMMA ReadStep ==
    ASSUME LifecycleInv, NEW t \in Threads, LoadRefCnt(t) \/ CasFails(t)
    PROVE  LifecycleInv' /\ Holders' = Holders /\ ctxMem' = ctxMem
<1>1. pc[t] \in {"load", "cas"} /\ ReadRefCnt(t)
  BY DEF LoadRefCnt, CasFails
<1>2. refCnt > 0
  BY <1>1, InLoop
<1>3. /\ pc' = [pc EXCEPT ![t] = "cas"]
      /\ expected' = [expected EXCEPT ![t] = refCnt]
      /\ UNCHANGED <<g_scfInitialized, handle, ctxPtr, memVars, arg>>
  BY <1>1, <1>2 DEF ReadRefCnt
<1>4. Holders' = Holders
  BY <1>1, <1>3 DEF Holders, LifecycleInv, Types
<1>5. Types'
  <2>1. refCnt \in 0..Cardinality(Handles)
    BY HoldersFinite DEF LifecycleInv, CounterCounts
  <2>2. QED
    BY <1>3, <2>1 DEF LifecycleInv, Types, memVars
<1>6. CounterCounts'
  BY <1>3, <1>4 DEF LifecycleInv, CounterCounts, memVars
<1>7. OneThreadPerHandle'
  BY <1>1, <1>3 DEF LifecycleInv, Types, OneThreadPerHandle
<1>8. ContextHeld'
  BY <1>3, <1>4 DEF LifecycleInv, ContextHeld, memVars
<1>9. DeleterAlone'
  BY <1>3, <1>4 DEF LifecycleInv, Types, DeleterAlone, memVars
<1>10. ObjectsLive'
  BY <1>1, <1>3 DEF LifecycleInv, Types, ObjectsLive, memVars
<1>11. QED
  BY <1>3, <1>4, <1>5, <1>6, <1>7, <1>8, <1>9, <1>10 DEF LifecycleInv, memVars

\* A successful exchange drops the reference of one handle, and finds out
\* whether it was the last.
LEMMA CasStep ==
    ASSUME LifecycleInv, NEW t \in Threads, CasSucceeds(t)
    PROVE  /\ LifecycleInv'
           /\ arg[t] \in Holders
           /\ Holders' = Holders \ {arg[t]}
           /\ ctxMem' = ctxMem
<1>1. /\ arg[t] \in Holders /\ refCnt > 0 /\ ctxMem = "live"
      /\ \A u \in Threads : pc[u] # "delete"
  BY InLoop DEF CasSucceeds
<1>2. /\ pc[t] = "cas"
      /\ refCnt = expected[t] /\ refCnt' = refCnt - 1
      /\ pc' = [pc EXCEPT ![t] = IF refCnt <= 1 THEN "delete" ELSE AfterFreeCtx(t)]
      /\ UNCHANGED <<g_scfInitialized, handle, ctxPtr, ctxMem, objMem, objCtx, arg, expected>>
  BY DEF CasSucceeds, CounterIsExpected, DropsLast
<1>3. pc'[t] \in {"delete", "free obj", "idle"} /\ \A u \in Threads : u # t => pc'[u] = pc[u]
  BY <1>2 DEF LifecycleInv, Types, AfterFreeCtx
<1>4. Holders' = Holders \ {arg[t]}
  <2>1. handle[arg[t]] = "passed" /\ \A u \in Threads : u # t /\ arg[u] = arg[t] => pc[u] = "idle"
    BY <1>2 DEF LifecycleInv, OneThreadPerHandle
  <2>2. ASSUME NEW h \in Handles
        PROVE  h \in Holders' <=> h \in Holders /\ h # arg[t]
    BY <1>2, <1>3, <2>1 DEF Holders
  <2>3. Holders' \subseteq Handles /\ Holders \subseteq Handles
    BY DEF Holders
  <2>4. QED
    BY <2>2, <2>3
<1>5. refCnt \in Nat /\ Cardinality(Holders') = refCnt - 1
  BY <1>1, <1>4, HoldersFinite, FS_RemoveElement, FS_CardinalityType DEF LifecycleInv, CounterCounts
<1>6. Types'
  BY <1>2, <1>3 DEF LifecycleInv, Types, AfterFreeCtx
<1>7. CounterCounts'
  BY <1>2, <1>5 DEF CounterCounts
<1>8. OneThreadPerHandle'
  BY <1>2, <1>3 DEF LifecycleInv, Types, OneThreadPerHandle
<1>9. ContextHeld'
  BY <1>1, <1>2 DEF LifecycleInv, ContextHeld
<1>10. DeleterAlone'
  <2>1. ASSUME NEW u \in Threads, pc'[u] = "delete" PROVE u = t /\ Holders' = {}
    <3>1. u = t
      BY <1>1, <1>3, <2>1
    <3>2. refCnt <= 1
      BY <1>2, <2>1, <3>1 DEF LifecycleInv, Types, AfterFreeCtx
    <3>3. Cardinality(Holders') = 0 /\ IsFiniteSet(Holders')
      BY <1>1, <1>4, <1>5, <3>2, HoldersFinite, FS_RemoveElement
    <3>4. QED
      BY <3>1, <3>3, FS_EmptySet
  <2>2. QED
    BY <1>1, <1>2, <2>1 DEF DeleterAlone
<1>11. ObjectsLive'
  BY <1>2, <1>3 DEF LifecycleInv, Types, ObjectsLive, AfterFreeCtx
<1>12. QED
  BY <1>1, <1>2, <1>4, <1>6, <1>7, <1>8, <1>9, <1>10, <1>11 DEF LifecycleInv

\* The context is deleted when nobody has a reference.
LEMMA DeleteCtxStep ==
    ASSUME LifecycleInv, NEW t \in Threads, DeleteCtx(t)
    PROVE  /\ LifecycleInv'
           /\ ctxMem = "live" /\ ctxMem' = "freed"
           /\ Holders = {} /\ Holders' = {}
<1>1. /\ Holders = {} /\ ctxMem = "live"
      /\ \A u \in Threads : pc[u] = "delete" => u = t
      /\ pc[t] = "delete" /\ handle[arg[t]] = "passed"
  BY DEF DeleteCtx, LifecycleInv, DeleterAlone, OneThreadPerHandle
<1>2. /\ ctxMem' = "freed"
      /\ pc' = [pc EXCEPT ![t] = AfterFreeCtx(t)]
      /\ UNCHANGED <<g_scfInitialized, handle, refCnt, objMem, arg, expected>>
  BY DEF DeleteCtx
<1>3. pc'[t] \in {"free obj", "idle"} /\ \A u \in Threads : u # t => pc'[u] = pc[u]
  BY <1>2 DEF LifecycleInv, Types, AfterFreeCtx
<1>4. Holders' = {}
  BY <1>1, <1>2, <1>3 DEF Holders
<1>5. Types'
  <2>1. arg[t] # Ctx => arg[t] \in Objs
    BY DEF LifecycleInv, Types, Handles
  <2>2. ctxPtr' \in BOOLEAN /\ objCtx' \in [Objs -> BOOLEAN]
    BY <2>1 DEF DeleteCtx, LifecycleInv, Types
  <2>3. QED
    BY <1>2, <1>3, <2>2 DEF LifecycleInv, Types, AfterFreeCtx
<1>6. CounterCounts'
  BY <1>1, <1>2, <1>4 DEF LifecycleInv, CounterCounts
<1>7. OneThreadPerHandle'
  BY <1>1, <1>2, <1>3 DEF LifecycleInv, Types, OneThreadPerHandle
<1>8. ContextHeld'
  BY <1>1, <1>2, <1>4 DEF LifecycleInv, ContextHeld
<1>9. DeleterAlone'
  BY <1>1, <1>3 DEF DeleterAlone
<1>10. ObjectsLive'
  <2>1. \A o \in Objs : handle[o] # "held"
    BY <1>1 DEF Holders, Handles
  <2>2. QED
    BY <1>1, <1>2, <1>3, <2>1 DEF LifecycleInv, Types, ObjectsLive, AfterFreeCtx
<1>11. QED
  BY <1>1, <1>2, <1>4, <1>5, <1>6, <1>7, <1>8, <1>9, <1>10 DEF LifecycleInv

\* The memory of an object is deleted by the only thread that frees it.
LEMMA DeleteObjStep ==
    ASSUME LifecycleInv, NEW t \in Threads, DeleteObj(t)
    PROVE  LifecycleInv' /\ Holders' = Holders /\ ctxMem' = ctxMem
<1>1. /\ pc[t] = "free obj" /\ arg[t] \in Objs /\ handle[arg[t]] = "passed"
      /\ \A u \in Threads : pc[u] # "idle" /\ arg[u] = arg[t] => u = t
  BY DEF DeleteObj, LifecycleInv, ObjectsLive, OneThreadPerHandle
<1>2. /\ objMem' = [objMem EXCEPT ![arg[t]] = "freed"]
      /\ pc' = [pc EXCEPT ![t] = "idle"]
      /\ UNCHANGED <<g_scfInitialized, handle, ctxPtr, ctxMem, refCnt, objCtx, arg, expected>>
  BY DEF DeleteObj
<1>3. Holders' = Holders
  BY <1>1, <1>2 DEF Holders, LifecycleInv, Types
<1>4. Types'
  BY <1>2 DEF LifecycleInv, Types
<1>5. CounterCounts'
  BY <1>2, <1>3 DEF LifecycleInv, CounterCounts
<1>6. OneThreadPerHandle'
  BY <1>2 DEF LifecycleInv, Types, OneThreadPerHandle
<1>7. ContextHeld'
  BY <1>2, <1>3 DEF LifecycleInv, ContextHeld
<1>8. DeleterAlone'
  BY <1>2, <1>3 DEF LifecycleInv, Types, DeleterAlone
<1>9. ObjectsLive'
  BY <1>1, <1>2 DEF LifecycleInv, Types, ObjectsLive
<1>10. QED
  BY <1>2, <1>3, <1>4, <1>5, <1>6, <1>7, <1>8, <1>9 DEF LifecycleInv

\* SCF_Init, SCF_DeInit and stuttering leave all of this alone.
LEMMA OtherStep ==
    ASSUME LifecycleInv, SCF_Init \/ SCF_DeInit \/ UNCHANGED vars
    PROVE  LifecycleInv' /\ Holders' = Holders /\ ctxMem' = ctxMem
<1>1. UNCHANGED <<handle, ctxPtr, memVars, callVars>> /\ g_scfInitialized' \in BOOLEAN
  BY DEF SCF_Init, SCF_DeInit, vars, LifecycleInv, Types
<1>2. Holders' = Holders
  BY <1>1 DEF callVars, Holders
<1>3. QED
  BY <1>1, <1>2 DEF memVars, callVars, LifecycleInv, Types, CounterCounts, OneThreadPerHandle,
              ContextHeld, DeleterAlone, ObjectsLive

-----------------------------------------------------------------------------
(* The theorems.                                                           *)

\* The inductive invariant.
LEMMA LifecycleInvariance == Spec => []LifecycleInv
<1>1. LifecycleInv /\ [Next]_vars => LifecycleInv'
  BY CreateCtxStep, CreateObjStep, FreeEnterStep, ReadStep, CasStep, DeleteCtxStep, DeleteObjStep,
     OtherStep DEF Next, FreeStep
<1>2. QED
  BY InitLifecycle, <1>1, PTL DEF Spec

\* Every variable has its type; in particular the counter stays between 0 and
\* the number of handles: it is never decremented at 0.
THEOREM LifecycleTypeCorrect == Spec => []TypeOK
<1>1. LifecycleInv => TypeOK
  BY HoldersFinite DEF LifecycleInv, Types, CounterCounts, TypeOK
<1>2. QED
  BY <1>1, LifecycleInvariance, PTL

\* No thread touches a context or an object after it has been deleted, and
\* whoever has a handle has what it stands for, for any number of threads.
THEOREM NeverUsedAfterFree == Spec => []NoUseAfterFree
<1>1. ASSUME LifecycleInv PROVE NoUseAfterFree
  <2>1. \A t \in Threads : pc[t] \in {"load", "cas", "delete"} => ctxMem = "live"
    BY <1>1, InLoop DEF LifecycleInv, DeleterAlone
  <2>2. QED
    BY <1>1, <2>1 DEF NoUseAfterFree, LifecycleInv, ContextHeld, ObjectsLive
<1>2. QED
  BY <1>1, LifecycleInvariance, PTL

\* The counter, read and exchanged without a lock, implements shared ownership
\* as SharedContext states it: a context is deleted once, when the last holder
\* has let go, and never comes back.
THEOREM SharedOwnership == Spec => ImplementsShared
<1>1. Init => Shared!Init
  BY DEF Init, Holders, Shared!Init
<1>2. LifecycleInv /\ [Next]_vars => [Shared!Next]_<<ctxMem, Holders>>
  <2> SUFFICES ASSUME LifecycleInv, [Next]_vars
               PROVE  Shared!Next \/ (ctxMem' = ctxMem /\ Holders' = Holders)
    OBVIOUS
  <2>1. CASE CreatePolicyCtx
    <3>1. ctxMem = "none" /\ ctxMem' = "live"
      BY <2>1 DEF CreatePolicyCtx, LifecycleInv, ContextHeld
    <3>2. Shared!Create
      BY <2>1, <3>1, CreateCtxStep DEF Shared!Create
    <3>3. QED
      BY <3>2 DEF Shared!Next
  <2>2. ASSUME NEW o \in Objs, CreatePolicyObj(o) PROVE Shared!Next
    <3>1. Shared!Acquire(o)
      BY <2>2, CreateObjStep DEF Shared!Acquire, CreatePolicyObj
    <3>2. QED
      BY <3>1 DEF Shared!Next
  <2>3. ASSUME NEW t \in Threads, CasSucceeds(t) PROVE Shared!Next
    <3>1. Shared!Release(arg[t]) /\ arg[t] \in Handles
      BY <2>3, CasStep DEF Shared!Release, LifecycleInv, Types
    <3>2. QED
      BY <3>1 DEF Shared!Next, Handles
  <2>4. ASSUME NEW t \in Threads, DeleteCtx(t) PROVE Shared!Next
    <3>1. Shared!Reclaim
      BY <2>4, DeleteCtxStep DEF Shared!Reclaim
    <3>2. QED
      BY <3>1 DEF Shared!Next
  <2>5. QED
    BY <2>1, <2>2, <2>3, <2>4, FreeEnterStep, ReadStep, DeleteObjStep, OtherStep DEF Next, FreeStep
<1>3. QED
  BY <1>1, <1>2, LifecycleInvariance, PTL DEF Spec, ImplementsShared, Shared!Spec, Shared!svars
=============================================================================

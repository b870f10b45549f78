-------------------------- MODULE PolicyLifecycle --------------------------
(***************************************************************************)
(* The life of a policy context and of the policy objects made from it,    *)
(* across SCF_Init and SCF_DeInit (scf/policy/policy.cpp,                  *)
(* scf/connection/obj.cpp, adaptor/tls_init.cpp).                          *)
(*                                                                         *)
(* Threads free handles at the same time.  SCF_FreePolicyCtx is modelled   *)
(* step by step, because its counter is read, compared and exchanged       *)
(* without a lock; it is also the first half of SCF_FreePolicyObj.         *)
(* g_isTlsInit and g_adaptor change together with g_scfInitialized inside  *)
(* the sections of g_scfMutex, and stand in the model for one variable.    *)
(*                                                                         *)
(* The application keeps to the interface: it passes a handle to its free  *)
(* function once while the library is initialised, makes objects only from *)
(* a context it has not passed on, and calls SCF_DeInit between calls.     *)
(***************************************************************************)
EXTENDS Integers, FiniteSets

CONSTANTS
    Threads,
    Objs,       \* the policy objects that can be made from the context
    Ctx         \* the application's own handle on the context

ASSUME HandleAssumption == Ctx \notin Objs /\ IsFiniteSet(Objs)

Handles == Objs \cup {Ctx}

VARIABLES
    g_scfInitialized,
    handle,     \* per handle: "none", "held" by the application, or "passed"
                \*   to its free function
    ctxPtr,     \* is the application's pointer to the context not null
    ctxMem,     \* the memory of the context: "none", "live" or "freed"
    refCnt,
    objMem,     \* the memory of each object
    objCtx,     \* is policyCtx of the object not null
    pc,         \* where each thread is in a free function
    arg,        \* the handle it frees
    expected    \* the local variable of its compare-and-exchange loop

memVars  == <<ctxMem, refCnt, objMem, objCtx>>
callVars == <<pc, arg, expected>>
vars == <<g_scfInitialized, handle, ctxPtr, memVars, callVars>>

Idle == \A t \in Threads : pc[t] = "idle"

-----------------------------------------------------------------------------
Init ==
    /\ g_scfInitialized = FALSE
    /\ handle = [h \in Handles |-> "none"]
    /\ ctxPtr = FALSE
    /\ ctxMem = "none"
    /\ refCnt = 0
    /\ objMem = [o \in Objs |-> "none"]
    /\ objCtx = [o \in Objs |-> FALSE]
    /\ pc = [t \in Threads |-> "idle"]
    /\ arg = [t \in Threads |-> Ctx]
    /\ expected = [t \in Threads |-> 0]

\* A bad flag or a library that does not load leaves it uninitialised.
SCF_Init ==
    /\ \/ g_scfInitialized' = TRUE
       \/ UNCHANGED g_scfInitialized
    /\ UNCHANGED <<handle, ctxPtr, memVars, callVars>>

SCF_DeInit ==
    /\ Idle
    /\ g_scfInitialized' = FALSE
    /\ UNCHANGED <<handle, ctxPtr, memVars, callVars>>

CreatePolicyCtx ==
    /\ g_scfInitialized
    /\ handle[Ctx] = "none"
    /\ handle' = [handle EXCEPT ![Ctx] = "held"]
    /\ ctxPtr' = TRUE
    /\ ctxMem' = "live"
    /\ refCnt' = 1
    /\ UNCHANGED <<g_scfInitialized, objMem, objCtx, callVars>>

\* Mutants: no reference is taken, or two.
TakeNoReference == UNCHANGED refCnt
TakeTwoReferences == refCnt' = refCnt + 2

TakeReference == refCnt' = refCnt + 1

CreatePolicyObj(o) ==
    /\ g_scfInitialized
    /\ handle[Ctx] = "held"
    /\ handle[o] = "none"
    /\ handle' = [handle EXCEPT ![o] = "held"]
    /\ objMem' = [objMem EXCEPT ![o] = "live"]
    /\ objCtx' = [objCtx EXCEPT ![o] = TRUE]
    /\ TakeReference
    /\ UNCHANGED <<g_scfInitialized, ctxPtr, ctxMem, callVars>>

-----------------------------------------------------------------------------
(* SCF_FreePolicyCtx, called for a context handle or by SCF_FreePolicyObj. *)

\* Both functions return without doing anything before SCF_Init and after
\* SCF_DeInit; the application keeps the handle.
FreeEnter(t, h) ==
    /\ pc[t] = "idle"
    /\ handle[h] = "held"
    /\ \/ /\ ~g_scfInitialized
          /\ UNCHANGED vars
       \/ /\ g_scfInitialized
          /\ handle' = [handle EXCEPT ![h] = "passed"]
          /\ pc' = [pc EXCEPT ![t] = "load"]
          /\ arg' = [arg EXCEPT ![t] = h]
          /\ UNCHANGED <<g_scfInitialized, ctxPtr, memVars, expected>>

\* Where the call goes on when SCF_FreePolicyCtx returns.
AfterFreeCtx(t) == IF arg[t] \in Objs THEN "free obj" ELSE "idle"

\* The counter is loaded into expected; at 0 the loop is left and the error
\* "potential double free" is logged.
ReadRefCnt(t) ==
    /\ expected' = [expected EXCEPT ![t] = refCnt]
    /\ pc' = [pc EXCEPT ![t] = IF refCnt > 0 THEN "cas" ELSE AfterFreeCtx(t)]
    /\ UNCHANGED <<g_scfInitialized, handle, ctxPtr, memVars, arg>>

LoadRefCnt(t) == pc[t] = "load" /\ ReadRefCnt(t)

\* compare_exchange_weak fails when the counter has changed, and may also
\* fail when it has not.
CasFails(t) == pc[t] = "cas" /\ ReadRefCnt(t)

\* Mutant: a plain store in place of the compare-and-exchange.
CounterIsAnything(t) == TRUE

CounterIsExpected(t) == refCnt = expected[t]

\* Mutant: the last but one deletes the context.
DropsLastButOne(t) == expected[t] <= 2

DropsLast(t) == expected[t] <= 1

CasSucceeds(t) ==
    /\ pc[t] = "cas"
    /\ CounterIsExpected(t)
    /\ refCnt' = expected[t] - 1
    /\ pc' = [pc EXCEPT ![t] = IF DropsLast(t) THEN "delete" ELSE AfterFreeCtx(t)]
    /\ UNCHANGED <<g_scfInitialized, handle, ctxPtr, ctxMem, objMem, objCtx, arg, expected>>

\* FreeSsl, delete *ctx, *ctx = nullptr.
DeleteCtx(t) ==
    /\ pc[t] = "delete"
    /\ ctxMem' = "freed"
    /\ \/ /\ arg[t] = Ctx
          /\ ctxPtr' = FALSE
          /\ UNCHANGED objCtx
       \/ /\ arg[t] # Ctx
          /\ objCtx' = [objCtx EXCEPT ![arg[t]] = FALSE]
          /\ UNCHANGED ctxPtr
    /\ pc' = [pc EXCEPT ![t] = AfterFreeCtx(t)]
    /\ UNCHANGED <<g_scfInitialized, handle, refCnt, objMem, arg, expected>>

\* The second half of SCF_FreePolicyObj: FreeSslObj, delete *obj.
DeleteObj(t) ==
    /\ pc[t] = "free obj"
    /\ objMem' = [objMem EXCEPT ![arg[t]] = "freed"]
    /\ pc' = [pc EXCEPT ![t] = "idle"]
    /\ UNCHANGED <<g_scfInitialized, handle, ctxPtr, ctxMem, refCnt, objCtx, arg, expected>>

-----------------------------------------------------------------------------
FreeStep(t) ==
    \/ LoadRefCnt(t)
    \/ CasSucceeds(t)
    \/ CasFails(t)
    \/ DeleteCtx(t)
    \/ DeleteObj(t)

Next ==
    \/ SCF_Init
    \/ SCF_DeInit
    \/ CreatePolicyCtx
    \/ \E o \in Objs : CreatePolicyObj(o)
    \/ \E t \in Threads, h \in Handles : FreeEnter(t, h)
    \/ \E t \in Threads : FreeStep(t)

Spec == Init /\ [][Next]_vars

\* A thread inside a free function is scheduled, and compare_exchange_weak
\* does not fail spuriously for ever.
FreeFairness ==
    \A t \in Threads : WF_vars(FreeStep(t)) /\ SF_vars(CasSucceeds(t))

FairSpec == Spec /\ FreeFairness

-----------------------------------------------------------------------------
(* Properties.                                                             *)

\* Every variable has its type.
TypeOK ==
    /\ g_scfInitialized \in BOOLEAN
    /\ handle \in [Handles -> {"none", "held", "passed"}]
    /\ ctxPtr \in BOOLEAN
    /\ ctxMem \in {"none", "live", "freed"}
    /\ refCnt \in 0..Cardinality(Handles)
    /\ objMem \in [Objs -> {"none", "live", "freed"}]
    /\ objCtx \in [Objs -> BOOLEAN]
    /\ pc \in [Threads -> {"idle", "load", "cas", "delete", "free obj"}]
    /\ arg \in [Threads -> Handles]
    /\ expected \in [Threads -> 0..Cardinality(Handles)]

\* The handles whose reference has not been dropped: the ones the application
\* has, and the ones a thread is about to drop.
Holders ==
    {h \in Handles :
        \/ handle[h] = "held"
        \/ \E t \in Threads : arg[t] = h /\ pc[t] \in {"load", "cas"}}

\* No thread reads or deletes a context or an object that has been deleted,
\* and whoever still has an object has its context too, however many threads
\* free handles at once.
NoUseAfterFree ==
    /\ \A t \in Threads :
         /\ pc[t] \in {"load", "cas", "delete"} => ctxMem = "live"
         /\ pc[t] # "idle" /\ arg[t] \in Objs => objMem[arg[t]] = "live"
    /\ \A h \in Holders : ctxMem = "live"
    /\ \A o \in Objs : handle[o] = "held" => objMem[o] = "live" /\ objCtx[o]

\* The counters and flags implement shared ownership of the context.
Shared == INSTANCE SharedContext WITH Owner <- Ctx, state <- ctxMem, holders <- Holders

ImplementsShared == Shared!Spec

\* When the context and every object made from it have been passed to their
\* free functions, the memory of all of them is eventually freed, and every
\* free function returns.
NothingLeaks ==
    /\ (handle[Ctx] = "passed" /\ \A o \in Objs : handle[o] # "held") ~>
          (ctxMem = "freed" /\ \A o \in Objs : objMem[o] # "live")
    /\ \A t \in Threads : pc[t] # "idle" ~> pc[t] = "idle"
=============================================================================

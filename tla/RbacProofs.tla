----------------------------- MODULE RbacProofs -----------------------------
(***************************************************************************)
(* Proofs about Rbac, for every set of threads, connections, node ids and  *)
(* inputs, and for every limit.                                            *)
(***************************************************************************)
EXTENDS Rbac, FiniteSetTheorems, TLAPS

\* Rule ids are handed out in increasing order and those of the map are among
\* the ones handed out.  This is what RuleIdsNeverReused rests on.
IdsIncrease ==
    /\ DOMAIN policyRuleMap \subseteq issued
    /\ nextPolicyRuleId # 0 => \A id \in issued : id < nextPolicyRuleId

\* A thread is in the matching loop exactly while it owns policyRuleMutex.
MutexHeldInLoop ==
    \A t \in Threads : pc[t] = "match" <=> policyRuleMutex = t

\* What a thread in a call knows of its caller.
CallerKnown ==
    \A t \in Threads :
        /\ pc[t] # "idle" => arg[t] \in CheckArg
        /\ pc[t] \in {"lock", "match"} =>
             /\ local[t].nodeId \in NodeIds
             /\ local[t].nodeId = arg[t].cert.nodeId
             /\ local[t].role \in Roles

\* The role a thread has read is still the role of its node when it was read
\* from the certificate or from the frozen mapping.
RoleStillValid ==
    \A t \in Threads :
        pc[t] \in {"lock", "match"} /\ local[t].fixed =>
            \/ /\ arg[t].cert.role \in Roles
               /\ local[t].role = arg[t].cert.role
            \/ /\ arg[t].cert.role \notin Roles
               /\ nodeRoleMapFrozen
               /\ local[t].role = nodeRoleMap[arg[t].cert.nodeId]

\* The ids the loop has passed.
Visited(t) == {i \in DOMAIN policyRuleMap : i <= scan[t].cursor}

\* The loop invariant of MatchPolicyRule: the verdict of the visited rules.
LoopInvariant ==
    \A t \in Threads : pc[t] = "match" =>
        IsVerdict(policyRuleMap, Visited(t), Request(t),
                  scan[t].highestPriority, scan[t].effect)

EstablishedFreezes ==
    (\E c \in Conns : conn[c] = "established") => nodeRoleMapFrozen

\* The inductive invariant.
RbacInv ==
    /\ TypeOK
    /\ RuleKeysUnique
    /\ IdsIncrease
    /\ MutexHeldInLoop
    /\ CallerKnown
    /\ RoleStillValid
    /\ LoopInvariant
    /\ EstablishedFreezes

-----------------------------------------------------------------------------
\* A priority is between 1 and 4: one and the number of exact fields.
LEMMA PriorityRange ==
    ASSUME NEW rule, NEW request
    PROVE  GetMatchPriority(rule, request) \in 1..4
BY DEF GetMatchPriority, One

\* One iteration of the loop keeps the verdict: replacing the best match by
\* ShouldReplaceMatch is right whatever the rule and the best match so far.
LEMMA VerdictExtends ==
    ASSUME NEW rules, NEW ids, NEW id, id \notin ids, NEW request,
           NEW priority \in 0..4, NEW effect \in Effects,
           rules[id].effect \in Effects,
           IsVerdict(rules, ids, request, priority, effect)
    PROVE  LET p == GetMatchPriority(rules[id], request)
           IN  IF /\ IsRuleMatched(rules[id], request)
                  /\ ShouldReplaceMatch(p, rules[id].effect, priority)
               THEN IsVerdict(rules, ids \cup {id}, request, p, rules[id].effect)
               ELSE IsVerdict(rules, ids \cup {id}, request, priority, effect)
<1> DEFINE Prio(i) == GetMatchPriority(rules[i], request)
           M == {i \in ids : IsRuleMatched(rules[i], request)}
           M2 == {i \in ids \cup {id} : IsRuleMatched(rules[i], request)}
<1>1. \A i : Prio(i) \in 1..4
  BY PriorityRange
<1>2. CASE ~IsRuleMatched(rules[id], request)
  <2>1. M2 = M
    BY <1>2
  <2> QED
    BY <1>2, <2>1 DEF IsVerdict
<1>3. CASE IsRuleMatched(rules[id], request)
  <2>1. M2 = M \cup {id}
    BY <1>3
  <2>2. CASE ShouldReplaceMatch(Prio(id), rules[id].effect, priority)
    <3>1. IsVerdict(rules, ids \cup {id}, request, Prio(id), rules[id].effect)
      BY <1>1, <2>1, <2>2 DEF IsVerdict, ShouldReplaceMatch, Effects
    <3> QED
      BY <1>3, <2>2, <3>1
  <2>3. CASE ~ShouldReplaceMatch(Prio(id), rules[id].effect, priority)
    <3>1. priority # 0
      BY <1>1, <2>3 DEF ShouldReplaceMatch
    <3>2. IsVerdict(rules, ids \cup {id}, request, priority, effect)
      BY <1>1, <2>1, <2>3, <3>1 DEF IsVerdict, ShouldReplaceMatch, Effects
    <3> QED
      BY <1>3, <2>3, <3>2
  <2> QED
    BY <2>2, <2>3
<1> QED
  BY <1>2, <1>3

-----------------------------------------------------------------------------
\* A new policy context satisfies the inductive invariant.
LEMMA InitEstablishes == Init => RbacInv
<1> SUFFICES ASSUME Init PROVE RbacInv
  OBVIOUS
<1>1. DOMAIN nodeRoleMap = {} /\ DOMAIN policyRuleMap = {}
  BY DEF Init
<1>2. /\ nodeRoleMap \in [DOMAIN nodeRoleMap -> Roles]
      /\ policyRuleMap \in [DOMAIN policyRuleMap -> PolicyRule]
  BY DEF Init
<1>3. /\ local \in [Threads -> [nodeId : NodeIds \cup {Wildcard},
                                role : Roles \cup {"unknown"}, fixed : BOOLEAN]]
      /\ scan \in [Threads -> [cursor : 0..MaxRuleId, highestPriority : 0..4,
                               effect : Effects]]
  BY RbacAssumption DEF Init, NoLocal, NoScan, Effects
<1>4. /\ conn \in [Conns -> {"handshaking", "handshaken", "established"}]
      /\ pc \in [Threads -> {"idle", "resolve", "lock", "match"}]
      /\ arg \in [Threads -> CheckArg \cup {NoArg}]
  BY DEF Init
<1>5. nextPolicyRuleId \in 0..MaxRuleId
  BY RbacAssumption DEF Init
<1>6. TypeOK
  <2>1. policyRuleMutex \in Threads \cup {NoThread} /\ issued \subseteq 1..MaxRuleId
    BY DEF Init
  <2>2. nodeRoleMapFrozen \in BOOLEAN /\ rbacEnabled \in BOOLEAN
    BY DEF Init
  <2>3. DOMAIN nodeRoleMap \subseteq NodeIds /\ DOMAIN policyRuleMap \subseteq 1..MaxRuleId
    BY <1>1
  <2> QED
    BY <1>2, <1>3, <1>4, <1>5, <2>1, <2>2, <2>3 DEF TypeOK
<1> QED
  BY <1>1, <1>6, RbacAssumption
     DEF Init, RbacInv, RuleKeysUnique, IdsIncrease, MutexHeldInLoop, CallerKnown,
         RoleStillValid, LoopInvariant, EstablishedFreezes

\* A call that is refused changes nothing.
LEMMA StutterKeeps == ASSUME RbacInv, UNCHANGED vars PROVE RbacInv'
BY DEF RbacInv, TypeOK, vars, mapVars, ruleVars, callVars, RuleKeysUnique,
   IdsIncrease, MutexHeldInLoop, CallerKnown, RoleStillValid, LoopInvariant,
   Visited, Request, EstablishedFreezes

\* A step that leaves the rules and the threads alone leaves alone what the
\* invariant says of them.
LEMMA CallsUntouched ==
    ASSUME RbacInv, UNCHANGED <<ruleVars, policyRuleMutex, callVars>>
    PROVE  /\ RuleKeysUnique' /\ IdsIncrease' /\ MutexHeldInLoop'
           /\ CallerKnown' /\ LoopInvariant'
BY DEF RbacInv, RuleKeysUnique, IdsIncrease, MutexHeldInLoop, CallerKnown,
       LoopInvariant, Visited, Request, ruleVars, callVars

\* SCF_SetNodeRoleMapping and SCF_RemoveNodeRoleMapping keep the invariant.
LEMMA MappingSteps ==
    ASSUME RbacInv, NEW id \in RawId, NEW role \in Roles,
           SetNodeRoleMapping(id, role) \/ RemoveNodeRoleMapping(id)
    PROVE  RbacInv'
<1>1. CASE UNCHANGED vars
  BY <1>1, StutterKeeps
<1>2. CASE /\ ~nodeRoleMapFrozen
           /\ id \in NodeIds
           /\ \/ nodeRoleMap' = Put(nodeRoleMap, id, role)
              \/ nodeRoleMap' = Restrict(nodeRoleMap, DOMAIN nodeRoleMap \ {id})
           /\ UNCHANGED <<nodeRoleMapFrozen, ruleVars, rbacEnabled,
                          policyRuleMutex, conn, callVars>>
  <2>1. TypeOK'
    BY <1>2 DEF RbacInv, TypeOK, Put, Restrict, ruleVars, callVars
  <2>2. RoleStillValid'
    BY <1>2 DEF RbacInv, RoleStillValid, callVars
  <2>3. EstablishedFreezes'
    BY <1>2 DEF RbacInv, EstablishedFreezes
  <2> QED
    BY <1>2, <2>1, <2>2, <2>3, CallsUntouched DEF RbacInv
<1> QED
  BY <1>1, <1>2 DEF SetNodeRoleMapping, RemoveNodeRoleMapping, Refuse, IsValidNodeId

\* The two halves of SCF_Connect / SCF_Accept keep the invariant.
LEMMA ConnSteps ==
    ASSUME RbacInv, NEW c \in Conns, HandshakeDone(c) \/ FreezeNodeRoleMapping(c)
    PROVE  RbacInv'
<1> USE DEF HandshakeDone, FreezeNodeRoleMapping, mapVars
<1>1. TypeOK'
  BY DEF RbacInv, TypeOK, ruleVars, callVars
<1>2. RoleStillValid'
  BY DEF RbacInv, RoleStillValid, callVars
<1>3. EstablishedFreezes'
  BY DEF RbacInv, EstablishedFreezes, TypeOK
<1> QED
  BY <1>1, <1>2, <1>3, CallsUntouched DEF RbacInv

\* SCF_EnableRbac keeps the invariant.
LEMMA EnableStep ==
    ASSUME RbacInv, NEW enable \in BOOLEAN, EnableRbac(enable)
    PROVE  RbacInv'
<1> USE DEF EnableRbac, mapVars
<1>1. TypeOK'
  BY DEF RbacInv, TypeOK, ruleVars, callVars
<1>2. RoleStillValid' /\ EstablishedFreezes'
  BY DEF RbacInv, RoleStillValid, EstablishedFreezes, callVars
<1> QED
  BY <1>1, <1>2, CallsUntouched DEF RbacInv

\* With the mutex free no thread is in the loop, and rules may come and go.
LEMMA FreeMutex ==
    ASSUME RbacInv, policyRuleMutex = NoThread,
           UNCHANGED <<mapVars, rbacEnabled, policyRuleMutex, conn, callVars>>
    PROVE  /\ MutexHeldInLoop' /\ CallerKnown' /\ RoleStillValid'
           /\ LoopInvariant' /\ EstablishedFreezes'
<1>1. \A t \in Threads : pc'[t] # "match"
  BY RbacAssumption DEF RbacInv, MutexHeldInLoop, callVars
<1> QED
  BY <1>1 DEF RbacInv, MutexHeldInLoop, CallerKnown, RoleStillValid,
     LoopInvariant, EstablishedFreezes, callVars, mapVars

\* SCF_AddPolicyRule keeps the invariant.
LEMMA AddStep ==
    ASSUME RbacInv, NEW rule \in RuleInputs, AddPolicyRule(rule)
    PROVE  RbacInv'
<1>1. CASE UNCHANGED vars
  BY <1>1, StutterKeeps
<1>2. CASE /\ IsValidRule(rule)
           /\ policyRuleMutex = NoThread
           /\ ~HasRuleWithKeyOf(rule)
           /\ ~NoRoomForRule
           /\ policyRuleMap' = Put(policyRuleMap, nextPolicyRuleId, rule)
           /\ nextPolicyRuleId' = NextRuleId(nextPolicyRuleId)
           /\ issued' = issued \cup {nextPolicyRuleId}
           /\ UNCHANGED <<mapVars, rbacEnabled, policyRuleMutex, conn, callVars>>
  <2>1. nextPolicyRuleId \in 1..MaxRuleId
    BY <1>2, RbacAssumption DEF RbacInv, TypeOK, NoRoomForRule
  <2>2. nextPolicyRuleId' \in 0..MaxRuleId
    BY <1>2, <2>1, RbacAssumption DEF NextRuleId
  <2>3. rule \in PolicyRule
    BY <1>2, InputAssumption, NodeIdAssumption
       DEF IsValidRule, IsValidNodeId, PolicyRule, RawId
  <2>4. TypeOK'
    BY <1>2, <2>1, <2>2, <2>3 DEF RbacInv, TypeOK, Put, mapVars, callVars
  <2>5. RuleKeysUnique'
    BY <1>2 DEF RbacInv, RuleKeysUnique, HasRuleWithKeyOf, IsSamePolicyRuleKey, Put
  <2>6. IdsIncrease'
    BY <1>2, <2>1, RbacAssumption DEF RbacInv, IdsIncrease, Put, NextRuleId, TypeOK
  <2> QED
    BY <1>2, FreeMutex, <2>4, <2>5, <2>6 DEF RbacInv
<1> QED
  BY <1>1, <1>2 DEF AddPolicyRule, InsertPolicyRule, Refuse

\* SCF_RemovePolicyRule keeps the invariant.
LEMMA RemoveStep ==
    ASSUME RbacInv, NEW id \in 0..MaxRuleId, RemovePolicyRule(id)
    PROVE  RbacInv'
<1>1. CASE UNCHANGED vars
  BY <1>1, StutterKeeps
<1>2. CASE /\ policyRuleMutex = NoThread
           /\ id \in DOMAIN policyRuleMap
           /\ policyRuleMap' = Restrict(policyRuleMap, DOMAIN policyRuleMap \ {id})
           /\ UNCHANGED <<mapVars, nextPolicyRuleId, issued, rbacEnabled,
                          policyRuleMutex, conn, callVars>>
  <2>1. TypeOK'
    BY <1>2 DEF RbacInv, TypeOK, Restrict, mapVars, callVars
  <2>2. RuleKeysUnique'
    BY <1>2 DEF RbacInv, RuleKeysUnique, Restrict
  <2>3. IdsIncrease'
    BY <1>2 DEF RbacInv, IdsIncrease, Restrict
  <2> QED
    BY <1>2, FreeMutex, <2>1, <2>2, <2>3 DEF RbacInv
<1> QED
  BY <1>1, <1>2 DEF RemovePolicyRule, Refuse

-----------------------------------------------------------------------------
\* The steps of SCF_CheckResourcePermission leave the context alone.
LEMMA ContextUntouched ==
    ASSUME RbacInv, UNCHANGED <<mapVars, ruleVars, conn>>
    PROVE  RuleKeysUnique' /\ IdsIncrease' /\ EstablishedFreezes'
BY DEF RbacInv, RuleKeysUnique, IdsIncrease, EstablishedFreezes, mapVars, ruleVars

\* A thread that leaves its call keeps everybody else's call as it was.
LEMMA LeaveStep ==
    ASSUME RbacInv, NEW t \in Threads, NEW code, Leave(t, code),
           UNCHANGED <<mapVars, ruleVars, rbacEnabled, conn>>,
           \/ pc[t] # "match" /\ UNCHANGED policyRuleMutex
           \/ pc[t] = "match" /\ policyRuleMutex' = NoThread
    PROVE  RbacInv'
<1> USE DEF Leave
<1>1. TypeOK'
  <2>1. NoLocal \in [nodeId : NodeIds \cup {Wildcard},
                     role : Roles \cup {"unknown"}, fixed : BOOLEAN]
    BY DEF NoLocal
  <2>2. NoScan \in [cursor : 0..MaxRuleId, highestPriority : 0..4, effect : Effects]
    BY RbacAssumption DEF NoScan, Effects
  <2> QED
    BY <2>1, <2>2 DEF RbacInv, TypeOK, mapVars, ruleVars
<1>2. MutexHeldInLoop'
  BY RbacAssumption DEF RbacInv, MutexHeldInLoop, TypeOK
<1>3. CallerKnown' /\ RoleStillValid'
  BY DEF RbacInv, CallerKnown, RoleStillValid, TypeOK, mapVars
<1>4. LoopInvariant'
  BY DEF RbacInv, LoopInvariant, TypeOK, Visited, Request, ruleVars
<1> QED
  BY <1>1, <1>2, <1>3, <1>4, ContextUntouched DEF RbacInv

\* The entry of SCF_CheckResourcePermission keeps the invariant.
LEMMA EnterStep ==
    ASSUME RbacInv, NEW t \in Threads, NEW a \in CheckInputs, CheckEnter(t, a)
    PROVE  RbacInv'
<1>1. CASE UNCHANGED vars
  BY <1>1, StutterKeeps
<1>2. CASE /\ pc[t] = "idle"
           /\ a.target \in NodeIds
           /\ pc' = [pc EXCEPT ![t] = "resolve"]
           /\ arg' = [arg EXCEPT ![t] = a]
           /\ UNCHANGED <<mapVars, ruleVars, rbacEnabled, policyRuleMutex, conn,
                          local, scan>>
  <2>1. a \in CheckArg
    BY <1>2, InputAssumption DEF CheckArg
  <2>2. TypeOK'
    BY <1>2, <2>1 DEF RbacInv, TypeOK, mapVars, ruleVars
  <2>3. MutexHeldInLoop' /\ CallerKnown' /\ RoleStillValid'
    BY <1>2, <2>1 DEF RbacInv, TypeOK, MutexHeldInLoop, CallerKnown, RoleStillValid,
       mapVars
  <2>4. LoopInvariant'
    BY <1>2 DEF RbacInv, TypeOK, LoopInvariant, Visited, Request, ruleVars
  <2> QED
    BY <1>2, <2>2, <2>3, <2>4, ContextUntouched DEF RbacInv
<1> QED
  BY <1>1, <1>2 DEF CheckEnter, Refuse, IsValidNodeId

\* Resolving the local identity keeps the invariant.
LEMMA ResolveStep ==
    ASSUME RbacInv, NEW t \in Threads, ResolveLocalIdentity(t)
    PROVE  RbacInv'
<1> DEFINE cert == arg[t].cert
           found == GetNodeRbacRole(cert)
           lv == [nodeId |-> cert.nodeId, role |-> found.role,
                  fixed |-> found.src = "cert" \/ nodeRoleMapFrozen]
<1>1. ASSUME NEW code, Leave(t, code) PROVE RbacInv'
  BY <1>1, LeaveStep DEF ResolveLocalIdentity
<1>2. CASE /\ GetCertNodeId(cert) = "SCF_SUCCESS"
           /\ found.code = "SCF_SUCCESS"
           /\ pc' = [pc EXCEPT ![t] = "lock"]
           /\ local' = [local EXCEPT ![t] = lv]
           /\ UNCHANGED <<arg, scan>>
  <2>0. UNCHANGED <<mapVars, ruleVars, rbacEnabled, policyRuleMutex, conn>>
        /\ pc[t] = "resolve"
    BY DEF ResolveLocalIdentity
  <2>1. arg[t] \in CheckArg /\ cert \in Cert
    BY <2>0 DEF RbacInv, CallerKnown, CheckArg
  <2>2. cert.nodeId \in NodeIds
    BY <1>2, <2>1 DEF GetCertNodeId, Cert, RawId
  <2>3. \/ /\ cert.role \in Roles
           /\ found = [code |-> "SCF_SUCCESS", role |-> cert.role, src |-> "cert"]
        \/ /\ cert.role \notin Roles
           /\ cert.nodeId \in DOMAIN nodeRoleMap
           /\ found = [code |-> "SCF_SUCCESS", role |-> nodeRoleMap[cert.nodeId],
                       src |-> "mapping"]
    BY <1>2, <2>1, RbacAssumption DEF GetNodeRbacRole, GetCertRbacRole, Cert, Roles
  <2>4. lv \in [nodeId : NodeIds \cup {Wildcard},
                role : Roles \cup {"unknown"}, fixed : BOOLEAN]
        /\ lv.role \in Roles
    BY <2>2, <2>3 DEF RbacInv, TypeOK
  <2>5. TypeOK'
    BY <1>2, <2>0, <2>4 DEF RbacInv, TypeOK, mapVars, ruleVars
  <2>6. MutexHeldInLoop' /\ CallerKnown'
    BY <1>2, <2>0, <2>1, <2>2, <2>4
       DEF RbacInv, TypeOK, MutexHeldInLoop, CallerKnown
  <2>7. RoleStillValid'
    BY <1>2, <2>0, <2>3 DEF RbacInv, TypeOK, RoleStillValid, mapVars
  <2>8. LoopInvariant'
    BY <1>2, <2>0 DEF RbacInv, TypeOK, LoopInvariant, Visited, Request, ruleVars
  <2> QED
    BY <2>0, <2>5, <2>6, <2>7, <2>8, ContextUntouched DEF RbacInv
<1> QED
  BY <1>1, <1>2 DEF ResolveLocalIdentity

\* Taking policyRuleMutex establishes the loop invariant.
LEMMA LockStep ==
    ASSUME RbacInv, NEW t \in Threads, LockRules(t)
    PROVE  RbacInv'
<1> USE DEF LockRules
<1>1. NoScan \in [cursor : 0..MaxRuleId, highestPriority : 0..4, effect : Effects]
  BY RbacAssumption DEF NoScan, Effects
<1>2. TypeOK'
  BY <1>1 DEF RbacInv, TypeOK, mapVars, ruleVars
<1>3. MutexHeldInLoop' /\ CallerKnown' /\ RoleStillValid'
  BY RbacAssumption DEF RbacInv, TypeOK, MutexHeldInLoop, CallerKnown,
     RoleStillValid, mapVars
<1>4. LoopInvariant'
  <2> SUFFICES ASSUME NEW u \in Threads, pc'[u] = "match"
               PROVE  IsVerdict(policyRuleMap, Visited(u), Request(u),
                                scan[u].highestPriority, scan[u].effect)'
    BY DEF LoopInvariant
  <2>1. u = t
    BY RbacAssumption DEF RbacInv, TypeOK, MutexHeldInLoop
  <2>2. Visited(t)' = {}
    BY DEF RbacInv, TypeOK, Visited, NoScan, ruleVars
  <2>3. scan'[t].highestPriority = 0
    BY DEF RbacInv, TypeOK, NoScan
  <2> QED
    BY <2>1, <2>2, <2>3 DEF IsVerdict
<1> QED
  BY <1>2, <1>3, <1>4, ContextUntouched DEF RbacInv


\* Nobody else is in the loop, and the map does not change under it.
LEMMA MatchStep ==
    ASSUME RbacInv, NEW t \in Threads, MatchPolicyRule(t)
    PROVE  RbacInv'
<1> PICK id \in Ahead(t) :
      LET rule == policyRuleMap[id]
          priority == GetMatchPriority(rule, Request(t))
      IN  /\ \A j \in Ahead(t) : id <= j
          /\ scan' = [scan EXCEPT ![t] =
               IF /\ IsRuleMatched(rule, Request(t))
                  /\ ShouldReplaceMatch(priority, rule.effect, scan[t].highestPriority)
               THEN [cursor |-> id, highestPriority |-> priority, effect |-> rule.effect]
               ELSE [scan[t] EXCEPT !.cursor = id]]
  BY DEF MatchPolicyRule
<1> DEFINE request == Request(t)
           p == GetMatchPriority(policyRuleMap[id], request)
           best == scan[t].highestPriority
           replaced == /\ IsRuleMatched(policyRuleMap[id], request)
                       /\ ShouldReplaceMatch(p, policyRuleMap[id].effect, best)
<1>0. /\ pc[t] = "match"
      /\ UNCHANGED <<mapVars, ruleVars, rbacEnabled, policyRuleMutex, conn,
                     pc, arg, local>>
  BY DEF MatchPolicyRule
<1>1. /\ id \in DOMAIN policyRuleMap
      /\ id \in 1..MaxRuleId
      /\ id > scan[t].cursor
      /\ scan[t].cursor \in 0..MaxRuleId
      /\ best \in 0..4
      /\ scan[t].effect \in Effects
      /\ policyRuleMap[id].effect \in Effects
  BY DEF RbacInv, TypeOK, Ahead, PolicyRule
<1>2. p \in 1..4
  BY PriorityRange
<1>3. scan'[t] \in [cursor : 0..MaxRuleId, highestPriority : 0..4, effect : Effects]
  <2>1. scan[t] \in [cursor : 0..MaxRuleId, highestPriority : 0..4, effect : Effects]
    BY DEF RbacInv, TypeOK
  <2>2. scan'[t] = IF replaced
                   THEN [cursor |-> id, highestPriority |-> p,
                         effect |-> policyRuleMap[id].effect]
                   ELSE [scan[t] EXCEPT !.cursor = id]
    BY DEF RbacInv, TypeOK
  <2> QED
    BY <1>1, <1>2, <2>1, <2>2
<1>4. TypeOK'
  BY <1>0, <1>3 DEF RbacInv, TypeOK, mapVars, ruleVars
<1>5. MutexHeldInLoop' /\ CallerKnown' /\ RoleStillValid'
  BY <1>0 DEF RbacInv, MutexHeldInLoop, CallerKnown, RoleStillValid, mapVars
<1>6. LoopInvariant'
  <2>1. Visited(t)' = Visited(t) \cup {id}
    <3>1. scan'[t].cursor = id
      BY DEF RbacInv, TypeOK
    <3>2. \A i \in DOMAIN policyRuleMap : i \in 1..MaxRuleId
      BY DEF RbacInv, TypeOK
    <3>3. \A i \in DOMAIN policyRuleMap : i <= id <=> i <= scan[t].cursor \/ i = id
      BY <1>1, <3>2 DEF Ahead
    <3> QED
      BY <1>0, <1>1, <3>1, <3>3 DEF Visited, ruleVars
  <2>2. IsVerdict(policyRuleMap, Visited(t), request, best, scan[t].effect)
    BY <1>0 DEF RbacInv, LoopInvariant
  <2>3. id \notin Visited(t)
    BY <1>1 DEF Visited
  <2>4. IF replaced
        THEN IsVerdict(policyRuleMap, Visited(t) \cup {id}, request, p,
                       policyRuleMap[id].effect)
        ELSE IsVerdict(policyRuleMap, Visited(t) \cup {id}, request, best,
                       scan[t].effect)
    BY <1>1, <2>2, <2>3, VerdictExtends
  <2>5. IF replaced
        THEN scan'[t].highestPriority = p /\ scan'[t].effect = policyRuleMap[id].effect
        ELSE scan'[t].highestPriority = best /\ scan'[t].effect = scan[t].effect
    BY DEF RbacInv, TypeOK
  <2>6. \A u \in Threads : pc'[u] = "match" => u = t
    BY <1>0 DEF RbacInv, MutexHeldInLoop
  <2>7. Request(t)' = request /\ policyRuleMap' = policyRuleMap
    BY <1>0 DEF Request, ruleVars
  <2>8. IsVerdict(policyRuleMap, Visited(t)', request,
                  scan'[t].highestPriority, scan'[t].effect)
    <3>1. CASE replaced
      BY <2>1, <2>4, <2>5, <3>1
    <3>2. CASE ~replaced
      BY <2>1, <2>4, <2>5, <3>2
    <3> QED
      BY <3>1, <3>2
  <2> QED
    BY <2>6, <2>7, <2>8 DEF LoopInvariant, IsVerdict
<1> QED
  BY <1>0, <1>4, <1>5, <1>6, ContextUntouched DEF RbacInv

\* Each step of the specification keeps the invariant.
LEMMA NextKeeps == RbacInv /\ [Next]_vars => RbacInv'
<1> SUFFICES ASSUME RbacInv, [Next]_vars PROVE RbacInv'
  OBVIOUS
<1>1. CASE UNCHANGED vars
  BY <1>1, StutterKeeps
<1>2. ASSUME NEW id \in RawId, NEW role \in Roles, SetNodeRoleMapping(id, role)
      PROVE  RbacInv'
  BY <1>2, MappingSteps
<1>3. ASSUME NEW id \in RawId, RemoveNodeRoleMapping(id) PROVE RbacInv'
  <2>1. "slave" \in Roles
    BY DEF Roles
  <2> QED
    BY <1>3, <2>1, MappingSteps
<1>4. ASSUME NEW enable \in BOOLEAN, EnableRbac(enable) PROVE RbacInv'
  BY <1>4, EnableStep
<1>5. ASSUME NEW rule \in RuleInputs, AddPolicyRule(rule) PROVE RbacInv'
  BY <1>5, AddStep
<1>6. ASSUME NEW id \in 0..MaxRuleId, RemovePolicyRule(id) PROVE RbacInv'
  BY <1>6, RemoveStep
<1>7. ASSUME NEW t \in Threads, NEW a \in CheckInputs, CheckEnter(t, a) PROVE RbacInv'
  BY <1>7, EnterStep
<1>8. ASSUME NEW t \in Threads, CheckStep(t) PROVE RbacInv'
  <2>1. CASE ResolveLocalIdentity(t)
    BY <2>1, ResolveStep
  <2>2. CASE LockRules(t)
    BY <2>2, LockStep
  <2>3. CASE MatchPolicyRule(t)
    BY <2>3, MatchStep
  <2>4. CASE CheckReturn(t)
    BY <2>4, LeaveStep DEF CheckReturn
  <2> QED
    BY <1>8, <2>1, <2>2, <2>3, <2>4 DEF CheckStep
<1>9. ASSUME NEW c \in Conns, HandshakeDone(c) \/ FreezeNodeRoleMapping(c)
      PROVE  RbacInv'
  BY <1>9, ConnSteps
<1> QED
  BY <1>1, <1>2, <1>3, <1>4, <1>5, <1>6, <1>7, <1>8, <1>9 DEF Next

\* The inductive invariant holds in every reachable state.
THEOREM Invariance == Spec => []RbacInv
BY InitEstablishes, NextKeeps, PTL DEF Spec

-----------------------------------------------------------------------------
\* Every reachable state of a context and of its callers is well typed.
THEOREM TypeCorrect == Spec => []TypeOK
<1>1. RbacInv => TypeOK
  BY DEF RbacInv
<1> QED
  BY <1>1, Invariance, PTL

\* SCF_AddPolicyRule never lets two rules with one key into a context.
THEOREM KeysUnique == Spec => []RuleKeysUnique
<1>1. RbacInv => RuleKeysUnique
  BY DEF RbacInv
<1> QED
  BY <1>1, Invariance, PTL

\* The loop of MatchPolicyRule computes the documented verdict for every rule
\* map, whatever the other threads do meanwhile.
THEOREM VerdictCorrect == Spec => []MatchIsVerdict
<1>1. RbacInv => MatchIsVerdict
  <2> SUFFICES ASSUME RbacInv, NEW t \in Threads, pc[t] = "match", Ahead(t) = {}
               PROVE  IsVerdict(policyRuleMap, DOMAIN policyRuleMap, Request(t),
                                scan[t].highestPriority, scan[t].effect)
    BY DEF MatchIsVerdict
  <2>1. Visited(t) = DOMAIN policyRuleMap
    <3>1. scan[t].cursor \in 0..MaxRuleId /\ DOMAIN policyRuleMap \subseteq 1..MaxRuleId
      BY DEF RbacInv, TypeOK
    <3>2. \A i \in DOMAIN policyRuleMap : ~(i > scan[t].cursor)
      BY DEF Ahead
    <3>3. \A i \in DOMAIN policyRuleMap : i <= scan[t].cursor
      BY <3>1, <3>2, RbacAssumption
    <3> QED
      BY <3>3 DEF Visited
  <2>2. IsVerdict(policyRuleMap, Visited(t), Request(t),
                  scan[t].highestPriority, scan[t].effect)
    BY DEF RbacInv, LoopInvariant
  <2> QED
    BY <2>1, <2>2
<1> QED
  BY <1>1, Invariance, PTL

\* A rule id is never given out twice.
THEOREM IdsNeverReused == Spec => RuleIdsNeverReused
<1>1. RbacInv /\ [Next]_vars =>
        [(DOMAIN policyRuleMap' \ DOMAIN policyRuleMap) \cap issued = {}]_vars
  <2> SUFFICES ASSUME RbacInv, Next
               PROVE  (DOMAIN policyRuleMap' \ DOMAIN policyRuleMap) \cap issued = {}
    OBVIOUS
  <2>1. CASE UNCHANGED policyRuleMap
    BY <2>1
  <2>2. ASSUME NEW rule \in RuleInputs, AddPolicyRule(rule),
               policyRuleMap' # policyRuleMap
        PROVE  (DOMAIN policyRuleMap' \ DOMAIN policyRuleMap) \cap issued = {}
    <3>1. /\ policyRuleMap' = Put(policyRuleMap, nextPolicyRuleId, rule)
          /\ nextPolicyRuleId # 0
      BY <2>2 DEF AddPolicyRule, InsertPolicyRule, NoRoomForRule, Refuse, vars, ruleVars
    <3>2. nextPolicyRuleId \notin issued
      BY <3>1 DEF RbacInv, IdsIncrease, TypeOK
    <3> QED
      BY <3>1, <3>2 DEF Put
  <2>3. ASSUME NEW id \in 0..MaxRuleId, RemovePolicyRule(id)
        PROVE  (DOMAIN policyRuleMap' \ DOMAIN policyRuleMap) \cap issued = {}
    BY <2>3 DEF RemovePolicyRule, Restrict, Refuse, vars, ruleVars
  <2> QED
    BY <2>1, <2>2, <2>3 DEF Next, SetNodeRoleMapping, RemoveNodeRoleMapping, Refuse,
       EnableRbac, CheckEnter, CheckStep, ResolveLocalIdentity, LockRules,
       MatchPolicyRule, CheckReturn, HandshakeDone, FreezeNodeRoleMapping,
       vars, ruleVars
<1> QED
  BY <1>1, Invariance, PTL DEF Spec, RuleIdsNeverReused

\* Roles are fixed from the first established connection on.
THEOREM RolesFixed == Spec => EstablishedRolesFixed
<1>1. RbacInv /\ [Next]_vars =>
        [(\E c \in Conns : conn[c] = "established") => nodeRoleMap' = nodeRoleMap]_vars
  <2> SUFFICES ASSUME RbacInv, Next, nodeRoleMapFrozen
               PROVE  nodeRoleMap' = nodeRoleMap
    BY DEF RbacInv, EstablishedFreezes
  <2> QED
    BY DEF Next, SetNodeRoleMapping, RemoveNodeRoleMapping, Refuse, EnableRbac,
       AddPolicyRule, InsertPolicyRule, RemovePolicyRule, CheckEnter, CheckStep,
       ResolveLocalIdentity, LockRules, MatchPolicyRule, CheckReturn, HandshakeDone,
       FreezeNodeRoleMapping, vars, mapVars
<1> QED
  BY <1>1, Invariance, PTL DEF Spec, EstablishedRolesFixed


\* A rule map has one verdict on a request.
LEMMA VerdictUnique ==
    ASSUME NEW rules, NEW ids, NEW request,
           \A i \in ids : rules[i].effect \in Effects,
           NEW p1 \in 0..4, NEW p2 \in 0..4, NEW e1 \in Effects, NEW e2 \in Effects,
           IsVerdict(rules, ids, request, p1, e1),
           IsVerdict(rules, ids, request, p2, e2)
    PROVE  p1 = p2 /\ (p1 # 0 => e1 = e2)
<1>1. \A i : GetMatchPriority(rules[i], request) \in 1..4
  BY PriorityRange
<1>2. p1 = 0 <=> p2 = 0
  BY DEF IsVerdict
<1>3. p1 = p2
  BY <1>1, <1>2 DEF IsVerdict
<1> QED
  BY <1>1, <1>3 DEF IsVerdict, Effects

\* With the role in the certificate or read from the frozen mapping, and with
\* access control on when it returns, a permission check answers by the role
\* and the rules of that moment, for any number of threads and rules.
THEOREM DecisionCurrent == Spec => []DecisionIsCurrent
<1>1. RbacInv /\ MatchIsVerdict => DecisionIsCurrent
  <2> SUFFICES ASSUME RbacInv, MatchIsVerdict, NEW t \in Threads,
                      pc[t] = "match", Ahead(t) = {}, local[t].fixed, rbacEnabled
               PROVE  Outcome(t) = Permission(arg[t])
    BY DEF DecisionIsCurrent
  <2> DEFINE a == arg[t]
             best == scan[t].highestPriority
             effect == scan[t].effect
             V(p, e) == IsVerdict(policyRuleMap, DOMAIN policyRuleMap, Request(t), p, e)
  <2>1. /\ local[t].nodeId = a.cert.nodeId
        /\ local[t].role \in Roles
        /\ local[t].role = RoleOf(a.cert)
    BY DEF RbacInv, CallerKnown, RoleStillValid, RoleOf
  <2>2. Request(t) = [subject |-> a.cert.nodeId, target |-> a.target,
                      res |-> a.res, act |-> a.act]
    BY <2>1 DEF Request
  <2>3. best \in 0..4 /\ effect \in Effects
    BY DEF RbacInv, TypeOK
  <2>4. \A i \in DOMAIN policyRuleMap : policyRuleMap[i].effect \in Effects
    BY DEF RbacInv, TypeOK, PolicyRule
  <2>5. V(best, effect)
    BY DEF MatchIsVerdict
  <2>6. \A p \in 0..4, e \in Effects : V(p, e) => p = best /\ (p # 0 => e = effect)
    <3> SUFFICES ASSUME NEW p \in 0..4, NEW e \in Effects, V(p, e)
                 PROVE  p = best /\ (p # 0 => e = effect)
      OBVIOUS
    <3> HIDE DEF best, effect
    <3>1. V(best, effect) /\ best \in 0..4 /\ effect \in Effects
      BY <2>3, <2>5
    <3> QED
      BY <2>4, <3>1, VerdictUnique
  <2>7. \A e \in Effects : (\E p \in 1..4 : V(p, e)) <=> best # 0 /\ e = effect
    <3>1. ASSUME NEW e \in Effects, NEW p \in 1..4, V(p, e)
          PROVE  best # 0 /\ e = effect
      <4>1. p \in 0..4 /\ p # 0
        OBVIOUS
      <4> QED
        BY <2>6, <3>1, <4>1
    <3>2. ASSUME best # 0 PROVE \E p \in 1..4 : V(p, effect)
      <4>1. best \in 1..4
        BY <2>3, <3>2
      <4> QED
        BY <2>5, <4>1
    <3> QED
      BY <3>1, <3>2
  <2>8. Permission(a) =
          IF (best # 0 /\ "allow" = effect) \/
             (~(best # 0 /\ "deny" = effect) /\
              (RoleOf(a.cert) = "master" \/ a.cert.nodeId = a.target))
          THEN "SCF_SUCCESS" ELSE "RBAC_DENIED"
    BY <2>2, <2>7 DEF Permission, Effects
  <2> QED
    BY <2>1, <2>3, <2>8 DEF Outcome, CheckDefaultResourcePermission, Roles, Effects
<1> QED
  BY <1>1, Invariance, VerdictCorrect, PTL

\* Both maps stay within their limits; for that the mapping has to be finite.
THEOREM LimitsKept == Spec => []WithinLimits
<1> DEFINE Limits == IsFiniteSet(DOMAIN nodeRoleMap) /\ WithinLimits
<1>1. Init => Limits
  <2> SUFFICES ASSUME Init PROVE Limits
    OBVIOUS
  <2>1. DOMAIN nodeRoleMap = {} /\ DOMAIN policyRuleMap = {}
    BY DEF Init
  <2> QED
    BY <2>1, FS_EmptySet, RbacAssumption DEF WithinLimits
<1>2. Limits /\ RbacInv /\ [Next]_vars => Limits'
  <2> SUFFICES ASSUME Limits, RbacInv, [Next]_vars PROVE Limits'
    OBVIOUS
  <2>1. IsFiniteSet(DOMAIN policyRuleMap)
    <3>1. IsFiniteSet(1..MaxRuleId)
      BY FS_Interval, RbacAssumption
    <3> QED
      BY <3>1, FS_Subset DEF RbacInv, TypeOK
  <2>2. /\ Cardinality(DOMAIN policyRuleMap) \in Nat
        /\ Cardinality(DOMAIN nodeRoleMap) \in Nat
    BY <2>1, FS_CardinalityType
  <2>3. CASE UNCHANGED <<policyRuleMap, nodeRoleMap>>
    BY <2>3 DEF WithinLimits
  <2>4. ASSUME NEW id, NEW role, nodeRoleMap' = Put(nodeRoleMap, id, role),
               \/ id \in DOMAIN nodeRoleMap
               \/ Cardinality(DOMAIN nodeRoleMap) < MaxMappings,
               UNCHANGED policyRuleMap
        PROVE  Limits'
    <3>1. DOMAIN nodeRoleMap' = DOMAIN nodeRoleMap \cup {id}
      BY <2>4 DEF Put
    <3>2. /\ IsFiniteSet(DOMAIN nodeRoleMap')
          /\ \/ Cardinality(DOMAIN nodeRoleMap') = Cardinality(DOMAIN nodeRoleMap)
                /\ id \in DOMAIN nodeRoleMap
             \/ Cardinality(DOMAIN nodeRoleMap') = Cardinality(DOMAIN nodeRoleMap) + 1
                /\ id \notin DOMAIN nodeRoleMap
      BY <3>1, FS_AddElement
    <3> QED
      BY <2>2, <2>4, <3>2, RbacAssumption DEF WithinLimits
  <2>5. ASSUME NEW id \in DOMAIN nodeRoleMap, UNCHANGED policyRuleMap,
               nodeRoleMap' = Restrict(nodeRoleMap, DOMAIN nodeRoleMap \ {id})
        PROVE  Limits'
    <3>1. DOMAIN nodeRoleMap' = DOMAIN nodeRoleMap \ {id}
      BY <2>5 DEF Restrict
    <3>2. /\ IsFiniteSet(DOMAIN nodeRoleMap')
          /\ Cardinality(DOMAIN nodeRoleMap') = Cardinality(DOMAIN nodeRoleMap) - 1
      BY <3>1, FS_RemoveElement
    <3> QED
      BY <2>2, <2>5, <3>2, RbacAssumption DEF WithinLimits
  <2>6. ASSUME NEW id, NEW rule, policyRuleMap' = Put(policyRuleMap, id, rule),
               Cardinality(DOMAIN policyRuleMap) < MaxRules,
               id \notin DOMAIN policyRuleMap, UNCHANGED nodeRoleMap
        PROVE  Limits'
    <3>1. DOMAIN policyRuleMap' = DOMAIN policyRuleMap \cup {id}
      BY <2>6 DEF Put
    <3>2. Cardinality(DOMAIN policyRuleMap') = Cardinality(DOMAIN policyRuleMap) + 1
      BY <2>1, <2>6, <3>1, FS_AddElement
    <3> QED
      BY <2>2, <2>6, <3>2, RbacAssumption DEF WithinLimits
  <2>7. ASSUME NEW id \in DOMAIN policyRuleMap, UNCHANGED nodeRoleMap,
               policyRuleMap' = Restrict(policyRuleMap, DOMAIN policyRuleMap \ {id})
        PROVE  Limits'
    <3>1. DOMAIN policyRuleMap' = DOMAIN policyRuleMap \ {id}
      BY <2>7 DEF Restrict
    <3>2. Cardinality(DOMAIN policyRuleMap') = Cardinality(DOMAIN policyRuleMap) - 1
      BY <2>1, <3>1, FS_RemoveElement
    <3> QED
      BY <2>2, <2>7, <3>2, RbacAssumption DEF WithinLimits
  <2>8. ASSUME NEW rule \in RuleInputs, AddPolicyRule(rule) PROVE Limits'
    <3>1. CASE UNCHANGED <<policyRuleMap, nodeRoleMap>>
      BY <2>3, <3>1
    <3>2. CASE /\ ~NoRoomForRule
               /\ policyRuleMap' = Put(policyRuleMap, nextPolicyRuleId, rule)
               /\ UNCHANGED mapVars
      <4>1. Cardinality(DOMAIN policyRuleMap) < MaxRules
        BY <2>2, <3>2, RbacAssumption DEF NoRoomForRule
      <4> QED
        BY <2>6, <3>2, <4>1 DEF NoRoomForRule, mapVars
    <3> QED
      BY <2>8, <3>1, <3>2
         DEF AddPolicyRule, InsertPolicyRule, Refuse, vars, mapVars, ruleVars
  <2>9. ASSUME NEW id \in RawId, NEW role \in Roles,
               SetNodeRoleMapping(id, role) \/ RemoveNodeRoleMapping(id)
        PROVE  Limits'
    BY <2>3, <2>4, <2>5, <2>9 DEF SetNodeRoleMapping, RemoveNodeRoleMapping,
       Refuse, vars, mapVars, ruleVars
  <2>10. ASSUME NEW id \in 0..MaxRuleId, RemovePolicyRule(id) PROVE Limits'
    BY <2>3, <2>7, <2>10 DEF RemovePolicyRule, Refuse, vars, mapVars, ruleVars
  <2>11. "slave" \in Roles
    BY DEF Roles
  <2>12. CASE \/ \E enable \in BOOLEAN : EnableRbac(enable)
              \/ \E t \in Threads, a \in CheckInputs : CheckEnter(t, a)
              \/ \E t \in Threads : CheckStep(t)
              \/ \E c \in Conns : HandshakeDone(c) \/ FreezeNodeRoleMapping(c)
              \/ UNCHANGED vars
    BY <2>3, <2>12 DEF Refuse, EnableRbac, CheckEnter, CheckStep, LockRules,
       ResolveLocalIdentity, MatchPolicyRule, CheckReturn, HandshakeDone,
       FreezeNodeRoleMapping, vars, mapVars, ruleVars
  <2> QED
    BY <2>8, <2>9, <2>10, <2>11, <2>12 DEF Next
<1>3. Limits => WithinLimits
  OBVIOUS
<1> QED
  BY <1>1, <1>2, <1>3, Invariance, PTL DEF Spec
=============================================================================

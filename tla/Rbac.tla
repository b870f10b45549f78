-------------------------------- MODULE Rbac --------------------------------
(***************************************************************************)
(* Role based access control of one policy context                         *)
(* (scf/policy/auth/rbac/rbac.cpp): the node role mapping, its freezing by *)
(* the first established connection, the custom rules, and permission      *)
(* checks by several threads.                                              *)
(*                                                                         *)
(* A critical section of nodeRoleMapMutex touches only what that mutex     *)
(* protects and is one step, and so are the sections of policyRuleMutex    *)
(* that insert or erase a rule.  The section that matches rules is         *)
(* modelled iteration by iteration, with the mutex held in between: every  *)
(* other section of that mutex waits for it.                               *)
(***************************************************************************)
EXTENDS PolicyRules, FiniteSets, Functions

CONSTANTS
    Threads,        \* threads that call the API on this context
    NoThread,       \* the owner of a free mutex
    Conns,          \* connections that use this context
    MaxRuleId,      \* the largest rule id, UINT32_MAX in the code
    MaxRules,       \* MAX_POLICY_RULE_SIZE
    MaxMappings,    \* MAX_NODE_ROLE_MAP_SIZE
    Absent,         \* a certificate extension that is not there
    Malformed,      \* one that is not a single canonical UTF8String
    RuleInputs,     \* the rules callers try to add
    CheckInputs     \* the arguments of the permission checks callers make

Roles == {"master", "slave"}

ASSUME RbacAssumption ==
    /\ NoThread \notin Threads
    /\ MaxRuleId \in Nat \ {0}
    /\ MaxRules \in Nat
    /\ MaxMappings \in Nat
    /\ {Absent, Malformed} \cap (RawId \cup Roles) = {}
    /\ Absent # Malformed

\* What SCF_GetCertNodeId and SCF_GetCertRbacRole can find in a certificate.
Cert == [nodeId : RawId \cup {Absent, Malformed},
         role   : Roles \cup {Absent, Malformed}]

ASSUME InputAssumption ==
    /\ RuleInputs \subseteq
         [subject : RawId, target : RawId, res : SUBSET ResTypes,
          act : SUBSET ActTypes, effect : Effects]
    /\ CheckInputs \subseteq
         [cert : Cert, target : RawId, res : ResTypes, act : ActTypes]

VARIABLES
    nodeRoleMap,        \* node id -> role, a partial function
    nodeRoleMapFrozen,
    rbacEnabled,
    policyRuleMap,      \* rule id -> rule, a partial function
    nextPolicyRuleId,   \* 0: the ids are exhausted
    policyRuleMutex,    \* the thread matching rules, or NoThread
    conn,               \* progress of SCF_Connect / SCF_Accept per connection
    pc,                 \* where each thread is in SCF_CheckResourcePermission
    arg,                \* the arguments of its check
    local,              \* localNodeId and role of its check
    scan,               \* the loop variables of MatchPolicyRule
    issued              \* history: every rule id SCF_AddPolicyRule returned

mapVars  == <<nodeRoleMap, nodeRoleMapFrozen>>
ruleVars == <<policyRuleMap, nextPolicyRuleId, issued>>
callVars == <<pc, arg, local, scan>>
vars == <<mapVars, ruleVars, rbacEnabled, policyRuleMutex, conn, callVars>>

-----------------------------------------------------------------------------
Put(map, key, value) ==
    [k \in DOMAIN map \cup {key} |-> IF k = key THEN value ELSE map[k]]

\* The locals of a thread that is in no call.
NoArg   == [target |-> Wildcard]
NoLocal == [nodeId |-> Wildcard, role |-> "unknown", fixed |-> FALSE]
NoScan  == [cursor |-> 0, highestPriority |-> 0, effect |-> "deny"]

Init ==
    /\ nodeRoleMap = [n \in {} |-> "slave"]
    /\ nodeRoleMapFrozen = FALSE
    /\ rbacEnabled = FALSE
    /\ policyRuleMap = [i \in {} |-> Wildcard]
    /\ nextPolicyRuleId = 1
    /\ policyRuleMutex = NoThread
    /\ conn = [c \in Conns |-> "handshaking"]
    /\ pc = [t \in Threads |-> "idle"]
    /\ arg = [t \in Threads |-> NoArg]
    /\ local = [t \in Threads |-> NoLocal]
    /\ scan = [t \in Threads |-> NoScan]
    /\ issued = {}

\* A call that returns this error code and has changed nothing.
Refuse(code) == UNCHANGED vars

-----------------------------------------------------------------------------
(* The node role mapping.  Any thread may make the calls of this and of the *)
(* next section at any time; each is one step, so that it does not matter   *)
(* which thread makes it.                                                   *)

SetNodeRoleMapping(id, role) ==
    \/ /\ ~IsValidNodeId(id)
       /\ Refuse("INVALID_PARAM")
    \/ /\ IsValidNodeId(id)
       /\ nodeRoleMapFrozen
       /\ Refuse("MAP_FROZEN")
    \/ /\ IsValidNodeId(id)
       /\ ~nodeRoleMapFrozen
       /\ id \notin DOMAIN nodeRoleMap
       /\ Cardinality(DOMAIN nodeRoleMap) >= MaxMappings
       /\ Refuse("MAP_FULL")
    \/ /\ IsValidNodeId(id)
       /\ ~nodeRoleMapFrozen
       /\ \/ id \in DOMAIN nodeRoleMap
          \/ Cardinality(DOMAIN nodeRoleMap) < MaxMappings
       /\ \/ /\ nodeRoleMap' = Put(nodeRoleMap, id, role)
             /\ UNCHANGED <<nodeRoleMapFrozen, ruleVars, rbacEnabled,
                            policyRuleMutex, conn, callVars>>
          \/ Refuse("MEM_ALLOC")

RemoveNodeRoleMapping(id) ==
    \/ /\ ~IsValidNodeId(id)
       /\ Refuse("INVALID_PARAM")
    \/ /\ IsValidNodeId(id)
       /\ nodeRoleMapFrozen
       /\ Refuse("MAP_FROZEN")
    \/ /\ IsValidNodeId(id)
       /\ ~nodeRoleMapFrozen
       /\ id \notin DOMAIN nodeRoleMap
       /\ Refuse("MAP_NOT_FOUND")
    \/ /\ IsValidNodeId(id)
       /\ ~nodeRoleMapFrozen
       /\ id \in DOMAIN nodeRoleMap
       /\ nodeRoleMap' = Restrict(nodeRoleMap, DOMAIN nodeRoleMap \ {id})
       /\ UNCHANGED <<nodeRoleMapFrozen, ruleVars, rbacEnabled,
                      policyRuleMutex, conn, callVars>>

\* SCF_Connect / SCF_Accept.  The adaptor's handshake has succeeded, and the
\* call is not yet back at its caller ...
HandshakeDone(c) ==
    /\ conn[c] = "handshaking"
    /\ conn' = [conn EXCEPT ![c] = "handshaken"]
    /\ UNCHANGED <<mapVars, ruleVars, rbacEnabled, policyRuleMutex, callVars>>

\* Mutant: the mapping is not frozen.
NoFreeze(c) ==
    /\ conn[c] = "handshaken"
    /\ conn' = [conn EXCEPT ![c] = "established"]
    /\ UNCHANGED <<mapVars, ruleVars, rbacEnabled, policyRuleMutex, callVars>>

\* ... before it has frozen the mapping.
FreezeNodeRoleMapping(c) ==
    /\ conn[c] = "handshaken"
    /\ conn' = [conn EXCEPT ![c] = "established"]
    /\ nodeRoleMapFrozen' = TRUE
    /\ UNCHANGED <<nodeRoleMap, ruleVars, rbacEnabled, policyRuleMutex, callVars>>

-----------------------------------------------------------------------------
(* The switch and the custom rules.                                        *)

EnableRbac(enable) ==
    /\ rbacEnabled' = enable
    /\ UNCHANGED <<mapVars, ruleVars, policyRuleMutex, conn, callVars>>

IsValidRule(rule) ==
    /\ IsValidNodeId(rule.subject)
    /\ IsValidNodeId(rule.target) \/ rule.target = Wildcard
    /\ IsValidBitmap(rule.res, ResTypes)
    /\ IsValidBitmap(rule.act, ActTypes)

\* Mutant: the effect is part of the key.
HasEqualRule(rule) == \E i \in DOMAIN policyRuleMap : policyRuleMap[i] = rule

HasRuleWithKeyOf(rule) ==
    \E i \in DOMAIN policyRuleMap : IsSamePolicyRuleKey(policyRuleMap[i], rule)

NoRoomForRule ==
    \/ Cardinality(DOMAIN policyRuleMap) >= MaxRules
    \/ nextPolicyRuleId = 0
    \/ nextPolicyRuleId \in DOMAIN policyRuleMap

\* Mutant: the ids start again.
NextRuleIdWraps(id) == IF id = MaxRuleId THEN 1 ELSE id + 1

NextRuleId(id) == IF id = MaxRuleId THEN 0 ELSE id + 1

\* The part of SCF_AddPolicyRule that runs under policyRuleMutex.
InsertPolicyRule(rule) ==
    \/ /\ HasRuleWithKeyOf(rule)
       /\ Refuse("POLICY_DUPLICATE")
    \/ /\ ~HasRuleWithKeyOf(rule)
       /\ NoRoomForRule
       /\ Refuse("POLICY_FULL")
    \/ /\ ~HasRuleWithKeyOf(rule)
       /\ ~NoRoomForRule
       /\ policyRuleMap' = Put(policyRuleMap, nextPolicyRuleId, rule)
       /\ nextPolicyRuleId' = NextRuleId(nextPolicyRuleId)
       /\ issued' = issued \cup {nextPolicyRuleId}
       /\ UNCHANGED <<mapVars, rbacEnabled, policyRuleMutex, conn, callVars>>

AddPolicyRule(rule) ==
    \/ /\ ~IsValidRule(rule)
       /\ Refuse("POLICY_INVALID")
    \/ /\ IsValidRule(rule)
       /\ Refuse("MEM_ALLOC")
    \/ /\ IsValidRule(rule)
       /\ policyRuleMutex = NoThread
       /\ InsertPolicyRule(rule)

RemovePolicyRule(id) ==
    \/ /\ id = 0
       /\ Refuse("INVALID_PARAM")
    \/ /\ id # 0
       /\ policyRuleMutex = NoThread
       /\ id \notin DOMAIN policyRuleMap
       /\ Refuse("POLICY_NOT_FOUND")
    \/ /\ id # 0
       /\ policyRuleMutex = NoThread
       /\ id \in DOMAIN policyRuleMap
       /\ policyRuleMap' = Restrict(policyRuleMap, DOMAIN policyRuleMap \ {id})
       /\ UNCHANGED <<mapVars, nextPolicyRuleId, issued, rbacEnabled,
                      policyRuleMutex, conn, callVars>>

-----------------------------------------------------------------------------
(* SCF_CheckResourcePermission.                                            *)

GetCertNodeId(cert) ==
    CASE cert.nodeId = Absent -> "NODE_ID_ABSENT"
      [] cert.nodeId = Malformed \/ cert.nodeId \in {Wildcard, BadId} -> "PARSE_CERT"
      [] OTHER -> "SCF_SUCCESS"

GetCertRbacRole(cert) ==
    CASE cert.role = Absent -> "ROLE_EXT_ABSENT"
      [] cert.role = Malformed -> "PARSE_CERT"
      [] OTHER -> "SCF_SUCCESS"

\* SCF_GetNodeRbacRole for a certificate whose node id has been read: the
\* role of the certificate wins over the mapping of its node id.
GetNodeRbacRole(cert) ==
    CASE GetCertRbacRole(cert) = "PARSE_CERT" ->
           [code |-> "PARSE_CERT", role |-> "unknown", src |-> "none"]
      [] GetCertRbacRole(cert) = "SCF_SUCCESS" ->
           [code |-> "SCF_SUCCESS", role |-> cert.role, src |-> "cert"]
      [] OTHER ->
           IF cert.nodeId \in DOMAIN nodeRoleMap
           THEN [code |-> "SCF_SUCCESS", role |-> nodeRoleMap[cert.nodeId], src |-> "mapping"]
           ELSE [code |-> "ROLE_UNKNOWN", role |-> "unknown", src |-> "none"]

\* Leave the call with this code.
Leave(t, code) ==
    /\ pc' = [pc EXCEPT ![t] = "idle"]
    /\ arg' = [arg EXCEPT ![t] = NoArg]
    /\ local' = [local EXCEPT ![t] = NoLocal]
    /\ scan' = [scan EXCEPT ![t] = NoScan]

CheckEnter(t, a) ==
    /\ pc[t] = "idle"
    /\ \/ /\ ~IsValidNodeId(a.target)
          /\ Refuse("INVALID_PARAM")
       \/ /\ IsValidNodeId(a.target)
          /\ ~rbacEnabled
          /\ Refuse("RBAC_DISABLED")
       \/ /\ IsValidNodeId(a.target)
          /\ rbacEnabled
          /\ pc' = [pc EXCEPT ![t] = "resolve"]
          /\ arg' = [arg EXCEPT ![t] = a]
          /\ UNCHANGED <<mapVars, ruleVars, rbacEnabled, policyRuleMutex, conn,
                         local, scan>>

\* The certificate never changes, so that its two extensions and the mapping
\* are read in one step.  The history field `fixed' says whether what was
\* read can still change.
ResolveLocalIdentity(t) ==
    LET cert == arg[t].cert
        found == GetNodeRbacRole(cert)
    IN  /\ pc[t] = "resolve"
        /\ \/ /\ GetCertNodeId(cert) # "SCF_SUCCESS"
              /\ Leave(t, GetCertNodeId(cert))
           \/ /\ GetCertNodeId(cert) = "SCF_SUCCESS"
              /\ found.code # "SCF_SUCCESS"
              /\ Leave(t, found.code)
           \/ /\ GetCertNodeId(cert) = "SCF_SUCCESS"
              /\ found.code = "SCF_SUCCESS"
              /\ pc' = [pc EXCEPT ![t] = "lock"]
              /\ local' = [local EXCEPT ![t] =
                             [nodeId |-> cert.nodeId, role |-> found.role,
                              fixed |-> found.src = "cert" \/ nodeRoleMapFrozen]]
              /\ UNCHANGED <<arg, scan>>
        /\ UNCHANGED <<mapVars, ruleVars, rbacEnabled, policyRuleMutex, conn>>

\* GetCustomPolicyEffect takes policyRuleMutex and calls MatchPolicyRule.
LockRules(t) ==
    /\ pc[t] = "lock"
    /\ policyRuleMutex = NoThread
    /\ policyRuleMutex' = t
    /\ pc' = [pc EXCEPT ![t] = "match"]
    /\ scan' = [scan EXCEPT ![t] = NoScan]
    /\ UNCHANGED <<mapVars, ruleVars, rbacEnabled, conn, arg, local>>

Request(t) == [subject |-> local[t].nodeId, target |-> arg[t].target,
               res |-> arg[t].res, act |-> arg[t].act]

\* Mutant: the loop does not advance.
AheadOrHere(t) == {i \in DOMAIN policyRuleMap : i >= scan[t].cursor}

\* The ids the loop over the ordered map has yet to visit.
Ahead(t) == {i \in DOMAIN policyRuleMap : i > scan[t].cursor}

\* One iteration of the loop in MatchPolicyRule, over the smallest id ahead.
MatchPolicyRule(t) ==
    /\ pc[t] = "match"
    /\ \E id \in Ahead(t) :
         LET rule == policyRuleMap[id]
             priority == GetMatchPriority(rule, Request(t))
         IN  /\ \A j \in Ahead(t) : id <= j
             /\ scan' = [scan EXCEPT ![t] =
                  IF /\ IsRuleMatched(rule, Request(t))
                     /\ ShouldReplaceMatch(priority, rule.effect, @.highestPriority)
                  THEN [cursor |-> id, highestPriority |-> priority,
                        effect |-> rule.effect]
                  ELSE [@ EXCEPT !.cursor = id]]
    /\ UNCHANGED <<mapVars, ruleVars, rbacEnabled, policyRuleMutex, conn,
                   pc, arg, local>>

CheckDefaultResourcePermission(role, localNodeId, targetNodeId) ==
    CASE role = "master" -> "SCF_SUCCESS"
      [] role = "slave" /\ localNodeId = targetNodeId -> "SCF_SUCCESS"
      [] role = "slave" /\ localNodeId # targetNodeId -> "RBAC_DENIED"
      [] OTHER -> "ROLE_UNKNOWN"

\* Mutant: a master is never denied.
OutcomeMasterFirst(t) ==
    IF local[t].role = "master" THEN "SCF_SUCCESS"
    ELSE IF scan[t].highestPriority # 0
         THEN IF scan[t].effect = "allow" THEN "SCF_SUCCESS" ELSE "RBAC_DENIED"
         ELSE CheckDefaultResourcePermission(local[t].role, local[t].nodeId, arg[t].target)

\* What the call returns once the loop is over.
Outcome(t) ==
    CASE scan[t].highestPriority # 0 /\ scan[t].effect = "allow" -> "SCF_SUCCESS"
      [] scan[t].highestPriority # 0 /\ scan[t].effect = "deny" -> "RBAC_DENIED"
      [] OTHER -> CheckDefaultResourcePermission(local[t].role, local[t].nodeId,
                                                 arg[t].target)

\* The loop ends, the mutex is released and the call returns.
CheckReturn(t) ==
    /\ pc[t] = "match"
    /\ Ahead(t) = {}
    /\ policyRuleMutex' = NoThread
    /\ Leave(t, Outcome(t))
    /\ UNCHANGED <<mapVars, ruleVars, rbacEnabled, conn>>

-----------------------------------------------------------------------------
CheckStep(t) ==
    \/ ResolveLocalIdentity(t)
    \/ LockRules(t)
    \/ MatchPolicyRule(t)
    \/ CheckReturn(t)

Next ==
    \/ \E id \in RawId, role \in Roles : SetNodeRoleMapping(id, role)
    \/ \E id \in RawId : RemoveNodeRoleMapping(id)
    \/ \E enable \in BOOLEAN : EnableRbac(enable)
    \/ \E rule \in RuleInputs : AddPolicyRule(rule)
    \/ \E id \in 0..MaxRuleId : RemovePolicyRule(id)
    \/ \E t \in Threads, a \in CheckInputs : CheckEnter(t, a)
    \/ \E t \in Threads : CheckStep(t)
    \/ \E c \in Conns : HandshakeDone(c) \/ FreezeNodeRoleMapping(c)

Spec == Init /\ [][Next]_vars

\* A thread inside the critical section of policyRuleMutex, which takes no
\* other lock and waits for nothing, is eventually scheduled.
MatchFairness == \A t \in Threads : WF_vars(MatchPolicyRule(t) \/ CheckReturn(t))

FairSpec == Spec /\ MatchFairness

-----------------------------------------------------------------------------
(* Properties.                                                             *)

CheckArg == [cert : Cert, target : NodeIds, res : ResTypes, act : ActTypes]

\* Every variable has its type; the locals of a thread in a call hold the
\* arguments CheckEnter accepted and the identity ResolveLocalIdentity found.
TypeOK ==
    /\ DOMAIN nodeRoleMap \subseteq NodeIds
    /\ nodeRoleMap \in [DOMAIN nodeRoleMap -> Roles]
    /\ nodeRoleMapFrozen \in BOOLEAN
    /\ rbacEnabled \in BOOLEAN
    /\ DOMAIN policyRuleMap \subseteq 1..MaxRuleId
    /\ policyRuleMap \in [DOMAIN policyRuleMap -> PolicyRule]
    /\ nextPolicyRuleId \in 0..MaxRuleId
    /\ policyRuleMutex \in Threads \cup {NoThread}
    /\ conn \in [Conns -> {"handshaking", "handshaken", "established"}]
    /\ pc \in [Threads -> {"idle", "resolve", "lock", "match"}]
    /\ arg \in [Threads -> CheckArg \cup {NoArg}]
    /\ local \in [Threads -> [nodeId : NodeIds \cup {Wildcard},
                              role : Roles \cup {"unknown"}, fixed : BOOLEAN]]
    /\ scan \in [Threads -> [cursor : 0..MaxRuleId, highestPriority : 0..4,
                             effect : Effects]]
    /\ issued \subseteq 1..MaxRuleId

\* SCF_AddPolicyRule refuses a rule whose key is already in the map, so no
\* two rules of a context ever have the same subject, target and bitmaps,
\* whatever their effects: a rule can not contradict another one.
RuleKeysUnique ==
    \A i, j \in DOMAIN policyRuleMap :
        IsSamePolicyRuleKey(policyRuleMap[i], policyRuleMap[j]) => i = j

\* InsertPolicyRule and SCF_SetNodeRoleMapping keep both maps within their
\* limits, and fill them up to the limit and not beyond it.
WithinLimits ==
    /\ Cardinality(DOMAIN policyRuleMap) <= MaxRules
    /\ Cardinality(DOMAIN nodeRoleMap) <= MaxMappings

\* A rule id that SCF_AddPolicyRule has returned once is never given to
\* another rule, also after the rule was removed and when the 32-bit counter
\* runs out: a caller that removes by an old id can not hit a newer rule.
RuleIdsNeverReused ==
    [][(DOMAIN policyRuleMap' \ DOMAIN policyRuleMap) \cap issued = {}]_vars

\* When the loop of MatchPolicyRule has ended and before policyRuleMutex is
\* released, what it found is the verdict of the rules as they are now: the
\* most specific match, deny winning among equals, in whatever order the
\* rules were added and whoever else works on them.
MatchIsVerdict ==
    \A t \in Threads :
        pc[t] = "match" /\ Ahead(t) = {} =>
            IsVerdict(policyRuleMap, DOMAIN policyRuleMap, Request(t),
                      scan[t].highestPriority, scan[t].effect)

\* The documented decision, taken in a single state: by the switch, the role
\* and the rules of that state.
RoleOf(cert) ==
    IF cert.role \in Roles THEN cert.role ELSE nodeRoleMap[cert.nodeId]

Permission(a) ==
    LET request == [subject |-> a.cert.nodeId, target |-> a.target,
                    res |-> a.res, act |-> a.act]
        Verdict(effect) == \E p \in 1..4 :
            IsVerdict(policyRuleMap, DOMAIN policyRuleMap, request, p, effect)
        byRole == RoleOf(a.cert) = "master" \/ a.cert.nodeId = a.target
    IN  IF ~rbacEnabled THEN "RBAC_DISABLED"
        ELSE IF Verdict("allow") \/ (~Verdict("deny") /\ byRole)
        THEN "SCF_SUCCESS" ELSE "RBAC_DENIED"

\* SCF_CheckResourcePermission reads the switch, the mapping and the rules
\* at different times, the last two under different locks.  When the role
\* was read from the certificate or from the frozen mapping, and access
\* control is on when the call returns, its answer is nevertheless the
\* documented decision for the state at the moment it returns.  Both
\* conditions are needed: a check that has passed the switch still answers
\* by the rules when access control is then switched off, and by an old role
\* when the mapping, not frozen yet, is then changed.
DecisionIsCurrent ==
    \A t \in Threads :
        pc[t] = "match" /\ Ahead(t) = {} /\ local[t].fixed /\ rbacEnabled =>
            Outcome(t) = Permission(arg[t])

\* From the moment SCF_Connect or SCF_Accept has reported one connection of
\* the context as established, no call changes the role of any node.
EstablishedRolesFixed ==
    [][(\E c \in Conns : conn[c] = "established") =>
            nodeRoleMap' = nodeRoleMap]_vars

\* The thread that took policyRuleMutex to match rules gives it back: the
\* loop ends for every rule map.
MutexReleased ==
    \A t \in Threads : policyRuleMutex = t ~> policyRuleMutex # t
=============================================================================

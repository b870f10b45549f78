----------------------------- MODULE PolicyRules -----------------------------
(***************************************************************************)
(* The custom policy rules of a policy context and what it means for one   *)
(* of them to match a request (scf/policy/auth/rbac/policy_matcher.cpp).   *)
(*                                                                         *)
(* A bitmap of the code is the set of its bits: `bitmap & request' with a  *)
(* single-bit request is membership, `bitmap == request' is equality with  *)
(* the singleton.  Node ids are opaque; the reserved word "*" is Wildcard. *)
(***************************************************************************)
EXTENDS Integers

CONSTANTS
    NodeIds,    \* the node ids IsValidNodeId accepts (1..127 bytes, not "*")
    Wildcard,   \* the reserved node id "*"
    BadId,      \* stands for the node ids of a length IsValidNodeId refuses
    ResTypes,   \* the single-bit resource types: fd, numa, addr
    ActTypes    \* the single-bit actions: apply, release

ASSUME NodeIdAssumption ==
    /\ Wildcard \notin NodeIds
    /\ BadId \notin NodeIds
    /\ BadId # Wildcard

Effects == {"allow", "deny"}

RawId == NodeIds \cup {Wildcard, BadId}

\* Mutant: the length is not checked.
IsValidNodeIdAnyLength(id) == id # Wildcard

IsValidNodeId(id) == id \in NodeIds

IsValidBitmap(bitmap, validBits) == bitmap # {} /\ bitmap \subseteq validBits

\* The fields of SCF_PolicyRule that its creator chooses (the id is the key
\* of the map that holds the rule).
PolicyRule ==
    [subject : NodeIds,
     target  : NodeIds \cup {Wildcard},
     res     : SUBSET ResTypes,
     act     : SUBSET ActTypes,
     effect  : Effects]

MatchRequest ==
    [subject : NodeIds, target : NodeIds, res : ResTypes, act : ActTypes]

IsSamePolicyRuleKey(left, right) ==
    /\ left.subject = right.subject
    /\ left.target = right.target
    /\ left.res = right.res
    /\ left.act = right.act

-----------------------------------------------------------------------------
IsRuleMatched(rule, request) ==
    /\ rule.subject = request.subject
    /\ rule.target \in {request.target, Wildcard}
    /\ request.res \in rule.res
    /\ request.act \in rule.act

One(b) == IF b THEN 1 ELSE 0

GetMatchPriority(rule, request) ==
    1 + One(rule.target = request.target)
      + One(rule.res = {request.res})
      + One(rule.act = {request.act})

\* Mutant: among equals the rule added first wins.
ShouldReplaceMatchFirstWins(priority, effect, highestPriority) ==
    priority > highestPriority

ShouldReplaceMatch(priority, effect, highestPriority) ==
    \/ priority > highestPriority
    \/ priority = highestPriority /\ effect = "deny"

-----------------------------------------------------------------------------
\* The reference the loop of MatchPolicyRule is compared with, written from
\* the promise and not from the loop: priority 0 says that no rule of the map
\* with an id in ids matches; otherwise the priority is the highest of the
\* matching rules, and the effect is deny exactly when one of the rules of
\* that priority denies.
IsVerdict(rules, ids, request, priority, effect) ==
    LET matched == {i \in ids : IsRuleMatched(rules[i], request)}
        Prio(i) == GetMatchPriority(rules[i], request)
    IN  IF priority = 0
        THEN matched = {}
        ELSE /\ \A i \in matched : Prio(i) <= priority
             /\ \E i \in matched : Prio(i) = priority /\ rules[i].effect = effect
             /\ \A i \in matched : Prio(i) = priority /\ rules[i].effect = "deny"
                                     => effect = "deny"
=============================================================================

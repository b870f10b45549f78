------------------------------- MODULE MCRbac -------------------------------
(***************************************************************************)
(* Small instances of Rbac for TLC.                                        *)
(***************************************************************************)
EXTENDS Rbac

CONSTANTS n1, n2, fd, numa, apply, release

MCNodeIds == {n1, n2}
MCResTypes == {fd, numa}
MCActTypes == {apply, release}

Rule(s, g, r, a, e) == [subject |-> s, target |-> g, res |-> r, act |-> a, effect |-> e]

\* Two rules of the same priority and opposite effect, a more specific one
\* and its contradiction, and two invalid ones.
MCRuleInputs ==
    {Rule(n1, Wildcard, {fd}, {apply}, "deny"),
     Rule(n1, n2, {fd, numa}, {apply}, "allow"),
     Rule(n1, n2, {fd}, {apply}, "allow"),
     Rule(n1, n2, {fd}, {apply}, "deny"),
     Rule(Wildcard, n2, {fd}, {apply}, "allow"),
     Rule(n1, BadId, {fd}, {apply}, "allow")}

Ask(id, role, g) == [cert |-> [nodeId |-> id, role |-> role],
                     target |-> g, res |-> fd, act |-> apply]

\* The role from the mapping, the role from the certificate, a node that asks
\* for its own resources, and the certificates and arguments that are refused.
MCCheckInputs ==
    {Ask(n1, Absent, n2), Ask(n1, "slave", n2), Ask(n1, "slave", n1),
     Ask(n1, Malformed, n2), Ask(Wildcard, "master", n2), Ask(n1, "master", Wildcard)}
=============================================================================

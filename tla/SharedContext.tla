--------------------------- MODULE SharedContext ---------------------------
(***************************************************************************)
(* What the reference counter of a policy context is for: the context      *)
(* lives exactly as long as somebody holds it.  The application holds it   *)
(* under the name Owner, and every policy object under its own name.       *)
(***************************************************************************)
CONSTANTS Owner, Objs

VARIABLES
    state,      \* "none", "live" or "freed"
    holders     \* who holds the context

svars == <<state, holders>>

Init == state = "none" /\ holders = {}

Create ==
    /\ state = "none"
    /\ state' = "live"
    /\ holders' = {Owner}

\* A policy object is made from a context the application holds.
Acquire(o) ==
    /\ state = "live"
    /\ Owner \in holders
    /\ o \notin holders
    /\ holders' = holders \cup {o}
    /\ UNCHANGED state

Release(h) ==
    /\ h \in holders
    /\ holders' = holders \ {h}
    /\ UNCHANGED state

\* Nobody holds it any more, and nobody can get hold of it again.
Reclaim ==
    /\ state = "live"
    /\ holders = {}
    /\ state' = "freed"
    /\ UNCHANGED holders

Next ==
    \/ Create
    \/ \E o \in Objs : Acquire(o)
    \/ \E h \in Objs \cup {Owner} : Release(h)
    \/ Reclaim

Spec == Init /\ [][Next]_svars
=============================================================================

---------------------------- MODULE MCConnection ----------------------------
(***************************************************************************)
(* A few connections: enough for a listener and what it accepts, or for    *)
(* unrelated connections that share the adaptor.                           *)
(***************************************************************************)
EXTENDS Connection, TLC

ConnSymmetry == Permutations(Conns)
=============================================================================

----------------------------- MODULE MCTransport -----------------------------
(***************************************************************************)
(* Four transports over three descriptors, so that descriptors run out and *)
(* every number is given out more than once.  The transports are alike.    *)
(***************************************************************************)
EXTENDS Transport, TLC

MCSymmetry == Permutations(Transports)
=============================================================================

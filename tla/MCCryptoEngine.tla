--------------------------- MODULE MCCryptoEngine ---------------------------
(***************************************************************************)
(* Two threads that share two engines.  An int has two bits, so that a     *)
(* length can be cast to a negative one and to one that is too small.      *)
(***************************************************************************)
EXTENDS CryptoEngine, TLC

EngineSymmetry == Permutations(Engines) \cup Permutations(Threads)
=============================================================================

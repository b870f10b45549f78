---------------------------- MODULE MCKeyUpdate ----------------------------
(***************************************************************************)
(* A small instance of KeyUpdate for TLC: a 3-bit counter that overflows   *)
(* after a few writes, thresholds below, between and above the inputs'     *)
(* limits, and a clock that runs past the longest interval and back.       *)
(***************************************************************************)
EXTENDS KeyUpdate

MCTimeInputs == {0, 2}
MCTrafficInputs == {1, 2, 7}
MCWriteLens == {1, 3}
=============================================================================

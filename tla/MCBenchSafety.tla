---------------------------- MODULE MCBenchSafety ----------------------------
(* A small instance of BenchSafety for TLC: two motions, one safe while the other is not. *)
EXTENDS BenchSafety

CONSTANTS ahead, turn
=============================================================================

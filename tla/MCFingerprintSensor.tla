------------------------- MODULE MCFingerprintSensor -------------------------
(* FingerprintSensor for TLC: two people, two tasks, a library of three      *)
(* slots on two pages, ids as wide as four.                                  *)
EXTENDS FingerprintSensor, TLC

Symmetric == Permutations(Fingers)
=============================================================================

---------------------------- MODULE MCAs608Link ----------------------------
(* A small instance of As608Link for TLC: see SensorLink.cfg.              *)
EXTENDS As608Link

\* No task differs from another.
Symmetry == Permutations(Tasks)
=============================================================================

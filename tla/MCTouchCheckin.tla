--------------------------- MODULE MCTouchCheckin ---------------------------
(* A small instance of TouchCheckin for TLC: see TouchCheckin.cfg.         *)
EXTENDS TouchCheckin
=============================================================================

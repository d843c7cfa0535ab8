-------------------------- MODULE MCCommandDispatch --------------------------
(* CommandDispatch for TLC: a command of every kind over a few requests, one *)
(* of them with a long id, and a queue of one slot.  A wipe takes the same   *)
(* steps as a deletion.                                                      *)
EXTENDS CommandDispatch

OneOfEachKind == {"ping", "enroll_fingerprint", "identify_fingerprint",
                  "delete_fingerprint", "reboot"}

=============================================================================

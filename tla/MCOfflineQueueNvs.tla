-------------------------- MODULE MCOfflineQueueNvs --------------------------
(* OfflineQueueNvs for TLC: three tasks, a queue of two or three slots and   *)
(* more events than slots, so that enqueue meets the full queue.             *)
EXTENDS OfflineQueueNvs, TLC

Symmetric == Permutations(Items) \cup Permutations(Tasks \ {Consumer})
=============================================================================

---------------------------- MODULE OfflineQueue ----------------------------
(***************************************************************************)
(* What the offline queue promises to the use cases that call it through   *)
(* queue_repository_port_t: a bounded first-in first-out queue, as long as *)
(* its operations do not overlap.  enqueue appends or refuses, ack removes *)
(* the oldest item and nothing else.  Nothing is promised of the contents  *)
(* while operations overlap; once they have all ended, the queue goes on   *)
(* as a FIFO from whatever the overlap has left.                           *)
(***************************************************************************)
EXTENDS Naturals, Sequences

CONSTANTS
    Items,      \* the events that can be stored (queue_item_t values)
    MaxItems    \* the bound of the queue

VARIABLES
    queue,      \* the items held, oldest first
    raced       \* an overlap of two operations has not ended

Init == queue = <<>> /\ raced = FALSE

Enqueue(item) == /\ ~raced /\ Len(queue) < MaxItems
                 /\ queue' = Append(queue, item)
                 /\ UNCHANGED raced

Ack == /\ ~raced /\ queue # <<>>
       /\ queue' = Tail(queue)
       /\ UNCHANGED raced

\* Two operations overlap: the queue may hold anything from here on.
Race == raced' = TRUE

\* The last of them has ended: the queue holds what they have left.
Settle == raced /\ raced' = FALSE

Next == Ack \/ Race \/ Settle \/ \E item \in Items : Enqueue(item)

Spec == Init /\ [][Next]_<<queue, raced>>
=============================================================================

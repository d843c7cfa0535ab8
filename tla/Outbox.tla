------------------------------- MODULE Outbox -------------------------------
(***************************************************************************)
(* What the use cases promise for the events they compose, whatever tasks  *)
(* run them and whatever becomes of the connection: an event is sent at    *)
(* once, or kept in order and replayed from the oldest on, or refused      *)
(* because the outbox is full; never two of these, and none that is kept   *)
(* is skipped, repeated or lost.  The promise lasts until two operations   *)
(* of the store overlap.                                                   *)
(***************************************************************************)
EXTENDS Naturals, Sequences

CONSTANTS
    Events,     \* what can be composed
    MaxItems    \* OFFLINE_QUEUE_MAX_ITEMS

VARIABLES
    composed,   \* the events so far
    direct,     \* those sent at once
    waiting,    \* those kept, oldest first
    replayed,   \* those kept and then sent, in order
    refused,    \* those the full outbox refused
    raced       \* two operations of the store have overlapped

vars == <<composed, direct, waiting, replayed, refused, raced>>

Init == /\ composed = {} /\ direct = {} /\ refused = {}
        /\ waiting = <<>> /\ replayed = <<>>
        /\ raced = FALSE

Members(s) == {s[i] : i \in DOMAIN s}

\* The events that a use case still carries.
Carried == composed \ (direct \cup refused \cup Members(waiting) \cup Members(replayed))

Compose(e) == /\ e \notin composed
              /\ composed' = composed \cup {e}
              /\ UNCHANGED <<direct, waiting, replayed, refused>>

Send(e) == /\ e \in Carried
           /\ direct' = direct \cup {e}
           /\ UNCHANGED <<composed, waiting, replayed, refused>>

Keep(e) == /\ e \in Carried
           /\ Len(waiting) < MaxItems
           /\ waiting' = Append(waiting, e)
           /\ UNCHANGED <<composed, direct, replayed, refused>>

\* An event that was replayed takes its slot until it is acknowledged: one slot
\* may be out of use.
Refuse(e) == /\ e \in Carried
             /\ Len(waiting) >= MaxItems - 1
             /\ refused' = refused \cup {e}
             /\ UNCHANGED <<composed, direct, waiting, replayed>>

Replay == /\ waiting # <<>>
          /\ replayed' = Append(replayed, Head(waiting))
          /\ waiting' = Tail(waiting)
          /\ UNCHANGED <<composed, direct, refused>>

\* Two operations overlap: nothing is promised from here on.
Race == raced' = TRUE

Next == \/ /\ UNCHANGED raced
           /\ \/ \E e \in Events : Compose(e) \/ Send(e) \/ Keep(e) \/ Refuse(e)
              \/ Replay
        \/ Race

Spec == Init /\ [][Next]_vars
=============================================================================

--------------------------- MODULE OfflineQueueNvs ---------------------------
(***************************************************************************)
(* offline_queue_nvs.c at the grain of its memory accesses.  The module    *)
(* keeps two static objects and takes no lock, and three FreeRTOS tasks    *)
(* call it, so each operation is split where another task can run: the     *)
(* loads of s_count, the stores, the memmove.  Copying one item is one     *)
(* step: torn items are left out.                                          *)
(***************************************************************************)
EXTENDS Integers, Sequences

CONSTANTS
    Tasks,      \* the FreeRTOS tasks that store check-ins and enrolments
    Consumer,   \* touch_checkin, the only task that flushes the queue
    Items,      \* the events that can be stored
    NoItem,     \* the zeroed content of a slot that was never written
    MaxItems    \* OFFLINE_QUEUE_MAX_ITEMS

ASSUME ConsumerAssumption == Consumer \in Tasks
ASSUME NoItemAssumption == NoItem \notin Items
ASSUME MaxItemsAssumption == MaxItems \in Nat \ {0}

VARIABLES
    s_items,    \* the array
    s_count,    \* how many of its slots are in use
    pc,         \* where each task is inside the module
    count,      \* the value of s_count each task works with
    item,       \* the caller's item: to store, or filled in by peek
    raced       \* history: two operations have overlapped, and one of them
                \* or a flush that ran beside them has not ended

vars == <<s_items, s_count, pc, count, item, raced>>

Slots == 0 .. MaxItems - 1
EnqueueSteps == {"checked", "loaded", "copied", "counted"}
AckSteps == {"ackLoaded", "moved", "reloaded"}
Steps == {"idle", "peeked"} \cup EnqueueSteps \cup AckSteps

TypeOK == /\ s_items \in [Slots -> Items \cup {NoItem}]
          /\ s_count \in Nat
          /\ pc \in [Tasks -> Steps]
          /\ count \in [Tasks -> Nat]
          /\ item \in [Tasks -> Items \cup {NoItem}]
          /\ raced \in BOOLEAN

Init == /\ s_items = [i \in Slots |-> NoItem]
        /\ s_count = 0
        /\ pc = [t \in Tasks |-> "idle"]
        /\ count = [t \in Tasks |-> 0]
        /\ item = [t \in Tasks |-> NoItem]
        /\ raced = FALSE

Inside(t) == pc[t] \in EnqueueSteps \cup AckSteps

\* History: an operation that begins while another task is inside one
\* overlaps it, and the overlap has ended when every task is back outside
\* and no flush still holds an item it peeked meanwhile.
Begins(t) == raced' = (raced \/ \E u \in Tasks \ {t} : Inside(u))
Ends(t) == raced' = (raced /\ \E u \in Tasks \ {t} : pc[u] # "idle")

-----------------------------------------------------------------------------
\* Faulty variant: the bound is off by one.
EnqueueCheck_OffByOne(t) ==
                   /\ pc[t] = "idle"
                   /\ s_count <= MaxItems
                   /\ \E e \in Items : item' = [item EXCEPT ![t] = e]
                   /\ count' = [count EXCEPT ![t] = s_count]
                   /\ pc' = [pc EXCEPT ![t] = "checked"]
                   /\ Begins(t)
                   /\ UNCHANGED <<s_items, s_count>>

\* enqueue compares s_count with the bound.
EnqueueCheck(t) == /\ pc[t] = "idle"
                   /\ s_count < MaxItems
                   /\ \E e \in Items : item' = [item EXCEPT ![t] = e]
                   /\ count' = [count EXCEPT ![t] = s_count]
                   /\ pc' = [pc EXCEPT ![t] = "checked"]
                   /\ Begins(t)
                   /\ UNCHANGED <<s_items, s_count>>

\* A full queue refuses the event and changes nothing.
EnqueueRefuse(t) == /\ pc[t] = "idle"
                    /\ s_count >= MaxItems
                    /\ UNCHANGED vars

\* s_count++ loads s_count again after the comparison, or goes on with the
\* value that was compared: both are builds of the code.
EnqueueReload(t) == /\ pc[t] = "checked"
                    /\ count' = [count EXCEPT ![t] = s_count]
                    /\ pc' = [pc EXCEPT ![t] = "loaded"]
                    /\ UNCHANGED <<s_items, s_count, item, raced>>

\* The call returns true once both objects are stored.
EnqueueReturns(t) == /\ pc' = [pc EXCEPT ![t] = "idle"]
                     /\ item' = [item EXCEPT ![t] = NoItem]
                     /\ Ends(t)

\* s_items[s_count++] = *item: the compiler is free to store either first.
\* A store behind the array is undefined: a task that has loaded such an
\* index is followed no further.
StoreItem(t) == /\ pc[t] \in {"checked", "loaded", "counted"}
                /\ count[t] \in Slots
                /\ s_items' = [s_items EXCEPT ![count[t]] = item[t]]
                /\ IF pc[t] = "counted"
                   THEN EnqueueReturns(t)
                   ELSE pc' = [pc EXCEPT ![t] = "copied"] /\ UNCHANGED <<item, raced>>
                /\ UNCHANGED <<s_count, count>>

StoreCount(t) == /\ pc[t] \in {"checked", "loaded", "copied"}
                 /\ count[t] \in Slots
                 /\ s_count' = count[t] + 1
                 /\ IF pc[t] = "copied"
                    THEN EnqueueReturns(t)
                    ELSE pc' = [pc EXCEPT ![t] = "counted"] /\ UNCHANGED <<item, raced>>
                 /\ UNCHANGED <<s_items, count>>

\* Faulty variant: every task flushes after it has stored.
Flushes_AnyTask(t) == t \in Tasks

\* Only touch_checkin_task runs use_case_process_pending_queue, the one
\* caller of peek and ack.
Flushes(t) == t = Consumer

\* Faulty variant: the newest item is peeked.
Peek_Newest(t) == /\ Flushes(t)
                  /\ pc[t] = "idle"
                  /\ s_count # 0
                  /\ item' = [item EXCEPT ![t] = s_items[s_count - 1]]
                  /\ pc' = [pc EXCEPT ![t] = "peeked"]
                  /\ Begins(t)
                  /\ UNCHANGED <<s_items, s_count, count>>

Peek(t) == /\ Flushes(t)
           /\ pc[t] = "idle"
           /\ s_count # 0
           /\ item' = [item EXCEPT ![t] = s_items[0]]
           /\ pc' = [pc EXCEPT ![t] = "peeked"]
           /\ Begins(t)
           /\ UNCHANGED <<s_items, s_count, count>>

\* The peeked item could not be sent: the flush ends without an ack.
GiveUp(t) == /\ pc[t] = "peeked"
             /\ pc' = [pc EXCEPT ![t] = "idle"]
             /\ item' = [item EXCEPT ![t] = NoItem]
             /\ Ends(t)
             /\ UNCHANGED <<s_items, s_count, count>>

\* ack does not look at the event id it is given.
AckLoad(t) == /\ pc[t] = "peeked"
              /\ s_count # 0
              /\ count' = [count EXCEPT ![t] = s_count]
              /\ pc' = [pc EXCEPT ![t] = "ackLoaded"]
              /\ Begins(t)
              /\ UNCHANGED <<s_items, s_count, item>>

\* Faulty variant: one item too few is moved.
Shifted_OneShort(k) ==
    [i \in Slots |-> IF i + 2 < k THEN s_items[i + 1] ELSE s_items[i]]

\* memmove of the count - 1 items behind the first one.
Shifted(k) == [i \in Slots |-> IF i + 1 < k THEN s_items[i + 1] ELSE s_items[i]]

AckMove(t) == /\ pc[t] = "ackLoaded"
              /\ s_items' = Shifted(count[t])
              /\ pc' = [pc EXCEPT ![t] = "moved"]
              /\ UNCHANGED <<s_count, count, item, raced>>

\* s_count-- may load s_count again after the memmove, or not.
AckReload(t) == /\ pc[t] = "moved"
                /\ count' = [count EXCEPT ![t] = s_count]
                /\ pc' = [pc EXCEPT ![t] = "reloaded"]
                /\ UNCHANGED <<s_items, s_count, item, raced>>

AckStore(t) == /\ pc[t] \in {"moved", "reloaded"}
               /\ s_count' = count[t] - 1
               /\ item' = [item EXCEPT ![t] = NoItem]
               /\ pc' = [pc EXCEPT ![t] = "idle"]
               /\ Ends(t)
               /\ UNCHANGED <<s_items, count>>

-----------------------------------------------------------------------------
Next == \E t \in Tasks : \/ EnqueueCheck(t) \/ EnqueueRefuse(t) \/ EnqueueReload(t)
                         \/ StoreItem(t) \/ StoreCount(t)
                         \/ Peek(t) \/ GiveUp(t)
                         \/ AckLoad(t) \/ AckMove(t) \/ AckReload(t) \/ AckStore(t)

\* The tasks as the code runs them: nothing orders their accesses.
Spec == Init /\ [][Next]_vars

-----------------------------------------------------------------------------
\* Whatever the interleaving, ack never passes a wrapped (s_count - 1) to
\* memmove and never stores it: that only one task takes the counter down is
\* enough.  enqueue keeps its index inside the array only as long as no two
\* operations overlap: between its comparison and its load of the index
\* another enqueue may take the last slot.
AccessInBounds ==
    /\ s_count \in 0 .. MaxItems
    /\ \A t \in Tasks : /\ pc[t] \in AckSteps => count[t] \in 1 .. MaxItems
                        /\ pc[t] \in EnqueueSteps => raced \/ count[t] \in Slots

\* The items a caller that starts now would find, oldest first: a task that
\* is half-way through a store or an ack has counted one slot too many.
HalfDone == \E t \in Tasks : pc[t] \in {"counted", "moved", "reloaded"}
Held == IF HalfDone THEN s_count - 1 ELSE s_count
Contents == [i \in 1 .. Held |-> s_items[i - 1]]

\* The array and its counter implement the bounded first-in first-out queue
\* of module OfflineQueue, which promises nothing while operations overlap
\* and goes on as a FIFO once they have ended.
Abstract == INSTANCE OfflineQueue WITH queue <- Contents
RefinesOfflineQueue == Abstract!Spec

\* ack drops slot 0 without comparing ids.  Unless operations have overlapped
\* since the consumer was last outside the module, that is the very item the
\* flush peeked and emitted, however many enqueues of other tasks came between
\* the peek and the ack.
AckRemovesPeeked ==
    \A t \in Tasks : pc[t] \in {"peeked", "ackLoaded"} => raced \/ s_items[0] = item[t]

\* An event that enqueue accepts is in the queue when the call returns
\* (README.md: critical events stay in the local queue).  The tasks as the
\* code runs them break it.
AcceptedEventStored ==
    [][\A t \in Tasks :
          pc[t] \in EnqueueSteps /\ pc'[t] = "idle" =>
              \E i \in Slots : i < s_count' /\ s_items'[i] = item[t]]_vars
=============================================================================

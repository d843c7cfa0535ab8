------------------------ MODULE OfflineQueueNvsProofs ------------------------
(***************************************************************************)
(* The queue for every number of tasks, events and slots, run as the code  *)
(* runs it: without a lock.                                                *)
(*                                                                         *)
(* Bounded holds whatever the interleaving: nobody but the single consumer *)
(* takes the counter down, so it is still positive when the consumer loads *)
(* it again, and no store takes it past the array.                         *)
(*                                                                         *)
(* Orderly holds as long as no overlap is under way: one task is inside    *)
(* (Solo), whose loads are current (Agrees), while the peeked item stays   *)
(* in slot 0 (Steady).  A task that begins beside another one leaves it    *)
(* by setting raced, and once all tasks are outside again it holds of      *)
(* whatever the array has come to hold.  From it follow the bound of       *)
(* enqueue, the refinement of module OfflineQueue and AckRemovesPeeked.    *)
(***************************************************************************)
EXTENDS OfflineQueueNvs, SequenceTheorems, TLAPS

Bounded ==
    /\ TypeOK
    /\ s_count \in 0 .. MaxItems
    /\ \A t \in Tasks :
          /\ pc[t] \in AckSteps => count[t] \in 1 .. MaxItems
          /\ pc[t] \in {"peeked"} \cup AckSteps => t = Consumer /\ s_count > 0

USE MaxItemsAssumption, NoItemAssumption, ConsumerAssumption

\* The array, the counter and the tasks' locals start bounded.
LEMMA InitBounded == Init => Bounded
<1> SUFFICES ASSUME Init PROVE Bounded
  OBVIOUS
<1>1. TypeOK
  BY DEF Init, TypeOK, Slots, Steps
<1>2. s_count \in 0 .. MaxItems
  BY DEF Init
<1>3. \A t \in Tasks : pc[t] = "idle"
  BY DEF Init
<1> QED
  BY <1>1, <1>2, <1>3 DEF Bounded, AckSteps

\* Every step of every task keeps the bounds.
LEMMA NextBounded == Bounded /\ [Next]_vars => Bounded'
<1> SUFFICES ASSUME Bounded, [Next]_vars PROVE Bounded'
  OBVIOUS
<1> USE DEF Bounded, TypeOK, Slots, Steps, EnqueueSteps, AckSteps, Begins, Ends
<1>1. ASSUME NEW t \in Tasks, EnqueueCheck(t) PROVE Bounded'
  BY <1>1 DEF EnqueueCheck
<1>2. ASSUME NEW t \in Tasks, Peek(t) PROVE Bounded'
  BY <1>2 DEF Peek, Flushes
<1>3. ASSUME NEW t \in Tasks, AckLoad(t) PROVE Bounded'
  BY <1>3 DEF AckLoad
<1>4. ASSUME NEW t \in Tasks, StoreItem(t) PROVE Bounded'
  <2>1. /\ count[t] \in Slots /\ s_items' = [s_items EXCEPT ![count[t]] = item[t]]
        /\ UNCHANGED <<s_count, count>>
    BY <1>4 DEF StoreItem
  <2>2. s_items' \in [Slots -> Items \cup {NoItem}]
    BY <2>1
  <2>3. pc' \in [Tasks -> Steps] /\ item' \in [Tasks -> Items \cup {NoItem}] /\ raced' \in BOOLEAN
    BY <1>4 DEF StoreItem, EnqueueReturns
  <2>4. pc'[t] \in {"idle", "copied"} /\ \A u \in Tasks \ {t} : pc'[u] = pc[u]
    BY <1>4 DEF StoreItem, EnqueueReturns
  <2> QED
    BY <2>1, <2>2, <2>3, <2>4
<1>5. ASSUME NEW t \in Tasks, StoreCount(t) PROVE Bounded'
  <2>1. count[t] \in Slots /\ s_count' = count[t] + 1 /\ UNCHANGED <<s_items, count>>
    BY <1>5 DEF StoreCount
  <2>2. s_count' \in 1 .. MaxItems
    BY <2>1
  <2>3. pc' \in [Tasks -> Steps] /\ item' \in [Tasks -> Items \cup {NoItem}] /\ raced' \in BOOLEAN
    BY <1>5 DEF StoreCount, EnqueueReturns
  <2>4. pc'[t] \in {"idle", "counted"} /\ \A u \in Tasks \ {t} : pc'[u] = pc[u]
    BY <1>5 DEF StoreCount, EnqueueReturns
  <2> QED
    BY <2>1, <2>2, <2>3, <2>4
<1>6. ASSUME NEW t \in Tasks, GiveUp(t) PROVE Bounded'
  BY <1>6 DEF GiveUp
<1>7. ASSUME NEW t \in Tasks, AckMove(t) PROVE Bounded'
  BY <1>7 DEF AckMove, Shifted
<1>8. ASSUME NEW t \in Tasks, AckReload(t) PROVE Bounded'
  BY <1>8 DEF AckReload
<1>9. ASSUME NEW t \in Tasks, AckStore(t) PROVE Bounded'
  BY <1>9 DEF AckStore
<1>10. ASSUME NEW t \in Tasks, EnqueueReload(t) PROVE Bounded'
  BY <1>10 DEF EnqueueReload
<1>11. CASE UNCHANGED vars
  BY <1>11 DEF vars
<1> QED
  BY <1>1, <1>2, <1>3, <1>4, <1>5, <1>6, <1>7, <1>8, <1>9, <1>10, <1>11 DEF Next, EnqueueRefuse

-----------------------------------------------------------------------------
\* A function that agrees with a sequence and goes one further appends to it.
LEMMA OneMore ==
  ASSUME NEW S, NEW n \in Nat, NEW a \in [1 .. n -> S], NEW b \in [1 .. n + 1 -> S],
         \A i \in 1 .. n : b[i] = a[i]
  PROVE  b = Append(a, b[n + 1])
<1>1. a \in Seq(S) /\ b \in Seq(S) /\ Len(a) = n /\ Len(b) = n + 1
  OBVIOUS
<1>2. Append(a, b[n + 1]) \in Seq(S) /\ Len(Append(a, b[n + 1])) = n + 1
  BY <1>1
<1>3. \A i \in 1 .. n + 1 : Append(a, b[n + 1])[i] = b[i]
  BY <1>1
<1> QED
  BY <1>1, <1>2, <1>3, SeqEqual

\* A function that skips the first element of a sequence is its tail.
LEMMA OneLess ==
  ASSUME NEW S, NEW n \in Nat \ {0}, NEW a \in [1 .. n -> S], NEW b \in [1 .. n - 1 -> S],
         \A i \in 1 .. n - 1 : b[i] = a[i + 1]
  PROVE  a # <<>> /\ b = Tail(a)
<1>1. a \in Seq(S) /\ b \in Seq(S) /\ Len(a) = n /\ Len(b) = n - 1
  OBVIOUS
<1>2. a # <<>> /\ Tail(a) \in Seq(S) /\ Len(Tail(a)) = n - 1
  BY <1>1
<1>3. \A i \in 1 .. n - 1 : Tail(a)[i] = a[i + 1]
  BY <1>1, <1>2
<1> QED
  BY <1>1, <1>2, <1>3, SeqEqual

-----------------------------------------------------------------------------
\* Outside an overlap the value a task works with is the counter's, and slot
\* 0 holds what the consumer has peeked.
Solo == \A t, u \in Tasks : Inside(t) /\ Inside(u) => t = u

Agrees ==
    \A t \in Tasks :
        /\ pc[t] \in {"checked", "loaded", "copied"} \cup AckSteps => count[t] = s_count
        /\ pc[t] = "counted" => count[t] = s_count - 1
        /\ pc[t] = "copied" => s_items[count[t]] = item[t]
        /\ pc[t] \in EnqueueSteps => item[t] \in Items /\ count[t] \in Slots

Steady ==
    pc[Consumer] \in {"peeked", "ackLoaded"} =>
        /\ s_items[0] = item[Consumer]
        /\ \A t \in Tasks : pc[t] \in EnqueueSteps => count[t] > 0

Orderly == Solo /\ Agrees /\ Steady

IInv == Bounded /\ (raced \/ Orderly)

\* Nothing is under way before any task calls.
LEMMA InitIInv == Init => IInv
  BY InitBounded DEF Init, IInv, Orderly, Solo, Agrees, Steady, Inside, EnqueueSteps, AckSteps

\* With every task outside, whatever the array holds is in order.
LEMMA IdleOrderly ==
  ASSUME \A t \in Tasks : pc[t] = "idle"
  PROVE  Orderly
  BY DEF Orderly, Solo, Agrees, Steady, Inside, EnqueueSteps, AckSteps

\* An operation that begins without overlapping finds nobody inside.
LEMMA BeginsAlone ==
  ASSUME NEW t \in Tasks, Begins(t), pc[t] \in {"idle", "peeked"}, ~raced'
  PROVE  ~raced /\ \A u \in Tasks : ~Inside(u)
  BY DEF Begins, Inside, EnqueueSteps, AckSteps

\* The step that ends an overlap leaves every task outside.
LEMMA OverlapEnds ==
  ASSUME Bounded, NEW t \in Tasks, Ends(t), raced, ~raced', pc' = [pc EXCEPT ![t] = "idle"]
  PROVE  Orderly'
<1>1. pc \in [Tasks -> Steps] /\ \A u \in Tasks \ {t} : pc[u] = "idle"
  BY DEF Bounded, TypeOK, Ends
<1>2. \A u \in Tasks : pc'[u] = "idle"
  BY <1>1
<1> QED
  BY <1>2 DEF Orderly, Solo, Agrees, Steady, Inside, EnqueueSteps, AckSteps

\* A task that begins alone, and the one inside, which goes on alone, keep
\* their local count and item in agreement with the module's state.
LEMMA NextOrderly ==
  ASSUME Bounded, Orderly, ~raced, ~raced', [Next]_vars
  PROVE  Orderly'
<1> USE DEF Orderly, Solo, Agrees, Steady, Inside, Bounded, TypeOK,
            Slots, Steps, EnqueueSteps, AckSteps
<1>1. ASSUME NEW t \in Tasks, EnqueueCheck(t) PROVE Orderly'
  <2>1. \A u \in Tasks : ~Inside(u)
    BY <1>1, BeginsAlone DEF EnqueueCheck
  <2>2. Solo' /\ Agrees'
    BY <1>1, <2>1 DEF EnqueueCheck
  <2>3. Steady'
    BY <1>1, <2>1 DEF EnqueueCheck
  <2> QED
    BY <2>2, <2>3
<1>2. ASSUME NEW t \in Tasks, Peek(t) PROVE Orderly'
  <2>1. \A u \in Tasks : ~Inside(u)
    BY <1>2, BeginsAlone DEF Peek
  <2>2. Solo' /\ Agrees'
    BY <1>2, <2>1 DEF Peek, Flushes
  <2>3. Steady'
    BY <1>2, <2>1 DEF Peek, Flushes
  <2> QED
    BY <2>2, <2>3
<1>3. ASSUME NEW t \in Tasks, AckLoad(t) PROVE Orderly'
  <2>1. \A u \in Tasks : ~Inside(u)
    BY <1>3, BeginsAlone DEF AckLoad
  <2>2. Solo' /\ Agrees'
    BY <1>3, <2>1 DEF AckLoad
  <2>3. Steady'
    BY <1>3, <2>1 DEF AckLoad
  <2> QED
    BY <2>2, <2>3
<1>4. ASSUME NEW t \in Tasks, EnqueueReload(t) PROVE Orderly'
  <2>1. Solo'
    BY <1>4 DEF EnqueueReload
  <2>2. Agrees'
    BY <1>4 DEF EnqueueReload
  <2>3. Steady'
    BY <1>4 DEF EnqueueReload
  <2> QED
    BY <2>1, <2>2, <2>3
<1>5. ASSUME NEW t \in Tasks, StoreItem(t) PROVE Orderly'
  <2>1. Solo'
    BY <1>5 DEF StoreItem, EnqueueReturns
  <2>2. Agrees'
    BY <1>5 DEF StoreItem, EnqueueReturns
  <2>3. Steady'
    BY <1>5 DEF StoreItem, EnqueueReturns
  <2> QED
    BY <2>1, <2>2, <2>3
<1>6. ASSUME NEW t \in Tasks, StoreCount(t) PROVE Orderly'
  <2>1. Solo'
    BY <1>6 DEF StoreCount, EnqueueReturns
  <2>2. Agrees'
    BY <1>6 DEF StoreCount, EnqueueReturns
  <2>3. Steady'
    BY <1>6 DEF StoreCount, EnqueueReturns
  <2> QED
    BY <2>1, <2>2, <2>3
<1>7. ASSUME NEW t \in Tasks, GiveUp(t) PROVE Orderly'
  BY <1>7 DEF GiveUp
<1>8. ASSUME NEW t \in Tasks, AckMove(t) PROVE Orderly'
  <2>1. Solo'
    BY <1>8 DEF AckMove, Shifted
  <2>2. Agrees'
    BY <1>8 DEF AckMove, Shifted
  <2>3. Steady'
    BY <1>8 DEF AckMove, Shifted
  <2> QED
    BY <2>1, <2>2, <2>3
<1>9. ASSUME NEW t \in Tasks, AckReload(t) PROVE Orderly'
  BY <1>9 DEF AckReload
<1>10. ASSUME NEW t \in Tasks, AckStore(t) PROVE Orderly'
  BY <1>10 DEF AckStore
<1>11. CASE UNCHANGED vars
  BY <1>11 DEF vars
<1> QED
  BY <1>1, <1>2, <1>3, <1>4, <1>5, <1>6, <1>7, <1>8, <1>9, <1>10, <1>11 DEF Next, EnqueueRefuse

\* Orderly holds again after the step that ends an overlap.
LEMMA NextSettled ==
  ASSUME Bounded, raced, ~raced', [Next]_vars
  PROVE  Orderly'
<1>1. PICK t \in Tasks : Ends(t) /\ pc' = [pc EXCEPT ![t] = "idle"]
  BY DEF Next, vars, EnqueueCheck, EnqueueRefuse, EnqueueReload, StoreItem, StoreCount,
         EnqueueReturns, Peek, GiveUp, AckLoad, AckMove, AckReload, AckStore, Begins
<1> QED
  BY <1>1, OverlapEnds

\* The invariant of the queue as the code runs it.
LEMMA NextIInv == IInv /\ [Next]_vars => IInv'
<1> SUFFICES ASSUME IInv, [Next]_vars PROVE IInv'
  OBVIOUS
<1>1. Bounded /\ Bounded'
  BY NextBounded DEF IInv
<1>2. raced' \/ Orderly'
  BY <1>1, NextOrderly, NextSettled DEF IInv
<1> QED
  BY <1>1, <1>2 DEF IInv

\* Every reachable state satisfies the invariant.
LEMMA SpecIInv == Spec => []IInv
  BY InitIInv, NextIInv, PTL DEF Spec

\* The unserialised tasks never wrap the counter, and they leave the array
\* only after two enqueues have overlapped.
THEOREM QueueAccessesStayInBounds == Spec => [](TypeOK /\ AccessInBounds)
<1>1. IInv => TypeOK /\ AccessInBounds
  BY DEF IInv, Bounded, Orderly, Agrees, AccessInBounds, TypeOK
<1> QED
  BY SpecIInv, <1>1, PTL

-----------------------------------------------------------------------------
HalfSteps == {"counted", "moved", "reloaded"}

\* The contents are a sequence of the length the counter says.
LEMMA ContentsType ==
  ASSUME Bounded, Held \in 0 .. MaxItems
  PROVE  Contents \in [1 .. Held -> Items \cup {NoItem}]
  BY DEF Bounded, TypeOK, Contents, Slots

\* Seen from outside, an operation is half done when the task inside is.
LEMMA HeldInside ==
  ASSUME Solo, NEW t \in Tasks, Inside(t)
  PROVE  Held = IF pc[t] \in HalfSteps THEN s_count - 1 ELSE s_count
  BY DEF Solo, Inside, Held, HalfDone, HalfSteps, EnqueueSteps, AckSteps

\* With nobody inside, the counter counts the items.
LEMMA HeldOutside ==
  ASSUME \A t \in Tasks : ~Inside(t)
  PROVE  Held = s_count
  BY DEF Inside, Held, HalfDone, EnqueueSteps, AckSteps

\* A step that changes neither the length nor a slot below it changes nothing.
LEMMA SameContents ==
  ASSUME Held' = Held, \A i \in 1 .. Held : s_items'[i - 1] = s_items[i - 1]
  PROVE  Contents' = Contents
  BY DEF Contents

\* A step that adds one slot holding e appends e.
LEMMA AppendsContents ==
  ASSUME Bounded, Bounded', ~raced, ~raced', Held \in 0 .. MaxItems - 1, Held' = Held + 1,
         NEW e \in Items, s_items'[Held] = e,
         \A i \in 1 .. Held : s_items'[i - 1] = s_items[i - 1]
  PROVE  Abstract!Enqueue(e)
<1>1. /\ Contents \in [1 .. Held -> Items \cup {NoItem}]
      /\ Contents' \in [1 .. Held + 1 -> Items \cup {NoItem}]
  <2>1. Held' \in 0 .. MaxItems
    BY MaxItemsAssumption
  <2> QED
    BY <2>1 DEF Bounded, TypeOK, Contents, Slots
<1>2. \A i \in 1 .. Held : Contents'[i] = Contents[i]
  BY <1>1 DEF Contents
<1>3. Contents'[Held + 1] = e
  BY <1>1 DEF Contents
<1>4. Contents' = Append(Contents, e)
  <2> DEFINE a == Contents  b == Contents'  n == Held
  <2>1. n \in Nat /\ a \in [1 .. n -> Items \cup {NoItem}] /\ b \in [1 .. n + 1 -> Items \cup {NoItem}]
    BY <1>1
  <2>2. (\A i \in 1 .. n : b[i] = a[i]) /\ b[n + 1] = e
    BY <1>2, <1>3
  <2> HIDE DEF a, b, n
  <2>3. b = Append(a, b[n + 1])
    BY <2>1, <2>2, OneMore
  <2> QED
    BY <2>2, <2>3 DEF a, b
<1>5. Len(Contents) = Held
  BY <1>1
<1> QED
  BY <1>4, <1>5 DEF Abstract!Enqueue, Bounded, TypeOK

\* Outside an overlap every step is an enqueue, an ack or a stutter of the
\* bounded FIFO.
LEMMA OrderlyStepRefines ==
  ASSUME IInv, IInv', ~raced, ~raced', [Next]_vars
  PROVE  [Abstract!Next]_Contents
<1>1. /\ Bounded /\ Bounded' /\ Solo /\ Solo' /\ Agrees /\ Agrees'
      /\ s_count \in 0 .. MaxItems /\ s_count' \in 0 .. MaxItems
      /\ s_items \in [Slots -> Items \cup {NoItem}] /\ pc \in [Tasks -> Steps]
      /\ count \in [Tasks -> Nat]
  BY DEF IInv, Orderly, Bounded, TypeOK
<1> USE DEF HalfSteps, EnqueueSteps, AckSteps
<1>2. ASSUME NEW t \in Tasks, EnqueueCheck(t) \/ Peek(t) \/ AckLoad(t)
      PROVE Contents' = Contents
  <2>0. \A u \in Tasks : ~Inside(u)
    BY <1>2, BeginsAlone DEF EnqueueCheck, Peek, AckLoad
  <2>1. Held = s_count /\ UNCHANGED <<s_count, s_items>>
    BY <1>2, <2>0, HeldOutside DEF EnqueueCheck, Peek, AckLoad
  <2>2. ~HalfDone'
    BY <1>1, <1>2, <2>0 DEF EnqueueCheck, Peek, AckLoad, HalfDone, Inside
  <2>3. Held' = Held
    BY <2>1, <2>2 DEF Held
  <2> QED
    BY <2>1, <2>3, SameContents
<1>3. ASSUME NEW t \in Tasks, StoreItem(t) PROVE [Abstract!Next]_Contents
  <2>1. /\ Inside(t) /\ count[t] \in Slots /\ item[t] \in Items /\ s_count' = s_count
        /\ s_items' = [s_items EXCEPT ![count[t]] = item[t]]
    BY <1>1, <1>3 DEF StoreItem, Inside, Agrees
  <2>2. CASE pc[t] \in {"checked", "loaded"}
    <3>1. count[t] = s_count /\ Held = s_count
      BY <1>1, <2>1, <2>2, HeldInside DEF Agrees
    <3>2. pc'[t] = "copied"
      BY <1>1, <1>3, <2>2 DEF StoreItem
    <3>3. Held' = s_count'
      <4>1. ~HalfDone'
        BY <1>1, <3>2 DEF HalfDone, Solo, Inside
      <4> QED
        BY <4>1 DEF Held
    <3>4. \A i \in 1 .. Held : s_items'[i - 1] = s_items[i - 1]
      BY <1>1, <2>1, <3>1 DEF Slots
    <3> QED
      BY <2>1, <3>1, <3>3, <3>4, SameContents
  <2>3. CASE pc[t] = "counted"
    <3>1. count[t] = s_count - 1 /\ Held = s_count - 1
      BY <1>1, <2>1, <2>3, HeldInside DEF Agrees
    <3>2. \A u \in Tasks : ~Inside(u)'
      BY <1>1, <1>3, <2>1, <2>3 DEF StoreItem, EnqueueReturns, Solo, Inside
    <3>3. Held' = s_count'
      BY <3>2 DEF Held, HalfDone, Inside
    <3>4. s_items'[Held] = item[t] /\ \A i \in 1 .. Held : s_items'[i - 1] = s_items[i - 1]
      BY <1>1, <2>1, <3>1 DEF Slots
    <3>5. Held \in 0 .. MaxItems - 1 /\ Held' = Held + 1
      BY <1>1, <2>1, <3>1, <3>3, MaxItemsAssumption DEF Slots
    <3>6. Abstract!Enqueue(item[t])
      BY <1>1, <2>1, <3>4, <3>5, AppendsContents
    <3> QED
      BY <2>1, <3>6 DEF Abstract!Next
  <2> QED
    BY <1>3, <2>2, <2>3 DEF StoreItem
<1>4. ASSUME NEW t \in Tasks, StoreCount(t) PROVE [Abstract!Next]_Contents
  <2>1. /\ Inside(t) /\ count[t] = s_count /\ count[t] \in Slots /\ item[t] \in Items
        /\ Held = s_count /\ s_count' = s_count + 1 /\ s_items' = s_items
    <3>1. pc[t] \in {"checked", "loaded", "copied"} /\ s_count' = count[t] + 1 /\ s_items' = s_items
      BY <1>4 DEF StoreCount
    <3>2. Inside(t) /\ count[t] = s_count /\ count[t] \in Slots /\ item[t] \in Items
      BY <1>1, <3>1 DEF Inside, Bounded, Agrees
    <3> QED
      BY <1>1, <3>1, <3>2, HeldInside
  <2>2. CASE pc[t] \in {"checked", "loaded"}
    <3>1. pc'[t] = "counted" /\ pc' = [pc EXCEPT ![t] = "counted"]
      BY <1>1, <1>4, <2>2 DEF StoreCount
    <3>2. HalfDone'
      BY <3>1 DEF HalfDone
    <3>3. Held' = Held
      BY <1>1, <2>1, <3>2 DEF Held
    <3> QED
      BY <2>1, <3>3, SameContents
  <2>3. CASE pc[t] = "copied"
    <3>1. s_items[count[t]] = item[t]
      BY <1>1, <2>3 DEF Agrees
    <3>2. \A u \in Tasks : ~Inside(u)'
      BY <1>1, <1>4, <2>1, <2>3 DEF StoreCount, EnqueueReturns, Solo, Inside
    <3>3. Held' = s_count'
      BY <3>2 DEF Held, HalfDone, Inside
    <3>4. Held \in 0 .. MaxItems - 1 /\ Held' = Held + 1
      BY <1>1, <2>1, <3>3, MaxItemsAssumption DEF Slots
    <3>5. s_items'[Held] = item[t] /\ \A i \in 1 .. Held : s_items'[i - 1] = s_items[i - 1]
      BY <2>1, <3>1
    <3>6. Abstract!Enqueue(item[t])
      BY <1>1, <2>1, <3>4, <3>5, AppendsContents
    <3> QED
      BY <2>1, <3>6 DEF Abstract!Next
  <2> QED
    BY <1>4, <2>2, <2>3 DEF StoreCount
<1>5. ASSUME NEW t \in Tasks, GiveUp(t) PROVE Contents' = Contents
  <2>1. UNCHANGED <<s_count, s_items>>
    BY <1>5 DEF GiveUp
  <2>2. HalfDone' <=> HalfDone
    BY <1>1, <1>5 DEF GiveUp, HalfDone
  <2> QED
    BY <2>1, <2>2, SameContents DEF Held
<1>6. ASSUME NEW t \in Tasks, AckMove(t) PROVE [Abstract!Next]_Contents
  <2>1. /\ Inside(t) /\ count[t] = s_count /\ s_count \in 1 .. MaxItems /\ Held = s_count
        /\ s_count' = s_count /\ s_items' = Shifted(count[t])
    <3>1. pc[t] = "ackLoaded" /\ s_count' = s_count /\ s_items' = Shifted(count[t])
      BY <1>6 DEF AckMove
    <3>2. Inside(t) /\ count[t] = s_count /\ s_count \in 1 .. MaxItems
      BY <1>1, <3>1 DEF Inside, Bounded, Agrees
    <3> QED
      BY <1>1, <3>1, <3>2, HeldInside
  <2>2. HalfDone'
    BY <1>1, <1>6 DEF AckMove, HalfDone
  <2>3. Held' = Held - 1
    BY <2>1, <2>2 DEF Held
  <2>4. \A i \in 1 .. Held - 1 : s_items'[i - 1] = s_items[i]
    BY <1>1, <2>1, MaxItemsAssumption DEF Shifted, Slots
  <2>5. /\ Contents \in [1 .. Held -> Items \cup {NoItem}]
        /\ Contents' \in [1 .. Held - 1 -> Items \cup {NoItem}]
    <3>1. s_items' \in [Slots -> Items \cup {NoItem}]
      BY <1>1 DEF Bounded, TypeOK
    <3> QED
      BY <1>1, <2>1, <2>3, <3>1, MaxItemsAssumption DEF Contents, Slots
  <2>6. \A i \in 1 .. Held - 1 : Contents'[i] = Contents[i + 1]
    BY <2>1, <2>3, <2>4 DEF Contents
  <2>7. Contents # <<>> /\ Contents' = Tail(Contents)
    <3> DEFINE a == Contents  b == Contents'  n == Held
    <3>1. /\ n \in Nat \ {0}
          /\ a \in [1 .. n -> Items \cup {NoItem}] /\ b \in [1 .. n - 1 -> Items \cup {NoItem}]
          /\ \A i \in 1 .. n - 1 : b[i] = a[i + 1]
      BY <2>1, <2>5, <2>6
    <3> HIDE DEF a, b, n
    <3>2. a # <<>> /\ b = Tail(a)
      BY <3>1, OneLess
    <3> QED
      BY <3>2 DEF a, b
  <2> QED
    BY <1>1, <1>6, <2>7 DEF Abstract!Next, Abstract!Ack, AckMove
<1>7. ASSUME NEW t \in Tasks, AckReload(t) PROVE Contents' = Contents
  <2>1. UNCHANGED <<s_count, s_items>> /\ HalfDone /\ HalfDone'
    BY <1>1, <1>7 DEF AckReload, HalfDone
  <2> QED
    BY <2>1, SameContents DEF Held
<1>8. ASSUME NEW t \in Tasks, AckStore(t) PROVE Contents' = Contents
  <2>1. /\ pc[t] \in {"moved", "reloaded"} /\ s_items' = s_items /\ s_count' = s_count - 1
    BY <1>1, <1>8 DEF AckStore, Agrees
  <2>2. HalfDone /\ ~HalfDone'
    BY <1>1, <1>8 DEF AckStore, HalfDone, Solo, Inside
  <2> QED
    BY <2>1, <2>2, SameContents DEF Held
<1>9. ASSUME NEW t \in Tasks, EnqueueReload(t) PROVE Contents' = Contents
  <2>1. UNCHANGED <<s_count, s_items>>
    BY <1>9 DEF EnqueueReload
  <2>2. HalfDone' <=> HalfDone
    BY <1>1, <1>9 DEF EnqueueReload, HalfDone
  <2> QED
    BY <2>1, <2>2, SameContents DEF Held
<1>10. CASE UNCHANGED vars
  <2>1. UNCHANGED <<s_items, s_count, pc>>
    BY <1>10 DEF vars
  <2>2. Held' = Held
    BY <2>1 DEF Held, HalfDone
  <2> QED
    BY <2>1, <2>2, SameContents
<1> QED
  BY <1>2, <1>3, <1>4, <1>5, <1>6, <1>7, <1>8, <1>9, <1>10 DEF Next, EnqueueRefuse

\* Every step of the unserialised tasks is a step of the queue that promises
\* nothing while operations overlap.
LEMMA StepRefines ==
  ASSUME IInv, IInv', [Next]_vars
  PROVE  [Abstract!Next]_<<Contents, raced>>
<1>1. raced \in BOOLEAN /\ raced' \in BOOLEAN
  BY DEF IInv, Bounded, TypeOK
<1>2. CASE raced'
  BY <1>1, <1>2 DEF Abstract!Next, Abstract!Race
<1>3. CASE raced /\ ~raced'
  BY <1>1, <1>3 DEF Abstract!Next, Abstract!Settle
<1>4. CASE ~raced /\ ~raced'
  BY <1>1, <1>4, OrderlyStepRefines
<1> QED
  BY <1>1, <1>2, <1>3, <1>4

\* The array and its counter are a bounded FIFO outside overlaps, for any
\* number of tasks, items and slots.
THEOREM QueueIsFifoOutsideOverlaps == Spec => RefinesOfflineQueue
<1>1. Init => Abstract!Init
  BY DEF Init, Abstract!Init, Contents, Held, HalfDone
<1> QED
  BY SpecIInv, StepRefines, <1>1, PTL DEF Spec, RefinesOfflineQueue, Abstract!Spec

\* ack removes the item the consumer has peeked unless operations overlap.
THEOREM AckRemovesThePeekedItem == Spec => []AckRemovesPeeked
<1>1. IInv => AckRemovesPeeked
  BY DEF IInv, Orderly, Bounded, Steady, AckRemovesPeeked, AckSteps
<1> QED
  BY SpecIInv, <1>1, PTL

\* The types of the array and of the operations' local variables.
THEOREM QueueTypeOK == Spec => []TypeOK
BY QueueAccessesStayInBounds, PTL
=============================================================================

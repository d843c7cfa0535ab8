------------------------- MODULE EventDeliveryProofs -------------------------
(***************************************************************************)
(* The delivery path for every queue size, flush size and set of events.   *)
(*                                                                         *)
(* Typed adds to TypeOK that only the touch task is ever inside the flush  *)
(* and that, until operations of the queue overlap, the head of the queue  *)
(* is the item in its hand between a peek and its ack.  With it FifoReplay *)
(* is inductive.  Placed adds to the account of the events that no two     *)
(* tasks carry the same one and that a carried event is in no other place; *)
(* it needs nothing of the queue but what its calls return.                *)
(***************************************************************************)
EXTENDS EventDelivery, SequenceTheorems, TLAPS

\* Storing behind the waiting events stores behind all accepted ones.
LEMMA ConcatAppend ==
  ASSUME NEW S, NEW s \in Seq(S), NEW w \in Seq(S), NEW e \in S
  PROVE  s \o Append(w, e) = Append(s \o w, e)
  OBVIOUS

\* Storing does not disturb the head of a queue that holds something.
LEMMA TailAppend ==
  ASSUME NEW S, NEW q \in Seq(S), NEW e \in S, q # <<>>
  PROVE  Tail(Append(q, e)) = Append(Tail(q), e)
  OBVIOUS

\* Storing adds one item behind the head.
LEMMA AppendHead ==
  ASSUME NEW S, NEW q \in Seq(S), NEW e \in S, NEW m \in Nat, Len(q) < m
  PROVE  /\ Append(q, e) \in Seq(S) /\ Len(Append(q, e)) <= m /\ Append(q, e) # <<>>
         /\ q # <<>> => Head(Append(q, e)) = Head(q)
  OBVIOUS

\* Moving the head of the queue to the replayed events keeps their order.
LEMMA ConcatHead ==
  ASSUME NEW S, NEW s \in Seq(S), NEW q \in Seq(S), q # <<>>
  PROVE  Append(s, Head(q)) \o Tail(q) = s \o q
  OBVIOUS

\* Appending adds one element.
LEMMA ElementsAppend ==
  ASSUME NEW S, NEW s \in Seq(S), NEW e \in S
  PROVE  Elements(Append(s, e)) = Elements(s) \cup {e}
<1> DEFINE a == Append(s, e)
<1>1. DOMAIN s = 1 .. Len(s) /\ Len(s) \in Nat
  OBVIOUS
<1>2. DOMAIN a = 1 .. Len(s) + 1 /\ a[Len(s) + 1] = e
  OBVIOUS
<1>3. \A i \in 1 .. Len(s) : a[i] = s[i]
  OBVIOUS
<1>4. \A i \in DOMAIN a : a[i] = e \/ (i \in DOMAIN s /\ a[i] = s[i])
  <2> TAKE i \in DOMAIN a
  <2> HIDE DEF a
  <2>1. i = Len(s) + 1 \/ i \in 1 .. Len(s)
    BY <1>1, <1>2
  <2> QED
    BY <2>1, <1>1, <1>2, <1>3
<1> HIDE DEF a
<1>5. DOMAIN s \subseteq DOMAIN a /\ Len(s) + 1 \in DOMAIN a
  BY <1>1, <1>2
<1>6. Elements(a) \subseteq Elements(s) \cup {e}
  BY <1>4 DEF Elements
<1>7. Elements(s) \cup {e} \subseteq Elements(a)
  BY <1>1, <1>2, <1>3, <1>5 DEF Elements
<1> QED
  BY <1>6, <1>7 DEF a

\* A new event stored behind distinct ones leaves them distinct.
LEMMA AppendKeepsDistinct ==
  ASSUME NEW S, NEW s \in Seq(S), NEW e \in S, e \notin Elements(s),
         \A i, j \in DOMAIN s : i # j => s[i] # s[j]
  PROVE  \A i, j \in DOMAIN Append(s, e) : i # j => Append(s, e)[i] # Append(s, e)[j]
<1> DEFINE a == Append(s, e)
<1>1. DOMAIN s = 1 .. Len(s) /\ Len(s) \in Nat
  OBVIOUS
<1>2. DOMAIN a = 1 .. Len(s) + 1 /\ a[Len(s) + 1] = e
  OBVIOUS
<1>3. \A i \in 1 .. Len(s) : a[i] = s[i]
  OBVIOUS
<1> HIDE DEF a
<1>4. \A i \in DOMAIN s : s[i] # e
  BY DEF Elements
<1>5. \A i, j \in DOMAIN a : i # j => a[i] # a[j]
  BY <1>1, <1>2, <1>3, <1>4
<1> QED
  BY <1>5 DEF a

\* Head and tail of a sequence that is not empty.
LEMMA HeadElement ==
  ASSUME NEW S, NEW s \in Seq(S), s # <<>>
  PROVE  Head(s) \in S /\ Tail(s) \in Seq(S) /\ Len(Tail(s)) = Len(s) - 1
  OBVIOUS

-----------------------------------------------------------------------------
FlushSteps == {"flush", "peek"} \cup Replaying

\* Only the touch task flushes, and what it has peeked is the head.
OneFlush ==
    /\ \A t \in Tasks \ {"touch"} : pc[t] \notin FlushSteps
    /\ pc["touch"] \in Replaying =>
          /\ processed < FlushMax
          /\ raced \/ (queue # <<>> /\ hand["touch"] = Head(queue) /\ hand["touch"] # NoEvent)

Typed == TypeOK /\ OneFlush

\* An operation of the queue that begins leaves the queue alone or ends what
\* is known of it.
LEMMA UsedQueue ==
  ASSUME NEW t \in Tasks, QueueUsed(t), queue \in Seq(Events), raced \in BOOLEAN
  PROVE  (raced' = TRUE /\ queue' = <<>>) \/ (raced' = raced /\ queue' = queue)
  BY DEF QueueUsed, Offline!Race

\* An overlap is never forgotten.
LEMMA StaysRaced ==
  ASSUME TypeOK, [Next]_vars, raced
  PROVE  raced'
<1>1. ASSUME NEW t \in Tasks, QueueUsed(t) PROVE raced'
  BY <1>1, UsedQueue DEF TypeOK
<1>2. ASSUME NEW t \in Tasks, Begin(t) \/ UseCase(t) PROVE raced'
  BY <1>1, <1>2 DEF Begin, UseCase, Compose, NoMatch, CheckConnected, EmitFirst, StoreBegins,
     StoreRefused, StoreEnds, Reply, Flush, Peek, EmitHeadSucceeds, EmitHeadFails, AckBegins, AckEnds
<1>3. CASE \/ Teardown \/ StartClient \/ OnConnected \/ OnDisconnected \/ LinkFails
           \/ UNCHANGED vars
  BY <1>3 DEF Teardown, StartClient, OnConnected, OnDisconnected, LinkFails, unchangedByTransport, vars
<1> QED
  BY <1>2, <1>3 DEF Next

\* The first state is typed.
LEMMA InitTyped == Init => Typed
<1> SUFFICES ASSUME Init PROVE Typed
  OBVIOUS
<1>1. queue = <<>> /\ queue \in Seq(Events) /\ Len(queue) <= MaxItems
  BY BoundsAssumption DEF Init
<1>2. enqueued \in Seq(Events) /\ replayed \in Seq(Events) /\ processed \in 0 .. FlushMax
  BY BoundsAssumption DEF Init
<1>3. /\ pc \in [Tasks -> Steps] /\ hand \in [Tasks -> Events \cup {NoEvent}]
      /\ \A t \in Tasks : pc[t] = "idle" /\ hand[t] = NoEvent
  BY DEF Init, Steps
<1> QED
  BY <1>1, <1>2, <1>3 DEF Init, Typed, TypeOK, OneFlush, FlushSteps, Tasks, Carrying, Replaying, AckSteps

\* Every step of the use cases and of the transport keeps the types.
LEMMA NextTyped == Typed /\ [Next]_vars => Typed'
<1> SUFFICES ASSUME Typed, [Next]_vars PROVE Typed'
  OBVIOUS
<1> USE EventsAssumption, BoundsAssumption
    DEF Typed, TypeOK, OneFlush, FlushSteps, Steps, Carrying, Replaying, AckSteps, Tasks,
        GoTo, Carry, LetGo, transport, unchangedByTransport
<1>1. ASSUME NEW t \in Tasks, Compose(t) PROVE Typed'
  BY <1>1 DEF Compose, Makes, Events
<1>2. ASSUME NEW t \in Tasks, NoMatch(t) PROVE Typed'
  BY <1>2 DEF NoMatch, After
<1>3. ASSUME NEW t \in Tasks, CheckConnected(t) PROVE Typed'
  BY <1>3 DEF CheckConnected
<1>4. ASSUME NEW t \in Tasks, EmitFirst(t) PROVE Typed'
  <2>1. CASE pc'[t] = "store"
    <3>1. After(t) # "store" /\ pc[t] = "emit"
      BY <1>4 DEF After, EmitFirst
    <3>2. /\ SendFails /\ GoTo(t, "store")
          /\ UNCHANGED <<hand, direct, queue, processed, created, enqueued, replayed, dropped, raced>>
      BY <1>4, <2>1, <3>1 DEF EmitFirst
    <3>3. s_client' \in BOOLEAN /\ s_connected' \in BOOLEAN /\ link' \in {"up", "broken", "down"}
      BY <3>2 DEF SendFails
    <3> QED
      BY <3>1, <3>2, <3>3 DEF SendFails
  <2>2. CASE pc'[t] # "store"
    <3>1. /\ pc[t] = "emit" /\ GoTo(t, After(t)) /\ LetGo(t)
          /\ SendSucceeds /\ Reaches(hand[t]) /\ direct' = direct \cup {hand[t]}
          /\ UNCHANGED <<queue, processed, created, enqueued, replayed, dropped, raced>>
      BY <1>4, <2>2 DEF EmitFirst
    <3>2. hand[t] \in Events
      BY <3>1
    <3>3. After(t) \in {"flush", "reply", "idle"} /\ (After(t) = "flush" => t = "touch")
      BY DEF After
    <3> QED
      BY <3>1, <3>2, <3>3 DEF SendSucceeds, Reaches
  <2> QED
    BY <2>1, <2>2
<1>5. ASSUME NEW t \in Tasks, StoreEnds(t) PROVE Typed'
  <2>1. hand[t] \in Events /\ pc[t] = "storing"
    BY <1>5 DEF StoreEnds
  <2>2. After(t) \in {"flush", "reply", "idle"} /\ (After(t) = "flush" => t = "touch")
    BY DEF After
  <2>3. enqueued' \in Seq(Events)
    BY <1>5, <2>1 DEF StoreEnds
  <2>4. CASE raced
    <3>1. UNCHANGED <<queue, raced>>
      BY <1>5, <2>4 DEF StoreEnds
    <3> QED
      BY <1>5, <2>1, <2>2, <2>3, <2>4, <3>1 DEF StoreEnds
  <2>5. CASE ~raced
    <3>1. Len(queue) < MaxItems /\ queue' = Append(queue, hand[t]) /\ UNCHANGED raced
      BY <1>5, <2>5 DEF StoreEnds, Offline!Enqueue
    <3>2. /\ queue' \in Seq(Events) /\ Len(queue') <= MaxItems /\ queue' # <<>>
          /\ queue # <<>> => Head(queue') = Head(queue)
      BY <2>1, <3>1, AppendHead
    <3> QED
      BY <1>5, <2>1, <2>2, <2>3, <3>1, <3>2 DEF StoreEnds
  <2> QED
    BY <2>4, <2>5
<1>18. ASSUME NEW t \in Tasks, QueueUsed(t)
       PROVE  /\ queue' \in Seq(Events) /\ Len(queue') <= MaxItems /\ raced' \in BOOLEAN
              /\ raced' \/ UNCHANGED <<queue, raced>>
  <2>1. /\ <<>> \in Seq(Events) /\ Len(<<>>) = 0 /\ queue \in Seq(Events) /\ Len(queue) <= MaxItems
        /\ raced \in BOOLEAN /\ 0 <= MaxItems
    OBVIOUS
  <2>2. (raced' = TRUE /\ queue' = <<>>) \/ (raced' = raced /\ queue' = queue)
    BY <1>18, <2>1, UsedQueue
  <2> QED
    BY <2>1, <2>2
<1>19. ASSUME NEW t \in Tasks, StoreBegins(t) PROVE Typed'
  BY <1>18, <1>19 DEF StoreBegins
<1>20. ASSUME NEW t \in Tasks, StoreRefused(t) PROVE Typed'
  <2>1. hand[t] \in Events /\ pc[t] = "store"
    BY <1>20 DEF StoreRefused
  <2>2. After(t) \in {"flush", "reply", "idle"} /\ (After(t) = "flush" => t = "touch")
    BY DEF After
  <2> QED
    BY <1>18, <1>20, <2>1, <2>2 DEF StoreRefused
<1>6. ASSUME NEW t \in Tasks, Reply(t) PROVE Typed'
  BY <1>6 DEF Reply, SendSucceeds, SendFails, Ready
<1>7. ASSUME NEW t \in Tasks, Flush(t) PROVE Typed'
  BY <1>7 DEF Flush
<1>8. ASSUME NEW t \in Tasks, Peek(t) PROVE Typed'
  <2>1. t = "touch" /\ pc[t] = "peek"
    BY <1>8 DEF Peek
  <2>2. CASE ~raced' /\ queue # <<>> /\ Carry(t, Head(queue)) /\ GoTo(t, "emitHead") /\ processed < FlushMax
    <3>1. UNCHANGED <<queue, raced>> /\ Head(queue) \in Events
      BY <1>8, <1>18, <2>2, HeadElement DEF Peek
    <3> QED
      BY <1>8, <2>1, <2>2, <3>1 DEF Peek
  <2>3. CASE raced' /\ LetGo(t) /\ GoTo(t, "emitHead") /\ processed < FlushMax
    BY <1>8, <1>18, <2>1, <2>3 DEF Peek
  <2>4. CASE GoTo(t, "idle") /\ UNCHANGED hand
    BY <1>8, <1>18, <2>1, <2>4 DEF Peek
  <2> QED
    BY <1>8, <2>2, <2>3, <2>4 DEF Peek
<1>9. ASSUME NEW t \in Tasks, EmitHeadSucceeds(t) PROVE Typed'
  <2>1. t = "touch" /\ pc[t] = "emitHead" /\ hand[t] \in Events \cup {NoEvent}
    BY <1>9 DEF EmitHeadSucceeds
  <2>2. replayed' \in Seq(Events)
    <3>1. CASE raced
      BY <1>9, <3>1 DEF EmitHeadSucceeds
    <3>2. CASE ~raced
      BY <1>9, <2>1, <3>2 DEF EmitHeadSucceeds
    <3> QED
      BY <3>1, <3>2
  <2>3. delivered' \subseteq Events \cup {NoEvent}
    BY <1>9, <2>1 DEF EmitHeadSucceeds, Reaches
  <2> QED
    BY <1>9, <2>1, <2>2, <2>3 DEF EmitHeadSucceeds, SendSucceeds
<1>10. ASSUME NEW t \in Tasks, EmitHeadFails(t) PROVE Typed'
  BY <1>10 DEF EmitHeadFails, SendFails, Ready
<1>11. ASSUME NEW t \in Tasks, AckEnds(t) PROVE Typed'
  <2>1. t = "touch" /\ processed < FlushMax
    BY <1>11 DEF AckEnds
  <2>2. queue' \in Seq(Events) /\ Len(queue') <= MaxItems /\ UNCHANGED raced
    <3>1. CASE raced
      BY <1>11, <3>1 DEF AckEnds
    <3>2. CASE ~raced
      <4>1. queue # <<>> /\ queue' = Tail(queue) /\ UNCHANGED raced
        BY <1>11, <3>2 DEF AckEnds, Offline!Ack
      <4>2. queue \in Seq(Events) /\ Len(queue) <= MaxItems /\ MaxItems \in Nat
        OBVIOUS
      <4> QED
        BY <4>1, <4>2, HeadElement
    <3> QED
      BY <3>1, <3>2
  <2> QED
    BY <1>11, <2>1, <2>2 DEF AckEnds
<1>21. ASSUME NEW t \in Tasks, AckBegins(t) PROVE Typed'
  BY <1>18, <1>21 DEF AckBegins
<1>12. CASE Teardown
  BY <1>12 DEF Teardown
<1>13. CASE StartClient
  BY <1>13 DEF StartClient
<1>14. CASE OnConnected
  BY <1>14 DEF OnConnected
<1>15. CASE OnDisconnected
  BY <1>15 DEF OnDisconnected
<1>16. CASE LinkFails
  BY <1>16 DEF LinkFails
<1>17. CASE UNCHANGED vars
  BY <1>17 DEF vars
<1> QED
  BY <1>1, <1>2, <1>3, <1>4, <1>5, <1>6, <1>7, <1>8, <1>9, <1>10, <1>11, <1>12,
     <1>13, <1>14, <1>15, <1>16, <1>17, <1>19, <1>20, <1>21 DEF Next, Begin, UseCase

-----------------------------------------------------------------------------
\* A step that leaves the queue and the replay alone keeps their equation.
LEMMA ReplayUntouched ==
  ASSUME FifoReplay, UNCHANGED <<queue, enqueued, replayed, raced>>,
         pc'["touch"] \in AckSteps <=> pc["touch"] \in AckSteps
  PROVE  FifoReplay'
  BY DEF FifoReplay, Waiting

\* Three actions touch the equation: a store appends to both of its sides, an
\* emit of the head moves it over, an ack catches up with the emit.
LEMMA NextFifoReplay == Typed /\ FifoReplay /\ [Next]_vars => FifoReplay'
<1> SUFFICES ASSUME Typed, FifoReplay, [Next]_vars, ~raced' PROVE FifoReplay'
  BY DEF FifoReplay
<1>0. ~raced
  BY StaysRaced DEF Typed
<1>1. /\ queue \in Seq(Events) /\ enqueued \in Seq(Events) /\ replayed \in Seq(Events)
      /\ pc \in [Tasks -> Steps] /\ hand \in [Tasks -> Events \cup {NoEvent}]
      /\ "touch" \in Tasks /\ raced \in BOOLEAN
      /\ \A t \in Tasks : pc[t] \in FlushSteps => t = "touch"
  BY DEF Typed, TypeOK, OneFlush, Tasks
<1>2. pc["touch"] \in Replaying => queue # <<>> /\ hand["touch"] = Head(queue)
  BY <1>0 DEF Typed, OneFlush
<1>9. ASSUME NEW t \in Tasks, QueueUsed(t) PROVE UNCHANGED <<queue, raced>>
  BY <1>1, <1>9, UsedQueue
<1>3. ASSUME NEW t \in Tasks, StoreEnds(t) PROVE FifoReplay'
  <2>1. hand[t] \in Events
    BY <1>3 DEF StoreEnds, Typed, TypeOK, Carrying
  <2>2. pc'["touch"] \in AckSteps <=> pc["touch"] \in AckSteps
    BY <1>1, <1>3 DEF StoreEnds, GoTo, After, AckSteps
  <2>3. queue' = Append(queue, hand[t]) /\ enqueued' = Append(enqueued, hand[t]) /\ UNCHANGED raced
    BY <1>0, <1>3 DEF StoreEnds, Offline!Enqueue
  <2>4. Waiting \in Seq(Events) /\ Waiting' = Append(Waiting, hand[t])
    <3>1. CASE pc["touch"] \in AckSteps
      BY <3>1, <1>0, <1>1, <1>2, <2>1, <2>2, <2>3, TailAppend, HeadElement DEF Waiting, Replaying
    <3>2. CASE pc["touch"] \notin AckSteps
      BY <3>2, <1>1, <2>2, <2>3 DEF Waiting
    <3> QED
      BY <3>1, <3>2
  <2>5. replayed' = replayed
    BY <1>3 DEF StoreEnds
  <2>6. replayed \o Append(Waiting, hand[t]) = Append(replayed \o Waiting, hand[t])
    BY <1>1, <2>1, <2>4, ConcatAppend
  <2> QED
    BY <1>0, <2>3, <2>4, <2>5, <2>6 DEF FifoReplay
<1>4. ASSUME NEW t \in Tasks, EmitHeadSucceeds(t) PROVE FifoReplay'
  <2>1. t = "touch"
    BY <1>1, <1>4 DEF EmitHeadSucceeds, FlushSteps, Replaying
  <2>2. /\ queue # <<>> /\ replayed' = Append(replayed, Head(queue))
        /\ UNCHANGED <<queue, enqueued, raced>>
    BY <1>0, <1>2, <1>4, <2>1 DEF EmitHeadSucceeds, Replaying
  <2>3. Waiting = queue /\ Waiting' = Tail(queue)
    BY <1>0, <1>1, <1>4, <2>1, <2>2 DEF EmitHeadSucceeds, GoTo, Waiting, AckSteps
  <2>4. Append(replayed, Head(queue)) \o Tail(queue) = replayed \o queue
    BY <1>1, <2>2, ConcatHead
  <2> QED
    BY <1>0, <2>2, <2>3, <2>4 DEF FifoReplay
<1>5. ASSUME NEW t \in Tasks, AckEnds(t) PROVE FifoReplay'
  <2>1. t = "touch"
    BY <1>1, <1>5 DEF AckEnds, FlushSteps, Replaying, AckSteps
  <2>2. Waiting = Tail(queue) /\ Waiting' = Tail(queue)
    BY <1>0, <1>1, <1>5, <2>1 DEF AckEnds, GoTo, Waiting, Offline!Ack, AckSteps
  <2> QED
    BY <1>0, <1>5, <2>2 DEF FifoReplay, AckEnds
<1>10. ASSUME NEW t \in Tasks, AckBegins(t) PROVE FifoReplay'
  <2>1. t = "touch"
    BY <1>1, <1>10 DEF AckBegins, FlushSteps, Replaying, AckSteps
  <2>2. UNCHANGED <<queue, enqueued, replayed, raced>>
    BY <1>9, <1>10 DEF AckBegins
  <2>3. pc["touch"] \in AckSteps /\ pc'["touch"] \in AckSteps
    BY <1>1, <1>10, <2>1 DEF AckBegins, GoTo, AckSteps
  <2> QED
    BY <2>2, <2>3, ReplayUntouched
<1>6. ASSUME NEW t \in Tasks,
             Begin(t) \/ CheckConnected(t) \/ EmitFirst(t) \/ Reply(t) \/ Flush(t) \/ Peek(t)
             \/ EmitHeadFails(t) \/ StoreBegins(t) \/ StoreRefused(t)
      PROVE FifoReplay'
  <2>1. UNCHANGED <<queue, enqueued, replayed, raced>>
    BY <1>6, <1>9 DEF Begin, Compose, NoMatch, CheckConnected, EmitFirst, Reply, Flush, Peek,
                      EmitHeadFails, StoreBegins, StoreRefused
  <2>2. pc[t] \notin AckSteps /\ pc'[t] \notin AckSteps /\ \A u \in Tasks \ {t} : pc'[u] = pc[u]
    <3>1. After(t) \notin AckSteps
      BY DEF After, Tasks, AckSteps
    <3>2. pc[t] \notin AckSteps /\ \E step : step \notin AckSteps /\ GoTo(t, step)
      BY <1>6, <3>1 DEF Begin, Compose, NoMatch, CheckConnected, EmitFirst, Reply, Flush, Peek,
                        EmitHeadFails, StoreBegins, StoreRefused, AckSteps
    <3> QED
      BY <1>1, <3>2 DEF GoTo
  <2> QED
    BY <1>1, <2>1, <2>2, ReplayUntouched
<1>7. CASE Teardown \/ StartClient \/ OnConnected \/ OnDisconnected \/ LinkFails
  <2>1. UNCHANGED <<queue, enqueued, replayed, raced>>
    BY <1>7 DEF Teardown, StartClient, OnConnected, OnDisconnected, LinkFails, unchangedByTransport
  <2>2. pc'["touch"] = pc["touch"]
    BY <1>1, <1>7 DEF Teardown, StartClient, OnConnected, OnDisconnected, LinkFails, GoTo
  <2> QED
    BY <2>1, <2>2, ReplayUntouched
<1>8. CASE UNCHANGED vars
  BY <1>8, ReplayUntouched DEF vars
<1> QED
  BY <1>3, <1>4, <1>5, <1>6, <1>7, <1>8, <1>10 DEF Next, UseCase

\* Type correctness of the whole delivery path.
THEOREM DeliveryTypeOK == Spec => []TypeOK
<1>1. Typed => TypeOK
  BY DEF Typed
<1> QED
  BY InitTyped, NextTyped, <1>1, PTL DEF Spec

\* Nothing is queued at first.
LEMMA InitFifoReplay == Init => FifoReplay
<1>1. ASSUME Init PROVE replayed = <<>> /\ Waiting = <<>> /\ enqueued = <<>>
  BY <1>1 DEF Init, Waiting, Tasks, AckSteps
<1>2. <<>> \o <<>> = <<>>
  OBVIOUS
<1> QED
  BY <1>1, <1>2 DEF FifoReplay

\* Until operations of the queue overlap, the replay is first-in first-out and
\* complete, for any queue size, flush size and number of events.
THEOREM ReplayIsFifo == Spec => []FifoReplay
  BY InitTyped, NextTyped, NextFifoReplay, InitFifoReplay, PTL DEF Spec

-----------------------------------------------------------------------------
\* An event in a task's hand is in no other hand and has been nowhere yet.
HandsFree ==
    /\ \A t \in Tasks : pc[t] \in Carrying =>
          hand[t] \notin direct \cup Elements(enqueued) \cup dropped
    /\ \A t, u \in Tasks : t # u /\ pc[t] \in Carrying /\ pc[u] \in Carrying =>
          hand[t] # hand[u]

Placed == EventAccounted /\ OneWay /\ HandsFree

\* A step that moves no event between places keeps the account.
LEMMA HandsKept ==
  ASSUME Placed, UNCHANGED <<created, direct, enqueued, dropped>>,
         \A u \in Tasks : /\ pc'[u] \in Carrying <=> pc[u] \in Carrying
                          /\ pc[u] \in Carrying => hand'[u] = hand[u]
  PROVE  Placed'
<1>1. InHand' = InHand
  BY DEF InHand
<1>2. Elements(enqueued)' = Elements(enqueued)
  BY DEF Elements
<1>3. EventAccounted' /\ OneWay'
  BY <1>1, <1>2 DEF Placed, EventAccounted, OneWay
<1>4. HandsFree'
  BY <1>2 DEF Placed, HandsFree
<1> QED
  BY <1>3, <1>4 DEF Placed

\* When one task lets go of its event, that event alone leaves the hands.
LEMMA HandEmptied ==
  ASSUME HandsFree, NEW t \in Tasks, pc[t] \in Carrying, pc'[t] \notin Carrying,
         \A u \in Tasks \ {t} : pc'[u] = pc[u] /\ hand'[u] = hand[u]
  PROVE  InHand' = InHand \ {hand[t]} /\ hand[t] \in InHand
<1>1. hand[t] \in InHand
  BY DEF InHand
<1>2. InHand' \subseteq InHand \ {hand[t]}
  BY DEF InHand, HandsFree
<1>3. InHand \ {hand[t]} \subseteq InHand'
  BY DEF InHand
<1> QED
  BY <1>1, <1>2, <1>3

\* Every step keeps the account of the events.
LEMMA NextPlaced == Typed /\ Placed /\ [Next]_vars => Placed'
<1> SUFFICES ASSUME Typed, Placed, [Next]_vars PROVE Placed'
  OBVIOUS
<1>1. /\ pc \in [Tasks -> Steps] /\ hand \in [Tasks -> Events \cup {NoEvent}]
      /\ enqueued \in Seq(Events)
      /\ \A t \in Tasks : pc[t] \in Carrying => hand[t] \in Events
  BY DEF Typed, TypeOK
<1>2. \A t \in Tasks : After(t) \notin Carrying
  BY DEF After, Tasks, Carrying
<1>3. ASSUME NEW t \in Tasks, Compose(t) PROVE Placed'
  <2>1. PICK e \in Makes(t) \ created : created' = created \cup {e} /\ Carry(t, e)
    BY <1>3 DEF Compose
  <2>2. UNCHANGED <<direct, enqueued, dropped>> /\ Elements(enqueued)' = Elements(enqueued)
    BY <1>3 DEF Compose, Elements
  <2>3. pc[t] \notin Carrying /\ pc'[t] \in Carrying /\ hand'[t] = e
    BY <1>1, <1>3, <2>1 DEF Compose, GoTo, Carry, Carrying
  <2>4. \A u \in Tasks \ {t} : pc'[u] = pc[u] /\ hand'[u] = hand[u]
    BY <1>1, <1>3, <2>1 DEF Compose, GoTo, Carry
  <2>5. InHand' = InHand \cup {e}
    BY <2>3, <2>4 DEF InHand
  <2>6. e \notin InHand \cup direct \cup Elements(enqueued) \cup dropped
    BY <2>1 DEF Placed, EventAccounted
  <2>7. EventAccounted' /\ OneWay'
    BY <2>1, <2>2, <2>5 DEF Placed, EventAccounted, OneWay
  <2>8. \A u \in Tasks \ {t} : pc[u] \in Carrying => hand[u] # e
    BY <2>6 DEF InHand
  <2>9. HandsFree'
    BY <2>2, <2>3, <2>4, <2>6, <2>8 DEF Placed, HandsFree
  <2> QED
    BY <2>7, <2>9 DEF Placed
<1>4. ASSUME NEW t \in Tasks, EmitFirst(t), pc'[t] # "store" PROVE Placed'
  <2>1. /\ pc[t] = "emit" /\ GoTo(t, After(t)) /\ LetGo(t)
        /\ direct' = direct \cup {hand[t]} /\ UNCHANGED <<created, enqueued, dropped>>
    BY <1>1, <1>4 DEF EmitFirst, GoTo
  <2>2. /\ pc[t] \in Carrying /\ pc'[t] \notin Carrying
        /\ \A u \in Tasks \ {t} : pc'[u] = pc[u] /\ hand'[u] = hand[u]
    BY <1>1, <1>2, <2>1 DEF GoTo, LetGo, Carry, Carrying
  <2>3. InHand' = InHand \ {hand[t]} /\ hand[t] \in InHand
    BY <2>2, HandEmptied DEF Placed
  <2>4. Elements(enqueued)' = Elements(enqueued)
    BY <2>1 DEF Elements
  <2>5. hand[t] \notin direct \cup Elements(enqueued) \cup dropped
    BY <2>2 DEF Placed, HandsFree
  <2>6. EventAccounted' /\ OneWay'
    BY <2>1, <2>3, <2>4, <2>5 DEF Placed, EventAccounted, OneWay
  <2>7. HandsFree'
    BY <2>1, <2>2, <2>4 DEF Placed, HandsFree
  <2> QED
    BY <2>6, <2>7 DEF Placed
<1>5. ASSUME NEW t \in Tasks, StoreRefused(t) \/ StoreEnds(t) PROVE Placed'
  <2>1. /\ pc[t] \in {"store", "storing"} /\ GoTo(t, After(t)) /\ LetGo(t)
        /\ UNCHANGED <<created, direct>>
    BY <1>5 DEF StoreRefused, StoreEnds
  <2>2. /\ pc[t] \in Carrying /\ pc'[t] \notin Carrying
        /\ \A u \in Tasks \ {t} : pc'[u] = pc[u] /\ hand'[u] = hand[u]
    BY <1>1, <1>2, <2>1 DEF GoTo, LetGo, Carry, Carrying
  <2>3. InHand' = InHand \ {hand[t]} /\ hand[t] \in InHand /\ hand[t] \in Events
    BY <1>1, <2>2, HandEmptied DEF Placed
  <2>4. hand[t] \notin direct \cup Elements(enqueued) \cup dropped
    BY <2>2 DEF Placed, HandsFree
  <2>5. CASE enqueued' = Append(enqueued, hand[t]) /\ UNCHANGED dropped
    <3>1. Elements(enqueued)' = Elements(enqueued) \cup {hand[t]}
      BY <1>1, <2>3, <2>5, ElementsAppend DEF Elements
    <3>2. EventAccounted'
      BY <2>1, <2>3, <2>5, <3>1 DEF Placed, EventAccounted
    <3>3. \A i, j \in DOMAIN enqueued' : i # j => enqueued'[i] # enqueued'[j]
      BY <1>1, <2>3, <2>4, <2>5, AppendKeepsDistinct DEF Placed, OneWay
    <3>4. OneWay'
      BY <2>1, <2>4, <2>5, <3>1, <3>3 DEF Placed, OneWay
    <3>5. HandsFree'
      BY <2>1, <2>2, <2>5, <3>1 DEF Placed, HandsFree
    <3> QED
      BY <3>2, <3>4, <3>5 DEF Placed
  <2>6. CASE dropped' = dropped \cup {hand[t]} /\ UNCHANGED enqueued
    <3>1. Elements(enqueued)' = Elements(enqueued)
      BY <2>6 DEF Elements
    <3>2. EventAccounted' /\ OneWay'
      BY <2>1, <2>3, <2>4, <2>6, <3>1 DEF Placed, EventAccounted, OneWay
    <3>3. HandsFree'
      BY <2>1, <2>2, <2>6, <3>1 DEF Placed, HandsFree
    <3> QED
      BY <3>2, <3>3 DEF Placed
  <2> QED
    BY <1>5, <2>5, <2>6 DEF StoreRefused, StoreEnds
<1>6. ASSUME NEW t \in Tasks,
             \/ NoMatch(t) \/ CheckConnected(t) \/ (EmitFirst(t) /\ pc'[t] = "store")
             \/ StoreBegins(t) \/ Reply(t) \/ Flush(t) \/ Peek(t)
             \/ EmitHeadSucceeds(t) \/ EmitHeadFails(t) \/ AckBegins(t) \/ AckEnds(t)
      PROVE Placed'
  <2>1. \A u \in Tasks \ {t} : pc'[u] = pc[u] /\ hand'[u] = hand[u]
    BY <1>1, <1>6 DEF NoMatch, CheckConnected, EmitFirst, StoreBegins, Reply, Flush, Peek,
                      EmitHeadSucceeds, EmitHeadFails, AckBegins, AckEnds, GoTo, LetGo, Carry
  <2>2. UNCHANGED <<created, enqueued, dropped>>
    BY <1>6 DEF NoMatch, CheckConnected, EmitFirst, StoreBegins, Reply, Flush, Peek,
                EmitHeadSucceeds, EmitHeadFails, AckBegins, AckEnds
  <2>3. CASE CheckConnected(t) \/ StoreBegins(t)
    <3>1. pc[t] \in Carrying /\ pc'[t] \in Carrying /\ UNCHANGED <<hand, direct>>
      BY <1>1, <2>3 DEF CheckConnected, StoreBegins, GoTo, Carrying
    <3> QED
      BY <2>1, <2>2, <3>1, HandsKept
  <2>4. CASE EmitFirst(t) /\ pc'[t] = "store"
    <3>1. After(t) # "store"
      BY DEF After, Tasks
    <3>2. pc[t] \in Carrying /\ pc'[t] \in Carrying /\ UNCHANGED <<hand, direct>>
      BY <1>1, <2>4, <3>1 DEF EmitFirst, GoTo, Carrying
    <3> QED
      BY <2>1, <2>2, <3>2, HandsKept
  <2>5. CASE \/ NoMatch(t) \/ Reply(t) \/ Flush(t) \/ Peek(t)
             \/ EmitHeadSucceeds(t) \/ EmitHeadFails(t) \/ AckBegins(t) \/ AckEnds(t)
    <3>1. UNCHANGED direct /\ pc[t] \notin Carrying
      BY <2>5 DEF NoMatch, Reply, Flush, Peek, EmitHeadSucceeds, EmitHeadFails,
                AckBegins, AckEnds, Carrying
    <3>2. \E step : step \notin Carrying /\ GoTo(t, step)
      BY <1>2, <2>5 DEF NoMatch, Reply, Flush, Peek, EmitHeadSucceeds, EmitHeadFails,
                AckBegins, AckEnds, Carrying
    <3>3. pc'[t] \notin Carrying
      BY <1>1, <3>2 DEF GoTo
    <3> QED
      BY <2>1, <2>2, <3>1, <3>3, HandsKept
  <2> QED
    BY <1>6, <2>3, <2>4, <2>5
<1>7. CASE Teardown \/ StartClient \/ OnConnected \/ OnDisconnected \/ LinkFails
  <2>1. UNCHANGED <<created, direct, enqueued, dropped, hand>>
    BY <1>7 DEF Teardown, StartClient, OnConnected, OnDisconnected, LinkFails, unchangedByTransport
  <2>2. \A u \in Tasks : pc'[u] \in Carrying <=> pc[u] \in Carrying
    BY <1>1, <1>7 DEF Teardown, StartClient, OnConnected, OnDisconnected, LinkFails, GoTo, Carrying
  <2> QED
    BY <2>1, <2>2, HandsKept
<1>8. CASE UNCHANGED vars
  BY <1>8, HandsKept DEF vars
<1> QED
  BY <1>3, <1>4, <1>5, <1>6, <1>7, <1>8 DEF Next, Begin, UseCase

\* There are no events at first.
LEMMA InitPlaced == Init => Placed
<1> SUFFICES ASSUME Init PROVE Placed
  OBVIOUS
<1>1. InHand = {} /\ direct = {} /\ dropped = {} /\ created = {} /\ enqueued = <<>>
  BY DEF Init, InHand, Carrying
<1>2. DOMAIN enqueued = {} /\ Elements(enqueued) = {}
  BY <1>1 DEF Elements
<1> QED
  BY <1>1, <1>2 DEF Init, Placed, EventAccounted, OneWay, HandsFree, Carrying

\* No event vanishes and none takes two ways, for any number of events.
THEOREM EventsAreAccounted == Spec => [](EventAccounted /\ OneWay)
<1>1. Placed => EventAccounted /\ OneWay
  BY DEF Placed
<1> QED
  BY InitTyped, NextTyped, InitPlaced, NextPlaced, <1>1, PTL DEF Spec

\* Sent by emit_event, kept by enqueue or refused by the full queue: an event
\* takes one of these ways, and only once.
THEOREM EventsTakeOneWay == Spec => []OneWay
BY EventsAreAccounted, PTL

-----------------------------------------------------------------------------
\* What a sequence holds is what its two halves hold.
LEMMA MembersConcat ==
  ASSUME NEW S, NEW s \in Seq(S), NEW w \in Seq(S)
  PROVE  Elements(s \o w) = Elements(s) \cup Elements(w)
<1> DEFINE c == s \o w
<1>1. /\ DOMAIN s = 1 .. Len(s) /\ DOMAIN w = 1 .. Len(w)
      /\ Len(s) \in Nat /\ Len(w) \in Nat
      /\ DOMAIN c = 1 .. Len(s) + Len(w)
  OBVIOUS
<1>2. /\ \A i \in 1 .. Len(s) : c[i] = s[i]
      /\ \A i \in 1 .. Len(w) : c[Len(s) + i] = w[i]
  OBVIOUS
<1> HIDE DEF c
<1>3. ASSUME NEW i \in DOMAIN c
      PROVE  c[i] \in Elements(s) \cup Elements(w)
  <2>1. CASE i <= Len(s)
    <3>1. i \in DOMAIN s /\ c[i] = s[i]
      BY <1>1, <1>2, <2>1
    <3> QED
      BY <3>1 DEF Elements
  <2>2. CASE i > Len(s)
    <3>1. i - Len(s) \in DOMAIN w /\ i = Len(s) + (i - Len(s))
      BY <1>1, <2>2
    <3>2. c[i] = w[i - Len(s)]
      BY <1>1, <1>2, <3>1
    <3> QED
      BY <3>1, <3>2 DEF Elements
  <2> QED
    BY <1>1, <2>1, <2>2
<1>4. \A i \in DOMAIN s : i \in DOMAIN c /\ c[i] = s[i]
  BY <1>1, <1>2
<1>5. \A i \in DOMAIN w : Len(s) + i \in DOMAIN c /\ c[Len(s) + i] = w[i]
  BY <1>1, <1>2
<1>6. Elements(c) = Elements(s) \cup Elements(w)
  BY <1>3, <1>4, <1>5 DEF Elements
<1> QED
  BY <1>6 DEF c

\* A step that keeps the queue and whether the touch task is about to
\* acknowledge keeps what waits.
LEMMA WaitingStays ==
  ASSUME UNCHANGED <<queue, raced>>, pc'["touch"] \in AckSteps <=> pc["touch"] \in AckSteps
  PROVE  Waiting' = Waiting
  BY DEF Waiting

\* What waits is the queue, or one item less.
LEMMA WaitingLength ==
  ASSUME Typed
  PROVE  /\ Waiting \in Seq(Events) /\ Len(queue) - 1 <= Len(Waiting) /\ Len(Waiting) <= Len(queue)
         /\ Len(queue) \in Nat /\ Len(Waiting) \in Nat
<1>1. queue \in Seq(Events) /\ (~raced /\ pc["touch"] \in AckSteps => queue # <<>>)
  BY DEF Typed, TypeOK, OneFlush, Replaying
<1>2. CASE ~raced /\ pc["touch"] \in AckSteps
  BY <1>1, <1>2, HeadElement DEF Waiting
<1>3. CASE raced \/ pc["touch"] \notin AckSteps
  BY <1>1, <1>3 DEF Waiting
<1> QED
  BY <1>2, <1>3

\* An event in the hand of a task is one the outbox has yet to place.
LEMMA HandCarried ==
  ASSUME Typed, FifoReplay, Placed, ~raced, NEW t \in Tasks, pc[t] \in Carrying
  PROVE  hand[t] \in Box!Carried /\ hand[t] \in Events
<1>1. hand[t] \in Events /\ hand[t] \in created
  BY DEF Typed, TypeOK, Placed, EventAccounted, InHand
<1>2. hand[t] \notin direct \cup Elements(enqueued) \cup dropped
  BY DEF Placed, HandsFree
<1>3. Elements(enqueued) = Elements(replayed) \cup Elements(Waiting)
  <2>1. replayed \in Seq(Events) /\ Waiting \in Seq(Events)
    BY WaitingLength DEF Typed, TypeOK
  <2> QED
    BY <2>1, MembersConcat DEF FifoReplay
<1>4. Box!Members(Waiting) = Elements(Waiting) /\ Box!Members(replayed) = Elements(replayed)
  BY DEF Box!Members, Elements
<1> QED
  BY <1>1, <1>2, <1>3, <1>4 DEF Box!Carried

\* Only the end of a store and the replay of the head change what waits.
LEMMA TouchKeepsWaiting ==
  ASSUME Typed, ~raced', NEW t \in Tasks,
         \/ Compose(t) \/ NoMatch(t) \/ CheckConnected(t) \/ EmitFirst(t) \/ Reply(t)
         \/ StoreBegins(t) \/ Flush(t) \/ Peek(t) \/ EmitHeadFails(t) \/ StoreRefused(t)
  PROVE  Waiting' = Waiting /\ UNCHANGED <<replayed, raced>>
<1>1. /\ pc \in [Tasks -> Steps] /\ After(t) \notin AckSteps /\ "touch" \in Tasks
      /\ queue \in Seq(Events) /\ raced \in BOOLEAN
  BY DEF Typed, TypeOK, After, Tasks, AckSteps
<1>2. QueueUsed(t) => UNCHANGED <<queue, raced>>
  BY <1>1, UsedQueue
<1>3. UNCHANGED <<queue, replayed, raced>>
  BY <1>2 DEF Compose, NoMatch, CheckConnected, EmitFirst, Reply, StoreBegins, Flush, Peek,
              EmitHeadFails, StoreRefused
<1>4. pc[t] \notin AckSteps /\ \E step : step \notin AckSteps /\ GoTo(t, step)
  BY <1>1 DEF Compose, NoMatch, CheckConnected, EmitFirst, Reply, StoreBegins, Flush, Peek,
              EmitHeadFails, StoreRefused, AckSteps
<1>5. pc[t] \notin AckSteps /\ pc'[t] \notin AckSteps /\ \A u \in Tasks \ {t} : pc'[u] = pc[u]
  BY <1>1, <1>4 DEF GoTo
<1>6. pc'["touch"] \in AckSteps <=> pc["touch"] \in AckSteps
  BY <1>1, <1>5
<1> QED
  BY <1>3, <1>6, WaitingStays

\* The end of a store puts the new event behind what waits.
LEMMA StoreWaits ==
  ASSUME Typed, ~raced, NEW t \in Tasks, StoreEnds(t)
  PROVE  Waiting' = Append(Waiting, hand[t]) /\ Len(queue) < MaxItems /\ UNCHANGED raced
<1>1. /\ pc \in [Tasks -> Steps] /\ "touch" \in Tasks /\ queue \in Seq(Events)
      /\ pc["touch"] \in AckSteps => queue # <<>>
      /\ hand[t] \in Events
  BY DEF Typed, TypeOK, OneFlush, Replaying, Tasks, StoreEnds, Carrying
<1>2. pc'["touch"] \in AckSteps <=> pc["touch"] \in AckSteps
  BY <1>1 DEF StoreEnds, GoTo, After, AckSteps
<1>3. queue' = Append(queue, hand[t]) /\ Len(queue) < MaxItems /\ UNCHANGED raced
  BY DEF StoreEnds, Offline!Enqueue
<1>4. ASSUME pc["touch"] \in AckSteps PROVE Waiting' = Append(Waiting, hand[t])
  BY <1>1, <1>2, <1>3, <1>4, TailAppend DEF Waiting
<1>5. ASSUME pc["touch"] \notin AckSteps PROVE Waiting' = Append(Waiting, hand[t])
  BY <1>2, <1>3, <1>5 DEF Waiting
<1> QED
  BY <1>3, <1>4, <1>5

\* An ack catches up with the replay.
LEMMA AckKeepsWaiting ==
  ASSUME Typed, ~raced', NEW t \in Tasks, AckBegins(t) \/ AckEnds(t)
  PROVE  Waiting' = Waiting /\ UNCHANGED raced
<1>1. /\ t = "touch" /\ pc \in [Tasks -> Steps]
      /\ queue \in Seq(Events) /\ raced \in BOOLEAN
  BY DEF AckBegins, AckEnds, Typed, TypeOK, OneFlush, FlushSteps, Replaying, AckSteps
<1>2. CASE AckBegins(t)
  <2>1. UNCHANGED <<queue, raced>>
    BY <1>1, <1>2, UsedQueue DEF AckBegins
  <2>2. pc["touch"] \in AckSteps /\ pc'["touch"] \in AckSteps
    BY <1>1, <1>2 DEF AckBegins, GoTo, AckSteps
  <2> QED
    BY <2>1, <2>2, WaitingStays
<1>3. CASE AckEnds(t)
  <2>1. UNCHANGED raced /\ ~raced
    BY <1>3 DEF AckEnds, Offline!Ack
  <2>2. Waiting = Tail(queue) /\ queue' = Tail(queue)
    BY <1>1, <1>3, <2>1 DEF AckEnds, Offline!Ack, Waiting, AckSteps
  <2>3. pc'["touch"] = "peek"
    BY <1>1, <1>3 DEF AckEnds, GoTo
  <2> QED
    BY <2>1, <2>2, <2>3 DEF Waiting, AckSteps
<1> QED
  BY <1>2, <1>3

\* Each step of the delivery path is a step of the outbox, or none.
LEMMA BoxStep ==
  ASSUME Typed, FifoReplay, Placed, [Next]_vars
  PROVE  [Box!Next]_Box!vars
<1> DEFINE Stays == UNCHANGED <<created, direct, Waiting, replayed, dropped, raced>>
<1> SUFFICES ASSUME ~raced' PROVE [Box!Next]_Box!vars
  BY DEF Box!Next, Box!Race, Typed, TypeOK
<1>0. ~raced
  BY StaysRaced DEF Typed
<1>1. ASSUME Stays PROVE UNCHANGED Box!vars
  BY <1>1 DEF Box!vars
<1>2. /\ pc \in [Tasks -> Steps] /\ "touch" \in Tasks /\ queue \in Seq(Events)
      /\ raced \in BOOLEAN /\ raced' \in BOOLEAN
  BY NextTyped DEF Typed, TypeOK, Tasks
<1>3. ASSUME NEW t \in Tasks, Compose(t) PROVE Box!Next
  <2>1. PICK e \in Events : e \notin created /\ created' = created \cup {e}
    BY <1>3 DEF Compose, Makes, Events
  <2>2. UNCHANGED <<direct, dropped>>
    BY <1>3 DEF Compose
  <2>3. Box!Compose(e)
    BY <1>3, <2>1, <2>2, TouchKeepsWaiting DEF Box!Compose
  <2> QED
    BY <1>3, <2>1, <2>3, TouchKeepsWaiting DEF Box!Next
<1>4. ASSUME NEW t \in Tasks, EmitFirst(t), UNCHANGED direct PROVE Stays
  <2>1. UNCHANGED <<created, dropped>>
    BY <1>4 DEF EmitFirst
  <2> QED
    BY <1>4, <2>1, TouchKeepsWaiting
<1>5. ASSUME NEW t \in Tasks, EmitFirst(t), direct' # direct PROVE Box!Next
  <2>1. /\ pc[t] \in Carrying /\ direct' = direct \cup {hand[t]}
        /\ UNCHANGED <<created, dropped>>
    BY <1>5 DEF EmitFirst, Carrying
  <2>2. Box!Send(hand[t])
    BY <1>0, <1>5, <2>1, HandCarried, TouchKeepsWaiting DEF Box!Send
  <2> QED
    BY <1>0, <1>5, <2>1, <2>2, HandCarried, TouchKeepsWaiting DEF Box!Next
<1>6. ASSUME NEW t \in Tasks, StoreEnds(t) PROVE Box!Next
  <2>1. pc[t] \in Carrying /\ UNCHANGED <<created, direct, replayed, dropped>>
    BY <1>6 DEF StoreEnds, Carrying
  <2>2. hand[t] \in Box!Carried /\ hand[t] \in Events
    BY <1>0, <2>1, HandCarried
  <2>3. Waiting' = Append(Waiting, hand[t]) /\ Len(queue) < MaxItems /\ UNCHANGED raced
    BY <1>0, <1>6, StoreWaits
  <2>4. Len(Waiting) < MaxItems
    BY <2>3, WaitingLength, BoundsAssumption
  <2>5. Box!Keep(hand[t])
    BY <2>1, <2>2, <2>3, <2>4 DEF Box!Keep
  <2> QED
    BY <2>2, <2>3, <2>5 DEF Box!Next
<1>11. ASSUME NEW t \in Tasks, StoreRefused(t) PROVE Box!Next
  <2>1. pc[t] \in Carrying /\ UNCHANGED <<created, direct, replayed>> /\ dropped' = dropped \cup {hand[t]}
    BY <1>11 DEF StoreRefused, Carrying
  <2>2. hand[t] \in Box!Carried /\ hand[t] \in Events
    BY <1>0, <2>1, HandCarried
  <2>3. Len(queue) >= MaxItems
    BY <1>11 DEF StoreRefused
  <2>4. Len(Waiting) >= MaxItems - 1
    BY <2>3, WaitingLength, BoundsAssumption
  <2>5. Waiting' = Waiting /\ UNCHANGED raced
    BY <1>11, TouchKeepsWaiting
  <2>6. Box!Refuse(hand[t])
    BY <2>1, <2>2, <2>4, <2>5 DEF Box!Refuse
  <2> QED
    BY <2>2, <2>5, <2>6 DEF Box!Next
<1>7. ASSUME NEW t \in Tasks, EmitHeadSucceeds(t) PROVE Box!Next
  <2>1. t = "touch"
    BY <1>7 DEF EmitHeadSucceeds, Typed, OneFlush, FlushSteps, Replaying
  <2>2. queue # <<>> /\ hand[t] = Head(queue)
    BY <1>0, <1>7, <2>1 DEF EmitHeadSucceeds, Typed, OneFlush, Replaying
  <2>3. /\ Waiting = queue /\ Waiting' = Tail(queue)
        /\ replayed' = Append(replayed, Head(queue)) /\ UNCHANGED <<created, direct, dropped, raced>>
    BY <1>0, <1>2, <1>7, <2>1, <2>2 DEF EmitHeadSucceeds, GoTo, Waiting, AckSteps
  <2>4. Box!Replay
    BY <2>2, <2>3 DEF Box!Replay
  <2> QED
    BY <2>3, <2>4 DEF Box!Next
<1>8. ASSUME NEW t \in Tasks, AckBegins(t) \/ AckEnds(t) PROVE Stays
  <2>1. UNCHANGED <<created, direct, replayed, dropped>>
    BY <1>8 DEF AckBegins, AckEnds
  <2> QED
    BY <1>8, <2>1, AckKeepsWaiting
<1>9. ASSUME NEW t \in Tasks,
             \/ NoMatch(t) \/ CheckConnected(t) \/ Reply(t) \/ Flush(t) \/ Peek(t)
             \/ EmitHeadFails(t) \/ StoreBegins(t)
      PROVE Stays
  <2>1. UNCHANGED <<created, direct, dropped>>
    BY <1>9 DEF NoMatch, CheckConnected, Reply, Flush, Peek, EmitHeadFails, StoreBegins
  <2> QED
    BY <1>9, <2>1, TouchKeepsWaiting
<1>10. CASE \/ Teardown \/ StartClient \/ OnConnected \/ OnDisconnected \/ LinkFails
            \/ UNCHANGED vars
  <2>1. UNCHANGED <<created, direct, queue, replayed, dropped, raced>>
    BY <1>10 DEF Teardown, StartClient, OnConnected, OnDisconnected, LinkFails,
                 unchangedByTransport, vars
  <2>2. pc'["touch"] = pc["touch"]
    BY <1>2, <1>10 DEF Teardown, StartClient, OnConnected, OnDisconnected, LinkFails, GoTo, vars
  <2> QED
    BY <1>1, <2>1, <2>2, WaitingStays
<1> QED
  BY <1>1, <1>3, <1>4, <1>5, <1>6, <1>7, <1>8, <1>9, <1>10, <1>11 DEF Next, Begin, UseCase

\* The use cases, run by three tasks over a connection that comes and goes,
\* with the transport and the queue, implement the outbox, which lasts until
\* operations of the queue overlap.
THEOREM DeliveryIsAnOutbox == Spec => RefinesOutbox
<1>1. Init => Box!Init /\ FifoReplay /\ Placed
  BY InitFifoReplay, InitPlaced DEF Init, Box!Init, Waiting, Tasks, AckSteps
<1>2. Typed /\ FifoReplay /\ Placed /\ [Next]_vars => [Box!Next]_Box!vars
  BY BoxStep
<1> QED
  BY <1>1, <1>2, InitTyped, NextTyped, NextFifoReplay, NextPlaced, PTL
  DEF Spec, RefinesOutbox, Box!Spec

-----------------------------------------------------------------------------
\* A sequence holds its head and what its tail holds.
LEMMA ElementsTail ==
  ASSUME NEW S, NEW s \in Seq(S), s # <<>>
  PROVE  Elements(s) \subseteq {Head(s)} \cup Elements(Tail(s))
<1> DEFINE r == Tail(s)
<1>1. /\ DOMAIN s = 1 .. Len(s) /\ Len(s) \in Nat \ {0} /\ Head(s) = s[1]
      /\ DOMAIN r = 1 .. Len(s) - 1 /\ \A i \in 1 .. Len(s) - 1 : r[i] = s[i + 1]
  OBVIOUS
<1> HIDE DEF r
<1>2. ASSUME NEW i \in DOMAIN s, i # 1
      PROVE  s[i] \in Elements(r)
  <2>1. i - 1 \in DOMAIN r /\ r[i - 1] = s[i]
    BY <1>1, <1>2
  <2> QED
    BY <2>1 DEF Elements
<1>3. Elements(s) \subseteq {Head(s)} \cup Elements(r)
  BY <1>1, <1>2 DEF Elements
<1> QED
  BY <1>3 DEF r

\* These steps of a task take nothing out of a hand.
LEMMA HandsStay ==
  ASSUME Typed, NEW t \in Tasks,
         \/ Compose(t) \/ NoMatch(t) \/ CheckConnected(t) \/ (EmitFirst(t) /\ SendFails /\ UNCHANGED hand)
         \/ Reply(t) \/ Flush(t) \/ Peek(t) \/ EmitHeadSucceeds(t) \/ EmitHeadFails(t)
         \/ StoreBegins(t) \/ AckBegins(t) \/ AckEnds(t)
  PROVE  InHand \subseteq InHand'
<1>1. /\ pc \in [Tasks -> Steps] /\ hand \in [Tasks -> Events \cup {NoEvent}]
      /\ pc[t] \in Carrying => hand[t] # NoEvent
  BY DEF Typed, TypeOK
<1>2. \A u \in Tasks \ {t} : pc'[u] = pc[u] /\ hand'[u] = hand[u]
  BY <1>1 DEF Compose, NoMatch, CheckConnected, EmitFirst, Reply, Flush, Peek, EmitHeadSucceeds,
              EmitHeadFails, StoreBegins, AckBegins, AckEnds, GoTo, LetGo, Carry
<1>3. CASE CheckConnected(t) \/ StoreBegins(t)
  <2>1. pc'[t] \in Carrying /\ UNCHANGED hand
    BY <1>1, <1>3 DEF CheckConnected, StoreBegins, GoTo, Carrying
  <2> QED
    BY <1>2, <2>1 DEF InHand
<1>4. CASE EmitFirst(t) /\ SendFails /\ UNCHANGED hand
  <2>1. pc[t] = "emit" /\ ~LetGo(t)
    BY <1>1, <1>4 DEF EmitFirst, LetGo, Carry, Carrying
  <2>2. pc'[t] \in Carrying
    BY <1>1, <1>4, <2>1 DEF EmitFirst, GoTo, Carrying
  <2> QED
    BY <1>2, <1>4, <2>2 DEF InHand
<1>5. CASE \/ Compose(t) \/ NoMatch(t) \/ Reply(t) \/ Flush(t) \/ Peek(t)
           \/ EmitHeadSucceeds(t) \/ EmitHeadFails(t) \/ AckBegins(t) \/ AckEnds(t)
  <2>1. pc[t] \notin Carrying
    BY <1>5 DEF Compose, NoMatch, Reply, Flush, Peek, EmitHeadSucceeds, EmitHeadFails,
                AckBegins, AckEnds, Carrying, Replaying, AckSteps
  <2> QED
    BY <1>2, <2>1 DEF InHand
<1> QED
  BY <1>3, <1>4, <1>5

\* Where an event can be lost, step by step.
LEMMA KeptStep ==
  ASSUME Typed, Placed, Next, NEW e \in Kept \ Kept'
  PROVE  \/ raced'
         \/ link = "broken" /\ Ready
         \/ Len(queue) >= MaxItems /\ e \in dropped'
<1> SUFFICES ASSUME ~raced'
             PROVE  \/ link = "broken" /\ Ready
                    \/ Len(queue) >= MaxItems /\ e \in dropped'
  OBVIOUS
<1>0. ~raced
  BY StaysRaced DEF Typed
<1> USE DEF Kept
<1>1. /\ pc \in [Tasks -> Steps] /\ hand \in [Tasks -> Events \cup {NoEvent}]
      /\ "touch" \in Tasks /\ queue \in Seq(Events)
      /\ \A t \in Tasks : After(t) \notin Carrying /\ After(t) # "store"
  BY DEF Typed, TypeOK, Tasks, After, Carrying
<1>2. ASSUME NEW t \in Tasks, EmitFirst(t)
      PROVE  link = "broken" /\ Ready
  <2>1. Waiting' = Waiting /\ pc[t] = "emit"
    BY <1>2, TouchKeepsWaiting DEF EmitFirst
  <2>2. CASE SendSucceeds /\ Reaches(hand[t]) /\ GoTo(t, After(t)) /\ LetGo(t)
    <3>1. /\ pc[t] \in Carrying /\ pc'[t] \notin Carrying
          /\ \A u \in Tasks \ {t} : pc'[u] = pc[u] /\ hand'[u] = hand[u]
      BY <1>1, <2>1, <2>2 DEF GoTo, LetGo, Carry, Carrying
    <3>2. InHand' = InHand \ {hand[t]}
      BY <3>1, HandEmptied DEF Placed
    <3>3. delivered \subseteq delivered' /\ (link = "up" => hand[t] \in delivered')
      BY <2>2 DEF Reaches
    <3> QED
      BY <2>1, <2>2, <3>2, <3>3 DEF SendSucceeds
  <2>3. CASE SendFails /\ UNCHANGED hand
    <3>1. InHand \subseteq InHand' /\ UNCHANGED delivered
      BY <1>2, <2>3, HandsStay DEF SendFails
    <3> QED
      BY <2>1, <3>1
  <2> QED
    BY <1>2, <2>2, <2>3 DEF EmitFirst
<1>3. ASSUME NEW t \in Tasks, StoreRefused(t) \/ StoreEnds(t)
      PROVE  Len(queue) >= MaxItems /\ e \in dropped'
  <2>1. /\ pc[t] \in {"store", "storing"} /\ GoTo(t, After(t)) /\ LetGo(t) /\ UNCHANGED delivered
    BY <1>3 DEF StoreRefused, StoreEnds
  <2>2. /\ pc[t] \in Carrying /\ pc'[t] \notin Carrying
        /\ \A u \in Tasks \ {t} : pc'[u] = pc[u] /\ hand'[u] = hand[u]
    BY <1>1, <2>1 DEF GoTo, LetGo, Carry, Carrying
  <2>3. InHand' = InHand \ {hand[t]} /\ hand[t] \in Events
    BY <2>2, HandEmptied DEF Placed, Typed, TypeOK
  <2>4. CASE StoreEnds(t)
    <3>1. Waiting' = Append(Waiting, hand[t])
      BY <1>0, <2>4, StoreWaits
    <3>2. Elements(Waiting') = Elements(Waiting) \cup {hand[t]}
      BY <2>3, <3>1, WaitingLength, ElementsAppend
    <3> QED
      BY <2>1, <2>3, <3>2 DEF Elements
  <2>5. CASE StoreRefused(t)
    <3>1. Waiting' = Waiting /\ UNCHANGED raced
      BY <2>5, TouchKeepsWaiting
    <3>2. Len(queue) >= MaxItems /\ dropped' = dropped \cup {hand[t]}
      BY <2>5 DEF StoreRefused
    <3> QED
      BY <2>1, <2>3, <3>1, <3>2
  <2> QED
    BY <1>3, <2>4, <2>5
<1>4. ASSUME NEW t \in Tasks, EmitHeadSucceeds(t)
      PROVE  link = "broken" /\ Ready
  <2>1. t = "touch"
    BY <1>4 DEF EmitHeadSucceeds, Typed, OneFlush, FlushSteps, Replaying
  <2>2. queue # <<>> /\ hand[t] = Head(queue)
    BY <1>0, <1>4, <2>1 DEF EmitHeadSucceeds, Typed, OneFlush, Replaying
  <2>3. Waiting = queue /\ Waiting' = Tail(queue)
    BY <1>0, <1>1, <1>4, <2>1 DEF EmitHeadSucceeds, GoTo, Waiting, AckSteps
  <2>4. Elements(Waiting) \subseteq {hand[t]} \cup Elements(Waiting')
    BY <1>1, <2>2, <2>3, ElementsTail
  <2>5. InHand \subseteq InHand' /\ delivered \subseteq delivered' /\ SendSucceeds
        /\ (link = "up" => hand[t] \in delivered')
    BY <1>4, HandsStay DEF EmitHeadSucceeds, Reaches
  <2> QED
    BY <2>4, <2>5 DEF SendSucceeds, Elements
<1>5. ASSUME NEW t \in Tasks,
             \/ Compose(t) \/ NoMatch(t) \/ CheckConnected(t) \/ Reply(t) \/ Flush(t)
             \/ Peek(t) \/ EmitHeadFails(t) \/ StoreBegins(t) \/ AckBegins(t) \/ AckEnds(t)
      PROVE  FALSE
  <2>1. InHand \subseteq InHand'
    BY <1>5, HandsStay
  <2>2. UNCHANGED delivered
    BY <1>5 DEF Compose, NoMatch, CheckConnected, Reply, Flush, Peek, EmitHeadFails, StoreBegins,
                AckBegins, AckEnds, SendFails
  <2>3. Waiting' = Waiting
    BY <1>5, TouchKeepsWaiting, AckKeepsWaiting
  <2> QED
    BY <2>1, <2>2, <2>3
<1>6. CASE Teardown \/ StartClient \/ OnConnected \/ OnDisconnected \/ LinkFails
  <2>1. UNCHANGED <<queue, hand, delivered, raced>>
    BY <1>6 DEF Teardown, StartClient, OnConnected, OnDisconnected, LinkFails, unchangedByTransport
  <2>2. /\ \A u \in Tasks : pc'[u] \in Carrying <=> pc[u] \in Carrying
        /\ pc'["touch"] = pc["touch"]
    BY <1>1, <1>6 DEF Teardown, StartClient, OnConnected, OnDisconnected, LinkFails, GoTo, Carrying
  <2>3. InHand' = InHand /\ Waiting' = Waiting
    BY <2>1, <2>2, WaitingStays DEF InHand
  <2> QED
    BY <2>1, <2>3
<1>7. ASSUME NEW t \in Tasks, Begin(t) \/ UseCase(t)
      PROVE  \/ link = "broken" /\ Ready
             \/ Len(queue) >= MaxItems /\ e \in dropped'
  BY <1>2, <1>3, <1>4, <1>5, <1>7 DEF Begin, UseCase
<1> QED
  BY <1>6, <1>7 DEF Next

\* Failed sends, broken connections and restarts of the transport lose nothing:
\* only the half-open connection, the full queue and overlapping operations of
\* the queue do.
THEOREM LossesAreKnown == Spec => LostOnlyUnnoticed
<1>1. Typed /\ Placed /\ [Next]_vars =>
        [\A e \in Kept \ Kept' : \/ raced'
                                 \/ link = "broken" /\ Ready
                                 \/ Len(queue) >= MaxItems /\ e \in dropped']_vars
  BY KeptStep
<1> QED
  BY <1>1, InitTyped, NextTyped, InitPlaced, NextPlaced, PTL DEF Spec, LostOnlyUnnoticed
=============================================================================

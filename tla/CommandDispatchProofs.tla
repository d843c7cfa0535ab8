------------------------ MODULE CommandDispatchProofs ------------------------
(***************************************************************************)
(* The console's commands, for any number of requests, any commands and    *)
(* any size of the offline queue: nobody is told that the device is busy,  *)
(* an enrolment that is reported successful is backed by its event, no     *)
(* request is forgotten and no two messages about one disagree.            *)
(***************************************************************************)
EXTENDS CommandDispatch, TLAPS

Sent(r) == command[r] # "none"
Deleting == {"delete_fingerprint", "wipe_all_fingerprints"}
Checking == {"enroll_fingerprint", "identify_fingerprint"}

\* Where handle_command is, given the command; every message is about a
\* request that was made.
Handled ==
    /\ pc # "idle" => current \in Requests /\ Sent(current)
    /\ pc = "sense" => command[current] \in Sensing
    /\ pc = "result" => command[current] \in Deleting
    /\ pc = "event" => command[current] \in Checking /\ ok
    /\ \A r \in Elements(toDevice) : Sent(r)
    /\ \A m \in Elements(received) \cup Elements(queue) : Sent(m.cause)

\* s_busy belongs to the command that handle_command runs.
NeverBusy ==
    /\ pc # "busy"
    /\ s_busy => pc \in {"sense", "event", "result", "reply"}
    /\ BusyNeverSent

\* The queue holds events only, the head that is about to be acknowledged has
\* gone out, and an enrolment that is about to be answered with success has
\* delivered its own event.
EventOf(r) ==
    \/ r \in lost
    \/ \E e \in Elements(received) \cup Elements(queue) :
          e.event = "fingerprint_enrolled" /\ e.cause = r

Backed ==
    /\ \A m \in Elements(queue) : m.event \in {"fingerprint_enrolled", "fingerprint_match"}
    /\ acking => Head(queue) \in Elements(received) \/ Head(queue).cause \in lost
    /\ pc = "reply" /\ ok /\ command[current] = "enroll_fingerprint" => EventOf(current)
    /\ ResultBacked

Inv == TypeOK /\ Handled /\ NeverBusy /\ Backed

-----------------------------------------------------------------------------
LEMMA Appended ==
  ASSUME NEW S, NEW s \in Seq(S), NEW e \in S
  PROVE  /\ Append(s, e) \in Seq(S)
         /\ Elements(Append(s, e)) = Elements(s) \cup {e}
         /\ Len(Append(s, e)) = Len(s) + 1 /\ Len(s) \in Nat
<1>1. /\ Append(s, e) \in Seq(S) /\ Len(Append(s, e)) = Len(s) + 1 /\ Len(s) \in Nat
      /\ \A i \in 1 .. Len(s) : Append(s, e)[i] = s[i]
      /\ Append(s, e)[Len(s) + 1] = e
      /\ DOMAIN s = 1 .. Len(s) /\ DOMAIN Append(s, e) = 1 .. Len(s) + 1
  OBVIOUS
<1>2. Elements(Append(s, e)) \subseteq Elements(s) \cup {e}
  BY <1>1 DEF Elements
<1>3. Elements(s) \subseteq Elements(Append(s, e))
  BY <1>1 DEF Elements
<1>4. e \in Elements(Append(s, e))
  <2>1. Len(s) + 1 \in DOMAIN Append(s, e)
    BY <1>1
  <2> QED
    BY <1>1, <2>1 DEF Elements
<1> QED
  BY <1>1, <1>2, <1>3, <1>4

\* Storing leaves the head alone.
LEMMA AppendHead ==
  ASSUME NEW S, NEW s \in Seq(S), NEW e \in S
  PROVE  /\ Append(s, e) # <<>>
         /\ s # <<>> => Head(Append(s, e)) = Head(s)
<1>1. /\ Append(s, e) \in Seq(S) /\ Len(Append(s, e)) = Len(s) + 1 /\ Len(s) \in Nat
      /\ \A i \in 1 .. Len(s) : Append(s, e)[i] = s[i]
  OBVIOUS
<1>2. Append(s, e) # <<>>
  BY <1>1
<1>3. ASSUME s # <<>>
      PROVE  Head(Append(s, e)) = Head(s)
  <2>1. 1 \in 1 .. Len(s)
    BY <1>1, <1>3
  <2>2. Head(s) = s[1] /\ Head(Append(s, e)) = Append(s, e)[1]
    BY <1>2, <1>3
  <2> QED
    BY <1>1, <2>1, <2>2
<1> QED
  BY <1>2, <1>3

LEMMA Tailed ==
  ASSUME NEW S, NEW s \in Seq(S), s # <<>>
  PROVE  /\ Tail(s) \in Seq(S) /\ Head(s) \in S
         /\ Elements(s) = Elements(Tail(s)) \cup {Head(s)}
         /\ Len(Tail(s)) = Len(s) - 1 /\ Len(s) \in Nat
<1>1. /\ Tail(s) \in Seq(S) /\ Len(Tail(s)) = Len(s) - 1 /\ Len(s) \in Nat \ {0}
      /\ \A i \in 1 .. Len(s) - 1 : Tail(s)[i] = s[i + 1]
      /\ Head(s) = s[1] /\ Head(s) \in S
      /\ DOMAIN s = 1 .. Len(s) /\ DOMAIN Tail(s) = 1 .. Len(s) - 1
  OBVIOUS
<1>2. Elements(Tail(s)) \subseteq Elements(s)
  BY <1>1 DEF Elements
<1>3. Head(s) \in Elements(s)
  BY <1>1 DEF Elements
<1>4. ASSUME NEW i \in DOMAIN s
      PROVE  s[i] \in Elements(Tail(s)) \cup {Head(s)}
  <2>1. CASE i = 1
    BY <1>1, <2>1
  <2>2. CASE i # 1
    <3>1. i - 1 \in DOMAIN Tail(s) /\ Tail(s)[i - 1] = s[i]
      BY <1>1, <2>2
    <3> QED
      BY <3>1 DEF Elements
  <2> QED
    BY <2>1, <2>2
<1>5. Elements(s) \subseteq Elements(Tail(s)) \cup {Head(s)}
  BY <1>4 DEF Elements
<1> QED
  BY <1>1, <1>2, <1>3, <1>5

LEMMA Nothing == ASSUME NEW S
                 PROVE  <<>> \in Seq(S) /\ Elements(<<>>) = {} /\ Len(<<>>) = 0
  BY DEF Elements

Known == /\ command \in [Requests -> Commands \cup {"none"}]
         /\ lost \subseteq Requests

\* What an attempt to send does, whether or not the frame goes out.
Wire == /\ pending \subseteq Requests /\ received \in Seq(Messages)
        /\ toDevice \in Seq(Requests) /\ link \in {"up", "broken", "down"}
        /\ s_connected \in BOOLEAN /\ unlucky \subseteq Requests

LEMMA SendsEffect ==
  ASSUME Wire, NEW m \in Messages, Sends(m)
  PROVE  /\ Wire' /\ UNCHANGED toDevice
         /\ Elements(received) \subseteq Elements(received')
         /\ Elements(received') \subseteq Elements(received) \cup {m}
         /\ link = "up" => m \in Elements(received')
<1>1. m.cause \in Requests
  BY DEF Messages
<1>2. /\ Append(received, m) \in Seq(Messages)
      /\ Elements(Append(received, m)) = Elements(received) \cup {m}
  BY Appended DEF Wire
<1>3. CASE link = "up"
  BY <1>2, <1>3 DEF Wire, Sends, Arrives
<1>4. CASE link # "up"
  BY <1>1, <1>4 DEF Wire, Sends, console
<1> QED
  BY <1>3, <1>4

\* The same for an event: what went out and did not arrive is known to be lost.
LEMMA SendsEventEffect ==
  ASSUME Wire, Known, NEW m \in Messages, SendsEvent(m)
  PROVE  /\ Wire' /\ UNCHANGED toDevice /\ lost \subseteq lost' /\ lost' \subseteq Requests
         /\ Elements(received) \subseteq Elements(received')
         /\ Elements(received') \subseteq Elements(received) \cup {m}
         /\ m \in Elements(received') \/ m.cause \in lost'
<1>1. m.cause \in Requests
  BY DEF Messages
<1>2. Sends(m) /\ lost' = IF link = "up" THEN lost ELSE lost \cup {m.cause}
  BY DEF SendsEvent
<1> QED
  BY <1>1, <1>2, SendsEffect DEF Known

LEMMA FailsEffect ==
  ASSUME Wire, current \in Requests, SendFails
  PROVE  /\ Wire' /\ UNCHANGED <<received, pending>>
         /\ Elements(toDevice') \subseteq Elements(toDevice)
         /\ unlucky \subseteq unlucky' /\ current \in unlucky'
         /\ Elements(toDevice) \subseteq Elements(toDevice') \cup unlucky'
<1>1. Elements(toDevice) \subseteq Requests
  BY DEF Wire, Elements
<1> QED
  BY <1>1, Nothing DEF Wire, SendFails, console

LEMMA TriesEffect ==
  ASSUME Wire, current \in Requests, NEW m \in Messages, TriesToSend(m)
  PROVE  /\ Wire'
         /\ Elements(toDevice') \subseteq Elements(toDevice)
         /\ Elements(received) \subseteq Elements(received')
         /\ Elements(received') \subseteq Elements(received) \cup {m}
  BY SendsEffect, FailsEffect DEF TriesToSend

LEMMA MessageTyped ==
  ASSUME current \in Requests, NEW event \in EventNames, NEW id \in Ids, NEW success \in BOOLEAN
  PROVE  /\ Message(event, id, success) \in Messages
         /\ Message(event, id, success).event = event
         /\ Message(event, id, success).cause = current
         /\ Message(event, id, success).success = success
  BY DEF Message, Messages

LEMMA CutTyped == ASSUME NEW r \in Requests PROVE Cut(r) \in Ids /\ r \in Ids /\ NoId \in Ids
  BY DEF Cut, Ids

-----------------------------------------------------------------------------
Device == /\ s_busy \in BOOLEAN /\ ok \in BOOLEAN
          /\ pc \in Steps /\ current \in Requests \cup {NoId}
          /\ queue \in Seq(Messages) /\ Len(queue) <= MaxItems
          /\ acking \in BOOLEAN /\ (acking => queue # <<>>)

LEMMA TypeOKParts == TypeOK <=> Wire /\ Device /\ Known
  BY DEF TypeOK, Wire, Device, Known

LEMMA InitInv == Init => Inv
<1> SUFFICES ASSUME Init PROVE Inv
  OBVIOUS
<1>1. TypeOK
  <2>1. <<>> \in Seq(Messages) /\ <<>> \in Seq(Requests) /\ Len(queue) = 0 /\ 0 <= MaxItems
    BY Nothing, QueueAssumption DEF Init
  <2> QED
    BY <2>1 DEF Init, TypeOK, Steps
<1>2. Elements(received) = {} /\ Elements(queue) = {} /\ Elements(toDevice) = {}
  BY Nothing DEF Init
<1>3. Handled
  BY <1>2 DEF Init, Handled
<1>4. NeverBusy
  BY <1>2 DEF Init, NeverBusy, BusyNeverSent
<1>5. Backed
  BY <1>2 DEF Init, Backed, ResultBacked
<1> QED
  BY <1>1, <1>3, <1>4, <1>5 DEF Inv

\* A request is made once, so no message is about it yet.
LEMMA SendCommandInv ==
  ASSUME Inv, NEW r \in Requests, NEW c \in Commands, SendCommand(r, c)
  PROVE  Inv'
<1> USE DEF Inv, TypeOK
<1>1. /\ toDevice' \in Seq(Requests)
      /\ Elements(toDevice') \subseteq Elements(toDevice) \cup {r}
  <2>1. toDevice' = Append(toDevice, r) \/ toDevice' = toDevice
    BY DEF SendCommand
  <2>2. toDevice \in Seq(Requests)
    OBVIOUS
  <2>3. /\ Append(toDevice, r) \in Seq(Requests)
        /\ Elements(Append(toDevice, r)) = Elements(toDevice) \cup {r}
    BY <2>2, Appended
  <2> QED
    BY <2>1, <2>2, <2>3
<1>2. /\ UNCHANGED <<received, link, s_connected, s_busy, pc, current, ok, queue, acking, lost>>
      /\ command' = [command EXCEPT ![r] = c] /\ ~Sent(r) /\ pending' = pending \cup {r}
      /\ unlucky' \subseteq Requests
  BY DEF SendCommand, device, Sent
<1>3. TypeOK'
  BY <1>1, <1>2
<1>4. \A q \in Requests : /\ Sent(q) => Sent(q)' /\ command'[q] = command[q]
                          /\ q = r => Sent(q)'
  BY <1>2, CommandAssumption DEF Sent
<1>5. \A m \in Elements(received) \cup Elements(queue) : m.cause \in Requests
  <2>1. \A m \in Elements(received) \cup Elements(queue) : m \in Messages
    BY DEF Elements
  <2> QED
    BY <2>1 DEF Messages
<1>6. \A q \in Elements(toDevice) : q \in Requests
  BY DEF Elements
<1>7. Handled'
  BY <1>1, <1>2, <1>4, <1>5, <1>6 DEF Handled
<1>8. NeverBusy'
  BY <1>2 DEF NeverBusy, BusyNeverSent
<1>9. Backed'
  <2>1. \A m \in Elements(received) : command'[m.cause] = command[m.cause]
    BY <1>4, <1>5 DEF Handled
  <2>2. pc = "reply" => command'[current] = command[current]
    BY <1>4 DEF Handled
  <2> QED
    BY <1>2, <2>1, <2>2 DEF Backed, ResultBacked, EventOf
<1> QED
  BY <1>3, <1>7, <1>8, <1>9

\* The steps of the device that send nothing.
LEMMA InsideInv ==
  ASSUME Inv, Dispatch \/ Sense
  PROVE  Inv'
<1> USE DEF Inv
<1>1. UNCHANGED <<pending, received, link, s_connected, queue, acking, command, lost, unlucky>>
  BY DEF Dispatch, Sense, console
<1>2. CASE Dispatch
  <2> DEFINE r == Head(toDevice)
  <2>1. /\ toDevice' \in Seq(Requests) /\ r \in Requests /\ r \in Elements(toDevice)
        /\ Elements(toDevice') \subseteq Elements(toDevice)
    BY <1>2, Tailed DEF Dispatch, TypeOK
  <2>2. Sent(r)
    BY <2>1 DEF Handled
  <2>3. ~s_busy
    BY <1>2 DEF Dispatch, NeverBusy
  <2>4. /\ current' = r /\ ok' = FALSE
        /\ pc' = IF command[r] = "ping" THEN "pong"
                 ELSE IF command[r] \in Sensing THEN "sense" ELSE "reply"
        /\ s_busy' = (command[r] # "ping")
    BY <1>2, <2>3 DEF Dispatch, Sensing
  <2> HIDE DEF r
  <2>5. TypeOK'
    BY <1>1, <2>1, <2>4 DEF TypeOK, Steps
  <2>6. Handled'
    BY <1>1, <2>1, <2>2, <2>4 DEF Handled, Sent
  <2>7. NeverBusy'
    BY <1>1, <2>4 DEF NeverBusy, BusyNeverSent
  <2>8. Backed'
    BY <1>1, <2>4 DEF Backed, ResultBacked, EventOf
  <2> QED
    BY <2>5, <2>6, <2>7, <2>8
<1>3. CASE Sense
  <2>1. /\ pc = "sense" /\ ok' \in BOOLEAN
        /\ pc' = IF command[current] \in Deleting THEN "result"
                 ELSE IF ok' THEN "event" ELSE "reply"
        /\ UNCHANGED <<toDevice, s_busy, current>>
    BY <1>3 DEF Sense, Deleting
  <2>2. TypeOK'
    BY <1>1, <2>1 DEF TypeOK, Steps
  <2>3. Handled'
    BY <1>1, <2>1 DEF Handled, Sent, Sensing, Deleting, Checking
  <2>4. NeverBusy'
    BY <1>1, <2>1 DEF NeverBusy, BusyNeverSent
  <2>5. Backed'
    BY <1>1, <2>1 DEF Backed, ResultBacked, EventOf
  <2> QED
    BY <2>2, <2>3, <2>4, <2>5
<1> QED
  BY <1>2, <1>3

\* The event of a check-in or an enrolment.
LEMMA EventMade ==
  ASSUME current \in Requests, command[current] \in Checking
  PROVE  /\ Event \in Messages /\ Event.cause = current /\ Event.success = TRUE
         /\ Event.event \in {"fingerprint_enrolled", "fingerprint_match"}
         /\ command[current] = "enroll_fingerprint" => Event.event = "fingerprint_enrolled"
<1>1. CASE command[current] = "enroll_fingerprint"
  BY <1>1, CutTyped, MessageTyped DEF Event, EventNames
<1>2. CASE command[current] # "enroll_fingerprint"
  BY <1>2, CutTyped, MessageTyped DEF Event, EventNames
<1> QED
  BY <1>1, <1>2

\* The event is sent, or queued, or met the full queue.
LEMMA DeliverEventInv ==
  ASSUME Inv, DeliverEvent
  PROVE  Inv'
<1> USE DEF Inv
<1> DEFINE m == Event
<1>1. /\ pc = "event" /\ pc' = "reply" /\ UNCHANGED <<s_busy, current, acking, command>>
      /\ ok /\ current \in Requests /\ Sent(current) /\ command[current] \in Checking
  BY DEF DeliverEvent, Handled
<1>2. /\ m \in Messages /\ m.cause = current
      /\ m.event \in {"fingerprint_enrolled", "fingerprint_match"}
      /\ command[current] = "enroll_fingerprint" => m.event = "fingerprint_enrolled"
  BY <1>1, EventMade
<1>3. Wire /\ Device /\ Known
  BY TypeOKParts
<1> HIDE DEF m
<1>4. CASE SendsEvent(m) /\ UNCHANGED <<queue, ok>>
  <2>1. /\ Wire' /\ UNCHANGED toDevice /\ lost \subseteq lost' /\ lost' \subseteq Requests
        /\ Elements(received) \subseteq Elements(received')
        /\ Elements(received') \subseteq Elements(received) \cup {m}
        /\ m \in Elements(received') \/ m.cause \in lost'
    BY <1>2, <1>3, <1>4, SendsEventEffect
  <2>2. TypeOK'
    BY <1>1, <1>3, <1>4, <2>1, TypeOKParts DEF TypeOK, Wire, Device, Known, Steps
  <2>3. Handled'
    BY <1>1, <1>2, <1>4, <2>1 DEF Handled, Sent
  <2>4. NeverBusy'
    BY <1>1, <1>2, <1>4, <2>1 DEF NeverBusy, BusyNeverSent
  <2>5. Backed'
    BY <1>1, <1>2, <1>4, <2>1 DEF Backed, ResultBacked, EventOf
  <2> QED
    BY <2>2, <2>3, <2>4, <2>5
<1>5. ASSUME SendFails PROVE /\ Wire' /\ UNCHANGED received
                             /\ Elements(toDevice') \subseteq Elements(toDevice)
  BY <1>1, <1>3, <1>5, FailsEffect
<1>6. CASE SendFails /\ Len(queue) < MaxItems /\ queue' = Append(queue, m)
           /\ UNCHANGED <<ok, lost>>
  <2>1. /\ queue' \in Seq(Messages) /\ Len(queue') <= MaxItems
        /\ Elements(queue') = Elements(queue) \cup {m}
        /\ queue' # <<>> /\ (acking => Head(queue') = Head(queue))
    <3>1. queue \in Seq(Messages) /\ (acking => queue # <<>>)
      BY <1>3 DEF Device
    <3>2. /\ queue' \in Seq(Messages) /\ Len(queue') <= MaxItems
          /\ Elements(queue') = Elements(queue) \cup {m}
      BY <1>2, <1>3, <1>6, Appended, QueueAssumption DEF Device
    <3>3. queue' # <<>> /\ (queue # <<>> => Head(queue') = Head(queue))
      BY <1>2, <1>6, <3>1, AppendHead
    <3> QED
      BY <3>1, <3>2, <3>3
  <2>2. TypeOK'
    BY <1>1, <1>3, <1>5, <1>6, <2>1 DEF TypeOK, Wire, Device, Known, Steps
  <2>3. Handled'
    BY <1>1, <1>2, <1>5, <1>6, <2>1 DEF Handled, Sent
  <2>4. NeverBusy'
    BY <1>1, <1>5, <1>6 DEF NeverBusy, BusyNeverSent
  <2>5. Backed'
    BY <1>1, <1>2, <1>5, <1>6, <2>1 DEF Backed, ResultBacked, EventOf
  <2> QED
    BY <2>2, <2>3, <2>4, <2>5
<1>7. CASE /\ SendFails /\ UNCHANGED queue
           /\ ok' = (command[current] = "enroll_fingerprint")
           /\ lost' = lost \cup {current}
  <2>2. TypeOK'
    BY <1>1, <1>3, <1>5, <1>7 DEF TypeOK, Wire, Device, Known, Steps
  <2>3. Handled'
    BY <1>1, <1>5, <1>7 DEF Handled, Sent
  <2>4. NeverBusy'
    BY <1>1, <1>5, <1>7 DEF NeverBusy, BusyNeverSent
  <2>5. Backed'
    BY <1>1, <1>5, <1>7 DEF Backed, ResultBacked, EventOf
  <2> QED
    BY <2>2, <2>3, <2>4, <2>5
<1> QED
  BY <1>4, <1>6, <1>7 DEF DeliverEvent, m

\* What an overlap leaves in the queue was there or is the event.
LEMMA OverlapLeaves ==
  ASSUME queue \in Seq(Messages), Event \in Messages, NEW q \in Overlapped(queue)
  PROVE  /\ q \in Seq(Messages) /\ Len(q) <= MaxItems
         /\ Elements(q) \subseteq Elements(queue) \cup {Event}
<1>1. PICK n \in 0 .. MaxItems : q \in [1 .. n -> Elements(queue) \cup {Event}]
  BY DEF Overlapped
<1>2. Elements(queue) \cup {Event} \subseteq Messages
  BY DEF Elements
<1>3. Elements(q) \subseteq Elements(queue) \cup {Event}
  BY <1>1 DEF Elements
<1>4. n \in Nat /\ q \in [1 .. n -> Messages] /\ n <= MaxItems
  BY <1>1, <1>2, QueueAssumption
<1>5. q \in Seq(Messages) /\ Len(q) = n
  BY <1>4
<1> QED
  BY <1>3, <1>4, <1>5

\* The overlap of the enqueue with an ack loses events, and is known for it.
LEMMA OverlappedInv ==
  ASSUME Inv, DeliverEventOverlapped
  PROVE  Inv'
<1> USE DEF Inv
<1> DEFINE gone == (Elements(queue) \cup {Event}) \ Elements(queue')
<1>1. /\ pc = "event" /\ pc' = "reply" /\ UNCHANGED <<s_busy, current, ok, command>>
      /\ ok /\ current \in Requests /\ Sent(current) /\ command[current] \in Checking
      /\ SendFails /\ queue' \in Overlapped(queue) /\ acking' = FALSE
      /\ lost' = lost \cup {e.cause : e \in gone}
  BY DEF DeliverEventOverlapped, Handled
<1>2. /\ Event \in Messages /\ Event.cause = current
      /\ Event.event \in {"fingerprint_enrolled", "fingerprint_match"}
      /\ command[current] = "enroll_fingerprint" => Event.event = "fingerprint_enrolled"
  BY <1>1, EventMade
<1>3. Wire /\ Device /\ Known
  BY TypeOKParts
<1>4. /\ queue' \in Seq(Messages) /\ Len(queue') <= MaxItems
      /\ Elements(queue') \subseteq Elements(queue) \cup {Event}
  BY <1>1, <1>2, <1>3, OverlapLeaves DEF Device
<1>5. /\ Wire' /\ UNCHANGED received
      /\ Elements(toDevice') \subseteq Elements(toDevice)
  BY <1>1, <1>3, FailsEffect
<1>6. \A e \in Elements(queue) \cup {Event} : e \in Elements(queue') \/ e.cause \in lost'
  BY <1>1
<1>7. lost \subseteq lost' /\ lost' \subseteq Requests
  <2>1. \A e \in Elements(queue) \cup {Event} : e \in Messages
    BY <1>2, <1>3 DEF Device, Elements
  <2>2. \A e \in gone : e.cause \in Requests
    BY <2>1 DEF Messages
  <2> QED
    BY <1>1, <1>3, <2>2 DEF Known
<1> HIDE DEF gone
<1>8. TypeOK'
  BY <1>1, <1>3, <1>4, <1>5, <1>7 DEF TypeOK, Wire, Device, Known, Steps
<1>9. Handled'
  BY <1>1, <1>2, <1>4, <1>5 DEF Handled, Sent
<1>10. NeverBusy'
  BY <1>1, <1>5 DEF NeverBusy, BusyNeverSent
<1>11. Backed'
  <2>1. \A q \in Requests : EventOf(q) => EventOf(q)'
    BY <1>5, <1>6, <1>7 DEF EventOf
  <2>2. command[current] = "enroll_fingerprint" => EventOf(current)'
    <3>1. Event \in Elements(queue') \/ current \in lost'
      BY <1>2, <1>6
    <3>2. UNCHANGED current
      BY <1>1
    <3>3. CASE current \in lost'
      BY <3>2, <3>3 DEF EventOf
    <3>4. CASE Event \in Elements(queue')
      BY <1>2, <3>2, <3>4 DEF EventOf
    <3> QED
      BY <3>1, <3>3, <3>4
  <2>3. \A m \in Elements(received) : m.cause \in Requests
    <3>1. \A m \in Elements(received) : m \in Messages
      BY <1>3 DEF Wire, Elements
    <3> QED
      BY <3>1 DEF Messages
  <2>4. ResultBacked <=> \A m \in Elements(received) :
          m.event = "operation_result" /\ m.success /\ command[m.cause] = "enroll_fingerprint"
              => EventOf(m.cause)
    BY DEF ResultBacked, EventOf
  <2>5. ResultBacked' <=> \A m \in Elements(received') :
          m.event = "operation_result" /\ m.success /\ command'[m.cause] = "enroll_fingerprint"
              => EventOf(m.cause)'
    BY DEF ResultBacked, EventOf
  <2>6. ResultBacked'
    BY <1>1, <1>5, <2>1, <2>3, <2>4, <2>5 DEF Backed
  <2> QED
    BY <1>1, <1>2, <1>4, <2>2, <2>6 DEF Backed
<1> QED
  BY <1>8, <1>9, <1>10, <1>11

\* The result of a deletion or a wipe: no enrolment.
LEMMA ResultInv ==
  ASSUME Inv, Result
  PROVE  Inv'
<1> USE DEF Inv
<1> DEFINE m == Message("operation_result", current, ok)
<1>1. /\ pc = "result" /\ pc' = "reply" /\ UNCHANGED <<s_busy, current, ok, queue, acking, command, lost>>
      /\ current \in Requests /\ Sent(current) /\ command[current] \in Deleting
  BY DEF Result, Handled
<1>2. Wire /\ Device /\ Known
  BY TypeOKParts
<1>3. m \in Messages /\ m.cause = current /\ m.event = "operation_result"
  BY <1>1, <1>2, CutTyped, MessageTyped DEF EventNames, Device
<1> HIDE DEF m
<1>4. /\ Wire'
      /\ Elements(toDevice') \subseteq Elements(toDevice)
      /\ Elements(received) \subseteq Elements(received')
      /\ Elements(received') \subseteq Elements(received) \cup {m}
  BY <1>1, <1>2, <1>3, TriesEffect DEF Result, m
<1>5. TypeOK'
  BY <1>1, <1>2, <1>4 DEF TypeOK, Wire, Device, Known, Steps
<1>6. Handled'
  BY <1>1, <1>3, <1>4 DEF Handled, Sent
<1>7. NeverBusy'
  BY <1>1, <1>3, <1>4 DEF NeverBusy, BusyNeverSent
<1>8. Backed'
  BY <1>1, <1>3, <1>4 DEF Backed, ResultBacked, EventOf, Deleting
<1> QED
  BY <1>5, <1>6, <1>7, <1>8

\* The last answer of handle_command: a success of an enrolment has its event.
LEMMA ReplyInv ==
  ASSUME Inv, Reply
  PROVE  Inv'
<1> USE DEF Inv
<1> DEFINE m == Answer
<1>1. /\ pc \in {"reply", "pong"} /\ pc' = "idle" /\ s_busy' = (s_busy /\ pc # "reply")
      /\ current' = NoId /\ ok' = FALSE /\ UNCHANGED <<queue, acking, command, lost>>
      /\ current \in Requests /\ Sent(current)
  BY DEF Reply, Handled, NeverBusy
<1>2. Wire /\ Device /\ Known
  BY TypeOKParts
<1>3. /\ m \in Messages /\ m.cause = current /\ m.event # "busy"
      /\ m.event = "operation_result" => pc = "reply" /\ m.success = ok
  <2> USE <1>1, CutTyped, MessageTyped DEF EventNames
  <2>1. CASE pc = "pong"
    BY <2>1 DEF Answer
  <2>2. CASE pc = "reply" /\ command[current] = "identify_fingerprint"
    <3>1. Answer = Message(IF ok THEN "fingerprint_match" ELSE "fingerprint_enrolled",
                           Cut(current), ok)
      BY <2>2 DEF Answer
    <3> QED
      BY <1>2, <2>2, <3>1 DEF Device
  <2>3. CASE pc = "reply" /\ command[current] \in Sensing \ {"identify_fingerprint"}
    <3>1. Answer = Message("operation_result", current, ok)
      BY <2>3 DEF Answer
    <3> QED
      BY <1>2, <2>3, <3>1 DEF Device
  <2>4. CASE pc = "reply" /\ command[current] \notin Sensing
    <3>1. Answer = Message("validation_error", current, FALSE)
      BY <2>4 DEF Answer, Sensing
    <3> QED
      BY <2>4, <3>1
  <2> QED
    BY <2>1, <2>2, <2>3, <2>4
<1>4. /\ Wire'
      /\ Elements(toDevice') \subseteq Elements(toDevice)
      /\ Elements(received) \subseteq Elements(received')
      /\ Elements(received') \subseteq Elements(received) \cup {m}
  BY <1>1, <1>2, <1>3, TriesEffect DEF Reply
<1> HIDE DEF m
<1>5. TypeOK'
  BY <1>1, <1>2, <1>4 DEF TypeOK, Wire, Device, Known, Steps
<1>6. Handled'
  BY <1>1, <1>3, <1>4 DEF Handled, Sent
<1>7. NeverBusy'
  <2>1. ~s_busy'
    BY <1>1 DEF NeverBusy
  <2> QED
    BY <1>1, <1>3, <1>4, <2>1 DEF NeverBusy, BusyNeverSent
<1>8. Backed'
  <2>1. m.event = "operation_result" /\ m.success /\ command[m.cause] = "enroll_fingerprint"
            => EventOf(current)
    BY <1>3 DEF Backed
  <2> QED
    BY <1>1, <1>3, <1>4, <2>1 DEF Backed, ResultBacked, EventOf
<1> QED
  BY <1>5, <1>6, <1>7, <1>8

\* A replayed event is at the server as well, or is known to be lost.
LEMMA ReplayInv ==
  ASSUME Inv, Replay
  PROVE  Inv'
<1> USE DEF Inv
<1> DEFINE m == Head(queue)
<1>1. UNCHANGED <<s_busy, pc, current, ok, queue, command>> /\ acking' = TRUE /\ queue # <<>>
  BY DEF Replay
<1>2. Wire /\ Device /\ Known
  BY TypeOKParts
<1>3. m \in Messages /\ m \in Elements(queue)
  BY <1>1, <1>2, Tailed DEF Device
<1>4. /\ Wire' /\ UNCHANGED toDevice /\ lost \subseteq lost' /\ lost' \subseteq Requests
      /\ Elements(received) \subseteq Elements(received')
      /\ Elements(received') \subseteq Elements(received) \cup {m}
      /\ m \in Elements(received') \/ m.cause \in lost'
  BY <1>2, <1>3, SendsEventEffect DEF Replay
<1>5. Head(queue') = m
  BY <1>1
<1> HIDE DEF m
<1>6. TypeOK'
  BY <1>1, <1>2, <1>3, <1>4 DEF TypeOK, Wire, Device, Known
<1>7. Handled'
  BY <1>1, <1>3, <1>4 DEF Handled, Sent
<1>8. m.event \in {"fingerprint_enrolled", "fingerprint_match"}
  BY <1>3 DEF Backed
<1>9. NeverBusy'
  BY <1>1, <1>4, <1>8 DEF NeverBusy, BusyNeverSent
<1>10. Backed'
  BY <1>1, <1>3, <1>4, <1>5, <1>8 DEF Backed, ResultBacked, EventOf
<1> QED
  BY <1>6, <1>7, <1>9, <1>10

\* What is acknowledged has gone out.
LEMMA AckInv ==
  ASSUME Inv, Ack
  PROVE  Inv'
<1> USE DEF Inv
<1> DEFINE m == Head(queue)
<1>1. /\ UNCHANGED <<pending, received, toDevice, link, s_connected, s_busy, pc, current, ok,
                     command, lost, unlucky>>
      /\ acking /\ acking' = FALSE /\ queue' = Tail(queue)
  BY DEF Ack, console
<1>2. Wire /\ Device /\ Known
  BY TypeOKParts
<1>3. /\ queue' \in Seq(Messages) /\ Len(queue') <= MaxItems
      /\ Elements(queue) = Elements(queue') \cup {m}
  BY <1>1, <1>2, Tailed, QueueAssumption DEF Device
<1>4. m \in Elements(received) \/ m.cause \in lost
  BY <1>1 DEF Backed
<1> HIDE DEF m
<1>5. TypeOK'
  BY <1>1, <1>2, <1>3 DEF TypeOK, Wire, Device, Known
<1>6. Handled'
  BY <1>1, <1>3 DEF Handled, Sent
<1>7. NeverBusy'
  BY <1>1 DEF NeverBusy, BusyNeverSent
<1>8. Backed'
  BY <1>1, <1>3, <1>4 DEF Backed, ResultBacked, EventOf
<1> QED
  BY <1>5, <1>6, <1>7, <1>8

LEMMA LinkInv ==
  ASSUME Inv, OnConnected \/ OnDisconnected \/ LinkFails \/ UNCHANGED vars
  PROVE  Inv'
<1> USE DEF Inv
<1>1. /\ UNCHANGED <<pending, received, s_busy, pc, current, ok, queue, acking, command, lost>>
      /\ toDevice' = toDevice \/ toDevice' = <<>>
      /\ link' = link \/ link' \in {"up", "broken", "down"}
      /\ s_connected' = s_connected \/ s_connected' \in BOOLEAN
      /\ unlucky' = unlucky \/ unlucky' = unlucky \cup Elements(toDevice)
  BY DEF OnConnected, OnDisconnected, LinkFails, vars, console, device
<1>2. toDevice' \in Seq(Requests) /\ Elements(toDevice') \subseteq Elements(toDevice)
  BY <1>1, Nothing DEF TypeOK
<1>3. TypeOK'
  <2>1. Elements(toDevice) \subseteq Requests
    BY DEF TypeOK, Elements
  <2> QED
    BY <1>1, <1>2, <2>1 DEF TypeOK
<1>4. Handled'
  BY <1>1, <1>2 DEF Handled, Sent
<1>5. NeverBusy' /\ Backed'
  BY <1>1 DEF NeverBusy, BusyNeverSent, Backed, ResultBacked, EventOf
<1> QED
  BY <1>3, <1>4, <1>5

LEMMA NextInv == Inv /\ [Next]_vars => Inv'
  BY SendCommandInv, InsideInv, DeliverEventInv, OverlappedInv, ResultInv, ReplyInv, ReplayInv,
     AckInv, LinkInv
  DEF Next, HandleCommand

LEMMA InvHolds == Spec => []Inv
  BY InitInv, NextInv, PTL DEF Spec

-----------------------------------------------------------------------------
\* The types of the console, the wire and the device; the offline queue never
\* holds more than OFFLINE_QUEUE_MAX_ITEMS events.
THEOREM DispatchTypeOK == Spec => []TypeOK
<1>1. Inv => TypeOK
  BY DEF Inv
<1> QED
  BY <1>1, InvHolds, PTL

\* handle_command runs in one task, and all its paths reset s_busy: the answer
\* "busy" that it has for a second command is never given.
THEOREM NobodyIsBusy == Spec => []BusyNeverSent
<1>1. Inv => BusyNeverSent
  BY DEF Inv, NeverBusy
<1> QED
  BY <1>1, InvHolds, PTL

\* A successful enrolment is never without its event, unless the queue refused
\* or lost it or it went out on a half-open connection.
THEOREM ResultsAreBacked == Spec => []ResultBacked
<1>1. Inv => ResultBacked
  BY DEF Inv, Backed
<1> QED
  BY <1>1, InvHolds, PTL

-----------------------------------------------------------------------------
\* What an attempt to send does to the requests: the message answers its own,
\* or the command at hand and those on the wire are known to be unlucky.
LEMMA TriesAnswers ==
  ASSUME Wire, current \in Requests, NEW m, m.cause = current, TriesToSend(m)
  PROVE  /\ pending' \subseteq pending /\ unlucky \subseteq unlucky'
         /\ Elements(toDevice) \subseteq Elements(toDevice') \cup unlucky'
         /\ current \in unlucky' \/ pending' = pending \ {m.requestId}
<1>1. CASE Sends(m)
  BY <1>1 DEF Sends, Arrives, console
<1>2. CASE SendFails
  BY <1>2, FailsEffect
<1> QED
  BY <1>1, <1>2 DEF TriesToSend

\* Every path of handle_command ends with a message of the request's own id.
LEMMA AnswerNames ==
  ASSUME pc \in {"reply", "pong", "busy"}, current \in Requests \ Long
  PROVE  Answer.requestId = current
<1>1. /\ Cut(current) = current
      /\ \A event, id, success : Message(event, id, success).requestId = id
  BY DEF Cut, Message
<1>2. CASE pc = "reply" /\ command[current] = "identify_fingerprint"
  BY <1>1, <1>2 DEF Answer
<1>3. CASE pc = "reply" /\ command[current] # "identify_fingerprint"
  BY <1>1, <1>3 DEF Answer
<1>4. CASE pc \in {"pong", "busy"}
  BY <1>1, <1>4 DEF Answer
<1> QED
  BY <1>2, <1>3, <1>4

\* All that handle_command says is about the command it runs.
LEMMA AboutCurrent ==
  /\ Event.cause = current /\ Answer.cause = current
  /\ \A event, id, success : Message(event, id, success).cause = current
<1>1. \A event, id, success : Message(event, id, success).cause = current
  BY DEF Message
<1>2. Event.cause = current
  BY <1>1 DEF Event
<1>3. Answer.cause = current
  <2>1. CASE pc = "reply" /\ command[current] = "identify_fingerprint"
    BY <1>1, <2>1 DEF Answer
  <2>2. CASE pc = "reply" /\ command[current] # "identify_fingerprint"
    BY <1>1, <2>2 DEF Answer
  <2>3. CASE pc = "pong"
    BY <1>1, <2>3 DEF Answer
  <2>4. CASE pc = "busy"
    BY <1>1, <2>4 DEF Answer
  <2>5. CASE pc \notin {"reply", "pong", "busy"}
    BY <1>1, <2>5 DEF Answer
  <2> QED
    BY <2>1, <2>2, <2>3, <2>4, <2>5
<1> QED
  BY <1>1, <1>2, <1>3

\* At rest the device handles no request.
AtRest == pc = "idle" => current = NoId

LEMMA AtRestStep ==
  ASSUME Inv, AtRest, [Next]_vars
  PROVE  AtRest'
<1> USE DEF AtRest
<1>1. CASE Dispatch \/ Sense \/ DeliverEvent \/ DeliverEventOverlapped \/ Result \/ Reply
  BY <1>1 DEF Dispatch, Sense, DeliverEvent, DeliverEventOverlapped, Result, Reply
<1>2. ASSUME NEW r \in Requests, NEW c \in Commands, SendCommand(r, c)
      PROVE  AtRest'
  BY <1>2 DEF SendCommand, device
<1>3. CASE Replay \/ Ack \/ OnConnected \/ OnDisconnected \/ LinkFails \/ UNCHANGED vars
  BY <1>3 DEF Replay, Ack, OnConnected, OnDisconnected, LinkFails, vars, device
<1> QED
  BY <1>1, <1>2, <1>3 DEF Next, HandleCommand

\* A request leaves the device answered, or unlucky, or too long.
LEMMA NothingForgottenStep ==
  ASSUME Inv, AtRest, NothingForgotten, [Next]_vars
  PROVE  NothingForgotten'
<1> USE DEF NothingForgotten, InDevice
<1>1. Wire /\ (pc # "idle" => current \in Requests)
  BY TypeOKParts DEF Inv, Handled
<1>2. pending \subseteq Requests /\ Elements(toDevice) \subseteq Requests
  BY <1>1 DEF Wire, Elements
<1>3. ASSUME NEW r \in Requests, NEW c \in Commands, SendCommand(r, c)
      PROVE  NothingForgotten'
  <2>1. /\ Elements(toDevice) \subseteq Elements(toDevice') /\ unlucky \subseteq unlucky'
        /\ r \in Elements(toDevice') \cup unlucky'
    <3>1. toDevice \in Seq(Requests)
      BY <1>1 DEF Wire
    <3>2. CASE link = "up"
      <4>1. toDevice' = Append(toDevice, r) /\ UNCHANGED unlucky
        BY <1>3, <3>2 DEF SendCommand
      <4> QED
        BY <3>1, <4>1, Appended
    <3>3. CASE link # "up"
      BY <1>3, <3>3 DEF SendCommand, Elements
    <3> QED
      BY <3>2, <3>3
  <2> QED
    BY <1>3, <2>1 DEF SendCommand, device
<1>4. CASE Dispatch
  <2>1. Elements(toDevice) = Elements(toDevice') \cup {current'}
    BY <1>1, <1>4, Tailed DEF Dispatch, Wire
  <2>2. current \notin Requests
    BY <1>4, RequestAssumption DEF Dispatch, AtRest
  <2> QED
    BY <1>2, <1>4, <2>1, <2>2 DEF Dispatch, console
<1>5. CASE Sense \/ Ack \/ OnConnected \/ OnDisconnected \/ UNCHANGED vars
  BY <1>5 DEF Sense, Ack, OnConnected, OnDisconnected, vars, console, device
<1>6. ASSUME NEW m, m.cause = current, TriesToSend(m), current \in Requests, UNCHANGED current
      PROVE  NothingForgotten'
  BY <1>1, <1>6, TriesAnswers
<1>7. CASE DeliverEvent \/ DeliverEventOverlapped
  BY <1>1, <1>6, <1>7, AboutCurrent DEF DeliverEvent, DeliverEventOverlapped, SendsEvent, TriesToSend
<1>8. CASE Result
  BY <1>1, <1>6, <1>8, AboutCurrent DEF Result
<1>9. CASE Reply
  <2>1. current \in Requests /\ TriesToSend(Answer) /\ pc \in {"reply", "pong", "busy"}
    BY <1>1, <1>9 DEF Reply
  <2>2. current \in Long \cup unlucky' \/ current \notin pending'
    BY <1>1, <2>1, AnswerNames, TriesAnswers, AboutCurrent
  <2> QED
    BY <1>1, <2>1, <2>2, TriesAnswers, AboutCurrent
<1>10. CASE Replay
  BY <1>10 DEF Replay, SendsEvent, Sends, Arrives, console
<1>11. CASE LinkFails
  BY <1>11 DEF LinkFails, console, device
<1> QED
  BY <1>3, <1>4, <1>5, <1>7, <1>8, <1>9, <1>10, <1>11 DEF Next, HandleCommand

\* A request whose connection holds and whose frames go out never waits for a
\* message that nobody is going to send: the safety half of AnswersArrive.
THEOREM NoRequestIsForgotten == Spec => []NothingForgotten
<1>1. Init => AtRest /\ NothingForgotten
  BY DEF Init, AtRest, NothingForgotten
<1>2. Inv /\ AtRest /\ NothingForgotten /\ [Next]_vars => AtRest' /\ NothingForgotten'
  BY AtRestStep, NothingForgottenStep
<1> QED
  BY <1>1, <1>2, InvHolds, PTL DEF Spec

-----------------------------------------------------------------------------
\* Nothing has been said yet about a request that waits, each waits once, and
\* what was said about the one at hand is what its answer will say.
Unsaid(r) == \A m \in Said : m.cause # r

Waits ==
    /\ \A i, j \in DOMAIN toDevice : i # j => toDevice[i] # toDevice[j]
    /\ \A r \in Elements(toDevice) : Unsaid(r) /\ (pc # "idle" => r # current)

Saying ==
    /\ pc \in {"sense", "event", "result", "pong"} => Unsaid(current)
    /\ pc = "reply" => /\ \A m \in Said : m.cause = current => m.success = ok
                       /\ command[current] \notin Sensing => ~ok

Agreed == Waits /\ Saying /\ AnswersAgree

\* The command that is taken from the wire is not on it any more.
LEMMA HeadLeaves ==
  ASSUME NEW S, NEW s \in Seq(S), s # <<>>, \A i, j \in DOMAIN s : i # j => s[i] # s[j]
  PROVE  /\ Head(s) \notin Elements(Tail(s))
         /\ \A i, j \in DOMAIN Tail(s) : i # j => Tail(s)[i] # Tail(s)[j]
<1> DEFINE t == Tail(s)
<1>1. /\ DOMAIN s = 1 .. Len(s) /\ Len(s) \in Nat \ {0} /\ Head(s) = s[1]
      /\ DOMAIN t = 1 .. Len(s) - 1 /\ \A i \in 1 .. Len(s) - 1 : t[i] = s[i + 1]
  OBVIOUS
<1> HIDE DEF t
<1>2. \A i \in DOMAIN t : i + 1 \in DOMAIN s /\ i + 1 # 1 /\ t[i] = s[i + 1] /\ i \in Nat
  BY <1>1
<1>3. 1 \in DOMAIN s
  BY <1>1
<1>4. Head(s) \notin Elements(t)
  BY <1>1, <1>2, <1>3 DEF Elements
<1>5. ASSUME NEW i \in DOMAIN t, NEW j \in DOMAIN t, i # j
      PROVE  t[i] # t[j]
  <2>1. i + 1 # j + 1 /\ i + 1 \in DOMAIN s /\ j + 1 \in DOMAIN s
    BY <1>2, <1>5
  <2> QED
    BY <1>2, <2>1
<1> QED
  BY <1>4, <1>5 DEF t

\* A new command on the wire is another than those already there.
LEMMA AppendDistinct ==
  ASSUME NEW S, NEW s \in Seq(S), NEW e \in S, e \notin Elements(s),
         \A i, j \in DOMAIN s : i # j => s[i] # s[j]
  PROVE  \A i, j \in DOMAIN Append(s, e) : i # j => Append(s, e)[i] # Append(s, e)[j]
<1> DEFINE a == Append(s, e)
<1>1. /\ DOMAIN s = 1 .. Len(s) /\ Len(s) \in Nat
      /\ DOMAIN a = 1 .. Len(s) + 1 /\ a[Len(s) + 1] = e
      /\ \A i \in 1 .. Len(s) : a[i] = s[i]
  OBVIOUS
<1> HIDE DEF a
<1>2. \A i \in DOMAIN s : s[i] # e
  BY DEF Elements
<1>3. \A i, j \in DOMAIN a : i # j => a[i] # a[j]
  BY <1>1, <1>2
<1> QED
  BY <1>3 DEF a

\* One more message about the command at hand.
LEMMA OneMoreSaid ==
  ASSUME AnswersAgree, NEW m, Said' \subseteq Said \cup {m},
         \A e \in Said : e.cause = m.cause => e.success = m.success
  PROVE  AnswersAgree'
  BY DEF AnswersAgree

\* A message about the command at hand, and a wire that may have been cut.
LEMMA WaitsKept ==
  ASSUME Waits, pc # "idle", NEW m, m.cause = current, Said' \subseteq Said \cup {m},
         toDevice' = toDevice \/ toDevice' = <<>>, current' = current \/ pc' = "idle"
  PROVE  Waits'
<1>1. CASE toDevice' = toDevice
  BY <1>1 DEF Waits, Unsaid, Elements
<1>2. CASE toDevice' = <<>>
  <2>1. DOMAIN toDevice' = {} /\ Elements(toDevice') = {}
    BY <1>2 DEF Elements
  <2> QED
    BY <2>1 DEF Waits, Elements
<1> QED
  BY <1>1, <1>2

\* A try adds its message to what was said, or nothing.
LEMMA TriesSay ==
  ASSUME Wire, current \in Requests, NEW m \in Messages, TriesToSend(m), UNCHANGED queue
  PROVE  /\ Said' \subseteq Said \cup {m}
         /\ toDevice' = toDevice \/ toDevice' = <<>>
<1>1. Elements(received') \subseteq Elements(received) \cup {m}
  BY TriesEffect
<1>2. toDevice' = toDevice \/ toDevice' = <<>>
  BY DEF TriesToSend, Sends, SendFails
<1> QED
  BY <1>1, <1>2 DEF Said, Elements

LEMMA DispatchAgrees ==
  ASSUME Inv, Agreed, Dispatch
  PROVE  Agreed'
<1> DEFINE r == Head(toDevice)
<1>1. /\ toDevice \in Seq(Requests) /\ toDevice # <<>> /\ ~s_busy /\ pc = "idle"
      /\ toDevice' = Tail(toDevice) /\ UNCHANGED <<received, queue, command>>
  BY DEF Dispatch, Inv, TypeOK, NeverBusy, console
<1>2. Said' = Said
  BY <1>1 DEF Said, Elements
<1>3. /\ Elements(toDevice) = Elements(toDevice') \cup {r}
      /\ r \notin Elements(toDevice')
      /\ \A i, j \in DOMAIN toDevice' : i # j => toDevice'[i] # toDevice'[j]
  BY <1>1, Tailed, HeadLeaves DEF Agreed, Waits
<1>4. /\ current' = r /\ ok' = FALSE
      /\ pc' = IF command[r] = "ping" THEN "pong"
               ELSE IF command[r] \in Sensing THEN "sense" ELSE "reply"
  BY <1>1 DEF Dispatch, Sensing
<1> HIDE DEF r
<1>5. \A e \in Said' : e.cause # r /\ e.cause \notin Elements(toDevice')
  BY <1>2, <1>3 DEF Agreed, Waits, Unsaid
<1>6. Waits'
  BY <1>3, <1>4, <1>5 DEF Waits, Unsaid
<1>7. Saying'
  BY <1>4, <1>5 DEF Saying, Unsaid
<1>8. AnswersAgree'
  BY <1>2 DEF Agreed, AnswersAgree
<1> QED
  BY <1>6, <1>7, <1>8 DEF Agreed

\* The event reports a success, and so does the answer if the event is out or
\* queued.
LEMMA DeliverAgrees ==
  ASSUME Inv, Agreed, DeliverEvent \/ DeliverEventOverlapped
  PROVE  Agreed'
<1> DEFINE m == Event
<1>1. /\ Wire /\ queue \in Seq(Messages) /\ ok /\ current \in Requests
      /\ pc = "event" /\ pc' = "reply" /\ UNCHANGED <<current, command>>
      /\ command[current] \in Checking
  BY TypeOKParts DEF Inv, Handled, Device, DeliverEvent, DeliverEventOverlapped
<1>2. m \in Messages /\ m.cause = current /\ m.success = TRUE
  BY <1>1, EventMade
<1>3. Unsaid(current) /\ Waits /\ AnswersAgree
  BY <1>1 DEF Agreed, Saying
<1> HIDE DEF m
<1>4. ASSUME Said' \subseteq Said \cup {m}, ok', toDevice' = toDevice \/ toDevice' = <<>>
      PROVE  Agreed'
  <2>1. AnswersAgree'
    BY <1>2, <1>3, <1>4, OneMoreSaid DEF Unsaid
  <2>2. Waits'
    BY <1>1, <1>2, <1>3, <1>4, WaitsKept
  <2>3. Saying'
    BY <1>1, <1>2, <1>3, <1>4 DEF Saying, Unsaid, Checking, Sensing
  <2> QED
    BY <2>1, <2>2, <2>3 DEF Agreed
<1>5. CASE SendsEvent(m) /\ UNCHANGED <<queue, ok>>
  <2>1. TriesToSend(m)
    BY <1>5 DEF SendsEvent, TriesToSend
  <2> QED
    BY <1>1, <1>2, <1>4, <1>5, <2>1, TriesSay
<1>6. ASSUME SendFails PROVE UNCHANGED received /\ (toDevice' = toDevice \/ toDevice' = <<>>)
  BY <1>6 DEF SendFails, console
<1>7. CASE SendFails /\ queue' = Append(queue, m) /\ UNCHANGED ok
  <2>1. Elements(queue') = Elements(queue) \cup {m}
    BY <1>1, <1>2, <1>7, Appended
  <2>2. Said' \subseteq Said \cup {m}
    BY <1>6, <1>7, <2>1 DEF Said, Elements
  <2> QED
    BY <1>1, <1>4, <1>6, <1>7, <2>2
<1>8. CASE SendFails /\ UNCHANGED queue
  <2>1. Said' = Said
    BY <1>6, <1>8 DEF Said, Elements
  <2>2. Waits'
    BY <1>1, <1>2, <1>3, <1>6, <1>8, <2>1, WaitsKept
  <2>3. Saying' /\ AnswersAgree'
    BY <1>1, <1>3, <2>1 DEF Saying, Unsaid, AnswersAgree, Checking, Sensing
  <2> QED
    BY <2>2, <2>3 DEF Agreed
<1>9. CASE SendFails /\ queue' \in Overlapped(queue) /\ UNCHANGED ok
  <2>1. Elements(queue') \subseteq Elements(queue) \cup {m}
    BY <1>1, <1>2, <1>9, OverlapLeaves DEF m
  <2>2. Said' \subseteq Said \cup {m}
    BY <1>6, <1>9, <2>1 DEF Said, Elements
  <2> QED
    BY <1>1, <1>4, <1>6, <1>9, <2>2
<1> QED
  BY <1>5, <1>7, <1>8, <1>9 DEF DeliverEvent, DeliverEventOverlapped, m

\* The result of a deletion or a wipe, with the outcome its answer repeats.
LEMMA ResultAgrees ==
  ASSUME Inv, Agreed, Result
  PROVE  Agreed'
<1> DEFINE m == Message("operation_result", current, ok)
<1>1. /\ Wire /\ ok \in BOOLEAN /\ current \in Requests
      /\ pc = "result" /\ pc' = "reply" /\ UNCHANGED <<current, ok, queue, command>>
      /\ command[current] \in Deleting
  BY TypeOKParts DEF Inv, Handled, Device, Result
<1>2. m \in Messages /\ m.cause = current /\ m.success = ok
  BY <1>1, CutTyped, MessageTyped DEF EventNames
<1>3. Unsaid(current) /\ Waits /\ AnswersAgree
  BY <1>1 DEF Agreed, Saying
<1> HIDE DEF m
<1>4. Said' \subseteq Said \cup {m} /\ (toDevice' = toDevice \/ toDevice' = <<>>)
  BY <1>1, <1>2, TriesSay DEF Result, m
<1>5. AnswersAgree'
  BY <1>2, <1>3, <1>4, OneMoreSaid DEF Unsaid
<1>6. Waits'
  BY <1>1, <1>2, <1>3, <1>4, WaitsKept
<1>7. Saying'
  BY <1>1, <1>2, <1>3, <1>4 DEF Saying, Unsaid, Deleting, Sensing
<1> QED
  BY <1>5, <1>6, <1>7 DEF Agreed

\* The answer of handle_command.
LEMMA ReplyAgrees ==
  ASSUME Inv, Agreed, Reply
  PROVE  Agreed'
<1> DEFINE m == Answer
<1>1. /\ Wire /\ ok \in BOOLEAN /\ current \in Requests /\ TriesToSend(m)
      /\ pc \in {"reply", "pong"} /\ pc' = "idle" /\ UNCHANGED <<queue, command>>
  BY TypeOKParts DEF Inv, Handled, NeverBusy, Device, Reply
<1>2. Waits /\ Saying /\ AnswersAgree
  BY DEF Agreed
<1>3. /\ m \in Messages /\ m.cause = current
      /\ \A e \in Said : e.cause = current => e.success = m.success
  <2> USE CutTyped, MessageTyped DEF EventNames
  <2>1. CASE pc = "pong"
    BY <1>1, <1>2, <2>1 DEF Answer, Saying, Unsaid
  <2>2. CASE pc = "reply" /\ command[current] = "identify_fingerprint"
    <3>1. Answer = Message(IF ok THEN "fingerprint_match" ELSE "fingerprint_enrolled",
                           Cut(current), ok)
      BY <2>2 DEF Answer
    <3> QED
      BY <1>1, <1>2, <2>2, <3>1 DEF Saying
  <2>3. CASE pc = "reply" /\ command[current] \in Sensing \ {"identify_fingerprint"}
    <3>1. Answer = Message("operation_result", current, ok)
      BY <2>3 DEF Answer
    <3> QED
      BY <1>1, <1>2, <2>3, <3>1 DEF Saying
  <2>4. CASE pc = "reply" /\ command[current] \notin Sensing
    <3>1. Answer = Message("validation_error", current, FALSE)
      BY <2>4 DEF Answer, Sensing
    <3>2. ok = FALSE
      BY <1>1, <1>2, <2>4 DEF Saying
    <3>3. m \in Messages /\ m.cause = current /\ m.success = FALSE
      BY <1>1, <3>1
    <3>4. \A e \in Said : e.cause = current => e.success = ok
      BY <1>2, <2>4 DEF Saying
    <3> QED
      BY <3>2, <3>3, <3>4
  <2> QED
    BY <1>1, <2>1, <2>2, <2>3, <2>4
<1> HIDE DEF m
<1>4. Said' \subseteq Said \cup {m} /\ (toDevice' = toDevice \/ toDevice' = <<>>)
  BY <1>1, <1>3, TriesSay
<1>5. AnswersAgree'
  BY <1>2, <1>3, <1>4, OneMoreSaid
<1>6. Waits'
  BY <1>1, <1>2, <1>3, <1>4, WaitsKept
<1>7. Saying'
  BY <1>1 DEF Saying
<1> QED
  BY <1>5, <1>6, <1>7 DEF Agreed

\* A step that says nothing new while the handler stands still.
LEMMA AgreedKept ==
  ASSUME Agreed, Said' \subseteq Said, UNCHANGED <<pc, current, ok, command>>,
         toDevice' = toDevice \/ toDevice' = <<>>
  PROVE  Agreed'
<1>1. AnswersAgree' /\ Saying'
  BY DEF Agreed, AnswersAgree, Saying, Unsaid
<1>2. Waits'
  <2>1. CASE toDevice' = toDevice
    BY <2>1 DEF Agreed, Waits, Unsaid, Elements
  <2>2. CASE toDevice' = <<>>
    <3>1. DOMAIN toDevice' = {} /\ Elements(toDevice') = {}
      BY <2>2 DEF Elements
    <3> QED
      BY <3>1 DEF Waits, Elements
  <2> QED
    BY <2>1, <2>2
<1> QED
  BY <1>1, <1>2 DEF Agreed

LEMMA AgreedStep ==
  ASSUME Inv, Agreed, [Next]_vars
  PROVE  Agreed'
<1>1. ASSUME NEW r \in Requests, NEW c \in Commands, SendCommand(r, c)
      PROVE  Agreed'
  <2>1. /\ UNCHANGED <<received, queue, pc, current, ok>> /\ toDevice \in Seq(Requests)
        /\ command' = [command EXCEPT ![r] = c] /\ ~Sent(r)
        /\ command \in [Requests -> Commands \cup {"none"}]
        /\ toDevice' = Append(toDevice, r) \/ toDevice' = toDevice
    BY <1>1 DEF SendCommand, device, Sent, Inv, TypeOK
  <2>2. Said' = Said
    BY <2>1 DEF Said, Elements
  <2>3. r \notin Elements(toDevice) /\ Unsaid(r) /\ (pc # "idle" => r # current)
    BY <2>1 DEF Inv, Handled, Unsaid, Said
  <2>4. /\ Elements(toDevice') \subseteq Elements(toDevice) \cup {r}
        /\ \A i, j \in DOMAIN toDevice' : i # j => toDevice'[i] # toDevice'[j]
    <3>1. CASE toDevice' = Append(toDevice, r)
      BY <2>1, <2>3, <3>1, Appended, AppendDistinct DEF Agreed, Waits
    <3>2. CASE toDevice' = toDevice
      BY <3>2 DEF Agreed, Waits, Elements
    <3> QED
      BY <2>1, <3>1, <3>2
  <2>5. Waits'
    BY <2>1, <2>2, <2>3, <2>4 DEF Agreed, Waits, Unsaid
  <2>6. pc # "idle" => command'[current] = command[current]
    BY <2>1, <2>3 DEF Inv, Handled
  <2>7. Saying' /\ AnswersAgree'
    BY <2>1, <2>2, <2>6 DEF Agreed, Saying, Unsaid, AnswersAgree
  <2> QED
    BY <2>5, <2>7 DEF Agreed
<1>2. CASE Sense
  <2>1. /\ pc = "sense" /\ pc' \in {"result", "event", "reply"}
        /\ UNCHANGED <<received, queue, toDevice, current, command>>
        /\ command[current] \in Sensing
    BY <1>2 DEF Sense, console, Inv, Handled
  <2>2. Said' = Said
    BY <2>1 DEF Said, Elements
  <2>3. Waits'
    BY <2>1, <2>2 DEF Agreed, Waits, Unsaid, Elements
  <2>4. Saying' /\ AnswersAgree'
    BY <2>1, <2>2 DEF Agreed, Saying, Unsaid, AnswersAgree
  <2> QED
    BY <2>3, <2>4 DEF Agreed
<1>3. CASE Replay
  <2>1. /\ queue \in Seq(Messages) /\ queue # <<>> /\ Wire
        /\ Sends(Head(queue))
        /\ UNCHANGED <<queue, pc, current, ok, command>>
    BY <1>3, TypeOKParts DEF Replay, SendsEvent, Inv, Device
  <2>2. Head(queue) \in Elements(queue) /\ Head(queue) \in Messages
    BY <2>1, Tailed
  <2>3. UNCHANGED toDevice /\ Elements(received') \subseteq Elements(received) \cup {Head(queue)}
    BY <2>1, <2>2, SendsEffect
  <2>4. Said' \subseteq Said
    BY <2>1, <2>2, <2>3 DEF Said
  <2> QED
    BY <2>1, <2>3, <2>4, AgreedKept
<1>5. CASE Ack
  <2>1. /\ queue \in Seq(Messages) /\ queue # <<>> /\ queue' = Tail(queue)
        /\ UNCHANGED <<received, toDevice, pc, current, ok, command>>
    BY <1>5, TypeOKParts DEF Ack, Inv, Device, console
  <2>2. Elements(queue') \subseteq Elements(queue)
    BY <2>1, Tailed
  <2>3. Said' \subseteq Said
    BY <2>1, <2>2 DEF Said
  <2> QED
    BY <2>1, <2>3, AgreedKept
<1>4. CASE OnConnected \/ OnDisconnected \/ LinkFails \/ UNCHANGED vars
  <2>1. /\ UNCHANGED <<received, queue, pc, current, ok, command>>
        /\ toDevice' = toDevice \/ toDevice' = <<>>
    BY <1>4 DEF OnConnected, OnDisconnected, LinkFails, vars, console, device
  <2>2. Said' \subseteq Said
    BY <2>1 DEF Said, Elements
  <2> QED
    BY <2>1, <2>2, AgreedKept
<1> QED
  BY <1>1, <1>2, <1>3, <1>4, <1>5, DispatchAgrees, DeliverAgrees, ResultAgrees, ReplyAgrees
  DEF Next, HandleCommand

\* Whatever is lost, queued or refused meanwhile, the console is never told
\* both that a command succeeded and that it failed.
THEOREM AnswersStayConsistent == Spec => []AnswersAgree
<1>1. Init => Agreed
  <2> SUFFICES ASSUME Init PROVE Agreed
    OBVIOUS
  <2>1. Elements(received) = {} /\ Elements(queue) = {} /\ Elements(toDevice) = {}
        /\ DOMAIN toDevice = {} /\ pc = "idle"
    BY Nothing DEF Init
  <2> QED
    BY <2>1 DEF Agreed, Waits, Saying, AnswersAgree, Said
<1>2. Inv /\ Agreed /\ [Next]_vars => Agreed'
  BY AgreedStep
<1>3. Agreed => AnswersAgree
  BY DEF Agreed
<1> QED
  BY <1>1, <1>2, <1>3, InvHolds, PTL DEF Spec
=============================================================================

--------------------------- MODULE CommandDispatch ---------------------------
(***************************************************************************)
(* A command of the server's console, from the HTTP request that sends it  *)
(* to the messages that answer it: server.js on one side, handle_command   *)
(* of websocket_transport.c and the use cases it runs on the other.  All   *)
(* device steps are taken by the WebSocket client's task; the touch task   *)
(* appears as the replay of queued events, and as the operation of the     *)
(* queue that a store overlaps with.                                       *)
(***************************************************************************)
EXTENDS Naturals, Sequences, FiniteSets

CONSTANTS
    Requests,   \* the requestIds the console uses, each once
    Long,       \* those of 48 to 63 characters: too long for a queue_item_t
    NoId,       \* the empty requestId
    CutId,      \* what is left of a long requestId
    Commands,   \* the commands the console sends
    MaxItems    \* OFFLINE_QUEUE_MAX_ITEMS

Sensing == {"enroll_fingerprint", "identify_fingerprint", "delete_fingerprint",
            "wipe_all_fingerprints"}

ASSUME RequestAssumption == /\ Long \subseteq Requests
                            /\ {NoId, CutId} \cap Requests = {} /\ NoId # CutId
ASSUME CommandAssumption == "none" \notin Commands
ASSUME QueueAssumption == MaxItems \in Nat \ {0}

VARIABLES
    pending,    \* server.js: requests without any message yet
    received,   \* server.js: the messages of the device, in order
    toDevice,   \* external: commands on the wire
    link        \* external: "up", "broken" (half-open: nobody has noticed) or "down"

VARIABLES
    s_connected,    \* the transport's flag
    s_busy,         \* the transport's flag
    pc,             \* where handle_command is
    current,        \* the command it runs
    ok,             \* what the use case has returned so far
    queue,          \* the offline queue
    acking          \* the touch task is about to acknowledge the head it has sent

VARIABLES       \* history
    command,    \* what each request asked for
    lost,       \* requests with an event that the queue refused or lost, or that
                \* went out on a half-open connection
    unlucky     \* requests lost on the wire, or with a frame that did not go out
                \* or went out on a half-open connection

console == <<pending, received>>
device == <<s_connected, s_busy, pc, current, ok, queue, acking>>
vars == <<console, toDevice, link, device, command, lost, unlucky>>

Elements(s) == {s[i] : i \in DOMAIN s}

Ids == Requests \cup {NoId, CutId}
EventNames == {"pong", "busy", "validation_error", "operation_result",
               "fingerprint_enrolled", "fingerprint_match"}
\* A message, with the request it is about and whether it reports a success.
Messages == [event : EventNames, requestId : Ids, cause : Requests, success : BOOLEAN]
Steps == {"idle", "sense", "event", "result", "reply", "pong", "busy"}

TypeOK ==
    /\ pending \subseteq Requests /\ received \in Seq(Messages)
    /\ toDevice \in Seq(Requests) /\ link \in {"up", "broken", "down"}
    /\ s_connected \in BOOLEAN /\ s_busy \in BOOLEAN /\ ok \in BOOLEAN
    /\ pc \in Steps /\ current \in Requests \cup {NoId}
    /\ queue \in Seq(Messages) /\ Len(queue) <= MaxItems
    /\ acking \in BOOLEAN /\ (acking => queue # <<>>)
    /\ command \in [Requests -> Commands \cup {"none"}]
    /\ lost \subseteq Requests /\ unlucky \subseteq Requests

Init ==
    /\ pending = {} /\ received = <<>>
    /\ toDevice = <<>> /\ link = "down"
    /\ s_connected = FALSE /\ s_busy = FALSE
    /\ pc = "idle" /\ current = NoId /\ ok = FALSE
    /\ queue = <<>> /\ acking = FALSE
    /\ command = [r \in Requests |-> "none"] /\ lost = {} /\ unlucky = {}

-----------------------------------------------------------------------------
\* POST /api/command, with the device's socket open as far as the server knows.
SendCommand(r, c) ==
    /\ command[r] = "none"
    /\ link \in {"up", "broken"}
    /\ pending' = pending \cup {r}
    /\ command' = [command EXCEPT ![r] = c]
    /\ IF link = "up"
       THEN toDevice' = Append(toDevice, r) /\ UNCHANGED unlucky
       ELSE unlucky' = unlucky \cup {r} /\ UNCHANGED toDevice
    /\ UNCHANGED <<received, link, device, lost>>

\* ws.on('message'): any message with its requestId answers a request.
Arrives(m) == /\ received' = Append(received, m)
              /\ pending' = pending \ {m.requestId}

-----------------------------------------------------------------------------
Message(event, id, success) ==
    [event |-> event, requestId |-> id, cause |-> current, success |-> success]

\* The correlation_id of a queue_item_t holds 47 characters.
Cut(id) == IF id \in Long THEN CutId ELSE id

Sound == s_connected /\ link \in {"up", "broken"}

\* send_json returns true: the client took the frame.  On a half-open
\* connection it arrives nowhere.
Sends(m) ==
    /\ Sound
    /\ \/ link = "up" /\ Arrives(m) /\ UNCHANGED unlucky
       \/ link = "broken" /\ unlucky' = unlucky \cup {m.cause} /\ UNCHANGED console
    /\ UNCHANGED <<toDevice, link, s_connected>>

\* The same for an event, which is then nowhere.
SendsEvent(m) ==
    /\ Sends(m)
    /\ lost' = IF link = "up" THEN lost ELSE lost \cup {m.cause}

\* The frame does not go out: there is no connection, the client refuses it,
\* or its write fails, the client aborts the connection and the DISCONNECTED
\* handler runs in the sending task.
SendFails ==
    /\ \/ /\ UNCHANGED <<toDevice, link, s_connected>>
          /\ unlucky' = unlucky \cup {current}
       \/ /\ Sound /\ link' = "down" /\ s_connected' = FALSE /\ toDevice' = <<>>
          /\ unlucky' = unlucky \cup {current} \cup Elements(toDevice)
    /\ UNCHANGED console

TriesToSend(m) == Sends(m) \/ SendFails

\* handle_command up to the use case: ping answers even a busy device.
Dispatch ==
    /\ pc = "idle"
    /\ s_connected /\ toDevice # <<>>
    /\ LET r == Head(toDevice) IN
       /\ current' = r
       /\ toDevice' = Tail(toDevice)
       /\ pc' = CASE command[r] = "ping" -> "pong"
                  [] command[r] # "ping" /\ s_busy -> "busy"
                  [] command[r] \in Sensing /\ ~s_busy -> "sense"
                  [] OTHER -> "reply"
       /\ s_busy' = (s_busy \/ command[r] # "ping")
    /\ ok' = FALSE
    /\ UNCHANGED <<console, link, s_connected, queue, acking, command, lost, unlucky>>

\* The driver answers.  A failed enrolment or identification goes straight to
\* the reply; deletion and wipe report their result first.
Sense ==
    /\ pc = "sense"
    /\ ok' \in BOOLEAN
    /\ pc' = CASE command[current] \in {"delete_fingerprint", "wipe_all_fingerprints"} -> "result"
               [] OTHER -> IF ok' THEN "event" ELSE "reply"
    /\ UNCHANGED <<console, toDevice, link, s_connected, s_busy, current, queue, acking,
                   command, lost, unlucky>>

\* The event the use case composes: only an enrolment's carries the requestId.
Event == IF command[current] = "enroll_fingerprint"
         THEN Message("fingerprint_enrolled", Cut(current), TRUE)
         ELSE Message("fingerprint_match", NoId, TRUE)

\* Faulty variant: the queue takes one too many.
DeliverEvent_OffByOne ==
    /\ pc = "event"
    /\ \/ SendsEvent(Event) /\ UNCHANGED <<queue, ok>>
       \/ /\ SendFails
          /\ IF Len(queue) <= MaxItems
             THEN queue' = Append(queue, Event) /\ UNCHANGED <<ok, lost>>
             ELSE /\ ok' = (command[current] = "enroll_fingerprint")
                  /\ lost' = lost \cup {current}
                  /\ UNCHANGED queue
    /\ pc' = "reply"
    /\ UNCHANGED <<s_busy, current, acking, command>>

\* Faulty variant: an event that does not go out is forgotten.
DeliverEvent_NoQueue ==
    /\ pc = "event"
    /\ SendsEvent(Event) \/ (SendFails /\ UNCHANGED lost)
    /\ pc' = "reply"
    /\ UNCHANGED <<s_busy, current, command, queue, acking, ok>>

\* Faulty variant: an event that is only queued counts as a failure.
DeliverEvent_QueuedFails ==
    /\ pc = "event"
    /\ \/ SendsEvent(Event) /\ UNCHANGED <<queue, ok>>
       \/ /\ SendFails
          /\ ok' = FALSE
          /\ IF Len(queue) < MaxItems
             THEN queue' = Append(queue, Event) /\ UNCHANGED lost
             ELSE lost' = lost \cup {current} /\ UNCHANGED queue
    /\ pc' = "reply"
    /\ UNCHANGED <<s_busy, current, acking, command>>

\* Emit it, or else queue it; the full queue turns a check-in into a failure.
DeliverEvent ==
    /\ pc = "event"
    /\ \/ SendsEvent(Event) /\ UNCHANGED <<queue, ok>>
       \/ /\ SendFails
          /\ IF Len(queue) < MaxItems
             THEN queue' = Append(queue, Event) /\ UNCHANGED <<ok, lost>>
             ELSE /\ ok' = (command[current] = "enroll_fingerprint")
                  /\ lost' = lost \cup {current}
                  /\ UNCHANGED queue
    /\ pc' = "reply"
    /\ UNCHANGED <<s_busy, current, acking, command>>

\* What an enqueue and an ack leave when they overlap: any of the items, in any
\* order (module OfflineQueueNvs).
Overlapped(q) == UNION {[1 .. n -> Elements(q) \cup {Event}] : n \in 0 .. MaxItems}

\* The enqueue of the event overlaps with the touch task's ack.
DeliverEventOverlapped ==
    /\ pc = "event"
    /\ acking /\ acking' = FALSE
    /\ SendFails
    /\ queue' \in Overlapped(queue)
    /\ lost' = lost \cup {e.cause : e \in (Elements(queue) \cup {Event}) \ Elements(queue')}
    /\ pc' = "reply"
    /\ UNCHANGED <<s_busy, current, ok, command>>

\* use_case_delete_fingerprint and use_case_wipe_all_fingerprints respond.
Result ==
    /\ pc = "result"
    /\ TriesToSend(Message("operation_result", current, ok))
    /\ pc' = "reply"
    /\ UNCHANGED <<s_busy, current, ok, queue, acking, command, lost>>

\* Faulty variant: the answer to an identification lacks the requestId.
Answer_NoRequestId ==
    CASE pc = "pong" -> Message("pong", current, TRUE)
      [] pc = "busy" -> Message("busy", current, FALSE)
      [] pc = "reply" /\ command[current] = "identify_fingerprint" ->
            Message(IF ok THEN "fingerprint_match" ELSE "fingerprint_enrolled", NoId, ok)
      [] pc = "reply" /\ command[current] \in Sensing \ {"identify_fingerprint"} ->
            Message("operation_result", current, ok)
      [] OTHER -> Message("validation_error", current, FALSE)

\* What handle_command responds: to a deletion or a wipe, once more.
Answer ==
    CASE pc = "pong" -> Message("pong", current, TRUE)
      [] pc = "busy" -> Message("busy", current, FALSE)
      [] pc = "reply" /\ command[current] = "identify_fingerprint" ->
            Message(IF ok THEN "fingerprint_match" ELSE "fingerprint_enrolled", Cut(current), ok)
      [] pc = "reply" /\ command[current] \in Sensing \ {"identify_fingerprint"} ->
            Message("operation_result", current, ok)
      [] OTHER -> Message("validation_error", current, FALSE)

\* Faulty variant: an unknown command returns before the flag is reset.
Reply_EarlyReturn ==
    /\ pc \in {"reply", "pong", "busy"}
    /\ TriesToSend(Answer)
    /\ s_busy' = (s_busy /\ (pc # "reply" \/ command[current] \notin Sensing))
    /\ pc' = "idle"
    /\ current' = NoId /\ ok' = FALSE
    /\ UNCHANGED <<queue, acking, command, lost>>

Reply ==
    /\ pc \in {"reply", "pong", "busy"}
    /\ TriesToSend(Answer)
    /\ s_busy' = (s_busy /\ pc # "reply")
    /\ pc' = "idle"
    /\ current' = NoId /\ ok' = FALSE
    /\ UNCHANGED <<queue, acking, command, lost>>

-----------------------------------------------------------------------------
\* The touch task sends the oldest queued event, and then acknowledges it.
Replay ==
    /\ queue # <<>> /\ ~acking
    /\ SendsEvent(Head(queue))
    /\ acking' = TRUE
    /\ UNCHANGED <<s_busy, pc, current, ok, queue, command>>

Ack ==
    /\ acking /\ acking' = FALSE
    /\ queue' = Tail(queue)
    /\ UNCHANGED <<console, toDevice, link, s_connected, s_busy, pc, current, ok,
                   command, lost, unlucky>>

OnConnected ==
    /\ pc = "idle" /\ link = "down" /\ ~s_connected
    /\ link' = "up" /\ s_connected' = TRUE
    /\ UNCHANGED <<console, toDevice, s_busy, pc, current, ok, queue, acking, command, lost, unlucky>>

OnDisconnected ==
    /\ pc = "idle" /\ link = "down" /\ s_connected
    /\ s_connected' = FALSE
    /\ UNCHANGED <<console, toDevice, link, s_busy, pc, current, ok, queue, acking, command, lost, unlucky>>

\* External: the connection breaks, with the commands still on it, and with or
\* without a sign of it.
LinkFails ==
    /\ \/ link = "up" /\ link' \in {"broken", "down"}
       \/ link = "broken" /\ link' = "down"
    /\ toDevice' = <<>>
    /\ unlucky' = unlucky \cup Elements(toDevice)
    /\ UNCHANGED <<console, device, command, lost>>

HandleCommand == Dispatch \/ Sense \/ DeliverEvent \/ DeliverEventOverlapped \/ Result \/ Reply

Next == \/ \E r \in Requests, c \in Commands : SendCommand(r, c)
        \/ HandleCommand
        \/ Replay \/ Ack \/ OnConnected \/ OnDisconnected \/ LinkFails

Spec == Init /\ [][Next]_vars

\* The client's task runs, and goes on running while a command is being handled.
FairSpec == Spec /\ WF_vars(HandleCommand) /\ WF_vars(OnDisconnected)

-----------------------------------------------------------------------------
\* An enrolment that is reported successful is backed by its event: it came
\* first, or waits in the queue, or the queue refused or lost it, or it went out
\* on a half-open connection.
ResultBacked ==
    \A m \in Elements(received) :
        m.event = "operation_result" /\ m.success /\ command[m.cause] = "enroll_fingerprint" =>
            \/ m.cause \in lost
            \/ \E e \in Elements(received) \cup Elements(queue) :
                  e.event = "fingerprint_enrolled" /\ e.cause = m.cause

Said == Elements(received) \cup Elements(queue)

\* The messages about one command agree on whether it succeeded: an event with
\* the answer that follows it, and the two results of a deletion or a wipe,
\* although the full queue turns a check-in into a failure between the two and
\* the queued event may arrive long after the answer.
AnswersAgree == \A m, e \in Said : m.cause = e.cause => m.success = e.success

\* No command is ever refused as busy: the client's task handles one at a time
\* and every path through handle_command resets s_busy.
BusyNeverSent == \A m \in Elements(received) : m.event # "busy"

InDevice(r) == r \in Elements(toDevice) \/ current = r

\* A request that still waits for a message is on its way or being handled,
\* unless it was lost with a connection, one of its frames did not go out or
\* went out on a half-open connection, or its requestId does not fit a
\* queue_item_t: no path through handle_command forgets it.
NothingForgotten == \A r \in pending : r \in Long \cup unlucky \/ InDevice(r)

\* A command that reached the device is answered, whatever it asks and whatever
\* the sensor says, with the same exceptions.
AnswersArrive ==
    \A r \in Requests \ Long : InDevice(r) ~> (r \notin pending \/ r \in unlucky)

=============================================================================

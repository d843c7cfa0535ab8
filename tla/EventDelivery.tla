---------------------------- MODULE EventDelivery ----------------------------
(***************************************************************************)
(* How a check-in or an enrolment travels from the sensor to the server:   *)
(* the use cases of use_cases.c, run by three tasks at once, over the      *)
(* transport of websocket_transport.c and the offline queue.  The touch    *)
(* task checks in and then flushes the queue; the WebSocket client's own   *)
(* task runs the commands and the connection events; the httpd task serves *)
(* the console and restarts the transport when it is reconfigured.         *)
(*                                                                         *)
(* The queue promises what module OfflineQueue says and no more: enqueue   *)
(* and ack last from one step to another, and once two operations have     *)
(* overlapped the model follows the contents no further, so that a peek    *)
(* may find any event or none and an enqueue may be refused (module        *)
(* OfflineQueueNvs shows what the overlaps do).  An overlap that ends with *)
(* a store behind the array is undefined and left out.  The WebSocket      *)
(* client library and the network are external.                            *)
(***************************************************************************)
EXTENDS Naturals, Sequences

CONSTANTS
    CheckIns,   \* the EVENT_TYPE_CHECKIN events of a behaviour
    Registers,  \* the EVENT_TYPE_REGISTER_RESULT events of a behaviour
    NoEvent,    \* the hand of a task that carries no event
    MaxItems,   \* OFFLINE_QUEUE_MAX_ITEMS
    FlushMax    \* max_items_to_flush, 8 in touch_checkin_task

Events == CheckIns \cup Registers
Tasks == {"touch", "ws", "http"}

ASSUME EventsAssumption == CheckIns \cap Registers = {} /\ NoEvent \notin Events
ASSUME BoundsAssumption == MaxItems \in Nat \ {0} /\ FlushMax \in Nat \ {0}

VARIABLES
    s_client,       \* whether the transport holds a client
    s_connected,    \* the transport's flag
    link,           \* external: the client's connection to the server
    queue,          \* the offline queue, until operations overlap
    pc,             \* where each task is
    hand,           \* the queue_item_t each task works with
    processed       \* how many items the flush has acknowledged

transport == <<s_client, s_connected, link>>

VARIABLES           \* history
    created,        \* events composed so far
    direct,         \* events whose first emit succeeded
    enqueued,       \* events the queue accepted, in order
    replayed,       \* events the flush emitted, in order, until then
    dropped,        \* events the queue refused
    delivered,      \* events that reached the server
    raced           \* two operations of the queue have overlapped

vars == <<transport, queue, pc, hand, processed,
          created, direct, enqueued, replayed, dropped, delivered, raced>>

Elements(s) == {s[i] : i \in DOMAIN s}

Carrying == {"connected?", "emit", "store", "storing"}
AckSteps == {"ack", "acking"}
Replaying == {"emitHead"} \cup AckSteps
Steps == {"idle", "reply", "restart", "flush", "peek"} \cup Carrying \cup Replaying

TypeOK ==
    /\ s_client \in BOOLEAN /\ s_connected \in BOOLEAN
    /\ link \in {"up", "broken", "down"}
    /\ queue \in Seq(Events) /\ Len(queue) <= MaxItems
    /\ pc \in [Tasks -> Steps]
    /\ hand \in [Tasks -> Events \cup {NoEvent}]
    /\ \A t \in Tasks : /\ pc[t] \in Carrying => hand[t] # NoEvent
                        /\ pc[t] \notin Carrying \cup Replaying => hand[t] = NoEvent
    /\ processed \in 0 .. FlushMax
    /\ created \subseteq Events /\ direct \subseteq Events
    /\ dropped \subseteq Events /\ delivered \subseteq Events \cup {NoEvent}
    /\ raced \in BOOLEAN
    /\ enqueued \in Seq(Events) /\ replayed \in Seq(Events)

Init ==
    /\ s_client = FALSE /\ s_connected = FALSE /\ link = "down"
    /\ queue = <<>>
    /\ pc = [t \in Tasks |-> "idle"]
    /\ hand = [t \in Tasks |-> NoEvent]
    /\ processed = 0
    /\ created = {} /\ direct = {} /\ dropped = {} /\ delivered = {}
    /\ enqueued = <<>> /\ replayed = <<>>
    /\ raced = FALSE

GoTo(t, step) == pc' = [pc EXCEPT ![t] = step]
Carry(t, e) == hand' = [hand EXCEPT ![t] = e]
LetGo(t) == Carry(t, NoEvent)

Offline == INSTANCE OfflineQueue WITH Items <- Events

\* An operation of the queue begins.  If another task is inside one, nothing
\* is known of the contents any more.
QueueUsed(t) == IF \E u \in Tasks \ {t} : pc[u] \in {"storing", "acking"}
                THEN Offline!Race /\ queue' = <<>>
                ELSE UNCHANGED <<queue, raced>>

-----------------------------------------------------------------------------
\* send_json: what the client answers, and what becomes of the frame.
Ready == s_connected /\ s_client

\* The client took the frame.  On a half-open link it leaves no trace.
SendSucceeds == /\ Ready
                /\ link \in {"up", "broken"}
                /\ UNCHANGED transport

Reaches(e) == delivered' = IF link = "up" THEN delivered \cup {e} ELSE delivered

\* send_json returns false: not connected, no client, the client refuses, or
\* its write fails and it aborts the connection, which runs the DISCONNECTED
\* handler in the sending task.
SendFails == /\ \/ UNCHANGED transport
                \/ /\ Ready
                   /\ link' = "down"
                   /\ s_connected' = FALSE
                   /\ UNCHANGED s_client
             /\ UNCHANGED delivered

-----------------------------------------------------------------------------
\* What a task does once its event has gone out or been stored.
After(t) == CASE t = "touch" -> "flush" [] t = "ws" -> "reply" [] t = "http" -> "idle"

\* The touch task only checks in.
Makes(t) == IF t = "touch" THEN CheckIns ELSE Events

\* A wake-up, a command or a request for which the sensor has an answer: the
\* use case composes the event.  Commands arrive over an open connection.
Compose(t) ==
    /\ pc[t] = "idle"
    /\ t = "ws" => Ready /\ link = "up"
    /\ \E e \in Makes(t) \ created : /\ created' = created \cup {e}
                                     /\ Carry(t, e)
    /\ GoTo(t, "connected?")
    /\ UNCHANGED <<transport, queue, processed, direct, enqueued, replayed, dropped, delivered, raced>>

\* The same without an answer: touch goes on to flush, ws to reply.
NoMatch(t) ==
    /\ pc[t] = "idle" /\ After(t) # "idle"
    /\ t = "ws" => Ready /\ link = "up"
    /\ GoTo(t, After(t))
    /\ UNCHANGED <<transport, queue, hand, processed,
                   created, direct, enqueued, replayed, dropped, delivered, raced>>

CheckConnected(t) ==
    /\ pc[t] = "connected?"
    /\ GoTo(t, IF s_connected THEN "emit" ELSE "store")
    /\ UNCHANGED <<transport, queue, hand, processed,
                   created, direct, enqueued, replayed, dropped, delivered, raced>>

\* Faulty variant: an event that does not go out is forgotten.
EmitFirst_Forgets(t) ==
    /\ pc[t] = "emit"
    /\ \/ /\ SendSucceeds
          /\ Reaches(hand[t])
          /\ direct' = direct \cup {hand[t]}
       \/ SendFails /\ UNCHANGED direct
    /\ GoTo(t, After(t)) /\ LetGo(t)
    /\ UNCHANGED <<queue, processed, created, enqueued, replayed, dropped, raced>>

\* Faulty variant: an event that went out is stored as well.
EmitFirst_StoresToo(t) ==
    /\ pc[t] = "emit"
    /\ \/ /\ SendSucceeds
          /\ Reaches(hand[t])
          /\ direct' = direct \cup {hand[t]}
       \/ SendFails /\ UNCHANGED direct
    /\ GoTo(t, "store")
    /\ UNCHANGED <<queue, hand, processed, created, enqueued, replayed, dropped, raced>>

\* ws.emit_event: false sends the event to the queue.
EmitFirst(t) ==
    /\ pc[t] = "emit"
    /\ \/ /\ SendSucceeds
          /\ Reaches(hand[t])
          /\ direct' = direct \cup {hand[t]}
          /\ GoTo(t, After(t)) /\ LetGo(t)
       \/ /\ SendFails
          /\ GoTo(t, "store")
          /\ UNCHANGED <<hand, direct>>
    /\ UNCHANGED <<queue, processed, created, enqueued, replayed, dropped, raced>>

\* queue_repo.enqueue finds room and is about to store the event.
StoreBegins(t) ==
    /\ pc[t] = "store"
    /\ QueueUsed(t)
    /\ raced' \/ Len(queue) < MaxItems
    /\ GoTo(t, "storing")
    /\ UNCHANGED <<transport, hand, processed,
                   created, direct, enqueued, replayed, dropped, delivered>>

\* Faulty variant: the full queue makes room by dropping its oldest item.
StoreRefused_DropsOldest(t) ==
    /\ pc[t] = "store"
    /\ Len(queue) >= MaxItems
    /\ queue' = Append(Tail(queue), hand[t])
    /\ enqueued' = Append(enqueued, hand[t])
    /\ GoTo(t, After(t)) /\ LetGo(t)
    /\ UNCHANGED <<transport, processed, created, direct, replayed, dropped, delivered, raced>>

\* queue_repo.enqueue returns false.  That makes a check-in return false; an
\* enrolment ignores it and reports OK.
StoreRefused(t) ==
    /\ pc[t] = "store"
    /\ QueueUsed(t)
    /\ raced' \/ Len(queue) >= MaxItems
    /\ dropped' = dropped \cup {hand[t]}
    /\ GoTo(t, After(t)) /\ LetGo(t)
    /\ UNCHANGED <<transport, processed, created, direct, enqueued, replayed, delivered>>

\* queue_repo.enqueue returns true.
StoreEnds(t) ==
    /\ pc[t] = "storing"
    /\ IF raced THEN UNCHANGED <<queue, raced>> ELSE Offline!Enqueue(hand[t])
    /\ enqueued' = Append(enqueued, hand[t])
    /\ GoTo(t, After(t)) /\ LetGo(t)
    /\ UNCHANGED <<transport, processed, created, direct, replayed, dropped, delivered>>

\* handle_command ends with a response; nobody looks at whether it was sent.
Reply(t) ==
    /\ pc[t] = "reply"
    /\ \/ SendSucceeds /\ UNCHANGED delivered
       \/ SendFails
    /\ GoTo(t, "idle")
    /\ UNCHANGED <<queue, hand, processed, created, direct, enqueued, replayed, dropped, raced>>

-----------------------------------------------------------------------------
\* Faulty variant: the count goes on from the last flush.
Flush_KeepsCount(t) ==
    /\ pc[t] = "flush"
    /\ GoTo(t, IF s_connected THEN "peek" ELSE "idle")
    /\ UNCHANGED <<transport, queue, hand, processed,
                   created, direct, enqueued, replayed, dropped, delivered, raced>>

\* use_case_process_pending_queue, run by the touch task after each attempt.
Flush(t) ==
    /\ pc[t] = "flush"
    /\ GoTo(t, IF s_connected THEN "peek" ELSE "idle")
    /\ processed' = 0
    /\ UNCHANGED <<transport, queue, hand, created, direct, enqueued, replayed, dropped, delivered, raced>>

\* Faulty variant: one item too many is flushed.
Peek_OneMore(t) ==
    /\ pc[t] = "peek"
    /\ QueueUsed(t)
    /\ IF processed <= FlushMax /\ queue # <<>>
       THEN GoTo(t, "emitHead") /\ Carry(t, Head(queue))
       ELSE GoTo(t, "idle") /\ UNCHANGED hand
    /\ UNCHANGED <<transport, processed, created, direct, enqueued, replayed, dropped, delivered>>

\* peek fills the flush's item: with the head or, after an overlap, with
\* something that is not followed.
Peek(t) ==
    /\ pc[t] = "peek"
    /\ QueueUsed(t)
    /\ \/ /\ processed < FlushMax
          /\ \/ ~raced' /\ queue # <<>> /\ Carry(t, Head(queue))
             \/ raced' /\ LetGo(t)
          /\ GoTo(t, "emitHead")
       \/ /\ processed >= FlushMax \/ raced' \/ queue = <<>>
          /\ GoTo(t, "idle")
          /\ UNCHANGED hand
    /\ UNCHANGED <<transport, processed, created, direct, enqueued, replayed, dropped, delivered>>

EmitHeadSucceeds(t) ==
    /\ pc[t] = "emitHead"
    /\ SendSucceeds
    /\ Reaches(hand[t])
    /\ replayed' = IF raced THEN replayed ELSE Append(replayed, hand[t])
    /\ GoTo(t, "ack")
    /\ UNCHANGED <<queue, hand, processed, created, direct, enqueued, dropped, raced>>

\* Faulty variant: what could not be sent is acknowledged.
EmitHeadFails_Acks(t) ==
    /\ pc[t] = "emitHead"
    /\ SendFails
    /\ GoTo(t, "ack")
    /\ UNCHANGED <<queue, hand, processed, created, direct, enqueued, replayed, dropped, raced>>

EmitHeadFails(t) ==
    /\ pc[t] = "emitHead"
    /\ SendFails
    /\ GoTo(t, "idle") /\ LetGo(t)
    /\ UNCHANGED <<queue, processed, created, direct, enqueued, replayed, dropped, raced>>

\* queue_repo.ack is about to remove the head, whatever its id.
AckBegins(t) ==
    /\ pc[t] = "ack"
    /\ QueueUsed(t)
    /\ GoTo(t, "acking")
    /\ UNCHANGED <<transport, hand, processed,
                   created, direct, enqueued, replayed, dropped, delivered>>

AckEnds(t) ==
    /\ pc[t] = "acking"
    /\ IF raced THEN UNCHANGED <<queue, raced>> ELSE Offline!Ack
    /\ processed' = processed + 1
    /\ GoTo(t, "peek") /\ LetGo(t)
    /\ UNCHANGED <<transport, created, direct, enqueued, replayed, dropped, delivered>>

-----------------------------------------------------------------------------
unchangedByTransport ==
    <<queue, hand, processed, created, direct, enqueued, replayed, dropped, delivered, raced>>

\* websocket_transport_start from the httpd task: stop waits for the client's
\* task, destroy closes the connection, and s_connected keeps its value.
Teardown ==
    /\ pc["http"] = "idle" /\ pc["ws"] = "idle"
    /\ s_client' = FALSE
    /\ link' = "down"
    /\ GoTo("http", "restart")
    /\ UNCHANGED <<s_connected, unchangedByTransport>>

\* esp_websocket_client_init may find no memory for the new client.
StartClient ==
    /\ pc["http"] = "restart"
    /\ s_client' \in BOOLEAN
    /\ GoTo("http", "idle")
    /\ UNCHANGED <<s_connected, link, unchangedByTransport>>

\* WEBSOCKET_EVENT_CONNECTED and WEBSOCKET_EVENT_DISCONNECTED, in the client's
\* task: never while it runs a command.
OnConnected ==
    /\ pc["ws"] = "idle"
    /\ s_client /\ link = "down"
    /\ link' = "up"
    /\ s_connected' = TRUE
    /\ UNCHANGED <<s_client, pc, unchangedByTransport>>

OnDisconnected ==
    /\ pc["ws"] = "idle"
    /\ s_client /\ link = "down" /\ s_connected
    /\ s_connected' = FALSE
    /\ UNCHANGED <<s_client, link, pc, unchangedByTransport>>

\* The peer or the network goes away, with or without a sign of it.
LinkFails ==
    /\ \/ link = "up" /\ link' \in {"broken", "down"}
       \/ link = "broken" /\ link' = "down"
    /\ UNCHANGED <<s_client, s_connected, pc, unchangedByTransport>>

-----------------------------------------------------------------------------
UseCase(t) == \/ CheckConnected(t) \/ EmitFirst(t) \/ Reply(t)
              \/ StoreBegins(t) \/ StoreRefused(t) \/ StoreEnds(t)
              \/ Flush(t) \/ Peek(t) \/ EmitHeadSucceeds(t) \/ EmitHeadFails(t)
              \/ AckBegins(t) \/ AckEnds(t)

Begin(t) == Compose(t) \/ NoMatch(t)

Next == \/ \E t \in Tasks : Begin(t) \/ UseCase(t)
        \/ Teardown \/ StartClient
        \/ OnConnected \/ OnDisconnected \/ LinkFails

Spec == Init /\ [][Next]_vars

\* The scheduler runs every task that is inside a use case, and a client with
\* a healthy connection does not refuse every frame.
Scheduled == /\ \A t \in Tasks : WF_vars(UseCase(t))
             /\ WF_vars(StartClient)
             /\ WF_vars(OnDisconnected)
             /\ SF_vars(EmitHeadSucceeds("touch"))

\* Somebody touches the sensor again and again.
Touches == WF_vars(Begin("touch"))

FairSpec == Spec /\ Scheduled
TouchedSpec == FairSpec /\ Touches

-----------------------------------------------------------------------------
Waiting == IF ~raced /\ pc["touch"] \in AckSteps THEN Tail(queue) ELSE queue

\* As long as no two operations of the queue have overlapped: the events the
\* flush has sent, followed by those that still wait, are the events the queue
\* accepted, in the order it accepted them.  The replay skips none, repeats
\* none and keeps the order, whatever the other tasks store between its peek
\* and its ack and wherever the connection breaks.  ack ignores the id it is
\* given, so this rests on one task flushing and on nothing else removing the
\* head.
FifoReplay == raced \/ enqueued = replayed \o Waiting

InHand == {hand[t] : t \in {u \in Tasks : pc[u] \in Carrying}}

\* No event vanishes on its way: it is in a task's hand, was sent at once, was
\* accepted by the queue, or was refused by it.
EventAccounted == created = InHand \cup direct \cup Elements(enqueued) \cup dropped

\* No event takes two ways: an event that was sent at once is not queued as
\* well, none is queued twice and none is queued after it was refused.
OneWay ==
    /\ direct \cap Elements(enqueued) = {}
    /\ dropped \cap (direct \cup Elements(enqueued)) = {}
    /\ \A i, j \in DOMAIN enqueued : i # j => enqueued[i] # enqueued[j]

\* An event is lost, that is neither in a hand nor waiting nor at the server
\* any more, only by a send on a half-open connection, by the full queue or by
\* operations of the queue that overlap: never by a failed send, a connection
\* that breaks or a restarted transport.
Kept == InHand \cup Elements(Waiting) \cup delivered

LostOnlyUnnoticed ==
    [][\A e \in Kept \ Kept' :
          \/ raced'
          \/ link = "broken" /\ Ready
          \/ Len(queue) >= MaxItems /\ e \in dropped']_vars

\* All of it together, step by step: the use cases, the transport and the queue
\* implement an Outbox, which promises nothing any more once two operations of
\* the queue have overlapped.  What waits there is the queue without a head
\* that was sent and is about to be acknowledged.
Box == INSTANCE Outbox WITH composed <- created, waiting <- Waiting, refused <- dropped
RefinesOutbox == Box!Spec

LinkStable == Ready /\ link = "up"

\* Once the connection holds, the queue is emptied again and again, at most
\* FlushMax items per touch, unless its operations overlap.
QueueDrains == <>[]LinkStable => []<>(raced \/ queue = <<>>)

\* README.md: critical events "se reintentan al reconectar".  An event that
\* waits while the connection holds is emitted again.  Nothing but a touch
\* starts a flush, so a reconnection alone replays nothing.
RetriedOnReconnect == queue # <<>> /\ LinkStable ~> pc["touch"] = "emitHead" \/ ~LinkStable

-----------------------------------------------------------------------------
\* README.md: "If the channel is down, critical events stay in the local
\* queue".  An event sent on a half-open connection is neither at the server
\* nor in the queue; nor is one the full queue refuses.  This is so without any
\* overlap on the queue, which loses events of its own.
CriticalEventKept == raced \/ created \subseteq InHand \cup Elements(queue) \cup delivered
=============================================================================

# A model of the fingerprint terminal

TLA+ specifications of the ESP32 firmware in this repository (AS608 fingerprint
sensor, WebSocket transport, offline queue) and of the test server's console,
with TLC configurations and TLAPS proofs. Paths are relative to the repository.

## The system

Three FreeRTOS tasks run the use cases of
`components/application/src/use_cases.c` concurrently:

| Task | Runs | Enters through |
|---|---|---|
| `touch` | a check-in per accepted touch, then a flush of the queue | `touch_checkin_task`, `app_controller.c` |
| `ws` | the server's commands, the connection events | `websocket_event_handler`, `websocket_transport.c` |
| `http` | the console's enrol, check-in, list, delete and wipe; the restart of the transport | `webui_server.c` |

No lock is taken except `as608_lock`, which covers one sensor command.

| Component | State | Operations | Hard part | What makes it correct |
|---|---|---|---|---|
| Offline queue (`offline_queue_nvs.c`) | `s_items`, `s_count` | enqueue, peek, ack (size and clear have no caller) | three tasks, no lock; ack ignores the id | accesses in bounds; bounded FIFO; ack removes what was sent |
| Use cases (`use_cases.c`) | none of their own | enrol, check in, delete, wipe, list, replay | connection fails between check and send; full queue | each event is in exactly one place; replay in order |
| WebSocket transport (`websocket_transport.c`) | `s_client`, `s_connected`, `s_busy`, `s_cfg`, `s_ctx` | send, events, handle_command, start | the flag and the connection disagree; restart under other tasks' feet; every path must reset `s_busy` | a command is answered; a reported success is backed |
| AS608 sessions (`as608.c`, `as608_driver_stub.c`) | the sensor's image, two buffers and library | enrol, identify, delete, wipe, list | a session is many commands, only each command is atomic; lost answers | the reported ids are the stored ones; the stored finger is the one pressed |
| AS608 link (`as608_protocol.c`, `as608_exec_ack`) | the UART's receive buffer | one command, one answer | a late answer meets the next command | an answer belongs to its command |
| Touch (`app_controller.c`) | `last_event_tick`, `last_attempt_tick`, the task's notification | interrupt, accept or drop | tick arithmetic, notifications that pile up | a press after a rest starts an attempt |
| Provisioning (`webui_server.c`, `network_manager_stub.c`, `config_repository_nvs.c`, `main.c`) | configuration, `s_sta_switch_in_progress`, `s_ready`, `s_softap_mode` | set up Wi-Fi, switch, start | settings saved during a switch; partial failures | the last saved settings are applied |
| Server console (`local/docker/node-server/server.js`) | `pending`, `deviceSocket`, `events` | send a command, receive a message | lost commands, correlation | an answered request is not pending |

Components call each other through the ports of
`components/domain/include/domain/ports.h`; the shared state is that of the
static variables named above, and the sensor.

## The modules

| Module | Models | Abstract counterpart |
|---|---|---|
| `OfflineQueue` | what the queue's port promises: a bounded FIFO, as long as operations do not overlap | |
| `OfflineQueueNvs` | the queue's accesses to memory, by three tasks | refines `OfflineQueue`, which follows no contents during overlaps |
| `Outbox` | what the use cases promise for the events they compose | |
| `EventDelivery` | check-in, enrolment and replay over the transport | refines `Outbox`, uses what `OfflineQueue` promises |
| `FingerprintSensor` | the driver's sessions on the shared sensor | |
| `SensorLink` | what a sensor command promises its caller | |
| `As608Link` | the first use of the driver, the mutex, one command over the UART | refines `SensorLink` |
| `TouchCheckin` | the touch task's filter and its wait for a finger, over ticks | |
| `CommandDispatch` | a console command and its answers | |
| `Provisioning` | setting up Wi-Fi, the background switch, the link's events | |
| `...Proofs` | the theorems about the module of that name | |
| `MC...` | symmetry and constants for TLC | |

Operators named `Definition_Variant` (`Shifted_OneShort`, `Flush_KeepsCount`,
...) are faulty variants of a definition: put in its place, they break the
property `PROJECT.json` names beside them. No specification uses them.

### OfflineQueueNvs

`s_items` and `s_count` are the module's statics; `count[t]` is the value of
`s_count` a task works with, `item[t]` the caller's item. `enqueue` compares
`s_count` with the bound (`EnqueueCheck`, or `EnqueueRefuse`, which changes
nothing), loads it again for the index or goes on with the value it compared
(`EnqueueReload` is optional: builds differ), and makes its two stores in either
order (`StoreItem`, `StoreCount`), because `s_items[s_count++] = *item` orders
them no further. `ack` is a load, the memmove and a store, with or without a
second load. Copying one item and the memmove are one step each: torn items are
left out. Only `touch` flushes (`Flushes`), which is what
`app_controller.c:117` says and what keeps `ack` from wrapping the counter.

Nothing orders the tasks, and two enqueues at once can take the index behind
the array: both compare, one stores, the other loads. The store that follows is
undefined; the task that has loaded such an index takes no further step, and
`AccessInBounds` says that it takes an overlap to get there.

`raced` is history: it becomes true when an operation begins inside another's,
and false when every task is outside again and no flush holds an item it peeked
meanwhile (`Begins`, `Ends`). `OfflineQueue` has the two as `Race`, after which
it promises nothing of the contents, and `Settle`, after which the queue goes on
as a FIFO with whatever the overlap has left. So the refinement is about the
code as it is, with no lock assumed: lost and repeated items are confined to
overlaps, and the array is a sound queue again after them.

### Outbox and EventDelivery

`pc[t]` follows a task through a use case: composed, `is_connected`, emit,
enqueue, then the flush (`touch`), the response (`ws`) or the end (`http`).
`hand[t]` is its `queue_item_t`. `s_client` and `s_connected` are the
transport's; `link` is the client library's connection: `up`, `down`, or
`broken`, which accepts frames that arrive nowhere. `send_json` either succeeds
or fails; a failure may abort the connection, and the library then runs the
DISCONNECTED handler in the sending task. `Teardown` and `StartClient` are
`websocket_transport_start` as `/config/websocket` calls it: it waits for the
client's task, and does not touch `s_connected`.

Of the queue this module takes what `OfflineQueue` promises and no more: an
enqueue and an ack last from one step to another (`StoreBegins` and `StoreEnds`
or `StoreRefused`, `AckBegins` and `AckEnds`), and every use of the queue while
another task is inside one sets `raced` (`QueueUsed`). From then on the contents
are not followed: a peek may find something or nothing, an enqueue may be
refused or accepted, and `FifoReplay`, `Outbox` and the losses are promised only
until then. `EventAccounted` and `OneWay` are about what `emit_event` and
`enqueue` returned, and hold beyond overlaps. An overlap that ends with a store
behind the array is undefined and left out. `raced` is never reset here: an
event that an overlap lost stays lost.

A send that fails is taken to have delivered nothing. The remaining variables
are history: which events were composed, sent at once, accepted by the queue,
replayed, refused, and received by the server.

`Outbox` promises that an event is sent at once, or kept and replayed in order,
or refused because the outbox is full, and never two of these, until `Race`. The
refinement maps `waiting` to the queue without a head that was sent and is about
to be acknowledged (`Waiting`), so that the replay happens at the send and `ack`
is a stutter. Until then that head takes a slot: `Refuse` therefore asks for one
slot less than the queue has. `Kept` are the events that are in a hand, in the
queue or at the server; `LostOnlyUnnoticed` names the ways out of it: a
half-open connection, the full queue, an overlap.

### FingerprintSensor

One action per sensor command; the actions of different tasks interleave since
`as608_lock` covers one command. `image`, `chars` and `library` are the sensor's
and external, as is the finger; a template is the finger it was made of.
`Fails` is any command that fails and changes nothing; a command that takes
effect and whose answer is lost is a disjunct of that command. An answer is
always its own command's, which `As608Link` shows of a sensor that answers
within the driver's timeouts (`OwnAnswer`). The deadline of a wait loop is
`Fails` at any time.

`Ids` are the ids that callers ask to delete, which nothing checks on the way:
any number but 0, which `delete_impl` refuses. An id beyond `IdModulus` is cut
to 16 bits (`SlotOf`), so that another template is deleted; `DeletesOnlyNamed`
says which, and that it is the only one. `roster` holds the ids callers were
told are enrolled. `doubtful` are the slots of which they cannot know: those
that a command changed whose answer was lost, and those that were deleted under
an id beyond `IdModulus`.

A listing counts every template (`found`) and returns the first `MaxIds` of them
(`listed`): the console asks for 128 of 300 (`ReadPage`).

Sessions do interfere, so what a session promises its caller depends on what the
others did meanwhile. `Observed`, a conjunct of every step, records just that as
history: `disturbed` has the tasks whose image or buffers another task changed
since their first press, `taken` the enrolments whose slot another one filled,
`kept` and `seen` the slots that were stored during the whole of a listing, and
at some time during it. The properties of enrolment, identification and listing
hold of tasks that overlap, each with the exception it needs and no more:
without `disturbed` the property is the violated `EnrollStoresPressed`.

### SensorLink and As608Link

`pc[t]` takes a task through `ensure_ctx` and `as608_init` (`install`,
`configure`, `create`, `powerOn`), `as608_lock` (`lock`) and
`as608_exec_ack` (`send`, `header`, `rest`). `ready`, `initialized` and
`holder` are `s_ctx_ready`, `s_ctx.initialized` and the owner of `s_ctx.mutex`;
`installed` is the UART driver's own state. Commands are numbered; an answer is
two pieces, the nine bytes `as608_proto_read_packet` reads first and the rest,
each with the number of its command. The sensor, the line and the receive
buffer (`sensor`, `line`, `rx`) are external: the sensor answers in order and
when it likes, a piece can be damaged or lost, a command can be lost. A wait
ends with a piece or, when there is none, with the timeout; `TimesOut` may
therefore come however soon the answer follows. A checksum is taken to detect
every damage and every mixture of two answers: `ReadRest` accepts the rest of
the header it has. Bytes inside a piece are not told apart, so that a flush
that cuts a piece in two is not modelled; it would leave bytes that the next
header refuses.

The payload of a sound packet is copied into the caller's buffer
(`as608_protocol.c:124`) before its length is compared with the buffer's
(`as608.c:136`). What matters of the lengths is which commands read a page of
the index table (`tables`): a page has 33 bytes and a buffer of 64, every other
answer at most 5 bytes and a buffer of at least 8. A late page that meets
another command's buffer overruns it (`Overrun`). What follows is undefined:
`overrun` ends the behaviour, and `OverrunOnlyByLate` says that no answer of the
command's own gets there.

`sent`, `taken` and `quiet` are history. `SensorLink` is the abstract link:
one `caller`, the number of its command (`last`), the earlier commands whose
answers may still come (`owed`), and the answer that was had last. The
refinement maps `caller` to the task that waits, and `owed` to the answers in
the sensor, on the line and in the buffer. It promises no more than the code
gives: after a timeout a command may get the answer of an earlier one, but no
answer is had twice or after that of a later command, up to an overrun.

### TouchCheckin

`now` is `xTaskGetTickCount()` modulo `Width`; a tick may pass between any two
steps. `given` is the notification value, `lastEvent`, `lastAttempt` and
`deadline` are the locals `last_event_tick`, `last_attempt_tick` and the
`deadline` of `as608_wait_finger_present`. The interrupt (`Press`) may come at
any moment, bounces and touches during an attempt included. What follows the
wait, from sending the event to the flush, is `Deliver`: `EventDelivery` has its
steps. A poll, with its pause, takes at most `MaxPoll` ticks, which the mutex
and the read timeouts of `as608_exec_ack` bound. The `since...` variables are
true ages, which the program does not have; `wraps` says that the counter wraps
before the wait can end.

### Provisioning

`hpc` is the http task inside `handle_setup_wifi`, `spc` the switch task inside
`start_sta`, and `events` the link's events that the event task has not handled
yet. `config` and `saved` are the controller's and the repository's
configuration, of which only the two Wi-Fi fields matter; the n-th request sets
both to n, which shows a mixture. `Setup` steps write one field each, since the
switch may copy them at the same time. `mode`, `running`, `station` and `link`
are the Wi-Fi driver's, external. Every call of the switch can fail
(`SwitchFails`), except that an error of `esp_wifi_stop` is ignored, as in the
code. So can the `esp_wifi_connect` of the DISCONNECTED handler, whose result
nobody looks at: no event follows such a failure, and the station stays down
(`refused`). `failed`, `refused` and `unapplied` are history. `Boot` is `app_main`: with the
repository empty after every start the device always begins as an access point.

### CommandDispatch

`SendCommand` and `Arrives` are `server.js`; `Dispatch`, `Sense`,
`DeliverEvent`, `Result` and `Reply` are `handle_command` with the use case it
runs. Deletion and wipe respond twice, as in the code: from the use case and from
`handle_command`. A message carries, beside its requestId, the request that
caused it (`cause`), which the program does not know. `Long` requestIds fit the
64 characters of `parse_and_dispatch` but not the 48 of a `queue_item_t`.

`link` is as in EventDelivery: on a `broken`, half-open connection a command
gets nowhere, and a frame that the client accepts arrives nowhere (`Sends`).
`Replay` and `Ack` are the touch task's flush. A store that overlaps the ack
(`DeliverEventOverlapped`) leaves any of the items in any order.

`lost` and `unlucky` are history. `lost` has the requests whose event was
refused by the queue, lost by an overlap, or sent on a half-open connection.
`unlucky` has those that were lost with the connection, or had a frame that did
not go out or went out on a half-open connection; the console may wait for
these in vain.

## The runs

| Run | Shows | Bounds |
|---|---|---|
| `OfflineQueue` | the counter keeps its bounds whatever the interleaving; only an overlap takes an index out of the array; outside overlaps the array is a bounded FIFO whose ack removes the peeked item | 3 tasks, 4 events, 3 slots |
| `OfflineQueueLost` | *violated*: an accepted event is lost | 3 tasks, 4 events, 2 slots |
| `EventDelivery` | `Outbox` is implemented and the replay is FIFO until operations of the queue overlap; each event in exactly one place; only a half-open connection, the full queue or such an overlap loses one; with touches and a stable connection the queue empties | 2 check-ins, 1 enrolment, 2 slots, flushes of 1 |
| `EventDeliveryKept` | *violated*: an event sent on a dead connection is lost | 5 events, 3 slots, flushes of 2 |
| `EventDeliveryRetried` | *violated*: with the connection back, a stored event waits for ever when nobody touches the sensor | 2 events, 2 slots, flushes of 1 |
| `SensorAlone` | a listing counts everything although the last page is not full, and returns what fits | 1 task, 2 fingers, 3 slots on 2 pages, ids 0 to 5 cut to 2 bits, room for 2 ids |
| `SensorOverlap` | reported ids and library agree, overlap or not; a deletion takes what it names, or what its id wraps to; no template is overwritten but by another enrolment; enrolment, identification and listing do what their caller is told unless another task touched what they rely on | 2 tasks, 2 fingers, 2 slots on 2 pages, ids 0, 1, 2 and 5, room for 1 id |
| `SensorMixedFingers` | *violated*: a check-in mixes its finger into an enrolment | 2 tasks, 2 fingers |
| `CommandDispatch` | a reported enrolment has its event; the messages about a command agree; nobody is told busy; no request is forgotten; a command is answered; each with the losses it names | 3 requests, one of them long, a command of each kind (a wipe takes the steps of a deletion), 1 slot |
| `SensorLink` | one context, however many first uses; one command at a time; an answer is the command's own, and fits its buffer, unless an earlier one was owed; `SensorLink` is implemented | 3 tasks, 3 commands |
| `TouchCheckin` | attempts are a cooldown apart, one per touch; a rested touch is served; the wait ends | counter of 16 ticks, debounce 2, cooldown 5, timeout 5, polls of 3, 2 notifications |
| `Provisioning` | the last settings are saved whole, and applied unless the switch failed or was too early for them; the device goes on trying until the driver refuses to; the flags are true; a switch ends | 3 requests, 3 waiting events |

The bounds make the interesting cases happen: more events than slots, more
waiting events than one flush sends, a last index page that is not full, more
templates than a listing returns, ids beyond the width they are cut to, two
tasks on one sensor. The real sizes are 64 slots with flushes of 8, and 300
templates on pages of 256 of which a listing returns 128: what is kept is that
the queue is larger than one flush, the last page not full and the room smaller
than the library. Three commands let an answer be late by two, three requests
let one come during a switch and another after it; a counter of 16 ticks wraps
within every two or three attempts, and cooldown and timeout (90 ticks each,
debounce 12, in the firmware) are shorter than a lap but longer than one poll.
Histories are bounded by the events, commands and requests of a behaviour. The
proofs remove the bounds.

`SensorLink` and `Provisioning` run without the deadlock check: the first stops
when its commands are used up or a buffer is overrun, the second because a
device whose start or whose switch has failed really does nothing more until it
is restarted.

Symmetry is used in runs of safety properties only, over the queue's events and
tasks other than the consumer, over fingers, and over the tasks of `SensorLink`.

### Fairness

`EventDelivery.FairSpec`: weak fairness of each task's steps inside a use case
(the scheduler), of the client's start and of the DISCONNECTED event; strong
fairness of a successful send by the flush, that is, a healthy connection does
not refuse every frame. `TouchedSpec` adds that somebody keeps touching the
sensor; nothing in the firmware provides that, so it is a hypothesis of
`QueueDrains`, and `RetriedOnReconnect` is checked without it. `CommandDispatch.FairSpec`
is weak fairness of the handler, which the client's task runs to its end, and of
the DISCONNECTED event. `Provisioning.FairSpec` is weak fairness of the switch
task, whose calls all return. Nothing is assumed about the link: the properties name
the stable connection they need.

### What the violated runs say

README.md promises that critical events are kept while the channel is down and
retried on reconnection. The queue loses accepted events to races
(`OfflineQueueLost`), and a dead connection that is not yet noticed swallows
events (`EventDeliveryKept`). Queued events wait for a touch: a reconnection
alone replays nothing (`EventDeliveryRetried`). The driver asks for the same finger twice, but an
overlapping check-in can replace what it captured (`SensorMixedFingers`).

### What else the models show

These hold as the code stands and have no run of their own; each is a hazard in
`PROJECT.json`.

* Two enqueues at once on a queue with one free slot store behind the array: the
  comparison and the index are separate loads (`AccessInBounds` without `raced`
  fails).
* A full queue refuses an enrolment's event, which
  `use_case_register_fingerprint` does not notice (the other way to break
  `CriticalEventKept`).
* A deletion of an id beyond 2^16 wraps in `SlotOf` and hits another template,
  which `DeletesOnlyNamed` names; the caller is told that the id it gave is gone.
* A listing of more than 128 templates returns the first 128 and the full count.
* A check-in's event carries no requestId, and a requestId of 48 to 63
  characters is cut in others; `docs/websocket-protocol.md` says it travels to
  all associated messages. The same page names `fingerprint_not_found` where the
  code sends `fingerprint_enrolled`.
* When the sensor answers later than the driver's timeout, the answer can become
  the next command's: the flush removes only what has arrived (`OwnAnswer`
  without `quiet` fails). A late page of the index table is longer than the
  buffers of the other commands, and is copied into one before its length is
  checked (`OverrunOnlyByLate` without `quiet` fails).
* A second task whose first use comes while the first waits out the sensor's
  power-on delay finds the context initialised and does not wait.
* A wait for a finger over which the tick counter wraps ends at once or lasts a
  lap (`WaitBounded` without `wraps` fails), and a touch a whole lap after the
  last can be dropped.
* Wi-Fi settings saved while a switch is under way may not be applied, although
  the answer says they are being applied (`SettingsApplied` without `unapplied`
  fails).
* A switch that fails after `esp_wifi_stop`, or a failed start, leaves the
  device unreachable until a restart; wrong credentials are retried for ever,
  and the console is unreachable meanwhile.
* A call to connect again that the driver refuses is not repeated: the station
  stays down until a restart or the next set-up (`NeverGivesUp` without `refused`
  fails).
* An address obtained before `start_sta` clears `s_ready` is forgotten. Nothing
  reads the flag yet.

## The proofs

For every value of the constants that satisfies the assumptions each module
names after its CONSTANTS. Every property of a passing run is proved except
liveness, one theorem per property; the main ones:

| Theorem | States | Argument |
|---|---|---|
| `QueueAccessesStayInBounds` | `Spec => [](TypeOK /\ AccessInBounds)` | `Bounded`: while a task is between peek and the end of ack it is the consumer, and `s_count > 0`: the others only take the counter up, or store a value loaded earlier plus one, which is positive too. A task that is alone in the module has loaded the current value, which it compared with the bound. |
| `QueueIsFifoOutsideOverlaps` | `Spec => RefinesOfflineQueue` | `Orderly`: unless operations have raced, at most one task is inside (`Solo`) and what it has loaded is current (`Agrees`). The abstract queue changes at the second store of an enqueue and at the memmove of an ack. A step after a race is `Race`, whatever it does to the array, the one that ends it `Settle`. |
| `AckRemovesThePeekedItem` | `Spec => []AckRemovesPeeked` | `Steady`, the rest of `Orderly`: enqueues never store to slot 0 while the queue is not empty, unless operations have raced. |
| `DeliveryTypeOK` | `Spec => []TypeOK` | `Typed`: only `touch` flushes, and what it carries is the head of the queue. |
| `ReplayIsFifo` | `Spec => []FifoReplay` | from `Typed`: until a race a store appends to both sides, an emit moves the head over, an ack catches up with it. |
| `EventsAreAccounted` | `Spec => [](EventAccounted /\ OneWay)` | `Placed` adds that no two hands carry the same event and that a carried event is nowhere else. |
| `DeliveryIsAnOutbox` | `Spec => RefinesOutbox` | `BoxStep`, from `Typed`, `Placed` and `FifoReplay`: a first send, a store, a refusal and the send of the head are the steps of `Outbox`, the step that sets `raced` and all after it are `Race`, every other step a stutter. An event in a hand has been nowhere yet (`HandCarried`), which makes it `Carried`; a store goes to the end of what waits (`StoreWaits`), and `ack` takes away what waits no longer (`AckKeepsWaiting`). |
| `LossesAreKnown` | `Spec => LostOnlyUnnoticed` | `KeptStep`, from the same invariants: only an event in a hand or the head of the queue can leave `Kept` without a race, and it does so in a send that the client took, or in a refusal. |
| `RosterStaysAccurate` | `Spec => []RosterAccurate` | `Armed`: a session about to store finds a character file in buffer 1, whoever put it there, and a deletion names an id that is not 0. Each store, deletion or wipe then changes library and roster alike, or leaves its slots doubtful; an id up to `IdModulus` names its slot (`SlotOfSmall`), any other makes the slot it hits doubtful. |
| `OnlyNamedAreDeleted` | `Spec => DeletesOnlyNamed` | from `Armed`: only a store, a deletion and a wipe change the library (`LibraryChanges`). |
| `NothingIsOverwritten` | `Spec => NoTemplateOverwritten` | `Reserved`: the slot of an enrolment is free from `FindSlot` to its store, unless the task is in `taken`. |
| `IdentifiesWhatWasPressed`, `EnrollsWhatWasPressed` | `Spec => IdentifyReportsPressed`, `Spec => EnrollStoresUndisturbed` | `Captured`: where in the sensor the fingers of the presses are, step by step, for a task that nobody disturbed; `Fresh`: a session that has not pressed yet has captured nothing. |
| `ListingsAreConsistent` | `Spec => ListConsistent` | `Reading`: the listing has found what was stored all along on the pages before `page[t]`, and nothing that never was, and what it found and did not list has `MaxIds` lower ones before it; `LastPage`: the division is rounded up. |
| `NobodyIsBusy`, `ResultsAreBacked` | `Spec => []BusyNeverSent`, `Spec => []ResultBacked` | `NeverBusy`: the flag belongs to the command being handled. `Backed`: an enrolment about to be answered has delivered its event, or is in `lost`; `Handled` says where the handler is, given the command. |
| `NoRequestIsForgotten` | `Spec => []NothingForgotten` | with `AtRest`, inductive as it stands: a request leaves the handler only in `Reply`, whose message carries its requestId unless it is long (`AnswerNames`), or does not arrive, which makes it unlucky. |
| `AnswersStayConsistent` | `Spec => []AnswersAgree` | `Waits`: nothing has been said about a request on the wire, which is there once; `Saying`: what has been said about the command at hand is what `ok` says when it is answered. |
| `ContextStaysSound` | `Spec => []ContextSound` | `Context` adds that an initialised context has an installed driver, and keeps it through the power-on delay. |
| `AnswersAreOwn`, `OverrunsAreLateAnswers` | `Spec => OwnAnswer`, `Spec => []OverrunOnlyByLate` | `Own`: if nothing was on its way when the command was sent, everything between the sensor and the driver belongs to it. |
| `LinkIsImplemented` | `Spec => RefinesSensorLink` | `Ordered`: the pieces in the buffer, on the line and in the sensor are in the order of their commands (`Key`), and nothing is left of an answer whose rest was accepted. Every step is then a step of `SensorLink`, or forgets an answer. After an overrun there is no step. |
| `WaitStaysBounded`, `AttemptsStayApart`, `TouchesAreServed` | the properties of `TouchCheckin` | `Clocked`: the difference of ticks is the age as long as that is below a lap (`Modulo`, `DifferIs`). `Waiting`: a wait without a wrap is as old as the counter says, and its poll began before the deadline. |
| `LastSettingsApplied`, `DeviceNeverGivesUp`, `NetworkFlagsTrue` | the invariants of `Provisioning` | `Handling` and `Copied` follow the settings through request and switch, `Dialled` the driver through the switch up to a refusal; `Heard`: an address that was lost since is followed by the news of its loss. |

`RosterStaysAccurate` holds although overlapping sessions mix fingers: what is
stored may be another finger, but it is a finger, so the ids stay right.

`AccessInBounds` and `FifoReplay` are not inductive without these additions: a
second consumer, or an item in hand that is not the head, would break the next
step. The lemmas on sequences that the proofs cite are stated once at the top of
each module.

The theorems assume nothing about the order of the tasks: sessions of any kind
and operations of the queue overlap as the code lets them. What they except is
in history variables (`raced`, `disturbed`, `doubtful`, `lost`, ...), not in a
hypothesis, and every exception is a hazard of `PROJECT.json`: the theorems say
that there is no other.

Model-checked only: liveness (`QueueDrains`, `AnswersArrive`, `SwitchesEnd`),
which TLAPS does not reach. Their safety halves are proved: `NothingForgotten`
for `AnswersArrive`, and for `SwitchesEnd` the conjunct of `Provisioning`'s
`TypeOK` that the flag is set exactly while a switch task runs.

## Not modelled

* What follows a store behind the queue's array or an answer that overruns its
  buffer: undefined behaviour, at which the behaviours of `OfflineQueueNvs` and
  `As608Link` end, for the task or as a whole.
* The outcome of a task using a client handle that another destroys
  (`websocket_transport.c:181` against a send): undefined behaviour in the library.
* The bytes inside a frame of the sensor's protocol, and a flush in the middle of
  a piece (see As608Link).
* `as608_match`, `as608_verify_slot`, `as608_get_template_count`,
  `as608_deinit`, `websocket_transport_stop`, `factory_reset_config`, the size
  and clear of the queue: nothing in the program calls them.
* The steps of `wifi_stack_init_once` one by one, the set-up of the touch pin and
  a failed creation of the touch task: after each the device, or its touch
  sensor, does nothing.
* Several sockets of one device at the server at once: CommandDispatch follows
  one connection. Nor a requestId that is used twice, nor the console's list of
  the last 50 events, which only its page shows.
* The text of messages and pages, form parsing, logging; a WebSocket message
  that arrives in several DATA events.
* The loss of the queue and of the configuration at a restart, which both
  repositories declare in their comments: every start is `Init`.
* Template export and import, which return UNSUPPORTED.
* `domain_is_demo_mode_allowed`, which the firmware does not call.

## Plan

Done, in this order: the offline queue, the delivery of events, the sensor
sessions, the commands, the sensor link, the touch task, the provisioning,
the proofs of all their safety properties, the outbox that the delivery of
events implements, the sensor's promises for sessions that overlap, and the
queue's and the delivery's promises for operations that overlap.

Next:

1. `FingerprintSensor` over `SensorLink` instead of commands that succeed or
   fail, to see what a late answer does to a session.
2. `CommandDispatch` with the http task's sessions beside the handler's.
3. A client handle that another task destroys, once the library's behaviour is
   specified.

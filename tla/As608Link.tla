----------------------------- MODULE As608Link -----------------------------
(***************************************************************************)
(* One sensor command: the first use of the driver (ensure_ctx,            *)
(* as608_init), the mutex, and as608_exec_ack over the UART.               *)
(*                                                                         *)
(* An answer travels in two pieces, the 9 bytes of its header and the      *)
(* rest, each of which may be damaged or lost.  The driver waits for a     *)
(* piece no longer than its timeout; the sensor may answer later.          *)
(*                                                                         *)
(* as608_proto_read_packet copies a sound payload into the caller's buffer *)
(* before as608_exec_ack compares its length with the buffer's.  A page of *)
(* the index table has 33 bytes, any other answer at most 5; the buffers   *)
(* have 64 bytes for a page, 8 or 16 elsewhere.  After an overrun the      *)
(* behaviour is undefined, and is not followed.                            *)
(***************************************************************************)
EXTENDS Naturals, SequencesExt

CONSTANTS
    Tasks,          \* the tasks that use the driver
    None,           \* no task
    MaxCommands     \* bound of a behaviour

ASSUME NoneAssumption == None \notin Tasks
ASSUME MaxAssumption == MaxCommands \in Nat

VARIABLES       \* the driver
    ready,          \* s_ctx_ready
    initialized,    \* s_ctx.initialized
    installed,      \* the UART driver is installed
    holder,         \* of s_ctx.mutex
    pc,             \* per task
    cmd,            \* the number of the command a task has sent
    header          \* the answer whose header it has read

VARIABLES       \* external: the sensor and the line
    sensor,         \* commands the sensor has, in order
    line,           \* pieces of answers on their way
    rx              \* pieces in the UART's receive buffer

VARIABLES       \* history
    sent,           \* commands sent
    taken,          \* the command whose answer was accepted last
    quiet,          \* nothing was on its way when the latest command was sent
    tables,         \* the commands that read a page of the index table
    overrun         \* an answer was longer than the buffer it was copied into

context == <<ready, initialized, installed>>
wire == <<sensor, line, rx>>
exchange == <<context, holder, pc, cmd, header, wire, sent, taken, quiet>>
buffers == <<tables, overrun>>
vars == <<exchange, buffers>>

Numbers == 0 .. MaxCommands
Pieces == [part : {"header", "rest"}, of : Numbers, sound : BOOLEAN]

TypeOK ==
    /\ ready \in BOOLEAN /\ initialized \in BOOLEAN /\ installed \in BOOLEAN
    /\ holder \in Tasks \cup {None}
    /\ pc \in [Tasks -> {"idle", "install", "configure", "create", "powerOn",
                         "lock", "send", "header", "rest"}]
    /\ cmd \in [Tasks -> Numbers] /\ header \in [Tasks -> Numbers]
    /\ sensor \in Seq(Numbers) /\ line \in Seq(Pieces) /\ rx \in Seq(Pieces)
    /\ sent \in Numbers /\ taken \in Numbers /\ quiet \in BOOLEAN
    /\ tables \subseteq Numbers /\ overrun \in BOOLEAN
    /\ \A t \in Tasks : holder = t <=> pc[t] \in {"send", "header", "rest"}

Init ==
    /\ ready = FALSE /\ initialized = FALSE /\ installed = FALSE
    /\ holder = None
    /\ pc = [t \in Tasks |-> "idle"]
    /\ cmd = [t \in Tasks |-> 0] /\ header = [t \in Tasks |-> 0]
    /\ sensor = <<>> /\ line = <<>> /\ rx = <<>>
    /\ sent = 0 /\ taken = 0 /\ quiet = TRUE
    /\ tables = {} /\ overrun = FALSE

Goto(t, from, to) == pc[t] = from /\ pc' = [pc EXCEPT ![t] = to]

-----------------------------------------------------------------------------
\* The first use.  The other variables do not change before the lock.
later == <<holder, cmd, header, wire, sent, taken, quiet, buffers>>

\* ensure_ctx: a context that another task has initialised will do, even if
\* the sensor's power-on delay is not over.
Begin(t) ==
    /\ Goto(t, "idle", IF ready \/ initialized THEN "lock" ELSE "install")
    /\ ready' = (ready \/ initialized)
    /\ UNCHANGED <<initialized, installed, later>>

\* Faulty variant: the error of the installation is taken for success.
Install_Again(t) ==
    /\ Goto(t, "install", "configure")
    /\ installed' = TRUE
    /\ UNCHANGED <<ready, initialized, later>>

\* uart_driver_install fails if somebody has installed it, or on its own.
Install(t) ==
    /\ \/ ~installed /\ Goto(t, "install", "configure") /\ installed' = TRUE
       \/ Goto(t, "install", "idle") /\ UNCHANGED installed
    /\ UNCHANGED <<ready, initialized, later>>

\* A step of as608_init after the installation fails: it is undone.
InitFails(t) ==
    /\ \E step \in {"configure", "create"} : Goto(t, step, "idle")
    /\ installed' = FALSE
    /\ UNCHANGED <<ready, initialized, later>>

\* The pins are set; memset clears the context.
Configure(t) ==
    /\ Goto(t, "configure", "create")
    /\ initialized' = FALSE
    /\ UNCHANGED <<ready, installed, later>>

\* The buffer and the mutex exist.
Create(t) ==
    /\ Goto(t, "create", "powerOn")
    /\ initialized' = TRUE
    /\ UNCHANGED <<ready, installed, later>>

PowerOn(t) ==
    /\ Goto(t, "powerOn", "lock")
    /\ ready' = TRUE
    /\ UNCHANGED <<initialized, installed, later>>

-----------------------------------------------------------------------------
\* Faulty variant: the result of xSemaphoreTake is not looked at.
Lock_Regardless(t) ==
    /\ Goto(t, "lock", "send")
    /\ holder' = t
    /\ UNCHANGED <<context, cmd, header, wire, sent, taken, quiet, buffers>>

\* as608_lock: the mutex, or TIMEOUT after five seconds.
Lock(t) ==
    /\ \/ holder = None /\ Goto(t, "lock", "send") /\ holder' = t
       \/ holder # None /\ Goto(t, "lock", "idle") /\ UNCHANGED holder
    /\ UNCHANGED <<context, cmd, header, wire, sent, taken, quiet, buffers>>

\* The command has its status; as608_unlock.
Return(t, step) == /\ Goto(t, step, "idle")
                   /\ holder' = None
                   /\ cmd' = [cmd EXCEPT ![t] = 0]
                   /\ header' = [header EXCEPT ![t] = 0]

Sends(t) == /\ sent < MaxCommands
            /\ Goto(t, "send", "header")
            /\ sent' = sent + 1
            /\ cmd' = [cmd EXCEPT ![t] = sent + 1]
            /\ quiet' = (sensor = <<>> /\ line = <<>>)
            /\ sensor' \in {sensor, Append(sensor, sent + 1)}
            /\ tables' \in {tables, tables \cup {sent + 1}}

\* Faulty variant: the receive buffer is not flushed.
Send_NoFlush(t) ==
    /\ Sends(t)
    /\ UNCHANGED <<context, holder, header, line, rx, taken, overrun>>

\* uart_flush_input and the command, which the sensor may not get.
Send(t) ==
    /\ Sends(t)
    /\ rx' = <<>>
    /\ UNCHANGED <<context, holder, header, line, taken, overrun>>

\* Faulty variant: an early return that keeps the mutex.
SendFails_KeepsLock(t) ==
    /\ Goto(t, "send", "idle")
    /\ rx' = <<>>
    /\ UNCHANGED <<context, holder, cmd, header, sensor, line, sent, taken, quiet, buffers>>

\* The receive buffer is flushed and the write fails.
SendFails(t) ==
    /\ Return(t, "send")
    /\ rx' = <<>>
    /\ UNCHANGED <<context, sensor, line, sent, taken, quiet, buffers>>

\* as608_proto_read_packet, up to the length.
ReadHeader(t) ==
    /\ rx # <<>>
    /\ IF Head(rx).part = "header" /\ Head(rx).sound
       THEN /\ Goto(t, "header", "rest")
            /\ header' = [header EXCEPT ![t] = Head(rx).of]
            /\ UNCHANGED <<holder, cmd>>
       ELSE Return(t, "header")
    /\ rx' = Tail(rx)
    /\ UNCHANGED <<context, sensor, line, sent, taken, quiet, buffers>>

\* The checksum of the next piece is that of the header and this payload.
Sound(t) == Head(rx) = [part |-> "rest", of |-> header[t], sound |-> TRUE]

\* The copy of a page into the buffer of a command that is not for a page.
TooLong(t) == Sound(t) /\ header[t] \in tables /\ cmd[t] \notin tables

\* Which answer is the last accepted one after the next piece.  A sound packet
\* may still be refused: its type, or, in the functions that expect a value, a
\* payload too short for one.
Acceptable(t) == IF Sound(t) THEN {taken, header[t]} ELSE {taken}

\* The rest of a packet that is damaged, or fits the buffer.
ReadRest(t) ==
    /\ rx # <<>> /\ ~TooLong(t)
    /\ Return(t, "rest")
    /\ taken' \in Acceptable(t)
    /\ rx' = Tail(rx)
    /\ UNCHANGED <<context, sensor, line, sent, quiet, buffers>>

\* The memcpy that ends beyond the buffer.
Overrun(t) ==
    /\ pc[t] = "rest" /\ rx # <<>> /\ TooLong(t)
    /\ overrun' = TRUE
    /\ UNCHANGED <<exchange, tables>>

\* uart_read_bytes returns nothing: the answer is lost, or late.
TimesOut(t) ==
    /\ rx = <<>>
    /\ \E step \in {"header", "rest"} : Return(t, step)
    /\ UNCHANGED <<context, wire, sent, taken, quiet, buffers>>

-----------------------------------------------------------------------------
\* External: the sensor answers its commands in order, and the line brings the
\* pieces in order; each may be damaged or lost.
Answers ==
    /\ sensor # <<>>
    /\ sensor' = Tail(sensor)
    /\ line' = line \o <<[part |-> "header", of |-> Head(sensor), sound |-> TRUE],
                         [part |-> "rest", of |-> Head(sensor), sound |-> TRUE]>>
    /\ UNCHANGED rx

Arrives ==
    /\ line # <<>>
    /\ line' = Tail(line)
    /\ \/ \E sound \in {TRUE, FALSE} : rx' = Append(rx, [Head(line) EXCEPT !.sound = sound])
       \/ UNCHANGED rx
    /\ UNCHANGED sensor

Environment == /\ Answers \/ Arrives
               /\ UNCHANGED <<context, holder, pc, cmd, header, sent, taken, quiet, buffers>>

Execute(t) ==
    \/ Lock(t) \/ Send(t) \/ SendFails(t)
    \/ ReadHeader(t) \/ ReadRest(t) \/ TimesOut(t)

FirstUse(t) == Install(t) \/ InitFails(t) \/ Configure(t) \/ Create(t) \/ PowerOn(t)

Next == /\ ~overrun
        /\ Environment \/ \E t \in Tasks : Begin(t) \/ FirstUse(t) \/ Execute(t) \/ Overrun(t)
Spec == Init /\ [][Next]_vars

-----------------------------------------------------------------------------
\* Two first uses at once: at most one task is past uart_driver_install, none
\* clears a context that is in use, and no failure leaves an installed driver
\* behind, on which every later attempt would fail.
ContextSound ==
    LET inside == {t \in Tasks : pc[t] \in {"configure", "create"}} IN
    /\ \A t, u \in inside : t = u
    /\ inside # {} => installed /\ ~initialized
    /\ installed => initialized \/ inside # {}
    /\ ready => initialized

\* A command that was sent when the sensor owed nothing gets its own answer or
\* none: the flush throws away what arrived before.
OwnAnswer == [][\A t \in Tasks :
    pc[t] = "rest" /\ taken' # taken /\ quiet => taken' = cmd[t]]_vars

Waiting == {t \in Tasks : pc[t] \in {"header", "rest"}}
Unanswered ==
    ToSet(sensor) \cup {p.of : p \in ToSet(line) \cup ToSet(rx)}
        \cup {header[t] : t \in {u \in Tasks : pc[u] = "rest"}}

CallerOf(tasks) == IF tasks = {} THEN None ELSE CHOOSE t \in tasks : TRUE
Owed == IF Waiting = {} THEN Unanswered ELSE Unanswered \ {sent}

Link == INSTANCE SensorLink WITH caller <- CallerOf(Waiting), last <- sent, owed <- Owed

\* as608_exec_ack checks the length of an answer after the copy, so a caller's
\* buffer is safe only as far as the answer is its own: an overrun takes the
\* late answer of an earlier command.
OverrunOnlyByLate == overrun => ~quiet

\* The mutex, the framing and the checksum give what SensorLink promises,
\* however late the sensor answers and whatever the line does, as long as no
\* answer has overrun a buffer.
RefinesSensorLink == Link!Spec
=============================================================================

---------------------------- MODULE TouchCheckin ----------------------------
(***************************************************************************)
(* touch_checkin_task: from the interrupt of the touch pin to an attempt   *)
(* to check in, and the attempt's wait for a finger, over a tick counter   *)
(* that wraps.  The filter subtracts ticks, the wait compares them.        *)
(***************************************************************************)
EXTENDS Naturals

CONSTANTS
    Width,      \* the tick counter's, 2^32
    Debounce,   \* TOUCH_DEBOUNCE_MS in ticks, 12
    Cooldown,   \* TOUCH_ATTEMPT_COOLDOWN_MS in ticks, 90
    Timeout,    \* of identify_impl in ticks, 90
    MaxPoll,    \* bound: the longest poll, its pause included
    MaxGives    \* bound: notifications that are told apart

ASSUME TimesAssumption ==
    /\ {Width, Debounce, Cooldown, Timeout, MaxPoll, MaxGives} \subseteq Nat \ {0}
    /\ Debounce <= Cooldown /\ Cooldown < Width /\ Timeout + MaxPoll < Width

VARIABLES
    now,            \* xTaskGetTickCount()
    given,          \* the task's notification value
    pc,             \* where the task is
    lastEvent,      \* last_event_tick
    lastAttempt,    \* last_attempt_tick
    deadline        \* of as608_wait_finger_present

VARIABLES       \* history; times stop at Width
    sinceEvent,     \* ticks since last_event_tick was set, or the boot
    sinceAttempt,   \* ticks since last_attempt_tick was set, or the boot
    sinceWait,      \* ticks since the wait began
    polled,         \* ticks since the poll began
    wraps,          \* the counter wraps before the wait can end
    attempts        \* attempts since the last press, up to 2

timers == <<sinceEvent, sinceAttempt, sinceWait, polled>>
vars == <<now, given, pc, lastEvent, lastAttempt, deadline, timers, wraps, attempts>>

Ticks == 0 .. Width - 1

TypeOK ==
    /\ {now, lastEvent, lastAttempt, deadline} \subseteq Ticks
    /\ given \in 0 .. MaxGives
    /\ pc \in {"take", "begin", "poll", "deliver"}
    /\ {sinceEvent, sinceAttempt, sinceWait} \subseteq 0 .. Width
    /\ polled \in 0 .. MaxPoll /\ wraps \in BOOLEAN /\ attempts \in 0 .. 2

Init ==
    /\ now = 0 /\ given = 0 /\ pc = "take"
    /\ lastEvent = 0 /\ lastAttempt = 0 /\ deadline = 0
    /\ sinceEvent = 0 /\ sinceAttempt = 0 /\ sinceWait = 0 /\ polled = 0
    /\ wraps = FALSE /\ attempts = 1

\* Faulty variant: the end of the interval is compared instead.
Elapsed_Deadline(last, interval) == now >= (last + interval) % Width

\* (now - last) >= interval, in TickType_t.
Elapsed(last, interval) == (now + Width - last) % Width >= interval

-----------------------------------------------------------------------------
Older(age) == IF age < Width THEN age + 1 ELSE age

\* External: time passes; a poll does not last for ever.
Tick ==
    /\ pc = "poll" => polled < MaxPoll
    /\ now' = (now + 1) % Width
    /\ sinceEvent' = Older(sinceEvent) /\ sinceAttempt' = Older(sinceAttempt)
    /\ sinceWait' = IF pc = "poll" THEN Older(sinceWait) ELSE sinceWait
    /\ polled' = IF pc = "poll" THEN polled + 1 ELSE polled
    /\ UNCHANGED <<given, pc, lastEvent, lastAttempt, deadline, wraps, attempts>>

\* touch_isr_handler: an edge of the pin, a bounce of the same touch included.
Press ==
    /\ given' = IF given < MaxGives THEN given + 1 ELSE given
    /\ attempts' = 0
    /\ UNCHANGED <<now, pc, lastEvent, lastAttempt, deadline, timers, wraps>>

\* Faulty variant: ulTaskNotifyTake(pdFALSE, ...) takes one notification.
Take_One == given > 0 /\ given' = given - 1

\* ulTaskNotifyTake(pdTRUE, ...) takes them all.
Take == given > 0 /\ given' = 0

\* Faulty variant: a bounce moves the event's tick as well.
Bounced_Restarts ==
    /\ pc = "take" /\ Take
    /\ ~Elapsed(lastEvent, Debounce)
    /\ lastEvent' = now
    /\ UNCHANGED <<now, pc, lastAttempt, deadline, timers, wraps, attempts>>

Bounced ==
    /\ pc = "take" /\ Take
    /\ ~Elapsed(lastEvent, Debounce)
    /\ UNCHANGED <<now, pc, lastEvent, lastAttempt, deadline, timers, wraps, attempts>>

TooSoon ==
    /\ pc = "take" /\ Take
    /\ Elapsed(lastEvent, Debounce) /\ ~Elapsed(lastAttempt, Cooldown)
    /\ lastEvent' = now /\ sinceEvent' = 0
    /\ UNCHANGED <<now, pc, lastAttempt, deadline, sinceAttempt, sinceWait, polled, wraps, attempts>>

Attempt ==
    /\ pc = "take" /\ Take
    /\ Elapsed(lastEvent, Debounce) /\ Elapsed(lastAttempt, Cooldown)
    /\ lastEvent' = now /\ lastAttempt' = now
    /\ sinceEvent' = 0 /\ sinceAttempt' = 0
    /\ pc' = "begin"
    /\ attempts' = IF attempts < 2 THEN attempts + 1 ELSE attempts
    /\ UNCHANGED <<now, deadline, sinceWait, polled, wraps>>

-----------------------------------------------------------------------------
\* The loop of as608_wait_finger_present: another poll, or no finger.
Poll(until) ==
    IF now < until
    THEN pc' = "poll" /\ polled' = 0
    ELSE pc' = "deliver" /\ UNCHANGED polled

\* Faulty variant: the deadline is wider than the counter.
StartWait_Wide ==
    /\ pc = "begin"
    /\ deadline' = now + Timeout
    /\ Poll(deadline')
    /\ sinceWait' = 0
    /\ wraps' = (now + Timeout + MaxPoll >= Width)
    /\ UNCHANGED <<now, given, lastEvent, lastAttempt, sinceEvent, sinceAttempt, attempts>>

\* as608_wait_finger_present sets its deadline.
StartWait ==
    /\ pc = "begin"
    /\ deadline' = (now + Timeout) % Width
    /\ Poll(deadline')
    /\ sinceWait' = 0
    /\ wraps' = (now + Timeout + MaxPoll >= Width)
    /\ UNCHANGED <<now, given, lastEvent, lastAttempt, sinceEvent, sinceAttempt, attempts>>

\* Faulty variant: the deadline moves with every poll.
PollAgain_Restarts ==
    /\ pc = "poll" /\ polled > 0
    /\ deadline' = (now + Timeout) % Width
    /\ Poll(deadline')
    /\ UNCHANGED <<now, given, lastEvent, lastAttempt, sinceEvent, sinceAttempt, sinceWait, wraps, attempts>>

\* NO_FINGER or TIMEOUT, and the pause.
PollAgain ==
    /\ pc = "poll" /\ polled > 0
    /\ Poll(deadline)
    /\ UNCHANGED <<now, given, lastEvent, lastAttempt, deadline, sinceEvent, sinceAttempt, sinceWait, wraps, attempts>>

\* A finger, or an error that ends the wait.
WaitEnds ==
    /\ pc = "poll"
    /\ pc' = "deliver"
    /\ UNCHANGED <<now, given, lastEvent, lastAttempt, deadline, timers, wraps, attempts>>

\* The event is sent or stored, the queue flushed; the wait's variables are gone.
Deliver ==
    /\ pc = "deliver"
    /\ pc' = "take"
    /\ deadline' = 0 /\ sinceWait' = 0 /\ polled' = 0 /\ wraps' = FALSE
    /\ UNCHANGED <<now, given, lastEvent, lastAttempt, sinceEvent, sinceAttempt, attempts>>

Wake == Bounced \/ TooSoon \/ Attempt
Next == Tick \/ Press \/ Wake \/ StartWait \/ PollAgain \/ WaitEnds \/ Deliver
Spec == Init /\ [][Next]_vars

-----------------------------------------------------------------------------
\* Two attempts are a cooldown apart, and the first is one after the boot, at
\* any value of the counter.
AttemptsApart == [][pc = "take" /\ pc' = "begin" => sinceAttempt >= Cooldown]_vars

\* A touch is dropped only shortly after the last one or the last attempt, or
\* when a whole lap of the counter hides the rest before it.
RestedTouchServed ==
    [][given > 0 /\ given' = 0 /\ pc' = "take" =>
          \/ sinceEvent < Debounce \/ sinceAttempt < Cooldown
          \/ sinceEvent = Width \/ sinceAttempt = Width]_vars

\* However many edges a touch has, and however long they wait while an attempt
\* is under way, at most one attempt follows the last of them.
OneAttemptPerTouch == attempts < 2

\* The wait for a finger ends a poll after its timeout at the latest, unless
\* the counter wraps in between.
WaitBounded == pc = "poll" /\ ~wraps => sinceWait < Timeout + MaxPoll
=============================================================================

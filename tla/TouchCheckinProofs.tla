------------------------- MODULE TouchCheckinProofs -------------------------
(***************************************************************************)
(* The filter and the wait of the touch task, for every width of the tick  *)
(* counter and every setting of the intervals.                             *)
(*                                                                         *)
(* Clocked ties the tick counter to the true ages: the difference the      *)
(* filter computes is the age as long as the age is below a lap, and the   *)
(* counter of a wait that does not meet the wrap has moved as far as time. *)
(***************************************************************************)
EXTENDS TouchCheckin, TLAPS

Differ(a, b) == (a + Width - b) % Width

\* Ticks are subtracted and advanced modulo Width.
LEMMA Modulo ==
  ASSUME NEW x \in Nat, x < 2 * Width
  PROVE  x % Width = IF x < Width THEN x ELSE x - Width
<1>1. Width \in Nat \ {0}
  BY TimesAssumption
<1> QED
  BY <1>1

LEMMA DifferIs ==
  ASSUME NEW a \in Ticks, NEW b \in Ticks
  PROVE  Differ(a, b) = IF a >= b THEN a - b ELSE a + Width - b
<1>1. Width \in Nat \ {0} /\ a \in Nat /\ b \in Nat /\ a < Width /\ b < Width
  BY TimesAssumption DEF Ticks
<1> DEFINE x == a + Width - b
<1>2. x \in Nat /\ x < 2 * Width
  BY <1>1
<1> HIDE DEF x
<1>3. x % Width = IF x < Width THEN x ELSE x - Width
  BY <1>2, Modulo
<1> QED
  BY <1>1, <1>3 DEF Differ, x

LEMMA NextTick ==
  ASSUME NEW a \in Ticks
  PROVE  (a + 1) % Width = IF a + 1 < Width THEN a + 1 ELSE 0
<1>1. Width \in Nat \ {0} /\ a \in Nat /\ a < Width
  BY TimesAssumption DEF Ticks
<1> QED
  BY <1>1, Modulo

-----------------------------------------------------------------------------
Clocked ==
    /\ sinceEvent < Width => Differ(now, lastEvent) = sinceEvent
    /\ sinceAttempt < Width => Differ(now, lastAttempt) = sinceAttempt

\* A wait that ends before the wrap: it began at now - sinceWait, and its
\* current poll before the deadline.
Waiting ==
    pc = "poll" /\ ~wraps =>
        /\ sinceWait <= now /\ now - sinceWait + Timeout + MaxPoll < Width
        /\ deadline = now - sinceWait + Timeout
        /\ polled <= sinceWait /\ sinceWait - polled < Timeout

\* An attempt has taken every notification before it.
Taken == attempts < 2 /\ (attempts > 0 => given = 0)

Inv == TypeOK /\ Clocked /\ Waiting /\ Taken

LEMMA Constants ==
  /\ Width \in Nat \ {0} /\ Debounce \in Nat \ {0} /\ Cooldown \in Nat \ {0}
  /\ Timeout \in Nat \ {0} /\ MaxPoll \in Nat \ {0} /\ MaxGives \in Nat \ {0}
  /\ Debounce <= Cooldown /\ Cooldown < Width /\ Timeout + MaxPoll < Width
  BY TimesAssumption

LEMMA InitInv == Init => Inv
<1> SUFFICES ASSUME Init PROVE Inv
  OBVIOUS
<1>1. 0 \in Ticks
  BY Constants DEF Ticks
<1>2. Differ(0, 0) = 0
  BY <1>1, DifferIs
<1>3. TypeOK
  <2>1. 0 \in 0 .. MaxGives /\ 0 \in 0 .. Width /\ 0 \in 0 .. MaxPoll /\ 1 \in 0 .. 2
    BY Constants
  <2> QED
    BY <1>1, <2>1 DEF Init, TypeOK
<1>4. Clocked
  BY <1>2 DEF Init, Clocked
<1>5. Waiting /\ Taken
  BY DEF Init, Waiting, Taken
<1> QED
  BY <1>3, <1>4, <1>5 DEF Inv

LEMMA Aged ==
  ASSUME NEW a \in Ticks, NEW b \in Ticks, NEW age \in 0 .. Width,
         age < Width => Differ(a, b) = age
  PROVE  /\ Older(age) \in 0 .. Width
         /\ Older(age) < Width => Differ((a + 1) % Width, b) = Older(age)
<1> DEFINE c == (a + 1) % Width
<1>1. a \in Nat /\ b \in Nat /\ a < Width /\ b < Width
  BY Constants DEF Ticks
<1>2. c = (IF a + 1 < Width THEN a + 1 ELSE 0) /\ c \in Ticks
  <2>1. c = IF a + 1 < Width THEN a + 1 ELSE 0
    BY NextTick
  <2> QED
    BY <1>1, <2>1, Constants DEF Ticks
<1> HIDE DEF c
<1>3. Differ(c, b) = IF c >= b THEN c - b ELSE c + Width - b
  BY <1>2, DifferIs
<1>4. Differ(a, b) = IF a >= b THEN a - b ELSE a + Width - b
  BY DifferIs
<1>5. Older(age) \in 0 .. Width
  BY Constants DEF Older
<1>6. ASSUME Older(age) < Width
      PROVE  Differ(c, b) = Older(age)
  <2>1. age < Width /\ Older(age) = age + 1 /\ age + 1 < Width
    BY <1>6, Constants DEF Older
  <2> QED
    BY <1>1, <1>2, <1>3, <1>4, <2>1, Constants
<1> QED
  BY <1>5, <1>6 DEF c

LEMMA TickInv ==
  ASSUME Inv, Tick
  PROVE  Inv'
<1> USE DEF Inv, TypeOK
<1>1. /\ Older(sinceEvent) \in 0 .. Width /\ Older(sinceAttempt) \in 0 .. Width
      /\ Clocked'
  BY Aged DEF Clocked, Tick, Differ
<1>2. now' \in Ticks /\ now' = IF now + 1 < Width THEN now + 1 ELSE 0
  <2>1. now' = IF now + 1 < Width THEN now + 1 ELSE 0
    BY NextTick DEF Tick
  <2> QED
    BY <2>1, Constants DEF Ticks
<1>3. Older(sinceWait) \in 0 .. Width
  BY Constants DEF Older
<1>4. TypeOK'
  BY <1>1, <1>2, <1>3, Constants DEF Tick
<1>5. Waiting'
  <2> SUFFICES ASSUME pc = "poll", ~wraps PROVE Waiting'
    BY DEF Waiting, Tick
  <2>1. polled < MaxPoll /\ polled' = polled + 1 /\ UNCHANGED deadline
    BY DEF Tick
  <2>2. /\ sinceWait <= now /\ now - sinceWait + Timeout + MaxPoll < Width
        /\ deadline = now - sinceWait + Timeout
        /\ polled <= sinceWait /\ sinceWait - polled < Timeout
    BY DEF Waiting
  <2>3. now \in Nat /\ sinceWait \in Nat /\ polled \in Nat
    BY Constants DEF Ticks
  <2>4. now + 1 < Width
    BY <2>1, <2>2, <2>3, Constants
  <2>5. now' = now + 1
    BY <1>2, <2>4
  <2>6. sinceWait' = sinceWait + 1
    BY <2>2, <2>3, <2>4, Constants DEF Tick, Older
  <2> HIDE DEF Inv, TypeOK
  <2>7. /\ sinceWait' <= now' /\ now' - sinceWait' + Timeout + MaxPoll < Width
        /\ deadline' = now' - sinceWait' + Timeout
        /\ polled' <= sinceWait' /\ sinceWait' - polled' < Timeout
    BY <2>1, <2>2, <2>3, <2>5, <2>6, Constants
  <2> QED
    BY <2>7 DEF Waiting
<1>6. Taken'
  BY DEF Taken, Tick
<1> QED
  BY <1>1, <1>4, <1>5, <1>6

\* The wait begins, or goes on with another poll.
LEMMA WaitInv ==
  ASSUME Inv, StartWait \/ PollAgain
  PROVE  Inv'
<1> USE DEF Inv, TypeOK
<1>1. Clocked' /\ Taken'
  BY DEF Clocked, Taken, StartWait, PollAgain, Differ
<1>2. now \in Nat /\ now < Width
  BY Constants DEF Ticks
<1>3. CASE StartWait
  <2>1. deadline' = (now + Timeout) % Width
    BY <1>3 DEF StartWait
  <2>2. (now + Timeout) % Width =
            IF now + Timeout < Width THEN now + Timeout ELSE now + Timeout - Width
    <3> DEFINE x == now + Timeout
    <3>1. x \in Nat /\ x < 2 * Width
      BY <1>2, Constants
    <3> HIDE DEF x
    <3>2. x % Width = IF x < Width THEN x ELSE x - Width
      BY <3>1, Modulo
    <3> QED
      BY <1>2, <3>2, Constants DEF x
  <2>3. deadline' \in Ticks
    BY <1>2, <2>1, <2>2, Constants DEF Ticks
  <2>4. pc' \in {"poll", "deliver"} /\ polled' \in 0 .. MaxPoll
    BY <1>3, Constants DEF StartWait, Poll
  <2>5. TypeOK'
    BY <1>3, <2>3, <2>4, Constants DEF StartWait
  <2>6. Waiting'
    <3> SUFFICES ASSUME pc' = "poll", ~wraps' PROVE Waiting'
      BY DEF Waiting
    <3>1. now + Timeout + MaxPoll < Width
      <4>1. wraps' = (now + Timeout + MaxPoll >= Width)
        BY <1>3 DEF StartWait
      <4>2. ~(now + Timeout + MaxPoll >= Width)
        BY <4>1, Zenon
      <4> QED
        BY <1>2, <4>2, Constants
    <3>2. polled' = 0 /\ sinceWait' = 0 /\ now' = now
      BY <1>3 DEF StartWait, Poll
    <3>3. deadline' = now + Timeout
      BY <1>2, <2>1, <2>2, <3>1, Constants
    <3> QED
      BY <1>2, <3>1, <3>2, <3>3, Constants DEF Waiting
  <2> QED
    BY <1>1, <2>5, <2>6
<1>4. CASE PollAgain
  <2>1. TypeOK'
    BY <1>4, Constants DEF PollAgain, Poll
  <2>2. Waiting'
    <3> SUFFICES ASSUME pc' = "poll", ~wraps' PROVE Waiting'
      BY DEF Waiting
    <3>1. pc = "poll" /\ ~wraps /\ now < deadline /\ polled' = 0
      BY <1>4 DEF PollAgain, Poll
    <3>2. UNCHANGED <<now, deadline, sinceWait>>
      BY <1>4 DEF PollAgain
    <3>3. sinceWait <= now /\ now - sinceWait + Timeout + MaxPoll < Width
          /\ deadline = now - sinceWait + Timeout
      BY <3>1 DEF Waiting
    <3>4. sinceWait \in Nat
      BY Constants
    <3> QED
      BY <1>2, <3>1, <3>2, <3>3, <3>4, Constants DEF Waiting
  <2> QED
    BY <1>1, <2>1, <2>2
<1> QED
  BY <1>3, <1>4

\* A notification is taken, and perhaps an attempt begins.
LEMMA WakeInv ==
  ASSUME Inv, Wake
  PROVE  Inv'
<1> USE DEF Inv, TypeOK
<1>1. 0 \in 0 .. Width /\ 0 \in 0 .. MaxGives
  BY Constants
<1>2. Differ(now, now) = 0
  BY DifferIs, Constants DEF Ticks
<1>3. attempts = 0
  BY DEF Wake, Bounced, TooSoon, Attempt, Take, Taken
<1>4. Taken'
  BY <1>3 DEF Wake, Bounced, TooSoon, Attempt, Take, Taken
<1>7. TypeOK'
  <2>1. CASE Bounced
    BY <1>1, <2>1 DEF Bounced, Take, timers
  <2>2. CASE TooSoon
    BY <1>1, <2>2 DEF TooSoon, Take
  <2>3. CASE Attempt
    BY <1>1, <1>3, <2>3 DEF Attempt, Take
  <2> QED
    BY <2>1, <2>2, <2>3 DEF Wake
<1>5. Clocked'
  BY <1>2 DEF Wake, Bounced, TooSoon, Attempt, Clocked, Differ, timers
<1>6. Waiting'
  BY DEF Wake, Bounced, TooSoon, Attempt, Waiting
<1> QED
  BY <1>4, <1>5, <1>6, <1>7

LEMMA NextInv ==
  ASSUME Inv, [Next]_vars
  PROVE  Inv'
<1> USE DEF Inv, TypeOK
<1>1. CASE Press
  <2>1. given' \in 0 .. MaxGives
    BY <1>1, Constants DEF Press
  <2> QED
    BY <1>1, <2>1 DEF Press, timers, Clocked, Differ, Waiting, Taken
<1>2. CASE WaitEnds
  BY <1>2 DEF WaitEnds, timers, Clocked, Differ, Waiting, Taken
<1>3. CASE Deliver
  <2>1. 0 \in Ticks /\ 0 \in 0 .. Width /\ 0 \in 0 .. MaxPoll
    BY Constants DEF Ticks
  <2> QED
    BY <1>3, <2>1 DEF Deliver, Clocked, Differ, Waiting, Taken
<1>4. CASE UNCHANGED vars
  BY <1>4 DEF vars, timers, Clocked, Differ, Waiting, Taken
<1> QED
  BY <1>1, <1>2, <1>3, <1>4, TickInv, WaitInv, WakeInv DEF Next

LEMMA InvHolds == Spec => []Inv
<1>1. Inv /\ [Next]_vars => Inv'
  BY NextInv
<1> QED
  BY InitInv, <1>1, PTL DEF Spec

-----------------------------------------------------------------------------
\* The types of the touch task: every tick fits the counter.
THEOREM TouchTypeOK == Spec => []TypeOK
<1>1. Inv => TypeOK
  BY DEF Inv
<1> QED
  BY <1>1, InvHolds, PTL

\* ulTaskNotifyTake(pdTRUE, ...): the edges of a touch start one attempt, and
\* those that come while it is under way one more between them.
THEOREM OneAttemptEach == Spec => []OneAttemptPerTouch
<1>1. Inv => OneAttemptPerTouch
  BY DEF Inv, Taken, OneAttemptPerTouch
<1> QED
  BY <1>1, InvHolds, PTL

\* as608_wait_finger_present ends, a poll after its timeout at the latest,
\* unless the tick counter wraps meanwhile.
THEOREM WaitStaysBounded == Spec => []WaitBounded
<1>1. Inv => WaitBounded
  <2> SUFFICES ASSUME Inv, pc = "poll", ~wraps PROVE sinceWait < Timeout + MaxPoll
    BY DEF WaitBounded
  <2>1. sinceWait - polled < Timeout /\ polled <= MaxPoll
    BY Constants DEF Inv, TypeOK, Waiting
  <2>2. sinceWait \in Nat /\ polled \in Nat
    BY Constants DEF Inv, TypeOK
  <2> QED
    BY <2>1, <2>2, Constants
<1> QED
  BY <1>1, InvHolds, PTL

\* The cooldown: two attempts are that far apart, whatever the counter says.
THEOREM AttemptsStayApart == Spec => AttemptsApart
<1>1. Inv /\ [Next]_vars => [pc = "take" /\ pc' = "begin" => sinceAttempt >= Cooldown]_vars
  <2> SUFFICES ASSUME Inv, Attempt PROVE sinceAttempt >= Cooldown
    BY DEF Next, Tick, Press, Wake, Bounced, TooSoon, StartWait, PollAgain, WaitEnds, Deliver,
           Poll
  <2>1. Differ(now, lastAttempt) >= Cooldown
    BY DEF Attempt, Elapsed, Differ
  <2>2. sinceAttempt \in Nat /\ sinceAttempt <= Width
    BY Constants DEF Inv, TypeOK
  <2>3. CASE sinceAttempt < Width
    BY <2>1, <2>3 DEF Inv, Clocked
  <2>4. CASE sinceAttempt = Width
    BY <2>4, Constants
  <2> QED
    BY <2>2, <2>3, <2>4, Constants
<1> QED
  BY <1>1, InvHolds, PTL DEF Spec, AttemptsApart

\* The debounce and the cooldown drop nothing else, save after a rest of a lap.
THEOREM TouchesAreServed == Spec => RestedTouchServed
<1> DEFINE Served == \/ sinceEvent < Debounce \/ sinceAttempt < Cooldown
                     \/ sinceEvent = Width \/ sinceAttempt = Width
<1>1. Inv /\ [Next]_vars => [given > 0 /\ given' = 0 /\ pc' = "take" => Served]_vars
  <2> SUFFICES ASSUME Inv, Next, given > 0, given' = 0, pc' = "take" PROVE Served
    OBVIOUS
  <2>1. Bounced \/ TooSoon
    BY Constants DEF Next, Tick, Press, Wake, Attempt, StartWait, PollAgain, WaitEnds, Deliver,
           Inv, TypeOK
  <2>2. sinceEvent \in Nat /\ sinceEvent <= Width /\ sinceAttempt \in Nat /\ sinceAttempt <= Width
    BY Constants DEF Inv, TypeOK
  <2>3. CASE Bounced
    <3>1. ~(Differ(now, lastEvent) >= Debounce)
      BY <2>3 DEF Bounced, Elapsed, Differ
    <3> QED
      BY <2>2, <3>1, Constants DEF Inv, Clocked
  <2>4. CASE TooSoon
    <3>1. ~(Differ(now, lastAttempt) >= Cooldown)
      BY <2>4 DEF TooSoon, Elapsed, Differ
    <3> QED
      BY <2>2, <3>1, Constants DEF Inv, Clocked
  <2> QED
    BY <2>1, <2>3, <2>4
<1> QED
  BY <1>1, InvHolds, PTL DEF Spec, RestedTouchServed
=============================================================================

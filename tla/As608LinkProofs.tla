--------------------------- MODULE As608LinkProofs ---------------------------
(***************************************************************************)
(* For any number of tasks and of commands: the driver's context is set up *)
(* once, a command that found the sensor idle gets its own answer, and the *)
(* driver implements SensorLink up to the first overrun of a buffer, which *)
(* only a late answer causes.                                              *)
(*                                                                         *)
(* Ordered is what the line gives: the pieces of the answers are in the    *)
(* order of their commands, so that whatever comes after an accepted       *)
(* answer belongs to a later command.                                      *)
(***************************************************************************)
EXTENDS As608Link, TLAPS

Places == {"idle", "install", "configure", "create", "powerOn", "lock", "send",
           "header", "rest"}

\* The context, and what makes ContextSound inductive.
Context ==
    /\ ContextSound
    /\ initialized => installed
    /\ \A t \in Tasks : pc[t] = "powerOn" => initialized

ContextTypeOK ==
    /\ ready \in BOOLEAN /\ initialized \in BOOLEAN /\ installed \in BOOLEAN
    /\ pc \in [Tasks -> Places]

LEMMA ContextStep ==
  ASSUME ContextTypeOK, Context, [Next]_vars
  PROVE  ContextTypeOK' /\ Context'
<1> USE DEF ContextTypeOK, Context, ContextSound, Places
<1>1. ASSUME NEW t \in Tasks, Begin(t)
      PROVE  ContextTypeOK' /\ Context'
  BY <1>1 DEF Begin, Goto
<1>2. ASSUME NEW t \in Tasks, Install(t)
      PROVE  ContextTypeOK' /\ Context'
  <2>1. CASE ~installed /\ Goto(t, "install", "configure") /\ installed' = TRUE
    <3>1. \A u \in Tasks : pc[u] \notin {"configure", "create"}
      BY <2>1
    <3> QED
      BY <1>2, <2>1, <3>1 DEF Install, Goto
  <2>2. CASE Goto(t, "install", "idle") /\ UNCHANGED installed
    BY <1>2, <2>2 DEF Install, Goto
  <2> QED
    BY <1>2, <2>1, <2>2 DEF Install
<1>3. ASSUME NEW t \in Tasks, InitFails(t)
      PROVE  ContextTypeOK' /\ Context'
  <2>1. pc[t] \in {"configure", "create"} /\ pc' = [pc EXCEPT ![t] = "idle"]
    BY <1>3 DEF InitFails, Goto
  <2>2. \A u \in Tasks : pc[u] \in {"configure", "create"} => u = t
    BY <2>1
  <2>3. installed' = FALSE /\ UNCHANGED <<ready, initialized>> /\ ~initialized
    BY <1>3, <2>1 DEF InitFails
  <2> QED
    BY <2>1, <2>2, <2>3
<1>4. ASSUME NEW t \in Tasks, Configure(t)
      PROVE  ContextTypeOK' /\ Context'
  BY <1>4 DEF Configure, Goto
<1>5. ASSUME NEW t \in Tasks, Create(t)
      PROVE  ContextTypeOK' /\ Context'
  BY <1>5 DEF Create, Goto
<1>6. ASSUME NEW t \in Tasks, PowerOn(t)
      PROVE  ContextTypeOK' /\ Context'
  BY <1>6 DEF PowerOn, Goto
<1>7. ASSUME NEW t \in Tasks, Execute(t)
      PROVE  ContextTypeOK' /\ Context'
  BY <1>7 DEF Execute, Lock, Send, Sends, SendFails, ReadHeader, ReadRest, TimesOut,
              Return, Goto, context
<1>8. CASE Environment \/ UNCHANGED exchange
  BY <1>8 DEF Environment, exchange, context
<1> QED
  BY <1>1, <1>2, <1>3, <1>4, <1>5, <1>6, <1>7, <1>8 DEF Next, FirstUse, Overrun, vars

-----------------------------------------------------------------------------
Inside == {"send", "header", "rest"}

\* The mutex, and who waits for which answer.
Exclusive ==
    /\ holder \in Tasks \cup {None}
    /\ \A t \in Tasks : holder = t <=> pc[t] \in Inside

NumbersOK ==
    /\ cmd \in [Tasks -> Numbers] /\ header \in [Tasks -> Numbers]
    /\ sent \in Numbers /\ taken \in Numbers /\ quiet \in BOOLEAN

BuffersOK == tables \subseteq Numbers /\ overrun \in BOOLEAN

WireOK == sensor \in Seq(Numbers) /\ line \in Seq(Pieces) /\ rx \in Seq(Pieces)

LEMMA TypeOKParts ==
  TypeOK <=> ContextTypeOK /\ Exclusive /\ NumbersOK /\ WireOK /\ BuffersOK
  BY DEF TypeOK, ContextTypeOK, Exclusive, NumbersOK, WireOK, BuffersOK, Places, Inside

LEMMA ExclusiveStep ==
  ASSUME ContextTypeOK, Exclusive, [Next]_vars
  PROVE  Exclusive'
<1> USE NoneAssumption DEF ContextTypeOK, Exclusive, Inside, Places
<1>1. ASSUME NEW t \in Tasks, Begin(t) \/ FirstUse(t)
      PROVE  Exclusive'
  BY <1>1 DEF Begin, FirstUse, Install, InitFails, Configure, Create, PowerOn, Goto, later
<1>2. ASSUME NEW t \in Tasks, Lock(t)
      PROVE  Exclusive'
  BY <1>2 DEF Lock, Goto
<1>3. ASSUME NEW t \in Tasks, Send(t)
      PROVE  Exclusive'
  BY <1>3 DEF Send, Sends, Goto
<1>4. ASSUME NEW t \in Tasks, NEW step \in Inside, Return(t, step)
      PROVE  Exclusive'
  BY <1>4 DEF Return, Goto
<1>5. ASSUME NEW t \in Tasks, ReadHeader(t)
      PROVE  Exclusive'
  BY <1>4, <1>5 DEF ReadHeader, Goto
<1>6. ASSUME NEW t \in Tasks, SendFails(t) \/ ReadRest(t) \/ TimesOut(t)
      PROVE  Exclusive'
  BY <1>4, <1>6 DEF SendFails, ReadRest, TimesOut
<1>7. CASE Environment \/ UNCHANGED exchange
  BY <1>7 DEF Environment, exchange
<1> QED
  BY <1>1, <1>2, <1>3, <1>5, <1>6, <1>7 DEF Next, Execute, Overrun, vars

LEMMA NoPieces == <<>> \in Seq(Pieces)
  OBVIOUS

LEMMA AppendTyped ==
  ASSUME NEW S, NEW s \in Seq(S), NEW e \in S
  PROVE  Append(s, e) \in Seq(S)
  OBVIOUS

\* What the actions do to the wire: a reader's sequences only lose their heads.
LEMMA WireStep ==
  ASSUME NumbersOK, WireOK, [Next]_vars
  PROVE  NumbersOK' /\ WireOK'
<1> USE DEF NumbersOK, WireOK
<1>0. 0 \in Numbers
  BY MaxAssumption DEF Numbers
<1>1. ASSUME NEW t \in Tasks, Begin(t) \/ FirstUse(t) \/ Lock(t)
      PROVE  NumbersOK' /\ WireOK'
  BY <1>1 DEF Begin, FirstUse, Install, InitFails, Configure, Create, PowerOn, Lock,
              later, wire
<1>2. ASSUME NEW t \in Tasks, Send(t)
      PROVE  NumbersOK' /\ WireOK'
  <2>1. sent + 1 \in Numbers /\ sent' = sent + 1 /\ cmd' = [cmd EXCEPT ![t] = sent + 1]
    BY <1>2, MaxAssumption DEF Send, Sends, Numbers
  <2>2. quiet' \in BOOLEAN
    BY <1>2 DEF Send, Sends
  <2>3. UNCHANGED <<header, taken>>
    BY <1>2 DEF Send
  <2>4. rx' \in Seq(Pieces) /\ line' \in Seq(Pieces)
    BY <1>2, NoPieces DEF Send
  <2>5. sensor' \in Seq(Numbers)
    <3>1. sensor' = sensor \/ sensor' = Append(sensor, sent + 1)
      BY <1>2 DEF Send, Sends
    <3>2. Append(sensor, sent + 1) \in Seq(Numbers)
      BY <2>1, AppendTyped
    <3> QED
      BY <3>1, <3>2
  <2> QED
    BY <2>1, <2>2, <2>3, <2>4, <2>5
<1>3. ASSUME NEW t \in Tasks, SendFails(t) \/ TimesOut(t)
      PROVE  NumbersOK' /\ WireOK'
  <2>1. /\ cmd' = [cmd EXCEPT ![t] = 0] /\ header' = [header EXCEPT ![t] = 0]
        /\ UNCHANGED <<sent, taken, quiet>>
    BY <1>3 DEF SendFails, TimesOut, Return
  <2>2. UNCHANGED <<sensor, line>> /\ (rx' = <<>> \/ rx' = rx)
    BY <1>3 DEF SendFails, TimesOut, wire
  <2> QED
    BY <1>0, NoPieces, <2>1, <2>2
<1>4. ASSUME NEW t \in Tasks, ReadHeader(t)
      PROVE  NumbersOK' /\ WireOK'
  <2>1. Head(rx) \in Pieces /\ rx' \in Seq(Pieces)
    BY <1>4 DEF ReadHeader
  <2>2. Head(rx).of \in Numbers
    BY <2>1 DEF Pieces
  <2>3. \/ header' = [header EXCEPT ![t] = Head(rx).of] /\ UNCHANGED cmd
        \/ header' = [header EXCEPT ![t] = 0] /\ cmd' = [cmd EXCEPT ![t] = 0]
    BY <1>4 DEF ReadHeader, Return
  <2>4. UNCHANGED <<sensor, line, sent, taken, quiet>>
    BY <1>4 DEF ReadHeader
  <2> QED
    BY <1>0, <2>1, <2>2, <2>3, <2>4
<1>5. ASSUME NEW t \in Tasks, ReadRest(t)
      PROVE  NumbersOK' /\ WireOK'
  BY <1>0, <1>5 DEF ReadRest, Acceptable, Return
<1>6. CASE Answers /\ UNCHANGED <<cmd, header, sent, taken, quiet>>
  <2>1. Head(sensor) \in Numbers /\ sensor' \in Seq(Numbers)
    BY <1>6 DEF Answers
  <2>2. line' \in Seq(Pieces)
    BY <1>6, <2>1 DEF Answers, Pieces
  <2> QED
    BY <1>6, <2>1, <2>2 DEF Answers
<1>7. CASE Arrives /\ UNCHANGED <<cmd, header, sent, taken, quiet>>
  <2>1. Head(line) \in Pieces /\ line' \in Seq(Pieces)
    BY <1>7 DEF Arrives
  <2>2. \A sound \in {TRUE, FALSE} : [Head(line) EXCEPT !.sound = sound] \in Pieces
    BY <2>1 DEF Pieces
  <2>3. rx' \in Seq(Pieces)
    <3>1. \A sound \in {TRUE, FALSE} :
             Append(rx, [Head(line) EXCEPT !.sound = sound]) \in Seq(Pieces)
      BY <2>2, AppendTyped
    <3> QED
      BY <1>7, <3>1 DEF Arrives
  <2> QED
    BY <1>7, <2>1, <2>3 DEF Arrives
<1>8. CASE UNCHANGED exchange
  BY <1>8 DEF exchange, wire
<1> QED
  BY <1>1, <1>2, <1>3, <1>4, <1>5, <1>6, <1>7, <1>8
     DEF Next, Execute, Environment, Overrun, vars

\* Only a command that is sent, and an overrun, change what is known of the buffers.
LEMMA BuffersStep ==
  ASSUME NumbersOK, BuffersOK, [Next]_vars
  PROVE  BuffersOK'
<1> USE DEF BuffersOK
<1>1. ASSUME NEW t \in Tasks, Send(t)
      PROVE  BuffersOK'
  <2>1. sent + 1 \in Numbers
    BY <1>1, MaxAssumption DEF Send, Sends, NumbersOK, Numbers
  <2> QED
    BY <1>1, <2>1 DEF Send, Sends
<1>2. ASSUME NEW t \in Tasks, Overrun(t)
      PROVE  BuffersOK'
  BY <1>2 DEF Overrun
<1>3. ASSUME UNCHANGED buffers
      PROVE  BuffersOK'
  BY <1>3 DEF buffers
<1>4. ASSUME NEW t \in Tasks, Begin(t) \/ FirstUse(t)
      PROVE  UNCHANGED buffers
  BY <1>4 DEF Begin, FirstUse, Install, InitFails, Configure, Create, PowerOn, later
<1>5. ASSUME NEW t \in Tasks,
             Lock(t) \/ SendFails(t) \/ ReadHeader(t) \/ ReadRest(t) \/ TimesOut(t)
      PROVE  UNCHANGED buffers
  BY <1>5 DEF Lock, SendFails, ReadHeader, ReadRest, TimesOut
<1> QED
  BY <1>1, <1>2, <1>3, <1>4, <1>5 DEF Next, Execute, Environment, vars

-----------------------------------------------------------------------------
\* The place of a piece in the order of all pieces.
Key(p) == 2 * p.of + (IF p.part = "rest" THEN 1 ELSE 0)

RxOrdered == \A i, j \in 1 .. Len(rx) : i < j => Key(rx[i]) < Key(rx[j])

LineOrdered ==
    /\ \A i, j \in 1 .. Len(line) : i < j => Key(line[i]) < Key(line[j])
    /\ \A i \in 1 .. Len(rx), j \in 1 .. Len(line) : Key(rx[i]) < Key(line[j])

SensorOrdered ==
    /\ \A i, j \in 1 .. Len(sensor) : i < j => sensor[i] < sensor[j]
    /\ \A i \in 1 .. Len(rx), j \in 1 .. Len(sensor) : rx[i].of < sensor[j]
    /\ \A i \in 1 .. Len(line), j \in 1 .. Len(sensor) : line[i].of < sensor[j]

\* No answer is ahead of its command.
Bounded ==
    /\ \A i \in 1 .. Len(rx) : rx[i].of <= sent
    /\ \A i \in 1 .. Len(line) : line[i].of <= sent
    /\ \A i \in 1 .. Len(sensor) : sensor[i] <= sent

\* What comes after a header that has been read.
HeaderFirst ==
    \A t \in Tasks : pc[t] = "rest" =>
        /\ header[t] <= sent
        /\ \A i \in 1 .. Len(rx) : Key(rx[i]) > 2 * header[t]
        /\ \A i \in 1 .. Len(line) : Key(line[i]) > 2 * header[t]
        /\ \A i \in 1 .. Len(sensor) : sensor[i] > header[t]

Ordered == RxOrdered /\ LineOrdered /\ SensorOrdered /\ Bounded /\ HeaderFirst

LEMMA KeyOf ==
  ASSUME NEW p \in Pieces
  PROVE  /\ p.of \in Nat /\ Key(p) \in Nat
         /\ Key(p) = 2 * p.of \/ Key(p) = 2 * p.of + 1
         /\ p.part = "rest" => Key(p) = 2 * p.of + 1
         /\ p.part = "header" => Key(p) = 2 * p.of
  BY MaxAssumption DEF Pieces, Numbers, Key

\* The actions, by what they do to the pieces.
LEMMA FlushKeepsOrder ==
  ASSUME WireOK, NumbersOK, Ordered, rx' = <<>>, UNCHANGED line,
         \/ UNCHANGED <<sensor, sent>>
         \/ sent' = sent + 1 /\ (UNCHANGED sensor \/ sensor' = Append(sensor, sent + 1)),
         \A t \in Tasks : pc'[t] # "rest"
  PROVE  Ordered'
<1> USE MaxAssumption DEF Ordered, WireOK, NumbersOK, Numbers
<1>1. \A i \in 1 .. Len(line) : line[i] \in Pieces /\ line[i].of \in Nat
  BY KeyOf
<1>2. RxOrdered' /\ LineOrdered'
  BY DEF RxOrdered, LineOrdered
<1>3. sent \in Nat /\ \A i \in 1 .. Len(sensor) : sensor[i] \in Nat
  OBVIOUS
<1>4. CASE UNCHANGED <<sensor, sent>>
  BY <1>1, <1>2, <1>4 DEF Bounded, SensorOrdered, HeaderFirst
<1>5. CASE sent' = sent + 1 /\ UNCHANGED sensor
  BY <1>1, <1>2, <1>3, <1>5 DEF Bounded, SensorOrdered, HeaderFirst
<1>6. CASE sent' = sent + 1 /\ sensor' = Append(sensor, sent + 1)
  <2>1. /\ Len(sensor') = Len(sensor) + 1 /\ Len(sensor) \in Nat
        /\ \A i \in 1 .. Len(sensor) : sensor'[i] = sensor[i]
        /\ sensor'[Len(sensor) + 1] = sent + 1
    BY <1>6
  <2>2. /\ \A i \in 1 .. Len(sensor) : sensor[i] <= sent
        /\ \A i \in 1 .. Len(line) : line[i].of <= sent
    BY DEF Bounded
  <2>3. Bounded'
    BY <1>1, <1>3, <1>6, <2>1, <2>2, SMTT(30) DEF Bounded
  <2>4. \A j \in 1 .. Len(sensor') : j \in 1 .. Len(sensor) \/ j = Len(sensor) + 1
    BY <2>1
  <2>5. \A i, j \in 1 .. Len(sensor') : i < j => sensor'[i] < sensor'[j]
    <3> SUFFICES ASSUME NEW i \in 1 .. Len(sensor'), NEW j \in 1 .. Len(sensor'), i < j
                 PROVE  sensor'[i] < sensor'[j]
      OBVIOUS
    <3>1. i \in 1 .. Len(sensor)
      BY <2>1
    <3>2. CASE j \in 1 .. Len(sensor)
      BY <2>1, <3>1, <3>2 DEF SensorOrdered
    <3>3. CASE j = Len(sensor) + 1
      <4>1. sensor'[i] = sensor[i] /\ sensor[i] <= sent /\ sensor'[j] = sent + 1
        BY <2>1, <2>2, <3>1, <3>3
      <4>2. sensor[i] \in Nat /\ sent \in Nat
        BY <1>3, <3>1
      <4> HIDE DEF WireOK, NumbersOK, Numbers, Ordered
      <4> QED
        BY <4>1, <4>2
    <3> QED
      BY <2>4, <3>2, <3>3
  <2>6. \A i \in 1 .. Len(line), j \in 1 .. Len(sensor') : line[i].of < sensor'[j]
    <3> SUFFICES ASSUME NEW i \in 1 .. Len(line), NEW j \in 1 .. Len(sensor')
                 PROVE  line[i].of < sensor'[j]
      OBVIOUS
    <3>1. line[i].of <= sent /\ line[i].of \in Nat /\ sent \in Nat
      BY <1>1, <1>3, <2>2
    <3>2. CASE j \in 1 .. Len(sensor)
      BY <2>1, <3>2 DEF SensorOrdered
    <3>3. CASE j = Len(sensor) + 1
      <4>1. sensor'[j] = sent + 1
        BY <2>1, <3>3
      <4> HIDE DEF WireOK, NumbersOK, Numbers, Ordered
      <4> QED
        BY <3>1, <4>1
    <3> QED
      BY <2>4, <3>2, <3>3
  <2>7. SensorOrdered'
    <3>1. /\ \A i \in 1 .. Len(rx'), j \in 1 .. Len(sensor') : rx'[i].of < sensor'[j]
          /\ \A i \in 1 .. Len(line'), j \in 1 .. Len(sensor') : line'[i].of < sensor'[j]
      <4>1. Len(rx') = 0 /\ UNCHANGED line
        OBVIOUS
      <4> HIDE DEF WireOK, NumbersOK, Numbers, Ordered
      <4> QED
        BY <2>6, <4>1
    <3> QED
      BY <2>5, <3>1 DEF SensorOrdered
  <2> QED
    BY <1>2, <2>3, <2>7 DEF HeaderFirst
<1> QED
  BY <1>4, <1>5, <1>6

LEMMA ReadKeepsOrder ==
  ASSUME WireOK, NumbersOK, Ordered, rx # <<>>, rx' = Tail(rx),
         UNCHANGED <<line, sensor, sent>>,
         \A t \in Tasks : pc'[t] = "rest" =>
             header'[t] = Head(rx).of /\ Head(rx).part = "header"
  PROVE  Ordered'
<1> USE DEF Ordered, WireOK
<1>1. /\ Len(rx') = Len(rx) - 1 /\ Len(rx) \in Nat
      /\ \A i \in 1 .. Len(rx') : i + 1 \in 1 .. Len(rx) /\ rx'[i] = rx[i + 1]
      /\ Head(rx) = rx[1] /\ 1 \in 1 .. Len(rx)
  OBVIOUS
<1>2. RxOrdered'
  BY <1>1 DEF RxOrdered
<1>3. LineOrdered'
  BY <1>1 DEF LineOrdered
<1>4. SensorOrdered' /\ Bounded'
  BY <1>1 DEF SensorOrdered, Bounded
<1>5. HeaderFirst'
  <2>1. Head(rx) \in Pieces
    BY <1>1
  <2>2. /\ \A i \in 1 .. Len(rx') : Key(rx[1]) < Key(rx'[i])
        /\ \A i \in 1 .. Len(line) : Key(rx[1]) < Key(line[i])
        /\ \A i \in 1 .. Len(sensor) : rx[1].of < sensor[i]
        /\ rx[1].of <= sent
    BY <1>1 DEF RxOrdered, LineOrdered, SensorOrdered, Bounded
  <2>3. Head(rx).part = "header" => Key(rx[1]) = 2 * Head(rx).of
    BY <1>1, <2>1, KeyOf
  <2>4. /\ \A i \in 1 .. Len(rx') : rx'[i] \in Pieces
        /\ \A i \in 1 .. Len(line) : line[i] \in Pieces
    BY <1>1
  <2> SUFFICES ASSUME NEW t \in Tasks, pc'[t] = "rest"
               PROVE  /\ header'[t] <= sent'
                      /\ \A i \in 1 .. Len(rx') : Key(rx'[i]) > 2 * header'[t]
                      /\ \A i \in 1 .. Len(line') : Key(line'[i]) > 2 * header'[t]
                      /\ \A i \in 1 .. Len(sensor') : sensor'[i] > header'[t]
    BY DEF HeaderFirst, Key
  <2>5. header'[t] = rx[1].of /\ Key(rx[1]) = 2 * header'[t] /\ header'[t] \in Nat
    BY <1>1, <2>1, <2>3, KeyOf
  <2>6. /\ \A i \in 1 .. Len(rx') : Key(rx'[i]) \in Nat
        /\ \A i \in 1 .. Len(line) : Key(line[i]) \in Nat
        /\ \A i \in 1 .. Len(sensor) : sensor[i] \in Nat
    BY <2>4, KeyOf, MaxAssumption, SMTT(30) DEF Numbers
  <2> QED
    BY <2>2, <2>5, <2>6
<1> QED
  BY <1>2, <1>3, <1>4, <1>5

LEMMA AnswersKeepOrder ==
  ASSUME WireOK, NumbersOK, Ordered, Answers, UNCHANGED <<pc, header, sent>>
  PROVE  Ordered'
<1> DEFINE n == Head(sensor)
           h == [part |-> "header", of |-> n, sound |-> TRUE]
           r == [part |-> "rest", of |-> n, sound |-> TRUE]
           k == Len(line)
<1>1. /\ n = sensor[1] /\ 1 \in 1 .. Len(sensor) /\ n \in Numbers /\ n \in Nat
      /\ \A i \in 1 .. Len(sensor) : sensor[i] \in Nat
  BY MaxAssumption, SMTT(30) DEF WireOK, Answers, Numbers
<1>2. h \in Pieces /\ r \in Pieces /\ h.of = n /\ r.of = n
  BY <1>1 DEF Pieces
<1>3. Key(h) = 2 * n /\ Key(r) = 2 * n + 1
  BY <1>2, KeyOf
<1> HIDE DEF n, h, r
<1>4. line' = line \o <<h, r>> /\ line \in Seq(Pieces) /\ UNCHANGED rx
  BY DEF WireOK, Answers, n, h, r
<1>5. /\ k \in Nat /\ Len(line') = k + 2
      /\ \A i \in 1 .. k : line'[i] = line[i]
      /\ line'[k + 1] = h /\ line'[k + 2] = r
  BY <1>2, <1>4
<1> HIDE DEF k
<1>6. \A i \in 1 .. Len(line') : i \in 1 .. k \/ i = k + 1 \/ i = k + 2
  BY <1>5
<1>7. /\ Len(sensor') = Len(sensor) - 1 /\ Len(sensor) \in Nat
      /\ \A i \in 1 .. Len(sensor') : i + 1 \in 1 .. Len(sensor) /\ sensor'[i] = sensor[i + 1]
  BY DEF WireOK, Answers
<1>8. /\ \A i \in 1 .. Len(sensor') : n < sensor'[i]
      /\ \A i \in 1 .. Len(sensor') : sensor'[i] \in Nat
      /\ n <= sent
  BY <1>1, <1>7, SMTT(30) DEF Ordered, SensorOrdered, Bounded
<1>9. \A i \in 1 .. k : /\ line[i].of \in Nat /\ Key(line[i]) \in Nat
                        /\ line[i].of < n /\ Key(line[i]) < 2 * n
  <2> TAKE i \in 1 .. k
  <2>1. line[i] \in Pieces
    BY <1>4 DEF k
  <2>2. line[i].of < n
    BY <1>1 DEF Ordered, SensorOrdered, k
  <2> QED
    BY <1>1, <2>1, <2>2, KeyOf
<1>10. \A i \in 1 .. Len(rx) : /\ rx[i].of \in Nat /\ Key(rx[i]) \in Nat
                               /\ rx[i].of < n /\ Key(rx[i]) < 2 * n
  <2> TAKE i \in 1 .. Len(rx)
  <2>1. rx[i] \in Pieces
    BY DEF WireOK
  <2>2. rx[i].of < n
    BY <1>1 DEF Ordered, SensorOrdered
  <2> QED
    BY <1>1, <2>1, <2>2, KeyOf, SMTT(30)
<1>11. RxOrdered'
  BY <1>4 DEF Ordered, RxOrdered, Key
<1>12. LineOrdered'
  <2>1. \A i, j \in 1 .. Len(line') : i < j => Key(line'[i]) < Key(line'[j])
    <3> SUFFICES ASSUME NEW i \in 1 .. Len(line'), NEW j \in 1 .. Len(line'), i < j
                 PROVE  Key(line'[i]) < Key(line'[j])
      OBVIOUS
    <3>1. CASE j \in 1 .. k
      <4>1. i \in 1 .. k
        BY <1>5, <3>1
      <4> QED
        BY <1>5, <3>1, <4>1 DEF Ordered, LineOrdered, k
    <3>2. CASE j = k + 1
      <4>1. i \in 1 .. k
        BY <1>5, <3>2
      <4> QED
        BY <1>1, <1>3, <1>5, <1>9, <3>2, <4>1
    <3>3. CASE j = k + 2
      <4>1. i \in 1 .. k \/ i = k + 1
        BY <1>5, <3>3
      <4>2. Key(line'[j]) = 2 * n + 1
        BY <1>3, <1>5, <3>3
      <4>3. CASE i \in 1 .. k
        BY <1>1, <1>5, <1>9, <4>2, <4>3
      <4>4. CASE i = k + 1
        BY <1>1, <1>3, <1>5, <4>2, <4>4
      <4> QED
        BY <4>1, <4>3, <4>4
    <3> QED
      BY <1>6, <3>1, <3>2, <3>3
  <2>2. \A i \in 1 .. Len(rx), j \in 1 .. Len(line') : Key(rx[i]) < Key(line'[j])
    <3> SUFFICES ASSUME NEW i \in 1 .. Len(rx), NEW j \in 1 .. Len(line')
                 PROVE  Key(rx[i]) < Key(line'[j])
      OBVIOUS
    <3>1. CASE j \in 1 .. k
      BY <1>5, <3>1 DEF Ordered, LineOrdered, k
    <3>2. CASE j = k + 1 \/ j = k + 2
      BY <1>1, <1>3, <1>5, <1>10, <3>2
    <3> QED
      BY <1>6, <3>1, <3>2
  <2> QED
    BY <1>4, <2>1, <2>2 DEF LineOrdered, Key
<1>13. \A i \in 1 .. Len(line') : line'[i].of <= n /\ line'[i].of \in Nat
  <2> TAKE i \in 1 .. Len(line')
  <2>1. CASE i \in 1 .. k
    <3>1. line'[i] = line[i] /\ line[i].of \in Nat /\ line[i].of < n
      BY <1>5, <1>9, <2>1
    <3> QED
      BY <1>1, <3>1
  <2>2. CASE i = k + 1 \/ i = k + 2
    BY <1>1, <1>2, <1>5, <2>2
  <2> QED
    BY <1>6, <2>1, <2>2
<1>14. SensorOrdered'
  <2>1. \A i, j \in 1 .. Len(sensor') : i < j => sensor'[i] < sensor'[j]
    BY <1>7 DEF Ordered, SensorOrdered
  <2>2. \A i \in 1 .. Len(line'), j \in 1 .. Len(sensor') : line'[i].of < sensor'[j]
    BY <1>1, <1>8, <1>13
  <2>3. \A i \in 1 .. Len(rx), j \in 1 .. Len(sensor') : rx[i].of < sensor'[j]
    BY <1>7 DEF Ordered, SensorOrdered
  <2> QED
    BY <1>4, <2>1, <2>2, <2>3 DEF SensorOrdered
<1>15. Bounded'
  <2>1. sent \in Nat /\ UNCHANGED sent
    BY MaxAssumption DEF NumbersOK, Numbers
  <2>2. \A i \in 1 .. Len(line') : line'[i].of <= sent
    BY <1>1, <1>8, <1>13, <2>1
  <2>3. \A i \in 1 .. Len(sensor') : sensor'[i] <= sent
    BY <1>7 DEF Ordered, Bounded
  <2> QED
    BY <1>4, <2>1, <2>2, <2>3 DEF Ordered, Bounded
<1>16. HeaderFirst'
  <2> SUFFICES ASSUME NEW t \in Tasks, pc[t] = "rest"
               PROVE  /\ header[t] <= sent
                      /\ \A i \in 1 .. Len(rx) : Key(rx[i]) > 2 * header[t]
                      /\ \A i \in 1 .. Len(line') : Key(line'[i]) > 2 * header[t]
                      /\ \A i \in 1 .. Len(sensor') : sensor'[i] > header[t]
    BY <1>4 DEF HeaderFirst, Key
  <2>1. /\ header[t] <= sent /\ header[t] < n
        /\ \A i \in 1 .. Len(rx) : Key(rx[i]) > 2 * header[t]
        /\ \A i \in 1 .. k : Key(line[i]) > 2 * header[t]
    BY <1>1 DEF Ordered, HeaderFirst, k
  <2>2. header[t] \in Nat
    BY MaxAssumption DEF NumbersOK, Numbers
  <2>3. \A i \in 1 .. Len(line') : Key(line'[i]) > 2 * header[t]
    <3> TAKE i \in 1 .. Len(line')
    <3>1. CASE i \in 1 .. k
      BY <1>5, <2>1, <3>1
    <3>2. CASE i = k + 1 \/ i = k + 2
      BY <1>1, <1>3, <1>5, <2>1, <2>2, <3>2, SMTT(30)
    <3> QED
      BY <1>6, <3>1, <3>2
  <2>4. \A i \in 1 .. Len(sensor') : sensor'[i] > header[t]
    BY <1>1, <1>8, <2>1, <2>2
  <2> QED
    BY <2>1, <2>3, <2>4
<1> QED
  BY <1>11, <1>12, <1>14, <1>15, <1>16 DEF Ordered

LEMMA ArrivesKeepsOrder ==
  ASSUME WireOK, NumbersOK, Ordered, Arrives, UNCHANGED <<pc, header, sent>>
  PROVE  Ordered'
<1> DEFINE k == Len(rx)
<1>1. /\ Len(line') = Len(line) - 1 /\ Len(line) \in Nat
      /\ \A i \in 1 .. Len(line') : i + 1 \in 1 .. Len(line) /\ line'[i] = line[i + 1]
      /\ Head(line) = line[1] /\ 1 \in 1 .. Len(line) /\ line[1] \in Pieces
      /\ UNCHANGED sensor
  BY DEF WireOK, Arrives
<1>2. CASE UNCHANGED rx
  <2>1. RxOrdered'
    BY <1>2 DEF Ordered, RxOrdered, Key
  <2>4. \A i, j \in 1 .. Len(line') : i < j => Key(line'[i]) < Key(line'[j])
    BY <1>1, SMTT(30) DEF Ordered, LineOrdered
  <2>5. \A i \in 1 .. Len(rx'), j \in 1 .. Len(line') : Key(rx'[i]) < Key(line'[j])
    BY <1>1, <1>2 DEF Ordered, LineOrdered
  <2>6. LineOrdered'
    BY <2>4, <2>5 DEF LineOrdered, Key
  <2>2. SensorOrdered' /\ Bounded'
    BY <1>1, <1>2 DEF Ordered, SensorOrdered, Bounded
  <2>3. HeaderFirst'
    BY <1>1, <1>2 DEF Ordered, HeaderFirst, Key
  <2> QED
    BY <2>1, <2>6, <2>2, <2>3 DEF Ordered
<1>3. ASSUME NEW sound \in {TRUE, FALSE}, rx' = Append(rx, [Head(line) EXCEPT !.sound = sound])
      PROVE  Ordered'
  <2> DEFINE p == [Head(line) EXCEPT !.sound = sound]
  <2>1. p \in Pieces /\ p.of = line[1].of /\ p.part = line[1].part
    BY <1>1 DEF Pieces
  <2> HIDE DEF p
  <2>2. Key(p) = Key(line[1])
    BY <2>1 DEF Key
  <2>3. /\ k \in Nat /\ Len(rx') = k + 1
        /\ \A i \in 1 .. k : rx'[i] = rx[i]
        /\ rx'[k + 1] = p
    BY <1>3 DEF WireOK, p
  <2> HIDE DEF k
  <2>4. \A i \in 1 .. Len(rx') : i \in 1 .. k \/ i = k + 1
    BY <2>3
  <2>5. RxOrdered'
    <3> SUFFICES ASSUME NEW i \in 1 .. Len(rx'), NEW j \in 1 .. Len(rx'), i < j
                 PROVE  Key(rx'[i]) < Key(rx'[j])
      BY DEF RxOrdered, Key
    <3>1. i \in 1 .. k
      BY <2>3
    <3>2. CASE j \in 1 .. k
      BY <2>3, <3>1, <3>2 DEF Ordered, RxOrdered, k
    <3>3. CASE j = k + 1
      BY <1>1, <2>2, <2>3, <3>1, <3>3 DEF Ordered, LineOrdered, k
    <3> QED
      BY <2>4, <3>2, <3>3
  <2>6. LineOrdered'
    <3>1. \A i, j \in 1 .. Len(line') : i < j => Key(line'[i]) < Key(line'[j])
      BY <1>1, SMTT(30) DEF Ordered, LineOrdered
    <3>2. \A i \in 1 .. k, j \in 1 .. Len(line') : Key(rx'[i]) < Key(line'[j])
      BY <1>1, <2>3 DEF Ordered, LineOrdered, k
    <3>3. \A j \in 1 .. Len(line') : Key(p) < Key(line'[j])
      BY <1>1, <2>2 DEF Ordered, LineOrdered
    <3> QED
      BY <2>3, <2>4, <3>1, <3>2, <3>3 DEF LineOrdered, Key
  <2>7. SensorOrdered' /\ Bounded'
    BY <1>1, <2>1, <2>3, <2>4 DEF Ordered, SensorOrdered, Bounded, k
  <2>8. HeaderFirst'
    <3> SUFFICES ASSUME NEW t \in Tasks, pc[t] = "rest"
                 PROVE  /\ header[t] <= sent
                        /\ \A i \in 1 .. Len(rx') : Key(rx'[i]) > 2 * header[t]
                        /\ \A i \in 1 .. Len(line') : Key(line'[i]) > 2 * header[t]
                        /\ \A i \in 1 .. Len(sensor') : sensor'[i] > header[t]
      BY DEF HeaderFirst, Key
    <3>1. /\ header[t] <= sent
          /\ \A i \in 1 .. k : Key(rx[i]) > 2 * header[t]
          /\ \A i \in 1 .. Len(line) : Key(line[i]) > 2 * header[t]
          /\ \A i \in 1 .. Len(sensor) : sensor[i] > header[t]
      BY DEF Ordered, HeaderFirst, k
    <3> QED
      BY <1>1, <2>2, <2>3, <2>4, <3>1
  <2> QED
    BY <2>5, <2>6, <2>7, <2>8 DEF Ordered
<1> QED
  BY <1>2, <1>3 DEF Arrives

-----------------------------------------------------------------------------
Typed == ContextTypeOK /\ Exclusive /\ NumbersOK /\ WireOK /\ BuffersOK

LEMMA OrderStep ==
  ASSUME Typed, Ordered, [Next]_vars
  PROVE  Ordered'
<1> USE DEF Typed
<1>0. ASSUME UNCHANGED <<rx, line, sensor, sent, header>>,
             \A t \in Tasks : pc'[t] = "rest" => pc[t] = "rest"
      PROVE  Ordered'
  BY <1>0 DEF Ordered, RxOrdered, LineOrdered, SensorOrdered, Bounded, HeaderFirst, Key
<1>1. ASSUME NEW t \in Tasks, Begin(t) \/ FirstUse(t) \/ Lock(t)
      PROVE  Ordered'
  BY <1>0, <1>1 DEF Begin, FirstUse, Install, InitFails, Configure, Create, PowerOn, Lock,
     Goto, later, wire, ContextTypeOK
<1>2. ASSUME NEW t \in Tasks, Send(t)
      PROVE  Ordered'
  <2>1. \A u \in Tasks : pc'[u] # "rest"
    BY <1>2, NoneAssumption DEF Send, Sends, Goto, Exclusive, Inside, ContextTypeOK
  <2> QED
    BY <1>2, <2>1, FlushKeepsOrder DEF Send, Sends
<1>3. ASSUME NEW t \in Tasks, SendFails(t)
      PROVE  Ordered'
  <2>1. \A u \in Tasks : pc'[u] # "rest"
    BY <1>3, NoneAssumption DEF SendFails, Return, Goto, Exclusive, Inside, ContextTypeOK
  <2> QED
    BY <1>3, <2>1, FlushKeepsOrder DEF SendFails
<1>4. ASSUME NEW t \in Tasks, ReadHeader(t)
      PROVE  Ordered'
  <2>1. ASSUME NEW u \in Tasks, pc'[u] = "rest"
        PROVE  header'[u] = Head(rx).of /\ Head(rx).part = "header"
    BY <1>4, <2>1 DEF ReadHeader, Return, Goto, Exclusive, Inside, ContextTypeOK, NumbersOK
  <2> QED
    BY <1>4, <2>1, ReadKeepsOrder DEF ReadHeader
<1>5. ASSUME NEW t \in Tasks, ReadRest(t)
      PROVE  Ordered'
  <2>1. \A u \in Tasks : pc'[u] # "rest"
    BY <1>5 DEF ReadRest, Return, Goto, Exclusive, Inside, ContextTypeOK
  <2> QED
    BY <1>5, <2>1, ReadKeepsOrder DEF ReadRest
<1>6. ASSUME NEW t \in Tasks, TimesOut(t)
      PROVE  Ordered'
  <2>1. \A u \in Tasks : pc'[u] # "rest"
    BY <1>6 DEF TimesOut, Return, Goto, Exclusive, Inside, ContextTypeOK
  <2> QED
    BY <1>6, <2>1 DEF TimesOut, wire, Ordered, RxOrdered, LineOrdered, SensorOrdered, Bounded,
       HeaderFirst, Key
<1>7. CASE Environment
  BY <1>7, AnswersKeepOrder, ArrivesKeepsOrder DEF Environment
<1>8. CASE UNCHANGED exchange
  BY <1>0, <1>8 DEF exchange, wire
<1> QED
  BY <1>1, <1>2, <1>3, <1>4, <1>5, <1>6, <1>7, <1>8 DEF Next, Execute, Overrun, vars

-----------------------------------------------------------------------------
\* A command that found nothing on its way: all there is belongs to it.
Own ==
    \A t \in Tasks : pc[t] \in {"header", "rest"} =>
        /\ cmd[t] = sent
        /\ quiet => /\ \A i \in 1 .. Len(sensor) : sensor[i] = sent
                    /\ \A i \in 1 .. Len(line) : line[i].of = sent
                    /\ \A i \in 1 .. Len(rx) : rx[i].of = sent
                    /\ pc[t] = "rest" => header[t] = sent

LEMMA OwnStep ==
  ASSUME Typed, Own, [Next]_vars
  PROVE  Own'
<1> USE DEF Typed
<1>0. ASSUME UNCHANGED <<rx, line, sensor, sent, header, cmd, quiet>>,
             \A t \in Tasks : pc'[t] \in {"header", "rest"} => pc'[t] = pc[t]
      PROVE  Own'
  BY <1>0 DEF Own
<1>1. ASSUME NEW t \in Tasks, Begin(t) \/ FirstUse(t) \/ Lock(t)
      PROVE  Own'
  BY <1>0, <1>1 DEF Begin, FirstUse, Install, InitFails, Configure, Create, PowerOn, Lock,
     Goto, later, wire, ContextTypeOK
<1>2. ASSUME NEW t \in Tasks, Send(t)
      PROVE  Own'
  <2>1. \A u \in Tasks : pc'[u] \in {"header", "rest"} => u = t /\ pc'[u] = "header"
    BY <1>2, NoneAssumption DEF Send, Sends, Goto, Exclusive, Inside, ContextTypeOK
  <2>2. cmd'[t] = sent' /\ rx' = <<>>
    BY <1>2 DEF Send, Sends, NumbersOK
  <2>3. ASSUME quiet'
        PROVE  line' = <<>> /\ (sensor' = <<>> \/ sensor' = <<sent'>>)
    <3>1. sensor = <<>> /\ line = <<>>
      BY <1>2, <2>3 DEF Send, Sends
    <3>2. sensor' = <<>> \/ sensor' = Append(<<>>, sent + 1)
      BY <1>2, <3>1 DEF Send, Sends
    <3>3. sent' = sent + 1 /\ UNCHANGED line
      BY <1>2 DEF Send, Sends
    <3> QED
      BY <3>1, <3>2, <3>3
  <2> QED
    BY <2>1, <2>2, <2>3 DEF Own
<1>3. ASSUME NEW t \in Tasks, NEW step \in Inside, Return(t, step)
      PROVE  Own'
  <2>1. \A u \in Tasks : pc'[u] \notin {"header", "rest"}
    BY <1>3 DEF Return, Goto, Exclusive, Inside, ContextTypeOK
  <2> QED
    BY <2>1 DEF Own
<1>4. ASSUME NEW t \in Tasks, ReadHeader(t)
      PROVE  Own'
  <2>1. CASE Return(t, "header")
    BY <1>3, <2>1 DEF Inside
  <2>2. CASE /\ Goto(t, "header", "rest")
             /\ header' = [header EXCEPT ![t] = Head(rx).of] /\ UNCHANGED <<holder, cmd>>
    <3>1. \A u \in Tasks : pc'[u] \in {"header", "rest"} => u = t /\ pc'[u] = "rest"
      BY <2>2 DEF Goto, Exclusive, Inside, ContextTypeOK
    <3>2. pc[t] = "header" /\ header'[t] = rx[1].of /\ 1 \in 1 .. Len(rx)
      BY <1>4, <2>2 DEF ReadHeader, Goto, NumbersOK, WireOK
    <3>3. \A i \in 1 .. Len(rx') : i + 1 \in 1 .. Len(rx) /\ rx'[i] = rx[i + 1]
      BY <1>4 DEF ReadHeader, WireOK
    <3>4. UNCHANGED <<sensor, line, sent, quiet, cmd>>
      BY <1>4, <2>2 DEF ReadHeader
    <3> QED
      BY <3>1, <3>2, <3>3, <3>4 DEF Own
  <2> QED
    BY <1>4, <2>1, <2>2 DEF ReadHeader
<1>5. ASSUME NEW t \in Tasks, SendFails(t) \/ ReadRest(t) \/ TimesOut(t)
      PROVE  Own'
  BY <1>3, <1>5 DEF SendFails, ReadRest, TimesOut, Inside
<1>6. CASE Environment /\ Answers
  <2> DEFINE n == Head(sensor)
  <2>1. n = sensor[1] /\ 1 \in 1 .. Len(sensor) /\ n \in Numbers
    BY <1>6 DEF Answers, WireOK
  <2>2. \A i \in 1 .. Len(sensor') : i + 1 \in 1 .. Len(sensor) /\ sensor'[i] = sensor[i + 1]
    BY <1>6 DEF Answers, WireOK
  <2>3. \A i \in 1 .. Len(line') : line'[i].of = n \/ (i \in 1 .. Len(line) /\ line'[i] = line[i])
    <3> DEFINE h == [part |-> "header", of |-> n, sound |-> TRUE]
               r == [part |-> "rest", of |-> n, sound |-> TRUE]
    <3>1. h \in Pieces /\ r \in Pieces /\ h.of = n /\ r.of = n
      BY <2>1 DEF Pieces
    <3>2. line' = line \o <<h, r>>
      BY <1>6 DEF Answers
    <3> HIDE DEF h, r, n
    <3> QED
      BY <3>1, <3>2 DEF WireOK
  <2>4. UNCHANGED <<rx, pc, cmd, header, sent, quiet>>
    BY <1>6 DEF Environment, Answers
  <2> HIDE DEF n
  <2> QED
    BY <2>1, <2>2, <2>3, <2>4, SMTT(30) DEF Own
<1>7. CASE Environment /\ Arrives
  <2>1. /\ Head(line) = line[1] /\ 1 \in 1 .. Len(line) /\ line[1] \in Pieces
        /\ \A i \in 1 .. Len(line') : i + 1 \in 1 .. Len(line) /\ line'[i] = line[i + 1]
    BY <1>7 DEF Arrives, WireOK
  <2>2. \A i \in 1 .. Len(rx') : rx'[i].of = line[1].of
                                    \/ (i \in 1 .. Len(rx) /\ rx'[i] = rx[i])
    <3>1. CASE UNCHANGED rx
      BY <3>1
    <3>2. ASSUME NEW sound \in {TRUE, FALSE},
                 rx' = Append(rx, [Head(line) EXCEPT !.sound = sound])
          PROVE  \A i \in 1 .. Len(rx') : rx'[i].of = line[1].of
                                             \/ (i \in 1 .. Len(rx) /\ rx'[i] = rx[i])
      <4> DEFINE q == [Head(line) EXCEPT !.sound = sound]
      <4>1. q \in Pieces /\ q.of = line[1].of
        BY <2>1 DEF Pieces
      <4>2. rx' = Append(rx, q)
        BY <3>2
      <4> HIDE DEF q
      <4> QED
        BY <4>1, <4>2 DEF WireOK
    <3> QED
      BY <1>7, <3>1, <3>2 DEF Arrives
  <2>3. UNCHANGED <<sensor, pc, cmd, header, sent, quiet>>
    BY <1>7 DEF Environment, Arrives
  <2> QED
    BY <2>1, <2>2, <2>3 DEF Own
<1>8. CASE UNCHANGED exchange
  BY <1>0, <1>8 DEF exchange, wire
<1> QED
  BY <1>1, <1>2, <1>4, <1>5, <1>6, <1>7, <1>8 DEF Next, Execute, Environment, Overrun, vars

\* A command that found nothing on its way is given no page but its own, so an
\* overrun needs a late answer; nothing is said of what comes after one.
LEMMA OverrunStep ==
  ASSUME Typed, Own, OverrunOnlyByLate, [Next]_vars
  PROVE  OverrunOnlyByLate'
<1> USE DEF OverrunOnlyByLate
<1>1. ASSUME NEW t \in Tasks, Overrun(t)
      PROVE  ~quiet'
  <2>1. pc[t] = "rest" /\ header[t] \in tables /\ cmd[t] \notin tables
    BY <1>1 DEF Overrun, TooLong
  <2>2. cmd[t] = sent /\ (quiet => header[t] = sent)
    BY <2>1 DEF Own
  <2> QED
    BY <1>1, <2>1, <2>2 DEF Overrun, exchange
<1>2. ASSUME NEW t \in Tasks, Begin(t) \/ FirstUse(t) \/ Execute(t)
      PROVE  UNCHANGED overrun
  BY <1>2 DEF Begin, FirstUse, Install, InitFails, Configure, Create, PowerOn, later, buffers,
     Execute, Lock, Send, Sends, SendFails, ReadHeader, ReadRest, TimesOut
<1>3. CASE Next
  <2>1. ~overrun /\ (Environment => UNCHANGED overrun)
    BY <1>3 DEF Next, Environment, buffers
  <2> QED
    BY <1>1, <1>2, <1>3, <2>1 DEF Next
<1>4. CASE UNCHANGED vars
  BY <1>4 DEF vars, exchange, buffers
<1> QED
  BY <1>3, <1>4
-----------------------------------------------------------------------------
Inv == Typed /\ Context /\ Ordered /\ Own /\ OverrunOnlyByLate

LEMMA InitInv == Init => Inv
<1> SUFFICES ASSUME Init PROVE Inv
  OBVIOUS
<1> USE NoneAssumption, MaxAssumption DEF Init
<1>1. ContextTypeOK /\ Context
  BY DEF ContextTypeOK, Context, ContextSound, Places
<1>2. Exclusive /\ NumbersOK
  BY DEF Exclusive, Inside, NumbersOK, Numbers
<1>3. WireOK
  BY NoPieces DEF WireOK
<1>4. Ordered
  BY DEF Ordered, RxOrdered, LineOrdered, SensorOrdered, Bounded, HeaderFirst
<1>5. Own
  BY DEF Own
<1>6. BuffersOK /\ OverrunOnlyByLate
  BY DEF BuffersOK, OverrunOnlyByLate
<1> QED
  BY <1>1, <1>2, <1>3, <1>4, <1>5, <1>6 DEF Inv, Typed

LEMMA NextInv == Inv /\ [Next]_vars => Inv'
  BY ContextStep, ExclusiveStep, WireStep, BuffersStep, OrderStep, OwnStep, OverrunStep
     DEF Inv, Typed

LEMMA InvHolds == Spec => []Inv
  BY InitInv, NextInv, PTL DEF Spec

\* The types, and the mutex: the task in as608_exec_ack holds it.
THEOREM LinkTypeOK == Spec => []TypeOK
<1>1. Inv => TypeOK
  BY TypeOKParts DEF Inv, Typed
<1> QED
  BY <1>1, InvHolds, PTL

\* ensure_ctx from any number of tasks at once: uart_driver_install lets one of
\* them through, so nobody clears the context of another, and a failure leaves
\* nothing behind on which the next attempt would fail.
THEOREM ContextStaysSound == Spec => []ContextSound
<1>1. Inv => ContextSound
  BY DEF Inv, Context
<1> QED
  BY <1>1, InvHolds, PTL

LEMMA OwnAnswerStep ==
  ASSUME Inv, Next, NEW t \in Tasks, pc[t] = "rest", taken' # taken, quiet
  PROVE  taken' = cmd[t]
<1>1. PICK u \in Tasks : ReadRest(u)
  BY DEF Next, Environment, Begin, FirstUse, Install, InitFails, Configure, Create, PowerOn,
     later, Execute, Lock, Send, SendFails, ReadHeader, TimesOut, Overrun, exchange
<1>2. u = t
  BY <1>1 DEF ReadRest, Return, Goto, Inv, Typed, Exclusive, Inside
<1>3. taken' = header[t]
  BY <1>1, <1>2 DEF ReadRest, Acceptable, Sound
<1> QED
  BY <1>3 DEF Inv, Own

\* The length of an answer is compared with the buffer's after the copy, yet a
\* command that found the sensor idle is given no answer that overruns it.
THEOREM OverrunsAreLateAnswers == Spec => []OverrunOnlyByLate
<1>1. Inv => OverrunOnlyByLate
  BY DEF Inv
<1> QED
  BY <1>1, InvHolds, PTL

\* as608_exec_ack gives a command its own answer, whatever is lost or damaged,
\* unless an earlier command's answer was still to come when it was sent: the
\* flush removes only what has arrived.
THEOREM AnswersAreOwn == Spec => OwnAnswer
<1>1. Inv /\ [Next]_vars =>
        [\A t \in Tasks : pc[t] = "rest" /\ taken' # taken /\ quiet => taken' = cmd[t]]_vars
  BY OwnAnswerStep
<1> QED
  BY <1>1, InvHolds, PTL DEF Spec, OwnAnswer
-----------------------------------------------------------------------------
\* The driver implements SensorLink.

LEMMA CallerIs == /\ CallerOf({}) = None
                  /\ \A t \in Tasks : CallerOf({t}) = t
  BY DEF CallerOf

\* Who waits, before and after.
LEMMA OneWaits ==
  ASSUME Typed, NEW t \in Tasks, pc[t] \in Inside
  PROVE  /\ pc[t] = "send" => Waiting = {}
         /\ pc[t] # "send" => Waiting = {t}
         /\ \A u \in Tasks : u # t => pc[u] \notin Inside
  BY DEF Typed, Exclusive, Inside, Waiting

LEMMA InUnanswered ==
  ASSUME WireOK
  PROVE  \A n : n \in Unanswered <=>
           \/ \E i \in 1 .. Len(sensor) : sensor[i] = n
           \/ \E i \in 1 .. Len(line) : line[i].of = n
           \/ \E i \in 1 .. Len(rx) : rx[i].of = n
           \/ \E t \in Tasks : pc[t] = "rest" /\ header[t] = n
<1>1. DOMAIN sensor = 1 .. Len(sensor) /\ DOMAIN line = 1 .. Len(line) /\ DOMAIN rx = 1 .. Len(rx)
  BY DEF WireOK
<1> QED
  BY <1>1 DEF Unanswered, ToSet

LEMMA InUnansweredNext ==
  ASSUME WireOK'
  PROVE  \A n : n \in Unanswered' <=>
           \/ \E i \in 1 .. Len(sensor') : sensor'[i] = n
           \/ \E i \in 1 .. Len(line') : line'[i].of = n
           \/ \E i \in 1 .. Len(rx') : rx'[i].of = n
           \/ \E t \in Tasks : pc'[t] = "rest" /\ header'[t] = n
<1>1. /\ DOMAIN sensor' = 1 .. Len(sensor') /\ DOMAIN line' = 1 .. Len(line')
      /\ DOMAIN rx' = 1 .. Len(rx')
  BY DEF WireOK
<1> QED
  BY <1>1 DEF Unanswered, ToSet

\* A step that brings no new answer.
LEMMA NoNewAnswer ==
  ASSUME WireOK, WireOK',
         \A i \in 1 .. Len(sensor') : \E j \in 1 .. Len(sensor) : sensor'[i] = sensor[j],
         \A i \in 1 .. Len(line') : \/ \E j \in 1 .. Len(line) : line'[i].of = line[j].of
                                    \/ \E j \in 1 .. Len(sensor) : line'[i].of = sensor[j],
         \A i \in 1 .. Len(rx') : \/ \E j \in 1 .. Len(rx) : rx'[i].of = rx[j].of
                                  \/ \E j \in 1 .. Len(line) : rx'[i].of = line[j].of,
         \A t \in Tasks : pc'[t] = "rest" =>
             \/ pc[t] = "rest" /\ header'[t] = header[t]
             \/ \E j \in 1 .. Len(rx) : header'[t] = rx[j].of
  PROVE  Unanswered' \subseteq Unanswered
<1> SUFFICES ASSUME NEW n \in Unanswered' PROVE n \in Unanswered
  OBVIOUS
<1>1. ASSUME NEW i \in 1 .. Len(sensor'), sensor'[i] = n
      PROVE  n \in Unanswered
  BY <1>1, InUnanswered
<1>2. ASSUME NEW i \in 1 .. Len(line'), line'[i].of = n
      PROVE  n \in Unanswered
  BY <1>2, InUnanswered
<1>3. ASSUME NEW i \in 1 .. Len(rx'), rx'[i].of = n
      PROVE  n \in Unanswered
  BY <1>3, InUnanswered
<1>4. ASSUME NEW t \in Tasks, pc'[t] = "rest", header'[t] = n
      PROVE  n \in Unanswered
  BY <1>4, InUnanswered
<1> QED
  BY <1>1, <1>2, <1>3, <1>4, InUnansweredNext

LEMMA LinkInit == Init => Link!Init
<1> SUFFICES ASSUME Init PROVE Link!Init
  OBVIOUS
<1>1. Waiting = {}
  BY DEF Init, Waiting
<1>2. Unanswered = {}
  BY InitInv, InUnanswered DEF Init, Inv, Typed
<1> QED
  BY <1>1, <1>2, CallerIs DEF Init, Link!Init, Owed

LEMMA TailOf ==
  ASSUME NEW S, NEW s \in Seq(S), s # <<>>
  PROVE  /\ Head(s) = s[1] /\ 1 \in 1 .. Len(s)
         /\ \A i \in 1 .. Len(Tail(s)) : i + 1 \in 1 .. Len(s) /\ Tail(s)[i] = s[i + 1]
  OBVIOUS

\* The command of t has its status, and no answer was accepted.
LEMMA ReturnIsFail ==
  ASSUME Inv, WireOK', NEW t \in Tasks, NEW step \in {"header", "rest"}, Return(t, step),
         UNCHANGED <<sensor, line, sent, taken>>, rx' = rx \/ (rx # <<>> /\ rx' = Tail(rx))
  PROVE  Link!Fail(t)
<1> USE DEF Inv, Typed
<1>1. Waiting = {t}
  BY OneWaits DEF Return, Goto, Inside
<1>2. \A u \in Tasks : pc'[u] \notin {"header", "rest"}
  BY OneWaits DEF Return, Goto, Inside, ContextTypeOK
<1>3. Waiting' = {}
  BY <1>2 DEF Waiting
<1>4. Unanswered' \subseteq Unanswered
  <2>1. \A i \in 1 .. Len(rx') : \E j \in 1 .. Len(rx) : rx'[i].of = rx[j].of
    <3>1. CASE rx' = rx
      BY <3>1
    <3>2. CASE rx # <<>> /\ rx' = Tail(rx)
      <4>1. \A i \in 1 .. Len(rx') : i + 1 \in 1 .. Len(rx) /\ rx'[i] = rx[i + 1]
        BY <3>2, TailOf DEF WireOK
      <4> QED
        BY <4>1
    <3> QED
      BY <3>1, <3>2
  <2> QED
    BY <1>2, <2>1, NoNewAnswer
<1> QED
  BY <1>1, <1>3, <1>4, CallerIs DEF Link!Fail, Owed

LEMMA AcceptIsAccept ==
  ASSUME Inv, WireOK', NEW t \in Tasks, ReadRest(t), taken' = header[t],
         Head(rx) = [part |-> "rest", of |-> header[t], sound |-> TRUE]
  PROVE  Link!Accept(t)
<1> USE DEF Inv, Typed
<1> DEFINE h == header[t]
<1>1. Waiting = {t} /\ pc[t] = "rest" /\ rx # <<>> /\ rx' = Tail(rx)
  BY OneWaits DEF ReadRest, Return, Goto, Inside
<1>2. \A u \in Tasks : pc'[u] \notin {"header", "rest"}
  BY OneWaits DEF ReadRest, Return, Goto, Inside, ContextTypeOK
<1>3. Waiting' = {}
  BY <1>2 DEF Waiting
<1>4. UNCHANGED <<sensor, line, sent>>
  BY DEF ReadRest
<1>5. /\ Head(rx) = rx[1] /\ 1 \in 1 .. Len(rx)
      /\ \A i \in 1 .. Len(rx') : i + 1 \in 1 .. Len(rx) /\ rx'[i] = rx[i + 1]
  BY <1>1, TailOf DEF WireOK
<1>6. Unanswered' \subseteq Unanswered
  BY <1>2, <1>4, <1>5, NoNewAnswer
<1>7. h \in Unanswered
  BY <1>1, InUnanswered
<1>8. rx[1] \in Pieces /\ h \in Nat /\ Key(rx[1]) = 2 * h + 1 /\ rx[1].of = h
  <2>1. rx[1] \in Pieces
    BY <1>5 DEF WireOK
  <2>2. rx[1].part = "rest" /\ rx[1].of = h
    BY <1>5
  <2> QED
    BY <2>1, <2>2, KeyOf
<1>9. ASSUME NEW p \in Pieces, Key(rx[1]) < Key(p)
      PROVE  p.of > h
  BY <1>8, <1>9, KeyOf
<1>10. \A n \in Unanswered' : n > h
  <2>1. ASSUME NEW i \in 1 .. Len(rx') PROVE rx'[i].of > h
    <3>1. i + 1 \in 1 .. Len(rx) /\ 1 < i + 1 /\ rx'[i] = rx[i + 1]
      BY <1>5
    <3>2. rx[i + 1] \in Pieces
      BY <3>1 DEF WireOK
    <3>3. Key(rx[1]) < Key(rx[i + 1])
      BY <1>5, <3>1 DEF Ordered, RxOrdered
    <3> QED
      BY <1>9, <3>1, <3>2, <3>3
  <2>2. ASSUME NEW i \in 1 .. Len(line) PROVE line[i].of > h
    <3>1. line[i] \in Pieces /\ Key(rx[1]) < Key(line[i])
      BY <1>5 DEF WireOK, Ordered, LineOrdered
    <3> QED
      BY <1>9, <3>1
  <2>3. ASSUME NEW i \in 1 .. Len(sensor) PROVE sensor[i] > h
    BY <1>1 DEF Ordered, HeaderFirst
  <2> QED
    BY <1>2, <1>4, <2>1, <2>2, <2>3, InUnansweredNext
<1> HIDE DEF h
<1>11. taken' = h
  BY DEF h
<1> QED
  BY <1>1, <1>3, <1>4, <1>6, <1>7, <1>10, <1>11, CallerIs DEF Link!Accept, Owed

\* A step after which the same tasks wait, and no answer is new.
LEMMA QuietIsForget ==
  ASSUME Waiting' = Waiting, Unanswered' \subseteq Unanswered, UNCHANGED <<sent, taken>>
  PROVE  Link!Forget
  BY DEF Link!Forget, Owed

LEMMA LinkStep ==
  ASSUME Inv, Inv', [Next]_vars
  PROVE  [Link!Next]_(Link!vars)
<1> USE DEF Inv, Typed
<1>1. ASSUME NEW t \in Tasks, Begin(t) \/ FirstUse(t) \/ Lock(t)
      PROVE  Link!Forget
  <2>1. \A u \in Tasks : pc'[u] \in {"header", "rest"} \/ pc[u] \in {"header", "rest"}
                            => pc'[u] = pc[u]
    BY <1>1 DEF Begin, FirstUse, Install, InitFails, Configure, Create, PowerOn, Lock,
       Goto, ContextTypeOK
  <2>2. UNCHANGED <<sensor, line, rx, header, sent, taken>>
    BY <1>1 DEF Begin, FirstUse, Install, InitFails, Configure, Create, PowerOn, Lock,
       later, wire
  <2>3. Unanswered' \subseteq Unanswered
    BY <2>1, <2>2, NoNewAnswer
  <2>4. Waiting' = Waiting
    BY <2>1 DEF Waiting
  <2> QED
    BY <2>2, <2>3, <2>4, QuietIsForget
<1>2. ASSUME NEW t \in Tasks, Send(t)
      PROVE  Link!Send(t)
  <2>1. Waiting = {} /\ \A u \in Tasks : pc[u] \notin {"header", "rest"}
    BY <1>2, OneWaits DEF Send, Sends, Goto, Inside
  <2>2. \A u \in Tasks : pc'[u] = IF u = t THEN "header" ELSE pc[u]
    BY <1>2 DEF Send, Sends, Goto, ContextTypeOK
  <2>3. Waiting' = {t}
    BY <2>1, <2>2 DEF Waiting
  <2>4. sent' = sent + 1 /\ rx' = <<>> /\ UNCHANGED <<line, taken>>
    BY <1>2 DEF Send, Sends
  <2>5. \A i \in 1 .. Len(sensor') : sensor'[i] = sent'
                                        \/ \E j \in 1 .. Len(sensor) : sensor'[i] = sensor[j]
    <3>1. sensor' = sensor \/ sensor' = Append(sensor, sent + 1)
      BY <1>2 DEF Send, Sends
    <3>2. sent + 1 \in Numbers
      BY <2>4 DEF NumbersOK
    <3> QED
      BY <2>4, <3>1, <3>2 DEF WireOK
  <2>6. Unanswered' \ {sent'} \subseteq Unanswered
    BY <2>1, <2>2, <2>4, <2>5, InUnanswered, InUnansweredNext
  <2> QED
    BY <2>1, <2>3, <2>4, <2>6, CallerIs DEF Link!Send, Owed
<1>3. ASSUME NEW t \in Tasks, SendFails(t)
      PROVE  Link!Forget
  <2>1. \A u \in Tasks : pc[u] \notin {"header", "rest"} /\ pc'[u] \notin {"header", "rest"}
    BY <1>3, OneWaits DEF SendFails, Return, Goto, Inside, ContextTypeOK
  <2>2. rx' = <<>> /\ UNCHANGED <<sensor, line, sent, taken>>
    BY <1>3 DEF SendFails
  <2>3. Unanswered' \subseteq Unanswered
    BY <2>1, <2>2, NoNewAnswer
  <2>4. Waiting' = Waiting
    BY <2>1 DEF Waiting
  <2> QED
    BY <2>2, <2>3, <2>4, QuietIsForget
<1>4. ASSUME NEW t \in Tasks, ReadHeader(t)
      PROVE  Link!Forget \/ Link!Fail(t)
  <2>1. rx # <<>> /\ rx' = Tail(rx) /\ UNCHANGED <<sensor, line, sent, taken>>
    BY <1>4 DEF ReadHeader
  <2>2. CASE Return(t, "header")
    BY <2>1, <2>2, ReturnIsFail
  <2>3. CASE Goto(t, "header", "rest") /\ header' = [header EXCEPT ![t] = Head(rx).of]
    <3>1. \A u \in Tasks : pc'[u] = "rest" => u = t
      BY <2>3, OneWaits DEF Goto, Inside, ContextTypeOK
    <3>2. /\ Head(rx) = rx[1] /\ 1 \in 1 .. Len(rx)
          /\ \A i \in 1 .. Len(rx') : i + 1 \in 1 .. Len(rx) /\ rx'[i] = rx[i + 1]
      BY <2>1, TailOf DEF WireOK
    <3>3. header'[t] = rx[1].of
      BY <2>3, <3>2 DEF NumbersOK
    <3>4. Unanswered' \subseteq Unanswered
      BY <2>1, <3>1, <3>2, <3>3, NoNewAnswer
    <3>5. Waiting' = Waiting
      BY <2>3 DEF Waiting, Goto, ContextTypeOK
    <3> QED
      BY <2>1, <3>4, <3>5, QuietIsForget
  <2> QED
    BY <1>4, <2>2, <2>3 DEF ReadHeader
<1>5. ASSUME NEW t \in Tasks, ReadRest(t)
      PROVE  Link!Accept(t) \/ Link!Fail(t)
  <2>1. CASE taken' = taken
    <3>1. Return(t, "rest") /\ rx # <<>> /\ rx' = Tail(rx) /\ UNCHANGED <<sensor, line, sent>>
      BY <1>5 DEF ReadRest
    <3> QED
      BY <2>1, <3>1, ReturnIsFail
  <2>2. CASE taken' # taken
    BY <1>5, <2>2, AcceptIsAccept DEF ReadRest, Acceptable, Sound
  <2> QED
    BY <2>1, <2>2
<1>6. ASSUME NEW t \in Tasks, TimesOut(t)
      PROVE  Link!Fail(t)
  BY <1>6, ReturnIsFail DEF TimesOut, wire
<1>7. CASE Environment
  <2>1. UNCHANGED <<pc, header, sent, taken>>
    BY <1>7 DEF Environment
  <2>0. Waiting' = Waiting
    BY <2>1 DEF Waiting
  <2>2. CASE Answers
    <3>1. /\ Head(sensor) = sensor[1] /\ 1 \in 1 .. Len(sensor)
          /\ \A i \in 1 .. Len(sensor') : i + 1 \in 1 .. Len(sensor) /\ sensor'[i] = sensor[i + 1]
      BY <2>2, TailOf DEF Answers, WireOK
    <3>2. \A i \in 1 .. Len(line') : line'[i].of = sensor[1]
                                        \/ (i \in 1 .. Len(line) /\ line'[i] = line[i])
      <4> DEFINE a == [part |-> "header", of |-> sensor[1], sound |-> TRUE]
                 b == [part |-> "rest", of |-> sensor[1], sound |-> TRUE]
      <4>1. a \in Pieces /\ b \in Pieces /\ a.of = sensor[1] /\ b.of = sensor[1]
        BY <3>1 DEF Pieces, WireOK
      <4>2. line' = line \o <<a, b>>
        BY <2>2, <3>1 DEF Answers
      <4> HIDE DEF a, b
      <4> QED
        BY <4>1, <4>2, SMTT(30) DEF WireOK
    <3>3. UNCHANGED rx
      BY <2>2 DEF Answers
    <3>4. Unanswered' \subseteq Unanswered
      BY <2>1, <3>1, <3>2, <3>3, NoNewAnswer
    <3> QED
      BY <2>0, <2>1, <3>4, QuietIsForget DEF Link!Next
  <2>3. CASE Arrives
    <3>0. line[1] \in Pieces
      BY <2>3, TailOf DEF Arrives, WireOK
    <3>1. /\ Head(line) = line[1] /\ 1 \in 1 .. Len(line) /\ UNCHANGED sensor
          /\ \A i \in 1 .. Len(line') : i + 1 \in 1 .. Len(line) /\ line'[i] = line[i + 1]
      BY <2>3, TailOf DEF Arrives, WireOK
    <3>2. \A i \in 1 .. Len(rx') : rx'[i].of = line[1].of
                                      \/ (i \in 1 .. Len(rx) /\ rx'[i] = rx[i])
      <4>1. CASE UNCHANGED rx
        BY <4>1
      <4>2. ASSUME NEW sound \in {TRUE, FALSE},
                   rx' = Append(rx, [Head(line) EXCEPT !.sound = sound])
            PROVE  \A i \in 1 .. Len(rx') : rx'[i].of = line[1].of
                                               \/ (i \in 1 .. Len(rx) /\ rx'[i] = rx[i])
        <5> DEFINE q == [Head(line) EXCEPT !.sound = sound]
        <5>1. q \in Pieces /\ q.of = line[1].of
          BY <3>1, <3>0 DEF Pieces
        <5>2. rx' = Append(rx, q)
          BY <4>2
        <5> HIDE DEF q
        <5> QED
          BY <5>1, <5>2 DEF WireOK
      <4> QED
        BY <2>3, <4>1, <4>2 DEF Arrives
    <3>3. Unanswered' \subseteq Unanswered
      BY <2>1, <3>1, <3>2, NoNewAnswer
    <3> QED
      BY <2>0, <2>1, <3>3, QuietIsForget DEF Link!Next
  <2> QED
    BY <1>7, <2>2, <2>3 DEF Environment
<1>8. CASE UNCHANGED exchange
  <2>1. UNCHANGED <<Waiting, Unanswered, sent, taken>>
    BY <1>8 DEF exchange, wire, Waiting, Unanswered
  <2> QED
    BY <2>1, QuietIsForget DEF Link!Next
<1> QED
  BY <1>1, <1>2, <1>3, <1>4, <1>5, <1>6, <1>7, <1>8
     DEF Next, Execute, Overrun, vars, Link!Next

\* as608_lock and as608_exec_ack, over a line that loses and damages and a
\* sensor that answers late, give their callers what SensorLink promises: one
\* command at a time, and no answer twice or after that of a later command.
\* A late page of the index table may overrun a buffer (OverrunsAreLateAnswers);
\* the theorem is about what comes before.
THEOREM LinkIsImplemented == Spec => RefinesSensorLink
<1>1. Init => Link!Init
  BY LinkInit
<1>2. Inv /\ Inv' /\ [Next]_vars => [Link!Next]_(Link!vars)
  BY LinkStep
<1> QED
  BY <1>1, <1>2, InvHolds, PTL DEF Spec, RefinesSensorLink, Link!Spec
=============================================================================

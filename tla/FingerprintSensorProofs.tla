----------------------- MODULE FingerprintSensorProofs -----------------------
(***************************************************************************)
(* The theorems of FingerprintSensor, for sessions that overlap in any     *)
(* way.  Armed are the types with what a store and a deletion rely on: a   *)
(* session that is about to store finds a character file in buffer 1,      *)
(* whoever put it there, and a deletion names an id.  On it rest           *)
(* RosterAccurate and DeletesOnlyNamed, for ids of any size, and what each *)
(* kind of session is promised whatever the others do: Reserved for the    *)
(* slot of an enrolment, Captured for presses, Reading for listings.       *)
(***************************************************************************)
EXTENDS FingerprintSensor, FiniteSetTheorems, TLAPS

\* What a task keeps for its session.
LocalsOK ==
    /\ pc \in [Tasks -> Steps] /\ slot \in [Tasks -> Slots]
    /\ page \in [Tasks -> Nat] /\ id \in [Tasks -> Nat]
    /\ found \in [Tasks -> SUBSET Slots] /\ listed \in [Tasks -> SUBSET Slots]
    /\ pressed \in [Tasks -> Seq(Fingers)]

\* What the sensor holds, and what is known of it.
SensorOK ==
    /\ finger \in Images /\ image \in Images
    /\ chars \in [{1, 2} -> Images] /\ library \in [Slots -> Images]
    /\ roster \subseteq {s + 1 : s \in Slots} /\ doubtful \subseteq Slots

Prepared ==
    \A t \in Tasks : /\ pc[t] = "store" => chars[1] # None
                     /\ pc[t] = "delete" => id[t] \in Ids \ {0}

Armed == LocalsOK /\ SensorOK /\ Prepared

WatchOK ==
    /\ disturbed \subseteq Tasks /\ taken \subseteq Tasks
    /\ kept \in [Tasks -> SUBSET Slots] /\ seen \in [Tasks -> SUBSET Slots]

\* An id up to IdModulus is that of the slot below it.
LEMMA SlotOfSmall ==
  ASSUME NEW i \in Nat \ {0}, i <= IdModulus
  PROVE  SlotOf(i) = i - 1
  BY SizeAssumption DEF SlotOf

\* A session that returns leaves its task at rest.
LEMMA ReturnRests ==
  ASSUME LocalsOK, Prepared, NEW t \in Tasks, NEW v \in Nat, Return(t, v),
         chars' = chars
  PROVE  LocalsOK' /\ Prepared'
<1>1. LocalsOK'
  BY SizeAssumption DEF LocalsOK, Return, Steps, Slots
<1>2. Prepared'
  BY DEF LocalsOK, Prepared, Return
<1> QED
  BY <1>1, <1>2

\* The first state is armed.
LEMMA InitArmed == Init => Armed
<1> SUFFICES ASSUME Init PROVE Armed
  OBVIOUS
<1>1. LocalsOK
  BY SizeAssumption DEF Init, LocalsOK, Steps, Slots
<1>2. SensorOK /\ Prepared
  BY DEF Init, SensorOK, Prepared, Images
<1> QED
  BY <1>1, <1>2 DEF Armed

\* A step that keeps the task's position or moves it to one that needs no
\* preparation keeps everything prepared.
LEMMA ProceedPrepared ==
  ASSUME LocalsOK, Prepared, NEW t \in Tasks, NEW step \in Steps \ {"store", "delete"},
         Proceed(t, step), chars[1] # None => chars'[1] # None
  PROVE  Prepared' /\ pc' \in [Tasks -> Steps] /\ id' \in [Tasks -> Nat]
  BY DEF LocalsOK, Prepared, Proceed

\* A page of the index table holds slots of the library only.
LEMMA PageInLibrary == \A p \in Nat : Page(p) \subseteq Slots
  BY DEF Page

\* A page adds what is stored there to the slots that a listing has counted,
\* and some of it to those that it returns.
LEMMA PageReads ==
  ASSUME NEW t \in Tasks, ReadPage(t)
  PROVE  \E some \in SUBSET (Page(page[t]) \cap Stored) :
            /\ found' = [found EXCEPT ![t] = @ \cup (Page(page[t]) \cap Stored)]
            /\ listed' = [listed EXCEPT ![t] = @ \cup some]
            /\ page' = [page EXCEPT ![t] = @ + 1]
<1> DEFINE bits == Page(page[t]) \cap Stored
           some == {s \in bits : Cardinality(found[t]) + Cardinality({u \in bits : u < s}) < MaxIds}
<1>1. some \in SUBSET bits
  OBVIOUS
<1>2. /\ found' = [found EXCEPT ![t] = @ \cup bits]
      /\ listed' = [listed EXCEPT ![t] = @ \cup some]
      /\ page' = [page EXCEPT ![t] = @ + 1]
  BY DEF ReadPage
<1> HIDE DEF some
<1> QED
  BY <1>1, <1>2

\* A step that leaves every task's position and id alone, and buffer 1, keeps
\* everything prepared.
LEMMA PreparedUntouched ==
  ASSUME Prepared, UNCHANGED <<pc, id, chars>>
  PROVE  Prepared'
  BY DEF Prepared

-----------------------------------------------------------------------------
\* Every command of every session, and the finger, keep the invariant.
LEMMA NextArmed ==
  ASSUME Armed, [Next]_vars
  PROVE  Armed'
<1> USE NoneAssumption, SizeAssumption
<1>1. LocalsOK /\ SensorOK /\ Prepared
  BY DEF Armed
<1>2. CASE MoveFinger
  <2>1. LocalsOK' /\ Prepared'
    BY <1>1, <1>2 DEF MoveFinger, LocalsOK, Prepared, history
  <2>2. SensorOK'
    BY <1>1, <1>2 DEF MoveFinger, SensorOK, Images, history
  <2> QED
    BY <2>1, <2>2 DEF Armed
<1>3. ASSUME NEW t \in Tasks, Begin(t) PROVE Armed'
  <2>1. LocalsOK'
    BY <1>1, <1>3, TasksAssumption DEF Begin, LocalsOK, Sessions, Steps, locals
  <2>2. Prepared'
    <3>1. PICK step \in Sessions[t] :
              /\ pc' = [pc EXCEPT ![t] = step]
              /\ \E i \in IF step = "delete" THEN Ids \ {0} ELSE {0} :
                    id' = [id EXCEPT ![t] = i]
      BY <1>3 DEF Begin
    <3>2. PICK i \in IF step = "delete" THEN Ids \ {0} ELSE {0} :
              id' = [id EXCEPT ![t] = i]
      BY <3>1
    <3>3. step # "store"
      BY TasksAssumption DEF Sessions
    <3>4. pc'[t] = step /\ id'[t] = i /\ UNCHANGED chars
      BY <1>1, <1>3, <3>1, <3>2 DEF LocalsOK, Begin, sensor
    <3>5. \A u \in Tasks \ {t} : pc'[u] = pc[u] /\ id'[u] = id[u]
      BY <1>1, <3>1, <3>2 DEF LocalsOK
    <3> QED
      BY <1>1, <3>3, <3>4, <3>5 DEF Prepared
  <2>3. SensorOK'
    BY <1>1, <1>3 DEF Begin, SensorOK, sensor
  <2> QED
    BY <2>1, <2>2, <2>3 DEF Armed
<1>4. ASSUME NEW t \in Tasks, Fails(t) PROVE Armed'
  <2>1. LocalsOK' /\ Prepared'
    BY <1>1, <1>4, ReturnRests DEF Fails, sensor
  <2>2. SensorOK'
    BY <1>1, <1>4 DEF Fails, SensorOK, sensor
  <2> QED
    BY <2>1, <2>2 DEF Armed
<1>5. ASSUME NEW t \in Tasks, FindSlot(t) PROVE Armed'
  <2>1. LocalsOK' /\ Prepared'
    <3>1. CASE Page(page[t]) \ Stored # {}
      <4>1. Proceed(t, "present1") /\ UNCHANGED <<page, found, listed, pressed, chars>>
        BY <1>5, <3>1 DEF FindSlot, sensor
      <4>2. slot' \in [Tasks -> Slots]
        BY <1>1, <1>5, <3>1 DEF FindSlot, LocalsOK, Page
      <4> QED
        BY <1>1, <4>1, <4>2, ProceedPrepared DEF LocalsOK, Steps
    <3>2. CASE Page(page[t]) \ Stored = {} /\ page[t] + 1 < Pages
      <4>1. /\ page' = [page EXCEPT ![t] = @ + 1]
            /\ UNCHANGED <<pc, id, slot, found, listed, pressed, chars>>
        BY <1>5, <3>2 DEF FindSlot, sensor
      <4>2. LocalsOK'
        BY <1>1, <4>1 DEF LocalsOK
      <4> QED
        BY <1>1, <4>1, <4>2, PreparedUntouched
    <3>3. CASE Page(page[t]) \ Stored = {} /\ ~(page[t] + 1 < Pages)
      BY <1>1, <1>5, <3>3, ReturnRests DEF FindSlot, sensor
    <3> QED
      BY <3>1, <3>2, <3>3
  <2>2. SensorOK'
    BY <1>1, <1>5 DEF FindSlot, SensorOK, sensor
  <2> QED
    BY <2>1, <2>2 DEF Armed
<1>6. ASSUME NEW t \in Tasks, NEW here \in Steps \ {"store", "delete"},
             NEW next \in Steps \ {"store", "delete"}, WaitPresent(t, here, next)
      PROVE Armed'
  <2>1. Prepared' /\ pc' \in [Tasks -> Steps] /\ id' \in [Tasks -> Nat]
    BY <1>1, <1>6, ProceedPrepared DEF WaitPresent
  <2>2. finger \in Fingers
    BY <1>1, <1>6 DEF WaitPresent, SensorOK, Images
  <2>3. pressed' \in [Tasks -> Seq(Fingers)]
    <3>1. pressed[t] \in Seq(Fingers) /\ Append(pressed[t], finger) \in Seq(Fingers)
      BY <1>1, <2>2 DEF LocalsOK
    <3> QED
      BY <1>1, <1>6, <3>1 DEF WaitPresent, LocalsOK
  <2>4. LocalsOK'
    BY <1>1, <1>6, <2>1, <2>3 DEF WaitPresent, LocalsOK
  <2>5. SensorOK'
    BY <1>1, <1>6 DEF WaitPresent, SensorOK
  <2> QED
    BY <2>1, <2>4, <2>5 DEF Armed
<1>7. ASSUME NEW t \in Tasks, WaitRemoved(t) PROVE Armed'
  <2>1. Prepared' /\ pc' \in [Tasks -> Steps] /\ id' \in [Tasks -> Nat]
    BY <1>1, <1>7, ProceedPrepared DEF WaitRemoved, Steps
  <2>2. LocalsOK'
    BY <1>1, <1>7, <2>1 DEF WaitRemoved, LocalsOK, history
  <2>3. SensorOK'
    BY <1>1, <1>7 DEF WaitRemoved, SensorOK, history
  <2> QED
    BY <2>1, <2>2, <2>3 DEF Armed
<1>8. ASSUME NEW t \in Tasks, NEW here, NEW buffer \in {1, 2},
             NEW next \in Steps \ {"store", "delete"}, ImageToChar(t, here, buffer, next)
      PROVE Armed'
  <2>1. chars' \in [{1, 2} -> Images] /\ (chars[1] # None => chars'[1] # None)
    BY <1>1, <1>8 DEF ImageToChar, SensorOK
  <2>2. LocalsOK' /\ Prepared'
    <3>1. CASE Proceed(t, next) /\ UNCHANGED locals
      BY <1>1, <2>1, <3>1, ProceedPrepared DEF LocalsOK, locals
    <3>2. CASE Return(t, 0)
      <4>1. LocalsOK'
        BY <1>1, <3>2 DEF LocalsOK, Return, Steps, Slots
      <4>2. Prepared'
        BY <1>1, <2>1, <3>2 DEF LocalsOK, Prepared, Return
      <4> QED
        BY <4>1, <4>2
    <3> QED
      BY <1>8, <3>1, <3>2 DEF ImageToChar
  <2>3. SensorOK'
    BY <1>1, <1>8, <2>1 DEF ImageToChar, SensorOK
  <2> QED
    BY <2>2, <2>3 DEF Armed
<1>9. ASSUME NEW t \in Tasks, CreateModel(t) PROVE Armed'
  <2>1. LocalsOK'
    BY <1>1, <1>9 DEF CreateModel, Proceed, LocalsOK, Steps, history
  <2>2. Prepared'
    BY <1>1, <1>9 DEF CreateModel, Proceed, LocalsOK, Prepared, sensor
  <2>3. SensorOK'
    BY <1>1, <1>9 DEF CreateModel, SensorOK, sensor, history
  <2> QED
    BY <2>1, <2>2, <2>3 DEF Armed
<1>10. ASSUME NEW t \in Tasks, Store(t) PROVE Armed'
  <2>1. /\ slot[t] \in Slots /\ slot[t] + 1 \in Nat
        /\ chars[1] \in Images /\ chars[1] # None
    BY <1>1, <1>10 DEF Store, LocalsOK, SensorOK, Prepared, Slots
  <2>2. LocalsOK' /\ Prepared'
    BY <1>1, <1>10, <2>1, ReturnRests DEF Store, Answered, Unaware
  <2>3. SensorOK'
    BY <1>1, <1>10, <2>1 DEF Store, Answered, Unaware, SensorOK
  <2> QED
    BY <2>2, <2>3 DEF Armed
<1>11. ASSUME NEW t \in Tasks, Search(t) PROVE Armed'
  <2>1. LocalsOK' /\ Prepared'
    BY <1>1, <1>11, ReturnRests DEF Search, Stored, Slots, sensor
  <2>2. SensorOK'
    BY <1>1, <1>11 DEF Search, SensorOK, sensor
  <2> QED
    BY <2>1, <2>2 DEF Armed
<1>12. ASSUME NEW t \in Tasks, Delete(t) PROVE Armed'
  <2>1. LocalsOK' /\ Prepared'
    <3>1. id[t] \in Nat
      BY <1>1 DEF LocalsOK
    <3> QED
      BY <1>1, <1>12, <3>1, ReturnRests DEF Delete, Answered, Unaware
  <2>2. SensorOK'
    BY <1>1, <1>12 DEF Delete, Answered, Unaware, SensorOK, Images
  <2> QED
    BY <2>1, <2>2 DEF Armed
<1>13. ASSUME NEW t \in Tasks, Wipe(t) PROVE Armed'
  <2>1. LocalsOK' /\ Prepared'
    BY <1>1, <1>13, ReturnRests DEF Wipe, Answered, Unaware
  <2>2. SensorOK'
    BY <1>1, <1>13 DEF Wipe, Answered, Unaware, SensorOK, Images
  <2> QED
    BY <2>1, <2>2 DEF Armed
<1>14. ASSUME NEW t \in Tasks, List(t) PROVE Armed'
  <2>1. LocalsOK' /\ Prepared'
    <3>1. CASE page[t] < Pages
      <4>1. ReadPage(t) /\ UNCHANGED <<pc, id, slot, pressed, chars>>
        BY <1>14, <3>1 DEF List, ReadPage, sensor
      <4>2. page[t] \in Nat /\ Page(page[t]) \cap Stored \subseteq Slots
        BY <1>1, PageInLibrary DEF LocalsOK
      <4>3. PICK some \in SUBSET (Page(page[t]) \cap Stored) :
                /\ found' = [found EXCEPT ![t] = @ \cup (Page(page[t]) \cap Stored)]
                /\ listed' = [listed EXCEPT ![t] = @ \cup some]
                /\ page' = [page EXCEPT ![t] = @ + 1]
        BY <4>1, PageReads
      <4>4. LocalsOK'
        BY <1>1, <4>1, <4>2, <4>3 DEF LocalsOK
      <4> QED
        BY <1>1, <4>1, <4>4, PreparedUntouched
    <3>2. CASE ~(page[t] < Pages)
      BY <1>1, <1>14, <3>2, ReturnRests DEF List, sensor
    <3> QED
      BY <3>1, <3>2
  <2>2. SensorOK'
    BY <1>1, <1>14 DEF List, SensorOK, sensor
  <2> QED
    BY <2>1, <2>2 DEF Armed
<1>15. CASE UNCHANGED vars
  <2>1. LocalsOK' /\ SensorOK' /\ Prepared'
    BY <1>1, <1>15 DEF vars, sensor, history, LocalsOK, SensorOK, Prepared
  <2> QED
    BY <2>1 DEF Armed
<1>16. ASSUME NEW t \in Tasks, Command(t) PROVE Armed'
  <2>1. /\ {"present1", "present2", "present", "char1", "char2", "char"}
              \subseteq Steps \ {"store", "delete"}
        /\ {"removed", "model", "search"} \subseteq Steps \ {"store", "delete"}
    BY DEF Steps
  <2> QED
    BY <1>4, <1>5, <1>6, <1>7, <1>8, <1>9, <1>10, <1>11, <1>12, <1>13, <1>14, <1>16, <2>1
       DEF Command
<1> QED
  BY <1>2, <1>3, <1>15, <1>16 DEF Next

LEMMA ArmedHolds == Spec => []Armed
  BY InitArmed, NextArmed, PTL DEF Spec

\* What is watched is of its type: Stored and the watching tasks bound it.
LEMMA WatchStep ==
  ASSUME WatchOK, [Next]_vars
  PROVE  WatchOK'
<1>1. Stored \subseteq Slots /\ Stored' \subseteq Slots
  BY DEF Stored
<1>2. ASSUME NEW t \in Tasks, Observed(t)
      PROVE  WatchOK'
  BY <1>1, <1>2 DEF WatchOK, Observed
<1>3. CASE MoveFinger \/ UNCHANGED vars
  BY <1>3 DEF MoveFinger, vars, watch, WatchOK
<1> QED
  BY <1>2, <1>3 DEF Next

\* The types of the model, for any sessions and any ids.
THEOREM SensorTypeOK == Spec => []TypeOK
<1>1. Init => WatchOK
  BY DEF Init, WatchOK
<1>2. Armed /\ WatchOK => TypeOK
  BY DEF Armed, LocalsOK, SensorOK, WatchOK, TypeOK
<1> QED
  BY <1>1, <1>2, WatchStep, ArmedHolds, PTL DEF Spec

-----------------------------------------------------------------------------
\* The three commands that change the library, or what is known of it.
LEMMA LibraryChanges ==
  ASSUME Next
  PROVE  UNCHANGED <<library, roster, doubtful>> \/ \E t \in Tasks : Store(t) \/ Delete(t) \/ Wipe(t)
BY DEF Next, MoveFinger, Begin, Command, FindSlot, WaitPresent, ImageToChar, WaitRemoved,
       CreateModel, Search, List, Fails, sensor, history

\* A deletion names an id: if it is that of a slot, of this one.
LEMMA NamedSlot ==
  ASSUME Armed, NEW t \in Tasks, pc[t] = "delete"
  PROVE  /\ id[t] \in Nat \ {0}
         /\ id[t] <= IdModulus => SlotOf(id[t]) = id[t] - 1
<1>1. id[t] \in Nat \ {0}
  BY SizeAssumption DEF Armed, LocalsOK, Prepared
<1> QED
  BY <1>1, SlotOfSmall

\* Two numbers that differ by one still do so modulo m.
LEMMA ModSuccessor ==
  ASSUME NEW m \in Nat \ {0}, NEW i \in Nat \ {0}, NEW s \in Nat, (i - 1) % m = s
  PROVE  i % m = (s + 1) % m
  OBVIOUS

\* An id beyond IdModulus agrees with that of its slot but for multiples.
LEMMA WrappedId ==
  ASSUME NEW i \in Nat \ {0}, NEW s \in Nat, SlotOf(i) = s
  PROVE  i % IdModulus = (s + 1) % IdModulus
<1>1. IdModulus \in Nat \ {0}
  BY SizeAssumption
<1>2. (i - 1) % IdModulus = s
  BY DEF SlotOf
<1> QED
  BY <1>1, <1>2, ModSuccessor

\* Each of the three changes roster and library alike, or leaves its slots
\* doubtful.
LEMMA RosterStep ==
  ASSUME Armed, RosterAccurate, [Next]_vars
  PROVE  RosterAccurate'
<1> USE NoneAssumption, SizeAssumption
<1>1. CASE UNCHANGED <<library, roster, doubtful>>
  BY <1>1 DEF RosterAccurate
<1>2. ASSUME NEW t \in Tasks, Store(t) PROVE RosterAccurate'
  <2>1. slot[t] \in Slots /\ chars[1] # None
    BY <1>2 DEF Store, Armed, LocalsOK, Prepared
  <2>2. /\ library \in [Slots -> Images] /\ library' = [library EXCEPT ![slot[t]] = chars[1]]
        /\ \/ roster' = roster \cup {slot[t] + 1} /\ doubtful' = doubtful
           \/ roster' = roster /\ doubtful' = doubtful \cup {slot[t]}
    BY <1>2 DEF Store, Answered, Unaware, Armed, SensorOK
  <2>3. \A s \in Slots : s + 1 = slot[t] + 1 <=> s = slot[t]
    BY <2>1 DEF Slots
  <2> QED
    BY <2>1, <2>2, <2>3 DEF RosterAccurate
<1>3. ASSUME NEW t \in Tasks, Delete(t) PROVE RosterAccurate'
  <2>1. /\ SlotOf(id[t]) \in Slots /\ library \in [Slots -> Images]
        /\ library' = [library EXCEPT ![SlotOf(id[t])] = None]
    BY <1>3 DEF Delete, Armed, SensorOK
  <2>2. CASE id[t] <= IdModulus /\ roster' = roster \ {id[t]} /\ doubtful' = doubtful
    <3>1. SlotOf(id[t]) = id[t] - 1 /\ id[t] \in Nat \ {0}
      BY <1>3, <2>2, NamedSlot DEF Delete
    <3>2. \A s \in Slots : s + 1 = id[t] <=> s = id[t] - 1
      BY <3>1 DEF Slots
    <3> QED
      BY <2>1, <2>2, <3>1, <3>2 DEF RosterAccurate
  <2>3. CASE roster' = roster /\ doubtful' = doubtful \cup {SlotOf(id[t])}
    BY <2>1, <2>3 DEF RosterAccurate
  <2> QED
    BY <1>3, <2>2, <2>3 DEF Delete, Answered, Unaware
<1>4. ASSUME NEW t \in Tasks, Wipe(t) PROVE RosterAccurate'
  BY <1>4 DEF Wipe, Answered, Unaware, RosterAccurate
<1>5. CASE UNCHANGED vars
  BY <1>1, <1>5 DEF vars, sensor, history
<1> QED
  BY <1>1, <1>2, <1>3, <1>4, <1>5, LibraryChanges

\* What the callers were told agrees with the library, for ids of any size and
\* however many sessions of however many tasks overlap, but for slots that a
\* lost answer or an id beyond IdModulus has made doubtful.
THEOREM RosterStaysAccurate == Spec => []RosterAccurate
<1>1. Init => RosterAccurate
  BY DEF Init, RosterAccurate
<1>2. Armed /\ RosterAccurate /\ [Next]_vars => RosterAccurate'
  BY RosterStep
<1> QED
  BY <1>1, <1>2, ArmedHolds, PTL DEF Spec

\* Nobody loses a template but in a wipe, or to its own id, or to an id beyond
\* IdModulus that differs from it by a multiple of IdModulus.
THEOREM OnlyNamedAreDeleted == Spec => DeletesOnlyNamed
<1> DEFINE Named(t, s) ==
              \/ pc[t] = "wipe"
              \/ pc[t] = "delete" /\ id[t] = s + 1
              \/ pc[t] = "delete" /\ id[t] > IdModulus /\ id[t] % IdModulus = (s + 1) % IdModulus
<1>1. Armed /\ [Next]_vars =>
        [\A s \in Stored : library'[s] = None => \E t \in Tasks : Named(t, s)]_vars
  <2> SUFFICES ASSUME Armed, Next, NEW s \in Stored, library'[s] = None
               PROVE  \E t \in Tasks : Named(t, s)
    OBVIOUS
  <2>1. s \in Slots /\ library[s] # None /\ s \in Nat
    BY DEF Stored, Slots
  <2>2. PICK t \in Tasks : Store(t) \/ Delete(t) \/ Wipe(t)
    BY <2>1, LibraryChanges
  <2>3. ~Store(t)
    BY <2>1 DEF Store, Armed, SensorOK, Prepared
  <2>4. CASE Delete(t)
    <3>1. /\ id[t] \in Nat \ {0} /\ pc[t] = "delete"
          /\ id[t] <= IdModulus => SlotOf(id[t]) = id[t] - 1
      BY <2>4, NamedSlot DEF Delete
    <3>2. SlotOf(id[t]) = s
      BY <2>1, <2>4 DEF Delete, Armed, SensorOK
    <3>3. CASE id[t] <= IdModulus
      BY <2>1, <3>1, <3>2, <3>3
    <3>4. CASE id[t] > IdModulus
      BY <2>1, <3>1, <3>2, <3>4, WrappedId
    <3> QED
      BY <3>1, <3>3, <3>4, SizeAssumption
  <2>5. CASE Wipe(t)
    BY <2>5 DEF Wipe
  <2> QED
    BY <2>2, <2>3, <2>4, <2>5
<1> QED
  BY <1>1, ArmedHolds, PTL DEF Spec, DeletesOnlyNamed

-----------------------------------------------------------------------------
\* A task does not move another: what a session keeps is its own.
LEMMA OthersStay ==
  ASSUME Armed, NEW t \in Tasks, Begin(t) \/ Command(t), NEW u \in Tasks \ {t}
  PROVE  /\ pc'[u] = pc[u] /\ slot'[u] = slot[u] /\ page'[u] = page[u]
         /\ id'[u] = id[u] /\ pressed'[u] = pressed[u]
         /\ found'[u] = found[u] /\ listed'[u] = listed[u]
<1> USE DEF Armed, LocalsOK, Return, Proceed
<1>1. CASE Begin(t)
  BY <1>1 DEF Begin, locals
<1>2. CASE FindSlot(t)
  BY <1>2 DEF FindSlot
<1>3. ASSUME NEW here, NEW next, WaitPresent(t, here, next)
      PROVE  /\ pc'[u] = pc[u] /\ slot'[u] = slot[u] /\ page'[u] = page[u]
             /\ id'[u] = id[u] /\ pressed'[u] = pressed[u]
             /\ found'[u] = found[u] /\ listed'[u] = listed[u]
  BY <1>3 DEF WaitPresent
<1>4. CASE WaitRemoved(t) \/ CreateModel(t)
  BY <1>4 DEF WaitRemoved, CreateModel, history
<1>5. ASSUME NEW here, NEW buffer, NEW next, ImageToChar(t, here, buffer, next)
      PROVE  /\ pc'[u] = pc[u] /\ slot'[u] = slot[u] /\ page'[u] = page[u]
             /\ id'[u] = id[u] /\ pressed'[u] = pressed[u]
             /\ found'[u] = found[u] /\ listed'[u] = listed[u]
  BY <1>5 DEF ImageToChar, locals
<1>6. CASE Store(t) \/ Delete(t) \/ Wipe(t)
  BY <1>6 DEF Store, Delete, Wipe, Answered, Unaware
<1>7. CASE Search(t) \/ Fails(t)
  BY <1>7 DEF Search, Fails
<1>8. CASE List(t) /\ ReadPage(t)
  BY <1>8, PageReads DEF ReadPage
<1>9. CASE List(t) /\ ~ReadPage(t)
  BY <1>9 DEF List
<1> QED
  BY <1>1, <1>2, <1>3, <1>4, <1>5, <1>6, <1>7, <1>8, <1>9 DEF Command

\* A session that ends with a result ends with the command that has it.
LEMMA SessionEnds ==
  ASSUME Armed, Next, NEW t \in Tasks, NEW step \in {"search", "store", "list"}, Ends(t, step)
  PROVE  /\ step = "search" => Search(t)
         /\ step = "store" => Store(t)
         /\ step = "list" => List(t)
<1> USE DEF Armed, LocalsOK
<1>1. pc[t] = step /\ pc'[t] = "idle" /\ id'[t] # 0
  BY DEF Ends
<1>2. PICK u \in Tasks : Begin(u) \/ Command(u)
  BY <1>1 DEF Next, MoveFinger
<1>3. u = t
  BY <1>1, <1>2, OthersStay
<1>4. ~Fails(t)
  BY <1>1 DEF Fails, Return
<1> QED
  BY <1>1, <1>2, <1>3, <1>4 DEF Begin, Command, FindSlot, WaitPresent, ImageToChar, WaitRemoved,
     CreateModel, Store, Search, Delete, Wipe, List

-----------------------------------------------------------------------------
\* The first command of a session.
LEMMA FirstSteps ==
  ASSUME NEW t \in Tasks
  PROVE  Sessions[t] \subseteq {"findSlot", "present", "delete", "wipe", "list"}
<1>1. t \in {"touch", "ws", "http"}
  BY TasksAssumption DEF Sessions
<1> QED
  BY <1>1 DEF Sessions

\* The slot of an enrolment is free until it stores, unless another fills it.
Reserved ==
    \A t \in Tasks \ taken : pc[t] \in Enrolling => library[slot[t]] = None

\* How an enrolment comes to the steps that rely on its slot.
LEMMA EnrollingStep ==
  ASSUME Armed, NEW t \in Tasks, Begin(t) \/ Command(t), pc'[t] \in Enrolling
  PROVE  \/ pc[t] \in Enrolling /\ slot'[t] = slot[t] /\ library' = library
         \/ pc[t] \notin Enrolling /\ library'[slot'[t]] = None
<1> USE DEF Armed, LocalsOK, Enrolling
<1>1. ASSUME Return(t, 0) \/ pc'[t] = "idle"
      PROVE  FALSE
  BY <1>1 DEF Return
<1>2. ~Begin(t)
  <2> SUFFICES ASSUME Begin(t) PROVE FALSE
    OBVIOUS
  <2>1. PICK step \in Sessions[t] : pc' = [pc EXCEPT ![t] = step]
    BY DEF Begin
  <2>2. step \in {"findSlot", "present", "delete", "wipe", "list"}
    BY FirstSteps
  <2> QED
    BY <2>1, <2>2
<1>3. CASE FindSlot(t)
  <2>1. Page(page[t]) \ Stored # {}
    BY <1>1, <1>3 DEF FindSlot
  <2>2. PICK s \in Page(page[t]) \ Stored : slot' = [slot EXCEPT ![t] = s]
    BY <1>3, <2>1 DEF FindSlot
  <2>3. library[s] = None /\ slot'[t] = s
    BY <2>2 DEF Page, Stored
  <2> QED
    BY <1>3, <2>3 DEF FindSlot, sensor
<1>4. CASE WaitPresent(t, "present1", "char1") \/ WaitPresent(t, "present2", "char2")
  BY <1>4 DEF WaitPresent
<1>5. CASE WaitPresent(t, "present", "char")
  BY <1>5 DEF WaitPresent, Proceed
<1>6. CASE WaitRemoved(t) \/ CreateModel(t)
  BY <1>6 DEF WaitRemoved, CreateModel, sensor
<1>7. CASE ImageToChar(t, "char1", 1, "removed") \/ ImageToChar(t, "char2", 2, "model")
  BY <1>1, <1>7 DEF ImageToChar, locals
<1>8. CASE ImageToChar(t, "char", 1, "search")
  BY <1>1, <1>8 DEF ImageToChar, Proceed
<1>9. ~(Store(t) \/ Search(t) \/ Delete(t) \/ Wipe(t) \/ Fails(t))
  BY DEF Store, Search, Delete, Wipe, Fails, Answered, Unaware, Return
<1>10. ~List(t)
  BY DEF List, ReadPage, Return
<1> QED
  BY <1>2, <1>3, <1>4, <1>5, <1>6, <1>7, <1>8, <1>9, <1>10 DEF Command

LEMMA ReservedStep ==
  ASSUME Armed, Armed', Reserved, [Next]_vars
  PROVE  Reserved'
<1> USE DEF Reserved
<1>1. ASSUME NEW t \in Tasks, Begin(t) \/ Command(t), Observed(t)
      PROVE  Reserved'
  <2> SUFFICES ASSUME NEW u \in Tasks \ taken', pc'[u] \in Enrolling
               PROVE  library'[slot'[u]] = None
    OBVIOUS
  <2>1. u \notin taken /\ (u = t \/ slot[u] \notin Stored' \ Stored)
    BY <1>1 DEF Observed
  <2>2. CASE u = t
    BY <1>1, <2>1, <2>2, EnrollingStep
  <2>3. CASE u # t
    <3>1. pc'[u] = pc[u] /\ slot'[u] = slot[u]
      BY <1>1, <2>3, OthersStay
    <3>2. library[slot[u]] = None /\ slot[u] \in Slots
      BY <2>1, <3>1 DEF Armed, LocalsOK
    <3> QED
      BY <2>1, <2>3, <3>1, <3>2 DEF Stored
  <2> QED
    BY <2>2, <2>3
<1>2. CASE MoveFinger \/ UNCHANGED vars
  BY <1>2 DEF MoveFinger, vars, sensor, watch
<1> QED
  BY <1>1, <1>2 DEF Next

\* as608_find_free_slot and as608_store are many commands apart, and nothing
\* holds the slot meanwhile: only another enrolment can spoil it.
THEOREM NothingIsOverwritten == Spec => NoTemplateOverwritten
<1>1. Init => Reserved
  BY DEF Init, Reserved, Enrolling
<1>2. Armed /\ Armed' /\ Reserved /\ [Next]_vars => Reserved'
  BY ReservedStep
<1>3. Armed /\ Reserved /\ [Next]_vars =>
        [\A s \in Stored : \/ library'[s] \in {library[s], None}
                           \/ \E t \in taken : pc[t] = "store" /\ slot[t] = s]_vars
  <2> SUFFICES ASSUME Armed, Reserved, Next, NEW s \in Stored
               PROVE  \/ library'[s] \in {library[s], None}
                      \/ \E t \in taken : pc[t] = "store" /\ slot[t] = s
    OBVIOUS
  <2>1. s \in Slots /\ library[s] # None
    BY DEF Stored
  <2>2. CASE UNCHANGED library
    BY <2>2
  <2>3. ASSUME NEW t \in Tasks, Store(t), slot[t] = s
        PROVE  t \in taken /\ pc[t] = "store"
    BY <2>1, <2>3 DEF Store, Reserved, Enrolling
  <2>4. ASSUME NEW t \in Tasks, Store(t), slot[t] # s
        PROVE  library'[s] = library[s]
    BY <2>1, <2>4 DEF Store, Armed, SensorOK
  <2>5. ASSUME NEW t \in Tasks, Delete(t) \/ Wipe(t)
        PROVE  library'[s] \in {library[s], None}
    BY <2>1, <2>5 DEF Delete, Wipe, Armed, SensorOK
  <2> QED
    BY <2>2, <2>3, <2>4, <2>5, LibraryChanges
<1> QED
  BY <1>1, <1>2, <1>3, ArmedHolds, PTL DEF Spec, NoTemplateOverwritten

-----------------------------------------------------------------------------
\* Before its first press a session has captured nothing.
Fresh == \A t \in Tasks :
            pc[t] \in {"idle", "findSlot", "present1", "present"} => pressed[t] = <<>>

\* What the presses of a session captured is where its next command looks,
\* unless another task was there.
CapturedBy(t) ==
    /\ pc[t] \in {"char1", "char"} => pressed[t] = <<image>>
    /\ pc[t] \in {"removed", "present2", "search"} => pressed[t] = <<chars[1]>>
    /\ pc[t] = "char2" => pressed[t] = <<chars[1], image>>
    /\ pc[t] \in {"model", "store"} => pressed[t] = <<chars[1], chars[2]>>
    /\ pc[t] = "store" => chars[1] = chars[2]

Captured == \A t \in Tasks \ disturbed : CapturedBy(t)

LEMMA SecondPress ==
  ASSUME NEW S, NEW f \in S, NEW g \in S
  PROVE  Append(<<f>>, g) = <<f, g>>
<1> DEFINE s == <<f>>
           a == Append(s, g)
           b == <<f, g>>
<1>1. s \in Seq(S) /\ Len(s) = 1 /\ s[1] = f
  OBVIOUS
<1>2. a \in Seq(S) /\ Len(a) = 2 /\ a[2] = g /\ a[1] = f
  <2> HIDE DEF s
  <2> QED
    BY <1>1
<1>3. b \in Seq(S) /\ Len(b) = 2 /\ b[1] = f /\ b[2] = g
  OBVIOUS
<1>4. a = b
  <2> HIDE DEF a, b
  <2> QED
    BY <1>2, <1>3
<1> QED
  BY <1>4

\* A session begins without a press and ends without one.
LEMMA FreshStep ==
  ASSUME Armed, Fresh, [Next]_vars
  PROVE  Fresh'
<1> USE DEF Armed, LocalsOK, Fresh
<1>1. ASSUME NEW t \in Tasks, Begin(t) \/ Command(t),
             pc'[t] \in {"idle", "findSlot", "present1", "present"} => pressed'[t] = <<>>
      PROVE  Fresh'
  BY <1>1, OthersStay
<1>2. ASSUME NEW t \in Tasks, Begin(t) \/ Command(t),
             pc'[t] \in {"idle", "findSlot", "present1", "present"}
      PROVE  pressed'[t] = <<>>
  <2>1. ASSUME NEW v, Return(t, v)
        PROVE  pressed'[t] = <<>>
    BY <2>1 DEF Return
  <2>2. CASE Begin(t)
    BY <2>2 DEF Begin, locals
  <2>3. CASE FindSlot(t)
    BY <2>1, <2>3 DEF FindSlot
  <2>4. CASE WaitPresent(t, "present1", "char1") \/ WaitPresent(t, "present", "char")
    BY <1>2, <2>4 DEF WaitPresent, Proceed
  <2>5. CASE WaitPresent(t, "present2", "char2")
    BY <1>2, <2>5 DEF WaitPresent, Proceed
  <2>6. CASE WaitRemoved(t) \/ CreateModel(t)
    BY <1>2, <2>6 DEF WaitRemoved, CreateModel, Proceed
  <2>7. CASE \/ ImageToChar(t, "char1", 1, "removed") \/ ImageToChar(t, "char2", 2, "model")
             \/ ImageToChar(t, "char", 1, "search")
    BY <1>2, <2>1, <2>7 DEF ImageToChar, Proceed
  <2>8. CASE Store(t) \/ Search(t) \/ Delete(t) \/ Wipe(t) \/ Fails(t)
    BY <2>1, <2>8 DEF Store, Search, Delete, Wipe, Fails, Answered, Unaware
  <2>9. CASE List(t)
    BY <1>2, <2>1, <2>9 DEF List, ReadPage
  <2> QED
    BY <1>2, <2>2, <2>3, <2>4, <2>5, <2>6, <2>7, <2>8, <2>9 DEF Command
<1>3. CASE MoveFinger \/ UNCHANGED vars
  BY <1>3 DEF MoveFinger, vars, history
<1> QED
  BY <1>1, <1>2, <1>3 DEF Next

\* Each command of a session leaves what was pressed where the next one looks.
LEMMA OwnStepCaptures ==
  ASSUME Armed, Fresh, NEW t \in Tasks, CapturedBy(t), Begin(t) \/ Command(t)
  PROVE  CapturedBy(t)'
<1> USE DEF Armed, LocalsOK, SensorOK
<1>1. ASSUME pc'[t] \notin Pressed
      PROVE  CapturedBy(t)'
  BY <1>1 DEF CapturedBy, Pressed
<1>2. ASSUME NEW v, Return(t, v)
      PROVE  CapturedBy(t)'
  BY <1>2 DEF CapturedBy, Return
<1>3. CASE Begin(t)
  <2>1. PICK step \in Sessions[t] : pc' = [pc EXCEPT ![t] = step]
    BY <1>3 DEF Begin
  <2>3. step \notin Pressed
    BY FirstSteps DEF Pressed
  <2> QED
    BY <1>1, <2>1, <2>3
<1>4. CASE FindSlot(t)
  <2>1. Return(t, 0) \/ pc'[t] \in {"present1", "findSlot"}
    BY <1>4 DEF FindSlot, Proceed
  <2> QED
    BY <1>1, <1>2, <2>1 DEF Pressed
<1>5. ASSUME NEW next \in {"char1", "char"}, NEW here \in {"present1", "present"},
             WaitPresent(t, here, next)
      PROVE  CapturedBy(t)'
  <2>1. pressed[t] = <<>>
    BY <1>5 DEF WaitPresent, Fresh
  <2>2. CASE Proceed(t, next) /\ pressed' = [pressed EXCEPT ![t] = Append(@, finger)]
    <3>1. pressed'[t] = <<finger>> /\ image' = finger /\ pc'[t] = next
      BY <1>5, <2>1, <2>2 DEF WaitPresent, Proceed
    <3> QED
      BY <3>1 DEF CapturedBy
  <2>3. CASE Proceed(t, here)
    BY <1>1, <2>3 DEF Proceed, Pressed
  <2> QED
    BY <1>5, <2>2, <2>3 DEF WaitPresent
<1>6. CASE WaitPresent(t, "present2", "char2")
  <2>1. pressed[t] = <<chars[1]>> /\ chars' = chars
    BY <1>6 DEF WaitPresent, CapturedBy
  <2>2. CASE Proceed(t, "char2") /\ pressed' = [pressed EXCEPT ![t] = Append(@, finger)]
    <3>1. Append(<<chars[1]>>, finger) = <<chars[1], finger>>
      BY SecondPress
    <3>2. pressed'[t] = <<chars[1], finger>> /\ image' = finger /\ pc'[t] = "char2"
      BY <1>6, <2>1, <2>2, <3>1 DEF WaitPresent, Proceed
    <3> QED
      BY <2>1, <3>2 DEF CapturedBy
  <2>3. CASE Proceed(t, "present2") /\ UNCHANGED pressed
    BY <2>1, <2>3 DEF CapturedBy, Proceed
  <2> QED
    BY <1>6, <2>2, <2>3 DEF WaitPresent
<1>7. CASE WaitRemoved(t)
  <2>1. /\ pressed[t] = <<chars[1]>> /\ UNCHANGED <<chars, pressed>>
        /\ pc'[t] \in {"present2", "removed"}
    BY <1>7 DEF WaitRemoved, CapturedBy, Proceed, history
  <2> QED
    BY <2>1 DEF CapturedBy
<1>8. ASSUME NEW here \in {"char1", "char"}, NEW next \in {"removed", "search"},
             ImageToChar(t, here, 1, next)
      PROVE  CapturedBy(t)'
  <2>1. pressed[t] = <<image>> /\ chars'[1] = image
    BY <1>8 DEF ImageToChar, CapturedBy
  <2>2. CASE Proceed(t, next) /\ UNCHANGED locals
    BY <2>1, <2>2 DEF CapturedBy, Proceed, locals
  <2> QED
    BY <1>2, <1>8, <2>2 DEF ImageToChar
<1>9. CASE ImageToChar(t, "char2", 2, "model")
  <2>1. pressed[t] = <<chars[1], image>> /\ chars'[1] = chars[1] /\ chars'[2] = image
    BY <1>9 DEF ImageToChar, CapturedBy
  <2>2. CASE Proceed(t, "model") /\ UNCHANGED locals
    BY <2>1, <2>2 DEF CapturedBy, Proceed, locals
  <2> QED
    BY <1>2, <1>9, <2>2 DEF ImageToChar
<1>10. CASE CreateModel(t)
  BY <1>10 DEF CreateModel, CapturedBy, Proceed, sensor, history
<1>11. CASE Store(t) \/ Search(t) \/ Delete(t) \/ Wipe(t) \/ Fails(t)
  BY <1>2, <1>11 DEF Store, Search, Delete, Wipe, Fails, Answered, Unaware
<1>12. CASE List(t)
  BY <1>1, <1>2, <1>12 DEF List, ReadPage, Pressed
<1> QED
  BY <1>3, <1>4, <1>5, <1>6, <1>7, <1>8, <1>9, <1>10, <1>11, <1>12 DEF Command

LEMMA CapturedStep ==
  ASSUME Armed, Armed', Fresh, Captured, [Next]_vars
  PROVE  Captured'
<1>1. ASSUME NEW t \in Tasks, Begin(t) \/ Command(t), Observed(t)
      PROVE  Captured'
  <2> SUFFICES ASSUME NEW u \in Tasks \ disturbed', pc'[u] \in Pressed
               PROVE  CapturedBy(u)'
    BY DEF Captured, CapturedBy, Pressed
  <2>1. u \notin disturbed /\ (u = t \/ UNCHANGED <<image, chars>>)
    BY <1>1 DEF Observed
  <2>2. CASE u = t
    BY <1>1, <2>1, <2>2, OwnStepCaptures DEF Captured
  <2>3. CASE u # t
    <3>1. pc'[u] = pc[u] /\ pressed'[u] = pressed[u] /\ UNCHANGED <<image, chars>>
      BY <1>1, <2>1, <2>3, OthersStay
    <3> QED
      BY <2>1, <3>1 DEF Captured, CapturedBy
  <2> QED
    BY <2>2, <2>3
<1>2. CASE MoveFinger \/ UNCHANGED vars
  BY <1>2 DEF MoveFinger, vars, sensor, history, watch, Captured, CapturedBy
<1> QED
  BY <1>1, <1>2 DEF Next

LEMMA CapturedHolds == Spec => []Captured
<1>1. Init => Fresh /\ Captured
  BY DEF Init, Fresh, Captured, CapturedBy
<1>2. Armed /\ Armed' /\ Fresh /\ Captured /\ [Next]_vars => Fresh' /\ Captured'
  BY FreshStep, CapturedStep
<1> QED
  BY <1>1, <1>2, ArmedHolds, PTL DEF Spec

\* An identification names the finger that was pressed, unless another task
\* changed the image or a buffer after the press.
THEOREM IdentifiesWhatWasPressed == Spec => IdentifyReportsPressed
<1>1. Armed /\ Captured /\ [Next]_vars =>
        [\A t \in Tasks \ disturbed :
            Ends(t, "search") => library[id'[t] - 1] = pressed[t][1]]_vars
  <2> SUFFICES ASSUME Armed, Captured, Next, NEW t \in Tasks \ disturbed, Ends(t, "search")
               PROVE  library[id'[t] - 1] = pressed[t][1]
    OBVIOUS
  <2>1. Search(t)
    BY SessionEnds
  <2>2. PICK s \in Stored : library[s] = chars[1] /\ Return(t, s + 1)
    BY <2>1 DEF Search
  <2>3. id'[t] = s + 1 /\ s \in Nat
    BY <2>2, SizeAssumption DEF Return, Armed, LocalsOK, Stored, Slots
  <2>4. pressed[t] = <<chars[1]>>
    BY <2>1 DEF Search, Captured, CapturedBy
  <2> QED
    BY <2>2, <2>3, <2>4
<1> QED
  BY <1>1, ArmedHolds, CapturedHolds, PTL DEF Spec, IdentifyReportsPressed

\* An enrolment stores the finger of both its presses, unless another task
\* changed the image or a buffer after the first.
THEOREM EnrollsWhatWasPressed == Spec => EnrollStoresUndisturbed
<1>1. Armed /\ Captured /\ [Next]_vars => [\A t \in Tasks \ disturbed : StoresPressed(t)]_vars
  <2> SUFFICES ASSUME Armed, Captured, Next, NEW t \in Tasks \ disturbed, Ends(t, "store")
               PROVE  /\ pressed[t][1] = pressed[t][2]
                      /\ library'[id'[t] - 1] = pressed[t][1]
    BY DEF StoresPressed
  <2>1. Store(t)
    BY SessionEnds
  <2>2. pressed[t] = <<chars[1], chars[2]>> /\ chars[1] = chars[2]
    BY <2>1 DEF Store, Captured, CapturedBy
  <2>3. slot[t] \in Slots /\ slot[t] \in Nat
    BY SizeAssumption DEF Armed, LocalsOK, Slots
  <2>4. id'[t] = slot[t] + 1
    <3>1. id'[t] # 0
      BY DEF Ends
    <3> QED
      BY <2>1, <3>1 DEF Store, Answered, Unaware, Return, Armed, LocalsOK
  <2>5. library'[slot[t]] = chars[1]
    BY <2>1, <2>3 DEF Store, Armed, SensorOK
  <2> QED
    BY <2>2, <2>3, <2>4, <2>5
<1> QED
  BY <1>1, ArmedHolds, CapturedHolds, PTL DEF Spec, EnrollStoresUndisturbed

-----------------------------------------------------------------------------
\* A listing has counted what was stored all along on the pages it has read,
\* and nothing that was never stored; what it has counted and not returned came
\* after MaxIds others.
ListedBy(t) ==
    /\ \A s \in kept[t] : s \div PageSize < page[t] => s \in found[t]
    /\ found[t] \subseteq seen[t] /\ listed[t] \subseteq found[t]
    /\ \A s \in found[t] : s \div PageSize < page[t]
    /\ \A s \in found[t] \ listed[t] : Cardinality({u \in found[t] : u < s}) >= MaxIds

Reading ==
    \A t \in Tasks : /\ pc[t] = "idle" => page[t] = 0 /\ found[t] = {} /\ listed[t] = {}
                     /\ pc[t] = "list" => ListedBy(t)

\* The last page holds the last slot: the number of pages is rounded up.
LEMMA LastPage ==
  ASSUME NEW s \in Slots
  PROVE  s \div PageSize < Pages /\ s \div PageSize \in Nat
<1>1. ASSUME NEW m \in Nat \ {0}, NEW p \in Nat \ {0}, NEW x \in 0 .. m - 1
      PROVE  x \div p < (m + p - 1) \div p /\ x \div p \in Nat
  OBVIOUS
<1> QED
  BY <1>1, SizeAssumption DEF Slots, Pages

\* A session that is not listing, or goes on to a step that is not, has
\* nothing to keep but its rest.
LEMMA NotListing ==
  ASSUME Armed, Reading, NEW t \in Tasks, Command(t), ~List(t)
  PROVE  /\ pc'[t] # "list"
         /\ pc'[t] = "idle" => page'[t] = 0 /\ found'[t] = {} /\ listed'[t] = {}
<1> USE DEF Armed, LocalsOK, Return, Proceed
<1>1. CASE FindSlot(t)
  BY <1>1 DEF FindSlot
<1>2. CASE \/ WaitPresent(t, "present1", "char1") \/ WaitPresent(t, "present2", "char2")
           \/ WaitPresent(t, "present", "char") \/ WaitRemoved(t) \/ CreateModel(t)
  BY <1>2 DEF WaitPresent, WaitRemoved, CreateModel
<1>3. CASE \/ ImageToChar(t, "char1", 1, "removed") \/ ImageToChar(t, "char2", 2, "model")
           \/ ImageToChar(t, "char", 1, "search")
  BY <1>3 DEF ImageToChar
<1>4. CASE Store(t) \/ Search(t) \/ Delete(t) \/ Wipe(t) \/ Fails(t)
  BY <1>4 DEF Store, Search, Delete, Wipe, Fails, Answered, Unaware
<1> QED
  BY <1>1, <1>2, <1>3, <1>4 DEF Command

\* A slot of a later page than another is greater.
LEMMA LaterPage ==
  ASSUME NEW s \in Slots, NEW u \in Slots, u \div PageSize < s \div PageSize
  PROVE  u < s
<1>1. ASSUME NEW p \in Nat \ {0}, NEW x \in Nat, NEW y \in Nat, y \div p < x \div p
      PROVE  y < x
  BY <1>1
<1> QED
  BY <1>1, SizeAssumption DEF Slots

\* The slots are finitely many, and more of them do not count less.
LEMMA SlotsCounted ==
  ASSUME NEW S \in SUBSET Slots, NEW T \in SUBSET S
  PROVE  /\ IsFiniteSet(S) /\ IsFiniteSet(T)
         /\ Cardinality(S) \in Nat /\ Cardinality(T) \in Nat /\ Cardinality(T) <= Cardinality(S)
<1>1. IsFiniteSet(Slots)
  BY SizeAssumption, FS_Interval DEF Slots
<1>2. IsFiniteSet(S)
  BY <1>1, FS_Subset
<1>3. IsFiniteSet(T) /\ Cardinality(T) <= Cardinality(S)
  BY <1>2, FS_Subset
<1> QED
  BY <1>2, <1>3, FS_CardinalityType

\* All of F come before all of B.
AllBefore(F, B) == F \subseteq Slots /\ B \subseteq Slots /\ \A f \in F, b \in B : f < b

Below(S, s) == {u \in S : u < s}

\* The slots that a listing counts before one of a new page are those of the
\* earlier pages and those before it on the page.
LEMMA CountedBefore ==
  ASSUME NEW F, NEW B, AllBefore(F, B), NEW s \in B
  PROVE  /\ Cardinality(F) \in Nat /\ Cardinality(Below(B, s)) \in Nat
         /\ Cardinality(Below(F \cup B, s)) = Cardinality(F) + Cardinality(Below(B, s))
<1> DEFINE L == Below(B, s)
<1> USE DEF Below
<1>0. F \subseteq Slots /\ B \subseteq Slots /\ \A f \in F, b \in B : f < b
  BY DEF AllBefore
<1>1. Below(F \cup B, s) = F \cup L
  BY <1>0
<1>2. F \cap L = {}
  <2> SUFFICES ASSUME NEW f \in F, f \in L PROVE FALSE
    OBVIOUS
  <2>1. f < f /\ f \in Nat
    BY <1>0 DEF Slots
  <2> QED
    BY <2>1
<1>3. IsFiniteSet(F) /\ Cardinality(F) \in Nat
  BY <1>0, SlotsCounted
<1>4. IsFiniteSet(L) /\ Cardinality(L) \in Nat
  BY <1>0, SlotsCounted
<1>5. Cardinality(F \cup L) = Cardinality(F) + Cardinality(L) - Cardinality(F \cap L)
  BY <1>3, <1>4, FS_Union
<1> HIDE DEF L
<1>6. Cardinality(F \cap L) = 0
  BY <1>2, FS_EmptySet
<1>7. Cardinality(F \cup L) = Cardinality(F) + Cardinality(L)
  BY <1>3, <1>4, <1>5, <1>6
<1> QED
  BY <1>1, <1>3, <1>4, <1>7 DEF L

\* A listing reads one more page, or returns.
LEMMA ListReads ==
  ASSUME Armed, WatchOK, Reading, NEW t \in Tasks, List(t), Observed(t)
  PROVE  /\ pc'[t] = "list" => ListedBy(t)'
         /\ pc'[t] = "idle" => page'[t] = 0 /\ found'[t] = {} /\ listed'[t] = {}
<1> USE DEF Armed, LocalsOK
<1>1. CASE page[t] < Pages
  <2> DEFINE bits == Page(page[t]) \cap Stored
             Before(s) == Cardinality(found[t]) + Cardinality({u \in bits : u < s})
  <2>1. /\ ReadPage(t) /\ pc[t] = "list" /\ pc'[t] = "list" /\ UNCHANGED library
        /\ page[t] \in Nat /\ found[t] \in SUBSET Slots /\ listed[t] \in SUBSET Slots
    BY <1>1 DEF List, ReadPage, sensor
  <2>2. /\ found'[t] = found[t] \cup bits
        /\ listed'[t] = listed[t] \cup {s \in bits : Before(s) < MaxIds}
        /\ page'[t] = page[t] + 1
    BY <2>1 DEF ReadPage
  <2>3. UNCHANGED Stored
    BY <2>1 DEF Stored
  <2>4. kept'[t] = kept[t] \cap Stored /\ seen'[t] = seen[t] \cup Stored
    BY <2>1, <2>3 DEF Observed
  <2>5. ListedBy(t)
    BY <2>1 DEF Reading
  <2>6. /\ bits \in SUBSET Slots
        /\ \A s \in bits : s \div PageSize = page[t]
    BY DEF Page
  <2>7. \A s \in Slots : s \div PageSize \in Nat
    BY LastPage
  <2>8. ASSUME NEW s \in kept[t] \cap Stored, s \div PageSize < page[t] + 1
        PROVE  s \in found[t] \cup bits
    <3>1. s \in Slots
      BY DEF Stored
    <3>2. CASE s \div PageSize < page[t]
      BY <2>5, <3>2 DEF ListedBy
    <3>3. CASE s \div PageSize = page[t]
      BY <3>1, <3>3 DEF Page
    <3> QED
      BY <2>1, <2>7, <2>8, <3>1, <3>2, <3>3
  <2>9. ASSUME NEW s \in (found[t] \cup bits) \ listed'[t]
        PROVE  Cardinality({u \in found[t] \cup bits : u < s}) >= MaxIds
    <3>1. CASE s \in found[t] \ listed[t]
      <4>1. Cardinality({u \in found[t] : u < s}) >= MaxIds
        BY <2>5, <3>1 DEF ListedBy
      <4>2. /\ {u \in found[t] \cup bits : u < s} \in SUBSET Slots
            /\ {u \in found[t] : u < s} \in SUBSET {u \in found[t] \cup bits : u < s}
        BY <2>1, <2>6
      <4>3. /\ Cardinality({u \in found[t] \cup bits : u < s}) \in Nat
            /\ Cardinality({u \in found[t] : u < s}) \in Nat
            /\ Cardinality({u \in found[t] : u < s}) <= Cardinality({u \in found[t] \cup bits : u < s})
        BY <4>2, SlotsCounted
      <4> QED
        BY <4>1, <4>3, SizeAssumption
    <3>2. CASE s \in bits
      <4>1. ~(Before(s) < MaxIds)
        BY <2>2, <2>9, <3>2
      <4>2. AllBefore(found[t], bits)
        BY <2>1, <2>5, <2>6, LaterPage DEF ListedBy, AllBefore
      <4>3. /\ Cardinality(found[t]) \in Nat /\ Cardinality({u \in bits : u < s}) \in Nat
            /\ Cardinality({u \in found[t] \cup bits : u < s})
                 = Cardinality(found[t]) + Cardinality({u \in bits : u < s})
        <5> HIDE DEF bits
        <5>1. /\ Cardinality(found[t]) \in Nat /\ Cardinality(Below(bits, s)) \in Nat
              /\ Cardinality(Below(found[t] \cup bits, s)) = Cardinality(found[t]) + Cardinality(Below(bits, s))
          BY <3>2, <4>2, CountedBefore
        <5> QED
          BY <5>1 DEF Below
      <4> QED
        BY <4>1, <4>3, SizeAssumption
    <3> QED
      BY <2>2, <2>9, <3>1, <3>2
  <2>10. /\ \A s \in found'[t] : s \div PageSize < page'[t]
         /\ found'[t] \subseteq seen'[t] /\ listed'[t] \subseteq found'[t]
    <3>1. \A s \in found[t] \cup bits : s \div PageSize < page[t] + 1
      BY <2>1, <2>5, <2>6, <2>7 DEF ListedBy
    <3> QED
      BY <2>2, <2>4, <2>5, <3>1 DEF ListedBy
  <2> HIDE DEF bits
  <2> QED
    BY <2>1, <2>2, <2>4, <2>8, <2>9, <2>10 DEF ListedBy
<1>2. CASE ~(page[t] < Pages)
  BY <1>2 DEF List, Return
<1> QED
  BY <1>1, <1>2

\* A listing that is not touched stays right while others store and delete.
LEMMA OtherReads ==
  ASSUME NEW t \in Tasks, NEW u \in Tasks, Observed(t), pc[u] = "list", pc'[u] = "list",
         page'[u] = page[u], found'[u] = found[u], listed'[u] = listed[u], ListedBy(u)
  PROVE  ListedBy(u)'
<1>1. kept'[u] \subseteq kept[u] /\ seen[u] \subseteq seen'[u]
  BY DEF Observed
<1> QED
  BY <1>1 DEF ListedBy

LEMMA ReadingStep ==
  ASSUME Armed, WatchOK, Reading, [Next]_vars
  PROVE  Reading'
<1>1. ASSUME NEW t \in Tasks, Begin(t) \/ Command(t), Observed(t)
      PROVE  Reading'
  <2> SUFFICES ASSUME NEW u \in Tasks
               PROVE  /\ pc'[u] = "idle" => page'[u] = 0 /\ found'[u] = {} /\ listed'[u] = {}
                      /\ pc'[u] = "list" => ListedBy(u)'
    BY DEF Reading
  <2>1. CASE u # t
    <3>1. /\ pc'[u] = pc[u] /\ page'[u] = page[u]
          /\ found'[u] = found[u] /\ listed'[u] = listed[u]
      BY <1>1, <2>1, OthersStay
    <3> QED
      BY <1>1, <3>1, OtherReads DEF Reading
  <2>2. CASE u = t /\ Begin(t)
    <3>1. page'[t] = 0 /\ found'[t] = {} /\ listed'[t] = {} /\ pc[t] = "idle"
      BY <2>2 DEF Begin, Reading, locals
    <3>2. pc'[t] = "list" => kept'[t] = Stored
      BY <1>1, <3>1 DEF Observed
    <3>3. \A s \in Stored : ~(s \div PageSize < 0)
      BY LastPage DEF Stored
    <3> QED
      BY <2>2, <3>1, <3>2, <3>3 DEF ListedBy
  <2>3. CASE u = t /\ List(t)
    BY <1>1, <2>3, ListReads
  <2>4. CASE u = t /\ Command(t) /\ ~List(t)
    BY <2>4, NotListing
  <2> QED
    BY <1>1, <2>1, <2>2, <2>3, <2>4
<1>2. CASE MoveFinger \/ UNCHANGED vars
  BY <1>2 DEF MoveFinger, vars, watch, Reading, ListedBy
<1> QED
  BY <1>1, <1>2 DEF Next

\* list_fingerprints_impl counts what was stored from its first page to its
\* last, and nothing that never was, whatever the other tasks store, delete
\* and wipe between two pages, and leaves out of out_ids only what comes after
\* max_ids others.
THEOREM ListingsAreConsistent == Spec => ListConsistent
<1> DEFINE Right(t) ==
              /\ kept[t] \subseteq found[t] /\ listed[t] \subseteq found[t] /\ found[t] \subseteq seen[t]
              /\ \A s \in kept[t] \ listed[t] :
                    Cardinality({u \in found[t] : u < s}) >= MaxIds
<1>1. Init => WatchOK /\ Reading
  BY DEF Init, WatchOK, Reading
<1>2. Armed /\ WatchOK /\ Reading /\ [Next]_vars => WatchOK' /\ Reading'
  BY WatchStep, ReadingStep
<1>3. Armed /\ WatchOK /\ Reading /\ [Next]_vars =>
        [\A t \in Tasks : Ends(t, "list") => Right(t)]_vars
  <2> SUFFICES ASSUME Armed, WatchOK, Reading, Next, NEW t \in Tasks, Ends(t, "list")
               PROVE  Right(t)
    OBVIOUS
  <2>1. List(t)
    BY SessionEnds
  <2>2. ~(page[t] < Pages) /\ pc[t] = "list" /\ page[t] \in Nat
    BY <2>1 DEF List, ReadPage, Ends, Armed, LocalsOK
  <2>3. Pages \in Nat
    BY SizeAssumption DEF Pages
  <2>4. \A s \in kept[t] : s \div PageSize < page[t]
    BY <2>2, <2>3, LastPage DEF WatchOK
  <2> QED
    BY <2>2, <2>4 DEF Reading, ListedBy
<1> QED
  BY <1>1, <1>2, <1>3, ArmedHolds, PTL DEF Spec, ListConsistent
=============================================================================

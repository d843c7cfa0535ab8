-------------------------- MODULE FingerprintSensor --------------------------
(***************************************************************************)
(* The sensor sessions of as608_driver_stub.c and as608.c: enrolment,      *)
(* identification, deletion, wipe and listing, each a sequence of sensor   *)
(* commands.  as608_lock makes one command atomic, not a session: between  *)
(* two commands of a task the others send theirs, and all of them share    *)
(* the sensor's image and its two character buffers.                       *)
(*                                                                         *)
(* The AS608 module and the finger on it are external.  A template is      *)
(* represented by the finger it was made of.                               *)
(***************************************************************************)
EXTENDS Naturals, Sequences, FiniteSets

CONSTANTS
    Fingers,        \* the fingers people put on the sensor
    None,           \* no finger, no image, no template
    Tasks,          \* the tasks that use the driver: "touch", "ws", "http"
    MaxTemplates,   \* ctx->max_templates, 300
    PageSize,       \* slots per page of the index table, 256
    IdModulus,      \* 2^16, what (uint16_t)(fingerprint_id - 1) keeps
    Ids,            \* the ids that callers ask to delete, any uint32_t
    MaxIds          \* max_ids of a listing, WEBUI_LIST_PREVIEW_MAX

\* What each task asks of the driver: touch checks in, ws runs the server's
\* commands, http the console's.
Sessions == [touch |-> {"present"},
             ws    |-> {"findSlot", "present", "delete", "wipe"},
             http  |-> {"findSlot", "present", "delete", "wipe", "list"}]

ASSUME TasksAssumption == Tasks \subseteq DOMAIN Sessions
ASSUME NoneAssumption == None \notin Fingers
ASSUME SizeAssumption == /\ MaxTemplates \in Nat \ {0} /\ PageSize \in Nat \ {0}
                         /\ IdModulus \in Nat /\ IdModulus >= MaxTemplates
                         /\ Ids \subseteq Nat /\ MaxIds \in Nat

Slots == 0 .. MaxTemplates - 1
Images == Fingers \cup {None}

VARIABLES       \* external: the sensor
    finger,     \* on the sensor now
    image,      \* the captured image
    chars,      \* the character buffers 1 and 2
    library     \* the stored templates

VARIABLES       \* the driver, per task
    pc,         \* the next command of the session
    slot,       \* target_slot of an enrolment
    page,       \* the next page of the index table to read
    id,         \* the id to delete, then the id returned; 0 for failure
    found,      \* the slots a listing has counted
    listed      \* the slots it has put into out_ids

VARIABLES       \* history
    pressed,    \* per task, the fingers its presses captured
    roster,     \* ids the callers were told are enrolled
    doubtful    \* slots changed by a command whose answer was lost, or under
                \* an id that is another's

VARIABLES       \* history: what other tasks did during the session of a task
    disturbed,  \* tasks whose image or buffers another changed since the first press
    taken,      \* enrolling tasks whose slot another filled since it was found free
    kept,       \* per listing task, the slots stored ever since it began
    seen        \* per listing task, the slots stored at some time since it began

sensor == <<finger, image, chars, library>>
history == <<pressed, roster, doubtful>>
watch == <<disturbed, taken, kept, seen>>
vars == <<sensor, pc, slot, page, id, found, listed, history, watch>>

Steps == {"idle", "findSlot", "present1", "char1", "removed", "present2", "char2",
          "model", "store", "present", "char", "search", "delete", "wipe", "list"}
Enrolling == {"present1", "char1", "removed", "present2", "char2", "model", "store"}
\* The steps that use what a press of the session left in the sensor.
Pressed == {"char1", "removed", "present2", "char2", "model", "store", "char", "search"}

TypeOK ==
    /\ finger \in Images /\ image \in Images
    /\ chars \in [{1, 2} -> Images] /\ library \in [Slots -> Images]
    /\ pc \in [Tasks -> Steps] /\ slot \in [Tasks -> Slots]
    /\ page \in [Tasks -> Nat] /\ id \in [Tasks -> Nat]
    /\ found \in [Tasks -> SUBSET Slots] /\ listed \in [Tasks -> SUBSET Slots]
    /\ pressed \in [Tasks -> Seq(Fingers)]
    /\ roster \subseteq {s + 1 : s \in Slots} /\ doubtful \subseteq Slots
    /\ disturbed \subseteq Tasks /\ taken \subseteq Tasks
    /\ kept \in [Tasks -> SUBSET Slots] /\ seen \in [Tasks -> SUBSET Slots]

Init ==
    /\ finger = None /\ image = None
    /\ chars = [b \in {1, 2} |-> None] /\ library = [s \in Slots |-> None]
    /\ pc = [t \in Tasks |-> "idle"] /\ slot = [t \in Tasks |-> 0]
    /\ page = [t \in Tasks |-> 0] /\ id = [t \in Tasks |-> 0]
    /\ found = [t \in Tasks |-> {}] /\ listed = [t \in Tasks |-> {}]
    /\ pressed = [t \in Tasks |-> <<>>]
    /\ roster = {} /\ doubtful = {} /\ disturbed = {} /\ taken = {}
    /\ kept = [t \in Tasks |-> {}] /\ seen = [t \in Tasks |-> {}]

Stored == {s \in Slots : library[s] # None}
Page(p) == {s \in Slots : s \div PageSize = p}
Pages == (MaxTemplates + PageSize - 1) \div PageSize

\* External: somebody puts a finger on the sensor or takes it away.
MoveFinger ==
    /\ finger' \in IF finger = None THEN Fingers ELSE {None}
    /\ UNCHANGED <<image, chars, library, pc, slot, page, id, found, listed, history, watch>>

-----------------------------------------------------------------------------
\* How a step ends for the session: on to another one, or back to the caller.
Proceed(t, step) == pc' = [pc EXCEPT ![t] = step] /\ UNCHANGED id

Return(t, value) == /\ pc' = [pc EXCEPT ![t] = "idle"]
                    /\ id' = [id EXCEPT ![t] = value]
                    /\ slot' = [slot EXCEPT ![t] = 0]
                    /\ page' = [page EXCEPT ![t] = 0]
                    /\ found' = [found EXCEPT ![t] = {}]
                    /\ listed' = [listed EXCEPT ![t] = {}]
                    /\ pressed' = [pressed EXCEPT ![t] = <<>>]

locals == <<slot, page, found, listed, pressed>>

\* The command fails and changes nothing: the mutex, the line, the sensor's
\* refusal.  Every session but the wait loops returns the error at once; the
\* wait loops do on any error but TIMEOUT, and at their deadline.
Fails(t) ==
    /\ pc[t] # "idle"
    /\ Return(t, 0)
    /\ UNCHANGED <<sensor, roster, doubtful>>

\* A use case calls the driver.  delete_impl refuses id 0.
Begin(t) ==
    /\ pc[t] = "idle"
    /\ \E step \in Sessions[t] :
          /\ pc' = [pc EXCEPT ![t] = step]
          /\ \E i \in IF step = "delete" THEN Ids \ {0} ELSE {0} :
                id' = [id EXCEPT ![t] = i]
    /\ UNCHANGED <<sensor, locals, roster, doubtful>>

\* Faulty variant: the slots of every page are numbered from 0.
FindSlot_NoPageOffset(t) ==
    /\ pc[t] = "findSlot"
    /\ LET free == Page(page[t]) \ Stored IN
       IF free # {}
       THEN /\ \E s \in free : /\ \A other \in free : s <= other
                               /\ slot' = [slot EXCEPT ![t] = s % PageSize]
            /\ Proceed(t, "present1")
            /\ UNCHANGED <<page, found, listed, pressed>>
       ELSE IF page[t] + 1 < Pages
       THEN /\ page' = [page EXCEPT ![t] = @ + 1]
            /\ UNCHANGED <<pc, id, slot, found, listed, pressed>>
       ELSE Return(t, 0)
    /\ UNCHANGED <<sensor, roster, doubtful>>

\* as608_find_free_slot: one command per page, up to the first free slot.
FindSlot(t) ==
    /\ pc[t] = "findSlot"
    /\ LET free == Page(page[t]) \ Stored IN
       IF free # {}
       THEN /\ \E s \in free : /\ \A other \in free : s <= other
                               /\ slot' = [slot EXCEPT ![t] = s]
            /\ Proceed(t, "present1")
            /\ UNCHANGED <<page, found, listed, pressed>>
       ELSE IF page[t] + 1 < Pages
       THEN /\ page' = [page EXCEPT ![t] = @ + 1]
            /\ UNCHANGED <<pc, id, slot, found, listed, pressed>>
       ELSE Return(t, 0)
    /\ UNCHANGED <<sensor, roster, doubtful>>

\* as608_wait_finger_present: a lost answer is a TIMEOUT, and polled again.
WaitPresent(t, here, next) ==
    /\ pc[t] = here
    /\ finger # None
    /\ image' = finger
    /\ \/ /\ Proceed(t, next)
          /\ pressed' = [pressed EXCEPT ![t] = Append(@, finger)]
       \/ Proceed(t, here) /\ UNCHANGED pressed
    /\ UNCHANGED <<finger, chars, library, slot, page, found, listed, roster, doubtful>>

\* as608_wait_finger_removed: its polls capture the finger that stays.
WaitRemoved(t) ==
    /\ pc[t] = "removed"
    /\ IF finger = None
       THEN Proceed(t, "present2") /\ UNCHANGED image
       ELSE Proceed(t, "removed") /\ image' = finger
    /\ UNCHANGED <<finger, chars, library, slot, page, found, listed, history>>

\* as608_image_to_char, which may be done although its answer is lost.
ImageToChar(t, here, buffer, next) ==
    /\ pc[t] = here
    /\ image # None
    /\ chars' = [chars EXCEPT ![buffer] = image]
    /\ \/ Proceed(t, next) /\ UNCHANGED locals
       \/ Return(t, 0)
    /\ UNCHANGED <<finger, image, library, roster, doubtful>>

\* Faulty variant: the sensor's refusal is not looked at.
CreateModel_AnyPair(t) ==
    /\ pc[t] = "model"
    /\ Proceed(t, "store")
    /\ UNCHANGED <<sensor, slot, page, found, listed, history>>

\* as608_create_model: the sensor refuses two different fingers.
CreateModel(t) ==
    /\ pc[t] = "model"
    /\ chars[1] = chars[2] /\ chars[1] # None
    /\ Proceed(t, "store")
    /\ UNCHANGED <<sensor, slot, page, found, listed, history>>

\* What the caller of a command that changes slots makes of it: it knows, or
\* it does not know of the slots S.
Answered(t, value, told) ==
    Return(t, value) /\ roster' = told /\ UNCHANGED doubtful
Unaware(t, value, S) ==
    Return(t, value) /\ doubtful' = doubtful \cup S /\ UNCHANGED roster

\* Faulty variant: the slot is returned as the id.
Store_ZeroBased(t) ==
    /\ pc[t] = "store"
    /\ library' = [library EXCEPT ![slot[t]] = chars[1]]
    /\ \/ Answered(t, slot[t], roster \cup {slot[t]})
       \/ Unaware(t, 0, {slot[t]})
    /\ UNCHANGED <<finger, image, chars>>

Store(t) ==
    /\ pc[t] = "store"
    /\ library' = [library EXCEPT ![slot[t]] = chars[1]]
    /\ \/ Answered(t, slot[t] + 1, roster \cup {slot[t] + 1})
       \/ Unaware(t, 0, {slot[t]})
    /\ UNCHANGED <<finger, image, chars>>

\* Faulty variant: the search uses the buffer of an enrolment's second image.
Search_SecondBuffer(t) ==
    /\ pc[t] = "search"
    /\ \E s \in Stored : library[s] = chars[2] /\ Return(t, s + 1)
    /\ UNCHANGED <<sensor, roster, doubtful>>

\* as608_search over the whole library.
Search(t) ==
    /\ pc[t] = "search"
    /\ \E s \in Stored : library[s] = chars[1] /\ Return(t, s + 1)
    /\ UNCHANGED <<sensor, roster, doubtful>>

\* Faulty variant: ids are taken for slots.
SlotOf_OneBased(i) == i % IdModulus

\* delete_impl: the id loses its upper half on the way to the slot.
SlotOf(i) == (i - 1) % IdModulus

\* Beyond IdModulus the id is that of no slot, and yet one is deleted.
Delete(t) ==
    /\ pc[t] = "delete"
    /\ SlotOf(id[t]) \in Slots
    /\ library' = [library EXCEPT ![SlotOf(id[t])] = None]
    /\ \/ id[t] <= IdModulus /\ Answered(t, id[t], roster \ {id[t]})
       \/ id[t] > IdModulus /\ Unaware(t, id[t], {SlotOf(id[t])})
       \/ Unaware(t, 0, {SlotOf(id[t])})
    /\ UNCHANGED <<finger, image, chars>>

Wipe(t) ==
    /\ pc[t] = "wipe"
    /\ library' = [s \in Slots |-> None]
    /\ \/ Answered(t, 1, {})
       \/ Unaware(t, 0, Slots)
    /\ UNCHANGED <<finger, image, chars>>

\* One page of a listing: out_ids takes the slots of the page in their order
\* until it is full, the others are counted only.
ReadPage(t) ==
    LET page_bits == Page(page[t]) \cap Stored
        before(s) == Cardinality(found[t]) + Cardinality({u \in page_bits : u < s}) IN
    /\ found' = [found EXCEPT ![t] = @ \cup page_bits]
    /\ listed' = [listed EXCEPT ![t] = @ \cup {s \in page_bits : before(s) < MaxIds}]
    /\ page' = [page EXCEPT ![t] = @ + 1]
    /\ UNCHANGED <<pc, id, slot, pressed>>

\* Faulty variant: the last page is not read.
List_OneShort(t) ==
    /\ pc[t] = "list"
    /\ IF page[t] + 1 < Pages THEN ReadPage(t) ELSE Return(t, 1)
    /\ UNCHANGED <<sensor, roster, doubtful>>

\* list_fingerprints_impl: one command per page.
List(t) ==
    /\ pc[t] = "list"
    /\ IF page[t] < Pages THEN ReadPage(t) ELSE Return(t, 1)
    /\ UNCHANGED <<sensor, roster, doubtful>>

-----------------------------------------------------------------------------
Command(t) ==
    \/ FindSlot(t)
    \/ WaitPresent(t, "present1", "char1")
    \/ ImageToChar(t, "char1", 1, "removed")
    \/ WaitRemoved(t)
    \/ WaitPresent(t, "present2", "char2")
    \/ ImageToChar(t, "char2", 2, "model")
    \/ CreateModel(t) \/ Store(t)
    \/ WaitPresent(t, "present", "char")
    \/ ImageToChar(t, "char", 1, "search")
    \/ Search(t)
    \/ Delete(t) \/ Wipe(t) \/ List(t)
    \/ Fails(t)

\* What the other tasks' sessions suffer from a step of t.
Observed(t) ==
    /\ disturbed' = {u \in Tasks : /\ pc'[u] \in Pressed
                                   /\ u \in disturbed \/ (u # t /\ <<image, chars>>' # <<image, chars>>)}
    /\ taken' = {u \in Tasks : /\ pc'[u] \in Enrolling
                               /\ u \in taken \/ (u # t /\ slot[u] \in Stored' \ Stored)}
    /\ kept' = [u \in Tasks |-> IF pc'[u] # "list" THEN {}
                                ELSE IF pc[u] = "list" THEN kept[u] \cap Stored' ELSE Stored]
    /\ seen' = [u \in Tasks |-> IF pc'[u] # "list" THEN {}
                                ELSE IF pc[u] = "list" THEN seen[u] \cup Stored' ELSE Stored]

Next == MoveFinger \/ \E t \in Tasks : (Begin(t) \/ Command(t)) /\ Observed(t)

\* Sessions of different tasks overlap.
Spec == Init /\ [][Next]_vars

-----------------------------------------------------------------------------
Ends(t, step) == pc[t] = step /\ pc'[t] = "idle" /\ id'[t] # 0

\* What the callers were told and what the sensor holds disagree only about
\* slots that were changed by a command whose answer was lost, or deleted under
\* an id beyond IdModulus, however the sessions overlap: the ids that leave the
\* driver are those of the slots, off by one, each way.
RosterAccurate ==
    \A s \in Slots \ doubtful : (s + 1 \in roster) <=> (library[s] # None)

\* An identification returns the id of a template of the finger it captured,
\* unless another task changed the image or a buffer after the press.
IdentifyReportsPressed ==
    [][\A t \in Tasks \ disturbed :
          Ends(t, "search") => library[id'[t] - 1] = pressed[t][1]]_vars

\* An enrolment that returns an id has stored the finger of both its presses
\* there ("Enroll: place same finger again", as608.c).
StoresPressed(t) ==
    Ends(t, "store") => /\ pressed[t][1] = pressed[t][2]
                        /\ library'[id'[t] - 1] = pressed[t][1]

EnrollStoresPressed == [][\A t \in Tasks : StoresPressed(t)]_vars

\* It does, unless another task changed the image or a buffer after the first
\* press; sessions that leave those alone may overlap as they like.
EnrollStoresUndisturbed == [][\A t \in Tasks \ disturbed : StoresPressed(t)]_vars

\* The slot found free when an enrolment began is still free when it stores,
\* unless another enrolment filled it meanwhile; nothing else overwrites a
\* template.
NoTemplateOverwritten ==
    [][\A s \in Stored : \/ library'[s] \in {library[s], None}
                         \/ \E t \in taken : pc[t] = "store" /\ slot[t] = s]_vars

\* A listing counts every template that was there from its beginning to its
\* end, the last page included, and none that never was, although other tasks
\* enrol and delete between its pages.  It returns those that it counts, unless
\* it counts MaxIds with lower ids.
ListConsistent ==
    [][\A t \in Tasks : Ends(t, "list") =>
          /\ kept[t] \subseteq found[t] /\ listed[t] \subseteq found[t] /\ found[t] \subseteq seen[t]
          /\ \A s \in kept[t] \ listed[t] :
                Cardinality({u \in found[t] : u < s}) >= MaxIds]_vars

\* A template disappears only in a wipe or when its own id is deleted, or an id
\* beyond IdModulus that is its own but for a multiple of IdModulus.
DeletesOnlyNamed ==
    [][\A s \in Stored : library'[s] = None =>
          \E t \in Tasks :
             \/ pc[t] = "wipe"
             \/ pc[t] = "delete" /\ id[t] = s + 1
             \/ pc[t] = "delete" /\ id[t] > IdModulus /\ id[t] % IdModulus = (s + 1) % IdModulus]_vars
=============================================================================

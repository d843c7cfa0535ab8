----------------------------- MODULE SensorLink -----------------------------
(***************************************************************************)
(* What the driver's sessions may expect of as608_exec_ack and as608_lock: *)
(* one command at a time, and an answer that is its own or, since a        *)
(* command may time out before its answer, that of an earlier one which    *)
(* nobody has had yet.  No answer is had twice, none overtakes another.    *)
(***************************************************************************)
EXTENDS Naturals

CONSTANTS Tasks, None

VARIABLES
    caller,     \* the task whose command is under way
    last,       \* the number of the latest command
    owed,       \* earlier commands whose answers may still come
    taken       \* the command whose answer was accepted last

vars == <<caller, last, owed, taken>>

Init == caller = None /\ last = 0 /\ owed = {} /\ taken = 0

Send(t) ==
    /\ caller = None
    /\ caller' = t /\ last' = last + 1
    /\ owed' \in SUBSET owed
    /\ UNCHANGED taken

Accept(t) ==
    /\ caller = t
    /\ taken' \in owed \cup {last}
    /\ owed' \in SUBSET {n \in owed \cup {last} : n > taken'}
    /\ caller' = None /\ UNCHANGED last

Fail(t) ==
    /\ caller = t
    /\ owed' \in SUBSET (owed \cup {last})
    /\ caller' = None /\ UNCHANGED <<last, taken>>

\* An answer is lost on the line or thrown away.
Forget == owed' \in SUBSET owed /\ UNCHANGED <<caller, last, taken>>

Next == Forget \/ \E t \in Tasks : Send(t) \/ Accept(t) \/ Fail(t)
Spec == Init /\ [][Next]_vars
=============================================================================

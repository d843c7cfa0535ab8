SPECIFICATION Spec
CONSTANTS
    CheckIns = {c1, c2, c3}
    Registers = {r1, r2}
    NoEvent = NoEvent
    MaxItems = 3
    FlushMax = 2
INVARIANT CriticalEventKept

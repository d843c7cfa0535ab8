SPECIFICATION FairSpec
CONSTANTS
    CheckIns = {c1}
    Registers = {r1}
    NoEvent = NoEvent
    MaxItems = 2
    FlushMax = 1
PROPERTY RetriedOnReconnect

SPECIFICATION TouchedSpec
CONSTANTS
    CheckIns = {c1, c2}
    Registers = {r1}
    NoEvent = NoEvent
    MaxItems = 2
    FlushMax = 1
INVARIANTS TypeOK FifoReplay EventAccounted OneWay
PROPERTIES LostOnlyUnnoticed RefinesOutbox QueueDrains

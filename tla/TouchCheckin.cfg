SPECIFICATION Spec
CONSTANTS
    Width = 16
    Debounce = 2
    Cooldown = 5
    Timeout = 5
    MaxPoll = 3
    MaxGives = 2
INVARIANTS
    TypeOK
    OneAttemptPerTouch
    WaitBounded
PROPERTIES
    AttemptsApart
    RestedTouchServed

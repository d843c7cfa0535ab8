SPECIFICATION FairSpec
CONSTANTS
    MaxSaves = 3
    MaxEvents = 3
INVARIANTS
    TypeOK
    SettingsApplied
    NeverGivesUp
    FlagsTrue
PROPERTIES
    SwitchesEnd
CHECK_DEADLOCK FALSE

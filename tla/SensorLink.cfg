SPECIFICATION Spec
CONSTANTS
    Tasks = {touch, ws, http}
    None = None
    MaxCommands = 3
INVARIANTS
    TypeOK
    ContextSound
    OverrunOnlyByLate
PROPERTIES
    OwnAnswer
    RefinesSensorLink
CHECK_DEADLOCK FALSE
SYMMETRY Symmetry

SPECIFICATION Spec
CONSTANTS
    Fingers = {f1, f2}
    None = None
    Tasks = {"ws", "http"}
    MaxTemplates = 2
    PageSize = 1
    IdModulus = 4
    Ids = {0, 1, 2, 5}
    MaxIds = 1
SYMMETRY Symmetric
INVARIANT RosterAccurate
PROPERTIES DeletesOnlyNamed IdentifyReportsPressed EnrollStoresUndisturbed
           NoTemplateOverwritten ListConsistent

SPECIFICATION Spec
CONSTANTS
    Fingers = {f1, f2}
    None = None
    Tasks = {"http"}
    MaxTemplates = 3
    PageSize = 2
    IdModulus = 4
    Ids = {0, 1, 2, 3, 4, 5}
    MaxIds = 2
SYMMETRY Symmetric
INVARIANT TypeOK
PROPERTY ListConsistent

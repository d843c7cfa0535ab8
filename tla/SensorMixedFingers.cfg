SPECIFICATION Spec
CONSTANTS
    Fingers = {f1, f2}
    None = None
    Tasks = {"touch", "ws"}
    MaxTemplates = 2
    PageSize = 1
    IdModulus = 4
    Ids = {0, 1, 2, 3, 4, 5}
    MaxIds = 2
PROPERTY EnrollStoresPressed

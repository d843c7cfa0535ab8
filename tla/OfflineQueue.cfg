SPECIFICATION Spec
CONSTANTS
    Tasks = {touch, ws, httpd}
    Consumer = touch
    Items = {e1, e2, e3, e4}
    NoItem = NoItem
    MaxItems = 3
SYMMETRY Symmetric
INVARIANTS TypeOK  AckRemovesPeeked
PROPERTY RefinesOfflineQueue

SPECIFICATION Spec
CONSTANTS
    Tasks = {touch, ws, httpd}
    Consumer = touch
    Items = {e1, e2, e3, e4}
    NoItem = NoItem
    MaxItems = 2
SYMMETRY Symmetric
PROPERTY AcceptedEventStored

SPECIFICATION Spec
CONSTANTS
    Orders = {o1}
    Users = {u1}
    NoUser = NoUser
    Patches = {p1}
    MaxChanges = 2
    MaxLog = 2
    MaxDisruptions = 0
PROPERTIES
    HandlerCancelsOnlyPending
CHECK_DEADLOCK FALSE

SPECIFICATION Spec
CONSTANTS
    Orders = {o1}
    Users = {u1}
    NoUser = NoUser
    Patches = {}
    MaxChanges = 2
    MaxLog = 2
    MaxDisruptions = 0
INVARIANTS
    NoPendingForInactive
CHECK_DEADLOCK FALSE

SPECIFICATION FairSpec
CONSTANTS
    Orders = {o1, o2}
    Users = {u1, u2}
    NoUser = NoUser
    Patches = {p1}
    MaxChanges = 2
    MaxLog = 2
    MaxDisruptions = 1
INVARIANTS
    TypeOK
    RowMatchesEvents
    HandlerCancelsOnce
    HandledMeansCancelled
    CommittedMeansCancelled
PROPERTIES
    
    ImplementsContract
    PendingOrdersAreCancelled
CHECK_DEADLOCK FALSE

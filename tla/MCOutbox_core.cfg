SPECIFICATION FairSpec
CONSTANTS
    Entries = {e1, e2, e3}
    NoEntry = NoEntry
    Clients = {}
    MaxRetries = 2
    BatchSize = 2
    StoreMayFail = FALSE
    MaxLog = 99
    MaxCount = 99
INVARIANTS
    TypeOK
    NoSilentLoss
    CopiesBounded
PROPERTIES
    OvertakesOnlyAfterFailure
    ImplementsContract
    EventuallySettled
CHECK_DEADLOCK FALSE

SPECIFICATION FairSpec
CONSTANTS
    Entries = {e1, e2}
    NoEntry = NoEntry
    Clients = {}
    MaxRetries = 2
    BatchSize = 2
    StoreMayFail = FALSE
    MaxLog = 99
    MaxCount = 99
PROPERTIES
    ExhaustedIsDeadLettered
CHECK_DEADLOCK FALSE

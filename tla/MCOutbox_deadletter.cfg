SPECIFICATION Spec
CONSTANTS
    Entries = {e1, e2, e3}
    NoEntry = NoEntry
    Clients = {}
    MaxRetries = 0
    BatchSize = 2
    StoreMayFail = FALSE
    MaxLog = 99
    MaxCount = 99
INVARIANTS
    DeadLetterOnce
SYMMETRY EntrySymmetry
CHECK_DEADLOCK FALSE

SPECIFICATION Spec
CONSTANTS
    Entries = {e1, e2}
    NoEntry = NoEntry
    Clients = {c1}
    MaxRetries = 2
    BatchSize = 2
    StoreMayFail = TRUE
    MaxLog = 3
    MaxCount = 2
INVARIANTS
    NoSilentLoss
    AtMostOneLateCopy
    DeadLetterUnused
PROPERTIES
    SentIsFinal
    ImplementsPromise
CONSTRAINT LogBound
SYMMETRY EntrySymmetry
CHECK_DEADLOCK FALSE

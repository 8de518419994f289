SPECIFICATION Spec
CONSTANTS
    Requests = {r1, r2, r3, r4}
    Emails = {m1, m2}
    NoEmail = NoEmail
INVARIANTS
    TypeOK
    DuplicatesOnlyByOverlap
    StatusIsLastAnnounced
    OldStatusWasReal
PROPERTIES
    ImplementsContract
CHECK_DEADLOCK FALSE

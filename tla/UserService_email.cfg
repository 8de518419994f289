SPECIFICATION Spec
CONSTANTS
    Requests = {r1, r2, r3}
    Emails = {m1}
    NoEmail = NoEmail
INVARIANT
    EmailUnique
CHECK_DEADLOCK FALSE

SPECIFICATION FairSpec
CONSTANTS
    Values = {inactive, empty, broken}
    EmptyValues = {empty}
    MalformedValues = {broken}
    MaxLength = 3
    MaxDisruptions = 2
INVARIANTS
    TypeOK
    CommittedWasSettled
PROPERTIES
    CommitNeverRegresses
    ImplementsContract
    EveryMessageSettles
CHECK_DEADLOCK FALSE

CONSTANTS
    MaxCommittee = 3
    NULL = NULL
SPECIFICATION Spec
INVARIANTS
    TypeOK
    MessageNeverAheadOfItsCommittee
PROPERTIES
    StopIsAnswered

CONSTANTS
    Callers = {g1, g2}
    Users <- MCUsers
    ThreadCounts <- MCThreadCounts
    Kinds <- MCKinds
    NULL = NULL
SPECIFICATION Spec
INVARIANTS
    TypeOK
PROPERTIES
    ThreadsWrittenUnderLock
    EveryCallReturns

CONSTANTS
    Clients = {c1, c2}
    UintBits = 4
    MaxHeight = 2
    MaxCycles = 2
    NULL = NULL
SPECIFICATION Spec
INVARIANT
    PendingStateIsOfItsHeader

CONSTANTS
    x = x
    a = a
    c = c
    d = d
    Committee <- MCCommittee
    Faulty <- MCFaulty
    Blocks = {b1, b2, bad}
    Valid = {b1, b2}
    Height = 4
    MaxRound = 1
    NULL = NULL
SPECIFICATION Spec
INVARIANTS
    OneBlockPerHeight

CONSTANTS
    MaxCommittee = 3
    NULL = NULL
SPECIFICATION Spec
INVARIANT MessageIsOfOneMoment

CONSTANTS
    o1 = o1
    o2 = o2
    o3 = o3
    Owners <- MCOwners
    Amounts = {1}
    CommitteeSize = 2
    BackupSize = 1
    LockPeriod = 1
    MaxStake = 2
    MaxHeight = 1
    MaxEpoch = 2
    MaxPending = 2
    NULL = NULL
SYMMETRY MCSymmetry
SPECIFICATION Spec
INVARIANTS
    TypeOK
    ElectionSeatsTheHighestStakes
    OneCommitteePerEpoch
    SeatedStakeIsKept
PROPERTIES
    ImplementsElection

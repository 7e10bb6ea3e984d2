CONSTANTS
    BlockChainVersion = 3
    Versions <- MCVersions
SPECIFICATION Spec
INVARIANTS
    TypeOK
    RunsOnWhatItNeeds
    DatabaseClosedAfterItsUsers

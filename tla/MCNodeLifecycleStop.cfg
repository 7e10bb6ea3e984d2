CONSTANTS
    BlockChainVersion = 3
    Versions <- MCVersions
SPECIFICATION Spec
INVARIANT StopTerminatesEverything

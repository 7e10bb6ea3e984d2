CONSTANTS
    NULL = NULL
    PosLockDifficulty = PosLockDifficulty
    GenesisGasLimit = 4712388
    MainnetGenesisHash <- MCMainnetGenesisHash
    TestnetGenesisHash <- MCTestnetGenesisHash
    MainnetChainConfig = 2
    TestnetChainConfig = 3
    DevnetChainConfig = 1
    SingleNodeChainConfig = 1
    AllMinervaProtocolChanges = 0
    Offered <- MCOffered
    Refused <- MCRefused
    MaxHeight = 3
    MaxCrashes = 2
SPECIFICATION Spec
INVARIANT MatchingGenesisIsAccepted

CONSTANTS
    Ends = {e1, e2}
    Codes = {"GetBlockHeadersMsg", "GetBlockBodiesMsg", "ReceiptsMsg", "StatusMsg"}
    Sizes = {1, 2}
    Versions = {63}
    MaxMsgs = 3
SPECIFICATION Spec
INVARIANTS

    PacketsAreConserved

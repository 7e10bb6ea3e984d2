CONSTANTS
    pk1 = pk1
    pk2 = pk2
    pk3 = pk3
    outsider = outsider
    Stranger = Stranger
    ZeroHash = ZeroHash
    Malformed = Malformed
    NULL = NULL
    PriKeys <- MCPriKeys
    Outsiders <- MCOutsiders
    Results <- MCResults
    Signs <- MCSigns
    VoteAgree = 1
    Blocks = {b1, b2}
    MaxSigns = 4
    MaxChanges = 3
SPECIFICATION Spec
INVARIANTS
    TypeOK
    MembersAreTheSigners
    DeliveryKeepsTheVote

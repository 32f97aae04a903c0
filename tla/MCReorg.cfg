SPECIFICATION ForkedSpec
CONSTANTS
    Node = {1, 2}
    ClaimId = {1, 2, 3, 4}
    Plausible <- OnePicky
    Byzantine = FALSE
    Window = 5
    RateLimited = FALSE
    HashLess <- MCHashLess
    MaxPendingClaims = 4
    MaxPendingCommits = 2
    MaxCommitRejects = 2
    Redelivery = TRUE
    PeersLeave = FALSE
    Ticking = {1, 2}
    TimelySync = FALSE
    MaxHeight = 3
    MaxView = 2
    MaxBoots = 3
INVARIANTS ChainsSound CommittedMatchesStore ViewAheadOfHead QuorumBacked
PROPERTY ImplementsForkChoice

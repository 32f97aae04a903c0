SPECIFICATION LaggingFairSpec
CONSTANTS
    Node = {1, 2}
    ClaimId = {1, 2, 3}
    Plausible <- AllPlausible
    Byzantine = TRUE
    Window = 5
    RateLimited = TRUE
    HashLess <- MCHashLess
    MaxPendingClaims = 4
    MaxPendingCommits = 1
    MaxCommitRejects = 2
    Redelivery = FALSE
    PeersLeave = FALSE
    Ticking = {1, 2}
    TimelySync = TRUE
    MaxHeight = 3
    MaxView = 1
    MaxBoots = 1
INVARIANTS TypeOK
PROPERTY Healing

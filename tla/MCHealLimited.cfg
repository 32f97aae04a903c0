SPECIFICATION SplitFairSpec
CONSTANTS
    Node = {1, 2}
    ClaimId = {1, 2, 3}
    Plausible <- AllPlausible
    Byzantine = TRUE
    Window = 5
    RateLimited = TRUE
    HashLess <- MCHashLess
    MaxPendingClaims = 4
    MaxPendingCommits = 2
    MaxCommitRejects = 2
    Redelivery = FALSE
    PeersLeave = FALSE
    Ticking = {1, 2}
    TimelySync = TRUE
    MaxHeight = 2
    MaxView = 1
    MaxBoots = 1
PROPERTY Healing

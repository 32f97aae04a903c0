SPECIFICATION QueuedSpec
CONSTANTS
    Node = {1, 2, 3}
    ClaimId = {1}
    Plausible <- AllPlausible
    Byzantine = FALSE
    Window = 5
    RateLimited = FALSE
    HashLess <- MCHashLess
    MaxPendingClaims = 4
    MaxPendingCommits = 2
    MaxCommitRejects = 2
    Redelivery = TRUE
    PeersLeave = TRUE
    Ticking = {2}
    TimelySync = FALSE
    MaxHeight = 1
    MaxView = 1
    MaxBoots = 1
INVARIANTS QuorumFrozen

SPECIFICATION OutrunSpec
CONSTANTS
    Node = {1, 2, 3}
    ClaimId = {1, 2, 3, 4}
    Plausible <- OnePicky
    Byzantine = FALSE
    Window = 0
    RateLimited = FALSE
    HashLess <- MCHashLess
    MaxPendingClaims = 4
    MaxPendingCommits = 2
    MaxCommitRejects = 2
    Redelivery = FALSE
    PeersLeave = TRUE
    Ticking = {1}
    TimelySync = FALSE
    MaxHeight = 2
    MaxView = 2
    MaxBoots = 1
INVARIANT NoSiblingProposals

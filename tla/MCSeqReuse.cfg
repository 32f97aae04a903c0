SPECIFICATION Spec
CONSTANTS
    Node = {1, 2}
    ClaimId = {1, 2}
    Plausible <- AllPlausible
    Byzantine = TRUE
    Window = 5
    RateLimited = FALSE
    HashLess <- MCHashLess
    MaxPendingClaims = 4
    MaxPendingCommits = 2
    MaxCommitRejects = 2
    Redelivery = TRUE
    PeersLeave = FALSE
    Ticking = {1, 2}
    TimelySync = FALSE
    MaxHeight = 2
    MaxView = 1
    MaxBoots = 2
INVARIANTS SignedIsAppendable

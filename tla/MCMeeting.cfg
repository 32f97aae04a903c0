SPECIFICATION MeetingFairSpec
CONSTANTS
    Node = {1, 2}
    ClaimId = {1, 2, 3}
    Plausible <- AllPlausible
    Byzantine = FALSE
    Window = 5
    RateLimited = FALSE
    HashLess <- MCHashLess
    MaxPendingClaims = 4
    MaxPendingCommits = 2
    MaxCommitRejects = 2
    Redelivery = FALSE
    PeersLeave = FALSE
    Ticking = {2}
    TimelySync = FALSE
    MaxHeight = 2
    MaxView = 1
    MaxBoots = 2
PROPERTY Healing ClaimsSealed

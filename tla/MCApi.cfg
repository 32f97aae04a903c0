SPECIFICATION ApiSpec
CONSTANTS
    Node = {"a", "b", "c"}
    Chat = {1, 2}
    Call <- MCCall
    CallNode <- MCCallNode
    Model = {"m", "x", "tiny-m"}
    EPort = {"p1"}
    EndsWith <- MCEndsWith
    Upload <- MCUpload
    MaxChunks = 2
    ParamsKnown = {"m"}
    Setups <- MCSetups
    Stream = {1, 2}
    Capacity = 2
    MaxCommits = 4
INVARIANTS TypeOK NoOrphan GivenRightModel SlotsHold ClaimsAreWork AnswerAgreed FilesWhole TempsAccounted GapsMarked
PROPERTY ChatsAnswered StreamsFollow
CHECK_DEADLOCK FALSE

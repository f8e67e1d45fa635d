SPECIFICATION SafeSpec
CONSTANTS
    MaxRequests = 2
    ClientRequests <- AllRequests
    Uses <- AnyUse
    Answers <- AllAnswers
    Continues = {"accept", "reject"}
    ReadTimeout = "set"
    Hangups = {"between", "within"}
INVARIANTS
    TypeOK
    RepliesInOrder
    AnsweredBeforeNext
    TwoReaders
    BlockedOnlyByService
    UpgradeExclusive

SPECIFICATION FairSpec
CONSTANTS
    MaxRequests = 2
    ClientRequests <- AllRequests
    Uses <- ReadingUses
    Answers <- Upgrading
    Continues = {"accept", "reject"}
    ReadTimeout = "none"
    Hangups = {"between"}
PROPERTIES
    EveryRequestAnswered
    ExpectAnswered
    UpgradeHappens

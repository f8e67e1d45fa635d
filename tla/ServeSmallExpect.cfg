SPECIFICATION FairSpec
CONSTANTS
    MaxRequests = 1
    ClientRequests <- OnlySmallExpecting
    Uses <- OnlyDrop
    Answers <- OnlyFixed
    Continues = {"accept"}
    ReadTimeout = "none"
    Hangups = {"between", "within"}
PROPERTIES
    ExpectAnswered

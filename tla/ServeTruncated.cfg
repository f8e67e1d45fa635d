SPECIFICATION SafeSpec
CONSTANTS
    MaxRequests = 1
    ClientRequests <- OnlyLarge
    Uses <- OnlyDrop
    Answers <- OnlyFixed
    Continues = {"accept"}
    ReadTimeout = "none"
    Hangups = {"between", "within"}
INVARIANTS
    OnlyCompleteRequests

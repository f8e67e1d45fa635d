SPECIFICATION SafeSpec
CONSTANTS
    MaxRequests = 2
    ClientRequests <- OnlyChunked
    Uses <- OnlyDrop
    Answers <- OnlyFixed
    Continues = {"accept"}
    ReadTimeout = "none"
    Hangups = {"between"}
INVARIANTS
    Aligned

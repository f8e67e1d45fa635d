SPECIFICATION SafeSpec
CONSTANTS
    MaxRequests = 3
    ClientRequests <- PipelinedRequests
    Uses <- ReadChunked
    Answers <- Unchunked
    Continues = {"accept", "reject"}
    ReadTimeout = "set"
    Hangups = {"between", "within"}
INVARIANTS
    Aligned

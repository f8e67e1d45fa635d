SPECIFICATION Spec
CONSTANTS
    MaxRequests = 2
    ClientRequests <- AllRequests
    Uses <- NoFailure
    Answers <- Upgrading
    Continues = {"accept", "reject"}
    ReadTimeout = "set"
    Hangups = {"between", "within"}
PROPERTIES
    Released

SPECIFICATION Spec
CONSTANTS
    MaxRequests = 2
    Replies <- AnyReply
INVARIANTS
    OwnResponse
    BodyIntact
    FailsForAReason
    ReusedWhenAllowed
PROPERTIES
    Returns

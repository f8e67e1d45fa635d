SPECIFICATION Spec
CONSTANTS
    MaxItems = 3
    Items = {"data", "empty", "trailers"}
    Endings = {"dropped", "aborted"}
    Encodings = {"chunked", "close"}
INVARIANTS
    InOrder
    Unabridged
    TrailersLast
PROPERTIES
    Streamed
    Finishes

SPECIFICATION Spec
CONSTANTS
    MaxReaders = 4
    MaxReads = 4
INVARIANTS
    TypeOK
    SoleHolder
    NoHangUp
    StreamKept
    ReadsInOrder
PROPERTIES
    EveryReaderServed
    TakesTurns

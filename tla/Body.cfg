SPECIFICATION Spec
CONSTANTS
    Handles = {"reader", "writer"}
    Kinds = {"Tcp", "Unix", "Rustls"}
    Limits = {"none", "set"}
    Bodies <- SmallBodies
    PeerBytes = 4
    Buf = 2
INVARIANTS
    SameBytes
    RestIntact
PROPERTIES
    WriteReturns
    LetsGo

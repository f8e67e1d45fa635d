SPECIFICATION Spec
CONSTANTS
    MaxConns = 3
    Settings <- SmallServers
INVARIANTS
    TypeOK
    FirstComeFirstServed
    SurvivesConnections
PROPERTIES
    EveryConnectionServed

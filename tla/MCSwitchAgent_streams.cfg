SPECIFICATION Spec
CONSTANTS
    ZeroAddr <- MCZeroAddr
    Settings <- MCSettings
INVARIANTS
    TypeOK
    StoredTargetInForce
    ForwardingComplete
    DestinationsArePeers
    StopsOnlyOnCollision
PROPERTY
    ImplementsMediaRouter
CHECK_DEADLOCK FALSE

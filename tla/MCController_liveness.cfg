\* Nobody vanishes; clients join at any time.
CONSTANTS
    c1 = c1
    c2 = c2
    c3 = c3
    Clients = {c1, c2, c3}
    MaxParticipants = 3
    Mids = {1}
    SessionIds = {7}
    IceKinds = {"ok"}
    SwitchPorts <- MCSwitchPorts1
    MayVanish = {}
    MaxBehind = 0
    None = None
SPECIFICATION FairSpec
CHECK_DEADLOCK FALSE
PROPERTY
    TransactionEnds

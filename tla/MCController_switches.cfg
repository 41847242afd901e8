\* Two switch endpoints that come and go, a client in each of two sessions.
CONSTANTS
    c1 = c1
    c2 = c2
    c3 = c3
    Clients = {c1, c2}
    MaxParticipants = 1
    Mids = {1}
    SessionIds = {7, 8}
    IceKinds = {"ok"}
    SwitchPorts <- MCSwitchPorts2
    MayVanish = {1, 2}
    MaxBehind = 1
    None = None
SPECIFICATION Spec
SYMMETRY ClientSymmetry
CHECK_DEADLOCK FALSE
INVARIANTS
    SwitchEntriesBacked

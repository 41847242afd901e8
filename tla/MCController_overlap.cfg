\* Two clients join; nobody vanishes.
CONSTANTS
    c1 = c1
    c2 = c2
    c3 = c3
    Clients = {c1, c2, c3}
    MaxParticipants = 3
    Mids = {1}
    SessionIds = {7}
    IceKinds = {"ok"}
    SwitchPorts <- MCSwitchPorts1
    MayVanish = {}
    MaxBehind = 1
    None = None
SPECIFICATION Spec
CHECK_DEADLOCK FALSE
INVARIANT
    ParticipantOnSwitch

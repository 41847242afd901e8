\* Three clients in one session; any of them may vanish at any time, the switch
\* stays, and each write to it is done before the next command is written.
CONSTANTS
    c1 = c1
    c2 = c2
    c3 = c3
    Clients = {c1, c2, c3}
    MaxParticipants = 3
    Mids = {1}
    SessionIds = {7}
    IceKinds = {"later"}
    SwitchPorts <- MCSwitchPorts1
    MayVanish = {c1, c2, c3}
    MaxBehind = 0
    None = None
SPECIFICATION Spec
SYMMETRY ClientSymmetry
CHECK_DEADLOCK FALSE
INVARIANTS
    TypeOK
    OneInitiator
    OneConnectionPerParticipant
    SwitchFollowsSession
    SendStreamKnownFirst
    AwaitedOfferOutstanding
    ReceivesOnlyWhatIsSent
PROPERTY
    InitiatorAnsweredWhenComplete

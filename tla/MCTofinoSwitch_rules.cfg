SPECIFICATION SwitchSpec
CONSTANTS
    Meetings = {1, 2}
    Addrs <- MCAddrs
    SSRCs = {10, 11, 12, 20, 30, 40, 50}
    EgressPorts <- MCEgressPorts
    MaxGroups = 2
    MaxNodes = 5
    MaxRids = 4
    TableSize = 5
    Servers = {"script", "adapter"}
    Streams <- MCStreams
    MaxQueue = 2
    MaxFaults = 1
INVARIANTS
    IdsDistinct
    RoutesInMeeting
    ReceiversReached
    NothingForgotten
    EndsOnlyIf
    ChecksAnswered
PROPERTY
    ImplementsMediaRouter
    RulesKept
CHECK_DEADLOCK FALSE

\* Two receivers; numbers wrap around.
CONSTANTS
    SeqMod = 16
    FrameMod = 16
    FirstSeq = 12
    Templates = {1, 2, 3}
    Targets = {0, 1, 2}
    MaxRetargets = 2
    MidFrame = FALSE
    Paths <- MCPaths

SPECIFICATION Spec
CHECK_DEADLOCK FALSE

INVARIANTS
    TypeOK
    GapFree
    NothingStarved
    StrictlyIncreasing

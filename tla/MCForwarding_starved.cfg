\* Two receivers; the target of the first changes.
CONSTANTS
    SeqMod = 16
    FrameMod = 16
    FirstSeq = 12
    Templates = {1, 2, 3}
    Targets = {0, 2}
    MaxRetargets = 1
    MidFrame = FALSE
    Paths <- MCFirstAdapts

SPECIFICATION Spec
CHECK_DEADLOCK FALSE

INVARIANTS
    StrictlyIncreasing

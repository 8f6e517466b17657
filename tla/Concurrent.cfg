SPECIFICATION FirstHeadSpec
CONSTANTS
    c1 = c1
    c2 = c2
    Calls <- TwoCalls
    Snapshots <- TwoHeads
    FaultPoints <- PostFaults
    MaxRuns = 2
    Parts = 2
    Window = 2
    ExtraSessions = TRUE
    Ageing = FALSE
    MaxPushes = 1
    MaxFaults = 1
    MaxRestarts = 0
CHECK_DEADLOCK FALSE
SYMMETRY CallSymmetry
INVARIANTS
    ClaimIsExclusive
    NoPartTwice
    RecordedReviewIsOnGitHub
PROPERTIES
    RunsSpec
    ReviewsComeOutInOrder

SPECIFICATION FirstHeadSpec
CONSTANTS
    c1 = c1
    c2 = c2
    Calls <- TwoCalls
    Snapshots <- TwoHeads
    FaultPoints <- AllFaultsButCleanup
    MaxRuns = 2
    Parts = 1
    Window = 9
    ExtraSessions = FALSE
    Ageing = TRUE
    MaxPushes = 1
    MaxFaults = 1
    MaxRestarts = 0
CHECK_DEADLOCK FALSE
SYMMETRY CallSymmetry
INVARIANTS
    DeliveryTypeOK
    NoNoticeForRunningRun
    RunningIsNewest
    OutcomeExplained
PROPERTIES
    ReviewsComeOutInOrder
    ReleasedClaimIsNeverPosted
    OutcomeIsFinal

SPECIFICATION DeliverySpec
CONSTANTS
    c1 = c1
    c2 = c2
    Calls <- OneCall
    Snapshots <- OneSnapshot
    FaultPoints <- AllFaults
    MaxRuns = 1
    Parts = 1
    Window = 9
    ExtraSessions = FALSE
    Ageing = FALSE
    MaxPushes = 0
    MaxFaults = 1
    MaxRestarts = 0
CHECK_DEADLOCK FALSE
INVARIANTS PublishFailedMeansNotPosted

SPECIFICATION FairDeliverySpec
CONSTANTS
    c1 = c1
    c2 = c2
    Calls <- OneCall
    Snapshots <- OneSnapshot
    FaultPoints <- LateFaults
    MaxRuns = 2
    Parts = 1
    Window = 9
    ExtraSessions = FALSE
    Ageing = TRUE
    MaxPushes = 1
    MaxFaults = 1
    MaxRestarts = 1
CHECK_DEADLOCK FALSE
PROPERTIES
    EveryRunEnds
    NoSilentFailure

SPECIFICATION RecordsSpec
CONSTANTS
    LastFinding = 3
    LineOf <- Lines
    Proposed <- Proposals
    Hunks <- TwoHunks
    MaxRange = 2
    Limit = 2
    Batches <- TwoBatches
    Disputed = {1}
    MaxRuns = 2
    MaxCalls = 2
CHECK_DEADLOCK FALSE
INVARIANTS
    RecordsTypeOK
    
    PatchesFitTheDiff
    SelectionIsByPriority

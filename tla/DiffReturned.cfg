SPECIFICATION FileIndexSpec
CONSTANTS
    c1 = c1
    c2 = c2
    Calls <- TwoCalls
    Paths <- FourPaths
    Heads <- TwoHeads
    Listing <- SmallChange
    Status <- PathStatus
    Weights <- Sizes
    Bare <- OneBare
    PerPage <- TwoPerPage
    MaxFiles = 3
    PageBytes = 2
    DiffBytes = 4
    Budgets <- TwoBudgets
    ListLimit = 1
    Ranges <- OneRange
    MaxCalls = 2
    MaxFaults = 0
CHECK_DEADLOCK FALSE
INVARIANTS
    CompleteMeansReturned

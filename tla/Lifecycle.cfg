SPECIFICATION LifecycleSpec
CONSTANTS
    f1 = f1
    f2 = f2
    v1 = v1
    v2 = v2
    Findings <- TwoFindings
    Versions <- TwoVersions
    Limit = 1
    MaxRuns = 3
    MaxPushes = 1
    MaxVerdicts = 1
    MaxTakenBack = 1
CHECK_DEADLOCK FALSE
SYMMETRY Symmetry
INVARIANTS
    LifecycleTypeOK
    ReferencesNameOneFinding
PROPERTIES
    AccountsForOpenFindings
    BoardSpec

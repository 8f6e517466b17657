SPECIFICATION UpgradeSpec
CONSTANTS
    SchemaVersion = 15
    Findings <- OneFinding
    Databases <- FiveAges
    MaxRuns = 2
    MaxPublications = 3
    MaxInits = 1
    MaxStops = 1
CHECK_DEADLOCK FALSE
INVARIANTS
    UpgradeTypeOK
    ReadyMeansUpgraded
PROPERTIES
    OutcomesSurvive
    RerunIsHarmless
    EveryUpgradeEnds

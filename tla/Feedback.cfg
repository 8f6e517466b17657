SPECIFICATION FeedbackSpec
CONSTANTS
    c1 = c1
    c2 = c2
    h1 = h1
    h2 = h2
    f1 = f1
    Comments <- TwoComments
    Handlers <- TwoHandlers
    Findings <- OneFinding
    Commands <- EveryCommand
    MaxReviews = 2
    MaxDeliveries = 3
    MaxFaults = 1
CHECK_DEADLOCK FALSE
SYMMETRY Symmetry
INVARIANTS
    FeedbackTypeOK
    RecordedOnce
    ExplainedOnce
    ReactionsAgree
PROPERTIES
    RecordsAreOfTheCurrentReview

SPECIFICATION SuggestionSpec
CONSTANTS
    x1 = x1
    x2 = x2
    x3 = x3
    NoOne = NoOne
    Publishers <- ThreePublishers
    Keys <- ThreeKeys
    Offers <- FewOffers
    Limit = 2
    MaxReviews = 2
    Window = 9
    Ageing = TRUE
    Overlapping = FALSE
    LateLanding = TRUE
    MaxMoves = 1
    MaxFaults = 1
    MaxRestarts = 1
CHECK_DEADLOCK FALSE
SYMMETRY Symmetry
INVARIANTS
    SuggestionTypeOK
    NoSuggestionTwice
    OfferedSuggestionsAreThere
PROPERTIES
    LiveClaimIsRespected

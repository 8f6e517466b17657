--------------------------- MODULE MCFeedbackBridge ---------------------------
(* FeedbackBridge on small instances.                                        *)
EXTENDS FeedbackBridge, TLC

CONSTANTS c1, c2, h1, h2, f1

TwoComments == {c1, c2}
TwoHandlers == {h1, h2}
OneFinding == {f1}

\* The commands of an allowed author, one for those that are refused alike, and
\* a decision by the others, one of whom may ask for a review as well.
EveryCommand ==
    [author : {"allowed"}, kind : {"finding", "scope", "missed", "malformed"},
     finding : Findings]
        \cup [author : {"member", "outsider"}, kind : {"finding"}, finding : Findings]
        \cup [author : {"member"}, kind : {"review"}, finding : Findings]

Symmetry == Permutations(Comments) \cup Permutations(Handlers)
=============================================================================

-------------------------- MODULE MCReviewDelivery --------------------------
(* ReviewDelivery on small instances.                                       *)
EXTENDS ReviewDelivery

CONSTANTS c1, c2

TwoHeads == {[base |-> "b1", head |-> "h1"], [base |-> "b1", head |-> "h2"]}
OneSnapshot == {[base |-> "b1", head |-> "h1"]}

TwoCalls == {c1, c2}
OneCall == {c1}

AllFaults == Steps
LateFaults == {"cleanup", "notice", "locked"}
PostFaults == {"list", "reverify", "post", "mark", "locked"}
AllFaultsButCleanup == Steps \ {"cleanup"}

CallSymmetry == Permutations(Calls)

\* The heads play the same part: the pull request starts on the first.
FirstHead == DeliveryInit /\ pr.snap.head = "h1"
FirstHeadSpec == FirstHead /\ [][DeliveryNext]_vars
=============================================================================

------------------------ MODULE MCSuggestionDelivery ------------------------
(* SuggestionDelivery on small instances.                                   *)
EXTENDS SuggestionDelivery, TLC

CONSTANTS x1, x2, x3

ThreePublishers == {x1, x2, x3}

ThreeKeys == 1..3

\* None, as many as a review takes, and one more.
FewOffers == {{}, {1, 2}, {2, 3}, {1, 2, 3}}

Symmetry == Permutations(Publishers)
=============================================================================

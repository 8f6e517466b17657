------------------------- MODULE MCFindingLifecycle -------------------------
(* FindingLifecycle on small instances.                                     *)
EXTENDS FindingLifecycle, TLC

CONSTANTS f1, f2, v1, v2

TwoFindings == {f1, f2}
TwoVersions == {v1, v2}

\* Findings are names without an order.
Symmetry == Permutations(Findings)
=============================================================================

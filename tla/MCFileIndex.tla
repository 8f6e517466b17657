----------------------------- MODULE MCFileIndex -----------------------------
(* FileIndex on small instances: three changed files, one of them without   *)
(* a patch and one that may be too large, and one path the pull request     *)
(* leaves alone until it is pushed to.                                      *)
EXTENDS FileIndex, TLC

CONSTANTS c1, c2

TwoCalls == {c1, c2}
FourPaths == 1..4
TwoHeads == 0..1
Changes == 0 :> {1, 2, 4} @@ 1 :> {2, 3}
SmallChange == 0 :> {1, 4} @@ 1 :> {1}
PathStatus == 1 :> "removed" @@ 2 :> "modified" @@ 3 :> "added" @@ 4 :> "added"

\* File 2 fits only in a page of its own, or nowhere.
Sizes == {[p \in FourPaths |-> IF p = 2 THEN n ELSE 1] : n \in {2, 4}}
OneBare == {4}
TwoPerPage == <<2>>
TwoBudgets == {1, 4}
OneRange == {1}

Symmetry == Permutations(Calls)
=============================================================================

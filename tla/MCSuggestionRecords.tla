------------------------ MODULE MCSuggestionRecords ------------------------
(* SuggestionRecords on small instances.                                    *)
EXTENDS SuggestionRecords

Patch(first, last, text) == [first |-> first, last |-> last, text |-> text]

\* Three findings on the three lines of two adjacent hunks.
Lines == [f \in Findings |-> <<2, 1, 3>>[f]]
TwoHunks == {[first |-> 1, last |-> 2, added |-> {1, 2}],
             [first |-> 3, last |-> 3, added |-> {3}]}

\* All findings at once, or one of them again.
TwoBatches == {Findings, {2}}

\* A patch that reaches into the next hunk, and two for one finding, one of
\* them on a line of another finding's.
Proposals ==
    [f \in Findings |->
        <<{Patch(2, 2, "this"), Patch(2, 3, "this")},
          {Patch(1, 1, "this"), Patch(1, 2, "that")},
          {Patch(3, 3, "this")}>>[f]]
=============================================================================

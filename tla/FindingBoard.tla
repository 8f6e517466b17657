----------------------------- MODULE FindingBoard -----------------------------
(***************************************************************************)
(* What a reader of a pull request may rely on: only a review that comes   *)
(* out, or is taken back, changes which findings are open, reviews do so   *)
(* one at a time, and as long as none has been taken back, none leaves     *)
(* more open than the limit.                                               *)
(***************************************************************************)
EXTENDS Naturals, FiniteSets

CONSTANTS Findings, Limit

VARIABLES
    round,      \* reviews that are out
    open,       \* findings they leave open
    disturbed   \* a review has been taken back

BoardInit == round = 0 /\ open = {} /\ disturbed = FALSE

\* The next review comes out: what it closes is no longer open, what it lists
\* is, and within the limit.
ComesOut ==
    /\ round' = round + 1
    /\ open' \in SUBSET Findings
    /\ ~disturbed => Cardinality(open') <= Limit
    /\ UNCHANGED disturbed

\* A review is taken back: what it closed may be open again, what it listed
\* may not.
IsTakenBack ==
    /\ round > 0 /\ round' = round - 1
    /\ open' \in SUBSET Findings
    /\ disturbed' = TRUE

BoardNext == ComesOut \/ IsTakenBack

BoardSpec == BoardInit /\ [][BoardNext]_<<round, open, disturbed>>
=============================================================================

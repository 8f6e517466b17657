---------------------------- MODULE ReviewLedger ----------------------------
(***************************************************************************)
(* What posting reviews promises the readers of a pull request, without    *)
(* runs, claims, comments or failures: reviews come out one at a time, in  *)
(* the order of the runs that made them and each at most once; the n-th    *)
(* to come out is called review n; and the pull request shows the last one *)
(* as its current review.                                                  *)
(***************************************************************************)
EXTENDS Integers, Sequences

CONSTANT MaxRuns    \* bound: the runs of the pull request

VARIABLES
    ledger,     \* the runs whose reviews came out; the position is the number
    shown       \* the reviews shown as current

LedgerInit == ledger = <<>> /\ shown = {}

Publish(r) ==
    /\ \A n \in DOMAIN ledger : ledger[n] < r
    /\ ledger' = Append(ledger, r)
    /\ shown' = {r}

LedgerNext == \E r \in 1..MaxRuns : Publish(r)

LedgerSpec == LedgerInit /\ [][LedgerNext]_<<ledger, shown>>
=============================================================================

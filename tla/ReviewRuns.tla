----------------------------- MODULE ReviewRuns -----------------------------
(***************************************************************************)
(* The review_runs table of memory_runs.py for one pull request: one row   *)
(* per /review request, every SQL transaction that changes a row, and the  *)
(* rules no caller can break.  The callers (tool handlers, publisher,      *)
(* operator command) are in ReviewDelivery; here any caller may run any    *)
(* transaction at any time, so what is shown here holds whoever calls.     *)
(*                                                                         *)
(* A row's heartbeat is kept only as far as the stale cutoff sees it:      *)
(* "stale" is TRUE once last_heartbeat_at is older than the cutoff.        *)
(***************************************************************************)
EXTENDS Integers

CONSTANTS
    Snapshots,  \* pull-request snapshots, records [base, head] of commit SHAs
    MaxRuns     \* bound: how many runs the model starts

ASSUME RunsAssumption == MaxRuns \in Nat

VARIABLES
    runs,       \* runs[r]: the row with id r
    last        \* the last id SQLite's AUTOINCREMENT handed out

runVars == <<runs, last>>

Runs == 1..MaxRuns

RunningPhases == {"accepted", "fetching_pr", "collecting_diff",
                  "reviewing", "rendering", "publishing"}

FailureCodes == {"review_failed", "stale_timeout", "snapshot_superseded",
                 "review_deliver_error", "unexpected_review_deliver_failure",
                 "publish_failed", "pull_request_changed"}

\* An empty SHA is "unknown", an empty failure_code "none".
\* The row of an id not used yet.  "notice" says failure_status_comment_id
\* is set.
NoSnapshot == [base |-> "unknown", head |-> "unknown"]

NoRun == [status |-> "none", phase |-> "none", code |-> "none", snap |-> NoSnapshot,
          stale |-> FALSE, notice |-> FALSE]

RunRow == [status : {"none", "running", "generated", "failed"},
           phase  : RunningPhases \cup {"none", "posted", "failed"},
           code   : FailureCodes \cup {"none"},
           snap   : Snapshots \cup {NoSnapshot},
           stale  : BOOLEAN,
           notice : BOOLEAN]

Running(r) == runs[r].status = "running"

Terminal(r) == runs[r].status \in {"generated", "failed"}

\* snapshot_changed_fields: an empty SHA is unknown, not a mismatch.
ChangedFields(recorded, observed) ==
    {f \in {"base", "head"} : /\ recorded[f] # "unknown"
                              /\ observed[f] # "unknown"
                              /\ recorded[f] # observed[f]}

-----------------------------------------------------------------------------
RunsInit == /\ runs = [r \in Runs |-> NoRun]
            /\ last = 0

\* UPDATE review_runs SET status = 'failed' ... : every terminal write also
\* moves the heartbeat to completed_at.
Failed(row, code) ==
    [row EXCEPT !.status = "failed", !.phase = "failed", !.code = code,
                !.stale = FALSE]

\* start_run's second transaction, when a running run already covers the
\* snapshot: it answers "duplicate" and changes nothing.
IsDuplicate(snap) ==
    \E r \in Runs : Running(r) /\ ChangedFields(runs[r].snap, snap) = {}

\* Broken: the run on another snapshot is left running.
StartRunAlongside(snap) ==
    /\ last < MaxRuns
    /\ ~IsDuplicate(snap)
    /\ last' = last + 1
    /\ runs' = [runs EXCEPT ![last + 1].status = "running",
                            ![last + 1].phase = "accepted",
                            ![last + 1].snap = snap]

\* start_run's second transaction otherwise: the active run on another
\* snapshot is superseded and the new row inserted, in one BEGIN IMMEDIATE.
StartRun(snap) ==
    /\ last < MaxRuns
    /\ ~IsDuplicate(snap)
    /\ last' = last + 1
    /\ runs' = [r \in Runs |->
                  IF r = last + 1
                  THEN [NoRun EXCEPT !.status = "running", !.phase = "accepted",
                                     !.snap = snap]
                  ELSE IF Running(r)
                  THEN Failed(runs[r], "snapshot_superseded")
                  ELSE runs[r]]

\* Broken: a heartbeat on a row of any status.
UpdateRunPhaseAnyRow(r, phase) ==
    /\ runs' = [runs EXCEPT ![r].phase = phase, ![r].stale = FALSE]
    /\ UNCHANGED last

\* update_run_phase: a heartbeat, only on a running row.
UpdateRunPhase(r, phase) ==
    /\ Running(r)
    /\ runs' = [runs EXCEPT ![r].phase = phase, ![r].stale = FALSE]
    /\ UNCHANGED last

\* complete_run(status = 'failed') and the run half of
\* mark_publication_failed: a losing completer is a no-op.
FailRun(r, code) ==
    /\ runs' = IF Running(r) THEN [runs EXCEPT ![r] = Failed(@, code)]
                             ELSE runs
    /\ UNCHANGED last

\* Broken: the row becomes generated whatever it was.
PostRunAnyRow(r) ==
    /\ runs' = [runs EXCEPT ![r].status = "generated", ![r].phase = "posted",
                            ![r].stale = FALSE]
    /\ UNCHANGED last

\* The run half of mark_publication_posted: only a running row moves.
PostRun(r) ==
    /\ runs' = IF Running(r)
               THEN [runs EXCEPT ![r].status = "generated",
                                 ![r].phase = "posted", ![r].stale = FALSE]
               ELSE runs
    /\ UNCHANGED last

\* Broken: runs that are publishing are never called stale.
StaleRunsNotPublishing ==
    {r \in Runs : Running(r) /\ runs[r].stale /\ runs[r].phase # "publishing"}

\* mark_stale_runs_failed: the running rows whose heartbeat passed the cutoff.
StaleRuns == {r \in Runs : Running(r) /\ runs[r].stale}

\* Its UPDATE repeats the condition of the SELECT that found the rows: of
\* those, the ones that are stale still are failed.
FailStaleRuns(found) ==
    /\ runs' = [r \in Runs |-> IF r \in found \cap StaleRuns
                               THEN Failed(runs[r], "stale_timeout")
                               ELSE runs[r]]
    /\ UNCHANGED last

\* record_failure_status_comment is not gated on the status of the row.
RecordNotice(r) ==
    /\ r <= last
    /\ runs' = [runs EXCEPT ![r].notice = TRUE]
    /\ UNCHANGED last

\* clear_failure_status_comment for every row of the pull request that has
\* a stored comment (failure_status_comments_for_pr).
ClearNotices ==
    /\ runs' = [r \in Runs |-> [runs[r] EXCEPT !.notice = FALSE]]
    /\ UNCHANGED last

\* Broken: only the runs the stale cleanup ended get a notice.
NeedsNoticeOfStale(r) ==
    runs[r].status = "failed" /\ ~runs[r].notice /\ runs[r].code = "stale_timeout"

\* failed_runs_needing_status, for one row.
NeedsNotice(r) ==
    /\ runs[r].status = "failed"
    /\ ~runs[r].notice
    /\ ~(runs[r].code = "snapshot_superseded" /\ r < last)

\* The clock: the last heartbeat of r falls behind the stale cutoff.
PassCutoff(r) ==
    /\ Running(r)
    /\ runs' = [runs EXCEPT ![r].stale = TRUE]
    /\ UNCHANGED last

RunsNext ==
    \/ \E snap \in Snapshots : StartRun(snap)
    \/ \E r \in Runs, phase \in RunningPhases : UpdateRunPhase(r, phase)
    \/ \E r \in Runs, code \in FailureCodes : FailRun(r, code)
    \/ \E r \in Runs : PostRun(r)
    \/ \E r \in Runs : PassCutoff(r)
    \/ \E r \in Runs : RecordNotice(r)
    \/ \E found \in SUBSET Runs : FailStaleRuns(found)
    \/ ClearNotices

RunsSpec == RunsInit /\ [][RunsNext]_runVars

-----------------------------------------------------------------------------
\* Rows hold values of their columns, and ids above the last are unused.
RunsTypeOK ==
    /\ last \in 0..MaxRuns
    /\ runs \in [Runs -> RunRow]
    /\ \A r \in Runs : (runs[r].status = "none") <=> (r > last)

\* Only the newest run of a pull request may be running, so at most one is:
\* starting a run retires every run before it or is refused as a duplicate,
\* and nothing revives an older one (start_run, uq_review_runs_active_pr).
RunningIsNewest == \A r \in Runs : Running(r) => r = last

\* An operator reading the ledger can trust the three outcome columns
\* together: whichever of completer, publisher, supersession and stale
\* cleanup got to the row, the phase is the one of the status and a failure,
\* and only a failure, has a code.
OutcomeExplained ==
    \A r \in Runs :
        /\ Running(r) => runs[r].phase \in RunningPhases /\ runs[r].code = "none"
        /\ runs[r].status = "generated" =>
               runs[r].phase = "posted" /\ runs[r].code = "none"
        /\ runs[r].status = "failed" =>
               runs[r].phase = "failed" /\ runs[r].code # "none"

\* A run that ended stays ended with the outcome it first got, whichever
\* caller is late (complete_run's "duplicate or losing completer is a clean
\* no-op"), and no run ever changes the snapshot it was started on.
OutcomeIsFinal ==
    [][\A r \in Runs :
          /\ Terminal(r) => /\ runs'[r].status = runs[r].status
                            /\ runs'[r].code = runs[r].code
          /\ r <= last => runs'[r].snap = runs[r].snap]_runVars
=============================================================================

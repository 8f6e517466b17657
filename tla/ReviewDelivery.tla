--------------------------- MODULE ReviewDelivery ---------------------------
(***************************************************************************)
(* Reviewing one pull request, from /review to the posted comments: the    *)
(* tool handlers of tools.py, the publisher of review_publisher.py, the    *)
(* review_publications table of memory_publications.py and the operator's  *)
(* stale-run command, over the review_runs table of ReviewRuns.            *)
(*                                                                         *)
(* A call is a model session in the gateway process and the tool call it   *)
(* is in; its pc names the next step, a step being one SQLite transaction  *)
(* or one GitHub request.  The pull request moves, GitHub requests fail,   *)
(* the container restarts and heartbeats age between any two steps.        *)
(***************************************************************************)
EXTENDS ReviewRuns, SequencesExt

CONSTANTS
    Calls,          \* sessions of the gateway
    Parts,          \* comments a review body splits into
    ExtraSessions,  \* TRUE: a session told "duplicate" goes on with that run
    Ageing,         \* TRUE: a run may stay silent past the stale cutoff
    FaultPoints,    \* steps whose GitHub request may fail; "locked", if the
                    \* database may refuse a write that is best effort
    Window,         \* bot comments within the 300 the publisher lists
    MaxPushes,      \* bound: pushes, rebases or closings of the pull request
    MaxFaults,      \* bound: failed GitHub requests and database errors
    MaxRestarts     \* bound: container restarts

ASSUME DeliveryAssumption ==
    /\ Parts \in Nat \ {0} /\ Window \in Nat
    /\ ExtraSessions \in BOOLEAN /\ Ageing \in BOOLEAN
    /\ MaxPushes \in Nat /\ MaxFaults \in Nat /\ MaxRestarts \in Nat
    /\ Snapshots # {}

VARIABLES
    pr,        \* the pull request on GitHub: its snapshot and whether open
    subjects,  \* the snapshots of review_subjects, in order of their ids
    pubs,      \* pubs[r]: the review_publications row of run r
    comments,  \* the review comments on GitHub in order; the index is the id
    notices,   \* the runs whose failure-status comment is on GitHub
    calls,     \* calls[c]: the session c
    reaper,    \* the runs the operator's command found stale and fails next
    left       \* what is left of the bounds

others == <<pr, subjects, pubs, comments, notices, calls, reaper, left>>
vars == <<runs, last, pr, subjects, pubs, comments, notices, calls, reaper,
          left>>

-----------------------------------------------------------------------------
(* State.                                                                  *)

PullStates == [snap : Snapshots, open : BOOLEAN]

Goals == {"collecting_diff", "reviewing", "rendering"}

PublishSteps == {"verify", "list", "reverify", "post"}

Steps == PublishSteps \cup
         {"idle", "begin_reap", "begin_fail", "begin_start", "begin_phase",
          "fetch", "validate", "record", "session", "finalize", "phase", "claim", "mark",
          "supersede", "cleanup", "notice"}

Call == [pc : Steps, run : 0..MaxRuns, goal : Goals, pull : PullStates,
         listed : Nat, ids : Seq(Nat), already : BOOLEAN, terminal : BOOLEAN,
         stale : SUBSET Runs]

AnyPull == [snap |-> CHOOSE s \in Snapshots : TRUE, open |-> TRUE]

\* A session with no run, and one of run r between two tool calls.
Idle == [pc |-> "idle", run |-> 0, goal |-> "reviewing", pull |-> AnyPull,
         listed |-> 0, ids |-> <<>>, already |-> FALSE, terminal |-> FALSE,
         stale |-> {}]

Session(r) == [Idle EXCEPT !.pc = "session", !.run = r]

DeliveryStatus == {"none", "generated", "posting", "posted",
                   "publish_failed", "stale"}

\* "target" is the base and head to publish on, "ids" are the rows of
\* review_publication_comments (comment_id is the first), "by" is
\* superseded_by_publication_id, "history" says how the rewriting of a
\* superseded comment ended.
PubRow == [status : DeliveryStatus, target : Snapshots \cup {NoSnapshot},
           number : Nat, ids : Seq(Nat),
           by : 0..MaxRuns, history : {"none", "rendered", "failed"}]

NoPub == [status |-> "none", target |-> NoSnapshot, number |-> 0,
          ids |-> <<>>, by |-> 0, history |-> "none"]

Posted(r) == pubs[r].status = "posted" /\ pubs[r].ids # <<>>

\* _latest_publication: posted, not superseded.
Current == {r \in Runs : Posted(r) /\ pubs[r].by = 0}

\* _next_review_number: one past the largest number of a posted review.
NextNumber ==
    CHOOSE n \in 1..(MaxRuns + 1) :
        /\ \A r \in Runs : Posted(r) => pubs[r].number < n
        /\ n = 1 \/ \E r \in Runs : Posted(r) /\ pubs[r].number = n - 1

\* Broken: a publisher takes over nothing of what is on GitHub already.
FoundNothing(c) == [k \in {} |-> 0]

\* _publication_comments over the listing call c read: part -> comment id.
Found(c) ==
    [k \in {comments[i].part : i \in {j \in 1..calls[c].listed :
                                        comments[j].run = calls[c].run}} |->
        CHOOSE i \in 1..calls[c].listed :
            /\ comments[i] = [run |-> calls[c].run, part |-> k]
            /\ \A j \in (i + 1)..calls[c].listed :
                   comments[j] # [run |-> calls[c].run, part |-> k]]

At(c, step) == calls[c].pc = step

Go(c, step) == calls' = [calls EXCEPT ![c].pc = step]

Become(c, call) == calls' = [calls EXCEPT ![c] = call]

Spend(what) == left[what] > 0 /\ left' = [left EXCEPT ![what] = @ - 1]

DeliveryInit ==
    /\ RunsInit
    /\ pr \in [snap : Snapshots, open : {TRUE}]
    /\ subjects = <<>>
    /\ pubs = [r \in Runs |-> NoPub]
    /\ comments = <<>>
    /\ notices = {}
    /\ calls = [c \in Calls |-> Idle]
    /\ reaper = {}
    /\ left = [push |-> MaxPushes, fault |-> MaxFaults, restart |-> MaxRestarts]

-----------------------------------------------------------------------------
(* How a handler ends.                                                     *)

\* Broken: the handler posts its notice and leaves the run alone.
HandlerErrorKeepsRun(c, code) ==
    /\ IF calls[c].goal = "rendering" THEN Go(c, "notice") ELSE Become(c, Idle)
    /\ UNCHANGED runVars

\* _mark_run_failed: best effort, it swallows every exception.
MarkRunFailed(c, code) ==
    \/ FailRun(calls[c].run, code)
    \/ "locked" \in FaultPoints /\ UNCHANGED runVars

\* The except clauses of review_begin, of the reviewing tools and of
\* review_deliver.  Only delivery goes on to post a failure status, whatever
\* has become of the run.
HandlerError(c, code) ==
    \/ /\ calls[c].goal = "collecting_diff"
       /\ MarkRunFailed(c, "review_failed")
       /\ Become(c, Idle)
    \/ /\ calls[c].goal = "reviewing"
       /\ Become(c, Session(calls[c].run))
       /\ UNCHANGED runVars
    \/ /\ calls[c].goal = "rendering"
       /\ MarkRunFailed(c, code)
       /\ Go(c, "notice")

\* _raise_unless_run_is_active on a run that ended: a superseded run stops
\* the turn, any other end is an error of the handler.
LostRun(c) ==
    /\ ~Running(calls[c].run)
    /\ IF runs[calls[c].run].code = "snapshot_superseded"
       THEN Become(c, Idle) /\ UNCHANGED runVars
       ELSE HandlerError(c, "review_deliver_error")

-----------------------------------------------------------------------------
(* review_begin.                                                           *)

Beginning ==
    {c \in Calls : calls[c].pc \in {"begin_reap", "begin_fail", "begin_start"}}

\* GET the pull request, which must be open.  Bound: once MaxRuns runs are
\* started or on their way, only a review_begin that is to be a duplicate is
\* let in, and goes no further if its run ends before it gets there.
BeginFetch(c) ==
    /\ At(c, "idle")
    /\ \/ last + Cardinality(Beginning) < MaxRuns
       \/ ExtraSessions /\ IsDuplicate(pr.snap)
    /\ pr.open
    /\ Become(c, [Idle EXCEPT !.pc = "begin_reap", !.pull = pr,
                              !.goal = "collecting_diff"])
    /\ UNCHANGED <<runVars, pr, subjects, pubs, comments, notices, left, reaper>>

\* mark_stale_runs_failed: sqlite3 begins a transaction at the first UPDATE,
\* so the stale runs are found by a SELECT before it.  The claims released
\* are those of the runs found, failed or not.
ReapStale(found) ==
    /\ FailStaleRuns(found)
    /\ pubs' = [r \in Runs |->
                  IF r \in found /\ pubs[r].status = "posting"
                  THEN [pubs[r] EXCEPT !.status = "publish_failed"]
                  ELSE pubs[r]]

\* start_run ends the stale runs of the pull request first.
BeginReap(c) ==
    /\ At(c, "begin_reap")
    /\ calls' = [calls EXCEPT ![c].pc = IF StaleRuns = {} THEN "begin_start"
                                                          ELSE "begin_fail",
                              ![c].stale = StaleRuns]
    /\ UNCHANGED <<runVars, pr, subjects, pubs, comments, notices, left, reaper>>

BeginFailStale(c) ==
    /\ At(c, "begin_fail")
    /\ ReapStale(calls[c].stale)
    /\ calls' = [calls EXCEPT ![c].pc = "begin_start", ![c].stale = {}]
    /\ UNCHANGED <<pr, subjects, comments, notices, left, reaper>>

\* start_run's own transaction, on the snapshot read before all this.
BeginDuplicate(c) ==
    /\ At(c, "begin_start")
    /\ IsDuplicate(calls[c].pull.snap)
    /\ Become(c, IF ExtraSessions
                 THEN Session(CHOOSE r \in Runs : Running(r))
                 ELSE Idle)
    /\ UNCHANGED <<runVars, pr, subjects, pubs, comments, notices, left, reaper>>

BeginStart(c) ==
    /\ At(c, "begin_start")
    /\ StartRun(calls[c].pull.snap)
    /\ calls' = [calls EXCEPT ![c].pc = "begin_phase", ![c].run = last + 1]
    /\ UNCHANGED <<pr, subjects, pubs, comments, notices, left, reaper>>

\* The phase fetching_pr, then the changed files and the exact snapshot.
BeginPhase(c) ==
    /\ At(c, "begin_phase")
    /\ \/ UpdateRunPhase(calls[c].run, "fetching_pr") /\ Go(c, "fetch")
       \/ LostRun(c)
    /\ UNCHANGED <<pr, subjects, pubs, comments, notices, left, reaper>>

-----------------------------------------------------------------------------
(* A session of a run, and _review_run_snapshot in front of its tools.     *)

\* The model calls a reviewing tool, delivers, or its turn is over.
Work(c, goal) ==
    /\ At(c, "session")
    /\ goal \in {"reviewing", "rendering"}
    /\ calls' = [calls EXCEPT ![c].pc = "fetch", ![c].goal = goal]
    /\ UNCHANGED <<runVars, pr, subjects, pubs, comments, notices, left, reaper>>

EndTurn(c) ==
    /\ At(c, "session")
    /\ Become(c, Idle)
    /\ UNCHANGED <<runVars, pr, subjects, pubs, comments, notices, left, reaper>>

\* The active check and the GET after it.
SnapshotFetch(c) ==
    /\ At(c, "fetch")
    /\ \/ /\ Running(calls[c].run)
          /\ calls' = [calls EXCEPT ![c].pc = "validate", ![c].pull = pr]
          /\ UNCHANGED runVars
       \/ LostRun(c)
    /\ UNCHANGED <<pr, subjects, pubs, comments, notices, left, reaper>>

\* The GET fails, or the model passed another head than the run's.
SnapshotFetchFails(c) ==
    /\ At(c, "fetch") /\ "fetch" \in FaultPoints
    /\ Spend("fault")
    /\ Running(calls[c].run)
    /\ HandlerError(c, "review_deliver_error")
    /\ UNCHANGED <<pr, subjects, pubs, comments, notices, reaper>>

\* The second active check and the snapshot comparison; the write they
\* guard repeats the check on status, so they act at that write.
SnapshotValidate(c) ==
    LET r == calls[c].run
        pull == calls[c].pull
        changed == ChangedFields(runs[r].snap, pull.snap) # {}
    IN
    /\ At(c, "validate")
    /\ \/ LostRun(c)
       \/ /\ Running(r) /\ changed
          /\ FailRun(r, "snapshot_superseded")
          /\ calls' = [calls EXCEPT ![c].pc = "notice", ![c].terminal = TRUE]
       \/ /\ Running(r) /\ ~changed
          /\ UpdateRunPhase(r, calls[c].goal)
          /\ \/ calls[c].goal = "rendering" /\ Go(c, "finalize")
             \/ calls[c].goal = "reviewing" /\ Go(c, "record")
             \/ calls[c].goal # "rendering" /\ Become(c, Session(r))
    /\ UNCHANGED <<pr, subjects, pubs, comments, notices, left, reaper>>

\* review_memory_record after its files request: record_findings asks
\* whether the run is running before its transaction begins, so a run that
\* ends between the two still records.  _review_subject_id is an INSERT OR
\* IGNORE on (base, head).
Record(c) ==
    LET snap == calls[c].pull.snap IN
    /\ At(c, "record")
    /\ \/ /\ calls[c].pull.open
          /\ subjects' = IF snap \in ToSet(subjects) THEN subjects
                         ELSE Append(subjects, snap)
       \/ /\ ~calls[c].pull.open \/ ~Running(calls[c].run)
          /\ UNCHANGED subjects
    /\ Become(c, Session(calls[c].run))
    /\ UNCHANGED <<runVars, pr, pubs, comments, notices, left, reaper>>

-----------------------------------------------------------------------------
(* review_deliver up to the publisher.                                     *)

\* _subject_row asks for the head alone; of several subjects SQLite answers
\* with the newest, by the index idx_review_subjects_repo_pr.
SubjectsOf(head) == {i \in DOMAIN subjects : subjects[i].head = head}

\* finalize_review: the publication of the run, rendered once.  It does not
\* look at the status of the run, and takes its base from the subject.
Finalize(c) ==
    LET r == calls[c].run
        found == SubjectsOf(runs[r].snap.head)
    IN
    /\ At(c, "finalize") /\ calls[c].pull.open
    /\ \/ pubs[r].status # "none" /\ UNCHANGED pubs
       \/ /\ pubs[r].status = "none" /\ found # {}
          /\ pubs' = [pubs EXCEPT ![r].status = "generated",
                                  ![r].target = subjects[Max(found)],
                                  ![r].number = NextNumber]
    /\ calls' = [calls EXCEPT ![c].pc = "phase", ![c].pull = AnyPull]
    /\ UNCHANGED <<runVars, pr, subjects, comments, notices, left, reaper>>

\* PriorVerdictError: nothing is stored, and the run goes back to reviewing
\* so that the model can correct its verdicts and deliver again.
FinalizeConflict(c) ==
    /\ At(c, "finalize") /\ calls[c].pull.open
    /\ pubs[calls[c].run].status = "none"
    /\ \/ /\ UpdateRunPhase(calls[c].run, "reviewing")
          /\ Become(c, Session(calls[c].run))
       \/ /\ ~Running(calls[c].run)
          /\ Become(c, IF runs[calls[c].run].code = "snapshot_superseded"
                       THEN Idle ELSE Session(calls[c].run))
          /\ UNCHANGED runVars
    /\ UNCHANGED <<pr, subjects, pubs, comments, notices, left, reaper>>

\* The pull request is closed, nothing was recorded for its head, or too
\* many findings would stay pending.
FinalizeRefused(c) ==
    /\ At(c, "finalize")
    /\ \/ ~calls[c].pull.open
       \/ pubs[calls[c].run].status = "none"
    /\ HandlerError(c, "review_deliver_error")
    /\ UNCHANGED <<pr, subjects, pubs, comments, notices, left, reaper>>

PublishingPhase(c) ==
    /\ At(c, "phase")
    /\ \/ UpdateRunPhase(calls[c].run, "publishing") /\ Go(c, "claim")
       \/ LostRun(c)
    /\ UNCHANGED <<pr, subjects, pubs, comments, notices, left, reaper>>

-----------------------------------------------------------------------------
(* publish_review.                                                         *)

\* Broken: a publication somebody is posting may be claimed again.
ReadyOrPosting == {"generated", "publish_failed", "posting"}

\* READY_TO_POST.
ReadyToPost == {"generated", "publish_failed"}

\* claim_publication_for_posting.
Claim(c) ==
    LET r == calls[c].run IN
    /\ At(c, "claim")
    /\ \/ /\ pubs[r].status = "posted"
          /\ calls' = [calls EXCEPT ![c].pc = "verify", ![c].already = TRUE]
          /\ UNCHANGED <<runVars, pubs>>
       \/ /\ pubs[r].status \in ReadyToPost
          /\ pubs' = [pubs EXCEPT ![r].status = "posting"]
          /\ Go(c, "verify")
          /\ UNCHANGED runVars
       \/ /\ pubs[r].status \notin ReadyToPost \cup {"posted"}
          /\ HandlerError(c, "review_deliver_error")
          /\ UNCHANGED pubs
    /\ UNCHANGED <<pr, subjects, comments, notices, left, reaper>>

\* Broken: the run is failed whatever its status.
MarkFailedAnyRun(r, status, code) ==
    /\ pubs' = [pubs EXCEPT ![r].status = status]
    /\ runs' = [runs EXCEPT ![r] = Failed(@, code)]
    /\ UNCHANGED last

\* mark_publication_failed overwrites whatever the status is by now.
MarkFailed(r, status, code) ==
    /\ pubs' = [pubs EXCEPT ![r].status = status]
    /\ FailRun(r, code)

\* The result of the publisher on an error: a review that was posted before
\* this call stays posted.
PublishGivesUp(c, status, code) ==
    /\ IF calls[c].already
       THEN UNCHANGED <<runVars, pubs>>
       ELSE MarkFailed(calls[c].run, status, code)
    /\ Become(c, Session(calls[c].run))

\* _verify_pr_target, before anything is posted and again after listing.
OnTarget(r) == pr.open /\ pr.snap = pubs[r].target

Verify(c, step, next) ==
    /\ At(c, step)
    /\ OnTarget(calls[c].run)
    /\ Go(c, next)
    /\ UNCHANGED <<runVars, pr, subjects, pubs, comments, notices, left, reaper>>

OffTarget(c) ==
    /\ At(c, "verify") \/ At(c, "reverify")
    /\ ~OnTarget(calls[c].run)
    /\ PublishGivesUp(c, "stale", "pull_request_changed")
    /\ UNCHANGED <<pr, subjects, comments, notices, left, reaper>>

\* list_issue_comments: the bot's comments among the oldest 300.
List(c) ==
    /\ At(c, "list")
    /\ calls' = [calls EXCEPT ![c].pc = "reverify",
                             ![c].listed = Min({Len(comments), Window})]
    /\ UNCHANGED <<runVars, pr, subjects, pubs, comments, notices, left, reaper>>

\* A refresh of a posted review none of whose comments is listed posts
\* nothing.
NothingToRefresh(c) ==
    /\ At(c, "post")
    /\ calls[c].already /\ DOMAIN Found(c) = {}
    /\ Become(c, Session(calls[c].run))
    /\ UNCHANGED <<runVars, pr, subjects, pubs, comments, notices, left, reaper>>

\* Broken: parts counted from zero.
NextPartFromZero(c) == Len(calls[c].ids)

\* _publish_parts: one request per part, an update where the part is found.
NextPart(c) == Len(calls[c].ids) + 1

Posting(c) ==
    /\ At(c, "post")
    /\ calls[c].already => DOMAIN Found(c) # {}

PartDone(c, id) ==
    IF NextPart(c) < Parts
    THEN calls' = [calls EXCEPT ![c].ids = Append(@, id)]
    ELSE IF calls[c].already
    THEN Become(c, Session(calls[c].run))
    ELSE calls' = [calls EXCEPT ![c].ids = Append(@, id), ![c].pc = "mark"]

UpdatePart(c) ==
    /\ Posting(c)
    /\ NextPart(c) \in DOMAIN Found(c)
    /\ PartDone(c, Found(c)[NextPart(c)])
    /\ UNCHANGED <<runVars, pr, subjects, pubs, comments, notices, left, reaper>>

AddComment(c) ==
    comments' = Append(comments, [run |-> calls[c].run, part |-> NextPart(c)])

CreatePart(c) ==
    /\ Posting(c)
    /\ NextPart(c) \notin DOMAIN Found(c)
    /\ AddComment(c)
    /\ PartDone(c, Len(comments) + 1)
    /\ UNCHANGED <<runVars, pr, subjects, pubs, notices, left, reaper>>

\* A request of the publisher fails; a POST may have reached GitHub all the
\* same, and is not retried.
PublishFails(c) ==
    /\ calls[c].pc \in PublishSteps \cap FaultPoints
    /\ Spend("fault")
    /\ PublishGivesUp(c, "publish_failed", "publish_failed")
    /\ \/ UNCHANGED comments
       \/ /\ Posting(c) /\ NextPart(c) \notin DOMAIN Found(c)
          /\ AddComment(c)
    /\ UNCHANGED <<pr, subjects, notices, reaper>>

\* Anything but a GitHub error escapes the publisher (a locked database, a
\* malformed row) and is caught by review_deliver.
PublishCrashes(c) ==
    /\ calls[c].pc \in {"claim", "mark"} \cap FaultPoints
    /\ Spend("fault")
    /\ HandlerError(c, "unexpected_review_deliver_failure")
    /\ UNCHANGED <<pr, subjects, pubs, comments, notices, reaper>>

\* Broken: no unique index on the review number.
NumberNeverTaken(r) == FALSE

\* uq_review_publication_number: another posted review has the number.
NumberTaken(r) ==
    \E q \in Runs \ {r} : Posted(q) /\ pubs[q].number = pubs[r].number

\* Broken: a publication may be marked posted in any status.
AnyIsPostable(r) == TRUE

\* The statuses mark_publication_posted accepts.
Postable(r) == pubs[r].status \in {"generated", "posting", "posted"}

\* mark_publication_posted: the review is posted, every other one of the
\* pull request superseded, and its run completed, in one transaction.
MarkPosted(c) ==
    LET r == calls[c].run IN
    /\ At(c, "mark")
    /\ Postable(r) /\ ~NumberTaken(r)
    /\ pubs' = [q \in Runs |->
                  IF q = r
                  THEN [pubs[r] EXCEPT !.status = "posted", !.by = 0,
                                       !.ids = calls[c].ids]
                  ELSE IF pubs[q].status = "posted" /\ pubs[q].by = 0
                  THEN [pubs[q] EXCEPT !.by = r]
                  ELSE pubs[q]]
    /\ PostRun(r)
    /\ Go(c, IF DOMAIN Found(c) = {} THEN "supersede" ELSE "cleanup")
    /\ UNCHANGED <<pr, subjects, comments, notices, left, reaper>>

\* The transaction is refused after the comments are on GitHub: the claim
\* was released meanwhile, or the number went to another review.
MarkRefused(c) ==
    LET r == calls[c].run IN
    /\ At(c, "mark")
    /\ \/ /\ ~Postable(r)
          /\ HandlerError(c, "review_deliver_error")
       \/ /\ Postable(r) /\ NumberTaken(r)
          /\ HandlerError(c, "unexpected_review_deliver_failure")
    /\ UNCHANGED <<pr, subjects, pubs, comments, notices, left, reaper>>

\* _render_superseded_publication: the comments of the review this one
\* superseded become history, found in the listing read before posting.
SupersededBy(r) == {q \in Runs : pubs[q].by = r /\ pubs[q].ids # <<>>}

Supersede(c) ==
    LET r == calls[c].run IN
    /\ At(c, "supersede")
    /\ IF SupersededBy(r) = {}
       THEN UNCHANGED pubs
       ELSE LET old == CHOOSE q \in SupersededBy(r) :
                           \A p \in SupersededBy(r) : p <= q
                listed == \A k \in DOMAIN pubs[old].ids :
                              pubs[old].ids[k] <= calls[c].listed
            IN pubs' = [pubs EXCEPT ![old].history =
                            IF listed THEN "rendered" ELSE "failed"]
    /\ Go(c, "cleanup")
    /\ UNCHANGED <<runVars, pr, subjects, comments, notices, left, reaper>>

SupersedeFails(c) ==
    LET r == calls[c].run IN
    /\ At(c, "supersede") /\ "supersede" \in FaultPoints
    /\ Spend("fault")
    /\ \E old \in SupersededBy(r) :
          /\ \A q \in SupersededBy(r) : q <= old
          /\ pubs' = [pubs EXCEPT ![old].history = "failed"]
    /\ Go(c, "cleanup")
    /\ UNCHANGED <<runVars, pr, subjects, comments, notices, reaper>>

\* _cleanup_prior_failure_status: the stored comments first, then a scan.
Cleanup(c) ==
    /\ At(c, "cleanup")
    /\ ClearNotices
    /\ notices' = {}
    /\ Become(c, Session(calls[c].run))
    /\ UNCHANGED <<pr, subjects, pubs, comments, left, reaper>>

\* The scan's listing fails: the error reaches publish_review's handler,
\* which marks the publication failed although it is posted by now.
CleanupFails(c) ==
    /\ At(c, "cleanup") /\ "cleanup" \in FaultPoints
    /\ Spend("fault")
    /\ ClearNotices
    /\ notices' = {}
    /\ pubs' = [pubs EXCEPT ![calls[c].run].status = "publish_failed"]
    /\ Become(c, Session(calls[c].run))
    /\ UNCHANGED <<pr, subjects, comments, reaper>>

-----------------------------------------------------------------------------
(* publish_run_failure_status.  FailureStatus has its requests one by one. *)

AfterNotice(c) ==
    Become(c, IF calls[c].terminal THEN Idle ELSE Session(calls[c].run))

\* _persist_failure_status: an OperationalError is passed over.
PersistNotice(r) ==
    \/ RecordNotice(r) /\ UNCHANGED left
    \/ "locked" \in FaultPoints /\ Spend("fault") /\ UNCHANGED runVars

PostNotice(c) ==
    /\ At(c, "notice")
    /\ notices' = notices \cup {calls[c].run}
    /\ PersistNotice(calls[c].run)
    /\ AfterNotice(c)
    /\ UNCHANGED <<pr, subjects, pubs, comments, reaper>>

\* _publish_failure_status_safe never masks the primary error.
PostNoticeFails(c) ==
    /\ At(c, "notice") /\ "notice" \in FaultPoints
    /\ Spend("fault")
    /\ AfterNotice(c)
    /\ UNCHANGED <<runVars, pr, subjects, pubs, comments, notices, reaper>>

-----------------------------------------------------------------------------
(* The operator's reap_and_publish, and the environment.                   *)

ReaperFinds ==
    /\ reaper = {} /\ StaleRuns # {}
    /\ reaper' = StaleRuns
    /\ UNCHANGED <<runVars, pr, subjects, pubs, comments, notices, calls, left>>

ReaperMarks ==
    /\ reaper # {}
    /\ ReapStale(reaper)
    /\ reaper' = {}
    /\ UNCHANGED <<pr, subjects, comments, notices, calls, left>>

ReaperPosts(r) ==
    /\ NeedsNotice(r)
    /\ PersistNotice(r)
    /\ notices' = notices \cup {r}
    /\ UNCHANGED <<pr, subjects, pubs, comments, calls, reaper>>

\* A run found stale that shows a sign of life is not stale again before
\* the UPDATE: that takes milliseconds, the cutoff ten minutes or more.
Silence(r) ==
    /\ Ageing /\ ~runs[r].stale
    /\ r \notin reaper /\ \A c \in Calls : r \notin calls[c].stale
    /\ PassCutoff(r)
    /\ UNCHANGED others

Push(snap) ==
    /\ snap # pr.snap
    /\ Spend("push")
    /\ pr' = [pr EXCEPT !.snap = snap]
    /\ UNCHANGED <<runVars, subjects, pubs, comments, notices, calls, reaper>>

Close ==
    /\ pr.open
    /\ Spend("push")
    /\ pr' = [pr EXCEPT !.open = FALSE]
    /\ UNCHANGED <<runVars, subjects, pubs, comments, notices, calls, reaper>>

\* The container restarts: every session is gone, and with it a command the
\* operator runs in it; nothing resumes them.
Restart ==
    /\ Spend("restart")
    /\ calls' = [c \in Calls |-> Idle]
    /\ reaper' = {}
    /\ UNCHANGED <<runVars, pr, subjects, pubs, comments, notices>>

-----------------------------------------------------------------------------
\* What a call that is under way does next when nothing goes wrong.
Proceed(c) ==
    \/ BeginReap(c) \/ BeginFailStale(c)
    \/ BeginDuplicate(c) \/ BeginStart(c) \/ BeginPhase(c)
    \/ SnapshotFetch(c) \/ SnapshotValidate(c) \/ Record(c)
    \/ Finalize(c) \/ FinalizeConflict(c) \/ FinalizeRefused(c)
    \/ PublishingPhase(c) \/ Claim(c)
    \/ Verify(c, "verify", "list") \/ Verify(c, "reverify", "post")
    \/ OffTarget(c) \/ List(c)
    \/ NothingToRefresh(c) \/ UpdatePart(c) \/ CreatePart(c)
    \/ MarkPosted(c) \/ MarkRefused(c) \/ Supersede(c) \/ Cleanup(c)
    \/ PostNotice(c)

Falter(c) ==
    \/ SnapshotFetchFails(c) \/ PublishFails(c) \/ PublishCrashes(c)
    \/ SupersedeFails(c) \/ CleanupFails(c) \/ PostNoticeFails(c)

DeliveryNext ==
    \/ \E c \in Calls : BeginFetch(c) \/ EndTurn(c)
    \/ \E c \in Calls, goal \in Goals : Work(c, goal)
    \/ \E c \in Calls : Proceed(c)
    \/ \E c \in Calls : Falter(c)
    \/ ReaperFinds
    \/ ReaperMarks
    \/ \E r \in Runs : ReaperPosts(r)
    \/ \E r \in Runs : Silence(r)
    \/ \E snap \in Snapshots : Push(snap)
    \/ Close
    \/ Restart

DeliverySpec == DeliveryInit /\ [][DeliveryNext]_vars

-----------------------------------------------------------------------------
\* Every variable holds values the columns, calls and GitHub can have.
DeliveryTypeOK ==
    /\ RunsTypeOK
    /\ pr \in PullStates
    /\ subjects \in Seq(Snapshots)
    /\ pubs \in [Runs -> PubRow]
    /\ comments \in Seq([run : Runs, part : 1..Parts])
    /\ notices \subseteq Runs
    /\ calls \in [Calls -> Call]
    /\ reaper \subseteq Runs
    /\ left \in [{"push", "fault", "restart"} -> Nat]

\* A run the ledger calls generated and a review it calls posted are on
\* GitHub in full: the recorded ids are the comments of its parts in order,
\* whichever of them an earlier publisher posted (the recovery by markers in
\* publish_review).
RecordedReviewIsOnGitHub ==
    \A r \in Runs :
        Posted(r) \/ runs[r].status = "generated" =>
            /\ Len(pubs[r].ids) = Parts
            /\ \A k \in 1..Parts :
                   comments[pubs[r].ids[k]] = [run |-> r, part |-> k]

\* The runs whose reviews came out.
Published == {r \in Runs : pubs[r].ids # <<>>}

\* The run of review n; 0, which is no run, unless exactly one has it.
RunOfReview(n) ==
    LET named == {r \in Published : pubs[r].number = n} IN
    IF Cardinality(named) = 1 THEN CHOOSE r \in named : TRUE ELSE 0

Ledger == INSTANCE ReviewLedger WITH
    ledger <- [n \in 1..Cardinality(Published) |-> RunOfReview(n)],
    shown <- Current

\* Reviews come out in the order of their runs, each once, numbered without
\* gap or reuse, and the newest is the one shown as current: the promise of
\* ReviewLedger.  A number is chosen at finalize_review and taken only when
\* mark_publication_posted commits, and a superseded run may still post.
ReviewsComeOutInOrder == Ledger!LedgerSpec

\* How a claim ends that did not post.
Released == {"publish_failed", "stale"}

\* Once a claim was taken away or given up and its run has ended, no
\* publisher still at work can claim the review again or make the ledger
\* call it posted (mark_stale_runs_failed against the publisher of a session
\* that was only slow), as long as the database does not refuse to mark a
\* run failed.
ReleasedClaimIsNeverPosted ==
    [][\A r \in Runs :
          pubs[r].status \in Released /\ Terminal(r) =>
              pubs'[r].status \in Released]_vars

\* A failure notice never stands beside a run that is still going: whoever
\* posts one does so after the run's end, and no run comes back.  It is kept
\* as long as the database does not refuse to mark the run failed.
NoNoticeForRunningRun == \A r \in notices : Terminal(r)

\* Among the publishers of one run at most one is between its claim and its
\* mark (claim_publication_for_posting).
ClaimIsExclusive ==
    \A c, d \in Calls :
        c # d /\ calls[c].run = calls[d].run =>
            ~ \A e \in {c, d} : /\ calls[e].pc \in PublishSteps \cup {"mark"}
                               /\ ~calls[e].already

\* No part of a review is on GitHub twice, whatever publisher failed half
\* way and whatever publisher took over (_publication_comments and
\* _publish_parts reuse the parts they find), unless the first copy lies
\* beyond the comments the publisher lists.
NoPartTwice ==
    \A i, j \in 1..Len(comments) :
        i < j /\ comments[i] = comments[j] => i > Window

-----------------------------------------------------------------------------
\* The gateway goes on with what it is in the middle of and cuts off a turn
\* that goes on too long; time passes; the operator's command keeps running.
Fairness ==
    /\ \A c \in Calls : WF_vars(Proceed(c)) /\ SF_vars(EndTurn(c))
    /\ \A r \in Runs : WF_vars(Silence(r)) /\ WF_vars(ReaperPosts(r))
    /\ WF_vars(ReaperFinds) /\ WF_vars(ReaperMarks)

FairDeliverySpec == DeliverySpec /\ Fairness

\* No run stays running for ever, whatever happens to its session.
EveryRunEnds == \A r \in Runs : Running(r) ~> Terminal(r)

\* A run that failed is answered on the pull request: a failure notice, or
\* a newer run that owns the outcome (failed_runs_needing_status: "so an
\* aborted review is never silent on the PR").
NoSilentFailure ==
    \A r \in Runs : runs[r].status = "failed" ~> r \in notices \/ last > r

-----------------------------------------------------------------------------
(* What the repository says of the program and the code does not keep.     *)

\* "publish_failed: GitHub publication was attempted and failed" (the states
\* of docs/OPERATIONS.md).  A failing scan of the clean-up after a posted
\* review calls it failed.
PublishFailedMeansNotPosted ==
    \A r \in Runs : pubs[r].status = "publish_failed" => pubs[r].ids = <<>>
=============================================================================

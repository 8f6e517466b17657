--------------------------- MODULE FindingLifecycle ---------------------------
(***************************************************************************)
(* The findings of one pull request: observed by runs, listed and closed   *)
(* by reviews, suppressed by humans, dropped by a verifier.                *)
(*                                                                         *)
(* A run is one session; run n's session can still be at work when run     *)
(* n + 1 has superseded it.  A step is one SQLite transaction, or one      *)
(* status query where the code asks before it opens its transaction.       *)
(* Runs, claims and comments themselves are the subject of ReviewRuns and  *)
(* ReviewDelivery.                                                         *)
(***************************************************************************)
EXTENDS Naturals, FiniteSets, Sequences

CONSTANTS
    Findings,      \* fingerprints
    Versions,      \* contents the file of a finding may have: context hashes
    Limit,         \* MAX_FINDINGS_PER_REVIEW
    MaxRuns,       \* bound: review runs
    MaxPushes,     \* bound: pushes that change the file of a finding
    MaxVerdicts,   \* bound: decisions of humans and of the verifier
    MaxTakenBack   \* bound: reviews whose clean-up fails

ASSUME LifecycleAssumption ==
    /\ IsFiniteSet(Findings) /\ Versions # {}
    /\ Limit \in Nat \ {0} /\ MaxRuns \in Nat
    /\ MaxPushes \in Nat /\ MaxVerdicts \in Nat /\ MaxTakenBack \in Nat

VARIABLES
    runs,       \* runs[r]: the run, the head it reviews, and its session
    ledger,     \* review_publications and publication_findings, by id
    current,    \* the publication posted and not superseded, 0 if there is none
    refs,       \* refs[f]: n of the local reference Fn, 0 before it has one
    decisions,  \* decisions[f]: the latest decision on f
    dropping,   \* the verifier's decision past its checks, not yet stored
    left        \* what is left of the bounds

vars == <<runs, ledger, current, refs, decisions, dropping, left>>

-----------------------------------------------------------------------------
(* State.                                                                  *)

Runs == 1..MaxRuns

\* PRIOR_FINDING_VERDICTS; "none" is a verdict that was not supplied.
Verdicts == {"none", "not_checked", "still_present", "partially_resolved", "resolved",
             "invalidated", "suppressed"}

\* "head" gives the version of each file at the head of the run; "seen" are
\* its observations, "drops" the candidates reconciled as dropped, "batch"
\* the findings of a record_findings that has asked for the status.
Run == [status : {"none", "running", "ended"}, head : [Findings -> Versions],
        seen : SUBSET Findings, drops : SUBSET Findings,
        pc : {"working", "recording", "delivering", "posting", "cleanup", "done"},
        batch : SUBSET Findings]

\* A publication and its rendered lists.  "closed" holds the rows 'resolved',
\* "hushed" those among them closed for a suppression, "unchecked" what the
\* markdown lists as not rechecked.  One that is taken back was posted, and is
\* 'publish_failed'.
Publication == [run : Runs, number : Nat \ {0}, posted : BOOLEAN, takenBack : BOOLEAN,
                current : SUBSET Findings, closed : SUBSET Findings,
                hushed : SUBSET Findings, unchecked : SUBSET Findings]

\* A decision that suppresses names the version it is bound to.
NoDecision == [suppresses |-> FALSE]

Decision == {NoDecision} \cup [suppresses : {TRUE}, version : Versions]

NoDrop == [run |-> 0]

\* Versions of different findings are never compared, so the first are named
\* alike.
FirstVersion == CHOOSE v \in Versions : TRUE

LifecycleInit ==
    /\ runs = [r \in Runs |->
                 [status |-> "none", head |-> [f \in Findings |-> FirstVersion],
                  seen |-> {}, drops |-> {}, pc |-> "working", batch |-> {}]]
    /\ ledger = <<>> /\ current = 0
    /\ refs = [f \in Findings |-> 0]
    /\ decisions = [f \in Findings |-> NoDecision]
    /\ dropping = NoDrop
    /\ left = [push |-> MaxPushes, verdict |-> MaxVerdicts]

At(r, step) == runs[r].pc = step

Spend(what) == left[what] > 0 /\ left' = [left EXCEPT ![what] = @ - 1]

Posted == {p \in DOMAIN ledger : ledger[p].posted}

TakenBack == {p \in DOMAIN ledger : ledger[p].takenBack}

Largest(S) == CHOOSE n \in S : \A m \in S : m <= n

\* The publications that came out with a row for f.
Mentions(f) == {p \in Posted : f \in ledger[p].current \cup ledger[p].closed}

\* active_publication_findings: the latest row of a finding decides.
Active == {f \in Findings :
             Mentions(f) # {} /\ f \in ledger[Largest(Mentions(f))].current}

\* previous_items: nothing was open for a review rendered while no review is
\* current (_latest_publication).
Previous == IF current = 0 THEN {} ELSE Active

\* The version the active row of f was published with.
PublishedVersion(f) == runs[ledger[Largest(Mentions(f))].run].head[f]

\* active_suppression: the latest decision, for exactly this version.
Suppressed(f, version) ==
    decisions[f].suppresses /\ decisions[f].version = version

\* Broken: references go on from the last one a review has shown.
LastShownReference ==
    Largest({0} \cup {refs[f] : f \in {g \in Findings : Mentions(g) # {}}})

\* assign_local_reference: references go on from the largest one given.
LastReference == Largest({refs[f] : f \in Findings})

-----------------------------------------------------------------------------
(* The pull request and the runs.                                          *)

\* The findings whose files have changed on the way to this head; at the
\* first run everything is new.
Changed(r, head) ==
    IF r = 1 THEN {} ELSE {f \in Findings : head[f] # runs[r - 1].head[f]}

\* start_run on the head the pushes so far have led to; an older running run
\* is superseded.
StartRun(r, head) ==
    /\ runs[r].status = "none"
    /\ \A q \in Runs : q < r => runs[q].status # "none"
    /\ r = 1 => head = runs[r].head
    /\ Cardinality(Changed(r, head)) <= left.push
    /\ left' = [left EXCEPT !.push = @ - Cardinality(Changed(r, head))]
    /\ runs' = [q \in Runs |->
                  IF q = r THEN [runs[q] EXCEPT !.status = "running", !.head = head]
                  ELSE IF runs[q].status = "running"
                       THEN [runs[q] EXCEPT !.status = "ended"]
                       ELSE runs[q]]
    /\ UNCHANGED <<ledger, current, refs, decisions, dropping>>

-----------------------------------------------------------------------------
(* record_findings.                                                        *)

\* _review_run_for_observation, before the transaction.
RecordCheck(r, batch) ==
    /\ At(r, "working") /\ runs[r].status = "running"
    /\ batch # {} /\ Cardinality(batch) <= Limit
    /\ runs' = [runs EXCEPT ![r].pc = "recording", ![r].batch = batch]
    /\ UNCHANGED <<ledger, current, refs, decisions, dropping, left>>

\* The transaction: an observation for each finding of the call, and a local
\* reference for each that has none, in the order of the call.
RecordWrite(r) ==
    LET batch == runs[r].batch
        new == {f \in batch : refs[f] = 0}
    IN
    /\ At(r, "recording")
    /\ \E number \in [new -> LastReference + 1 .. LastReference + Cardinality(new)] :
         /\ \A f, g \in new : number[f] = number[g] => f = g
         /\ refs' = [f \in Findings |-> IF f \in new THEN number[f] ELSE refs[f]]
    /\ runs' = [runs EXCEPT ![r].seen = @ \cup batch, ![r].batch = {},
                           ![r].pc = "working"]
    /\ UNCHANGED <<ledger, current, decisions, dropping, left>>

-----------------------------------------------------------------------------
(* finalize_review.                                                        *)

\* What finalize_review makes of the observations of run r.
CurrentOf(r) ==
    {f \in runs[r].seen \ runs[r].drops : ~Suppressed(f, runs[r].head[f])}

\* The verdict finalize_review uses: a drop outranks the session's verdict.
VerdictOf(r, given, f) == IF f \in runs[r].drops THEN "invalidated" ELSE given[f]

\* Broken: a finding without a verdict is unchecked, observed again or not.
ReconcileByVerdict(r, given, f) ==
    CASE VerdictOf(r, given, f) \in {"none", "not_checked"} -> "unchecked"
      [] VerdictOf(r, given, f) \in {"resolved", "invalidated"} -> "closed"
      [] OTHER -> IF f \in CurrentOf(r) THEN "open" ELSE "refused"

\* _reconcile_prior_findings for one prior finding: it stays open as observed
\* again or as unchecked, is closed by its verdict or hushed by a decision on
\* the version it was published with, or the verdict is refused.
Reconcile(r, given, f) ==
    LET verdict == VerdictOf(r, given, f) IN
    CASE f \in CurrentOf(r) ->
           IF verdict \in {"none", "still_present", "partially_resolved"}
           THEN "open" ELSE "refused"
      [] f \notin CurrentOf(r) /\ Suppressed(f, PublishedVersion(f)) -> "hushed"
      [] OTHER ->
           CASE verdict \in {"none", "not_checked"} -> "unchecked"
             [] verdict \in {"resolved", "invalidated"} -> "closed"
             [] OTHER -> "refused"

\* The prior findings with one result of the reconciliation.
Reconciled(r, given, result) == {f \in Previous : Reconcile(r, given, f) = result}

\* Broken: findings not rechecked do not count as pending.
NewlyPending(r, given) == CurrentOf(r)

\* What the review would leave open.
Pending(r, given) == CurrentOf(r) \cup Reconciled(r, given, "unchecked")

\* _update_run_phase_or_terminal of review_deliver: the run is running.
DeliverCheck(r) ==
    /\ At(r, "working") /\ runs[r].status = "running"
    /\ runs' = [runs EXCEPT ![r].pc = "delivering"]
    /\ UNCHANGED <<ledger, current, refs, decisions, dropping, left>>

\* _next_review_number.
NextNumber ==
    IF Posted = {} THEN 1 ELSE Largest({ledger[p].number : p \in Posted}) + 1

Fail(r) == [runs EXCEPT ![r].pc = "done", ![r].status = "ended"]

\* finalize_review with the session's verdicts.  A PriorVerdictError leaves
\* the run running and the session may deliver again; too many open findings
\* end it.
Finalize(r, given) ==
    /\ At(r, "delivering")
    /\ IF Reconciled(r, given, "refused") # {}
       THEN /\ runs' = [runs EXCEPT ![r].pc = "working"]
            /\ UNCHANGED ledger
       ELSE IF Cardinality(Pending(r, given)) > Limit
       THEN /\ runs' = Fail(r)
            /\ UNCHANGED ledger
       ELSE LET hushed == Reconciled(r, given, "hushed") IN
            /\ ledger' = Append(ledger,
                 [run |-> r, number |-> NextNumber, posted |-> FALSE,
                  takenBack |-> FALSE, current |-> CurrentOf(r),
                  closed |-> Reconciled(r, given, "closed") \cup hushed,
                  hushed |-> hushed,
                  unchecked |-> Reconciled(r, given, "unchecked")])
            /\ runs' = [runs EXCEPT ![r].pc = "posting"]
    /\ UNCHANGED <<current, refs, decisions, dropping, left>>

\* Broken: nothing keeps two reviews from coming out under one number.
NumberNeverTaken(number) == FALSE

\* The unique index on the review numbers that came out.
NumberTaken(number) == \E q \in Posted : ledger[q].number = number

\* mark_publication_posted, which supersedes the review that was current.
Post(r) ==
    /\ At(r, "posting")
    /\ \E p \in DOMAIN ledger :
         /\ ledger[p].run = r /\ ~NumberTaken(ledger[p].number)
         /\ ledger' = [ledger EXCEPT ![p].posted = TRUE]
         /\ current' = p
    /\ runs' = [runs EXCEPT ![r].pc = "cleanup", ![r].status = "ended"]
    /\ UNCHANGED <<refs, decisions, dropping, left>>

\* The index refuses it; or the publisher fails or finds the pull request on
\* another snapshot before it gets there.
PostFails(r) ==
    /\ At(r, "posting")
    /\ runs' = Fail(r)
    /\ UNCHANGED <<ledger, current, refs, decisions, dropping, left>>

\* The clean-up after the review came out fails, and mark_publication_failed
\* overwrites its 'posted'.  The one it superseded stays superseded.  A clean-up
\* that succeeds changes nothing here.
TakeBack(r) ==
    /\ At(r, "cleanup")
    /\ Cardinality(TakenBack) < MaxTakenBack
    /\ \E p \in DOMAIN ledger :
         /\ ledger[p].run = r
         /\ ledger' = [ledger EXCEPT ![p].posted = FALSE, ![p].takenBack = TRUE]
         /\ current' = IF current = p THEN 0 ELSE current
    /\ runs' = [runs EXCEPT ![r].pc = "done"]
    /\ UNCHANGED <<refs, decisions, dropping, left>>

-----------------------------------------------------------------------------
(* The verifier: record_candidate_reconciliation, run by an operator.      *)

\* The run is running, has no publication, and the candidate is its own.  A
\* decision to publish matters only where it takes back a drop.
DropCheck(r, f, drop) ==
    /\ dropping = NoDrop
    /\ runs[r].status = "running" /\ f \in runs[r].seen
    /\ \A p \in DOMAIN ledger : ledger[p].run # r
    /\ drop \/ f \in runs[r].drops
    /\ Spend("verdict")
    /\ dropping' = [run |-> r, finding |-> f, drop |-> drop]
    /\ UNCHANGED <<runs, ledger, current, refs, decisions>>

\* The upsert, whatever has happened since.
DropWrite ==
    /\ dropping # NoDrop
    /\ runs' = [runs EXCEPT ![dropping.run].drops =
                  IF dropping.drop THEN @ \cup {dropping.finding}
                  ELSE @ \ {dropping.finding}]
    /\ dropping' = NoDrop
    /\ UNCHANGED <<ledger, current, refs, decisions, left>>

-----------------------------------------------------------------------------
(* Decisions.                                                              *)

Decide(f, decision) ==
    /\ Spend("verdict")
    /\ decisions' = [decisions EXCEPT ![f] = decision]
    /\ UNCHANGED <<runs, ledger, current, refs, dropping>>

\* A command on the pull request: bound to the row of the current review.
SuppressOnPullRequest(f) ==
    /\ current # 0
    /\ f \in ledger[current].current
    /\ Decide(f, [suppresses |-> TRUE, version |-> runs[ledger[current].run].head[f]])

\* add_decision of an operator: bound to the observation it names, or to the
\* latest one.
SuppressByOperator(f, r) ==
    /\ f \in runs[r].seen
    /\ Decide(f, [suppresses |-> TRUE, version |-> runs[r].head[f]])

\* A later decision such as "reopen", or the expiry.
Unsuppress(f) ==
    /\ decisions[f] # NoDecision
    /\ decisions' = [decisions EXCEPT ![f] = NoDecision]
    /\ UNCHANGED <<runs, ledger, current, refs, dropping, left>>

-----------------------------------------------------------------------------
LifecycleNext ==
    \/ \E r \in Runs : \E head \in [Findings -> Versions] : StartRun(r, head)
    \/ \E r \in Runs : \E batch \in SUBSET Findings : RecordCheck(r, batch)
    \/ \E r \in Runs : RecordWrite(r) \/ DeliverCheck(r)
    \/ \E r \in Runs : Post(r) \/ PostFails(r) \/ TakeBack(r)
    \/ \E r \in Runs : \E given \in [Previous -> Verdicts] : Finalize(r, given)
    \/ \E r \in Runs : \E f \in Findings : \E drop \in BOOLEAN :
         DropCheck(r, f, drop)
    \/ DropWrite
    \/ \E f \in Findings : SuppressOnPullRequest(f) \/ Unsuppress(f)
    \/ \E f \in Findings : \E r \in Runs : SuppressByOperator(f, r)

LifecycleSpec == LifecycleInit /\ [][LifecycleNext]_vars

-----------------------------------------------------------------------------
(* Properties.                                                             *)

\* Rows hold values of their columns, an active run is the newest, a session
\* publishes at most one publication, and a review that came out lists a
\* finding in one way only.
LifecycleTypeOK ==
    /\ runs \in [Runs -> Run]
    /\ ledger \in Seq(Publication)
    /\ current = 0 \/ current \in Posted
    /\ refs \in [Findings -> 0..Cardinality(Findings)]
    /\ decisions \in [Findings -> Decision]
    /\ dropping = NoDrop
         \/ dropping \in [run : Runs, finding : Findings, drop : BOOLEAN]
    /\ \A p, q \in DOMAIN ledger : ledger[p].run = ledger[q].run => p = q
    /\ \A p \in DOMAIN ledger :
         /\ ledger[p].hushed \subseteq ledger[p].closed
         /\ ledger[p].current \cap (ledger[p].closed \cup ledger[p].unchecked) = {}
         /\ ledger[p].closed \cap ledger[p].unchecked = {}

\* A local reference names one finding of the pull request, whatever runs
\* observed it and whether or not their reviews came out: a human who answers
\* to F2 cannot hit another finding (assign_local_reference).
ReferencesNameOneFinding ==
    \A f, g \in Findings : refs[f] = refs[g] /\ refs[f] # 0 => f = g

\* A review that comes out accounts for exactly the findings that are open at
\* that moment, although it was rendered many requests before: each of them
\* is in it as current, closed or not rechecked, and it closes or carries
\* over no finding that was not open (finalize_review, mark_publication_posted).
\* So it is until a review is taken back: the ones rendered before it was may
\* carry over what is no longer open, and the next one forgets what is.
AccountsForOpenFindings ==
    [][TakenBack = {} => \A p \in Posted' \ Posted :
         /\ Active \subseteq
              ledger[p].current \cup ledger[p].closed \cup ledger[p].unchecked
         /\ ledger[p].closed \cup ledger[p].unchecked \subseteq Active]_vars

\* The reviews that come out behave as FindingBoard says: nothing but one that
\* comes out or is taken back, a drop or a decision say, opens or closes a
\* finding, and until one is taken back none leaves more than
\* MAX_FINDINGS_PER_REVIEW open, whichever runs are superseded meanwhile.
Board == INSTANCE FindingBoard WITH
             round <- Cardinality(Posted), open <- Active, disturbed <- TakenBack # {}

BoardSpec == Board!BoardSpec

\* docs/SECURITY.md:122: "Suppressions bind to the exact reviewed file version
\* and expire. If the file changes, the finding is re-evaluated."  So a review
\* closes a finding for a suppression only if the suppression is for the
\* version it reviews (finalize_review).
SuppressionNeedsSameVersion ==
    [][\A p \in DOMAIN ledger' \ DOMAIN ledger :
         \A f \in ledger'[p].hushed :
           Suppressed(f, runs[ledger'[p].run].head[f])]_vars
=============================================================================

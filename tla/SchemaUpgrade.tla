---------------------------- MODULE SchemaUpgrade ----------------------------
(***************************************************************************)
(* The upgrade of the review memory: init_schema on a database an older    *)
(* deployment left, or on one a gateway of this version is working on      *)
(* (`eneo-review-memory init` in the running container).                   *)
(*                                                                         *)
(* A step is what init_schema commits at once.  Python's sqlite3 begins a  *)
(* transaction at the first INSERT or UPDATE and leaves CREATE, DROP and   *)
(* PRAGMA outside of one that has not begun, so a stop between two steps   *)
(* keeps the first.  user_version is the last of them: until then a stop   *)
(* means that everything is done again.  The rows are those of one pull    *)
(* request; the reviews an old database has posted are in the order of     *)
(* their posting.                                                          *)
(***************************************************************************)
EXTENDS Naturals, FiniteSets, Sequences

CONSTANTS
    SchemaVersion,   \* the version of this code
    Findings,        \* the rows of findings before the upgrade
    Databases,       \* databases to start on: records of version and tables
    MaxRuns,         \* bound: runs
    MaxPublications, \* bound: publications
    MaxInits,        \* bound: calls of init
    MaxStops         \* bound: stops in the middle of one

\* The tables as older versions made them: review_runs without the status
\* "generated", or without phases; finding_observations unique per subject.
Shapes == [runs : {"done", "plain", "current"},
           observations : {"subject", "current"}]

Upgraded == [runs |-> "current", observations |-> "current"]

ASSUME UpgradeAssumption ==
    /\ SchemaVersion \in Nat /\ SchemaVersion > 12 /\ IsFiniteSet(Findings)
    /\ Databases \subseteq [version : 0..SchemaVersion, tables : Shapes]
    /\ \A d \in Databases : d.version = SchemaVersion => d.tables = Upgraded
    /\ {MaxRuns, MaxPublications, MaxInits, MaxStops} \subseteq Nat

VARIABLES
    version,       \* PRAGMA user_version
    tables,        \* the shapes of the tables
    runs,          \* review_runs, in the order of their ids
    publications,  \* review_publications, in the order of their ids
    observations,  \* how many observations each finding has
    indexes,       \* the unique indexes there are
    init,          \* the call of init_schema, and what it has read
    left           \* what is left of the bounds

vars == <<version, tables, runs, publications, observations, indexes, init, left>>

-----------------------------------------------------------------------------
(* State.                                                                  *)

\* "files" is 1 if review_run_files has changed files of the run, "counted"
\* whether its changed_files_ columns are filled, and "complete"
\* what changed_file_registration_complete says.
Run == [status : {"running", "done", "generated", "failed"},
        phase : {"", "accepted", "posted", "failed"},
        files : 0..1, counted : BOOLEAN, complete : BOOLEAN]

\* "run" is review_run_id, 0 where the run has long ended; "number" is
\* review_number, 0 for NULL; "part" whether review_publication_comments has
\* its first comment; "current" whether it is posted and not superseded.
Publication == [status : {"generated", "posting", "posted", "publish_failed"},
                run : Nat, number : Nat, part : BOOLEAN, current : BOOLEAN]

Running(rows) == {i \in DOMAIN rows : rows[i].status = "running"}

Posted(rows) == {i \in DOMAIN rows : rows[i].status = "posted"}

Current(rows) == {i \in Posted(rows) : rows[i].current}

PhaseOf(status) == CASE status = "running" -> "accepted"
                     [] status \in {"done", "generated"} -> "posted"
                     [] status = "failed" -> "failed"

\* The rows a database of version d.version may have.  Before there were
\* numbers and superseded_at, two posted reviews are both current.
OldRun(d) ==
    {r \in Run :
        /\ r.status # IF d.tables.runs = "done" THEN "generated" ELSE "done"
        /\ r.phase = IF d.tables.runs = "current" THEN PhaseOf(r.status) ELSE ""
        /\ r.counted = (d.tables.runs = "current")
        /\ r.complete => r.counted /\ r.files > 0}

\* Reviews of the runs in "open" are rendered, under the number that is next.
\* The numbers begin after those of "skipped" reviews that were posted and
\* taken back, and one review posted since the thirteenth version may have none.
OldPublications(d, posted, open, skipped, unnumbered) ==
    [i \in 1..posted + Len(open) |->
        [status |-> IF i <= posted THEN "posted" ELSE "generated",
         run |-> IF i <= posted THEN 0 ELSE open[i - posted],
         number |-> IF d.version < 12 \/ (d.version > 12 /\ i <= posted /\ i = unnumbered)
                    THEN 0 ELSE skipped + IF i <= posted THEN i ELSE posted + 1,
         part |-> d.version >= 8 /\ i <= posted,
         current |-> i <= posted /\ (d.version < 12 \/ i = posted)]]

\* Some of the running runs, in any order.
RunsWithReviews ==
    {open \in UNION {[1..n -> Running(runs)] : n \in 0..2} :
        \A i, j \in DOMAIN open : open[i] = open[j] => i = j}

Idle == [pc |-> "off", existing |-> 0, runs |-> <<>>, observations |-> [f \in Findings |-> 0]]

UpgradeInit ==
    \E d \in Databases :
        /\ version = d.version /\ tables = d.tables
        /\ \E n \in 0..2 : runs \in [1..n -> OldRun(d)]
        /\ d.version = SchemaVersion => Cardinality(Running(runs)) <= 1
        /\ \E posted \in 0..2, skipped \in 0..1, unnumbered \in 0..2 :
               \E open \in RunsWithReviews :
                   publications = OldPublications(d, posted, open, skipped, unnumbered)
        /\ observations = [f \in Findings |-> IF d.version < 3 THEN 0 ELSE 1]
        /\ indexes = IF d.version = SchemaVersion THEN {"running", "number", "current"}
                                                 ELSE {}
        /\ init = Idle
        /\ left = [init |-> MaxInits, stop |-> MaxStops]

At(step) == init.pc = step

Go(step) == init' = [init EXCEPT !.pc = step]

\* init_schema raises or is done.
Off == init' = Idle

Spend(what) == left[what] > 0 /\ left' = [left EXCEPT ![what] = @ - 1]

-----------------------------------------------------------------------------
(* init_schema.                                                            *)

\* The tables and columns there are not yet are made; user_version is read.
StartInit ==
    /\ At("off")
    /\ IF version = SchemaVersion THEN Spend("init") ELSE UNCHANGED left
    /\ init' = [init EXCEPT !.pc = "number", !.existing = version]
    /\ UNCHANGED <<version, tables, runs, publications, observations, indexes>>

Earlier(i) == {j \in 1..i : publications[j].status = "posted" /\ publications[j].number = 0}

\* Broken: the number of a review not posted is cleared each time.
NumberedAnew(existing) ==
    [i \in DOMAIN publications |->
        [publications[i] EXCEPT !.number =
            IF publications[i].status = "posted"
            THEN IF existing < 12 /\ @ = 0 THEN Cardinality(Earlier(i)) ELSE @
            ELSE 0]]

\* Posted reviews get the numbers of their order, other ones none.
Numbered(existing) ==
    [i \in DOMAIN publications |->
        [publications[i] EXCEPT !.number =
            IF publications[i].status = "posted"
            THEN IF existing < 12 /\ @ = 0 THEN Cardinality(Earlier(i)) ELSE @
            ELSE IF existing < 13 THEN 0 ELSE @]]

Number ==
    /\ At("number")
    /\ publications' = Numbered(init.existing)
    /\ Go("status")
    /\ UNCHANGED <<version, tables, runs, observations, indexes, left>>

\* _migrate_review_runs_status: the table is made again in one transaction.
MigrateStatus ==
    /\ At("status")
    /\ IF tables.runs = "done"
       THEN /\ runs' = [i \in DOMAIN runs |->
                  [runs[i] EXCEPT !.status = IF @ = "done" THEN "generated" ELSE @]]
            /\ tables' = [tables EXCEPT !.runs = "plain"]
       ELSE UNCHANGED <<runs, tables>>
    /\ Go("lifecycle")
    /\ UNCHANGED <<version, publications, observations, indexes, left>>

\* _migrate_review_runs_lifecycle reads the rows before its transaction ...
ReadRuns ==
    /\ At("lifecycle")
    /\ init' = IF tables.runs = "current" THEN [init EXCEPT !.pc = "fill"]
               ELSE [init EXCEPT !.pc = "rebuild", !.runs = runs]
    /\ UNCHANGED <<version, tables, runs, publications, observations, indexes, left>>

\* Broken: the phase is taken over.
WithOldPhase(row) ==
    [row EXCEPT !.status = IF @ = "done" THEN "generated" ELSE @]

\* A status explains the phase.
WithPhase(row) ==
    LET status == IF row.status = "done" THEN "generated" ELSE row.status
    IN  [row EXCEPT !.status = status, !.phase = PhaseOf(status)]

\* ... and puts them into the new table.
RebuildRuns ==
    /\ At("rebuild")
    /\ runs' = [i \in DOMAIN init.runs |-> WithPhase(init.runs[i])]
    /\ tables' = [tables EXCEPT !.runs = "current"]
    /\ Go("fill")
    /\ UNCHANGED <<version, publications, observations, indexes, left>>

\* The changed files of a run that has no counts are counted.
Filled(rows) ==
    [i \in DOMAIN rows |->
        IF rows[i].counted THEN rows[i]
        ELSE [rows[i] EXCEPT !.counted = TRUE, !.complete = @ \/ rows[i].files > 0]]

NumbersAreUnique ==
    \A i, j \in Posted(publications) :
        i # j => publications[i].number = 0
                 \/ publications[i].number # publications[j].number

\* The comment of a review posted before there were parts is its first part.
WithParts(rows, existing) ==
    [i \in DOMAIN rows |->
        [rows[i] EXCEPT !.part = @ \/ (existing < 8 /\ rows[i].status = "posted")]]

\* Broken: the first run stays.
OldestRuns(rows) ==
    [i \in DOMAIN rows |->
        IF rows[i].status = "running" /\ \E j \in Running(rows) : j < i
        THEN [rows[i] EXCEPT !.status = "failed", !.phase = "failed"] ELSE rows[i]]

\* Broken: no duplicate is ended.
AllRun(rows) == rows

\* _ensure_active_run_unique_index: of several running runs the last stays.
LastRuns(rows) ==
    [i \in DOMAIN rows |->
        IF rows[i].status = "running" /\ \E j \in Running(rows) : j > i
        THEN [rows[i] EXCEPT !.status = "failed", !.phase = "failed"] ELSE rows[i]]

\* The UPDATEs after the columns begin a transaction.  It ends with the
\* duplicate runs if finding_observations is current, and where
\* _migrate_finding_observations_run_scope has read it if it is not.
Fill ==
    /\ At("fill")
    /\ IF tables.observations = "current"
       THEN /\ NumbersAreUnique
            /\ runs' = LastRuns(Filled(runs))
            /\ publications' = WithParts(publications, init.existing)
            /\ indexes' = indexes \cup {"number"}
            /\ Go("unrun")
       ELSE /\ runs' = Filled(runs)
            /\ init' = [init EXCEPT !.pc = "observations", !.observations = observations]
            /\ UNCHANGED <<publications, indexes>>
    /\ UNCHANGED <<version, tables, observations, left>>

RebuildObservations ==
    /\ At("observations")
    /\ observations' = init.observations
    /\ tables' = [tables EXCEPT !.observations = "current"]
    /\ Go("unnumber")
    /\ UNCHANGED <<version, runs, publications, indexes, left>>

\* The index of the numbers is made again.
DropNumberIndex ==
    /\ At("unnumber")
    /\ indexes' = indexes \ {"number"}
    /\ Go("renumber")
    /\ UNCHANGED <<version, tables, runs, publications, observations, left>>

CreateNumberIndex ==
    /\ At("renumber")
    /\ NumbersAreUnique
    /\ indexes' = indexes \cup {"number"}
    /\ Go("parts")
    /\ UNCHANGED <<version, tables, runs, publications, observations, left>>

EndDuplicates ==
    /\ At("parts")
    /\ runs' = LastRuns(runs)
    /\ publications' = WithParts(publications, init.existing)
    /\ Go("unrun")
    /\ UNCHANGED <<version, tables, observations, indexes, left>>

DropRunIndex ==
    /\ At("unrun")
    /\ indexes' = indexes \ {"running"}
    /\ Go("rerun")
    /\ UNCHANGED <<version, tables, runs, publications, observations, left>>

CreateRunIndex ==
    /\ At("rerun")
    /\ Cardinality(Running(runs)) <= 1
    /\ indexes' = indexes \cup {"running"}
    /\ Go("current")
    /\ UNCHANGED <<version, tables, runs, publications, observations, left>>

\* _ensure_current_publication_unique_index.
CreateCurrentIndex ==
    /\ At("current")
    /\ Cardinality(Current(publications)) <= 1
    /\ indexes' = indexes \cup {"current"}
    /\ Go("backfill")
    /\ UNCHANGED <<version, tables, runs, publications, observations, left>>

\* Rows that the next index forbids.
Blocked ==
    \/ At("fill") /\ tables.observations = "current" /\ ~NumbersAreUnique
    \/ At("renumber") /\ ~NumbersAreUnique
    \/ At("rerun") /\ Cardinality(Running(runs)) > 1
    \/ At("current") /\ Cardinality(Current(publications)) > 1

\* They make init_schema raise.
Refuse ==
    /\ Blocked
    /\ Off
    /\ UNCHANGED <<version, tables, runs, publications, observations, indexes, left>>

\* _backfill_observations is for the versions before observations.
NeedsBackfill(existing) == existing < 3

Backfill ==
    /\ At("backfill")
    /\ observations' = IF NeedsBackfill(init.existing)
                       THEN [f \in Findings |-> observations[f] + 1] ELSE observations
    /\ Go("version")
    /\ UNCHANGED <<version, tables, runs, publications, indexes, left>>

SetVersion ==
    /\ At("version")
    /\ version' = SchemaVersion
    /\ Off
    /\ UNCHANGED <<tables, runs, publications, observations, indexes, left>>

\* init stops between two steps.
Stop ==
    /\ ~At("off")
    /\ Spend("stop")
    /\ Off
    /\ UNCHANGED <<version, tables, runs, publications, observations, indexes>>

-----------------------------------------------------------------------------
(* The operator, and a gateway of this version: verify_schema keeps it from *)
(* any other database.                                                      *)

\* "resolve the duplicate rows before migrating".
Resolve ==
    /\ Cardinality(Current(publications)) > 1
    /\ publications' = [i \in DOMAIN publications |->
           [publications[i] EXCEPT !.current =
               @ /\ \A j \in Current(publications) : j <= i]]
    /\ UNCHANGED <<version, tables, runs, observations, indexes, init, left>>

\* start_run ends the runs that are running.
StartRun ==
    /\ version = SchemaVersion /\ Len(runs) < MaxRuns
    /\ runs' = Append([i \in DOMAIN runs |->
                          IF runs[i].status = "running"
                          THEN [runs[i] EXCEPT !.status = "failed", !.phase = "failed"]
                          ELSE runs[i]],
                      [status |-> "running", phase |-> "accepted", files |-> 0,
                       counted |-> FALSE, complete |-> FALSE])
    /\ UNCHANGED <<version, tables, publications, observations, indexes, init, left>>

RegisterFiles(i, files, complete) ==
    /\ version = SchemaVersion /\ runs[i].status = "running" /\ runs[i].files = 0
    /\ runs' = [runs EXCEPT ![i].files = files, ![i].counted = TRUE,
                            ![i].complete = complete]
    /\ UNCHANGED <<version, tables, publications, observations, indexes, init, left>>

\* finalize_review renders a review under the number that is next.
RenderReview(i) ==
    /\ version = SchemaVersion /\ Len(publications) < MaxPublications
    /\ runs[i].status = "running"
    /\ \A j \in DOMAIN publications : publications[j].run # i
    /\ LET taken == {publications[j].number : j \in Posted(publications)}
       IN  \E next \in 1..MaxPublications + 1 :
               /\ \A n \in taken : n < next
               /\ next = 1 \/ next - 1 \in taken
               /\ publications' = Append(publications,
                      [status |-> "generated", run |-> i, number |-> next,
                       part |-> FALSE, current |-> FALSE])
    /\ UNCHANGED <<version, tables, runs, observations, indexes, init, left>>

\* Broken: a review is claimed although its run has ended.
ClaimAnyReview(i) ==
    /\ version = SchemaVersion /\ publications[i].status = "generated"
    /\ publications' = [publications EXCEPT ![i].status = "posting"]
    /\ UNCHANGED <<version, tables, runs, observations, indexes, init, left>>

\* review_deliver finds the run running; the claim of its publisher, which does
\* not look at the run, is made in the same step.
ClaimReview(i) ==
    /\ version = SchemaVersion /\ publications[i].status = "generated"
    /\ runs[publications[i].run].status = "running"
    /\ publications' = [publications EXCEPT ![i].status = "posting"]
    /\ UNCHANGED <<version, tables, runs, observations, indexes, init, left>>

\* mark_publication_posted: the review is posted and supersedes the others,
\* also if its run has ended since, or after it was taken back, by another
\* deliver of the run.  The index leaves out reviews without a number.
PostReview(i) ==
    LET p == publications[i]
    IN  /\ version = SchemaVersion /\ p.status \in {"posting", "publish_failed"}
        /\ "number" \in indexes /\ p.number # 0 =>
               \A j \in Posted(publications) : publications[j].number # p.number
        /\ publications' = [j \in DOMAIN publications |->
               IF j = i THEN [p EXCEPT !.status = "posted", !.part = TRUE, !.current = TRUE]
               ELSE [publications[j] EXCEPT !.current = FALSE]]
        /\ runs' = IF runs[p.run].status = "running"
                   THEN [runs EXCEPT ![p.run].status = "generated", ![p.run].phase = "posted"]
                   ELSE runs
        /\ UNCHANGED <<version, tables, observations, indexes, init, left>>

\* mark_publication_failed, after a clean-up that failed: the review a publisher
\* of this gateway posted is not posted any more.
TakeBackReview(i) ==
    /\ version = SchemaVersion
    /\ publications[i].status = "posted" /\ publications[i].run # 0
    /\ publications' = [publications EXCEPT ![i].status = "publish_failed",
                                            ![i].current = FALSE]
    /\ UNCHANGED <<version, tables, runs, observations, indexes, init, left>>

InitSteps ==
    \/ Number \/ MigrateStatus \/ ReadRuns \/ RebuildRuns \/ Fill
    \/ RebuildObservations \/ DropNumberIndex \/ CreateNumberIndex \/ EndDuplicates
    \/ DropRunIndex \/ CreateRunIndex \/ CreateCurrentIndex \/ Refuse
    \/ Backfill \/ SetVersion

UpgradeNext ==
    \/ StartInit \/ InitSteps \/ Stop \/ Resolve \/ StartRun
    \/ \E i \in DOMAIN runs :
           \/ \E files \in 0..1, complete \in BOOLEAN : RegisterFiles(i, files, complete)
           \/ RenderReview(i)
    \/ \E i \in DOMAIN publications : ClaimReview(i) \/ PostReview(i) \/ TakeBackReview(i)

\* An init goes on until it ends or is stopped, it is called again at every
\* deployment, and an operator does what its message asks for.
UpgradeSpec ==
    /\ UpgradeInit /\ [][UpgradeNext]_vars
    /\ WF_vars(StartInit) /\ WF_vars(InitSteps) /\ WF_vars(Resolve)

-----------------------------------------------------------------------------
\* Every variable holds values its column or the program can have, and each
\* shape of review_runs only the statuses and phases its CHECK allows.
UpgradeTypeOK ==
    /\ version \in 0..SchemaVersion
    /\ tables \in Shapes
    /\ runs \in Seq(Run)
    /\ \A i \in DOMAIN runs :
           /\ runs[i].status # IF tables.runs = "done" THEN "generated" ELSE "done"
           /\ runs[i].phase = IF tables.runs = "current" THEN PhaseOf(runs[i].status) ELSE ""
    /\ publications \in Seq(Publication)
    /\ observations \in [Findings -> Nat]
    /\ indexes \subseteq {"running", "number", "current"}

\* What a gateway that verify_schema lets in relies on: one running run, one
\* current review, no two posted reviews of one number and at most one without
\* (one whose number the upgrade cleared before it was posted), each with its
\* first comment, and an observation of every finding, whatever version the
\* database had and wherever an earlier init was stopped.
ReadyMeansUpgraded ==
    version = SchemaVersion =>
        /\ tables = Upgraded
        /\ {"number", "current"} \subseteq indexes
        /\ Cardinality(Running(runs)) <= 1
        /\ Cardinality(Current(publications)) <= 1
        /\ \A i, j \in Posted(publications) :
               publications[i].number = publications[j].number => i = j
        /\ \A i \in Posted(publications) : publications[i].part
        /\ \A f \in Findings : observations[f] > 0

\* No upgrade loses a run or changes how it ended; one that still runs is
\* ended only for a later one that runs on.
OutcomesSurvive ==
    [][\A i \in DOMAIN runs :
          /\ i \in DOMAIN runs'
          /\ runs[i].status \in {"generated", "failed"} => runs'[i].status = runs[i].status
          /\ runs[i].status = "done" => runs'[i].status \in {"done", "generated"}
          /\ runs[i].status = "running" /\ runs'[i].status = "failed" =>
                 \E j \in Running(runs') : j > i]_vars

\* An init on a database of this version ("idempotent") leaves what the live
\* gateway has written, but for counting no files of a run without counts.
RerunIsHarmless ==
    [][init.pc # "off" /\ init.existing = SchemaVersion /\ init' # init =>
          /\ UNCHANGED <<version, tables, publications, observations>>
          /\ runs' = [i \in DOMAIN runs |-> [runs[i] EXCEPT !.counted = runs'[i].counted]]]_vars

\* An upgrade that is tried again comes to an end.
EveryUpgradeEnds == <>(version = SchemaVersion)
=============================================================================

# Verification of the review infrastructure

This directory holds TLA+ models of the Eneo review bot: the plugin that reviews
pull requests on request, keeps its runs, findings and publications in SQLite,
posts the result on GitHub and takes feedback from developers. TLC checks the
models on small instances; TLAPS proves their safety properties for every size.
`PROJECT.json` relates every definition to the source lines it models and lists
the hazards of the code with the properties about them.

## The system

| Component | State | Operations | Talks to |
| --- | --- | --- | --- |
| Run table (`memory_runs.py`) | `review_runs`: one row per `/review`: status, phase, failure code, snapshot, heartbeat, id of the failure notice | `start_run`, `update_run_phase`, `complete_run`, `mark_stale_runs_failed`, `record_`/`clear_failure_status_comment`, `failed_runs_needing_status` | called by tool handlers, publisher, operator command, each on a connection of its own |
| Tool handlers (`tools.py`) | none but the call in progress | `review_begin`, the reviewing tools behind `_review_run_snapshot`, `review_memory_record`, `review_deliver` | GitHub, run table, findings, file index, publisher |
| Publication ledger (`memory_publications.py`) | `review_publications`, `review_publication_comments`, `publication_findings`, `review_subjects` | `finalize_review`, `claim_publication_for_posting`, `mark_publication_posted`, `mark_publication_failed`, supersession | handlers, publisher |
| Publisher (`review_publisher.py`) | none | `publish_review`, `_publish_suggestions`, `publish_run_failure_status`, clean-up of notices | GitHub, ledger |
| Operator command (`tools/eneo_review_memory.py`) | none | `init`, `runs --mark-stalled`, `--publish-failure-status` (`reap_and_publish`) | schema, run table, publisher |
| Suggestions (`memory_suggestions.py`) | `review_suggestions`, the suggestion columns and lease on `review_publications` | select, store, claim, renew, mark posted or failed | handlers, publisher |
| Findings (`memory_findings.py`, `memory_decisions.py`, `memory_verification.py`) | findings, observations, decisions, local references, reconciliations | record, suppress, reconcile, drop | handlers, ledger, bridge |
| File index (`memory_coverage.py`, `changed_files.py`, `diff_render.py`) | `review_run_files`, the registration columns of the run | register, list, record exposures and ranges, summarise | handlers |
| Feedback bridge (`feedback_bridge.py`, `memory_feedback.py`) | processed events, decisions, quality rows | record one comment, react to it, explain | GitHub, findings |
| Schema (`memory_schema.py`) | `user_version`, the tables and their unique indexes | `init_schema`, `verify_schema` | everything |
| Rendering, reporting, coach, installation | | | not interleaved with the rest |

What makes it hard: several sessions of the model, the operator's command and
the feedback bridge share one SQLite database; a handler is a sequence of short
transactions with GitHub requests in between; the pull request moves under it;
requests fail, and a POST may have happened all the same; the container restarts
and nothing resumes a session; a silent run is only ended by somebody else. What
makes the components correct:

- one running run per pull request, on its newest request, with an outcome that
  is written once and explains itself;
- one publisher of a run at a time, and no claim that is used after it was taken
  away;
- reviews that come out in order, each once, in full, under unique numbers, with
  one of them current;
- no silent failure, and no failure notice for a run that is going;
- one patch per finding on a head, on GitHub once, and none announced that is
  not there;
- a board of open findings that only reviews change, on which none gets lost;
- a coverage that says "complete" only of what the session was given;
- a feedback command that counts once and is answered by what was recorded;
- an upgrade that loses nothing wherever it is stopped.

## Modules

`MC...` modules instantiate the module they are named after.

- **ReviewRuns**: the run table for one pull request. One action per transaction
  (`StartRun`, `UpdateRunPhase`, `FailRun`, `PostRun`, `FailStaleRuns`,
  `RecordNotice`, `ClearNotices`); any caller may run any of them at any time.
  A row's heartbeat is one bit, whether the stale cutoff has passed (`stale`,
  set by `PassCutoff`); the cutoff is 30 minutes in `start_run` and at least ten
  in the operator's examples, and the model does not tell them apart.
- **ReviewDelivery** extends it with everything around the table: sessions
  (`calls`), the pull request (`pr`), the subjects (`subjects`), the publication
  ledger (`pubs`), the comments and notices on GitHub (`comments`, `notices`) and
  the operator's command (`reaper`). A session's `pc` names its next step; a step
  is one transaction or one GitHub request of the handler, in the order of the
  code: `begin_*` is `review_begin`, `fetch` and `validate` the snapshot check in
  front of every tool, `record` `review_memory_record`, `finalize` to `claim`
  `review_deliver`, `verify` to `cleanup` `publish_review`, `notice`
  `publish_run_failure_status`. An error of the delivery goes to `HandlerError`,
  which marks the run failed and posts the notice; the marking is best effort
  (`_mark_run_failed` swallows what the database answers), so with `"locked"` in
  `FaultPoints` the notice may be posted for a run that goes on. What one step
  reads and a later one uses is kept in between: `calls[c].pull` is the pull
  request as last read, `calls[c].listed` how many comments the listing returned,
  `calls[c].stale` and `reaper` the runs a SELECT found stale.
- **ReviewLedger**: what the publication ledger promises, without runs, claims or
  failures. `ReviewDelivery` implements it under the mapping `Ledger`.
- **SuggestionDelivery**: the review of atomic suggestions that `publish_review`
  posts before the summary. `rows` are publications with their run and lease,
  `threads` the suggestion comments on GitHub, `flying` the requests that were lost
  on the way and may still land, `callers` the calls of `publish_review`, several
  of which may work on one review. A review has any number of suggestions; the
  publisher posts and reads back the first `Limit` of them (`ToPost`), and the
  recovery lists the newest `Window` comments. `Reap` is the stale clean-up, which
  ends a run together with its claims.
- **SuggestionRecords**: where these suggestions come from: the selection of
  `_record_optional_suggestions` and the table `review_suggestions`, over reruns on
  one head up to what they post. A call is three steps: `Record` (the findings are
  stored, for a run that is going), `Select` and `Store`, between which GitHub is
  read; only the first asks for the run. So a call may outlive its run: `Deliver`
  and `EndRun` do not wait for it, and `late` has the runs of which a call stored
  its rows after the end. The table is a set of rows, ordered by their `id`, with
  the counter `lastId` beside it; `Take` is one turn of the selection loop, `Turns`
  and `Choose` the loop.
- **FindingLifecycle**: findings of one pull request over several reviews. A run
  with its session is a record of `runs`, `ledger` is `review_publications` with
  `publication_findings`, `refs` the local references, `decisions` the latest
  decision per finding, `dropping` the verifier's decision between its check and
  its write. After `Post` a session is in its clean-up, whose failure (`TakeBack`)
  overwrites `posted` as `mark_publication_failed` does: the review counts no more
  for what is open, its number is free, and no review is `current`, so that the
  next one finds nothing before it (`Previous`).
- **FindingBoard**: what `FindingLifecycle` promises of the open findings: a
  board that changes only when a review comes out or is taken back, and never holds
  more than `MAX_FINDINGS_PER_REVIEW` before the first is taken back.
- **FileIndex**: one run's registration of changed files (the pager of
  `changed_files.py` page by page), diffs, file reads, the listing by cursor and
  the coverage that the review states. A tool call is a record of `calls`; `told`
  is what the session was given, what it was refused though it was recorded, and
  what a call had fetched when the run ended under it. `Finalize` does not wait for
  calls that are open.
- **FeedbackBridge**: comments delivered again and again to a server with a few
  handlers; `events`, `records` are the database, `reactions` and `told` what the
  developer sees. The pull request is read in a step of its own, which may find it
  closed, or be answered 404 (`PullNotFound`; `unfound` remembers for which
  comments). `current` is the review that is out, none after one was taken back
  (`TakeBackReview`).
- **SchemaUpgrade**: `init_schema` commit by commit on databases of several ages,
  with stops, and beside a gateway of this version (`StartRun`, `RegisterFiles`,
  `RenderReview`, `ClaimReview`, `PostReview`, `TakeBackReview`). An old database
  has posted reviews and reviews rendered for runs that still run
  (`OldPublications`); `Number` clears the number of the latter, and this version's
  gateway may post them afterwards.
- **ReviewDeliveryProofs** (the run table, and the delivery on top of it),
  **PublicationProofs** (the delivery, its ledger and its publishers),
  **SuggestionDeliveryProofs**, **SuggestionRecordsProofs**,
  **FindingLifecycleProofs**, **FileIndexProofs**, **FeedbackBridgeProofs**,
  **SchemaUpgradeProofs**: the theorems.

Modules meet where components do. `ReviewDelivery` uses the actions of
`ReviewRuns` and is shown to implement it. The other modules keep of a neighbour
what they need: `FindingLifecycle` and `FileIndex` have the runs as far as a
session can be superseded, `SuggestionDelivery` the publisher's steps around the
suggestions and its claim of the review, `FeedbackBridge` the reviews as they
come out.

Some correspondences are easy to miss:

- `mark_stale_runs_failed` selects before its transaction begins: Python's
  sqlite3 opens a transaction at the first statement that writes and
  `with connection:` only ends it. So the model has two steps (`BeginReap` and
  `BeginFailStale`, `ReaperFinds` and `ReaperMarks`). The UPDATE of the runs
  repeats the condition, the release of the claims does not. For the same reason
  `record_file_range` is two steps in `FileIndex` (`LookupFile` to
  `WriteRanges`), `record_candidate_reconciliation` is `DropCheck` and
  `DropWrite`, and the commits of `init_schema` are where `SchemaUpgrade` has
  them.
- `_subject_row` does not ask for the base and has no ORDER BY. The last of
  `SubjectsOf` is the answer SQLite gives by its index
  `idx_review_subjects_repo_pr`, which ends in `id DESC`.
- `finalize_review` does not look at the status of the run, and a publisher past
  its second look at the pull request looks at neither run nor pull request. The
  models have no guard there either.
- `mark_publication_failed` overwrites any status, `mark_publication_posted`
  accepts `generated`, `posting` and `posted`.
- A session answered "duplicate" is told to stop. With `ExtraSessions` it goes on
  with the run instead, as a model may: the handlers do not know sessions.
- `record_findings` and `review_deliver` ask for the run's status before the
  transaction they ask it for (`RecordCheck`, `DeliverCheck`).
- `posted` is not final: the clean-up of notices is inside the `try` of
  `publish_review`, after `mark_publication_posted`. Every module with a ledger has
  this step (`CleanupFails` of `ReviewDelivery`, `TakeBack` of
  `FindingLifecycle`, `TakeBackReview` of `FeedbackBridge` and `SchemaUpgrade`).

### Abstractions

- One pull request, one repository; a snapshot is a pair of base and head. In
  `FindingLifecycle` the head is what it made of the file of each finding, and a
  push is seen at the next `start_run`, the only place that asks.
- In `ReviewDelivery` a review has no atomic suggestions (they are the subject of
  `SuggestionDelivery`) and its body splits into `Parts` comments, always as many
  (so `_publish_parts` never has a part to delete). Updating a comment leaves it
  what it is.
- Failure codes that a property does not tell apart are one: any GitHub error of
  the publisher is `publish_failed`, any reason to be stale `pull_request_changed`.
- In `ReviewDelivery`, why `finalize_review` refuses or asks for other verdicts is
  left open: `FinalizeConflict` and `FinalizeRefused` may happen whenever the
  code's status conditions allow it. `FindingLifecycle` has the reasons.
- A GitHub request fails at most `MaxFaults` times per behaviour, at the steps in
  `FaultPoints` where there is that constant; retries and token fallback inside a
  request are part of it.
- `publish_run_failure_status` and the clean-up of notices are one step each, and
  deleting a comment succeeds.
- A session of a superseded run ends, as it is told to.
- A write that the code makes as best it can may be refused by the database:
  that is the fault point `"locked"`, at the marking of a failed run. `Concurrent.cfg`
  and `Liveness.cfg` have it, `Delivery.cfg` has the properties that need its
  absence.
- In `SuggestionDelivery` the suggestions of a review do not change once it is
  rendered (what a late record call does to them is in `SuggestionRecords`), and the
  clean-up does not end the run of a publisher that has just entered: its handler
  gave a heartbeat in the transaction before, and the cutoff is ten minutes or more.
- In `SuggestionRecords` the calls of one run follow each other, and the status of
  the run is asked in the transaction of the findings (`FindingLifecycle` has the
  gap between the two).
- In `SchemaUpgrade` a rendered review of a running run of an old database stands
  also for one that the old gateway was posting or had failed to post, and the check
  of the run and the claim of its review are one step. An old gateway that runs
  again after a stopped upgrade is left out.
- A patch is a range of lines of one file and one of two texts; the checks on its
  text (plain, short, different, the head's own lines) are taken to succeed.
- A diff is a set of blocks, each of the head and path it shows; a size is a
  number of units, and budgets and page limits are in the same units.
- A comment is one command of one author, never edited; who the author is, and
  what the command says, does not change between its deliveries.
- A database is the rows of one pull request; observations are counted.

## What the runs check

| Run | Instance | Question |
| --- | --- | --- |
| `Delivery.cfg` | 2 sessions, 2 runs, push, fault, ageing | Do runs, claims, notices and the ledger survive a stale clean-up racing the publisher? |
| `Concurrent.cfg` | 2 sessions that may share a run, 2 parts, a listing of two comments, push, fault of the posting | Is there one publisher at a time, no listed part twice, and what is recorded on GitHub in full? Do reviews come out in order though a run has two sessions? Is every step one of the table's? |
| `Liveness.cfg` | 1 session at a time, 2 runs, the pull request closed, late faults, restart, ageing | Does every run end, and is every failure answered? |
| `Suggestions.cfg` | 3 publishers, up to 3 suggestions where a review takes 2, 2 reviews, leases and runs that age, a lost request that may land late, a move of the pull request, restart | Is no suggestion posted twice, and are the ones a review takes there when it is called posted? |
| `Records.cfg` | 3 findings on 2 hunks, 2 runs of 2 calls, which may outlive them, 2 suggestions at most | Is there one patch per finding, on the diff, chosen by priority? |
| `Lifecycle.cfg` | 2 findings, 2 versions, 3 runs, one push, one decision, one review taken back, one open finding at most | Do findings stay accounted for while reviews supersede one another, and does the board move with reviews alone? |
| `FileIndex.cfg` | 4 paths, 2 heads, 2 calls at once and 2 more, a fault | Does complete coverage mean that calls of the session had the whole diff? |
| `Feedback.cfg` | 2 comments, 2 handlers, 3 deliveries, 2 reviews, one of them taken back, a fault, 404 or restart | Does a command count once and get a true answer? |
| `Upgrade.cfg` | 5 ages, 2 runs, 3 publications, one stop, one rerun of init | Is a database that passes `verify_schema` what the gateway needs? |

The properties:

- `RunningIsNewest`, `OutcomeExplained`, `OutcomeIsFinal`: the table.
- `ReviewsComeOutInOrder`: `pubs` implements `ReviewLedger`: the sequence of runs
  by review number only grows, by newer runs, and what is current is its last.
- `ReleasedClaimIsNeverPosted`: a review whose claim was taken away or given up
  and whose run has ended is neither claimed nor posted any more.
- `ClaimIsExclusive`, `NoPartTwice`, `RecordedReviewIsOnGitHub`: the publisher.
- `NoNoticeForRunningRun` (if the database never refuses to mark a run failed),
  `NoSilentFailure`, `EveryRunEnds`: the runs' ends.
- `RunsSpec`: the delivery implements the run table.
- `NoSuggestionTwice`, `OfferedSuggestionsAreThere`, `LiveClaimIsRespected`: the
  lease, the recovery after an ambiguous create, and what is there when the
  suggestions are called posted. A live claim may end with its run.
- `NoCompetingPatches`, `PatchesFitTheDiff`, `SelectionIsByPriority`: the choice
  of suggestions, over the calls of one run and the reruns on a head. What was
  posted has one patch per finding but for runs of which a call stored late.
- `ReferencesNameOneFinding`, `AccountsForOpenFindings`, `BoardSpec`: whoever is
  superseded, whatever is dropped or suppressed between rendering and posting. The
  second holds until a review is taken back; the third also after that, but for
  the limit.
- `RegistrationIsOfTheHead`, `CompleteCoverageWasSeen`, `ListingMissesNothing`:
  the file index under pushes and parallel calls.
- `RecordedOnce`, `RecordsAreOfTheCurrentReview`, `ExplainedOnce`,
  `ReactionsAgree`: the bridge under repeated deliveries, two handlers at once,
  restarts and reviews that come out or are taken back meanwhile.
- `ReadyMeansUpgraded`, `OutcomesSurvive`, `RerunIsHarmless`, `EveryUpgradeEnds`:
  the upgrade.

Some properties do not hold when their hazards are combined, and the runs keep
them apart. With more comments than the publisher lists a retry posts parts again,
so `NoPartTwice` is about parts that are listed. `ClaimIsExclusive`, `NoPartTwice`
and `ReviewsComeOutInOrder` need sessions that do not share a run while runs age:
a claim has no token, so a publisher whose claim was released can finish under the
claim another session of the same run took after it. `ReleasedClaimIsNeverPosted`
and `NoNoticeForRunningRun` need a database that marks the run failed when the
handler asks it to. The first needs, moreover, sessions that do not share a run at
all: with nothing ageing, one of two gives its claim up as `publish_failed`, which
ends the run, and the other retries it. `NoSuggestionTwice` needs the reruns to
wait for the publisher they supersede (`Overlapping` FALSE): the lease is one of a
review, so two reviews may both list GitHub before either creates. It excepts a
request that lands after its publisher gave it up: no reader of GitHub can know of
it.

### Disagreements between the code and what the repository says of it

Each has a run with `expect: violation`; TLC's counterexample is the story.

| Run | The text | What happens |
| --- | --- | --- |
| `CleanupFailure.cfg` | OPERATIONS: `publish_failed` means publication failed | A failing scan after `mark_publication_posted` overwrites `posted`. |
| `SuppressedOnce.cfg` | SECURITY: suppressions bind to the exact reviewed file version | A finding the review did not observe is tested with the version of the review before. |
| `DiffReturned.cfg` | `_pr_diff_from_patches`: fully returned files are complete exposure | A path is stored as completely exposed and the answer is an empty hand-off, because another file has no patch. |

Others met while modelling, in the models' steps but without a run of their own:

- `_mark_run_failed` swallows what the database answers and `review_deliver` goes
  on to the failure notice, although `publish_run_failure_status` says that it works
  on rows that are failed: the notice may be of a run that is still running
  (`Delivery.cfg` with `"locked"` among its `FaultPoints` shows it);
- a review that stored more suggestions than one takes, in several record calls,
  announces them all in its summary, and the publisher posts the first;
- a record call under way when its run is delivered clears the rows the run was
  delivered with, and a rerun posts another patch for the same finding, although
  `suggestion_key` says that it must recover the first;
- a review whose clean-up failed is `publish_failed`, and what it left open is not
  active any more, although `active_publication_findings` says that a finding stays
  active until a later row changes its state;
- a second delivery of a run already posted ends in the error path and posts a
  failure notice, although `record_failure_status_comment` speaks of failed rows;
- removing a notice clears its id, so the operator's command posts it again;
- the base to publish on is the newest subject's of the head: a pull request
  retargeted there and back on one head ends as `stale` though it is unchanged;
- a run whose review number is taken fails "before publishing" after its comments
  are on GitHub;
- a run that was found stale and shows life before the UPDATE goes on without its
  claim;
- patches of two calls of `review_memory_record` in one run may overlap, although
  OPERATIONS promises non-overlapping patches per review;
- a command recorded whose thumb failed is answered `confused` if its job is run
  again after the pull request was closed, or while GitHub answers 404 for it;
- a review rendered before an upgrade from a version under 13 and posted after it
  has no number; and the number of a review that was taken back is given again only
  if no later one was rendered, so that numbers may have gaps;
- after a stop between the `confused` reaction and the explanation, the
  explanation never comes;
- an upgrade from before observations that stops after the backfill observes each
  legacy finding twice.

### Bounds

Two runs and two sessions are the least at which one run supersedes another,
a stale clean-up meets a publisher, and two publishers meet. Two parts make a
half-posted review. One push, one fault, one restart each make their hazard
happen at every step at which it can. The two heads play the same part, so
`FirstHeadSpec` starts on the first of them; `Liveness.cfg` has one head, and
the pull request may be closed instead of pushed to. In the other modules:

- `Suggestions.cfg`: a third publisher is needed for a lease taken over twice;
  a limit of two, so that one suggestion of two may be on GitHub already; a second
  review for a rerun that recovers the first one's. A review has no suggestions,
  two, or one more than it takes (`FewOffers`). `Overlapping` is FALSE: a rerun
  is prepared once no publisher of the earlier review is at work. `Window` 9
  is more comments than there can be.
- `Records.cfg`: three findings with one suggestion too many for the limit of
  two; a patch across two hunks, two patches for one finding, one of them on the
  line of another finding's. A call records all findings or the second alone
  (`Batches`), and there may be a decision on the first (`Disputed`).
- `Lifecycle.cfg`: three runs, so that two reviews rendered on the same board can
  both try to come out on a board that is not empty; a limit of one, so that a
  second open finding is one too many; one review is taken back,
  before or after the others are rendered.
- `FileIndex.cfg`: pages of two files and one more to end the list, a limit of
  three registered files out of four, a whole diff that fits or does not, budgets
  that cut and do not; a head that was left does not come back.
- `Feedback.cfg`: every kind of command an allowed author can give, with one for
  those that are refused alike, a decision by a member and by an outsider, and a
  member's `/review`; two reviews so that one is superseded, or taken back, between
  the handler's reading and its transaction.
- `Upgrade.cfg`: ages from before observations (2), before comment parts (7),
  before run-owned observations (11), before numbers belonged to posted reviews
  (12), and today's; two runs, since duplicates are pairs, and three publications,
  so that beside two posted ones another is rendered; one finding; one stop, since
  an upgrade begins again from the version it left, and one rerun of `init` on a
  database of this version.

The mutants in `PROJECT.json` show that each property fails within its run's
bounds when the code it is about is changed. `MaxRuns` bounds `review_begin`:
once that many runs are started or on their way, only a `review_begin` that finds
a running run on the same snapshot is let in (and stops there if that run ends
first). The other bounds are spent from `left`. Sessions may end and bounds may
be used up, so the systems may come to rest and deadlock is not checked.

### Fairness

`Liveness.cfg` assumes, and the code justifies:

- weak fairness of `Proceed(c)`: a call under way is a Python function that goes
  on unless its process dies (`Restart`, which leaves the session idle);
- strong fairness of `EndTurn(c)`: a turn is cut off by `max_turns` and by
  `tool_loop_guardrails` of `bootstrap/config.yaml`, so a session does not call
  tools for ever;
- weak fairness of `Silence(r)`: time passes, and a heartbeat that is not renewed
  falls behind the cutoff;
- weak fairness of `ReaperFinds`, `ReaperMarks` and `ReaperPosts(r)`: the operator
  repeats the command the documentation gives. Nothing in the repository runs it
  by itself. Without it a run whose container died stays running until the next
  `/review`, and no weaker assumption is enough.

`Upgrade.cfg` assumes weak fairness of `InitSteps` (the process goes on unless
stopped), of `StartInit` (`review-memory-init` runs again at every deployment,
and the other services wait for its success) and of `Resolve` (an operator
resolves the duplicate rows as the error message asks; with two current reviews
nothing else ends the upgrade).

Faults, stops and restarts are not fair: they may happen, at most as often as
bounded.

## What is proved

For any snapshots, any number of runs, sessions, parts, pushes, faults and
restarts (assumptions `RunsAssumption`, `DeliveryAssumption`: the bounds are
natural numbers, there is a snapshot):

1. `RunsSpec => []RunsTypeOK`, `[]RunningIsNewest`, `[]OutcomeExplained`, and
   `OutcomeIsFinal`. The inductive invariant is their conjunction `RunsInv`.
   None is inductive alone: that starting a run leaves no other running needs that
   the id is new, which is the type invariant's "ids above `last` are unused"; that
   a heartbeat keeps the phase right needs the status to explain it. The proof
   speaks of one row at a time (`RowOK`) and each transaction has a lemma about
   the row it leaves.
2. `DeliverySpec => RunsSpec`: every step of the delivery is one transaction on a
   run of the right kind or leaves the table alone. The invariant it needs,
   `CallsInv`, says that a call past `review_begin` works on a run and that its
   goal is a phase, so that the run it completes or heartbeats is one of the
   table's. One lemma per group of actions shows `RunsStep` and that the call that
   moves still has this form.
3. So the four properties of the table hold of the whole delivery
   (`DeliveryNewestAlone`, `DeliveryOutcomesExplained`,
   `DeliveryOutcomesAreFinal`).
4. `FeedbackSpec => []FeedbackTypeOK`, `[]RecordedOnce`, `[]ExplainedOnce`,
   `[]ReactionsAgree` and `RecordsAreOfTheCurrentReview`, for any comments,
   commands, handlers and findings and any number of deliveries, reviews, faults
   and restarts (`FeedbackAssumption`: the bounds are natural numbers, there is a
   comment). Each needs its own strengthening. `RowsAgree` states `RecordedOnce`
   row by row, so that the row a transaction appends is compared with the others.
   `OneExplains` adds what `ExplainedOnce` does not say: a handler about to
   explain is alone in that for its comment, and nobody has explained it yet,
   since the first `confused` reaction elects it. `AnswersAgree` adds what a
   handler about to react knows for good: the outcome it confirms is the stored
   one, and a refusal has a reason that does not go away. The reasons are the
   command itself, that the pull request was closed once, or that GitHub answered
   404 for it to a handler of that comment.
5. `LifecycleSpec => []LifecycleTypeOK`, `[]ReferencesNameOneFinding`,
   `AccountsForOpenFindings` and `BoardSpec` (the refinement of `FindingBoard`), for
   any findings, versions, limit, runs, pushes and decisions
   (`LifecycleAssumption`: the findings are finitely many, the limit is positive).
   `ReferencesGrow` bounds the references by the number of findings that have one,
   so that going on from the largest cannot meet one in use. `LedgerInv` carries
   the rest: the reviews that came out have the numbers below the next one
   (`NumbersInOrder`), and a review that still holds the next number was rendered
   after all of them, on the board as it is (`NextIsUpToDate`). A review may be
   rendered long before it comes out; if another came out in between it has the
   same number, and the unique index refuses the late one. These parts hold until a
   review is taken back (`Undisturbed`), which leaves a number free that an earlier
   review may hold. `AccountsForOpenFindings` has this as its condition, and the
   board is `disturbed` from then on; that only a review that comes out or is taken
   back moves the board is proved without it.
6. `DeliverySpec => []DeliveryTypeOK` and `[]RecordedReviewIsOnGitHub`, with no
   hypothesis beyond the two assumptions, and `[]NoNoticeForRunningRun` if
   `"locked" \notin FaultPoints`: the code posts the notice also when the database
   refused to mark the run failed.
   The invariant is `DeliveryInv`: that of the runs and calls (`RunsInv`,
   `CallsInv`), `PublicationInv` and `SideInv`. `PublicationInv` says of every
   call between claim and mark which comments it has collected, that each is on
   GitHub as the part of its run it is to be, and that there is a row for it;
   comments are only ever added. `SideInv` says that a notice is of an ended run,
   under that hypothesis.
7. `DeliverySpec => []ClaimIsExclusive` and `[]NoPartTwice` if
   `~(ExtraSessions /\ Ageing)`. `ClaimInv` says that a publisher at work is the
   only holder of its run and that the row's status says it is held.
   `PartsInv` says that a publisher has seen every listed part there is.
   The hypothesis excludes what goes wrong in the code: a claim has no token, so
   of two sessions on one run the one whose claim was released, its run having
   grown stale, goes on under the claim of the other. `Delivery.cfg` checks the
   one half (runs age, a run has one session) and `Concurrent.cfg` the other.
8. `DeliverySpec => ReleasedClaimIsNeverPosted` if `~ExtraSessions` and `"locked"
   \notin FaultPoints` (a run that was not marked failed goes on, and its session
   may deliver once more). The invariant adds `NotClaimedBefore`: before its
   session claims the review of a run that is still going, nobody has claimed it.
   The hypothesis cannot be that of 7: TLC violates the property with sessions
   that share a run even if nothing ages. `Delivery.cfg`, which checks it, is an
   instance.
9. `DeliverySpec => ReviewsComeOutInOrder`, the refinement of `ReviewLedger`, if
   `~(ExtraSessions /\ Ageing)` and `"cleanup" \notin FaultPoints`. `LedgerInv`
   says that the reviews that came out have the numbers from one on, each once,
   that a review which is claimed is not out yet, and that it can only hold the
   next number if every review that is out is of an older run: another number is
   taken, and the unique index refuses it. That sessions may share a run costs two
   facts: a publisher is the only holder of its run (`ClaimInv` of 7), so its mark
   cannot be the second one; and a session that comes to post has a rendered
   review, so none is rendered again, under a new number, once it is claimed. The
   second hypothesis is again the code's: a clean-up that fails after the review
   was posted overwrites `posted` (`CleanupFailure.cfg`). `Delivery.cfg` and
   `Concurrent.cfg` check the two halves of the first.
10. `SuggestionSpec => []SuggestionTypeOK`, `[]OfferedSuggestionsAreThere` and
    `LiveClaimIsRespected`, for any reviews, publishers and bounds and finitely
    many suggestions. `FormedInv` carries for each publisher what it knows of
    GitHub: what it was going to create was not among the comments it listed,
    and what it found, or created, is there. Comments are only ever added, so
    knowledge of presence stays true while others work; knowledge of absence is
    tied to the number of comments listed. All of it is about the first `Limit`
    suggestions of a review, which are the same for all its publishers.
11. `SuggestionSpec => [](Len(threads) <= Window => NoSuggestionTwice)` if
    `~Overlapping`. `HolderInv`: as long as the run goes on, one publisher is past
    the claim of its review. `LeaseInv`: a publisher whose request may be under
    way has a lease that did not run out, or its run was ended under it and no
    other publisher is left to take the lease (`Cut`). `NewestInv`: whoever is at
    work is on the newest review. `SawInv`: while a publisher has its lease, what
    was posted after it listed the comments came late. In `Suggestions.cfg` there
    are never more comments than `Window`, so that `NoSuggestionTwice` itself is
    checked. Without `~Overlapping` two reviews may both list before either
    creates.
12. `FileIndexSpec => []FileIndexTypeOK`, `[]RegistrationIsOfTheHead`,
    `[]CompleteCoverageWasSeen` and `[]ListingMissesNothing`, for any finite set of
    paths, any heads, listings, sizes, page sizes, limits and calls. The core is
    `HeadInv` and `SeenInv`: as long as the head is that of the run, so is
    everything any call has read; and a file stored as completely exposed is held
    (`Held`): shown to the session, refused to it, in the hands of a call, or of one
    that ended with the run. What is held stays held, so that a delivery need not
    wait for the calls. The head does not come back once it was left, and the
    snapshot check compares it after each read; both are needed. `ListInv` says
    that the rows given so far ascend, end at the cursor, and have every row up to
    it that was there at the first page.
13. `UpgradeSpec => []UpgradeTypeOK`, `[]ReadyMeansUpgraded`, `OutcomesSurvive` and
    `RerunIsHarmless`, for any version after the twelfth (the steps of this code
    ask for versions up to 13; `SCHEMA_VERSION` is 15), any databases up to it,
    finitely many findings, and any number of runs, publications, inits and stops.
    `InitInv` states for each point of `init_schema` what is established by then
    (which tables are rebuilt, which indexes are there), and that what it read a
    step before is still so, since no gateway works on a database of an older
    version. `NumbersInv` is what makes a renumbering that is tried again
    harmless: the posted reviews of an old database are numbered all or not at all.
    It also says that a run has one review, and that of the reviews without a number
    that are posted or may yet be (`Unnumbered`) there is one at most, since the
    upgrade leaves one running run. The unique index keeps numbers apart; that
    they have no gap is not so, since a posted review may be taken back.
14. `RecordsSpec => []RecordsTypeOK`, `[]NoCompetingPatches`,
    `[]PatchesFitTheDiff` and `[]SelectionIsByPriority`, for any number of
    findings, lines and hunks, any limit, and any runs and calls
    (`RecordsAssumption`). `RecordsInv` has a part for each place a patch passes:
    a call between its two transactions holds what the loop chose (`CallInv`), the
    rows of a finding have one patch and it fits the diff (`TableInv`), and what
    is on GitHub is of runs that ended, whose rows are still there unless a call
    of the run stored later (`GithubInv`). The last is why a rerun posts the same
    patch: `Store` clears the rows of its own run alone, so the rows of a run
    outside `late` stay. That a run is outside `late` nothing ensures. The
    selection loop is a recursive function on the findings, and what it preserves
    would be an induction, whose library theorem cannot be used here; so the proof
    takes a least counterexample in the natural numbers instead (`LeastExists`).
    In this way it shows that the function is defined (`TurnsExist`), that each
    turn keeps the chosen patches few, apart and on the diff, and that a finding
    left out had no patch that fits beside those chosen before its turn.

Every invariant and action property that a passing run checks is stated by a
theorem, some under the hypotheses named above. Only model-checked are
`NoSilentFailure`, `EveryRunEnds` and `EveryUpgradeEnds`: they are liveness
properties, which need fairness and `ENABLED` and are out of the prover's reach.

## What is not modelled

- The failure notice request by request (listing by marker, update or create, the
  stored id, deletion that fails): it is one step of `ReviewDelivery`.
- Candidate verification but for the decision that drops a candidate: its runs
  and results are records nothing else reads.
- The rebuilds of `findings` and `decisions` in `init_schema` (one `INSERT ...
  SELECT` in one transaction each, to widen a CHECK), its added columns, and
  `migrate_volume` (a copy under a temporary name, compared and renamed).
- Rendering (pure text), except which files a fallback diff returns; reporting,
  exports and coach artifacts (read-only, or private one-shot files);
  installation scripts; retries and parsing inside one GitHub request.
- The gateway itself, of which the models keep that sessions call tools in any
  order, are cut off, and die in a restart.

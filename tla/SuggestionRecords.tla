-------------------------- MODULE SuggestionRecords --------------------------
(***************************************************************************)
(* Which atomic suggestions a review offers: review_memory_record's        *)
(* _record_optional_suggestions with the review_suggestions table, over    *)
(* the reruns on one head, up to the publisher that posts them.            *)
(*                                                                         *)
(* A finding is its rank (1 is the most severe); it has one observation    *)
(* per run and one suggestion key on the head.  A patch is the line range  *)
(* of the one file it replaces and which of two replacements it makes.     *)
(***************************************************************************)
EXTENDS Naturals, FiniteSets, FiniteSetsExt

CONSTANTS
    LastFinding, \* the last rank of the findings that may have a suggestion
                \* at all (suggestion_eligibility_rejection)
    LineOf,     \* LineOf[f]: the line finding f is on
    Proposed,   \* Proposed[f]: patches the model may offer for f
    Hunks,      \* the hunks of the file: records of first, last, added lines
    MaxRange,   \* lines a suggestion may replace
    Limit,      \* suggestions one review may have
    Batches,    \* bound: the sets of findings one call may record
    Disputed,   \* bound: the findings there may be decisions on
    MaxRuns,    \* bound: runs on this head
    MaxCalls    \* bound: calls of review_memory_record per run

VARIABLES
    run,         \* the run that is going; MaxRuns + 1 after the last
    calls,       \* calls of review_memory_record it has had
    table,       \* rows of review_suggestions
    lastId,      \* no row has had a greater id (AUTOINCREMENT)
    suppressed,  \* findings a decision suppresses on this version of the file
    call,        \* call[r]: the call of run r between its transactions
    github,      \* the suggestions posted on the diff
    late         \* runs of which a call stored its rows after the run's end

vars == <<run, calls, table, lastId, suppressed, call, github, late>>

-----------------------------------------------------------------------------
(* Patches.                                                                *)

Runs == 1..MaxRuns

Findings == 1..LastFinding

FileLines == UNION {h.first..h.last : h \in Hunks}

Patches == [first : FileLines, last : FileLines, text : {"this", "that"}]

ASSUME RecordsAssumption ==
    /\ LastFinding \in Nat
    /\ Batches \subseteq SUBSET Findings /\ Disputed \subseteq Findings
    /\ MaxRange \in Nat \ {0} /\ Limit \in Nat
    /\ MaxRuns \in Nat /\ MaxCalls \in Nat
    /\ \A f \in Findings : LineOf[f] \in Nat
    /\ \A h \in Hunks : h.first \in Nat /\ h.last \in Nat /\ h.added \subseteq Nat
    /\ \A f \in Findings : Proposed[f] \subseteq Patches

Row == [id : Nat, run : Runs, finding : Findings, patch : Patches]

\* _ranges_overlap: the two patches share a line.
Overlap(p, q) == ~(p.last < q.first \/ q.last < p.first)

\* Broken: a range that ends beyond its hunk will do.
SuggestibleNearby(p) ==
    \E h \in Hunks : p.first \in h.first..h.last /\ p.first \in h.added

\* is_suggestible_right_side_range: inside one hunk, with an added line.
Suggestible(p) ==
    \E h \in Hunks :
        /\ p.first..p.last \subseteq h.first..h.last
        /\ p.first..p.last \cap h.added # {}

\* validate_suggestion; that the text replaced is the head's and that the
\* replacement is plain, short and different is taken for granted.
Valid(f, p) ==
    /\ LineOf[f] \in p.first..p.last
    /\ Cardinality(p.first..p.last) <= MaxRange
    /\ Suggestible(p)

-----------------------------------------------------------------------------
(* review_suggestions.                                                     *)

RowsOf(rows, f) == {row \in rows : row.finding = f}

\* ORDER BY id LIMIT 1, for the key of f.
First(rows, f) ==
    {row.patch : row \in {one \in RowsOf(rows, f) :
                              \A other \in RowsOf(rows, f) : one.id <= other.id}}

\* canonical_suggestions: the first patch stored for the key of f, if any.
Canonical(f) == First(table, f)

Nothing == [f \in {} |-> {}]

\* "asked" are the findings recorded, "offers" the patches the model offers
\* for them, "options" what was considered for each finding with an offer.
NoCall == [pc |-> "idle", asked |-> {}, offers |-> Nothing, options |-> Nothing,
           chosen |-> Nothing]

RecordsInit ==
    /\ run = 1 /\ calls = 0
    /\ table = {} /\ lastId = 0
    /\ suppressed \in SUBSET Disputed
    /\ call = [r \in Runs |-> NoCall]
    /\ github = {} /\ late = {}

\* Broken: the rows of an earlier call stay.
WithoutNone(rows, r, findings) == rows

\* The DELETEs for the observations of these findings.
Without(rows, r, findings) ==
    {row \in rows : ~(row.run = r /\ row.finding \in findings)}

\* Broken: the chosen patch is stored, whatever was stored meanwhile.
StoreChosen(rows, f, p) == p

\* replace_observation_suggestion: the first patch stored for the key of f
\* wins over the one chosen.
StoredPatch(rows, f, p) ==
    IF RowsOf(rows, f) = {} THEN p ELSE CHOOSE q \in First(rows, f) : TRUE

-----------------------------------------------------------------------------
(* _record_optional_suggestions.                                           *)

\* Broken: patches of one call may touch the same lines.
FitsAnything(p, chosen) == Cardinality(DOMAIN chosen) < Limit

\* A further patch: below the limit, on lines no chosen one touches.
Fits(p, chosen) ==
    /\ Cardinality(DOMAIN chosen) < Limit
    /\ \A g \in DOMAIN chosen : ~Overlap(p, chosen[g])

\* The patch considered for f: the canonical one, else the one offered; none
\* if the offer is refused.
Candidates(f, offered) ==
    IF Canonical(f) # {} THEN Canonical(f) ELSE {p \in {offered} : Valid(f, p)}

\* The turn of finding f: it gets the patch considered for it if that fits.
Take(chosen, f, options) ==
    IF f \in DOMAIN options /\ \E p \in options[f] : Fits(p, chosen)
    THEN [g \in DOMAIN chosen \cup {f} |->
             IF g = f THEN CHOOSE p \in options[f] : Fits(p, chosen)
             ELSE chosen[g]]
    ELSE chosen

\* What the loop has chosen after the findings of rank 1 to n.
Turns(options) ==
    LET chosen[n \in 0..LastFinding] ==
            IF n = 0 THEN Nothing ELSE Take(chosen[n - 1], n, options)
    IN chosen

\* The findings that carry a suggestion are taken in the order of rank.
Choose(options) == Turns(options)[LastFinding]

\* record_findings, for a run that is going: the observations are stored, and
\* whether each of the findings is suppressed now.  Bounds: the calls of one run
\* follow each other, and the status of the run, which the code asks before this
\* transaction (FindingLifecycle has the gap), is asked in it.
Record(recorded, offers) ==
    /\ run \in Runs /\ call[run].pc = "idle" /\ calls < MaxCalls
    /\ DOMAIN offers \subseteq recorded
    /\ call' = [call EXCEPT ![run] =
                   [pc |-> "select", asked |-> recorded,
                    offers |-> [f \in DOMAIN offers \ suppressed |-> offers[f]],
                    options |-> Nothing, chosen |-> Nothing]]
    /\ calls' = calls + 1
    /\ UNCHANGED <<run, table, lastId, suppressed, github, late>>

\* The canonical patches are read and the selection is made.  From here on
\* nothing is asked of the run, which may have ended.
Select(r) ==
    LET offers == call[r].offers
        options == [f \in DOMAIN offers |-> Candidates(f, offers[f])] IN
    /\ call[r].pc = "select"
    /\ call' = [call EXCEPT ![r] =
                   [pc |-> "store", asked |-> call[r].asked, offers |-> Nothing,
                    options |-> options, chosen |-> Choose(options)]]
    /\ UNCHANGED <<run, calls, table, lastId, suppressed, github, late>>

\* The rows that are stored for the findings chosen, in the order of rank.
\* A finding's row depends on the rows of that finding alone.
Inserted(rows, r, chosen) ==
    {[id |-> lastId + f, run |-> r, finding |-> f,
      patch |-> StoredPatch(rows, f, chosen[f])] : f \in DOMAIN chosen}

\* The second transaction: the rows of all findings recorded in this call
\* are cleared, then those of the chosen ones stored.
Store(r) ==
    LET kept == Without(table, r, call[r].asked) IN
    /\ call[r].pc = "store"
    /\ table' = kept \cup Inserted(kept, r, call[r].chosen)
    /\ lastId' = lastId + LastFinding
    /\ call' = [call EXCEPT ![r] = NoCall]
    /\ late' = late \cup ({r} \ {run})
    /\ UNCHANGED <<run, calls, suppressed, github>>

\* A transaction fails, which the findings do not depend on, or the process
\* dies.
CallFails(r) ==
    /\ call[r].pc \in {"select", "store"}
    /\ call' = [call EXCEPT ![r] = NoCall]
    /\ UNCHANGED <<run, calls, table, lastId, suppressed, github, late>>

\* The operator or a maintainer decides on a finding, or a decision expires.
\* Bound: only before the first call of a run.
Decide(f) ==
    /\ calls = 0
    /\ suppressed' = (suppressed \ {f}) \cup ({f} \ suppressed)
    /\ UNCHANGED <<run, calls, table, lastId, call, github, late>>

-----------------------------------------------------------------------------
(* Delivery.                                                               *)

\* suggestions_for_publication: the rows of the run whose findings are
\* published as current.
Offered(r) ==
    {row \in table : row.run = r /\ row.finding \notin suppressed}

\* _recovered_suggestion_comments: on GitHub already, for the same finding
\* and on the same lines.
Recovered(row) ==
    \E posted \in github :
        /\ posted.finding = row.finding
        /\ posted.patch.first = row.patch.first
        /\ posted.patch.last = row.patch.last

NextRun == run' = run + 1 /\ calls' = 0

\* The run is delivered, whether or not a call of it is in progress: Limit of
\* its suggestions are to be on the diff, and those that are not are posted.
Deliver ==
    /\ run \in Runs
    /\ \E selected \in SUBSET Offered(run) :
          /\ Cardinality(selected) = Min({Limit, Cardinality(Offered(run))})
          /\ github' = github \cup {row \in selected : ~Recovered(row)}
    /\ NextRun
    /\ UNCHANGED <<table, lastId, suppressed, call, late>>

\* The run fails or is ended by the stale clean-up, which does not stop a
\* call in progress; the next /review is on the same head.
EndRun ==
    /\ run \in Runs
    /\ NextRun
    /\ UNCHANGED <<table, lastId, suppressed, call, github, late>>

Offers(recorded) ==
    UNION {{offers \in [S -> Patches] : \A f \in S : offers[f] \in Proposed[f]} :
               S \in SUBSET recorded}

RecordsNext ==
    \/ \E recorded \in Batches :
           \E offers \in Offers(recorded) : Record(recorded, offers)
    \/ \E r \in Runs : Select(r) \/ Store(r) \/ CallFails(r)
    \/ \E f \in Disputed : Decide(f)
    \/ Deliver
    \/ EndRun

RecordsSpec == RecordsInit /\ [][RecordsNext]_vars

-----------------------------------------------------------------------------
\* Every variable holds values the columns, calls and GitHub can have, an id
\* is given once, and an observation has one suggestion.
RecordsTypeOK ==
    /\ run \in 1..(MaxRuns + 1) /\ calls \in 0..MaxCalls
    /\ table \subseteq Row /\ lastId \in Nat
    /\ \A row \in table : row.id <= lastId
    /\ \A one, other \in table :
           one.id = other.id \/ (one.run = other.run /\ one.finding = other.finding) =>
               one = other
    /\ suppressed \subseteq Findings
    /\ github \subseteq Row /\ late \subseteq Runs
    /\ \A r \in Runs :
           /\ call[r].pc \in {"idle", "select", "store"}
           /\ call[r].asked \subseteq Findings
           /\ DOMAIN call[r].offers \subseteq call[r].asked
           /\ \A f \in DOMAIN call[r].offers : call[r].offers[f] \in Patches
           /\ DOMAIN call[r].chosen \subseteq DOMAIN call[r].options
           /\ DOMAIN call[r].options \subseteq call[r].asked
           /\ \A f \in DOMAIN call[r].chosen : call[r].chosen[f] \in Patches

\* However the calls of two runs interleave, and whatever the model offers
\* the second time, one patch is on record for a finding on this head; and
\* no rerun puts another one on the diff beside it, unless a call of one of
\* the two runs was under way when its run ended.
NoCompetingPatches ==
    /\ \A one, other \in table : one.finding = other.finding => one.patch = other.patch
    /\ \A one, other \in github :
           one.finding = other.finding /\ {one.run, other.run} \cap late = {} =>
               one = other

\* Every patch on record can be placed on the diff, a canonical one on a rerun
\* too: all the lines it replaces are in one hunk, and one of them was added.
PatchesFitTheDiff ==
    \A row \in table :
        \E h \in Hunks :
            /\ h.first <= row.patch.first /\ row.patch.last <= h.last
            /\ \E n \in h.added : row.patch.first <= n /\ n <= row.patch.last

\* The selection of a call is the one docs/OPERATIONS.md promises, "at most
\* 12 highest-priority, non-overlapping atomic patches": there are no more of
\* them than the limit, they touch no common line, and a finding is left out
\* only for want of a valid patch, or because more severe ones fill the
\* review or take its lines.
SelectionIsByPriority ==
    \A r \in Runs :
        LET chosen == call[r].chosen
            options == call[r].options
            Before(f) == {g \in DOMAIN chosen : g < f}
        IN
        /\ Cardinality(DOMAIN chosen) <= Limit
        /\ \A f, g \in DOMAIN chosen : f # g => ~Overlap(chosen[f], chosen[g])
        /\ \A f \in DOMAIN options \ DOMAIN chosen : \A p \in options[f] :
               \/ Cardinality(Before(f)) = Limit
               \/ \E g \in Before(f) : Overlap(p, chosen[g])
=============================================================================

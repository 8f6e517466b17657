------------------------- MODULE SuggestionDelivery -------------------------
(***************************************************************************)
(* The atomic suggestions of a review, posted as one review on the diff    *)
(* before the summary: the lease of memory_suggestions.py on               *)
(* review_publications, and _publish_suggestions inside publish_review.    *)
(*                                                                         *)
(* Reviews 1, 2, ... are reruns on one head, so a finding has the same     *)
(* suggestion key in all of them.  A publisher is one call of              *)
(* publish_review; sessions that share a run make several for one review.  *)
(* A step is one SQLite transaction or one GitHub request.  The            *)
(* suggestions of a review do not change once it is rendered: what a late  *)
(* record call does to them is the subject of SuggestionRecords.           *)
(***************************************************************************)
EXTENDS Naturals, FiniteSets, Sequences, SequencesExt

CONSTANTS
    Publishers,   \* calls of publish_review
    NoOne,        \* no publisher
    Keys,         \* suggestions: the findings on this head, by reference
    Offers,       \* bound: the sets of suggestions a review may have
    Limit,        \* MAX_ATOMIC_SUGGESTIONS_PER_REVIEW
    MaxReviews,   \* bound: review rounds on this head
    Window,       \* comments in the ten pages the recovery lists
    Ageing,       \* TRUE: a lease may outlast its 30 minutes, a run its cutoff
    Overlapping,  \* TRUE: a rerun may meet publishers of an earlier review
    LateLanding,  \* TRUE: a lost request may reach GitHub any time later
    MaxMoves,     \* bound: the pull request leaves or rejoins the snapshot
    MaxFaults,    \* bound: failed GitHub requests
    MaxRestarts   \* bound: container restarts

ASSUME SuggestionAssumption ==
    /\ NoOne \notin Publishers /\ IsFiniteSet(Keys) /\ Keys \subseteq Nat
    /\ Offers \subseteq SUBSET Keys /\ Limit \in Nat \ {0}
    /\ MaxReviews \in Nat /\ Window \in Nat
    /\ Ageing \in BOOLEAN /\ Overlapping \in BOOLEAN /\ LateLanding \in BOOLEAN
    /\ MaxMoves \in Nat /\ MaxFaults \in Nat /\ MaxRestarts \in Nat

VARIABLES
    rows,      \* rows[n]: review n in review_publications, and its run
    threads,   \* the suggestion comments on GitHub, oldest first
    flying,    \* requests to create a review that were lost on the way
    callers,   \* callers[x]: the publisher x
    onTarget,  \* whether the pull request is open and on the reviews' snapshot
    left       \* what is left of the bounds

vars == <<rows, threads, flying, callers, onTarget, left>>

-----------------------------------------------------------------------------
(* State.                                                                  *)

Reviews == 1..MaxReviews

\* "status" is suggestion_delivery_status; "by" and "aged" are the lease:
\* suggestion_posting_started_at as the publisher that wrote it last, and
\* whether it is older than 30 minutes.  A publisher claims at most once, so
\* its name is as good as its timestamp.  "keys" are all suggestions stored
\* for the findings of the review, "help" says whether the summary
\* offers the suggestions, "ended" whether the run of the review has ended.
Row == [review : {"none", "generated", "posting", "posted", "publish_failed",
                  "stale"},
        ended : BOOLEAN, keys : SUBSET Keys, help : BOOLEAN,
        status : {"none", "pending", "posting", "posted", "publish_failed",
                  "stale"},
        by : Publishers \cup {NoOne}, aged : BOOLEAN, id : Nat]

NoRow == [review |-> "none", ended |-> FALSE, keys |-> {}, help |-> FALSE,
          status |-> "none", by |-> NoOne, aged |-> FALSE, id |-> 0]

Thread == [key : Keys, id : Nat \ {0}, late : BOOLEAN]

Steps == {"idle", "enter", "look", "offer", "list", "check", "renew", "create",
          "reconcile", "mark", "fail", "relook", "summary", "done"}

\* "already": the review was posted before this call; "published" is
\* suggestions_published of the result so far.
Caller == [pc : Steps, review : 0..MaxReviews, already : BOOLEAN,
           listed : Nat, id : Nat, published : BOOLEAN]

IdleCaller == [pc |-> "idle", review |-> 0, already |-> FALSE, listed |-> 0,
               id |-> 0, published |-> FALSE]

SuggestionInit ==
    /\ rows = [n \in Reviews |-> NoRow]
    /\ threads = <<>>
    /\ flying = {}
    /\ callers = [x \in Publishers |-> IdleCaller]
    /\ onTarget = TRUE
    /\ left = [move |-> MaxMoves, fault |-> MaxFaults, restart |-> MaxRestarts]

At(x, step) == callers[x].pc = step

Go(x, step) == callers' = [callers EXCEPT ![x].pc = step]

RowOf(x) == rows[callers[x].review]

SetRow(x, row) == rows' = [rows EXCEPT ![callers[x].review] = row]

Spend(what) == left[what] > 0 /\ left' = [left EXCEPT ![what] = @ - 1]

Working == {x \in Publishers : callers[x].pc \notin {"idle", "done"}}

\* The suggestions on GitHub.
OnGitHub == {threads[i].key : i \in DOMAIN threads}

\* The suggestions the publisher works on: the first Limit by reference.
ToPost(row) ==
    {k \in row.keys : Cardinality({j \in row.keys : j < k}) < Limit}

\* Whether the timestamp publisher x holds is still the one of the lease.
Holds(x) == RowOf(x).status = "posting" /\ RowOf(x).by = x

-----------------------------------------------------------------------------
(* The reviews and their runs.                                             *)

\* finalize_review of a rerun, with prepare_publication_suggestions: every
\* validated suggestion of the run is offered again under its key.
Prepare(n, keys) ==
    /\ rows[n].review = "none"
    /\ n > 1 => rows[n - 1].ended
    /\ ~Overlapping => Working = {}
    /\ rows' = [rows EXCEPT ![n].review = "generated", ![n].keys = keys,
                    ![n].status = IF keys = {} THEN "none" ELSE "pending"]
    /\ UNCHANGED <<threads, flying, callers, onTarget, left>>

\* review_deliver got through its checks while the run was running.
Enter(x, n) ==
    /\ At(x, "idle")
    /\ rows[n].review # "none" /\ ~rows[n].ended
    /\ callers' = [callers EXCEPT ![x].pc = "enter", ![x].review = n]
    /\ UNCHANGED <<rows, threads, flying, onTarget, left>>

\* An error that is not GitHub's escapes publish_review: review_deliver fails
\* the run, the review stays what it is.
Escape(x) ==
    /\ SetRow(x, [RowOf(x) EXCEPT !.ended = TRUE])
    /\ Go(x, "done")

\* claim_publication_for_posting.
ClaimReview(x) ==
    /\ At(x, "enter")
    /\ \/ /\ RowOf(x).review = "posted"
          /\ callers' = [callers EXCEPT ![x].pc = "look", ![x].already = TRUE]
          /\ UNCHANGED rows
       \/ /\ RowOf(x).review \in {"generated", "publish_failed"}
          /\ SetRow(x, [RowOf(x) EXCEPT !.review = "posting"])
          /\ Go(x, "look")
       \/ /\ RowOf(x).review \in {"posting", "stale"}
          /\ Escape(x)
    /\ UNCHANGED <<threads, flying, onTarget, left>>

-----------------------------------------------------------------------------
(* publish_review around the suggestions.                                  *)

\* Broken: a claim somebody is posting under may be called stale as well.
AnyMayBecomeStale == {"pending", "posting", "posted", "publish_failed", "stale"}

\* What mark_suggestions_failed without a claim may turn stale.
MayBecomeStale == {"pending", "posted", "publish_failed", "stale"}

\* The pull request moved: the suggestions become stale, then the review
\* does, unless it was posted before.  Suggestions that are being posted
\* refuse, which is an error of its own.
OffTarget(x) ==
    /\ At(x, "look") \/ At(x, "relook")
    /\ ~onTarget
    /\ \/ RowOf(x).status \notin MayBecomeStale \cup {"none"} /\ Escape(x)
       \/ /\ RowOf(x).status \in MayBecomeStale \cup {"none"}
          /\ LET status == IF RowOf(x).status = "none" THEN "none" ELSE "stale"
             IN SetRow(x, IF callers[x].already
                          THEN [RowOf(x) EXCEPT !.status = status]
                          ELSE [RowOf(x) EXCEPT !.status = status,
                                   !.review = "stale", !.ended = TRUE])
          /\ Go(x, "done")
    /\ UNCHANGED <<threads, flying, onTarget, left>>

Look(x) ==
    /\ At(x, "look") /\ onTarget
    /\ Go(x, "offer")
    /\ UNCHANGED <<rows, threads, flying, onTarget, left>>

Relook(x) ==
    /\ At(x, "relook") /\ onTarget
    /\ Go(x, "summary")
    /\ UNCHANGED <<rows, threads, flying, onTarget, left>>

\* The summary is posted or refreshed, with the help on suggestions only if
\* they were published (_publication_parts_for_suggestion_state), and marked
\* posted unless the claim on the review was released.
Summary(x) ==
    /\ At(x, "summary")
    /\ \/ /\ callers[x].already
          /\ SetRow(x, [RowOf(x) EXCEPT !.help = callers[x].published])
          /\ Go(x, "done")
       \/ /\ ~callers[x].already
          /\ RowOf(x).review \in {"generated", "posting", "posted"}
          /\ SetRow(x, [RowOf(x) EXCEPT !.help = callers[x].published,
                           !.review = "posted", !.ended = TRUE])
          /\ Go(x, "done")
       \/ /\ ~callers[x].already
          /\ RowOf(x).review \in {"publish_failed", "stale"}
          /\ SetRow(x, [RowOf(x) EXCEPT !.help = callers[x].published,
                           !.ended = TRUE])
          /\ Go(x, "done")
    /\ UNCHANGED <<threads, flying, onTarget, left>>

\* A request around the suggestions fails.
ReviewFails(x) ==
    /\ callers[x].pc \in {"look", "relook", "summary"}
    /\ Spend("fault")
    /\ SetRow(x, IF callers[x].already THEN RowOf(x)
                 ELSE [RowOf(x) EXCEPT !.review = "publish_failed",
                                       !.ended = TRUE])
    /\ Go(x, "done")
    /\ UNCHANGED <<threads, flying, onTarget>>

-----------------------------------------------------------------------------
(* _publish_suggestions.                                                   *)

\* claim_suggestions_for_posting: not yet posted, given up, or abandoned.
Claimable(row) ==
    \/ row.status \in {"pending", "publish_failed"}
    \/ row.status = "posting" /\ row.aged

Offer(x) ==
    /\ At(x, "offer")
    /\ \/ /\ ToPost(RowOf(x)) # {} /\ Claimable(RowOf(x))
          /\ SetRow(x, [RowOf(x) EXCEPT !.status = "posting", !.by = x,
                                        !.aged = FALSE])
          /\ Go(x, "list")
       \/ /\ ToPost(RowOf(x)) = {} \/ ~Claimable(RowOf(x))
          /\ callers' = [callers EXCEPT ![x].pc = "relook",
                             ![x].published = RowOf(x).status = "posted"]
          /\ UNCHANGED rows
    /\ UNCHANGED <<threads, flying, onTarget, left>>

\* What a listing returns when there are n comments: the newest of them.
Newest(n) == {i \in 1..n : n < i + Window}

\* _recovered_suggestion_comments: the review's suggestions already there.
Recovered(x) ==
    {threads[i].key : i \in Newest(callers[x].listed)} \cap ToPost(RowOf(x))

\* The latest of the reviews the comments recovered belong to.
RecoveredId(n, keys) ==
    LET found == {i \in Newest(n) : threads[i].key \in keys}
    IN CHOOSE id \in {threads[i].id : i \in found} :
           \A i \in found : threads[i].id <= id

List(x) ==
    /\ At(x, "list")
    /\ callers' = [callers EXCEPT ![x].listed = Len(threads), ![x].pc = "check"]
    /\ UNCHANGED <<rows, threads, flying, onTarget, left>>

Missing(x) == ToPost(RowOf(x)) \ Recovered(x)

\* Everything was recovered, or the target is looked at once more; a claim
\* that is no longer held cannot be called stale, nor failed after that.
Check(x) ==
    /\ At(x, "check")
    /\ \/ /\ Missing(x) = {}
          /\ callers' = [callers EXCEPT ![x].pc = "mark",
                    ![x].id = RecoveredId(callers[x].listed, ToPost(RowOf(x)))]
          /\ UNCHANGED rows
       \/ /\ Missing(x) # {} /\ onTarget
          /\ Go(x, "renew")
          /\ UNCHANGED rows
       \/ /\ Missing(x) # {} /\ ~onTarget /\ Holds(x)
          /\ SetRow(x, [RowOf(x) EXCEPT !.status = "stale"])
          /\ Go(x, "relook")
       \/ /\ Missing(x) # {} /\ ~onTarget /\ ~Holds(x)
          /\ callers' = [callers EXCEPT ![x].pc = "relook",
                             ![x].published = RowOf(x).status = "posted"]
          /\ UNCHANGED rows
    /\ UNCHANGED <<threads, flying, onTarget, left>>

\* Broken: nothing is asked of the lease before the request.
RenewBlindly(x) ==
    /\ At(x, "renew")
    /\ Go(x, "create")
    /\ UNCHANGED <<rows, threads, flying, onTarget, left>>

\* renew_suggestion_claim before the request.
Renew(x) ==
    /\ At(x, "renew")
    /\ IF Holds(x)
       THEN SetRow(x, [RowOf(x) EXCEPT !.aged = FALSE]) /\ Go(x, "create")
       ELSE UNCHANGED rows /\ Go(x, "fail")
    /\ UNCHANGED <<threads, flying, onTarget, left>>

\* Broken: ids counted from zero.
NextIdFromZero == Cardinality({threads[i].id : i \in DOMAIN threads})

\* The id GitHub gives to the next review on the diff.
NextId == Cardinality({threads[i].id : i \in DOMAIN threads}) + 1

\* One review, a comment for each of keys.
Landed(keys, late) ==
    threads \o SetToSeq({[key |-> k, id |-> NextId, late |-> late] : k \in keys})

Create(x) ==
    /\ At(x, "create")
    /\ threads' = Landed(Missing(x), FALSE)
    /\ callers' = [callers EXCEPT ![x].pc = "mark", ![x].id = NextId]
    /\ UNCHANGED <<rows, flying, onTarget, left>>

\* The request is refused, or its answer is lost: then it may have reached
\* GitHub, never reach it, or reach it later.
CreateFails(x) ==
    /\ At(x, "create")
    /\ Spend("fault")
    /\ \/ Go(x, "fail") /\ UNCHANGED <<threads, flying>>
       \/ Go(x, "reconcile") /\ UNCHANGED <<threads, flying>>
       \/ /\ Go(x, "reconcile")
          /\ threads' = Landed(Missing(x), FALSE) /\ UNCHANGED flying
       \/ /\ Go(x, "reconcile") /\ LateLanding
          /\ flying' = flying \cup {Missing(x)} /\ UNCHANGED threads
    /\ UNCHANGED <<rows, onTarget>>

\* Broken: one suggestion found is taken for all.
SomeAreThere(keys, found) == keys \cap found # {}

\* The listing after a lost answer counts only if it has every suggestion.
AllAreThere(keys, found) == keys \subseteq found

Reconcile(x) ==
    LET found == {threads[i].key : i \in Newest(Len(threads))} IN
    /\ At(x, "reconcile")
    /\ IF AllAreThere(ToPost(RowOf(x)), found)
       THEN callers' = [callers EXCEPT ![x].pc = "mark",
                ![x].id = RecoveredId(Len(threads), ToPost(RowOf(x)))]
       ELSE Go(x, "fail")
    /\ UNCHANGED <<rows, threads, flying, onTarget, left>>

\* The lease is renewed once more and the suggestions marked posted; no
\* request is in between.
Mark(x) ==
    /\ At(x, "mark")
    /\ IF Holds(x)
       THEN /\ SetRow(x, [RowOf(x) EXCEPT !.status = "posted", !.by = NoOne,
                              !.aged = FALSE, !.id = callers[x].id])
            /\ callers' = [callers EXCEPT ![x].pc = "relook",
                                          ![x].published = TRUE]
       ELSE UNCHANGED rows /\ Go(x, "fail")
    /\ UNCHANGED <<threads, flying, onTarget, left>>

\* The handler of _publish_suggestions: a claim still held is given up; one
\* that was lost leaves the answer to whoever has it now.
Fail(x) ==
    /\ At(x, "fail")
    /\ IF Holds(x)
       THEN /\ SetRow(x, [RowOf(x) EXCEPT !.status = "publish_failed"])
            /\ Go(x, "relook")
       ELSE /\ callers' = [callers EXCEPT ![x].pc = "relook",
                               ![x].published = RowOf(x).status = "posted"]
            /\ UNCHANGED rows
    /\ UNCHANGED <<threads, flying, onTarget, left>>

\* Another request of _publish_suggestions fails.
RequestFails(x) ==
    /\ callers[x].pc \in {"list", "check", "reconcile"}
    /\ Spend("fault")
    /\ Go(x, "fail")
    /\ UNCHANGED <<rows, threads, flying, onTarget>>

-----------------------------------------------------------------------------
(* The environment.                                                        *)

\* Half an hour passes without a renewal.  The requests a renewal guards are
\* cut off after 30 seconds each.
LeaseAges(n) ==
    /\ Ageing /\ rows[n].status = "posting" /\ ~rows[n].aged
    /\ rows[n].by \in Publishers =>
           callers[rows[n].by].pc \notin {"create", "reconcile"}
    /\ rows' = [rows EXCEPT ![n].aged = TRUE]
    /\ UNCHANGED <<threads, flying, callers, onTarget, left>>

\* mark_stale_runs_failed ends a silent run and releases its claims, that on
\* the suggestions too, live or not.  A publisher that enters has just given
\* a heartbeat, and the cutoff is ten minutes or more.
Reap(n) ==
    /\ Ageing /\ rows[n].review # "none" /\ ~rows[n].ended
    /\ \A x \in Publishers : callers[x].review = n => ~At(x, "enter")
    /\ LET given(status) == IF status = "posting" THEN "publish_failed" ELSE status
       IN rows' = [rows EXCEPT ![n].ended = TRUE,
              ![n].review = given(rows[n].review),
              ![n].status = IF rows[n].review = "posting"
                            THEN given(rows[n].status) ELSE rows[n].status]
    /\ UNCHANGED <<threads, flying, callers, onTarget, left>>

Move ==
    /\ Spend("move")
    /\ onTarget' = ~onTarget
    /\ UNCHANGED <<rows, threads, flying, callers>>

Land(keys) ==
    /\ keys \in flying
    /\ threads' = Landed(keys, TRUE)
    /\ flying' = flying \ {keys}
    /\ UNCHANGED <<rows, callers, onTarget, left>>

\* The container restarts; a request on its way may have arrived.
Restart ==
    /\ Spend("restart")
    /\ callers' = [x \in Publishers |->
           IF x \in Working THEN [callers[x] EXCEPT !.pc = "done"]
                            ELSE callers[x]]
    /\ \/ UNCHANGED threads
       \/ \E x \in Publishers :
              At(x, "create") /\ threads' = Landed(Missing(x), FALSE)
    /\ UNCHANGED <<rows, flying, onTarget>>

-----------------------------------------------------------------------------
Proceed(x) ==
    \/ ClaimReview(x) \/ Look(x) \/ OffTarget(x) \/ Offer(x) \/ List(x)
    \/ Check(x) \/ Renew(x) \/ Create(x) \/ Reconcile(x) \/ Mark(x) \/ Fail(x)
    \/ Relook(x) \/ Summary(x)

SuggestionNext ==
    \/ \E n \in Reviews, keys \in Offers : Prepare(n, keys)
    \/ \E x \in Publishers, n \in Reviews : Enter(x, n)
    \/ \E x \in Publishers : Proceed(x)
    \/ \E x \in Publishers :
           ReviewFails(x) \/ CreateFails(x) \/ RequestFails(x)
    \/ \E n \in Reviews : LeaseAges(n) \/ Reap(n)
    \/ Move
    \/ \E keys \in SUBSET Keys : Land(keys)
    \/ Restart

SuggestionSpec == SuggestionInit /\ [][SuggestionNext]_vars

-----------------------------------------------------------------------------
\* Every variable holds values the columns, calls and GitHub can have.
SuggestionTypeOK ==
    /\ rows \in [Reviews -> Row]
    /\ threads \in Seq(Thread)
    /\ flying \subseteq SUBSET Keys
    /\ callers \in [Publishers -> Caller]
    /\ onTarget \in BOOLEAN
    /\ left \in [{"move", "fault", "restart"} -> Nat]

\* No finding has its suggestion on GitHub twice, whoever took over a lease
\* and whatever request was lost, but for a request that arrived after its
\* publisher had given it up (suggestion_key: a rerun on the head "must
\* recover the first validated patch instead of posting competing
\* suggestions for the same finding").
NoSuggestionTwice ==
    \A i, j \in DOMAIN threads :
        i < j /\ threads[i].key = threads[j].key =>
            threads[i].late \/ threads[j].late

\* Where the ledger calls suggestions posted, or a summary tells the reader
\* to apply some, the first of the review, as many as one takes, are on
\* GitHub, and the review whose id is recorded has one of them.  Of a review
\* that has no more than Limit these are all that the summary announces; of
\* one that has more, the summary announces some that nobody posts.
OfferedSuggestionsAreThere ==
    \A n \in Reviews :
        /\ rows[n].help \/ rows[n].status = "posted" =>
               ToPost(rows[n]) # {} /\ ToPost(rows[n]) \subseteq OnGitHub
        /\ rows[n].status = "posted" =>
               \E i \in DOMAIN threads :
                   threads[i].id = rows[n].id /\ threads[i].key \in rows[n].keys

\* A claim within its 30 minutes ends, or changes hands, only by a step of
\* the publisher that has it, or with its run by the clean-up: not by the
\* publishers that look at the target, not by one that lost it.
LiveClaimIsRespected ==
    [][\A n \in Reviews :
          /\ rows[n].status = "posting" /\ ~rows[n].aged
          /\ rows'[n].status # "posting" \/ rows'[n].by # rows[n].by
          => \/ callers'[rows[n].by] # callers[rows[n].by]
             \/ /\ ~rows[n].ended /\ rows'[n].ended
                /\ rows'[n].status = "publish_failed"]_vars
=============================================================================

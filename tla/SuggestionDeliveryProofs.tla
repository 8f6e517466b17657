---------------------- MODULE SuggestionDeliveryProofs ----------------------
(* Theorems of SuggestionDelivery, for any number of publishers, reviews,    *)
(* suggestions, moves of the pull request, failed requests and restarts.     *)
EXTENDS SuggestionDelivery, TLAPS, FiniteSetTheorems, FunctionTheorems,
        WellFoundedInduction

-----------------------------------------------------------------------------
(* A review that lands on GitHub.                                            *)

\* What is there stays there.
Grows(T) == T \in Seq(Thread) /\ Len(threads) <= Len(T)
            /\ \A i \in 1..Len(threads) : T[i] = threads[i]

\* T is what is there with one comment for each of keys behind it.
Adds(T, keys, late) ==
    /\ Grows(T)
    /\ \A i \in (Len(threads) + 1)..Len(T) :
          T[i].key \in keys /\ T[i].id = NextId /\ T[i].late = late
    /\ \A i, j \in (Len(threads) + 1)..Len(T) : T[i].key = T[j].key => i = j
    /\ \A k \in keys : \E i \in (Len(threads) + 1)..Len(T) : T[i].key = k

LEMMA NextIdIs ==
    ASSUME threads \in Seq(Thread)
    PROVE  NextId \in Nat \ {0}
<1> DEFINE D == DOMAIN threads
           ids == {threads[i].id : i \in D}
           f == [i \in D |-> threads[i].id]
<1>1. IsFiniteSet(D)
  <2>1. D = 1..Len(threads) /\ Len(threads) \in Nat
    OBVIOUS
  <2> QED
    BY <2>1, FS_Interval
<1>2. f \in Surjection(D, ids)
  BY Fun_IsSurj
<1>3. IsFiniteSet(ids)
  <2> HIDE DEF ids, f, D
  <2> QED
    BY <1>1, <1>2, FS_Surjection
<1>4. Cardinality(ids) \in Nat
  BY <1>3, FS_CardinalityType
<1> QED
  BY <1>4 DEF NextId

\* A finite set in some order, each of its elements once.
LEMMA InOrder ==
    ASSUME NEW S, IsFiniteSet(S)
    PROVE  /\ SetToSeq(S) \in [1..Cardinality(S) -> S] /\ Cardinality(S) \in Nat
           /\ \A i, j \in 1..Cardinality(S) : SetToSeq(S)[i] = SetToSeq(S)[j] => i = j
           /\ \A s \in S : \E i \in 1..Cardinality(S) : SetToSeq(S)[i] = s
<1> DEFINE n == Cardinality(S)
           f == SetToSeq(S)
<1>1. n \in Nat /\ ExistsBijection(1..n, S)
  BY FS_CardinalityType
<1>2. \E g \in [1..n -> S] : IsInjective(g)
  <2>1. PICK g \in Bijection(1..n, S) : TRUE
    BY <1>1, Fun_ExistsBij
  <2> QED
    BY <2>1 DEF Bijection, Injection
<1>3. f \in [1..n -> S] /\ IsInjective(f)
  BY <1>2 DEF SetToSeq
<1>4. f \in Injection(1..n, S)
  BY <1>3 DEF Injection
<1>5. IsFiniteSet(1..n) /\ Cardinality(1..n) = n
  BY <1>1, FS_Interval
<1>6. f \in Surjection(1..n, S)
  <2> HIDE DEF f
  <2> QED
    BY <1>4, <1>5, FS_Injection
<1> QED
  BY <1>1, <1>3, <1>6, Fun_SurjectionProperties DEF IsInjective

LEMMA LandedIs ==
    ASSUME threads \in Seq(Thread), NEW keys \in SUBSET Keys, NEW late \in BOOLEAN
    PROVE  Adds(Landed(keys, late), keys, late)
<1> DEFINE new(k) == [key |-> k, id |-> NextId, late |-> late]
           S == {new(k) : k \in keys}
           s == SetToSeq(S)
           n == Cardinality(S)
           T == Landed(keys, late)
<1>1. NextId \in Nat \ {0} /\ IsFiniteSet(keys)
  BY NextIdIs, SuggestionAssumption, FS_Subset
<1>2. IsFiniteSet(S)
  <2> DEFINE f == [k \in keys |-> new(k)]
  <2>1. f \in Surjection(keys, S)
    BY Fun_IsSurj
  <2> HIDE DEF f, S
  <2> QED
    BY <1>1, <2>1, FS_Surjection
<1>3. S \subseteq Thread
  BY <1>1 DEF Thread
<1>4. /\ s \in [1..n -> S] /\ n \in Nat
      /\ \A i, j \in 1..n : s[i] = s[j] => i = j
      /\ \A r \in S : \E i \in 1..n : s[i] = r
  BY <1>2, InOrder
<1>5. T = threads \o s
  BY DEF Landed
<1> HIDE DEF s, n
<1>6. \A i \in 1..n : \E k \in keys : s[i] = new(k)
  BY <1>4
<1>7. \A k \in keys : \E i \in 1..n : s[i] = new(k)
  BY <1>4
<1>8. \A i, j \in 1..n : s[i].key = s[j].key => i = j
  BY <1>4, <1>6
<1>9. s \in Seq(Thread) /\ Len(s) = n
  BY <1>3, <1>4
<1>10. T \in Seq(Thread) /\ Len(T) = Len(threads) + n
  BY <1>4, <1>5, <1>9
<1>11. \A i \in 1..Len(threads) : T[i] = threads[i]
  BY <1>5, <1>9
<1>12. \A i \in (Len(threads) + 1)..Len(T) :
           i - Len(threads) \in 1..n /\ T[i] = s[i - Len(threads)]
  BY <1>4, <1>5, <1>9, <1>10
<1>13. \A i \in 1..n : Len(threads) + i \in (Len(threads) + 1)..Len(T)
                       /\ T[Len(threads) + i] = s[i]
  BY <1>4, <1>5, <1>9, <1>10
<1> HIDE DEF T, S
<1>14. Grows(T)
  BY <1>4, <1>10, <1>11 DEF Grows
<1>15. \A i \in (Len(threads) + 1)..Len(T) :
          T[i].key \in keys /\ T[i].id = NextId /\ T[i].late = late
  <2> TAKE i \in (Len(threads) + 1)..Len(T)
  <2>1. PICK k \in keys : T[i] = new(k)
    BY <1>6, <1>12
  <2> QED
    BY <2>1
<1>16. \A i, j \in (Len(threads) + 1)..Len(T) : T[i].key = T[j].key => i = j
  <2> SUFFICES ASSUME NEW i \in (Len(threads) + 1)..Len(T),
                      NEW j \in (Len(threads) + 1)..Len(T), T[i].key = T[j].key
               PROVE  i = j
    OBVIOUS
  <2>1. i - Len(threads) = j - Len(threads)
    BY <1>8, <1>12
  <2> QED
    BY <2>1, <1>10
<1>17. \A k \in keys : \E i \in (Len(threads) + 1)..Len(T) : T[i].key = k
  <2> TAKE k \in keys
  <2>1. PICK i \in 1..n : s[i] = new(k)
    BY <1>7
  <2>2. T[Len(threads) + i].key = k
    BY <1>13, <2>1
  <2> QED
    BY <1>13, <2>2
<1> QED
  BY <1>14, <1>15, <1>16, <1>17 DEF Adds, T

-----------------------------------------------------------------------------
(* The invariant every instance keeps.                                       *)

KeysIn(T) == {T[i].key : i \in DOMAIN T}

\* Each of keys is among T, and the comment of one of them belongs to GitHub's
\* review id.
AllIn(keys, T) == keys # {} /\ keys \subseteq KeysIn(T)

IdIn(id, keys, T) == \E i \in DOMAIN T : T[i].id = id /\ T[i].key \in keys

\* What a review says is true of what is on GitHub.
RowFormed(row, T) ==
    /\ row.review = "none" => row.status = "none" /\ ~row.ended /\ ~row.help
    /\ row.status # "none" => row.keys # {}
    /\ row.help \/ row.status = "posted" => AllIn(ToPost(row), T)
    /\ row.status = "posted" => IdIn(row.id, ToPost(row), T)

\* Steps of a publisher with a claim on the suggestions.
Claimed == {"list", "check", "renew", "create", "reconcile", "mark", "fail"}

\* What a publisher remembers is true of its review and of GitHub.
CallerFormed(k, R, T) ==
    LET keys == ToPost(R[k.review]) IN
    /\ k.pc # "idle" => k.review \in Reviews /\ R[k.review].review # "none"
    /\ k.pc = "idle" => ~k.published
    /\ k.pc \in Claimed => keys # {}
    /\ k.listed <= Len(T)
    /\ k.pc \in {"renew", "create"} =>
           \E key \in keys : \A i \in Newest(k.listed) : T[i].key # key
    /\ k.pc = "mark" => AllIn(keys, T) /\ IdIn(k.id, keys, T)
    /\ k.published => AllIn(keys, T)

FormedInv ==
    /\ SuggestionTypeOK
    /\ \A n \in Reviews : RowFormed(rows[n], threads)
    /\ \A x \in Publishers : CallerFormed(callers[x], rows, threads)

\* A publisher beyond the claim on its review.
Beyond(x) == callers[x].pc \notin {"idle", "enter", "done"}

\* The claim on the review of a run that has not ended has one publisher.
HolderInv ==
    /\ \A n \in Reviews : rows[n].review = "posted" => rows[n].ended
    /\ \A x, y \in Publishers :
           Beyond(x) /\ Beyond(y) /\ callers[x].review = callers[y].review /\ ~RowOf(x).ended
           => x = y /\ RowOf(x).review = "posting"

\* The run of x has ended, and no other publisher is on its review: what the
\* clean-up leaves of a lease it took away.
Cut(x) ==
    /\ RowOf(x).ended
    /\ \A y \in Publishers \ {x} :
           callers[y].review = callers[x].review => callers[y].pc \in {"idle", "done"}

\* While a request may be under way its publisher has the lease, or the
\* clean-up took it and there is nobody who could take it over.
LeaseInv ==
    \A x \in Publishers :
        callers[x].pc \in {"create", "reconcile"} =>
            (Holds(x) /\ ~RowOf(x).aged) \/ Cut(x)

\* Without overlapping reruns every publisher at work is on the newest review.
NewestInv ==
    /\ \A m, n \in Reviews : m < n /\ rows[n].review # "none" => rows[m].ended
    /\ \A x \in Working, n \in Reviews : rows[n].review # "none" => n <= callers[x].review

\* Since a publisher with its lease, or with a request under way, listed the
\* suggestions, none was added but such as came late.
SawInv ==
    \A x \in Publishers :
        \/ callers[x].pc \in {"check", "renew"} /\ Holds(x)
        \/ callers[x].pc = "create"
        => \A i \in DOMAIN threads : i > callers[x].listed => threads[i].late

NoneTwiceWithin ==
    \A i, j \in DOMAIN threads :
        i < j /\ threads[i].key = threads[j].key =>
            threads[i].late \/ threads[j].late \/ i + Window < j

\* No review forgets that it was rendered, nor which suggestions it has.
RowsKeep ==
    \A n \in Reviews : rows[n].review # "none" =>
        rows'[n].review # "none" /\ rows'[n].keys = rows[n].keys

LEMMA GrowsIs ==
    ASSUME threads \in Seq(Thread), NEW T, Grows(T)
    PROVE  /\ T \in Seq(Thread) /\ Len(threads) \in Nat /\ Len(T) \in Nat
           /\ Len(threads) <= Len(T)
           /\ DOMAIN threads = 1..Len(threads) /\ DOMAIN T = 1..Len(T)
           /\ \A i \in 1..Len(threads) : i \in 1..Len(T) /\ T[i] = threads[i]
           /\ \A i \in (Len(threads) + 1)..Len(T) :
                  i \in 1..Len(T) /\ i \notin 1..Len(threads)
           /\ \A i \in 1..Len(T) :
                  i \in 1..Len(threads) \/ i \in (Len(threads) + 1)..Len(T)
<1>1. T \in Seq(Thread) /\ \A i \in 1..Len(threads) : T[i] = threads[i]
  BY DEF Grows
<1>2. Len(threads) \in Nat /\ Len(T) \in Nat /\ Len(threads) <= Len(T)
  BY <1>1 DEF Grows
<1>3. DOMAIN threads = 1..Len(threads) /\ DOMAIN T = 1..Len(T)
  BY <1>1
<1> QED
  BY <1>1, <1>2, <1>3

LEMMA ToPostIs ==
    ASSUME NEW row, NEW other, row.keys = other.keys
    PROVE  ToPost(row) = ToPost(other) /\ ToPost(row) \subseteq row.keys
BY DEF ToPost

LEMMA NewestIs ==
    ASSUME NEW n \in Nat
    PROVE  /\ Newest(n) \subseteq 1..n
           /\ \A i \in 1..n : i \notin Newest(n) => i + Window <= n
BY SuggestionAssumption DEF Newest

LEMMA SameGrows == ASSUME threads \in Seq(Thread), threads' = threads PROVE Grows(threads')
BY DEF Grows

LEMMA KeysStay ==
    ASSUME threads \in Seq(Thread), Grows(threads'), NEW keys, NEW id
    PROVE  /\ AllIn(keys, threads) => AllIn(keys, threads')
           /\ IdIn(id, keys, threads) => IdIn(id, keys, threads')
<1>1. \A i \in DOMAIN threads : i \in DOMAIN threads' /\ threads'[i] = threads[i]
  BY DEF Grows
<1> QED
  BY <1>1 DEF AllIn, IdIn, KeysIn

LEMMA RowStays ==
    ASSUME threads \in Seq(Thread), Grows(threads'), NEW row, RowFormed(row, threads)
    PROVE  RowFormed(row, threads')
BY KeysStay DEF RowFormed

LEMMA CallerStays ==
    ASSUME threads \in Seq(Thread), Grows(threads'), RowsKeep, NEW k \in Caller,
           CallerFormed(k, rows, threads)
    PROVE  CallerFormed(k, rows', threads')
<1>1. /\ k.listed \in Nat /\ k.listed <= Len(threads)
      /\ Len(threads) \in Nat /\ Len(threads') \in Nat /\ Len(threads) <= Len(threads')
  BY DEF CallerFormed, Grows, Caller
<1>2. \A i \in Newest(k.listed) : threads'[i] = threads[i]
  BY <1>1, NewestIs DEF Grows
<1>3. CASE k.pc = "idle"
  BY <1>1, <1>3 DEF CallerFormed, Claimed
<1>4. CASE k.pc # "idle"
  <2> DEFINE keys == ToPost(rows[k.review])
  <2>1. /\ k.review \in Reviews /\ rows'[k.review].review # "none"
        /\ ToPost(rows'[k.review]) = keys
    BY <1>4, ToPostIs DEF CallerFormed, RowsKeep
  <2>2. /\ k.pc \in Claimed => keys # {}
        /\ k.pc \in {"renew", "create"} =>
               \E key \in keys : \A i \in Newest(k.listed) : threads[i].key # key
        /\ k.pc = "mark" => AllIn(keys, threads) /\ IdIn(k.id, keys, threads)
        /\ k.published => AllIn(keys, threads)
    BY DEF CallerFormed
  <2> HIDE DEF keys
  <2>3. /\ k.pc = "mark" => AllIn(keys, threads') /\ IdIn(k.id, keys, threads')
        /\ k.published => AllIn(keys, threads')
    BY <2>2, KeysStay
  <2>4. k.pc \in {"renew", "create"} =>
            \E key \in keys : \A i \in Newest(k.listed) : threads'[i].key # key
    BY <1>2, <2>2
  <2> QED
    BY <1>1, <1>4, <2>1, <2>2, <2>3, <2>4 DEF CallerFormed
<1> QED
  BY <1>3, <1>4

-----------------------------------------------------------------------------
(* What a step of a publisher does to its review, to the lease and to        *)
(* itself.                                                                   *)

\* The lease of review "old" in a step that makes it "row" and publisher x
\* into k.
LeaseMoves(x, k, old, row) ==
    \/ /\ row.status = old.status /\ row.by = old.by /\ row.aged = old.aged
       /\ \/ k.pc \notin {"check", "renew", "create", "reconcile"}
          \/ k.pc = "check" /\ k.listed = Len(threads) /\ threads' = threads
          \/ k.pc = "renew" /\ callers[x].pc = "check" /\ k.listed = callers[x].listed
          \/ k.pc = "reconcile" /\ callers[x].pc = "create"
    \/ /\ Claimable(old)
       /\ row.status = "posting" /\ row.by = x /\ ~row.aged /\ k.pc = "list"
    \/ /\ Holds(x) /\ row.status = "posting" /\ row.by = x /\ ~row.aged
       /\ callers[x].pc = "renew" /\ k.pc = "create" /\ k.listed = callers[x].listed
    \/ /\ Holds(x) /\ row.status # "posting" /\ k.pc = "relook"
       /\ callers[x].pc \in {"check", "mark", "fail"}
    \/ old.status # "posting" /\ row.status # "posting" /\ k.pc = "done"

\* What the same step does to the review and its run.
ReviewMoves(x, k, old, row) ==
    \/ row.ended
    \/ /\ row.review = old.review
       /\ \/ k.pc \in {"enter", "done"} \/ old.review = "posted"
          \/ callers[x].pc \notin {"idle", "enter"}
    \/ /\ callers[x].pc = "enter" /\ old.review \in {"generated", "publish_failed"}
       /\ row.review = "posting"

\* The step makes x into k and the review k is on into row.
Does(x, k, row) ==
    LET old == rows[k.review] IN
    /\ k \in Caller /\ k.pc # "idle" /\ k.review \in Reviews /\ row \in Row
    /\ callers' = [callers EXCEPT ![x] = k]
    /\ rows' = [rows EXCEPT ![k.review] = row]
    /\ \/ callers[x].pc = "idle" /\ ~old.ended
       \/ callers[x].pc \notin {"idle", "done"} /\ k.review = callers[x].review
    /\ old.review # "none" /\ row.review # "none" /\ row.keys = old.keys
    /\ old.ended => row.ended
    /\ RowFormed(row, threads') /\ CallerFormed(k, rows', threads')
    /\ LeaseMoves(x, k, old, row) /\ ReviewMoves(x, k, old, row)

\* What lands on GitHub in a step of publisher x.
Posts(x) ==
    \/ threads' = threads
    \/ callers[x].pc = "create" /\ Adds(threads', Missing(x), FALSE)

StepOf(x) == Posts(x) /\ \E k, row : Does(x, k, row)

LEMMA DoesFormed ==
    ASSUME FormedInv, NEW x \in Publishers, NEW k, NEW row, Does(x, k, row), Grows(threads')
    PROVE  /\ rows' \in [Reviews -> Row] /\ callers' \in [Publishers -> Caller]
           /\ \A n \in Reviews : RowFormed(rows'[n], threads')
           /\ \A y \in Publishers : CallerFormed(callers'[y], rows', threads')
<1>0. /\ rows \in [Reviews -> Row] /\ callers \in [Publishers -> Caller]
      /\ threads \in Seq(Thread)
  BY DEF FormedInv, SuggestionTypeOK
<1>1. /\ k \in Caller /\ row \in Row /\ k.review \in Reviews
      /\ callers' = [callers EXCEPT ![x] = k] /\ rows' = [rows EXCEPT ![k.review] = row]
      /\ row.review # "none" /\ row.keys = rows[k.review].keys
      /\ RowFormed(row, threads') /\ CallerFormed(k, rows', threads')
  BY DEF Does
<1>2. rows' \in [Reviews -> Row] /\ callers' \in [Publishers -> Caller]
  BY <1>0, <1>1
<1>3. RowsKeep
  BY <1>0, <1>1 DEF RowsKeep
<1>4. ASSUME NEW n \in Reviews
      PROVE  RowFormed(rows'[n], threads')
  <2>1. CASE n = k.review
    BY <1>0, <1>1, <2>1
  <2>2. CASE n # k.review
    BY <1>0, <1>1, <2>2, RowStays DEF FormedInv
  <2> QED
    BY <2>1, <2>2
<1>5. ASSUME NEW y \in Publishers
      PROVE  CallerFormed(callers'[y], rows', threads')
  <2>1. CASE y = x
    BY <1>0, <1>1, <2>1
  <2>2. CASE y # x
    BY <1>0, <1>1, <1>3, <2>2, CallerStays DEF FormedInv
  <2> QED
    BY <2>1, <2>2
<1> QED
  BY <1>2, <1>4, <1>5

\* A publisher that has entered.
LEMMA Entered ==
    ASSUME FormedInv, NEW x \in Publishers, callers[x].pc # "idle"
    PROVE  /\ callers[x] \in Caller /\ callers[x].review \in Reviews
           /\ RowOf(x) \in Row /\ RowOf(x) = rows[callers[x].review]
           /\ RowOf(x).review # "none"
           /\ RowFormed(RowOf(x), threads) /\ CallerFormed(callers[x], rows, threads)
           /\ rows = [rows EXCEPT ![callers[x].review] = RowOf(x)]
BY DEF FormedInv, SuggestionTypeOK, RowOf, CallerFormed

\* A publisher that goes on without touching its review.
LEMMA GoesOn ==
    ASSUME FormedInv, NEW x \in Publishers, callers[x].pc \notin {"idle", "done"},
           UNCHANGED <<rows, threads>>, NEW k \in Caller, k.pc # "idle",
           callers' = [callers EXCEPT ![x] = k], k.review = callers[x].review,
           CallerFormed(k, rows, threads),
           k.pc = "done" \/ RowOf(x).review = "posted" \/ callers[x].pc # "enter",
           \/ k.pc \notin {"check", "renew", "create", "reconcile"}
           \/ k.pc = "check" /\ k.listed = Len(threads)
           \/ k.pc = "renew" /\ callers[x].pc = "check" /\ k.listed = callers[x].listed
           \/ k.pc = "reconcile" /\ callers[x].pc = "create"
    PROVE  StepOf(x)
<1>1. /\ callers[x].review \in Reviews /\ RowOf(x) \in Row /\ RowOf(x).review # "none"
      /\ RowOf(x) = rows[callers[x].review] /\ RowFormed(RowOf(x), threads)
      /\ rows = [rows EXCEPT ![callers[x].review] = RowOf(x)]
  BY Entered
<1>2. RowsKeep /\ threads \in Seq(Thread)
  BY DEF RowsKeep, FormedInv, SuggestionTypeOK
<1>3. CallerFormed(k, rows', threads') /\ RowFormed(RowOf(x), threads')
  BY <1>1
<1>4. LeaseMoves(x, k, rows[k.review], RowOf(x)) /\ ReviewMoves(x, k, rows[k.review], RowOf(x))
  BY <1>1 DEF LeaseMoves, ReviewMoves
<1>5. Does(x, k, RowOf(x))
  BY <1>1, <1>3, <1>4 DEF Does
<1> QED
  BY <1>5 DEF StepOf, Posts

\* The same, to another step alone.
LEMMA GoesTo ==
    ASSUME FormedInv, NEW x \in Publishers, callers[x].pc \notin {"idle", "enter", "done"},
           UNCHANGED <<rows, threads>>, NEW step \in Steps, Go(x, step),
           \/ step \in {"offer", "relook", "summary", "done", "look"}
           \/ step = "fail" /\ callers[x].pc \in Claimed
           \/ step = "reconcile" /\ callers[x].pc = "create"
           \/ /\ step = "renew" /\ callers[x].pc = "check"
              /\ Missing(x) # {}
    PROVE  StepOf(x)
<1> DEFINE k == [callers[x] EXCEPT !.pc = step]
<1>1. /\ callers[x] \in Caller /\ CallerFormed(callers[x], rows, threads)
      /\ RowOf(x) = rows[callers[x].review]
  BY Entered
<1>2. /\ k \in Caller /\ k.pc = step /\ k.review = callers[x].review
      /\ k.listed = callers[x].listed /\ k.published = callers[x].published
      /\ k.id = callers[x].id /\ callers' = [callers EXCEPT ![x] = k]
  BY <1>1 DEF Caller, Go
<1> HIDE DEF k
<1>3. step = "renew" => \E key \in ToPost(RowOf(x)) :
                            \A i \in Newest(callers[x].listed) : threads[i].key # key
  BY DEF Missing, Recovered
<1>4. CallerFormed(k, rows, threads)
  BY <1>1, <1>2, <1>3 DEF CallerFormed, Claimed
<1> QED
  BY <1>2, <1>4, GoesOn

\* A publisher that changes its review.
LEMMA Changes ==
    ASSUME FormedInv, NEW x \in Publishers, callers[x].pc \notin {"idle", "done"},
           threads' = threads, NEW k \in Caller, k.pc # "idle", k.review = callers[x].review,
           callers' = [callers EXCEPT ![x] = k], CallerFormed(k, rows, threads),
           NEW row \in Row, SetRow(x, row), row.keys = RowOf(x).keys, row.review # "none",
           RowOf(x).ended => row.ended, RowFormed(row, threads),
           LeaseMoves(x, k, RowOf(x), row), ReviewMoves(x, k, RowOf(x), row)
    PROVE  StepOf(x)
<1>1. callers[x].review \in Reviews /\ RowOf(x).review # "none"
      /\ RowOf(x) = rows[callers[x].review]
  BY Entered
<1>2. rows' = [rows EXCEPT ![k.review] = row] /\ rows \in [Reviews -> Row]
      /\ threads \in Seq(Thread)
  BY DEF SetRow, FormedInv, SuggestionTypeOK
<1>3. RowsKeep
  BY <1>1, <1>2 DEF RowsKeep
<1>4. CallerFormed(k, rows', threads') /\ RowFormed(row, threads')
  BY <1>2, <1>3, SameGrows, CallerStays
<1>5. Does(x, k, row)
  BY <1>1, <1>2, <1>4 DEF Does
<1> QED
  BY <1>5 DEF StepOf, Posts

\* ... and goes to a step where nothing more is asked of it.
LEMMA ChangesTo ==
    ASSUME FormedInv, NEW x \in Publishers, callers[x].pc \notin {"idle", "done"},
           threads' = threads, NEW step \in {"look", "relook", "done"}, Go(x, step),
           NEW row \in Row, SetRow(x, row), row.keys = RowOf(x).keys, row.review # "none",
           RowOf(x).ended => row.ended, RowFormed(row, threads),
           \/ row.ended
           \/ row.review = RowOf(x).review /\ callers[x].pc # "enter"
           \/ /\ callers[x].pc = "enter" /\ row.review = "posting"
              /\ RowOf(x).review \in {"generated", "publish_failed"},
           \/ row.status = RowOf(x).status /\ row.by = RowOf(x).by /\ row.aged = RowOf(x).aged
           \/ step = "done" /\ RowOf(x).status # "posting" /\ row.status # "posting"
           \/ /\ step = "relook" /\ Holds(x) /\ row.status # "posting"
              /\ callers[x].pc \in {"check", "mark", "fail"}
    PROVE  StepOf(x)
<1> DEFINE k == [callers[x] EXCEPT !.pc = step]
<1>1. callers[x] \in Caller /\ CallerFormed(callers[x], rows, threads)
  BY Entered
<1>2. /\ k \in Caller /\ k.pc = step /\ k.review = callers[x].review
      /\ k.listed = callers[x].listed /\ k.published = callers[x].published
      /\ k.id = callers[x].id /\ callers' = [callers EXCEPT ![x] = k]
  BY <1>1 DEF Caller, Go, Steps
<1> HIDE DEF k
<1>3. CallerFormed(k, rows, threads)
  BY <1>1, <1>2 DEF CallerFormed, Claimed
<1>4. LeaseMoves(x, k, RowOf(x), row) /\ ReviewMoves(x, k, RowOf(x), row)
  BY <1>2 DEF LeaseMoves, ReviewMoves
<1> QED
  BY <1>2, <1>3, <1>4, Changes

LEMMA EnterDoes ==
    ASSUME FormedInv, NEW x \in Publishers, NEW n \in Reviews, Enter(x, n)
    PROVE  StepOf(x)
<1> DEFINE k == [callers[x] EXCEPT !.pc = "enter", !.review = n]
<1>0. /\ callers[x] \in Caller /\ rows \in [Reviews -> Row] /\ threads \in Seq(Thread)
      /\ CallerFormed(callers[x], rows, threads) /\ RowFormed(rows[n], threads)
      /\ n \in 0..MaxReviews
  BY SuggestionAssumption DEF FormedInv, SuggestionTypeOK, Reviews
<1>1. /\ callers[x].pc = "idle" /\ rows[n].review # "none" /\ ~rows[n].ended
      /\ UNCHANGED <<rows, threads>> /\ callers' = [callers EXCEPT ![x] = k]
  BY DEF Enter, At
<1>2. /\ k \in Caller /\ k.pc = "enter" /\ k.review = n /\ k.listed = callers[x].listed
      /\ k.published = callers[x].published
  BY <1>0 DEF Caller, Steps
<1> HIDE DEF k
<1>3. CallerFormed(k, rows', threads') /\ RowFormed(rows[n], threads')
  BY <1>0, <1>1, <1>2 DEF CallerFormed, Claimed
<1>4. LeaseMoves(x, k, rows[n], rows[n]) /\ ReviewMoves(x, k, rows[n], rows[n])
  BY <1>2 DEF LeaseMoves, ReviewMoves
<1>5. Does(x, k, rows[n])
  BY <1>0, <1>1, <1>2, <1>3, <1>4 DEF Does
<1> QED
  BY <1>1, <1>5 DEF StepOf, Posts

\* The publisher around the suggestions.
LEMMA AroundDoes ==
    ASSUME FormedInv, NEW x \in Publishers,
           ClaimReview(x) \/ OffTarget(x) \/ Look(x) \/ Relook(x) \/ Summary(x) \/ ReviewFails(x)
    PROVE  StepOf(x)
<1>0. /\ callers[x].pc \in {"enter", "look", "relook", "summary"} /\ threads' = threads
      /\ callers[x].pc \notin {"idle", "done"}
  BY DEF ClaimReview, OffTarget, Look, Relook, Summary, ReviewFails, At
<1>1. /\ callers[x] \in Caller /\ RowOf(x) \in Row /\ RowOf(x).review # "none"
      /\ RowFormed(RowOf(x), threads) /\ CallerFormed(callers[x], rows, threads)
      /\ RowOf(x) = rows[callers[x].review]
  BY <1>0, Entered
<1>2. CASE Look(x) \/ Relook(x)
  BY <1>0, <1>2, GoesTo DEF Look, Relook, Steps, At
<1>3. ASSUME NEW row \in Row, SetRow(x, row), Go(x, "done") \/ Go(x, "look"),
             row.keys = RowOf(x).keys, row.review # "none", RowOf(x).ended => row.ended,
             row.help = RowOf(x).help, row.id = RowOf(x).id,
             row.status = RowOf(x).status, row.by = RowOf(x).by, row.aged = RowOf(x).aged,
             \/ row.ended
             \/ row.review = RowOf(x).review /\ callers[x].pc # "enter"
             \/ /\ callers[x].pc = "enter" /\ row.review = "posting"
                /\ RowOf(x).review \in {"generated", "publish_failed"}
      PROVE  StepOf(x)
  <2>1. RowFormed(row, threads)
    BY <1>1, <1>3, ToPostIs DEF RowFormed
  <2> QED
    BY <1>0, <1>3, <2>1, ChangesTo
<1>4. CASE Escape(x)
  <2> DEFINE row == [RowOf(x) EXCEPT !.ended = TRUE]
  <2>1. /\ row \in Row /\ row.keys = RowOf(x).keys /\ row.review = RowOf(x).review /\ row.ended
        /\ row.help = RowOf(x).help /\ row.id = RowOf(x).id
        /\ row.status = RowOf(x).status /\ row.by = RowOf(x).by /\ row.aged = RowOf(x).aged
    BY <1>1 DEF Row
  <2>2. SetRow(x, row) /\ Go(x, "done")
    BY <1>4 DEF Escape
  <2> HIDE DEF row
  <2> QED
    BY <1>1, <1>3, <2>1, <2>2
<1>5. CASE ClaimReview(x)
  <2>1. CASE RowOf(x).review = "posted"
    <3> DEFINE k == [callers[x] EXCEPT !.pc = "look", !.already = TRUE]
    <3>1. callers' = [callers EXCEPT ![x] = k] /\ UNCHANGED <<rows, threads>>
      BY <1>5, <2>1 DEF ClaimReview
    <3>2. /\ k \in Caller /\ k.pc = "look" /\ k.review = callers[x].review
          /\ k.listed = callers[x].listed /\ k.published = callers[x].published
      BY <1>1 DEF Caller, Steps
    <3> HIDE DEF k
    <3>3. CallerFormed(k, rows, threads)
      BY <1>0, <1>1, <3>2 DEF CallerFormed, Claimed
    <3> QED
      BY <1>0, <2>1, <3>1, <3>2, <3>3, GoesOn
  <2>2. CASE RowOf(x).review \in {"generated", "publish_failed"}
    <3> DEFINE row == [RowOf(x) EXCEPT !.review = "posting"]
    <3>1. /\ row \in Row /\ row.keys = RowOf(x).keys /\ row.review = "posting"
          /\ row.ended = RowOf(x).ended /\ row.help = RowOf(x).help /\ row.id = RowOf(x).id
          /\ row.status = RowOf(x).status /\ row.by = RowOf(x).by /\ row.aged = RowOf(x).aged
      BY <1>1 DEF Row
    <3>2. SetRow(x, row) /\ Go(x, "look") /\ callers[x].pc = "enter"
      BY <1>5, <2>2 DEF ClaimReview, At
    <3> HIDE DEF row
    <3> QED
      BY <1>3, <2>2, <3>1, <3>2
  <2>3. CASE RowOf(x).review \in {"posting", "stale"}
    BY <1>4, <1>5, <2>3 DEF ClaimReview
  <2> QED
    BY <1>5, <2>1, <2>2, <2>3 DEF ClaimReview
<1>6. CASE OffTarget(x)
  <2>1. CASE RowOf(x).status \in MayBecomeStale \cup {"none"} /\ ~Escape(x)
    <3> DEFINE status == IF RowOf(x).status = "none" THEN "none" ELSE "stale"
               kept == [RowOf(x) EXCEPT !.status = status]
               over == [RowOf(x) EXCEPT !.status = status, !.review = "stale", !.ended = TRUE]
    <3>1. SetRow(x, kept) \/ SetRow(x, over)
      BY <1>6, <2>1 DEF OffTarget, MayBecomeStale
    <3>2. Go(x, "done")
      BY <1>6, <2>1 DEF OffTarget
    <3>3. RowOf(x).status # "posting" /\ callers[x].pc # "enter" /\ status \in {"none", "stale"}
          /\ (status = "stale" <=> RowOf(x).status # "none")
      BY <1>6, <2>1 DEF MayBecomeStale, OffTarget, At
    <3> HIDE DEF status
    <3>4. /\ kept \in Row /\ kept.keys = RowOf(x).keys /\ kept.review = RowOf(x).review
          /\ kept.ended = RowOf(x).ended /\ kept.help = RowOf(x).help /\ kept.status = status
      BY <1>1, <3>3 DEF Row
    <3>5. /\ over \in Row /\ over.keys = RowOf(x).keys /\ over.review = "stale"
          /\ over.ended /\ over.help = RowOf(x).help /\ over.status = status
      BY <1>1, <3>3 DEF Row
    <3> HIDE DEF kept, over
    <3>6. RowFormed(kept, threads) /\ RowFormed(over, threads)
      BY <1>1, <3>3, <3>4, <3>5, ToPostIs DEF RowFormed
    <3>7. CASE SetRow(x, kept)
      BY <1>0, <1>1, <3>2, <3>3, <3>4, <3>6, <3>7, ChangesTo
    <3>8. CASE SetRow(x, over)
      BY <1>0, <1>1, <3>2, <3>3, <3>5, <3>6, <3>8, ChangesTo
    <3> QED
      BY <3>1, <3>7, <3>8
  <2> QED
    BY <1>4, <1>6, <2>1 DEF OffTarget
<1>7. CASE Summary(x)
  <2> DEFINE help == callers[x].published
             shown == [RowOf(x) EXCEPT !.help = help]
             posted == [RowOf(x) EXCEPT !.help = help, !.review = "posted", !.ended = TRUE]
             ended == [RowOf(x) EXCEPT !.help = help, !.ended = TRUE]
  <2>1. SetRow(x, shown) \/ SetRow(x, posted) \/ SetRow(x, ended)
    BY <1>7 DEF Summary
  <2>2. Go(x, "done") /\ callers[x].pc # "enter"
    BY <1>7 DEF Summary, At
  <2>3. help \in BOOLEAN /\ (help => AllIn(ToPost(RowOf(x)), threads))
    BY <1>1 DEF Caller, CallerFormed
  <2> HIDE DEF help
  <2>4. \A row \in {shown, posted, ended} :
           /\ row \in Row /\ row.keys = RowOf(x).keys /\ row.review # "none"
           /\ RowOf(x).ended => row.ended
           /\ row.help = help /\ row.id = RowOf(x).id
           /\ row.ended \/ row.review = RowOf(x).review
           /\ row.status = RowOf(x).status /\ row.by = RowOf(x).by /\ row.aged = RowOf(x).aged
    BY <1>1, <2>3 DEF Row
  <2> HIDE DEF shown, posted, ended
  <2>5. \A row \in {shown, posted, ended} : RowFormed(row, threads)
    BY <1>1, <2>3, <2>4, ToPostIs DEF RowFormed
  <2>6. ASSUME NEW row \in {shown, posted, ended}, SetRow(x, row)
        PROVE  StepOf(x)
    BY <1>0, <2>2, <2>4, <2>5, <2>6, ChangesTo
  <2> QED
    BY <2>1, <2>6
<1>8. CASE ReviewFails(x)
  <2>1. CASE SetRow(x, RowOf(x))
    BY <1>1, <1>3, <1>8, <2>1 DEF ReviewFails, At
  <2>2. CASE SetRow(x, [RowOf(x) EXCEPT !.review = "publish_failed", !.ended = TRUE])
    <3> DEFINE row == [RowOf(x) EXCEPT !.review = "publish_failed", !.ended = TRUE]
    <3>1. /\ row \in Row /\ row.keys = RowOf(x).keys /\ row.review = "publish_failed" /\ row.ended
          /\ row.help = RowOf(x).help /\ row.id = RowOf(x).id
          /\ row.status = RowOf(x).status /\ row.by = RowOf(x).by /\ row.aged = RowOf(x).aged
      BY <1>1 DEF Row
    <3>2. SetRow(x, row) /\ Go(x, "done")
      BY <1>8, <2>2 DEF ReviewFails
    <3> HIDE DEF row
    <3> QED
      BY <1>3, <3>1, <3>2
  <2> QED
    BY <1>8, <2>1, <2>2 DEF ReviewFails
<1> QED
  BY <1>2, <1>5, <1>6, <1>7, <1>8

-----------------------------------------------------------------------------
(* The id that a recovery records is that of a comment it found.             *)

LEMMA LargestExists ==
    ASSUME NEW S \in SUBSET Nat, S # {}, NEW n \in Nat, \A m \in S : m <= n
    PROVE  \E k \in S : \A m \in S : m <= k
<1> DEFINE T == {k \in Nat : \A m \in S : m <= k}
           R == OpToRel(<, Nat)
<1>1. T \subseteq Nat /\ T # {}
  OBVIOUS
<1>2. PICK k \in T : \A y \in T : ~(<<y, k>> \in R)
  <2> HIDE DEF T, R
  <2>1. IsWellFoundedOn(R, Nat)
    BY NatLessThanWellFounded DEF R
  <2> QED
    BY <1>1, <2>1, WFMin
<1>3. k \in S
  <2> SUFFICES ASSUME k \notin S PROVE FALSE
    OBVIOUS
  <2>1. PICK l \in S : TRUE
    OBVIOUS
  <2>2. l \in Nat /\ l <= k /\ l # k /\ k \in Nat
    OBVIOUS
  <2>3. k - 1 \in Nat /\ k - 1 < k
    BY <2>2
  <2>4. \A m \in S : m <= k - 1
    <3> TAKE m \in S
    <3>1. m \in Nat /\ m <= k /\ m # k
      OBVIOUS
    <3> QED
      BY <3>1
  <2>5. k - 1 \in T
    BY <2>3, <2>4
  <2>6. <<k - 1, k>> \in R
    BY <2>2, <2>3 DEF OpToRel
  <2> QED
    BY <1>2, <2>5, <2>6
<1> QED
  BY <1>3

LEMMA IdsAreBounded ==
    ASSUME NEW T \in Seq(Thread)
    PROVE  \E b \in Nat : \A i \in 1..Len(T) : T[i].id <= b
<1> DEFINE n == Len(T)
           S == {k \in 0..n : \E b \in Nat : \A i \in 1..k : T[i].id <= b}
<1>1. n \in Nat /\ \A i \in 1..n : T[i].id \in Nat
  <2>1. n \in Nat /\ \A i \in 1..n : T[i] \in Thread
    OBVIOUS
  <2> QED
    BY <2>1 DEF Thread
<1>2. 0 \in S /\ S \in SUBSET Nat /\ \A m \in S : m <= n
  BY <1>1
<1>3. PICK k \in S : \A m \in S : m <= k
  <2> HIDE DEF S, n
  <2> QED
    BY <1>1, <1>2, LargestExists
<1>4. k \in 0..n
  OBVIOUS
<1>5. PICK b \in Nat : \A i \in 1..k : T[i].id <= b
  OBVIOUS
<1>6. CASE k < n
  <2>1. k + 1 \in 1..n /\ k + 1 \in 0..n /\ T[k + 1].id \in Nat
    BY <1>1, <1>4, <1>6
  <2>2. PICK c \in Nat : b <= c /\ T[k + 1].id <= c
    <3>1. CASE b <= T[k + 1].id
      BY <2>1, <3>1
    <3>2. CASE T[k + 1].id <= b
      BY <2>1, <3>2
    <3> QED
      BY <2>1, <3>1, <3>2
  <2>3. \A i \in 1..(k + 1) : T[i].id <= c
    <3> TAKE i \in 1..(k + 1)
    <3>1. CASE i \in 1..k
      BY <1>1, <1>4, <1>5, <2>1, <2>2, <3>1
    <3>2. CASE i = k + 1
      BY <2>2, <3>2
    <3> QED
      BY <1>4, <3>1, <3>2
  <2>4. k + 1 \in S
    BY <2>1, <2>3
  <2>5. k + 1 <= k
    <3> HIDE DEF S
    <3> QED
      BY <1>3, <2>4
  <2> QED
    BY <1>4, <2>5
<1>7. CASE k = n
  BY <1>5, <1>7
<1> QED
  BY <1>1, <1>4, <1>6, <1>7

LEMMA RecoveredIdIn ==
    ASSUME threads \in Seq(Thread), NEW n \in Nat, n <= Len(threads),
           NEW keys, keys # {}, keys \subseteq {threads[i].key : i \in Newest(n)}
    PROVE  /\ RecoveredId(n, keys) \in Nat
           /\ IdIn(RecoveredId(n, keys), keys, threads) /\ AllIn(keys, threads)
<1> DEFINE found == {i \in Newest(n) : threads[i].key \in keys}
           ids == {threads[i].id : i \in found}
<1>1. \A i \in Newest(n) : i \in 1..Len(threads) /\ i \in DOMAIN threads /\ threads[i].id \in Nat
  <2>1. Len(threads) \in Nat /\ \A i \in 1..Len(threads) : threads[i] \in Thread
    OBVIOUS
  <2> QED
    BY <2>1, NewestIs DEF Thread
<1>2. found # {}
  OBVIOUS
<1>3. ids # {} /\ ids \in SUBSET Nat
  BY <1>1, <1>2
<1>4. PICK b \in Nat : \A i \in 1..Len(threads) : threads[i].id <= b
  BY IdsAreBounded
<1>5. \A m \in ids : m <= b
  BY <1>1, <1>4
<1>6. \E id \in ids : \A i \in found : threads[i].id <= id
  <2>1. PICK id \in ids : \A m \in ids : m <= id
    <3> HIDE DEF ids
    <3> QED
      BY <1>3, <1>5, LargestExists
  <2>2. \A i \in found : threads[i].id \in ids
    OBVIOUS
  <2> QED
    BY <2>1, <2>2
<1>7. RecoveredId(n, keys) \in ids
  <2>1. RecoveredId(n, keys) = CHOOSE id \in ids : \A i \in found : threads[i].id <= id
    BY DEF RecoveredId
  <2> HIDE DEF ids, found
  <2> QED
    BY <1>6, <2>1
<1>8. PICK i \in found : RecoveredId(n, keys) = threads[i].id
  BY <1>7
<1>9. IdIn(RecoveredId(n, keys), keys, threads)
  BY <1>1, <1>8 DEF IdIn
<1>10. AllIn(keys, threads)
  BY <1>1 DEF AllIn, KeysIn
<1> QED
  BY <1>3, <1>7, <1>9, <1>10

-----------------------------------------------------------------------------
(* The publisher of the suggestions.                                         *)

\* The request reached GitHub.
LEMMA LandsItsOwn ==
    ASSUME FormedInv, NEW x \in Publishers, callers[x].pc = "create",
           threads' = Landed(Missing(x), FALSE)
    PROVE  /\ Adds(threads', Missing(x), FALSE) /\ Grows(threads')
           /\ AllIn(ToPost(RowOf(x)), threads') /\ IdIn(NextId, ToPost(RowOf(x)), threads')
<1>0. /\ threads \in Seq(Thread) /\ RowOf(x) \in Row /\ callers[x] \in Caller
      /\ CallerFormed(callers[x], rows, threads) /\ RowOf(x) = rows[callers[x].review]
  BY Entered DEF FormedInv, SuggestionTypeOK
<1>1. Missing(x) \in SUBSET Keys
  BY <1>0, ToPostIs DEF Missing, Row
<1>2. Adds(threads', Missing(x), FALSE)
  BY <1>0, <1>1, LandedIs
<1>3. Grows(threads')
  BY <1>2 DEF Adds
<1>4. /\ Len(threads) \in Nat /\ Len(threads') \in Nat /\ Len(threads) <= Len(threads')
      /\ DOMAIN threads = 1..Len(threads) /\ DOMAIN threads' = 1..Len(threads')
      /\ \A i \in 1..Len(threads) : i \in 1..Len(threads') /\ threads'[i] = threads[i]
      /\ \A i \in (Len(threads) + 1)..Len(threads') : i \in 1..Len(threads')
  BY <1>0, <1>3, GrowsIs
<1>5. /\ callers[x].listed \in Nat /\ callers[x].listed <= Len(threads)
      /\ Newest(callers[x].listed) \subseteq 1..callers[x].listed
  BY <1>0, NewestIs DEF CallerFormed, Caller
<1>6. PICK key \in ToPost(RowOf(x)) :
          \A i \in Newest(callers[x].listed) : threads[i].key # key
  BY <1>0 DEF CallerFormed
<1>7. key \in Missing(x)
  BY <1>6 DEF Missing, Recovered
<1>8. PICK i \in (Len(threads) + 1)..Len(threads') : threads'[i].key = key
  BY <1>2, <1>7 DEF Adds
<1>9. i \in DOMAIN threads' /\ threads'[i].id = NextId
  BY <1>2, <1>4, <1>8 DEF Adds
<1>10. ToPost(RowOf(x)) \subseteq KeysIn(threads')
  <2> SUFFICES ASSUME NEW k \in ToPost(RowOf(x)) PROVE k \in KeysIn(threads')
    OBVIOUS
  <2>1. CASE k \in Missing(x)
    <3>1. PICK j \in (Len(threads) + 1)..Len(threads') : threads'[j].key = k
      BY <1>2, <2>1 DEF Adds
    <3> QED
      BY <1>4, <3>1 DEF KeysIn
  <2>2. CASE k \notin Missing(x)
    <3>1. PICK j \in Newest(callers[x].listed) : threads[j].key = k
      BY <2>2 DEF Missing, Recovered
    <3>2. j \in 1..Len(threads)
      BY <1>4, <1>5, <3>1
    <3>3. j \in DOMAIN threads' /\ threads'[j].key = k
      BY <1>4, <3>1, <3>2
    <3> QED
      BY <3>3 DEF KeysIn
  <2> QED
    BY <2>1, <2>2
<1> QED
  BY <1>2, <1>3, <1>6, <1>8, <1>9, <1>10 DEF AllIn, IdIn

LEMMA RequestLands ==
    ASSUME FormedInv, NEW x \in Publishers, callers[x].pc = "create", rows' = rows,
           threads' = Landed(Missing(x), FALSE), NEW k \in Caller,
           callers' = [callers EXCEPT ![x] = k],
           k.review = callers[x].review, k.listed = callers[x].listed,
           k.published = callers[x].published,
           k.pc = "reconcile" \/ (k.pc = "mark" /\ k.id = NextId)
    PROVE  StepOf(x)
<1>0. /\ threads \in Seq(Thread) /\ callers[x] \in Caller /\ callers[x].review \in Reviews
      /\ RowOf(x) \in Row /\ RowOf(x).review # "none" /\ RowFormed(RowOf(x), threads)
      /\ CallerFormed(callers[x], rows, threads) /\ RowOf(x) = rows[callers[x].review]
      /\ rows = [rows EXCEPT ![callers[x].review] = RowOf(x)]
  BY Entered DEF FormedInv, SuggestionTypeOK
<1>1. /\ Adds(threads', Missing(x), FALSE) /\ Grows(threads')
      /\ AllIn(ToPost(RowOf(x)), threads') /\ IdIn(NextId, ToPost(RowOf(x)), threads')
  BY LandsItsOwn
<1>2. RowsKeep
  BY DEF RowsKeep
<1>3. CallerFormed(callers[x], rows', threads') /\ RowFormed(RowOf(x), threads')
  BY <1>0, <1>1, <1>2, CallerStays, RowStays
<1>4. CallerFormed(k, rows', threads')
  BY <1>0, <1>1, <1>3 DEF CallerFormed, Claimed
<1>5. LeaseMoves(x, k, rows[k.review], RowOf(x)) /\ ReviewMoves(x, k, rows[k.review], RowOf(x))
  BY <1>0 DEF LeaseMoves, ReviewMoves
<1>6. Does(x, k, RowOf(x))
  BY <1>0, <1>3, <1>4, <1>5 DEF Does
<1> QED
  BY <1>1, <1>6 DEF StepOf, Posts

\* It leaves the suggestions alone and answers with their state.
LEMMA AnswersState ==
    ASSUME FormedInv, NEW x \in Publishers, callers[x].pc \notin {"idle", "enter", "done"},
           UNCHANGED <<rows, threads>>,
           callers' = [callers EXCEPT ![x].pc = "relook",
                           ![x].published = RowOf(x).status = "posted"]
    PROVE  StepOf(x)
<1> DEFINE shown == RowOf(x).status = "posted"
           k == [callers[x] EXCEPT !.pc = "relook", !.published = shown]
<1>0. /\ callers[x] \in Caller /\ RowFormed(RowOf(x), threads)
      /\ CallerFormed(callers[x], rows, threads) /\ RowOf(x) = rows[callers[x].review]
  BY Entered
<1>1. callers' = [callers EXCEPT ![x] = k]
  OBVIOUS
<1>2. shown \in BOOLEAN /\ (shown => AllIn(ToPost(RowOf(x)), threads))
  BY <1>0 DEF RowFormed
<1> HIDE DEF shown
<1>3. /\ k \in Caller /\ k.pc = "relook" /\ k.review = callers[x].review
      /\ k.listed = callers[x].listed /\ k.published = shown
  BY <1>0, <1>2 DEF Caller, Steps
<1> HIDE DEF k
<1>4. CallerFormed(k, rows, threads)
  BY <1>0, <1>2, <1>3 DEF CallerFormed, Claimed
<1> QED
  BY <1>1, <1>3, <1>4, GoesOn

\* It looks for what is there already.
LEMMA LookingDoes ==
    ASSUME FormedInv, NEW x \in Publishers, List(x) \/ Check(x) \/ Reconcile(x) \/ RequestFails(x)
    PROVE  StepOf(x)
<1>0. /\ callers[x].pc \in {"list", "check", "reconcile"} /\ threads' = threads
      /\ callers[x].pc \notin {"idle", "enter", "done"} /\ callers[x].pc \in Claimed
  BY DEF List, Check, Reconcile, RequestFails, At, Claimed
<1>1. /\ callers[x] \in Caller /\ RowOf(x) \in Row /\ RowOf(x).review # "none"
      /\ RowFormed(RowOf(x), threads) /\ CallerFormed(callers[x], rows, threads)
      /\ RowOf(x) = rows[callers[x].review] /\ threads \in Seq(Thread)
      /\ ToPost(RowOf(x)) # {} /\ callers[x].listed \in Nat
      /\ callers[x].listed <= Len(threads)
  <2>1. callers[x] \in Caller /\ CallerFormed(callers[x], rows, threads)
        /\ RowOf(x) = rows[callers[x].review]
    BY <1>0, Entered
  <2>2. callers[x].listed \in Nat
    BY <2>1 DEF Caller
  <2> QED
    BY <1>0, <2>1, <2>2, Entered DEF CallerFormed, FormedInv, SuggestionTypeOK
<1>2. Len(threads) \in Nat
  BY <1>1
<1>3. CASE List(x)
  <2> DEFINE k == [callers[x] EXCEPT !.listed = Len(threads), !.pc = "check"]
  <2>1. callers' = [callers EXCEPT ![x] = k] /\ UNCHANGED <<rows, threads>>
    BY <1>3 DEF List
  <2>2. /\ k \in Caller /\ k.pc = "check" /\ k.review = callers[x].review
        /\ k.listed = Len(threads) /\ k.published = callers[x].published
    BY <1>1, <1>2 DEF Caller, Steps
  <2> HIDE DEF k
  <2>3. CallerFormed(k, rows, threads)
    BY <1>0, <1>1, <1>2, <2>2 DEF CallerFormed, Claimed
  <2> QED
    BY <1>0, <2>1, <2>2, <2>3, GoesOn
<1>4. ASSUME NEW n \in {callers[x].listed, Len(threads)}, UNCHANGED rows,
             ToPost(RowOf(x)) \subseteq {threads[i].key : i \in Newest(n)},
             callers' = [callers EXCEPT ![x].pc = "mark",
                                        ![x].id = RecoveredId(n, ToPost(RowOf(x)))]
      PROVE  StepOf(x)
  <2> DEFINE id == RecoveredId(n, ToPost(RowOf(x)))
             k == [callers[x] EXCEPT !.pc = "mark", !.id = id]
  <2>1. callers' = [callers EXCEPT ![x] = k] /\ UNCHANGED <<rows, threads>>
    BY <1>0, <1>4
  <2>2. id \in Nat /\ IdIn(id, ToPost(RowOf(x)), threads) /\ AllIn(ToPost(RowOf(x)), threads)
    <3>1. n \in Nat /\ n <= Len(threads)
      BY <1>1, <1>2
    <3> QED
      BY <1>1, <1>4, <3>1, RecoveredIdIn
  <2> HIDE DEF id
  <2>3. /\ k \in Caller /\ k.pc = "mark" /\ k.review = callers[x].review /\ k.id = id
        /\ k.listed = callers[x].listed /\ k.published = callers[x].published
    BY <1>1, <2>2 DEF Caller, Steps
  <2> HIDE DEF k
  <2>4. CallerFormed(k, rows, threads)
    BY <1>0, <1>1, <2>2, <2>3 DEF CallerFormed, Claimed
  <2> QED
    BY <1>0, <2>1, <2>3, <2>4, GoesOn
<1>8. ASSUME UNCHANGED rows,
             callers' = [callers EXCEPT ![x].pc = "relook",
                             ![x].published = RowOf(x).status = "posted"]
      PROVE  StepOf(x)
  BY <1>0, <1>8, AnswersState
<1>5. CASE Check(x)
  <2>0. callers[x].pc = "check"
    BY <1>5 DEF Check, At
  <2>1. CASE Missing(x) = {}
    BY <1>4, <1>5, <2>1 DEF Check, Missing, Recovered
  <2>2. CASE Missing(x) # {} /\ onTarget
    BY <1>0, <1>5, <2>0, <2>2, GoesTo DEF Check, Steps
  <2>4. CASE Missing(x) # {} /\ ~onTarget /\ ~Holds(x)
    BY <1>5, <1>8, <2>4 DEF Check
  <2>3. CASE Missing(x) # {} /\ ~onTarget /\ Holds(x)
    <3> DEFINE row == [RowOf(x) EXCEPT !.status = "stale"]
    <3>1. Holds(x) /\ SetRow(x, row) /\ Go(x, "relook") /\ callers[x].pc = "check"
      BY <1>5, <2>3 DEF Check, At
    <3>2. /\ row \in Row /\ row.keys = RowOf(x).keys /\ row.review = RowOf(x).review
          /\ row.ended = RowOf(x).ended /\ row.help = RowOf(x).help /\ row.status = "stale"
      BY <1>1 DEF Row
    <3> HIDE DEF row
    <3>3. RowFormed(row, threads)
      BY <1>1, <3>2, ToPostIs DEF RowFormed
    <3> QED
      BY <1>0, <1>1, <3>1, <3>2, <3>3, ChangesTo
  <2> QED
    BY <2>1, <2>2, <2>3, <2>4
<1>6. CASE Reconcile(x)
  <2>1. CASE AllAreThere(ToPost(RowOf(x)), {threads[i].key : i \in Newest(Len(threads))})
    BY <1>4, <1>6, <2>1 DEF Reconcile, AllAreThere
  <2>2. CASE ~AllAreThere(ToPost(RowOf(x)), {threads[i].key : i \in Newest(Len(threads))})
    BY <1>0, <1>6, <2>2, GoesTo DEF Reconcile, Steps
  <2> QED
    BY <2>1, <2>2
<1>7. CASE RequestFails(x)
  BY <1>0, <1>7, GoesTo DEF RequestFails, Steps
<1> QED
  BY <1>3, <1>5, <1>6, <1>7

\* It takes the lease, renews it and gives it back.
LEMMA LeasingDoes ==
    ASSUME FormedInv, NEW x \in Publishers, Offer(x) \/ Renew(x) \/ Mark(x) \/ Fail(x)
    PROVE  StepOf(x)
<1>0. /\ callers[x].pc \in {"offer", "renew", "mark", "fail"} /\ threads' = threads
      /\ callers[x].pc \notin {"idle", "enter", "done"}
  BY DEF Offer, Renew, Mark, Fail, At
<1>1. /\ callers[x] \in Caller /\ RowOf(x) \in Row /\ RowOf(x).review # "none"
      /\ RowFormed(RowOf(x), threads) /\ CallerFormed(callers[x], rows, threads)
      /\ RowOf(x) = rows[callers[x].review]
  BY <1>0, Entered
<1>2. ASSUME UNCHANGED rows,
             callers' = [callers EXCEPT ![x].pc = "relook",
                             ![x].published = RowOf(x).status = "posted"]
      PROVE  StepOf(x)
  BY <1>0, <1>2, AnswersState
<1>3. ASSUME NEW step \in {"list", "create"}, Go(x, step), ToPost(RowOf(x)) # {},
             step = "list" => Claimable(RowOf(x)),
             step = "create" => Holds(x) /\ callers[x].pc = "renew",
             RowOf(x).keys # {},
             SetRow(x, [RowOf(x) EXCEPT !.status = "posting", !.by = x, !.aged = FALSE])
      PROVE  StepOf(x)
  <2> DEFINE k == [callers[x] EXCEPT !.pc = step]
             row == [RowOf(x) EXCEPT !.status = "posting", !.by = x, !.aged = FALSE]
  <2>1. SetRow(x, row) /\ callers' = [callers EXCEPT ![x] = k]
    BY <1>3 DEF Go
  <2>2. /\ row \in Row /\ row.keys = RowOf(x).keys /\ row.review = RowOf(x).review
        /\ row.ended = RowOf(x).ended /\ row.help = RowOf(x).help
        /\ row.status = "posting" /\ row.by = x /\ ~row.aged
    BY <1>1 DEF Row
  <2>3. /\ k \in Caller /\ k.pc = step /\ k.review = callers[x].review
        /\ k.listed = callers[x].listed /\ k.published = callers[x].published
    BY <1>1, <1>3 DEF Caller, Steps
  <2> HIDE DEF k, row
  <2>4. CallerFormed(k, rows, threads)
    BY <1>0, <1>1, <1>3, <2>3 DEF CallerFormed, Claimed
  <2>5. RowFormed(row, threads)
    BY <1>1, <1>3, <2>2, ToPostIs DEF RowFormed
  <2>6. LeaseMoves(x, k, RowOf(x), row) /\ ReviewMoves(x, k, RowOf(x), row)
    BY <1>0, <1>3, <2>2, <2>3 DEF LeaseMoves, ReviewMoves
  <2>7. RowOf(x).ended => row.ended
    BY <2>2
  <2> QED
    BY <1>0, <1>1, <1>3, <2>1, <2>2, <2>3, <2>4, <2>5, <2>6, <2>7, Changes
<1>k. ToPost(RowOf(x)) # {} => RowOf(x).keys # {}
  BY ToPostIs
<1>4. CASE Offer(x)
  <2>1. CASE ToPost(RowOf(x)) # {} /\ Claimable(RowOf(x))
    BY <1>3, <1>4, <1>k, <2>1 DEF Offer
  <2>2. CASE ~(ToPost(RowOf(x)) # {} /\ Claimable(RowOf(x)))
    BY <1>2, <1>4, <2>2 DEF Offer
  <2> QED
    BY <2>1, <2>2
<1>5. CASE Renew(x)
  <2>0. callers[x].pc = "renew" /\ callers[x].pc \in Claimed /\ ToPost(RowOf(x)) # {}
    BY <1>1, <1>5 DEF Renew, At, Claimed, CallerFormed
  <2>1. CASE Holds(x)
    <3>1. SetRow(x, [RowOf(x) EXCEPT !.aged = FALSE]) /\ Go(x, "create")
      BY <1>5, <2>1 DEF Renew
    <3>2. RowOf(x).status = "posting" /\ RowOf(x).by = x
      BY <2>1 DEF Holds
    <3>3. [RowOf(x) EXCEPT !.aged = FALSE]
          = [RowOf(x) EXCEPT !.status = "posting", !.by = x, !.aged = FALSE]
      BY <1>1, <3>2 DEF Row
    <3> QED
      BY <1>3, <1>k, <2>0, <2>1, <3>1, <3>3
  <2>2. CASE ~Holds(x)
    BY <1>0, <1>5, <2>0, <2>2, GoesTo DEF Renew, Steps
  <2> QED
    BY <2>1, <2>2
<1>6. CASE Mark(x)
  <2>0. /\ callers[x].pc = "mark" /\ callers[x].pc \in Claimed
        /\ AllIn(ToPost(RowOf(x)), threads) /\ IdIn(callers[x].id, ToPost(RowOf(x)), threads)
        /\ callers[x].id \in Nat /\ RowOf(x).keys # {}
    BY <1>1, <1>6, <1>k DEF Mark, At, Claimed, CallerFormed, Caller, AllIn
  <2>1. CASE Holds(x)
    <3> DEFINE k == [callers[x] EXCEPT !.pc = "relook", !.published = TRUE]
               id == callers[x].id
               row == [RowOf(x) EXCEPT !.status = "posted", !.by = NoOne, !.aged = FALSE, !.id = id]
    <3>1. SetRow(x, row) /\ callers' = [callers EXCEPT ![x] = k]
      BY <1>6, <2>1 DEF Mark
    <3> HIDE DEF id
    <3>2. /\ row \in Row /\ row.keys = RowOf(x).keys /\ row.review = RowOf(x).review
          /\ row.ended = RowOf(x).ended /\ row.help = RowOf(x).help
          /\ row.status = "posted" /\ row.id = id
      BY <1>1, <2>0 DEF Row, id
    <3>3. /\ k \in Caller /\ k.pc = "relook" /\ k.review = callers[x].review
          /\ k.listed = callers[x].listed /\ k.published
      BY <1>1 DEF Caller, Steps
    <3> HIDE DEF k, row
    <3>4. CallerFormed(k, rows, threads)
      BY <1>0, <1>1, <2>0, <3>3 DEF CallerFormed, Claimed
    <3>5. RowFormed(row, threads)
      BY <1>1, <2>0, <3>2, ToPostIs DEF RowFormed, id
    <3>6. LeaseMoves(x, k, RowOf(x), row) /\ ReviewMoves(x, k, RowOf(x), row)
      BY <2>0, <2>1, <3>2, <3>3 DEF LeaseMoves, ReviewMoves
    <3> QED
      BY <1>0, <1>1, <3>1, <3>2, <3>3, <3>4, <3>5, <3>6, Changes
  <2>2. CASE ~Holds(x)
    BY <1>0, <1>6, <2>0, <2>2, GoesTo DEF Mark, Steps
  <2> QED
    BY <2>1, <2>2
<1>7. CASE Fail(x)
  <2>1. CASE Holds(x)
    <3> DEFINE row == [RowOf(x) EXCEPT !.status = "publish_failed"]
    <3>1. SetRow(x, row) /\ Go(x, "relook") /\ callers[x].pc = "fail"
      BY <1>7, <2>1 DEF Fail, At
    <3>2. /\ row \in Row /\ row.keys = RowOf(x).keys /\ row.review = RowOf(x).review
          /\ row.ended = RowOf(x).ended /\ row.help = RowOf(x).help
          /\ row.status = "publish_failed"
      BY <1>1 DEF Row
    <3> HIDE DEF row
    <3>3. RowFormed(row, threads)
      BY <1>1, <2>1, <3>2, ToPostIs DEF RowFormed, Holds
    <3> QED
      BY <1>0, <1>1, <2>1, <3>1, <3>2, <3>3, ChangesTo
  <2>2. CASE ~Holds(x)
    BY <1>2, <1>7, <2>2 DEF Fail
  <2> QED
    BY <2>1, <2>2
<1> QED
  BY <1>4, <1>5, <1>6, <1>7

\* It asks GitHub for the review.
LEMMA RequestDoes ==
    ASSUME FormedInv, NEW x \in Publishers, Create(x) \/ CreateFails(x)
    PROVE  StepOf(x)
<1>0. /\ callers[x].pc = "create" /\ callers[x].pc \in Claimed /\ rows' = rows
      /\ callers[x].pc \notin {"idle", "enter", "done"} /\ callers[x] \in Caller
      /\ NextId \in Nat
  BY NextIdIs DEF Create, CreateFails, At, Claimed, FormedInv, SuggestionTypeOK
<1>1. CASE Create(x)
  <2> DEFINE k == [callers[x] EXCEPT !.pc = "mark", !.id = NextId]
  <2>1. callers' = [callers EXCEPT ![x] = k] /\ threads' = Landed(Missing(x), FALSE)
    BY <1>1 DEF Create
  <2>2. /\ k \in Caller /\ k.pc = "mark" /\ k.review = callers[x].review
        /\ k.id = NextId
        /\ k.listed = callers[x].listed /\ k.published = callers[x].published
    BY <1>0 DEF Caller, Steps
  <2> HIDE DEF k
  <2> QED
    BY <1>0, <2>1, <2>2, RequestLands
<1>2. CASE CreateFails(x) /\ threads' = threads
  BY <1>0, <1>2, GoesTo DEF CreateFails, Steps
<1>3. CASE CreateFails(x) /\ threads' # threads
  <2> DEFINE k == [callers[x] EXCEPT !.pc = "reconcile"]
  <2>1. callers' = [callers EXCEPT ![x] = k] /\ threads' = Landed(Missing(x), FALSE)
    BY <1>3 DEF CreateFails, Go
  <2>2. /\ k \in Caller /\ k.pc = "reconcile" /\ k.review = callers[x].review
        /\ k.listed = callers[x].listed /\ k.published = callers[x].published
    BY <1>0 DEF Caller, Steps
  <2> HIDE DEF k
  <2> QED
    BY <1>0, <2>1, <2>2, RequestLands
<1> QED
  BY <1>1, <1>2, <1>3

LEMMA PublisherSteps ==
    ASSUME FormedInv, NEW x \in Publishers,
           \/ \E n \in Reviews : Enter(x, n)
           \/ Proceed(x) \/ ReviewFails(x) \/ CreateFails(x) \/ RequestFails(x)
    PROVE  StepOf(x)
BY EnterDoes, AroundDoes, LookingDoes, LeasingDoes, RequestDoes DEF Proceed

-----------------------------------------------------------------------------
(* The environment, and the first invariant.                                 *)

LEMMA StepForms ==
    ASSUME FormedInv, NEW x \in Publishers, StepOf(x)
    PROVE  /\ rows' \in [Reviews -> Row] /\ callers' \in [Publishers -> Caller]
           /\ Grows(threads')
           /\ \A n \in Reviews : RowFormed(rows'[n], threads')
           /\ \A y \in Publishers : CallerFormed(callers'[y], rows', threads')
<1>1. Grows(threads')
  BY SameGrows DEF StepOf, Posts, Adds, FormedInv, SuggestionTypeOK
<1> QED
  BY <1>1, DoesFormed DEF StepOf

\* A step beside the publishers: some reviews change, some publishers stop.
LEMMA OthersForm ==
    ASSUME FormedInv, Grows(threads'), RowsKeep, rows' \in [Reviews -> Row],
           \A n \in Reviews : rows'[n] = rows[n] \/ RowFormed(rows'[n], threads),
           callers' \in [Publishers -> Caller],
           \A y \in Publishers :
               \/ callers'[y] = callers[y]
               \/ /\ callers[y].pc # "idle"
                  /\ callers'[y] = [callers[y] EXCEPT !.pc = "done"]
    PROVE  /\ \A n \in Reviews : RowFormed(rows'[n], threads')
           /\ \A y \in Publishers : CallerFormed(callers'[y], rows', threads')
<1>0. threads \in Seq(Thread) /\ callers \in [Publishers -> Caller]
  BY DEF FormedInv, SuggestionTypeOK
<1>1. ASSUME NEW n \in Reviews
      PROVE  RowFormed(rows'[n], threads')
  <2>1. RowFormed(rows'[n], threads)
    BY DEF FormedInv
  <2> QED
    BY <1>0, <2>1, RowStays
<1>2. ASSUME NEW y \in Publishers
      PROVE  CallerFormed(callers'[y], rows', threads')
  <2>0. callers[y] \in Caller /\ CallerFormed(callers[y], rows, threads)
    BY <1>0 DEF FormedInv
  <2>1. CallerFormed(callers[y], rows', threads')
    BY <1>0, <2>0, CallerStays
  <2>2. CASE callers[y].pc # "idle" /\ callers'[y] = [callers[y] EXCEPT !.pc = "done"]
    <3> DEFINE k == [callers[y] EXCEPT !.pc = "done"]
    <3>1. /\ k.pc = "done" /\ k.review = callers[y].review /\ k.listed = callers[y].listed
          /\ k.published = callers[y].published
      BY <2>0 DEF Caller
    <3> HIDE DEF k
    <3>2. CallerFormed(k, rows', threads')
      BY <2>1, <2>2, <3>1 DEF CallerFormed, Claimed
    <3> QED
      BY <2>2, <3>2 DEF k
  <2> QED
    BY <2>1, <2>2
<1> QED
  BY <1>1, <1>2

LEMMA PrepareIs ==
    ASSUME FormedInv, NEW n \in Reviews, NEW keys \in Offers, Prepare(n, keys)
    PROVE  /\ UNCHANGED <<threads, flying, callers, onTarget, left>>
           /\ rows[n].review = "none" /\ rows[n].status = "none"
           /\ rows' \in [Reviews -> Row]
           /\ \A m \in Reviews \ {n} : rows'[m] = rows[m]
           /\ rows'[n].review = "generated" /\ rows'[n].ended = rows[n].ended
           /\ rows'[n].status # "posting" /\ RowFormed(rows'[n], threads) /\ RowsKeep
<1> DEFINE row == [rows[n] EXCEPT !.review = "generated", !.keys = keys,
                       !.status = IF keys = {} THEN "none" ELSE "pending"]
<1>1. rows \in [Reviews -> Row] /\ rows[n] \in Row /\ RowFormed(rows[n], threads)
      /\ keys \in SUBSET Keys
  BY SuggestionAssumption DEF FormedInv, SuggestionTypeOK
<1>2. /\ rows[n].review = "none" /\ rows' = [rows EXCEPT ![n] = row]
      /\ UNCHANGED <<threads, flying, callers, onTarget, left>>
  BY DEF Prepare
<1>3. /\ row \in Row /\ row.review = "generated" /\ row.ended = rows[n].ended
      /\ row.keys = keys /\ row.help = rows[n].help
      /\ row.status = IF keys = {} THEN "none" ELSE "pending"
  BY <1>1 DEF Row
<1> HIDE DEF row
<1>4. rows[n].status = "none" /\ ~rows[n].help
  BY <1>1, <1>2 DEF RowFormed
<1>5. RowFormed(row, threads)
  BY <1>3, <1>4 DEF RowFormed
<1>6. rows'[n] = row /\ \A m \in Reviews \ {n} : rows'[m] = rows[m]
  BY <1>1, <1>2
<1>7. RowsKeep
  BY <1>2, <1>6 DEF RowsKeep
<1> QED
  BY <1>1, <1>2, <1>3, <1>4, <1>5, <1>6, <1>7

\* The clock and the clean-up: neither touches what is posted, and the
\* clean-up takes a claim on suggestions away only with the one on its review.
LEMMA AgeIs ==
    ASSUME FormedInv, NEW n \in Reviews, LeaseAges(n) \/ Reap(n)
    PROVE  /\ UNCHANGED <<threads, flying, callers, onTarget, left>>
           /\ rows' \in [Reviews -> Row]
           /\ \A m \in Reviews :
                 /\ RowFormed(rows'[m], threads) /\ rows'[m].keys = rows[m].keys
                 /\ rows'[m].by = rows[m].by
                 /\ rows'[m].review = "none" <=> rows[m].review = "none"
                 /\ rows'[m].ended \/ rows'[m].review = rows[m].review
                 /\ rows[m].ended => rows'[m].ended
                 /\ \/ rows'[m].status = rows[m].status
                    \/ /\ m = n /\ rows'[n].status = "publish_failed"
                       /\ rows[n].review = "posting" /\ ~rows[n].ended /\ rows'[n].ended
                       /\ \A x \in Publishers : callers[x].review = n => callers[x].pc # "enter"
                 /\ \/ rows'[m].aged = rows[m].aged
                    \/ /\ m = n
                       /\ rows[n].by \in Publishers =>
                              callers[rows[n].by].pc \notin {"create", "reconcile"}
           /\ RowsKeep
<1> DEFINE aged == [rows[n] EXCEPT !.aged = TRUE]
           given(status) == IF status = "posting" THEN "publish_failed" ELSE status
           review == given(rows[n].review)
           status == IF rows[n].review = "posting" THEN given(rows[n].status) ELSE rows[n].status
           over == [rows[n] EXCEPT !.ended = TRUE, !.review = review, !.status = status]
<1>1. rows \in [Reviews -> Row] /\ rows[n] \in Row
      /\ \A m \in Reviews : RowFormed(rows[m], threads)
  BY DEF FormedInv, SuggestionTypeOK
<1>2. UNCHANGED <<threads, flying, callers, onTarget, left>>
  BY DEF LeaseAges, Reap
<1>3. CASE LeaseAges(n)
  <2>1. /\ rows' = [rows EXCEPT ![n] = aged] /\ rows[n].status = "posting"
        /\ rows[n].by \in Publishers => callers[rows[n].by].pc \notin {"create", "reconcile"}
    BY <1>3 DEF LeaseAges
  <2>2. /\ aged \in Row /\ aged.keys = rows[n].keys /\ aged.status = rows[n].status
        /\ aged.by = rows[n].by /\ aged.review = rows[n].review /\ aged.ended = rows[n].ended
        /\ aged.help = rows[n].help /\ aged.id = rows[n].id
    BY <1>1 DEF Row
  <2> HIDE DEF aged
  <2>3. RowFormed(aged, threads)
    <3>1. RowFormed(rows[n], threads)
      BY <1>1
    <3> QED
      BY <2>2, <3>1, ToPostIs DEF RowFormed
  <2>4. rows'[n] = aged /\ (\A m \in Reviews \ {n} : rows'[m] = rows[m]) /\ rows' \in [Reviews -> Row]
    BY <1>1, <2>1, <2>2
  <2>5. RowsKeep
    BY <2>2, <2>4 DEF RowsKeep
  <2> QED
    BY <1>1, <1>2, <2>1, <2>2, <2>3, <2>4, <2>5
<1>4. CASE Reap(n)
  <2>1. /\ rows[n].review # "none" /\ ~rows[n].ended
        /\ \A x \in Publishers : callers[x].review = n => callers[x].pc # "enter"
    BY <1>4 DEF Reap, At
  <2>2. rows' = [rows EXCEPT ![n] = over]
    BY <1>4 DEF Reap
  <2>3. /\ review \in {"none", "generated", "posting", "posted", "publish_failed", "stale"}
        /\ status \in {"none", "pending", "posting", "posted", "publish_failed", "stale"}
        /\ review # "none"
        /\ \/ status = rows[n].status
           \/ /\ status = "publish_failed" /\ rows[n].status = "posting"
              /\ rows[n].review = "posting"
    BY <1>1, <2>1 DEF Row
  <2> HIDE DEF review, status
  <2>4. /\ over \in Row /\ over.keys = rows[n].keys /\ over.status = status
        /\ over.by = rows[n].by /\ over.review = review /\ over.ended
        /\ over.aged = rows[n].aged
        /\ over.help = rows[n].help /\ over.id = rows[n].id
    BY <1>1, <2>3 DEF Row
  <2> HIDE DEF over
  <2>5. RowFormed(over, threads)
    <3>1. RowFormed(rows[n], threads)
      BY <1>1
    <3> QED
      BY <2>1, <2>3, <2>4, <3>1, ToPostIs DEF RowFormed
  <2>6. /\ rows'[n] = over /\ rows' \in [Reviews -> Row]
        /\ \A m \in Reviews \ {n} : rows'[m] = rows[m]
    BY <1>1, <2>2, <2>4
  <2>7. RowsKeep
    BY <2>3, <2>4, <2>6 DEF RowsKeep
  <2> QED
    BY <1>1, <1>2, <2>1, <2>3, <2>4, <2>5, <2>6, <2>7
<1> QED
  BY <1>3, <1>4

LEMMA LandIs ==
    ASSUME FormedInv, NEW keys \in SUBSET Keys, Land(keys)
    PROVE  Adds(threads', keys, TRUE) /\ Grows(threads')
           /\ UNCHANGED <<rows, callers, onTarget, left>> /\ flying' \subseteq flying
<1>1. Adds(threads', keys, TRUE)
  BY LandedIs DEF Land, FormedInv, SuggestionTypeOK
<1> QED
  BY <1>1 DEF Land, Adds

LEMMA RestartIs ==
    ASSUME FormedInv, Restart
    PROVE  /\ UNCHANGED <<rows, flying, onTarget>>
           /\ callers' \in [Publishers -> Caller]
           /\ \A y \in Publishers :
                 /\ callers'[y].pc \in {"idle", "done"}
                 /\ \/ callers'[y] = callers[y]
                    \/ /\ callers[y].pc \notin {"idle", "done"}
                       /\ callers'[y] = [callers[y] EXCEPT !.pc = "done"]
           /\ \/ threads' = threads
              \/ \E x \in Publishers : callers[x].pc = "create" /\ Adds(threads', Missing(x), FALSE)
<1>1. callers \in [Publishers -> Caller]
  BY DEF FormedInv, SuggestionTypeOK
<1>2. callers' = [x \in Publishers |->
           IF x \in Working THEN [callers[x] EXCEPT !.pc = "done"] ELSE callers[x]]
  BY DEF Restart
<1>3. ASSUME NEW y \in Publishers
      PROVE  /\ callers'[y] \in Caller /\ callers'[y].pc \in {"idle", "done"}
             /\ \/ callers'[y] = callers[y]
                \/ /\ callers[y].pc \notin {"idle", "done"}
                   /\ callers'[y] = [callers[y] EXCEPT !.pc = "done"]
  <2>1. callers[y] \in Caller
    BY <1>1
  <2>2. CASE y \in Working
    BY <1>2, <2>1, <2>2 DEF Working, Caller, Steps
  <2>3. CASE y \notin Working
    BY <1>2, <2>1, <2>3 DEF Working
  <2> QED
    BY <2>2, <2>3
<1>4. callers' \in [Publishers -> Caller]
  BY <1>2, <1>3
<1>5. \/ threads' = threads
      \/ \E x \in Publishers : callers[x].pc = "create" /\ Adds(threads', Missing(x), FALSE)
  BY LandsItsOwn DEF Restart, At
<1> QED
  BY <1>3, <1>4, <1>5 DEF Restart

LEMMA RestTyped ==
    ASSUME FormedInv, SuggestionNext
    PROVE  /\ flying' \subseteq SUBSET Keys /\ onTarget' \in BOOLEAN
           /\ left' \in [{"move", "fault", "restart"} -> Nat]
<1>0. /\ flying \subseteq SUBSET Keys /\ onTarget \in BOOLEAN
      /\ left \in [{"move", "fault", "restart"} -> Nat] /\ callers \in [Publishers -> Caller]
  BY DEF FormedInv, SuggestionTypeOK
<1>1. ASSUME NEW what \in {"move", "fault", "restart"}, Spend(what)
      PROVE  left' \in [{"move", "fault", "restart"} -> Nat]
  BY <1>0, <1>1 DEF Spend
<1>2. ASSUME NEW x \in Publishers, At(x, "create")
      PROVE  Missing(x) \in SUBSET Keys
  <2>1. RowOf(x) \in Row
    BY <1>2, Entered DEF At
  <2> QED
    BY <2>1, ToPostIs DEF Missing, Row
<1>3. ASSUME NEW x \in Publishers, CreateFails(x)
      PROVE  flying' \subseteq SUBSET Keys /\ onTarget' = onTarget
             /\ left' \in [{"move", "fault", "restart"} -> Nat]
  BY <1>0, <1>1, <1>2, <1>3 DEF CreateFails
<1>4. ASSUME NEW x \in Publishers, ReviewFails(x) \/ RequestFails(x)
      PROVE  UNCHANGED <<flying, onTarget>> /\ left' \in [{"move", "fault", "restart"} -> Nat]
  BY <1>1, <1>4 DEF ReviewFails, RequestFails
<1>5. ASSUME NEW x \in Publishers, Proceed(x)
      PROVE  UNCHANGED <<flying, onTarget, left>>
  BY <1>5 DEF Proceed, ClaimReview, Look, OffTarget, Offer, List, Check, Renew, Create,
              Reconcile, Mark, Fail, Relook, Summary
<1>6. CASE Move
  BY <1>0, <1>1, <1>6 DEF Move
<1>7. CASE Restart
  BY <1>0, <1>1, <1>7 DEF Restart
<1>8. CASE \E keys \in SUBSET Keys : Land(keys)
  BY <1>0, <1>8 DEF Land
<1>9. CASE \E n \in Reviews, keys \in Offers : Prepare(n, keys)
  BY <1>0, <1>9 DEF Prepare
<1>10. CASE \E n \in Reviews : LeaseAges(n) \/ Reap(n)
  BY <1>0, <1>10 DEF LeaseAges, Reap
<1>11. CASE \E x \in Publishers, n \in Reviews : Enter(x, n)
  BY <1>0, <1>11 DEF Enter
<1> QED
  BY <1>0, <1>3, <1>4, <1>5, <1>6, <1>7, <1>8, <1>9, <1>10, <1>11 DEF SuggestionNext

\* The steps of the environment.
Beside ==
    \/ \E n \in Reviews, keys \in Offers : Prepare(n, keys)
    \/ \E n \in Reviews : LeaseAges(n) \/ Reap(n)
    \/ Move
    \/ \E keys \in SUBSET Keys : Land(keys)
    \/ Restart

LEMMA StepsAre ==
    ASSUME FormedInv, SuggestionNext
    PROVE  (\E x \in Publishers : StepOf(x)) \/ Beside
<1>1. CASE \E x \in Publishers, n \in Reviews : Enter(x, n)
  BY <1>1, PublisherSteps
<1>2. CASE \E x \in Publishers : Proceed(x)
  BY <1>2, PublisherSteps
<1>3. CASE \E x \in Publishers : ReviewFails(x) \/ CreateFails(x) \/ RequestFails(x)
  BY <1>3, PublisherSteps
<1> QED
  BY <1>1, <1>2, <1>3 DEF SuggestionNext, Beside

LEMMA BesideForms ==
    ASSUME FormedInv, Beside
    PROVE  /\ rows' \in [Reviews -> Row] /\ callers' \in [Publishers -> Caller]
           /\ Grows(threads')
           /\ \A n \in Reviews : RowFormed(rows'[n], threads')
           /\ \A y \in Publishers : CallerFormed(callers'[y], rows', threads')
<1>0. rows \in [Reviews -> Row] /\ callers \in [Publishers -> Caller] /\ threads \in Seq(Thread)
  BY DEF FormedInv, SuggestionTypeOK
<1>1. CASE \E n \in Reviews, keys \in Offers : Prepare(n, keys)
  <2> PICK n \in Reviews, keys \in Offers : Prepare(n, keys)
    BY <1>1
  <2>1. /\ UNCHANGED <<threads, callers>> /\ rows' \in [Reviews -> Row] /\ RowsKeep
        /\ \A m \in Reviews : rows'[m] = rows[m] \/ RowFormed(rows'[m], threads)
    BY PrepareIs
  <2> QED
    BY <1>0, <2>1, SameGrows, OthersForm
<1>2. CASE \E n \in Reviews : LeaseAges(n) \/ Reap(n)
  <2> PICK n \in Reviews : LeaseAges(n) \/ Reap(n)
    BY <1>2
  <2>1. /\ UNCHANGED <<threads, callers>> /\ rows' \in [Reviews -> Row] /\ RowsKeep
        /\ \A m \in Reviews : RowFormed(rows'[m], threads)
    BY AgeIs
  <2> QED
    BY <1>0, <2>1, SameGrows, OthersForm
<1>3. CASE Move
  <2>1. UNCHANGED <<rows, threads, callers>>
    BY <1>3 DEF Move
  <2>2. RowsKeep
    BY <2>1 DEF RowsKeep
  <2> QED
    BY <1>0, <2>1, <2>2, SameGrows, OthersForm
<1>4. CASE \E keys \in SUBSET Keys : Land(keys)
  <2>1. UNCHANGED <<rows, callers>> /\ Grows(threads')
    BY <1>4, LandIs
  <2>2. RowsKeep
    BY <2>1 DEF RowsKeep
  <2> QED
    BY <1>0, <2>1, <2>2, OthersForm
<1>5. CASE Restart
  <2>1. /\ rows' = rows /\ callers' \in [Publishers -> Caller] /\ Grows(threads')
        /\ \A y \in Publishers :
               \/ callers'[y] = callers[y]
               \/ /\ callers[y].pc # "idle"
                  /\ callers'[y] = [callers[y] EXCEPT !.pc = "done"]
    BY <1>0, <1>5, RestartIs, SameGrows DEF Adds
  <2>2. RowsKeep
    BY <2>1 DEF RowsKeep
  <2> QED
    BY <1>0, <2>1, <2>2, OthersForm
<1> QED
  BY <1>1, <1>2, <1>3, <1>4, <1>5 DEF Beside

LEMMA FormedStep ==
    ASSUME FormedInv, [SuggestionNext]_vars
    PROVE  FormedInv'
<1>1. CASE SuggestionNext
  <2>1. /\ rows' \in [Reviews -> Row] /\ callers' \in [Publishers -> Caller]
        /\ Grows(threads')
        /\ \A n \in Reviews : RowFormed(rows'[n], threads')
        /\ \A y \in Publishers : CallerFormed(callers'[y], rows', threads')
    BY <1>1, StepsAre, StepForms, BesideForms
  <2>2. threads' \in Seq(Thread)
    BY <2>1 DEF Grows
  <2> QED
    BY <1>1, <2>1, <2>2, RestTyped DEF FormedInv, SuggestionTypeOK
<1>2. CASE UNCHANGED vars
  BY <1>2 DEF vars, FormedInv, SuggestionTypeOK
<1> QED
  BY <1>1, <1>2

LEMMA FormedStart == SuggestionInit => FormedInv
<1> SUFFICES ASSUME SuggestionInit PROVE FormedInv
  OBVIOUS
<1>1. NoRow \in Row /\ IdleCaller \in Caller
  BY SuggestionAssumption DEF NoRow, Row, IdleCaller, Caller, Steps
<1>2. /\ rows = [n \in Reviews |-> NoRow] /\ threads = <<>> /\ flying = {}
      /\ callers = [x \in Publishers |-> IdleCaller] /\ onTarget = TRUE
      /\ left = [move |-> MaxMoves, fault |-> MaxFaults, restart |-> MaxRestarts]
  BY DEF SuggestionInit
<1>3. left \in [{"move", "fault", "restart"} -> Nat]
  BY <1>2, SuggestionAssumption
<1>4. SuggestionTypeOK
  BY <1>1, <1>2, <1>3 DEF SuggestionTypeOK
<1>5. \A n \in Reviews : RowFormed(rows[n], threads)
  BY <1>2 DEF RowFormed, NoRow
<1>6. \A x \in Publishers : CallerFormed(callers[x], rows, threads)
  BY <1>2 DEF CallerFormed, IdleCaller, Claimed
<1> QED
  BY <1>4, <1>5, <1>6 DEF FormedInv

LEMMA AlwaysFormed == SuggestionSpec => []FormedInv
<1> QED
  BY FormedStart, FormedStep, PTL DEF SuggestionSpec

\* For any number of publishers, reviews and suggestions: every variable of
\* the delivery of suggestions holds values the columns, calls and GitHub can
\* have.
THEOREM SuggestionTypes == SuggestionSpec => []SuggestionTypeOK
<1>1. FormedInv => SuggestionTypeOK
  BY DEF FormedInv
<1> QED
  BY <1>1, AlwaysFormed, PTL

\* The suggestions of a review are called posted, or its summary tells the
\* reader to apply some, only when GitHub has every one of the first Limit of
\* them; the review id the ledger keeps belongs to a comment of one of them.  It holds of leases that run out, of
\* reruns that meet, of requests that were lost or come late, of restarts.
THEOREM SuggestionsOfferedAreThere == SuggestionSpec => []OfferedSuggestionsAreThere
<1>1. FormedInv => OfferedSuggestionsAreThere
  <2> SUFFICES ASSUME FormedInv, NEW n \in Reviews
               PROVE  /\ rows[n].help \/ rows[n].status = "posted" =>
                             ToPost(rows[n]) # {} /\ ToPost(rows[n]) \subseteq OnGitHub
                      /\ rows[n].status = "posted" =>
                             \E i \in DOMAIN threads :
                                threads[i].id = rows[n].id /\ threads[i].key \in rows[n].keys
    BY DEF OfferedSuggestionsAreThere
  <2>1. RowFormed(rows[n], threads)
    BY DEF FormedInv
  <2> QED
    BY <2>1, ToPostIs DEF RowFormed, AllIn, IdIn, KeysIn, OnGitHub
<1> QED
  BY <1>1, AlwaysFormed, PTL

-----------------------------------------------------------------------------
(* The lease.                                                                *)

\* What a step of x does to the lease of one review.
LEMMA LeaseOf ==
    ASSUME FormedInv, NEW x \in Publishers, NEW k, NEW row, Does(x, k, row), NEW n \in Reviews
    PROVE  \/ rows'[n].status = rows[n].status /\ rows'[n].by = rows[n].by
              /\ rows'[n].aged = rows[n].aged
           \/ /\ n = k.review /\ rows'[n] = row
              /\ LeaseMoves(x, k, rows[n], row)
              /\ callers[x].pc \notin {"idle", "done"} => n = callers[x].review
<1>1. rows \in [Reviews -> Row]
  BY DEF FormedInv, SuggestionTypeOK
<1> QED
  BY <1>1 DEF Does

LEMMA ClaimRespected ==
    ASSUME FormedInv, [SuggestionNext]_vars, NEW n \in Reviews,
           rows[n].status = "posting", ~rows[n].aged,
           rows'[n].status # "posting" \/ rows'[n].by # rows[n].by
    PROVE  \/ callers'[rows[n].by] # callers[rows[n].by]
           \/ ~rows[n].ended /\ rows'[n].ended /\ rows'[n].status = "publish_failed"
<1>0. callers \in [Publishers -> Caller] /\ rows \in [Reviews -> Row]
  BY DEF FormedInv, SuggestionTypeOK
<1>1. CASE \E x \in Publishers : StepOf(x)
  <2> PICK x \in Publishers : StepOf(x)
    BY <1>1
  <2> PICK k, row : Does(x, k, row)
    BY DEF StepOf
  <2>1. /\ n = k.review /\ rows'[n] = row /\ LeaseMoves(x, k, rows[n], row)
        /\ callers[x].pc \notin {"idle", "done"} => n = callers[x].review
        /\ callers' = [callers EXCEPT ![x] = k]
    BY LeaseOf DEF Does
  <2>2. /\ Holds(x) /\ k.pc = "relook" /\ callers[x].pc \in {"check", "mark", "fail"}
    <3>1. ~Claimable(rows[n])
      BY DEF Claimable
    <3>2. ~(Holds(x) /\ row.status = "posting" /\ row.by = x /\ callers[x].pc = "renew")
      BY <2>1 DEF Holds, RowOf
    <3> QED
      BY <2>1, <3>1, <3>2 DEF LeaseMoves
  <2>3. rows[n].by = x
    BY <2>1, <2>2 DEF Holds, RowOf
  <2>4. callers'[x] = k
    BY <1>0, <2>1
  <2> QED
    BY <2>2, <2>3, <2>4
<1>2. CASE \E m \in Reviews, keys \in Offers : Prepare(m, keys)
  <2> PICK m \in Reviews, keys \in Offers : Prepare(m, keys)
    BY <1>2
  <2>1. rows[m].status = "none" /\ \A j \in Reviews \ {m} : rows'[j] = rows[j]
    BY PrepareIs
  <2> QED
    BY <2>1
<1>3. CASE \E m \in Reviews : LeaseAges(m) \/ Reap(m)
  BY <1>3, AgeIs
<1>4. CASE rows' = rows
  BY <1>4
<1>5. CASE Beside
  <2>1. Move \/ Restart \/ (\E keys \in SUBSET Keys : Land(keys)) => rows' = rows
    BY DEF Move, Land, Restart
  <2> QED
    BY <1>2, <1>3, <1>4, <1>5, <2>1 DEF Beside
<1>6. CASE UNCHANGED vars
  BY <1>4, <1>6 DEF vars
<1> QED
  BY <1>1, <1>5, <1>6, StepsAre

\* A claim within its 30 minutes ends, or changes hands, only by a step of
\* the publisher that has it, or when the clean-up ends its run: no publisher
\* takes it over, and none that lost its own, or finds the pull request moved,
\* puts an end to it.
THEOREM LiveClaimsAreRespected == SuggestionSpec => LiveClaimIsRespected
<1>1. ASSUME FormedInv, [SuggestionNext]_vars
      PROVE  [\A n \in Reviews :
                 /\ rows[n].status = "posting" /\ ~rows[n].aged
                 /\ rows'[n].status # "posting" \/ rows'[n].by # rows[n].by
                 => \/ callers'[rows[n].by] # callers[rows[n].by]
                    \/ /\ ~rows[n].ended /\ rows'[n].ended
                       /\ rows'[n].status = "publish_failed"]_vars
  BY <1>1, ClaimRespected
<1> QED
  BY <1>1, AlwaysFormed, PTL DEF SuggestionSpec, LiveClaimIsRespected

LEMMA HolderStep ==
    ASSUME FormedInv, HolderInv, [SuggestionNext]_vars
    PROVE  HolderInv'
<1>a. callers \in [Publishers -> Caller] /\ rows \in [Reviews -> Row]
  BY DEF FormedInv, SuggestionTypeOK
<1>b. /\ \A n \in Reviews : rows[n].review = "posted" => rows[n].ended
      /\ \A y, z \in Publishers :
             /\ Beyond(y) /\ Beyond(z) /\ callers[y].review = callers[z].review
             /\ ~rows[callers[y].review].ended
             => y = z /\ rows[callers[y].review].review = "posting"
      /\ \A y \in Publishers : Beyond(y) => /\ callers[y].review \in Reviews
                                            /\ rows[callers[y].review].review # "none"
  BY Entered DEF HolderInv, Beyond, RowOf
<1> SUFFICES /\ \A n \in Reviews : rows'[n].review = "posted" => rows'[n].ended
             /\ \A y, z \in Publishers :
                    /\ Beyond(y)' /\ Beyond(z)' /\ callers'[y].review = callers'[z].review
                    /\ ~rows'[callers'[y].review].ended
                    => y = z /\ rows'[callers'[y].review].review = "posting"
  BY DEF HolderInv, RowOf
<1>1. ASSUME \A n \in Reviews :
                /\ rows[n].ended => rows'[n].ended
                /\ \/ rows'[n].ended \/ rows'[n].review = rows[n].review
                   \/ rows[n].review = "none" /\ rows'[n].review = "generated",
             \A y \in Publishers : Beyond(y)' =>
                Beyond(y) /\ callers'[y].review = callers[y].review
      PROVE  /\ \A n \in Reviews : rows'[n].review = "posted" => rows'[n].ended
             /\ \A y, z \in Publishers :
                    /\ Beyond(y)' /\ Beyond(z)' /\ callers'[y].review = callers'[z].review
                    /\ ~rows'[callers'[y].review].ended
                    => y = z /\ rows'[callers'[y].review].review = "posting"
  BY <1>1, <1>b
<1>2. CASE \E x \in Publishers : StepOf(x)
  <2> PICK x \in Publishers : StepOf(x)
    BY <1>2
  <2> PICK k, row : Does(x, k, row)
    BY DEF StepOf
  <2> DEFINE n == k.review
  <2>1. /\ n \in Reviews /\ callers'[x] = k /\ rows'[n] = row
        /\ \A y \in Publishers \ {x} : callers'[y] = callers[y]
        /\ \A m \in Reviews \ {n} : rows'[m] = rows[m]
        /\ rows[n].ended => row.ended
        /\ callers[x].pc \notin {"idle", "done"} => n = callers[x].review
        /\ callers[x].pc # "done" /\ ReviewMoves(x, k, rows[n], row)
    BY <1>a DEF Does
  <2> HIDE DEF n
  <2>2. \A m \in Reviews : rows'[m].review = "posted" => rows'[m].ended
    BY <1>b, <2>1 DEF ReviewMoves
  <2>3. ASSUME NEW y \in Publishers, NEW z \in Publishers, Beyond(y)', Beyond(z)',
               callers'[y].review = callers'[z].review,
               ~rows'[callers'[y].review].ended
        PROVE  y = z /\ rows'[callers'[y].review].review = "posting"
    <3>1. CASE callers'[y].review # n
      <4>1. callers'[x].review = n
        BY <2>1 DEF n
      <4>2. y # x /\ z # x /\ callers'[y] = callers[y] /\ callers'[z] = callers[z]
        BY <2>1, <2>3, <3>1, <4>1
      <4>3. Beyond(y) /\ Beyond(z)
        BY <2>3, <4>2 DEF Beyond
      <4>4. rows'[callers[y].review] = rows[callers[y].review]
        BY <1>b, <2>1, <3>1, <4>2, <4>3
      <4> QED
        BY <1>b, <2>3, <4>2, <4>3, <4>4
    <3>2. CASE callers'[y].review = n
      <4>1. ~row.ended /\ ~rows[n].ended
        BY <2>1, <2>3, <3>2
      <4>2. \A w \in Publishers \ {x} : Beyond(w)' => Beyond(w)
        BY <2>1 DEF Beyond
      <4>3. CASE /\ row.review = rows[n].review
                 /\ k.pc \in {"enter", "done"} \/ callers[x].pc \notin {"idle", "enter"}
        <5>1. /\ Beyond(y) /\ Beyond(z) /\ callers'[y].review = callers[y].review
              /\ callers'[z].review = callers[z].review
          BY <2>1, <2>3, <4>2, <4>3 DEF Beyond, n
        <5>2. callers[y].review = n /\ callers[z].review = n
          BY <2>3, <3>2, <5>1
        <5>3. y = z /\ rows[n].review = "posting"
          BY <1>b, <4>1, <5>1, <5>2
        <5> QED
          BY <2>1, <3>2, <4>3, <5>3
      <4>4. CASE /\ callers[x].pc = "enter" /\ row.review = "posting"
                 /\ rows[n].review \in {"generated", "publish_failed"}
        <5>1. ASSUME NEW w \in Publishers, Beyond(w), callers[w].review = n PROVE FALSE
          BY <1>b, <4>1, <4>4, <5>1
        <5>2. y = x /\ z = x
          BY <2>1, <2>3, <3>2, <4>2, <5>1
        <5> QED
          BY <2>1, <3>2, <4>4, <5>2
      <4> QED
        BY <1>b, <2>1, <4>1, <4>3, <4>4 DEF ReviewMoves
    <3> QED
      BY <3>1, <3>2
  <2> QED
    BY <2>2, <2>3
<1>3. CASE Beside
  <2>1. CASE \E n \in Reviews, keys \in Offers : Prepare(n, keys)
    <3> PICK n \in Reviews, keys \in Offers : Prepare(n, keys)
      BY <2>1
    <3>1. /\ callers' = callers /\ rows[n].review = "none" /\ rows'[n].review = "generated"
          /\ \A m \in Reviews \ {n} : rows'[m] = rows[m]
          /\ rows'[n].ended = rows[n].ended
      BY PrepareIs
    <3> QED
      BY <1>1, <3>1 DEF Beyond
  <2>2. CASE \E n \in Reviews : LeaseAges(n) \/ Reap(n)
    <3> PICK n \in Reviews : LeaseAges(n) \/ Reap(n)
      BY <2>2
    <3>1. /\ callers' = callers
          /\ \A m \in Reviews : /\ rows[m].ended => rows'[m].ended
                                /\ rows'[m].ended \/ rows'[m].review = rows[m].review
      BY AgeIs
    <3> QED
      BY <1>1, <3>1 DEF Beyond
  <2>3. CASE Move \/ \E keys \in SUBSET Keys : Land(keys)
    BY <1>1, <2>3 DEF Move, Land, Beyond
  <2>4. CASE Restart
    <3>1. rows' = rows /\ \A y \in Publishers : callers'[y].pc \in {"idle", "done"}
      BY <2>4, RestartIs
    <3> QED
      BY <1>b, <3>1 DEF Beyond
  <2> QED
    BY <1>3, <2>1, <2>2, <2>3, <2>4 DEF Beside
<1>4. CASE UNCHANGED vars
  BY <1>1, <1>4 DEF vars, Beyond
<1> QED
  BY <1>2, <1>3, <1>4, StepsAre

LEMMA LeaseStep ==
    ASSUME FormedInv, HolderInv, LeaseInv, [SuggestionNext]_vars
    PROVE  LeaseInv'
<1>a. callers \in [Publishers -> Caller] /\ rows \in [Reviews -> Row]
  BY DEF FormedInv, SuggestionTypeOK
<1> DEFINE Leased(y) == LET r == rows[callers[y].review] IN
                        r.status = "posting" /\ r.by = y /\ ~r.aged
<1>0. \A x \in Publishers : callers[x].pc \in {"create", "reconcile"} =>
             /\ callers[x].review \in Reviews /\ RowOf(x) = rows[callers[x].review]
             /\ Leased(x) \/ Cut(x)
             /\ RowOf(x).review # "none"
  BY Entered DEF LeaseInv, Holds, RowOf
<1> SUFFICES ASSUME NEW x \in Publishers, callers'[x].pc \in {"create", "reconcile"}
             PROVE  (LET r == rows'[callers'[x].review] IN
                     r.status = "posting" /\ r.by = x /\ ~r.aged) \/ Cut(x)'
  BY DEF LeaseInv, Holds, RowOf
<1> DEFINE n == callers[x].review
<1>1. ASSUME callers'[x].review = n, callers[x].pc \in {"create", "reconcile"}, Leased(x),
             rows'[n].status = rows[n].status, rows'[n].by = rows[n].by,
             rows'[n].aged = rows[n].aged
      PROVE  LET r == rows'[callers'[x].review] IN
             r.status = "posting" /\ r.by = x /\ ~r.aged
  BY <1>1
\* What the clean-up took is not taken over.
<1>2. ASSUME callers'[x].review = n, callers[x].pc \in {"create", "reconcile"}, Cut(x),
             rows[n].ended => rows'[n].ended,
             \A y \in Publishers \ {x} :
                callers'[y].review = n /\ callers'[y].pc \notin {"idle", "done"} =>
                    callers[y].review = n /\ callers[y].pc \notin {"idle", "done"}
      PROVE  Cut(x)'
  BY <1>2 DEF Cut, RowOf
<1>3. ASSUME rows' = rows, callers' = callers
      PROVE  (LET r == rows'[callers'[x].review] IN
              r.status = "posting" /\ r.by = x /\ ~r.aged) \/ Cut(x)'
  BY <1>0, <1>1, <1>2, <1>3
<1>4. CASE \E y \in Publishers : StepOf(y)
  <2> PICK y \in Publishers : StepOf(y)
    BY <1>4
  <2> PICK k, row : Does(y, k, row)
    BY DEF StepOf
  <2>1. /\ callers' = [callers EXCEPT ![y] = k]
        /\ k.review \in Reviews
        /\ rows' = [rows EXCEPT ![k.review] = row]
        /\ LeaseMoves(y, k, rows[k.review], row)
        /\ rows[k.review].ended => row.ended
        /\ \/ callers[y].pc = "idle" /\ ~rows[k.review].ended
           \/ callers[y].pc \notin {"idle", "done"} /\ k.review = callers[y].review
    BY DEF Does
  <2>2. CASE y = x
    <3>1. callers'[x] = k /\ rows'[k.review] = row
          /\ \A z \in Publishers \ {x} : callers'[z] = callers[z]
      BY <1>a, <2>1, <2>2
    <3>0. LeaseMoves(x, k, rows[k.review], row)
      BY <2>1, <2>2
    <3>2. CASE k.pc = "create"
      <4>1. row.status = "posting" /\ row.by = x /\ ~row.aged
        BY <3>0, <3>2 DEF LeaseMoves
      <4> QED
        BY <3>1, <4>1
    <3>3. CASE k.pc = "reconcile"
      <4>1. callers[x].pc = "create" /\ row.status = rows[k.review].status
            /\ row.by = rows[k.review].by /\ row.aged = rows[k.review].aged
        BY <3>0, <3>3 DEF LeaseMoves
      <4>2. k.review = n
        BY <2>1, <2>2, <4>1
      <4>3. CASE Leased(x)
        BY <1>1, <3>1, <4>1, <4>2, <4>3
      <4>4. CASE Cut(x)
        BY <1>2, <2>1, <3>1, <4>1, <4>2, <4>4
      <4> QED
        BY <1>0, <4>1, <4>3, <4>4
    <3> QED
      BY <3>1, <3>2, <3>3
  <2>3. CASE y # x
    <3>1. callers'[x] = callers[x] /\ callers'[y] = k
          /\ \A z \in Publishers \ {x, y} : callers'[z] = callers[z]
      BY <1>a, <2>1, <2>3
    <3>2. n \in Reviews /\ (Leased(x) \/ Cut(x)) /\ callers[x].pc \in {"create", "reconcile"}
      BY <1>0, <3>1
    <3>3. CASE Leased(x)
      <4>1. \/ rows'[n].status = rows[n].status /\ rows'[n].by = rows[n].by
               /\ rows'[n].aged = rows[n].aged
            \/ /\ n = k.review /\ rows'[n] = row
               /\ LeaseMoves(y, k, rows[n], row)
               /\ callers[y].pc \notin {"idle", "done"} => n = callers[y].review
        BY <3>2, LeaseOf
      <4>2. ~Claimable(rows[n])
        BY <3>3 DEF Claimable
      <4>3. n = callers[y].review => ~Holds(y)
        BY <2>3, <3>3 DEF Holds, RowOf
      <4>4. \/ rows'[n].status = rows[n].status /\ rows'[n].by = rows[n].by
               /\ rows'[n].aged = rows[n].aged
        <5>1. rows[n].status = "posting"
          BY <3>3
        <5> HIDE DEF n
        <5> QED
          BY <4>1, <4>2, <4>3, <5>1 DEF LeaseMoves
      <4> QED
        BY <1>1, <3>1, <3>2, <3>3, <4>4
    <3>4. CASE Cut(x)
      <4>1. /\ rows[n].ended
            /\ callers[y].review = n => callers[y].pc \in {"idle", "done"}
        BY <2>3, <3>4 DEF Cut, RowOf
      <4>2. k.review # n
        BY <2>1, <4>1
      <4>3. rows'[n] = rows[n]
        BY <1>a, <2>1, <3>2, <4>2
      <4> QED
        BY <1>2, <3>1, <3>2, <3>4, <4>2, <4>3
    <3> QED
      BY <3>2, <3>3, <3>4
  <2> QED
    BY <2>2, <2>3
<1>5. CASE Beside
  <2>1. CASE \E m \in Reviews, keys \in Offers : Prepare(m, keys)
    <3> PICK m \in Reviews, keys \in Offers : Prepare(m, keys)
      BY <2>1
    <3>1. /\ callers' = callers /\ rows[m].review = "none"
          /\ \A j \in Reviews \ {m} : rows'[j] = rows[j]
      BY PrepareIs
    <3>2. rows'[n] = rows[n] /\ callers[x].pc \in {"create", "reconcile"}
      BY <1>0, <3>1
    <3> QED
      BY <1>0, <1>1, <1>2, <3>1, <3>2
  <2>2. CASE \E m \in Reviews : LeaseAges(m) \/ Reap(m)
    <3> PICK m \in Reviews : LeaseAges(m) \/ Reap(m)
      BY <2>2
    <3>1. /\ callers' = callers /\ n \in Reviews /\ callers[x].pc \in {"create", "reconcile"}
          /\ Leased(x) \/ Cut(x)
      BY <1>0, AgeIs
    <3>2. /\ rows'[n].by = rows[n].by
          /\ rows[n].ended => rows'[n].ended
          /\ \/ rows'[n].status = rows[n].status
             \/ /\ ~rows[n].ended /\ rows'[n].ended
                /\ \A y \in Publishers : callers[y].review = n => callers[y].pc # "enter"
          /\ \/ rows'[n].aged = rows[n].aged
             \/ /\ n = m
                /\ rows[m].by \in Publishers =>
                       callers[rows[m].by].pc \notin {"create", "reconcile"}
      BY <3>1, AgeIs
    <3>3. CASE Cut(x)
      BY <1>2, <3>1, <3>2, <3>3
    <3>4. CASE Leased(x) /\ rows'[n].status = rows[n].status
      <4>1. rows[n].by = x
        BY <3>4
      <4>2. rows'[n].aged = rows[n].aged
        BY <3>1, <3>2, <4>1
      <4> QED
        BY <1>1, <3>1, <3>2, <3>4, <4>2
    <3>5. CASE Leased(x) /\ rows'[n].status # rows[n].status
      <4>1. /\ ~rows[n].ended /\ rows'[n].ended
            /\ \A y \in Publishers : callers[y].review = n => callers[y].pc # "enter"
        BY <3>2, <3>5
      <4>2. Beyond(x) /\ \A y \in Publishers : Beyond(y) /\ callers[y].review = n => y = x
        BY <3>1, <4>1 DEF HolderInv, Beyond, RowOf
      <4>3. \A y \in Publishers \ {x} : callers[y].review = n => callers[y].pc \in {"idle", "done"}
        BY <4>1, <4>2 DEF Beyond
      <4> QED
        BY <3>1, <4>1, <4>3 DEF Cut, RowOf
    <3> QED
      BY <3>1, <3>3, <3>4, <3>5
  <2>3. CASE Move \/ \E keys \in SUBSET Keys : Land(keys)
    BY <1>3, <2>3 DEF Move, Land
  <2>4. CASE Restart
    <3>1. callers'[x].pc \in {"idle", "done"}
      BY <2>4, RestartIs
    <3> QED
      BY <3>1
  <2> QED
    BY <1>5, <2>1, <2>2, <2>3, <2>4 DEF Beside
<1>6. CASE UNCHANGED vars
  BY <1>3, <1>6 DEF vars
<1> QED
  BY <1>4, <1>5, <1>6, StepsAre

-----------------------------------------------------------------------------
(* One suggestion for a finding, when no rerun meets a publisher.            *)

LEMMA NewestStep ==
    ASSUME FormedInv, NewestInv, ~Overlapping, [SuggestionNext]_vars
    PROVE  NewestInv'
<1>a. callers \in [Publishers -> Caller] /\ rows \in [Reviews -> Row]
  BY DEF FormedInv, SuggestionTypeOK
<1>b. Reviews \subseteq Nat
  BY DEF Reviews
<1>0. /\ \A n \in Reviews : rows[n].ended => rows[n].review # "none"
      /\ \A x \in Working : x \in Publishers /\ callers[x].review \in Reviews
      /\ Working \subseteq Publishers
  <2>1. \A n \in Reviews : rows[n].ended => rows[n].review # "none"
    BY DEF FormedInv, RowFormed
  <2>2. \A x \in Working : x \in Publishers /\ callers[x].review \in Reviews
    BY Entered DEF Working
  <2> QED
    BY <2>1, <2>2
\* No new review, no publisher on another one.
<1>1. ASSUME \A n \in Reviews : /\ rows'[n].review # "none" => rows[n].review # "none"
                                /\ rows[n].ended => rows'[n].ended,
             \A x \in Publishers : callers'[x].pc \notin {"idle", "done"} =>
                \A n \in Reviews : rows[n].review # "none" => n <= callers'[x].review
      PROVE  NewestInv'
  BY <1>1 DEF NewestInv, Working
<1>2. ASSUME callers' = callers \/ \A x \in Publishers : callers'[x].pc \in {"idle", "done"},
             rows' = rows
      PROVE  NewestInv'
  BY <1>1, <1>2 DEF NewestInv, Working
<1>3. CASE \E x \in Publishers : StepOf(x)
  <2> PICK x \in Publishers : StepOf(x)
    BY <1>3
  <2> PICK k, row : Does(x, k, row)
    BY DEF StepOf
  <2>1. /\ callers' = [callers EXCEPT ![x] = k]
        /\ k.review \in Reviews
        /\ rows' = [rows EXCEPT ![k.review] = row]
        /\ \/ callers[x].pc = "idle" /\ ~rows[k.review].ended
           \/ callers[x].pc \notin {"idle", "done"} /\ k.review = callers[x].review
        /\ rows[k.review].review # "none"
        /\ rows[k.review].ended => row.ended
    BY DEF Does
  <2>2. \A n \in Reviews : /\ rows'[n].review # "none" => rows[n].review # "none"
                           /\ rows[n].ended => rows'[n].ended
    BY <1>a, <2>1
  <2>3. ASSUME NEW n \in Reviews, rows[n].review # "none"
        PROVE  n <= k.review
    <3>1. CASE ~rows[k.review].ended
      <4>1. ~(k.review < n)
        BY <2>1, <2>3, <3>1 DEF NewestInv
      <4>2. k.review \in Nat /\ n \in Nat
        BY <1>b, <2>1
      <4> QED
        BY <4>1, <4>2
    <3>2. CASE callers[x].pc \notin {"idle", "done"} /\ k.review = callers[x].review
      BY <2>3, <3>2 DEF NewestInv, Working
    <3> QED
      BY <2>1, <3>1, <3>2
  <2>4. \A y \in Publishers : callers'[y].pc \notin {"idle", "done"} =>
            \A n \in Reviews : rows[n].review # "none" => n <= callers'[y].review
    <3> SUFFICES ASSUME NEW y \in Publishers, callers'[y].pc \notin {"idle", "done"},
                        NEW n \in Reviews, rows[n].review # "none"
                 PROVE  n <= callers'[y].review
      OBVIOUS
    <3>1. CASE y = x
      BY <1>a, <2>1, <2>3, <3>1
    <3>2. CASE y # x
      <4>1. callers'[y] = callers[y]
        BY <1>a, <2>1, <3>2
      <4> QED
        BY <4>1 DEF NewestInv, Working
    <3> QED
      BY <3>1, <3>2
  <2> QED
    BY <1>1, <2>2, <2>4
<1>4. CASE \E n \in Reviews, keys \in Offers : Prepare(n, keys)
  <2> PICK n \in Reviews, keys \in Offers : Prepare(n, keys)
    BY <1>4
  <2>1. /\ callers' = callers /\ rows[n].review = "none"
        /\ \A m \in Reviews \ {n} : rows'[m] = rows[m]
        /\ rows'[n].ended = rows[n].ended
    BY PrepareIs
  <2>2. Working = {} /\ (n > 1 => rows[n - 1].ended)
    BY DEF Prepare
  <2>3. \A x \in Publishers : callers'[x].pc \in {"idle", "done"}
    BY <2>1, <2>2 DEF Working
  <2>4. ASSUME NEW i \in Reviews, NEW j \in Reviews, i < j, rows'[j].review # "none"
        PROVE  rows'[i].ended
    <3>1. rows'[i].ended = rows[i].ended
      BY <2>1
    <3>2. CASE j # n
      BY <2>1, <2>4, <3>1, <3>2 DEF NewestInv
    <3>3. CASE j = n
      <4>1. n > 1 /\ n - 1 \in Reviews /\ (i = n - 1 \/ i < n - 1)
        BY <2>4, <3>3, SuggestionAssumption DEF Reviews
      <4>2. rows[n - 1].ended /\ rows[n - 1].review # "none"
        BY <1>0, <2>2, <4>1
      <4> QED
        BY <3>1, <4>1, <4>2 DEF NewestInv
    <3> QED
      BY <3>2, <3>3
  <2> QED
    BY <2>3, <2>4 DEF NewestInv, Working
<1>5. CASE \E n \in Reviews : LeaseAges(n) \/ Reap(n)
  <2> PICK n \in Reviews : LeaseAges(n) \/ Reap(n)
    BY <1>5
  <2>1. /\ callers' = callers
        /\ \A m \in Reviews : /\ rows'[m].review = "none" <=> rows[m].review = "none"
                              /\ rows[m].ended => rows'[m].ended
    BY AgeIs
  <2> QED
    BY <1>1, <2>1 DEF NewestInv, Working
<1>6. CASE Beside
  <2>1. CASE Move \/ \E keys \in SUBSET Keys : Land(keys)
    BY <1>2, <2>1 DEF Move, Land
  <2>2. CASE Restart
    BY <1>2, <2>2, RestartIs
  <2> QED
    BY <1>4, <1>5, <1>6, <2>1, <2>2 DEF Beside
<1>7. CASE UNCHANGED vars
  BY <1>2, <1>7 DEF vars
<1> QED
  BY <1>3, <1>6, <1>7, StepsAre

\* Two publishers at work are on one review.
LEMMA OneReview ==
    ASSUME FormedInv, NewestInv, NEW x \in Working, NEW y \in Working
    PROVE  callers[x].review = callers[y].review
<1>1. /\ callers[x].review \in Reviews /\ rows[callers[x].review].review # "none"
      /\ callers[y].review \in Reviews /\ rows[callers[y].review].review # "none"
  BY Entered DEF Working
<1>2. callers[x].review <= callers[y].review /\ callers[y].review <= callers[x].review
  BY <1>1 DEF NewestInv
<1> QED
  BY <1>1, <1>2 DEF Reviews

\* A publisher with a request under way is the only one with a claim that
\* counts: the other has lost its own, and has no request under way.
LEMMA OneRequest ==
    ASSUME FormedInv, LeaseInv, NewestInv, NEW x \in Publishers, NEW y \in Publishers, x # y,
           callers[y].pc = "create",
           \/ callers[x].pc \in {"check", "renew"} /\ Holds(x)
           \/ callers[x].pc = "create"
    PROVE  FALSE
<1>1. x \in Working /\ y \in Working /\ callers[x].review = callers[y].review
  <2>1. x \in Working /\ y \in Working
    BY DEF Working
  <2> QED
    BY <2>1, OneReview
<1>2. Holds(y) \/ Cut(y)
  BY DEF LeaseInv
<1>3. Holds(x) \/ Cut(x)
  BY DEF LeaseInv
<1>4. ~Cut(x) /\ ~Cut(y)
  BY <1>1 DEF Cut, Working
<1> QED
  BY <1>1, <1>2, <1>3, <1>4 DEF Holds, RowOf

LEMMA SawStep ==
    ASSUME FormedInv, LeaseInv, NewestInv, SawInv, ~Overlapping, [SuggestionNext]_vars
    PROVE  SawInv'
<1>a. /\ callers \in [Publishers -> Caller] /\ rows \in [Reviews -> Row]
      /\ threads \in Seq(Thread)
  BY DEF FormedInv, SuggestionTypeOK
<1> SUFFICES ASSUME NEW x \in Publishers,
                    \/ /\ callers'[x].pc \in {"check", "renew"}
                       /\ rows'[callers'[x].review].status = "posting"
                       /\ rows'[callers'[x].review].by = x
                    \/ callers'[x].pc = "create",
                    NEW i \in DOMAIN threads', i > callers'[x].listed
             PROVE  threads'[i].late
  BY DEF SawInv, Holds, RowOf
<1> DEFINE Watching == \/ callers[x].pc \in {"check", "renew"} /\ Holds(x)
                       \/ callers[x].pc = "create"
\* A publisher that kept its lease, when nothing new is there or it is late.
<1>1. ASSUME Watching, callers'[x].listed = callers[x].listed,
             \/ threads' = threads
             \/ \E keys : Adds(threads', keys, TRUE)
      PROVE  threads'[i].late
  <2>0. \A m \in DOMAIN threads : m > callers[x].listed => threads[m].late
    BY <1>1 DEF SawInv
  <2>1. CASE threads' = threads
    BY <1>1, <2>0, <2>1
  <2>2. CASE \E keys : Adds(threads', keys, TRUE)
    <3> PICK keys : Adds(threads', keys, TRUE)
      BY <2>2
    <3>1. Grows(threads')
      BY DEF Adds
    <3>2. CASE i \in 1..Len(threads)
      <4>1. threads'[i] = threads[i] /\ i \in DOMAIN threads
        BY <1>a, <3>1, <3>2, GrowsIs
      <4> QED
        BY <1>1, <2>0, <4>1
    <3>3. CASE i \in (Len(threads) + 1)..Len(threads')
      BY <3>3 DEF Adds
    <3> QED
      BY <1>a, <3>1, <3>2, <3>3, GrowsIs
  <2> QED
    BY <1>1, <2>1, <2>2
<1>2. CASE \E y \in Publishers : StepOf(y)
  <2> PICK y \in Publishers : StepOf(y)
    BY <1>2
  <2> PICK k, row : Does(y, k, row)
    BY DEF StepOf
  <2>1. /\ callers' = [callers EXCEPT ![y] = k]
        /\ k.review \in Reviews
        /\ rows' = [rows EXCEPT ![k.review] = row]
        /\ LeaseMoves(y, k, rows[k.review], row)
        /\ callers[y].pc \notin {"idle", "done"} => k.review = callers[y].review
    BY DEF Does
  <2>2. CASE y = x
    <3>1. callers'[x] = k /\ rows'[k.review] = row
      BY <1>a, <2>1, <2>2
    <3>2. /\ LeaseMoves(x, k, rows[k.review], row) /\ k.pc \in {"check", "renew", "create"}
          /\ k.pc \in {"check", "renew"} => row.status = "posting" /\ row.by = x
      BY <2>1, <2>2, <3>1
    <3>3. CASE k.pc = "check" /\ k.listed = Len(threads) /\ threads' = threads
      <4>1. i \in 1..Len(threads) /\ Len(threads) < i /\ Len(threads) \in Nat
        BY <1>a, <3>1, <3>3
      <4> QED
        BY <4>1
    <3>4. CASE k.pc # "check"
      <4>1. /\ callers[x].pc \in {"check", "renew"} /\ k.listed = callers[x].listed
            /\ Holds(x) \/ (k.pc = "renew" /\ row.status = rows[k.review].status
                             /\ row.by = rows[k.review].by)
        BY <3>2, <3>4 DEF LeaseMoves
      <4>2. k.review = callers[x].review
        BY <2>1, <2>2, <4>1
      <4>3. Holds(x)
        BY <3>2, <4>1, <4>2 DEF Holds, RowOf
      <4>4. threads' = threads
        BY <2>2, <4>1 DEF StepOf, Posts
      <4> QED
        BY <1>1, <3>1, <4>1, <4>3, <4>4
    <3> QED
      BY <3>2, <3>3, <3>4 DEF LeaseMoves
  <2>3. CASE y # x
    <3>1. callers'[x] = callers[x]
      BY <1>a, <2>1, <2>3
    <3>2. CASE callers[x].pc = "create"
      <4>1. callers[y].pc # "create"
        BY <2>3, <3>2, OneRequest
      <4>2. threads' = threads
        BY <4>1 DEF StepOf, Posts
      <4> QED
        BY <1>1, <3>1, <3>2, <4>2
    <3>3. CASE callers[x].pc \in {"check", "renew"}
      <4> DEFINE n == callers[x].review
      <4>3. n \in Reviews /\ rows'[n].status = "posting" /\ rows'[n].by = x
        BY <3>1, <3>3, Entered
      <4>4. \/ rows'[n].status = rows[n].status /\ rows'[n].by = rows[n].by
            \/ rows'[n] = row /\ LeaseMoves(y, k, rows[n], row)
        BY <4>3, LeaseOf
      <4>5. rows[n].status = "posting" /\ rows[n].by = x
        BY <2>3, <4>3, <4>4 DEF LeaseMoves
      <4>6. Holds(x)
        BY <4>5 DEF Holds, RowOf
      <4>7. callers[y].pc # "create"
        BY <2>3, <3>3, <4>6, OneRequest
      <4>8. threads' = threads
        BY <4>7 DEF StepOf, Posts
      <4> QED
        BY <1>1, <3>1, <3>3, <4>6, <4>8
    <3> QED
      BY <3>1, <3>2, <3>3
  <2> QED
    BY <2>2, <2>3
<1>3. ASSUME callers' = callers,
             \A n \in Reviews : rows'[n].status = "posting" =>
                rows[n].status = "posting" /\ rows'[n].by = rows[n].by,
             \/ threads' = threads
             \/ \E keys : Adds(threads', keys, TRUE)
      PROVE  threads'[i].late
  <2>1. callers[x].pc \in {"check", "renew", "create"} /\ callers[x].review \in Reviews
    BY <1>3, Entered
  <2>2. Watching
    BY <1>3, <2>1 DEF Holds, RowOf
  <2> QED
    BY <1>1, <1>3, <2>1, <2>2
<1>4. CASE Beside
  <2>1. CASE \E n \in Reviews, keys \in Offers : Prepare(n, keys)
    <3>1. callers' = callers /\ Working = {}
      BY <2>1 DEF Prepare
    <3> QED
      BY <3>1 DEF Working
  <2>2. CASE \E n \in Reviews : LeaseAges(n) \/ Reap(n)
    <3> PICK n \in Reviews : LeaseAges(n) \/ Reap(n)
      BY <2>2
    <3>1. /\ callers' = callers /\ threads' = threads
          /\ \A m \in Reviews : rows'[m].status = "posting" =>
                rows[m].status = "posting" /\ rows'[m].by = rows[m].by
      BY AgeIs
    <3> QED
      BY <1>3, <3>1
  <2>3. CASE Move
    BY <1>3, <2>3 DEF Move
  <2>4. CASE \E keys \in SUBSET Keys : Land(keys)
    BY <1>3, <2>4, LandIs
  <2>5. CASE Restart
    <3>1. callers'[x].pc \in {"idle", "done"}
      BY <2>5, RestartIs
    <3> QED
      BY <3>1
  <2> QED
    BY <1>4, <2>1, <2>2, <2>3, <2>4, <2>5 DEF Beside
<1>5. CASE UNCHANGED vars
  BY <1>3, <1>5 DEF vars
<1> QED
  BY <1>2, <1>4, <1>5, StepsAre

\* What publisher y adds is not there yet, as far as its pages go.
LEMMA AddsNone ==
    ASSUME FormedInv, SawInv, NoneTwiceWithin, NEW T, NEW keys, NEW late \in BOOLEAN,
           Adds(T, keys, late),
           late \/ \E y \in Publishers : callers[y].pc = "create" /\ keys = Missing(y),
           NEW i \in DOMAIN T, NEW j \in DOMAIN T, i < j, T[i].key = T[j].key
    PROVE  T[i].late \/ T[j].late \/ i + Window < j
<1>0. threads \in Seq(Thread) /\ Grows(T)
  BY DEF FormedInv, SuggestionTypeOK, Adds
<1>1. /\ Len(threads) \in Nat /\ DOMAIN threads = 1..Len(threads) /\ DOMAIN T = 1..Len(T)
      /\ \A m \in 1..Len(threads) : T[m] = threads[m]
      /\ \A m \in 1..Len(T) : m \in 1..Len(threads) \/ m \in (Len(threads) + 1)..Len(T)
      /\ Len(T) \in Nat
  BY <1>0, GrowsIs
<1>2. CASE j \in 1..Len(threads)
  <2>1. i \in 1..Len(threads)
    BY <1>1, <1>2
  <2> QED
    BY <1>1, <1>2, <2>1 DEF NoneTwiceWithin
<1>3. CASE j \in (Len(threads) + 1)..Len(T) /\ ~late
  <2>1. i \in 1..Len(threads)
    <3>1. ~(i \in (Len(threads) + 1)..Len(T))
      BY <1>1, <1>3 DEF Adds
    <3> QED
      BY <1>1, <3>1
  <2>2. PICK y \in Publishers : callers[y].pc = "create" /\ keys = Missing(y)
    BY <1>3
  <2>3. T[j].key \in Missing(y) /\ threads[i].key = T[j].key /\ T[i] = threads[i]
    BY <1>1, <1>3, <2>1, <2>2 DEF Adds
  <2>4. callers[y].listed \in Nat /\ callers[y].listed <= Len(threads)
    BY DEF FormedInv, SuggestionTypeOK, Caller, CallerFormed
  <2>5. i \notin Newest(callers[y].listed)
    BY <2>3 DEF Missing, Recovered
  <2>6. CASE i \in 1..callers[y].listed
    <3>1. i + Window <= callers[y].listed
      BY <2>4, <2>5, <2>6, NewestIs
    <3> QED
      BY <1>1, <1>3, <2>1, <2>4, <3>1, SuggestionAssumption
  <2>7. CASE i > callers[y].listed
    <3>1. threads[i].late
      BY <1>1, <2>1, <2>2, <2>7 DEF SawInv
    <3> QED
      BY <2>3, <3>1
  <2> QED
    BY <1>1, <2>1, <2>4, <2>6, <2>7
<1>4. CASE j \in (Len(threads) + 1)..Len(T) /\ late
  BY <1>4 DEF Adds
<1> QED
  BY <1>1, <1>2, <1>3, <1>4

LEMMA NoneTwiceStep ==
    ASSUME FormedInv, SawInv, NoneTwiceWithin, [SuggestionNext]_vars
    PROVE  NoneTwiceWithin'
<1>1. ASSUME NEW keys, NEW late \in BOOLEAN, Adds(threads', keys, late),
             late \/ \E y \in Publishers : callers[y].pc = "create" /\ keys = Missing(y)
      PROVE  NoneTwiceWithin'
  BY <1>1, AddsNone DEF NoneTwiceWithin
<1>2. CASE threads' = threads
  BY <1>2 DEF NoneTwiceWithin
<1>3. CASE \E x \in Publishers : StepOf(x)
  BY <1>1, <1>2, <1>3 DEF StepOf, Posts
<1>4. CASE Beside
  <2>1. CASE \E keys \in SUBSET Keys : Land(keys)
    BY <1>1, <2>1, LandIs
  <2>2. CASE Restart
    BY <1>1, <1>2, <2>2, RestartIs
  <2>3. CASE \/ \E n \in Reviews, keys \in Offers : Prepare(n, keys)
             \/ \E n \in Reviews : LeaseAges(n) \/ Reap(n)
             \/ Move
    BY <1>2, <2>3 DEF Prepare, LeaseAges, Reap, Move
  <2> QED
    BY <1>4, <2>1, <2>2, <2>3 DEF Beside
<1>5. CASE UNCHANGED vars
  BY <1>2, <1>5 DEF vars
<1> QED
  BY <1>3, <1>4, <1>5, StepsAre

\* On GitHub no finding has its suggestion twice, when every comment is within
\* the pages the recovery lists and no review is prepared while a publisher of
\* an earlier one is at work; but for a request that came after its publisher
\* had given it up.  It holds of leases that run out and are taken over, of
\* sessions that share a run, of requests and answers that are lost and of
\* restarts.
THEOREM NoSuggestionComesTwice ==
    ASSUME ~Overlapping
    PROVE  SuggestionSpec => [](Len(threads) <= Window => NoSuggestionTwice)
<1> DEFINE Inv == FormedInv /\ HolderInv /\ LeaseInv /\ NewestInv /\ SawInv /\ NoneTwiceWithin
<1>1. SuggestionInit => Inv
  <2> SUFFICES ASSUME SuggestionInit PROVE Inv
    OBVIOUS
  <2>1. /\ \A n \in Reviews : rows[n].review = "none"
        /\ \A x \in Publishers : callers[x].pc = "idle"
        /\ threads = <<>>
    BY DEF SuggestionInit, NoRow, IdleCaller
  <2>2. HolderInv /\ LeaseInv /\ SawInv
    BY <2>1 DEF HolderInv, Beyond, LeaseInv, SawInv
  <2>3. NewestInv
    BY <2>1 DEF NewestInv, Working
  <2>4. NoneTwiceWithin
    BY <2>1 DEF NoneTwiceWithin
  <2> QED
    BY <2>2, <2>3, <2>4, FormedStart
<1>2. Inv /\ [SuggestionNext]_vars => Inv'
  BY FormedStep, HolderStep, LeaseStep, NewestStep, SawStep, NoneTwiceStep
<1>3. Inv => (Len(threads) <= Window => NoSuggestionTwice)
  <2> SUFFICES ASSUME Inv, Len(threads) <= Window,
                      NEW i \in DOMAIN threads, NEW j \in DOMAIN threads,
                      i < j, threads[i].key = threads[j].key
               PROVE  threads[i].late \/ threads[j].late
    BY DEF NoSuggestionTwice
  <2>1. threads \in Seq(Thread)
    BY DEF FormedInv, SuggestionTypeOK
  <2>2. i \in Nat /\ i <= Len(threads) /\ Len(threads) \in Nat
    BY <2>1
  <2>3. ~(i + Window < j)
    BY <2>1, <2>2, SuggestionAssumption
  <2> QED
    BY <2>3 DEF NoneTwiceWithin
<1> HIDE DEF Inv
<1> QED
  BY <1>1, <1>2, <1>3, PTL DEF SuggestionSpec
=============================================================================

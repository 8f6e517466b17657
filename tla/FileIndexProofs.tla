--------------------------- MODULE FileIndexProofs ---------------------------
(* Theorems of FileIndex, for any calls, paths, heads, sizes and limits.     *)
EXTENDS FileIndex, TLAPS, FiniteSetTheorems, FunctionTheorems, WellFoundedInduction

-----------------------------------------------------------------------------
(* The invariant, in its parts.                                              *)

\* A call of review_begin that is still open.
Opening(k) == k.pc # "idle" /\ k.kind = "begin"

\* What a call remembers fits the step it is at.
CallFormed(k) ==
    /\ k.pc = "idle" => k = Idle
    /\ k.pc = "register" => k.kind = "begin"
    /\ k.pc \in {"fetch", "store"} => k.kind = "diff"
    /\ k.pc \in {"file", "merge", "write"} => k.kind = "file"
    /\ k.kind = "file" => k.path \in Paths
    /\ k.pc # "store" => k.shows = {} /\ k.refuses = {} /\ k.todo = <<>>
    /\ \A i \in DOMAIN k.todo :
          k.todo[i].diff = "complete" => k.todo[i].paths \subseteq PathsOf(k.shows \cup k.refuses)

FormedInv ==
    /\ FileIndexTypeOK /\ \A c \in Calls : CallFormed(calls[c])
    /\ review \in [coverage : {"none", "unknown", "incomplete", "complete"},
                   posted : BOOLEAN]

\* Before review_begin returns nothing is registered, and it is called once.
Unregistered == ~run.indexed /\ \A p \in Paths : ~rows[p].changed

StartInv ==
    /\ run.status = "none" =>
          /\ \A c \in Calls : calls[c].pc = "idle"
          /\ \A p \in Paths : rows[p].diff # "complete"
          /\ review.coverage = "none" /\ Unregistered
    /\ run.status # "none" => run.head <= head
    /\ \A c, d \in Calls : Opening(calls[c]) /\ Opening(calls[d]) => c = d
    /\ (\E c \in Calls : Opening(calls[c])) => Unregistered

\* The changed files of the run's head, as blocks.
OfRun == {run.head} \X Listing[run.head]

Holds(k, B) == BlocksOf(k.items) \subseteq B /\ k.shows \subseteq B /\ k.refuses \subseteq B

\* As long as the head is the run's, so is all that was read.
HeadInv ==
    run.status # "none" /\ head = run.head => \A c \in Calls : Holds(calls[c], OfRun)

RegisteredInv ==
    run.indexed => /\ {p \in Paths : rows[p].changed} = Listing[run.head]
                   /\ run.registered = Cardinality(Listing[run.head])

SeenInv ==
    run.status = "running" /\ head = run.head =>
        \A p \in Paths : rows[p].diff = "complete" => Held(<<run.head, p>>)

ReviewInv ==
    review.coverage = "complete" =>
        \A p \in Listing[run.head] : Held(<<run.head, p>>)

\* The session's way through the rows.
ListInv ==
    /\ listing \in [cursor : Paths \cup {All}, got : Seq(Paths), first : SUBSET Paths,
                    done : BOOLEAN]
    /\ \A i, j \in DOMAIN listing.got : i < j => listing.got[i] < listing.got[j]
    /\ ~listing.done => \A i \in DOMAIN listing.got : listing.got[i] <= listing.cursor
    /\ ~listing.done /\ listing.cursor # All =>
          \A p \in listing.first :
             rows[p].there /\ (p <= listing.cursor => \E i \in DOMAIN listing.got : listing.got[i] = p)
    /\ listing.done => \A p \in listing.first : \E i \in DOMAIN listing.got : listing.got[i] = p

-----------------------------------------------------------------------------
(* A finite set in ascending order.                                          *)

LEMMA PlaceIs ==
    ASSUME NEW S \in SUBSET Nat, IsFiniteSet(S)
    PROVE  /\ Cardinality(S) \in Nat
           /\ \A p \in S : Place(p, S) \in 1..Cardinality(S)
           /\ \A p, q \in S : p < q => Place(p, S) < Place(q, S)
<1> DEFINE upto(p) == {q \in S : q <= p}
<1>1. Cardinality(S) \in Nat
  BY FS_CardinalityType
<1>2. \A p \in S : IsFiniteSet(upto(p)) /\ Cardinality(upto(p)) \in Nat
                   /\ Cardinality(upto(p)) <= Cardinality(S)
  BY FS_Subset, FS_CardinalityType
<1>3. ASSUME NEW p \in S
      PROVE  Cardinality(upto(p)) \in 1..Cardinality(S)
  <2>1. p \in upto(p)
    OBVIOUS
  <2>2. Cardinality(upto(p)) # 0
    BY <1>2, <2>1, FS_EmptySet
  <2> QED
    BY <1>1, <1>2, <2>2
<1>4. ASSUME NEW p \in S, NEW q \in S, p < q
      PROVE  Cardinality(upto(p)) < Cardinality(upto(q))
  <2>0. p \in Nat /\ q \in Nat /\ \A m \in S : m \in Nat
    OBVIOUS
  <2>a. \A m \in upto(p) : m \in upto(q)
    BY <1>4, <2>0
  <2>b. q \in upto(q) /\ q \notin upto(p)
    BY <1>4, <2>0
  <2>1. upto(p) \in SUBSET upto(q) /\ q \in upto(q) /\ q \notin upto(p)
    BY <2>a, <2>b
  <2>2. /\ Cardinality(upto(p)) <= Cardinality(upto(q))
        /\ Cardinality(upto(p)) # Cardinality(upto(q))
    BY <1>2, <2>1, FS_Subset
  <2> QED
    BY <1>2, <2>2
<1> QED
  BY <1>1, <1>3, <1>4 DEF Place

LEMMA AscendingIs ==
    ASSUME NEW S \in SUBSET Nat, IsFiniteSet(S)
    PROVE  /\ Cardinality(S) \in Nat /\ Ascending(S) \in [1..Cardinality(S) -> S]
           /\ \A i, j \in 1..Cardinality(S) : i < j => Ascending(S)[i] < Ascending(S)[j]
           /\ \A p \in S : \E i \in 1..Cardinality(S) : Ascending(S)[i] = p
<1> DEFINE n == Cardinality(S)
           f == [p \in S |-> Place(p, S)]
<1>1. /\ n \in Nat
      /\ \A p \in S : Place(p, S) \in 1..n
      /\ \A p, q \in S : p < q => Place(p, S) < Place(q, S)
  BY PlaceIs
<1>2. f \in [S -> 1..n]
  BY <1>1
<1>3. \A p, q \in S : f[p] = f[q] => p = q
  <2> SUFFICES ASSUME NEW p \in S, NEW q \in S, Place(p, S) = Place(q, S), p # q PROVE FALSE
    OBVIOUS
  <2>1. p < q \/ q < p
    OBVIOUS
  <2> QED
    BY <1>1, <2>1
<1>4. f \in Injection(S, 1..n)
  BY <1>2, <1>3 DEF Injection, IsInjective
<1>5. IsFiniteSet(1..n) /\ Cardinality(1..n) = n
  BY <1>1, FS_Interval
<1>6. f \in Surjection(S, 1..n)
  <2> HIDE DEF f
  <2> QED
    BY <1>4, <1>5, FS_Injection
<1>7. \A i \in 1..n : \E p \in S : Place(p, S) = i
  <2> HIDE DEF f
  <2>1. \A i \in 1..n : \E p \in S : f[p] = i
    BY <1>6, Fun_SurjectionProperties
  <2> QED
    BY <2>1 DEF f
<1>8. \A i \in 1..n : Ascending(S)[i] \in S /\ Place(Ascending(S)[i], S) = i
  BY <1>7 DEF Ascending
<1>9. Ascending(S) \in [1..n -> S]
  BY <1>8 DEF Ascending
<1>10. ASSUME NEW i \in 1..n, NEW j \in 1..n, i < j
       PROVE  Ascending(S)[i] < Ascending(S)[j]
  <2>1. /\ Ascending(S)[i] \in S /\ Place(Ascending(S)[i], S) = i
        /\ Ascending(S)[j] \in S /\ Place(Ascending(S)[j], S) = j
    BY <1>8
  <2> DEFINE p == Ascending(S)[i]
             q == Ascending(S)[j]
  <2> HIDE DEF p, q
  <2>2. p \in S /\ Place(p, S) = i /\ q \in S /\ Place(q, S) = j /\ p \in Nat /\ q \in Nat
    BY <2>1 DEF p, q
  <2>3. ~(q < p) /\ p # q
    BY <1>1, <1>10, <2>2
  <2>4. p < q
    BY <2>2, <2>3
  <2> QED
    BY <2>4 DEF p, q
<1>11. \A p \in S : \E i \in 1..n : Ascending(S)[i] = p
  <2> SUFFICES ASSUME NEW p \in S PROVE Ascending(S)[Place(p, S)] = p
    BY <1>1
  <2> DEFINE q == Ascending(S)[Place(p, S)]
  <2>1. q \in S /\ Place(q, S) = Place(p, S)
    BY <1>1, <1>8
  <2> QED
    BY <1>3, <2>1
<1> QED
  BY <1>1, <1>9, <1>10, <1>11

LEMMA AscendingSeq ==
    ASSUME NEW S \in SUBSET Nat, IsFiniteSet(S)
    PROVE  /\ Ascending(S) \in Seq(S) /\ Len(Ascending(S)) = Cardinality(S)
           /\ Cardinality(S) \in Nat /\ DOMAIN Ascending(S) = 1..Cardinality(S)
<1>1. Cardinality(S) \in Nat /\ Ascending(S) \in [1..Cardinality(S) -> S]
  BY AscendingIs
<1> HIDE DEF Ascending
<1> QED
  BY <1>1

\* Every set of paths is a finite set of numbers.
LEMMA PathSets ==
    ASSUME NEW S \in SUBSET Paths
    PROVE  S \in SUBSET Nat /\ IsFiniteSet(S) /\ Cardinality(S) \in Nat
BY FileIndexAssumption, FS_Subset, FS_CardinalityType

-----------------------------------------------------------------------------
(* Lists of blocks.                                                          *)

\* The blocks of a page are of the head of the moment.
LEMMA BlocksOfPage ==
    ASSUME NEW S \in SUBSET Paths
    PROVE  AsBlocks(S) \in Seq({head} \X S)
<1>1. Ascending(S) \in [1..Cardinality(S) -> S] /\ Cardinality(S) \in Nat
  BY PathSets, AscendingIs
<1> HIDE DEF Ascending
<1>2. AsBlocks(S) \in [1..Cardinality(S) -> {head} \X S]
  BY <1>1 DEF AsBlocks
<1> QED
  BY <1>1, <1>2

LEMMA BlocksIn ==
    ASSUME NEW B, NEW s \in Seq(B)
    PROVE  BlocksOf(s) \subseteq B
BY DEF BlocksOf

LEMMA SeqOfBlocks ==
    ASSUME NEW B, NEW C, NEW s \in Seq(B), BlocksOf(s) \subseteq C
    PROVE  s \in Seq(C)
<1>1. Len(s) \in Nat /\ s \in [1..Len(s) -> C]
  BY DEF BlocksOf
<1> QED
  BY <1>1

LEMMA KeptIn ==
    ASSUME NEW B, NEW s \in Seq(B), NEW places \in SUBSET DOMAIN s
    PROVE  Kept(s, places) \in Seq(B)
<1>1. places \in SUBSET Nat /\ IsFiniteSet(places)
  <2>1. DOMAIN s = 1..Len(s) /\ Len(s) \in Nat
    OBVIOUS
  <2>2. IsFiniteSet(1..Len(s))
    BY <2>1, FS_Interval
  <2> QED
    BY <2>1, <2>2, FS_Subset
<1>2. Ascending(places) \in [1..Cardinality(places) -> places] /\ Cardinality(places) \in Nat
  BY <1>1, AscendingIs
<1> HIDE DEF Ascending
<1>3. Kept(s, places) \in [1..Cardinality(places) -> B]
  BY <1>2 DEF Kept
<1> QED
  BY <1>2, <1>3

LEMMA LargestExists ==
    ASSUME NEW S \in SUBSET Nat, S # {}, NEW n \in Nat, \A m \in S : m <= n
    PROVE  \E k \in S : \A m \in S : m <= k
<1> DEFINE T == {k \in Nat : \A m \in S : m <= k}
           R == OpToRel(<, Nat)
<1>1. T \subseteq Nat /\ T # {}
  OBVIOUS
<1>2. PICK k \in T : \A y \in T : ~(<<y, k>> \in R)
  <2> HIDE DEF T, R
  <2>1. IsWellFoundedOn(R, Nat)
    BY NatLessThanWellFounded DEF R
  <2> QED
    BY <1>1, <2>1, WFMin
<1>3. k \in S
  <2> SUFFICES ASSUME k \notin S PROVE FALSE
    OBVIOUS
  <2>1. PICK l \in S : TRUE
    OBVIOUS
  <2>2. l \in Nat /\ l <= k /\ l # k /\ k \in Nat
    OBVIOUS
  <2>3. k - 1 \in Nat /\ k - 1 < k
    BY <2>2
  <2>4. \A m \in S : m <= k - 1
    <3> TAKE m \in S
    <3>1. m \in Nat /\ m <= k /\ m # k
      OBVIOUS
    <3> QED
      BY <3>1
  <2>5. k - 1 \in T
    BY <2>3, <2>4
  <2>6. <<k - 1, k>> \in R
    BY <2>2, <2>3 DEF OpToRel
  <2> QED
    BY <1>2, <2>5, <2>6
<1> QED
  BY <1>3

LEMMA MaxIs ==
    ASSUME NEW S \in SUBSET Nat, S # {}, NEW n \in Nat, \A m \in S : m <= n
    PROVE  Max(S) \in S /\ \A m \in S : m <= Max(S)
<1>1. \E k \in S : \A m \in S : k >= m
  BY LargestExists
<1> QED
  BY <1>1 DEF Max

LEMMA MinOfTwo ==
    ASSUME NEW a \in Nat, NEW b \in Nat
    PROVE  Min({a, b}) \in {a, b} /\ Min({a, b}) <= a /\ Min({a, b}) <= b
<1>1. \E x \in {a, b} : \A y \in {a, b} : x <= y
  <2>1. CASE a <= b
    BY <2>1
  <2>2. CASE b <= a
    BY <2>2
  <2> QED
    BY <2>1, <2>2
<1> QED
  BY <1>1 DEF Min

LEMMA PrefixIn ==
    ASSUME NEW B, NEW s \in Seq(B), NEW n \in 0..Len(s)
    PROVE  /\ SubSeq(s, 1, n) \in Seq(B) /\ Len(SubSeq(s, 1, n)) = n
           /\ \A i \in 1..n : SubSeq(s, 1, n)[i] = s[i]
OBVIOUS

LEMMA PackedIs ==
    ASSUME NEW B, NEW s \in Seq(B), NEW chars
    PROVE  Packed(s, chars) \in 0..Len(s)
<1> DEFINE S == {0} \cup {n \in 1..Len(s) : Cost(s, n) <= chars}
<1>1. Len(s) \in Nat /\ S \in SUBSET Nat /\ S # {} /\ \A m \in S : m <= Len(s)
  OBVIOUS
<1>2. S \subseteq 0..Len(s)
  OBVIOUS
<1>3. Max(S) \in S
  <2> HIDE DEF S
  <2> QED
    BY <1>1, MaxIs
<1> QED
  BY <1>2, <1>3 DEF Packed

\* What is packed was there to pack.
LEMMA AssembledIn ==
    ASSUME NEW B, NEW s \in Seq(B), NEW path, NEW chars
    PROVE  Assembled(s, path, chars).whole \subseteq B /\ Assembled(s, path, chars).cut \subseteq B
<1> DEFINE found == Kept(s, {i \in DOMAIN s : path \in {All, s[i][2]}})
           one == SubSeq(found, 1, Min({1, Len(found)}))
           taken == IF path = All THEN found ELSE one
           n == Packed(taken, chars)
           whole == BlocksOf(SubSeq(taken, 1, n))
           cut == IF n = 0 THEN BlocksOf(one) ELSE {}
<1>1. found \in Seq(B)
  BY KeptIn
<1> HIDE DEF found
<1>2. Min({1, Len(found)}) \in 0..Len(found)
  BY <1>1, MinOfTwo
<1>3. one \in Seq(B)
  BY <1>1, <1>2, PrefixIn
<1> HIDE DEF one
<1>4. taken \in Seq(B)
  BY <1>1, <1>3
<1> HIDE DEF taken
<1>5. n \in 0..Len(taken)
  BY <1>4, PackedIs
<1> HIDE DEF n
<1>6. SubSeq(taken, 1, n) \in Seq(B)
  BY <1>4, <1>5, PrefixIn
<1>7. whole \subseteq B /\ cut \subseteq B
  BY <1>3, <1>6, BlocksIn
<1>8. Assembled(s, path, chars) = [whole |-> whole, cut |-> cut]
  BY DEF Assembled, found, one, taken, n
<1> HIDE DEF whole, cut
<1> QED
  BY <1>7, <1>8

\* Exposures of blocks, each state with the paths it is of.
Exposure == [paths : SUBSET Paths, diff : {"complete", "truncated", "unavailable"}]

LEMMA ExposuresAre ==
    ASSUME NEW lost \in SUBSET Paths, NEW packed, packed.whole \subseteq Blocks,
           packed.cut \subseteq Blocks
    PROVE  /\ Exposures(lost, packed) \in Seq(Exposure)
           /\ \A i \in DOMAIN Exposures(lost, packed) :
                 Exposures(lost, packed)[i].diff = "complete" =>
                    Exposures(lost, packed)[i].paths = PathsOf(packed.whole)
<1> DEFINE a == Write(lost, "unavailable")
           b == Write(PathsOf(packed.whole), "complete")
           d == Write(PathsOf(packed.cut), "truncated")
           Fits(s) == /\ s \in Seq(Exposure)
                      /\ \A i \in 1..Len(s) : s[i].diff = "complete" =>
                                                 s[i].paths = PathsOf(packed.whole)
<1>1. PathsOf(packed.whole) \in SUBSET Paths /\ PathsOf(packed.cut) \in SUBSET Paths
  BY DEF PathsOf, Blocks
<1>2. ASSUME NEW S \in SUBSET Paths, NEW diff \in {"complete", "truncated", "unavailable"},
             diff = "complete" => S = PathsOf(packed.whole)
      PROVE  Fits(Write(S, diff))
  <2>1. CASE S = {}
    BY <2>1 DEF Write
  <2>2. CASE S # {}
    <3> DEFINE x == [paths |-> S, diff |-> diff]
    <3>1. Write(S, diff) = <<x>> /\ x.diff = diff /\ x.paths = S /\ x \in Exposure
      BY <2>2 DEF Write, Exposure
    <3> HIDE DEF x
    <3>2. <<x>> \in Seq(Exposure) /\ Len(<<x>>) = 1 /\ <<x>>[1] = x
      BY <3>1
    <3>3. \A i \in 1..1 : i = 1
      OBVIOUS
    <3> QED
      BY <1>2, <3>1, <3>2, <3>3
  <2> QED
    BY <2>1, <2>2
<1>3. Fits(a) /\ Fits(b) /\ Fits(d)
  <2> HIDE DEF Fits
  <2> QED
    BY <1>1, <1>2
<1>5. ASSUME NEW s, NEW t, Fits(s), Fits(t)
      PROVE  Fits(s \o t)
  <2>1. /\ s \in Seq(Exposure) /\ t \in Seq(Exposure) /\ Len(s) \in Nat /\ Len(t) \in Nat
        /\ s \o t \in Seq(Exposure) /\ Len(s \o t) = Len(s) + Len(t)
    BY <1>5
  <2>2. ASSUME NEW i \in 1..Len(s \o t), (s \o t)[i].diff = "complete"
        PROVE  (s \o t)[i].paths = PathsOf(packed.whole)
    <3>1. CASE i <= Len(s)
      <4>1. i \in 1..Len(s) /\ (s \o t)[i] = s[i]
        BY <2>1, <2>2, <3>1
      <4> QED
        BY <1>5, <2>2, <4>1
    <3>2. CASE ~(i <= Len(s))
      <4>1. i - Len(s) \in 1..Len(t) /\ (s \o t)[i] = t[i - Len(s)]
        BY <2>1, <2>2, <3>2
      <4> QED
        BY <1>5, <2>2, <4>1
    <3> QED
      BY <3>1, <3>2
  <2> QED
    BY <2>1, <2>2
<1> HIDE DEF a, b, d
<1>6. Fits((a \o b) \o d)
  <2> HIDE DEF Fits
  <2> QED
    BY <1>3, <1>5
<1>7. Exposures(lost, packed) = (a \o b) \o d
  BY DEF Exposures, a, b, d
<1>8. DOMAIN ((a \o b) \o d) = 1..Len((a \o b) \o d)
  BY <1>6
<1> QED
  BY <1>6, <1>7, <1>8

-----------------------------------------------------------------------------
(* A call that goes on by itself.                                            *)

\* Where blocks come from: anywhere, and from the run's head while the pull
\* request is there.
Source(B) == B = Blocks \/ (run.status # "none" /\ head = run.head /\ B = OfRun)

Drawn(k, B) == k.items \in Seq(B) /\ k.shows \subseteq B /\ k.refuses \subseteq B

\* Call c becomes k, which is well formed and holds what it may hold ...
Goes(c, k) ==
    /\ calls' = [calls EXCEPT ![c] = k]
    /\ k \in Call /\ CallFormed(k)
    /\ Opening(k) => Opening(calls[c])
    /\ \A B : Source(B) => Drawn(k, B)

\* ... and no block it held is lost.
Moves(c, k) ==
    /\ Goes(c, k)
    /\ calls[c].shows \subseteq k.shows /\ calls[c].refuses \subseteq k.refuses

LEMMA IdleIs ==
    /\ Idle \in Call /\ CallFormed(Idle) /\ ~Opening(Idle)
    /\ \A B : Drawn(Idle, B)
    /\ Idle.pc = "idle" /\ Idle.shows = {} /\ Idle.refuses = {}
<1>1. (CHOOSE r \in Ranges : TRUE) \in Ranges
  BY FileIndexAssumption
<1> DEFINE r == CHOOSE r \in Ranges : TRUE
<1> HIDE DEF r
<1>2. Idle \in Call
  BY <1>1 DEF Idle, Call, r, All
<1>3. /\ Idle.pc = "idle" /\ Idle.shows = {} /\ Idle.refuses = {} /\ Idle.todo = <<>>
      /\ Idle.items = <<>> /\ Idle.kind = "begin"
  BY DEF Idle
<1> QED
  BY <1>2, <1>3 DEF CallFormed, Opening, Drawn

\* What a call of the state is.
LEMMA CallIs ==
    ASSUME FormedInv, NEW c \in Calls
    PROVE  /\ calls[c] \in Call /\ CallFormed(calls[c]) /\ calls \in [Calls -> Call]
           /\ calls[c].items \in Seq(Blocks)
           /\ calls[c].shows \subseteq Blocks /\ calls[c].refuses \subseteq Blocks
           /\ calls[c].pass \in Nat /\ calls[c].page \in Nat
           /\ calls[c].pass >= 1 /\ calls[c].page >= 1
           /\ calls[c].todo \in Seq(Exposure)
           /\ calls[c].kind \in {"begin", "diff", "file"}
<1>1. calls[c] \in Call /\ CallFormed(calls[c]) /\ calls \in [Calls -> Call]
  BY DEF FormedInv, FileIndexTypeOK
<1> DEFINE k == calls[c]
<1> HIDE DEF k
<1>2. k \in Call
  BY <1>1 DEF k
<1>3. /\ k.items \in Seq(Blocks) /\ k.shows \subseteq Blocks /\ k.refuses \subseteq Blocks
      /\ k.pass \in Nat \ {0} /\ k.page \in Nat \ {0}
      /\ k.kind \in {"begin", "diff", "file"}
  BY <1>2 DEF Call
<1>4. k.todo \in Seq(Exposure)
  BY <1>2 DEF Call, Exposure
<1>5. k.pass >= 1 /\ k.page >= 1
  BY <1>3
<1> QED
  BY <1>1, <1>3, <1>4, <1>5 DEF k

\* A call with other values.
GoneOn(k, pc, items) == [k EXCEPT !.pc = pc, !.items = items]

Stored(k, todo, shows, refuses) ==
    [k EXCEPT !.pc = "store", !.items = <<>>, !.todo = todo, !.shows = shows, !.refuses = refuses]

CallSteps == {"idle", "page", "register", "fetch", "store", "file", "merge", "write"}

Paged(k, pass, page, items) == [k EXCEPT !.pass = pass, !.page = page, !.items = items]

Merged(k, reads) == [k EXCEPT !.pc = "write", !.reads = reads]

LEMMA CallPages ==
    ASSUME NEW k \in Call, NEW pass \in Nat \ {0}, NEW page \in Nat \ {0},
           NEW items \in Seq(Blocks)
    PROVE  LET l == Paged(k, pass, page, items) IN
           /\ l \in Call /\ l.pc = k.pc /\ l.items = items /\ l.kind = k.kind
           /\ l.path = k.path /\ l.shows = k.shows /\ l.refuses = k.refuses
           /\ l.todo = k.todo
BY DEF Call, Paged

LEMMA CallMerges ==
    ASSUME NEW k \in Call, NEW reads, reads \subseteq {"head", "base"} \X Ranges
    PROVE  LET l == Merged(k, reads) IN
           /\ l \in Call /\ l.pc = "write" /\ l.items = k.items /\ l.kind = k.kind
           /\ l.path = k.path /\ l.shows = k.shows /\ l.refuses = k.refuses
           /\ l.todo = k.todo
BY DEF Call, Merged

LEMMA CallGoesOn ==
    ASSUME NEW k \in Call, NEW pc \in CallSteps, NEW items \in Seq(Blocks)
    PROVE  LET l == GoneOn(k, pc, items) IN
           /\ l \in Call /\ l.pc = pc /\ l.items = items /\ l.kind = k.kind
           /\ l.path = k.path /\ l.shows = k.shows /\ l.refuses = k.refuses
           /\ l.todo = k.todo
BY DEF Call, GoneOn, CallSteps

LEMMA CallStores ==
    ASSUME NEW k \in Call, NEW todo \in Seq(Exposure), NEW shows, shows \subseteq Blocks,
           NEW refuses, refuses \subseteq Blocks
    PROVE  LET l == Stored(k, todo, shows, refuses) IN
           /\ l \in Call /\ l.pc = "store" /\ l.items = <<>> /\ l.kind = k.kind
           /\ l.todo = todo /\ l.shows = shows /\ l.refuses = refuses
<1>1. todo \in Seq([paths : SUBSET Paths, diff : {"complete", "truncated", "unavailable"}])
  BY DEF Exposure
<1>2. <<>> \in Seq(Blocks)
  OBVIOUS
<1> QED
  BY <1>1, <1>2 DEF Call, Stored

LEMMA RunIs ==
    ASSUME FormedInv
    PROVE  /\ head \in Heads /\ run \in Run /\ run.head \in Heads
           /\ Listing[head] \in SUBSET Paths /\ Listing[run.head] \in SUBSET Paths
           /\ head \in Nat /\ run.head \in Nat /\ OfRun \subseteq Blocks
           /\ rows \in [Paths -> Row]
           /\ told.shown \subseteq Blocks /\ told.refused \subseteq Blocks
<1>1. /\ head \in Heads /\ run \in Run /\ run.head \in Heads
      /\ rows \in [Paths -> Row]
      /\ told.shown \subseteq Blocks /\ told.refused \subseteq Blocks
  BY DEF FormedInv, FileIndexTypeOK, Run
<1>2. /\ Listing[head] \in SUBSET Paths /\ Listing[run.head] \in SUBSET Paths
      /\ head \in Nat /\ run.head \in Nat
  BY <1>1, FileIndexAssumption
<1>3. OfRun \subseteq Blocks
  BY <1>1, <1>2 DEF OfRun, Blocks
<1> QED
  BY <1>1, <1>2, <1>3

LEMMA AllDrawn ==
    ASSUME FormedInv, HeadInv, NEW B, Source(B)
    PROVE  /\ \A c \in Calls : Drawn(calls[c], B)
           /\ \A S \in SUBSET Listing[head] : AsBlocks(S) \in Seq(B)
           /\ B \subseteq Blocks
<1>0. B \subseteq Blocks
  BY RunIs DEF Source
<1>1. ASSUME NEW c \in Calls
      PROVE  Drawn(calls[c], B)
  <2>1. CASE B = Blocks
    BY <2>1, CallIs DEF Drawn
  <2>2. CASE run.status # "none" /\ head = run.head /\ B = OfRun
    BY <2>2, CallIs, SeqOfBlocks DEF HeadInv, Holds, Drawn
  <2> QED
    BY <2>1, <2>2 DEF Source
<1>2. ASSUME NEW S \in SUBSET Listing[head]
      PROVE  AsBlocks(S) \in Seq(B)
  <2>1. S \in SUBSET Paths /\ head \in Heads
    BY RunIs
  <2>2. AsBlocks(S) \in Seq({head} \X S)
    BY <2>1, BlocksOfPage
  <2>3. {head} \X S \subseteq B
    BY <2>1 DEF Source, Blocks, OfRun
  <2>4. BlocksOf(AsBlocks(S)) \subseteq B
    BY <2>2, <2>3, BlocksIn
  <2> QED
    BY <2>2, <2>4, SeqOfBlocks
<1> QED
  BY <1>0, <1>1, <1>2

LEMMA EndsGoes ==
    ASSUME FormedInv, NEW c \in Calls, Ends(c)
    PROVE  Goes(c, Idle)
BY IdleIs DEF Goes, Ends

LEMMA EndsMoves ==
    ASSUME FormedInv, NEW c \in Calls, calls[c].pc # "store", Ends(c)
    PROVE  Moves(c, Idle)
BY EndsGoes, IdleIs, CallIs DEF Moves, CallFormed

\* A call that goes to another step with other items.
LEMMA StepMoves ==
    ASSUME FormedInv, NEW c \in Calls, calls[c].pc # "store", NEW k \in Call,
           calls[c].pc # "idle", k.pc \notin {"idle", "store"},
           calls' = [calls EXCEPT ![c] = k], k.kind = calls[c].kind, k.path = calls[c].path,
           k.shows = calls[c].shows, k.refuses = calls[c].refuses, k.todo = calls[c].todo,
           k.pc = "register" => k.kind = "begin",
           k.pc = "fetch" => k.kind = "diff",
           k.pc \in {"file", "merge", "write"} => k.kind = "file",
           \A B : Source(B) => k.items \in Seq(B)
    PROVE  Moves(c, k)
<1>1. CallFormed(calls[c])
  BY CallIs
<1>2. /\ calls[c].shows = {} /\ calls[c].refuses = {} /\ calls[c].todo = <<>>
      /\ calls[c].kind = "file" => calls[c].path \in Paths
  BY <1>1 DEF CallFormed
<1>3. DOMAIN k.todo = {}
  BY <1>2
<1>4. CallFormed(k)
  BY <1>2, <1>3 DEF CallFormed
<1> QED
  BY <1>2, <1>4 DEF Moves, Goes, Opening, Drawn

LEMMA FileMoves ==
    ASSUME FormedInv, NEW c \in Calls, calls[c].pc \in {"page", "file"}, calls[c].kind = "file",
           NEW changed, FromFile(c, changed)
    PROVE  \E k : Moves(c, k)
<1> DEFINE k == GoneOn(calls[c], "merge", <<>>)
<1>1. CASE Ends(c)
  BY <1>1, EndsMoves
<1>2. CASE ~Ends(c)
  <2>1. calls' = [calls EXCEPT ![c] = k]
    BY <1>2 DEF FromFile, GoneOn
  <2>2. /\ k \in Call /\ k.pc = "merge" /\ k.kind = calls[c].kind /\ k.path = calls[c].path
        /\ k.shows = calls[c].shows /\ k.refuses = calls[c].refuses
        /\ k.todo = calls[c].todo /\ k.items = <<>>
    <3> DEFINE step == "merge"
               none == <<>>
    <3>1. calls[c] \in Call /\ none \in Seq(Blocks)
      BY CallIs
    <3>2. step \in CallSteps
      BY DEF CallSteps
    <3>3. k = GoneOn(calls[c], step, none)
      OBVIOUS
    <3> HIDE DEF step, none, k
    <3>4. /\ k \in Call /\ k.pc = step /\ k.kind = calls[c].kind /\ k.path = calls[c].path
          /\ k.shows = calls[c].shows /\ k.refuses = calls[c].refuses
          /\ k.todo = calls[c].todo /\ k.items = none
      BY <3>1, <3>2, <3>3, CallGoesOn
    <3> QED
      BY <3>4 DEF step, none
  <2> HIDE DEF k
  <2>3. \A B : k.items \in Seq(B)
    BY <2>2
  <2> QED
    BY <2>1, <2>2, <2>3, StepMoves
<1> QED
  BY <1>1, <1>2

\* A diff packed from blocks: what is stored as complete is what is held.
LEMMA PackMoves ==
    ASSUME FormedInv, NEW c \in Calls, calls[c].pc # "idle", calls[c].kind = "diff",
           NEW blocks, \A B : Source(B) => blocks \in Seq(B),
           NEW lost \in SUBSET Paths, NEW path, NEW chars,
           NEW k, calls' = [calls EXCEPT ![c] = k], k \in Call, k.pc = "store",
           k.kind = "diff", \A B : Source(B) => k.items \in Seq(B),
           k.todo = Exposures(lost, Assembled(blocks, path, chars)),
           LET whole == Assembled(blocks, path, chars).whole IN
           \/ k.shows = whole /\ k.refuses = {}
           \/ k.shows = {} /\ k.refuses = whole,
           calls[c].shows = {}, calls[c].refuses = {}
    PROVE  Moves(c, k)
<1> DEFINE packed == Assembled(blocks, path, chars)
<1>1. \A B : Source(B) => packed.whole \subseteq B /\ packed.cut \subseteq B
  BY AssembledIn
<1>2. packed.whole \subseteq Blocks /\ packed.cut \subseteq Blocks
  BY <1>1 DEF Source
<1> HIDE DEF packed
<1>3. \A i \in DOMAIN k.todo :
         k.todo[i].diff = "complete" => k.todo[i].paths = PathsOf(packed.whole)
  BY <1>2, ExposuresAre DEF packed
<1>4. k.shows \cup k.refuses = packed.whole
  BY DEF packed
<1>5. CallFormed(k)
  BY <1>3, <1>4 DEF CallFormed
<1>6. \A B : Source(B) => Drawn(k, B)
  BY <1>1 DEF packed, Drawn
<1> QED
  BY <1>5, <1>6 DEF Moves, Goes, Opening

LEMMA ListedMoves ==
    ASSUME FormedInv, NEW c \in Calls, calls[c].pc = "page",
           NEW items, \A B : Source(B) => items \in Seq(B), Listed(c, items)
    PROVE  \E k : Moves(c, k)
<1>0. /\ calls[c] \in Call /\ CallFormed(calls[c]) /\ items \in Seq(Blocks)
      /\ calls[c].shows = {} /\ calls[c].refuses = {}
  BY CallIs DEF Source, CallFormed
<1>1. CASE calls[c].kind = "begin"
  <2> DEFINE k == GoneOn(calls[c], "register", items)
  <2>1. calls' = [calls EXCEPT ![c] = k]
    BY <1>1 DEF Listed, GoneOn
  <2>2. /\ k \in Call /\ k.pc = "register" /\ k.kind = calls[c].kind /\ k.path = calls[c].path
        /\ k.shows = calls[c].shows /\ k.refuses = calls[c].refuses
        /\ k.todo = calls[c].todo /\ k.items = items
    <3> DEFINE step == "register"
    <3>1. step \in CallSteps
      BY DEF CallSteps
    <3>2. k = GoneOn(calls[c], step, items)
      OBVIOUS
    <3> HIDE DEF step, k
    <3>3. /\ k \in Call /\ k.pc = step /\ k.kind = calls[c].kind /\ k.path = calls[c].path
          /\ k.shows = calls[c].shows /\ k.refuses = calls[c].refuses
          /\ k.todo = calls[c].todo /\ k.items = items
      BY <1>0, <3>1, <3>2, CallGoesOn
    <3> QED
      BY <3>3 DEF step
  <2> HIDE DEF k
  <2> QED
    BY <1>1, <2>1, <2>2, StepMoves
<1>2. CASE calls[c].kind = "diff"
  <2>0. FromPatches(c, items)
    BY <1>2 DEF Listed
  <2>1. CASE Ends(c)
    BY <2>1, EndsMoves
  <2>2. CASE ~Ends(c)
    <3> DEFINE ask == calls[c]
               lost == PathsOf(BlocksOf(items)) \cap Bare
               blocks == Kept(items, {i \in DOMAIN items : items[i][2] \notin Bare})
               packed == Assembled(blocks, ask.path, ask.chars)
               handoff == ask.path # All /\ lost # {}
               k == Stored(calls[c], Exposures(lost, packed),
                           IF handoff THEN {} ELSE packed.whole,
                           IF handoff THEN packed.whole ELSE {})
    <3>1. calls' = [calls EXCEPT ![c] = k]
      BY <2>0, <2>2 DEF FromPatches, Stored
    <3>2. \A B : Source(B) => blocks \in Seq(B)
      BY KeptIn
    <3>3. lost \in SUBSET Paths
      BY FileIndexAssumption
    <3> HIDE DEF blocks, lost, handoff
    <3>4. packed.whole \subseteq Blocks /\ packed.cut \subseteq Blocks
      BY <3>2, AssembledIn DEF Source
    <3>5. Exposures(lost, packed) \in Seq(Exposure)
      BY <3>3, <3>4, ExposuresAre
    <3> DEFINE todo == Exposures(lost, packed)
               whole == packed.whole
    <3>6. /\ k \in Call /\ k.pc = "store" /\ k.kind = "diff" /\ k.items = <<>>
          /\ k.todo = todo
          /\ k.shows = IF handoff THEN {} ELSE whole
          /\ k.refuses = IF handoff THEN whole ELSE {}
      <4>1. todo \in Seq(Exposure) /\ whole \in SUBSET Blocks
        BY <3>4, <3>5
      <4> DEFINE shows == IF handoff THEN {} ELSE whole
                 refuses == IF handoff THEN whole ELSE {}
      <4> HIDE DEF todo, whole
      <4>2. shows \subseteq Blocks /\ refuses \subseteq Blocks
        BY <4>1
      <4>3. k = Stored(calls[c], todo, shows, refuses)
        BY DEF todo, whole
      <4> HIDE DEF k, shows, refuses
      <4> QED
        BY <1>0, <1>2, <4>1, <4>2, <4>3, CallStores DEF shows, refuses
    <3> HIDE DEF k
    <3>7. calls[c].pc # "idle"
      OBVIOUS
    <3>8. \A B : k.items \in Seq(B)
      BY <3>6
    <3> QED
      BY <1>0, <1>2, <3>1, <3>2, <3>3, <3>6, <3>7, <3>8, PackMoves
  <2> QED
    BY <2>1, <2>2
<1>3. CASE calls[c].kind = "file"
  BY <1>3, FileMoves DEF Listed
<1> QED
  BY <1>1, <1>2, <1>3, CallIs

LEMMA PassMoves ==
    ASSUME FormedInv, HeadInv, NEW c \in Calls, FullPass(c) \/ TerminalPass(c)
    PROVE  \E k : Moves(c, k)
<1>0. /\ calls[c].pc = "page" /\ calls[c] \in Call
      /\ calls[c].pass \in Nat \ {0} /\ calls[c].page \in Nat \ {0}
      /\ calls[c].pass + 1 \in Nat \ {0} /\ calls[c].page + 1 \in Nat \ {0}
      /\ MaxFiles \in Nat
  <2>1. calls[c].pc = "page"
    BY DEF FullPass, TerminalPass, At
  <2>2. MaxFiles \in Nat
    BY FileIndexAssumption
  <2>3. calls[c] \in Call
    BY CallIs
  <2>4. calls[c].pass \in Nat \ {0} /\ calls[c].page \in Nat \ {0}
    BY <2>3 DEF Call
  <2>5. calls[c].pass + 1 \in Nat \ {0} /\ calls[c].page + 1 \in Nat \ {0}
    BY <2>4
  <2> QED
    BY <2>1, <2>2, <2>3, <2>4, <2>5
<1>1. ASSUME NEW pass \in Nat \ {0}, NEW page \in Nat \ {0}, NEW items,
             \A B : Source(B) => items \in Seq(B),
             calls' = [calls EXCEPT ![c] = Paged(calls[c], pass, page, items)]
      PROVE  \E k : Moves(c, k)
  <2> DEFINE k == Paged(calls[c], pass, page, items)
  <2>1. items \in Seq(Blocks)
    BY <1>1 DEF Source
  <2>2. /\ k \in Call /\ k.pc = calls[c].pc /\ k.kind = calls[c].kind /\ k.path = calls[c].path
        /\ k.shows = calls[c].shows /\ k.refuses = calls[c].refuses
        /\ k.todo = calls[c].todo /\ k.items = items
    <3> DEFINE a == calls[c]
    <3>1. a \in Call /\ k = Paged(a, pass, page, items)
      BY <1>0
    <3> HIDE DEF a, k
    <3>2. /\ k \in Call /\ k.pc = a.pc /\ k.kind = a.kind /\ k.path = a.path
          /\ k.shows = a.shows /\ k.refuses = a.refuses
          /\ k.todo = a.todo /\ k.items = items
      BY <2>1, <3>1, CallPages
    <3> QED
      BY <3>2 DEF a
  <2> HIDE DEF k
  <2>3. calls' = [calls EXCEPT ![c] = k]
    BY <1>1 DEF k
  <2> QED
    BY <1>0, <1>1, <2>2, <2>3, StepMoves
<1>2. ASSUME NEW size
      PROVE  \A B : Source(B) =>
                calls[c].items \o AsBlocks(FilesPage(size, calls[c].page)) \in Seq(B)
  <2> SUFFICES ASSUME NEW B, Source(B)
               PROVE  calls[c].items \o AsBlocks(FilesPage(size, calls[c].page)) \in Seq(B)
    OBVIOUS
  <2>1. FilesPage(size, calls[c].page) \in SUBSET Listing[head]
    BY DEF FilesPage
  <2>2. AsBlocks(FilesPage(size, calls[c].page)) \in Seq(B) /\ calls[c].items \in Seq(B)
    BY <2>1, AllDrawn DEF Drawn
  <2> QED
    BY <2>2
<1>3. CASE FullPass(c)
  <2> DEFINE size == PerPage[calls[c].pass]
             page == FilesPage(size, calls[c].page)
             items == calls[c].items \o AsBlocks(page)
             some == SubSeq(items, 1, Min({Len(items), MaxFiles}))
  <2>1. \/ calls' = [calls EXCEPT ![c].pass = @ + 1, ![c].page = 1, ![c].items = <<>>]
        \/ Listed(c, some)
        \/ calls' = [calls EXCEPT ![c].page = @ + 1, ![c].items = items]
    BY <1>3 DEF FullPass
  <2>2. \A B : Source(B) => items \in Seq(B)
    BY <1>2
  <2> HIDE DEF items
  <2>3. ASSUME NEW B, Source(B)
        PROVE  some \in Seq(B)
    <3>1. items \in Seq(B) /\ Len(items) \in Nat
      BY <2>2, <2>3
    <3>2. Min({Len(items), MaxFiles}) \in 0..Len(items)
      BY <1>0, <3>1, MinOfTwo
    <3> QED
      BY <3>1, <3>2, PrefixIn
  <2> HIDE DEF some
  <2>4. CASE calls' = [calls EXCEPT ![c].pass = @ + 1, ![c].page = 1, ![c].items = <<>>]
    <3> DEFINE pass == calls[c].pass + 1
               none == <<>>
    <3>1. calls' = [calls EXCEPT ![c] = Paged(calls[c], pass, 1, none)]
      BY <2>4 DEF Paged
    <3>2. pass \in Nat \ {0} /\ (\A B : none \in Seq(B)) /\ 1 \in Nat \ {0}
      BY <1>0
    <3> HIDE DEF pass, none
    <3> QED
      BY <1>1, <3>1, <3>2
  <2>5. CASE calls' = [calls EXCEPT ![c].page = @ + 1, ![c].items = items]
    <3> DEFINE next == calls[c].page + 1
               pass == calls[c].pass
    <3>1. calls' = [calls EXCEPT ![c] = Paged(calls[c], pass, next, items)]
      <4>1. [calls[c] EXCEPT !.page = next, !.items = items] = Paged(calls[c], pass, next, items)
        BY <1>0 DEF Paged, Call
      <4> QED
        BY <2>5, <4>1
    <3>2. pass \in Nat \ {0} /\ next \in Nat \ {0}
      BY <1>0
    <3> HIDE DEF pass, next
    <3> QED
      BY <1>1, <2>2, <3>1, <3>2
  <2>6. CASE Listed(c, some)
    BY <1>0, <2>3, <2>6, ListedMoves
  <2> QED
    BY <2>1, <2>4, <2>5, <2>6
<1>4. CASE TerminalPass(c)
  <2> DEFINE page == FilesPage(1, calls[c].page)
             fits == Bytes(page) <= PageBytes
             items == IF fits THEN calls[c].items \o AsBlocks(page) ELSE calls[c].items
  <2>1. \/ Listed(c, items)
        \/ calls' = [calls EXCEPT ![c].page = @ + 1, ![c].items = items]
    BY <1>4 DEF TerminalPass
  <2>2. \A B : Source(B) => items \in Seq(B)
    BY <1>2, AllDrawn DEF Drawn
  <2> HIDE DEF items
  <2>3. CASE calls' = [calls EXCEPT ![c].page = @ + 1, ![c].items = items]
    <3> DEFINE next == calls[c].page + 1
               pass == calls[c].pass
    <3>1. calls' = [calls EXCEPT ![c] = Paged(calls[c], pass, next, items)]
      <4>1. [calls[c] EXCEPT !.page = next, !.items = items] = Paged(calls[c], pass, next, items)
        BY <1>0 DEF Paged, Call
      <4> QED
        BY <2>3, <4>1
    <3>2. pass \in Nat \ {0} /\ next \in Nat \ {0}
      BY <1>0
    <3> HIDE DEF pass, next
    <3> QED
      BY <1>1, <2>2, <3>1, <3>2
  <2>4. CASE Listed(c, items)
    BY <1>0, <2>2, <2>4, ListedMoves
  <2> QED
    BY <2>1, <2>3, <2>4
<1> QED
  BY <1>3, <1>4

\* Another step of a call whose items stay.
LEMMA ToPage ==
    ASSUME FormedInv, HeadInv, NEW c \in Calls, calls[c].pc \in {"fetch", "file"},
           calls' = [calls EXCEPT ![c].pc = "page"]
    PROVE  \E k : Moves(c, k)
<1> DEFINE step == "page"
           items == calls[c].items
           k == GoneOn(calls[c], step, items)
<1>1. calls[c] \in Call /\ items \in Seq(Blocks) /\ step \in CallSteps
  BY CallIs DEF CallSteps
<1>2. calls' = [calls EXCEPT ![c] = k]
  <2>1. [calls[c] EXCEPT !.pc = "page"] = k
    BY <1>1 DEF GoneOn, Call
  <2> QED
    BY <2>1
<1> HIDE DEF step, items
<1>3. /\ k \in Call /\ k.pc = step /\ k.kind = calls[c].kind /\ k.path = calls[c].path
      /\ k.shows = calls[c].shows /\ k.refuses = calls[c].refuses
      /\ k.todo = calls[c].todo /\ k.items = items
  BY <1>1, CallGoesOn
<1>4. \A B : Source(B) => k.items \in Seq(B)
  BY <1>3, AllDrawn DEF Drawn, items
<1> HIDE DEF k
<1> QED
  BY <1>2, <1>3, <1>4, StepMoves DEF step

LEMMA FetchMoves ==
    ASSUME FormedInv, HeadInv, NEW c \in Calls, FetchDiff(c)
    PROVE  \E k : Moves(c, k)
<1>0. /\ calls[c].pc = "fetch" /\ calls[c].kind = "diff" /\ calls[c] \in Call
      /\ calls[c].shows = {} /\ calls[c].refuses = {} /\ calls[c].items \in Seq(Blocks)
  BY CallIs DEF FetchDiff, At, CallFormed
<1>1. CASE calls' = [calls EXCEPT ![c].pc = "page"]
  BY <1>0, <1>1, ToPage
<1>2. CASE calls' # [calls EXCEPT ![c].pc = "page"]
  <2> DEFINE packed(shown) == Assembled(AsBlocks(shown), calls[c].path, calls[c].chars)
  <2>1. PICK shown \in SUBSET Listing[head] :
           calls' = [calls EXCEPT ![c].pc = "store", ![c].todo = Exposures({}, packed(shown)),
                                  ![c].shows = packed(shown).whole]
    BY <1>2 DEF FetchDiff
  <2> DEFINE path == calls[c].path
             chars == calls[c].chars
             blocks == AsBlocks(shown)
             lost == {}
             whole == Assembled(blocks, path, chars).whole
             todo == Exposures(lost, Assembled(blocks, path, chars))
             k == [calls[c] EXCEPT !.pc = "store", !.todo = todo, !.shows = whole]
  <2>2. \A B : Source(B) => blocks \in Seq(B)
    BY AllDrawn
  <2>3. lost \in SUBSET Paths
    OBVIOUS
  <2>4. calls' = [calls EXCEPT ![c] = k]
    BY <2>1
  <2> HIDE DEF blocks, lost, path, chars
  <2>5. whole \subseteq Blocks /\ Assembled(blocks, path, chars).cut \subseteq Blocks
    BY <2>2, AssembledIn DEF Source
  <2>6. todo \in Seq([paths : SUBSET Paths, diff : {"complete", "truncated", "unavailable"}])
    BY <2>3, <2>5, ExposuresAre DEF Exposure
  <2> HIDE DEF todo, whole
  <2> DEFINE a == calls[c]
  <2>7. a \in Call
    BY <1>0
  <2> HIDE DEF a
  <2>8. LET l == [a EXCEPT !.pc = "store", !.todo = todo, !.shows = whole] IN
        /\ l \in Call /\ l.pc = "store" /\ l.kind = a.kind /\ l.items = a.items
        /\ l.todo = todo /\ l.shows = whole /\ l.refuses = a.refuses
    BY <2>5, <2>6, <2>7 DEF Call
  <2>9. /\ k \in Call /\ k.pc = "store" /\ k.kind = "diff" /\ k.items = calls[c].items
        /\ k.todo = todo /\ k.shows = whole /\ k.refuses = {}
    BY <1>0, <2>8 DEF a
  <2> HIDE DEF k
  <2>10. \A B : Source(B) => k.items \in Seq(B)
    BY <2>9, AllDrawn DEF Drawn
  <2>11. calls[c].pc # "idle" /\ k.todo = Exposures(lost, Assembled(blocks, path, chars))
    BY <1>0, <2>9 DEF todo
  <2>12. k.shows = Assembled(blocks, path, chars).whole
    BY <2>9 DEF whole
  <2> QED
    BY <1>0, <2>2, <2>3, <2>4, <2>9, <2>10, <2>11, <2>12, PackMoves
<1> QED
  BY <1>1, <1>2

LEMMA FileStepMoves ==
    ASSUME FormedInv, HeadInv, NEW c \in Calls, LookupFile(c) \/ MergeRanges(c)
    PROVE  \E k : Moves(c, k)
<1>0. /\ calls[c].pc \in {"file", "merge"} /\ calls[c].kind = "file" /\ calls[c] \in Call
      /\ calls[c].path \in Paths
  BY CallIs DEF LookupFile, MergeRanges, At, CallFormed
<1>1. CASE Ends(c)
  BY <1>0, <1>1, EndsMoves
<1>2. CASE LookupFile(c) /\ ~Ends(c)
  BY <1>0, <1>2, FileMoves, ToPage DEF LookupFile, At
<1>3. CASE MergeRanges(c) /\ ~Ends(c)
  <2> DEFINE before == {r \in rows[calls[c].path].reads : r[1] = calls[c].side}
             reads == before \cup {<<calls[c].side, calls[c].range>>}
             k == Merged(calls[c], reads)
  <2>1. calls' = [calls EXCEPT ![c] = k]
    BY <1>3 DEF MergeRanges, Merged
  <2>2. reads \subseteq {"head", "base"} \X Ranges
    <3>1. rows[calls[c].path] \in Row
      BY <1>0, RunIs
    <3>2. before \subseteq {"head", "base"} \X Ranges
      BY <3>1 DEF Row
    <3>3. calls[c].side \in {"head", "base"} /\ calls[c].range \in Ranges
      BY <1>0 DEF Call
    <3> QED
      BY <3>2, <3>3
  <2> HIDE DEF reads
  <2>3. /\ k \in Call /\ k.pc = "write" /\ k.items = calls[c].items /\ k.kind = calls[c].kind
        /\ k.path = calls[c].path /\ k.shows = calls[c].shows /\ k.refuses = calls[c].refuses
        /\ k.todo = calls[c].todo
    BY <1>0, <2>2, CallMerges
  <2> HIDE DEF k
  <2>4. \A B : Source(B) => k.items \in Seq(B)
    BY <2>3, AllDrawn DEF Drawn
  <2> QED
    BY <1>0, <2>1, <2>3, <2>4, StepMoves
<1> QED
  BY <1>1, <1>2, <1>3

-----------------------------------------------------------------------------
(* The parts of the invariant, step by step.                                 *)

IndexInv ==
    /\ FormedInv /\ StartInv /\ HeadInv /\ RegisteredInv
    /\ SeenInv /\ ReviewInv /\ ListInv

LEMMA OpenRun ==
    ASSUME StartInv, NEW c \in Calls, calls[c].pc # "idle"
    PROVE  run.status # "none"
BY DEF StartInv

LEMMA OpeningsStay ==
    ASSUME FormedInv, NEW c \in Calls, NEW k, Goes(c, k)
    PROVE  /\ calls' \in [Calls -> Call] /\ \A d \in Calls : CallFormed(calls'[d])
           /\ calls'[c] = k /\ \A d \in Calls \ {c} : calls'[d] = calls[d]
           /\ \A d \in Calls : Opening(calls'[d]) => Opening(calls[d])
<1>1. /\ calls \in [Calls -> Call] /\ (\A d \in Calls : CallFormed(calls[d]))
      /\ calls' = [calls EXCEPT ![c] = k]
      /\ k \in Call /\ CallFormed(k) /\ (Opening(k) => Opening(calls[c]))
  BY CallIs DEF Goes, FormedInv
<1>2. calls'[c] = k /\ \A d \in Calls \ {c} : calls'[d] = calls[d]
  BY <1>1
<1>3. calls' \in [Calls -> Call]
  BY <1>1
<1> QED
  BY <1>1, <1>2, <1>3

\* A step of one call keeps the parts that are about the calls.
LEMMA CallStep ==
    ASSUME FormedInv, StartInv, HeadInv, NEW c \in Calls, NEW k, Goes(c, k),
           run.status # "none", head' = head, run'.head = run.head, run'.status # "none",
           (\E d \in Calls : Opening(calls'[d])) => Unregistered'
    PROVE  StartInv' /\ HeadInv'
<1>1. /\ calls'[c] = k /\ (\A d \in Calls \ {c} : calls'[d] = calls[d])
      /\ (\A d \in Calls : Opening(calls'[d]) => Opening(calls[d]))
  BY OpeningsStay
<1>2. StartInv'
  BY <1>1 DEF StartInv
<1>3. ASSUME head' = run'.head, NEW d \in Calls
      PROVE  Holds(calls'[d], OfRun)
  <2>1. head = run.head
    BY <1>3
  <2>2. CASE d # c
    BY <1>1, <2>1, <2>2 DEF HeadInv
  <2>3. CASE d = c
    <3>1. Drawn(k, OfRun)
      BY <2>1 DEF Goes, Source
    <3> QED
      BY <1>1, <2>3, <3>1, BlocksIn DEF Drawn, Holds
  <2> QED
    BY <2>2, <2>3
<1>4. OfRun' = OfRun
  BY DEF OfRun
<1> QED
  BY <1>2, <1>3, <1>4 DEF HeadInv, Holds

LEMMA HeldStays ==
    ASSUME FormedInv, NEW c \in Calls, NEW k, Moves(c, k),
           told.shown \subseteq told'.shown, told.refused \subseteq told'.refused,
           told.late \subseteq told'.late
    PROVE  \A b : Held(b) => Held(b)'
<1>1. calls'[c] = k /\ \A d \in Calls \ {c} : calls'[d] = calls[d]
  BY OpeningsStay DEF Moves
<1> QED
  BY <1>1 DEF Held, Moves

LEMMA ListStays ==
    ASSUME ListInv, listing' = listing,
           \A p \in Paths : rows[p].there => rows'[p].there
    PROVE  ListInv'
<1>1. \A p \in listing.first : p \in Paths
  BY DEF ListInv
<1> QED
  BY <1>1 DEF ListInv

\* A call moves, and everything else stays.
LEMMA CallMoves ==
    ASSUME IndexInv, NEW c \in Calls, NEW k, Moves(c, k), run.status # "none",
           UNCHANGED <<head, run, rows, told, listing, review>>
    PROVE  IndexInv'
<1>1. FormedInv'
  BY OpeningsStay DEF IndexInv, FormedInv, FileIndexTypeOK, Moves
<1>2. (\E d \in Calls : Opening(calls'[d])) => Unregistered'
  BY OpeningsStay DEF IndexInv, StartInv, Unregistered, Moves
<1>3. StartInv' /\ HeadInv'
  BY <1>2, CallStep DEF IndexInv, Moves
<1>4. RegisteredInv'
  BY DEF IndexInv, RegisteredInv
<1>5. SeenInv' /\ ReviewInv'
  <2>1. \A b : Held(b) => Held(b)'
    BY HeldStays DEF IndexInv
  <2> QED
    BY <2>1 DEF IndexInv, SeenInv, ReviewInv
<1>6. ListInv'
  BY ListStays DEF IndexInv
<1> QED
  BY <1>1, <1>3, <1>4, <1>5, <1>6 DEF IndexInv

\* The run ends, and a call may end with it.
LEMMA RunEnds ==
    ASSUME IndexInv, run' = [run EXCEPT !.status = "ended"], run.status # "none",
           UNCHANGED <<head, rows, told, listing>>,
           \/ UNCHANGED review
           \/ review' = [review EXCEPT !.posted = head = run.head],
           \/ UNCHANGED calls
           \/ \E c \in Calls : Ends(c) /\ Moves(c, Idle)
    PROVE  IndexInv'
<1>1. /\ run \in Run /\ run' \in Run /\ run'.head = run.head /\ run'.status = "ended"
      /\ run'.indexed = run.indexed /\ run'.registered = run.registered
  BY RunIs DEF IndexInv, Run
<1>2. /\ calls' \in [Calls -> Call] /\ (\A d \in Calls : CallFormed(calls'[d]))
      /\ StartInv' /\ HeadInv'
  <2>1. CASE UNCHANGED calls
    <3>1. OfRun' = OfRun
      BY <1>1 DEF OfRun
    <3>2. Unregistered => Unregistered'
      BY <1>1 DEF Unregistered
    <3> QED
      BY <1>1, <2>1, <3>1, <3>2 DEF IndexInv, FormedInv, FileIndexTypeOK, StartInv, HeadInv, Holds
  <2>2. CASE \E c \in Calls : Ends(c)
    <3>1. PICK c \in Calls : Ends(c)
      BY <2>2
    <3>2. Goes(c, Idle)
      BY <3>1, EndsGoes DEF IndexInv
    <3>3. (\E d \in Calls : Opening(calls'[d])) => Unregistered'
      BY <1>1, <3>2, OpeningsStay DEF IndexInv, StartInv, Unregistered
    <3> QED
      BY <1>1, <3>2, <3>3, OpeningsStay, CallStep DEF IndexInv
  <2> QED
    BY <2>1, <2>2
<1>3. /\ review'.coverage = review.coverage
      /\ review' \in [coverage : {"none", "unknown", "incomplete", "complete"},
                      posted : BOOLEAN]
  BY DEF IndexInv, FormedInv
<1>4. FormedInv'
  BY <1>1, <1>2, <1>3 DEF IndexInv, FormedInv, FileIndexTypeOK
<1>5. RegisteredInv' /\ SeenInv'
  BY <1>1, <1>3 DEF IndexInv, RegisteredInv, SeenInv
<1>6. ReviewInv'
  <2>1. CASE UNCHANGED calls
    BY <1>1, <1>3, <2>1 DEF IndexInv, ReviewInv, Held
  <2>2. CASE \E c \in Calls : Moves(c, Idle)
    <3>1. \A b : Held(b) => Held(b)'
      BY <2>2, HeldStays DEF IndexInv
    <3> QED
      BY <1>1, <1>3, <3>1 DEF IndexInv, ReviewInv
  <2> QED
    BY <2>1, <2>2
<1>7. ListInv'
  BY ListStays DEF IndexInv
<1> QED
  BY <1>2, <1>4, <1>5, <1>6, <1>7 DEF IndexInv

LEMMA MaxOfTwo ==
    ASSUME NEW a \in Nat, NEW b \in Nat
    PROVE  Max({a, b}) \in Nat /\ a <= Max({a, b})
<1>1. \E x \in {a, b} : \A y \in {a, b} : x >= y
  <2>1. CASE a <= b
    BY <2>1
  <2>2. CASE b <= a
    BY <2>2
  <2> QED
    BY <2>1, <2>2
<1> QED
  BY <1>1 DEF Max

\* A call of a step that needs the run running ends with no block in hand.
LEMMA RegisterKeeps ==
    ASSUME IndexInv, NEW c \in Calls, Register(c)
    PROVE  IndexInv'
<1>0. /\ calls[c].pc = "register" /\ Ends(c) /\ FormedInv /\ run.status # "none"
      /\ Opening(calls[c]) /\ Moves(c, Idle) /\ Goes(c, Idle)
      /\ UNCHANGED <<head, told, listing, review>>
  <2>1. calls[c].pc = "register" /\ Ends(c) /\ FormedInv /\ UNCHANGED <<head, told, listing, review>>
    BY DEF Register, At, IndexInv
  <2>2. run.status # "none"
    BY <2>1, OpenRun DEF IndexInv
  <2>3. Opening(calls[c])
    BY <2>1, CallIs DEF Opening, CallFormed
  <2> QED
    BY <2>1, <2>2, <2>3, EndsMoves, EndsGoes
<1>1. CASE UNCHANGED <<run, rows>>
  BY <1>0, <1>1, CallMoves
<1>2. CASE Ended /\ UNCHANGED rows
  BY <1>0, <1>2, RunEnds DEF Ended
<1>3. CASE Current /\ Registers(PathsOf(BlocksOf(calls[c].items)), Len(calls[c].items))
  <2> DEFINE items == calls[c].items
             paths == PathsOf(BlocksOf(items))
             real == Listing[run.head]
             reported == Max({Cardinality(real), Len(items)})
  <2>1. head = run.head /\ run.status = "running"
    BY <1>3 DEF Current
  <2>2. items \in Seq(OfRun)
    BY <1>0, <2>1, AllDrawn DEF IndexInv, Source, Drawn
  <2>3. paths \subseteq real /\ real \in SUBSET Paths /\ paths \in SUBSET Paths
    BY <1>0, <2>2, BlocksIn, RunIs DEF OfRun, PathsOf
  <2>4. /\ Cardinality(paths) \in Nat /\ Cardinality(real) \in Nat /\ Len(items) \in Nat
        /\ IsFiniteSet(real)
    BY <2>2, <2>3, PathSets
  <2>5. reported \in Nat /\ Cardinality(real) <= reported
    BY <2>4, MaxOfTwo
  <2>6. rows' = [p \in Paths |->
               IF p \in paths THEN [rows[p] EXCEPT !.there = TRUE, !.changed = TRUE]
                              ELSE rows[p]]
    BY <1>3 DEF Registers
  <2>7. run' = [run EXCEPT !.reported = reported, !.registered = Cardinality(paths),
               !.indexed = Len(items) >= reported /\ Cardinality(paths) = reported]
    BY <1>3, <2>1 DEF Registers
  <2> DEFINE n == Cardinality(paths)
             m == Len(items)
  <2>8. n \in Nat /\ m \in Nat
    BY <2>4
  <2> HIDE DEF items, paths, real, reported, n, m
  <2>9. /\ run' \in Run /\ run'.head = run.head /\ run'.status = run.status
        /\ run'.registered = n
        /\ run'.indexed => n = reported
    <3>0. run' = [run EXCEPT !.reported = reported, !.registered = n,
                             !.indexed = m >= reported /\ n = reported]
      BY <2>7 DEF n, m
    <3>a. run \in Run
      BY <1>0, RunIs
    <3> DEFINE yes == m >= reported /\ n = reported
    <3>b. yes \in BOOLEAN /\ (yes => n = reported)
      OBVIOUS
    <3>c. run' = [run EXCEPT !.reported = reported, !.registered = n, !.indexed = yes]
      BY <3>0
    <3> HIDE DEF yes
    <3> QED
      BY <2>5, <2>8, <3>a, <3>b, <3>c DEF Run
  <2>10. /\ rows \in [Paths -> Row] /\ Unregistered
    BY <1>0, RunIs DEF IndexInv, StartInv
  <2>11. /\ rows' \in [Paths -> Row]
         /\ \A p \in Paths : /\ rows[p].there => rows'[p].there
                             /\ rows'[p].diff = rows[p].diff
                             /\ rows'[p].changed <=> p \in paths
    <3>1. ASSUME NEW p \in Paths
          PROVE  /\ rows'[p] \in Row /\ (rows[p].there => rows'[p].there)
                 /\ rows'[p].diff = rows[p].diff
                 /\ (rows'[p].changed <=> p \in paths)
      <4>1. rows[p] \in Row /\ ~rows[p].changed
        BY <2>10 DEF Unregistered
      <4>2. CASE p \in paths
        <5>1. rows'[p] = [rows[p] EXCEPT !.there = TRUE, !.changed = TRUE]
          BY <2>6, <4>2
        <5> QED
          BY <4>1, <4>2, <5>1 DEF Row
      <4>3. CASE p \notin paths
        BY <2>6, <4>1, <4>3
      <4> QED
        BY <4>2, <4>3
    <3>2. rows' \in [Paths -> Row]
      BY <2>6, <3>1
    <3> QED
      BY <3>1, <3>2
  <2>12. FormedInv'
    BY <1>0, <2>9, <2>11, OpeningsStay DEF FormedInv, FileIndexTypeOK
  <2>13. ASSUME NEW d \in Calls, Opening(calls'[d]) PROVE FALSE
    <3>1. d # c
      BY <1>0, <2>13, OpeningsStay, IdleIs
    <3>2. Opening(calls[d])
      BY <1>0, <2>13, OpeningsStay
    <3> QED
      BY <1>0, <3>1, <3>2 DEF IndexInv, StartInv
  <2>14. StartInv' /\ HeadInv'
    BY <1>0, <2>9, <2>13, CallStep DEF IndexInv
  <2>15. RegisteredInv'
    <3> SUFFICES ASSUME run'.indexed
                 PROVE  /\ {p \in Paths : rows'[p].changed} = Listing[run'.head]
                        /\ run'.registered = Cardinality(Listing[run'.head])
      BY DEF RegisteredInv
    <3>1. n <= Cardinality(real) /\ (n = Cardinality(real) => paths = real)
      BY <2>3, <2>4, FS_Subset DEF n
    <3>2. n = Cardinality(real) /\ paths = real
      BY <2>4, <2>5, <2>8, <2>9, <3>1
    <3>3. {p \in Paths : rows'[p].changed} = paths
      BY <2>3, <2>11
    <3> QED
      BY <2>9, <3>2, <3>3 DEF real
  <2>16. \A b : Held(b) => Held(b)'
    BY <1>0, HeldStays
  <2>17. SeenInv' /\ ReviewInv'
    BY <1>0, <2>9, <2>11, <2>16 DEF IndexInv, SeenInv, ReviewInv
  <2>18. ListInv'
    BY <1>0, <2>11, ListStays DEF IndexInv
  <2> QED
    BY <2>12, <2>14, <2>15, <2>17, <2>18 DEF IndexInv
<1> QED
  BY <1>0, <1>1, <1>2, <1>3 DEF Register

LEMMA FailureKeeps ==
    ASSUME IndexInv, NEW c \in Calls, RequestFails(c)
    PROVE  IndexInv'
<1>1. /\ calls[c].pc \in {"page", "register", "fetch"} /\ Ends(c) /\ FormedInv
      /\ UNCHANGED <<head, rows, told, listing, review>>
      /\ Ended \/ UNCHANGED run
  BY DEF RequestFails, IndexInv
<1>2. run.status # "none" /\ Moves(c, Idle)
  BY <1>1, OpenRun, EndsMoves DEF IndexInv
<1>3. CASE Ended
  BY <1>1, <1>2, <1>3, RunEnds DEF Ended
<1>4. CASE UNCHANGED run
  BY <1>1, <1>2, <1>4, CallMoves
<1> QED
  BY <1>1, <1>3, <1>4

\* A tool is called.
LEMMA OpeningKeeps ==
    ASSUME IndexInv, NEW c \in Calls, NEW k, Opens(c, k),
           UNCHANGED <<head, weight, rows, told, listing, review>>,
           k \in Call, k.kind # "begin", CallFormed(k), k.items = <<>>,
           k.shows = {}, k.refuses = {}
    PROVE  IndexInv'
<1>1. /\ run.status # "none" /\ calls[c].pc = "idle" /\ FormedInv
      /\ \/ UNCHANGED run /\ calls' = [calls EXCEPT ![c] = k]
         \/ Ended /\ UNCHANGED calls
  BY DEF Opens, Begun, At, IndexInv
<1>2. CASE UNCHANGED run /\ calls' = [calls EXCEPT ![c] = k]
  <2>1. calls[c].shows = {} /\ calls[c].refuses = {}
    BY <1>1, CallIs DEF CallFormed
  <2>2. Moves(c, k)
    BY <1>2, <2>1 DEF Moves, Goes, Opening, Drawn
  <2> QED
    BY <1>1, <1>2, <2>2, CallMoves
<1>3. CASE Ended /\ UNCHANGED calls
  BY <1>1, <1>3, RunEnds DEF Ended
<1> QED
  BY <1>1, <1>2, <1>3

LEMMA StartKeeps ==
    ASSUME IndexInv, NEW c \in Calls,
           \/ \E path \in Paths \cup {All}, chars \in Budgets : StartDiff(c, path, chars)
           \/ \E path \in Paths, side \in {"head", "base"}, range \in Ranges :
                 StartFile(c, path, side, range)
    PROVE  IndexInv'
<1>0. Idle \in Call /\ Idle.items = <<>> /\ Idle.shows = {} /\ Idle.refuses = {} /\ Idle.todo = <<>>
  BY IdleIs DEF Idle
<1> DEFINE idle == Idle
<1>a. idle \in Call /\ idle.items = <<>> /\ idle.shows = {} /\ idle.refuses = {} /\ idle.todo = <<>>
  BY <1>0
<1>1. ASSUME NEW path \in Paths \cup {All}, NEW chars \in Budgets, StartDiff(c, path, chars)
      PROVE  IndexInv'
  <2> DEFINE k == [idle EXCEPT !.pc = "fetch", !.kind = "diff", !.path = path, !.chars = chars]
  <2>1. Opens(c, k) /\ UNCHANGED <<head, weight, rows, told, listing, review>>
    BY <1>1 DEF StartDiff
  <2> HIDE DEF idle
  <2>2. chars \in Nat
    BY FileIndexAssumption
  <2>3. /\ k \in Call /\ k.kind = "diff" /\ k.pc = "fetch" /\ k.items = <<>> /\ k.shows = {}
        /\ k.refuses = {} /\ k.todo = <<>>
    BY <1>a, <2>2 DEF Call
  <2> HIDE DEF k
  <2>4. CallFormed(k)
    BY <2>3 DEF CallFormed
  <2> QED
    BY <2>1, <2>3, <2>4, OpeningKeeps
<1>2. ASSUME NEW path \in Paths, NEW side \in {"head", "base"}, NEW range \in Ranges,
             StartFile(c, path, side, range)
      PROVE  IndexInv'
  <2> DEFINE k == [idle EXCEPT !.pc = "file", !.kind = "file", !.path = path, !.side = side,
                               !.range = range]
  <2>1. Opens(c, k) /\ UNCHANGED <<head, weight, rows, told, listing, review>>
    BY <1>2 DEF StartFile
  <2> HIDE DEF idle
  <2>3. /\ k \in Call /\ k.kind = "file" /\ k.pc = "file" /\ k.items = <<>> /\ k.shows = {}
        /\ k.refuses = {} /\ k.todo = <<>> /\ k.path = path
    BY <1>a DEF Call
  <2> HIDE DEF k
  <2>4. CallFormed(k)
    BY <2>3 DEF CallFormed
  <2> QED
    BY <2>1, <2>3, <2>4, OpeningKeeps
<1> QED
  BY <1>1, <1>2

\* What a call had when the run was over stays with the session's late ones.
LEMMA LateHeld ==
    ASSUME FormedInv, NEW c \in Calls, Goes(c, Idle), TooLate(c)
    PROVE  /\ told' \in [shown : SUBSET Blocks, refused : SUBSET Blocks, late : SUBSET Blocks]
           /\ \A b : Held(b) => Held(b)'
<1>1. /\ told \in [shown : SUBSET Blocks, refused : SUBSET Blocks, late : SUBSET Blocks]
      /\ calls[c].shows \subseteq Blocks /\ calls[c].refuses \subseteq Blocks
  BY CallIs DEF FormedInv, FileIndexTypeOK
<1>2. /\ told' \in [shown : SUBSET Blocks, refused : SUBSET Blocks, late : SUBSET Blocks]
      /\ told'.shown = told.shown /\ told'.refused = told.refused
      /\ told'.late = told.late \cup calls[c].shows \cup calls[c].refuses
  BY <1>1 DEF TooLate
<1>3. \A d \in Calls \ {c} : calls'[d] = calls[d]
  BY OpeningsStay
<1> QED
  BY <1>2, <1>3 DEF Held

\* The rows change, but not which are there, what is changed or complete.
LEMMA StoreKeeps ==
    ASSUME IndexInv, NEW c \in Calls, StoreExposure(c)
    PROVE  IndexInv'
<1>0. /\ calls[c].pc = "store" /\ calls[c].kind = "diff" /\ FormedInv /\ run.status # "none"
      /\ calls[c].todo # <<>> /\ CallFormed(calls[c]) /\ calls[c] \in Call
      /\ UNCHANGED <<head, run, listing, review>>
  <2>1. /\ calls[c].pc = "store" /\ FormedInv /\ calls[c].todo # <<>>
        /\ UNCHANGED <<head, run, listing, review>>
    BY DEF StoreExposure, At, IndexInv
  <2>2. run.status # "none"
    BY <2>1, OpenRun DEF IndexInv
  <2> QED
    BY <2>1, <2>2, CallIs DEF CallFormed
<1>1. CASE run.status # "running"
  <2>1. UNCHANGED rows /\ Goes(c, Idle)
    BY <1>0, <1>1, EndsGoes DEF StoreExposure
  <2>a. /\ told' \in [shown : SUBSET Blocks, refused : SUBSET Blocks, late : SUBSET Blocks]
        /\ \A b : Held(b) => Held(b)'
    BY <1>0, <1>1, <2>1, LateHeld DEF StoreExposure
  <2>2. FormedInv'
    BY <1>0, <2>1, <2>a, OpeningsStay DEF FormedInv, FileIndexTypeOK
  <2>3. (\E d \in Calls : Opening(calls'[d])) => Unregistered'
    BY <1>0, <2>1, OpeningsStay DEF IndexInv, StartInv, Unregistered
  <2>4. StartInv' /\ HeadInv'
    BY <1>0, <2>1, <2>3, CallStep DEF IndexInv
  <2>5. RegisteredInv' /\ ReviewInv' /\ SeenInv'
    BY <1>0, <1>1, <2>1, <2>a DEF IndexInv, RegisteredInv, ReviewInv, SeenInv
  <2>6. ListInv'
    BY <1>0, <2>1, ListStays DEF IndexInv
  <2> QED
    BY <2>2, <2>4, <2>5, <2>6 DEF IndexInv
<1>2. CASE run.status = "running"
  <2> DEFINE todo == calls[c].todo
             write == Head(todo)
             rest == Tail(todo)
             k == [calls[c] EXCEPT !.todo = rest]
  <2>1. /\ rows' = [p \in Paths |->
               IF p \in write.paths THEN [rows[p] EXCEPT !.there = TRUE, !.diff = write.diff]
                                    ELSE rows[p]]
        /\ calls' = [calls EXCEPT ![c] = k] /\ UNCHANGED told
    BY <1>2 DEF StoreExposure
  <2>2. todo \in Seq(Exposure) /\ todo # <<>> /\ Len(todo) \in Nat
    BY <1>0, CallIs
  <2>3. /\ \A i \in DOMAIN todo : todo[i].diff = "complete" =>
              todo[i].paths \subseteq PathsOf(calls[c].shows \cup calls[c].refuses)
    BY <1>0 DEF CallFormed
  <2> HIDE DEF todo
  <2>4. /\ write = todo[1] /\ 1 \in DOMAIN todo /\ write \in Exposure
        /\ rest \in Seq(Exposure) /\ DOMAIN rest = 1..(Len(todo) - 1)
        /\ \A i \in DOMAIN rest : i + 1 \in DOMAIN todo /\ rest[i] = todo[i + 1]
    BY <2>2
  <2> HIDE DEF write, rest
  <2>5. /\ k \in Call /\ k.pc = calls[c].pc /\ k.kind = calls[c].kind /\ k.path = calls[c].path
        /\ k.shows = calls[c].shows /\ k.refuses = calls[c].refuses /\ k.items = calls[c].items
        /\ k.todo = rest
    <3> DEFINE a == calls[c]
    <3>1. a \in Call
      BY <1>0
    <3> HIDE DEF a
    <3>2. rest \in Seq([paths : SUBSET Paths, diff : {"complete", "truncated", "unavailable"}])
      BY <2>4 DEF Exposure
    <3>3. LET l == [a EXCEPT !.todo = rest] IN
          /\ l \in Call /\ l.pc = a.pc /\ l.kind = a.kind /\ l.path = a.path
          /\ l.shows = a.shows /\ l.refuses = a.refuses /\ l.items = a.items
          /\ l.todo = rest
      BY <3>1, <3>2 DEF Call
    <3> QED
      BY <3>3 DEF a
  <2> HIDE DEF k
  <2>6. CallFormed(k)
    <3>1. ASSUME NEW i \in DOMAIN k.todo, k.todo[i].diff = "complete"
          PROVE  k.todo[i].paths \subseteq PathsOf(k.shows \cup k.refuses)
      <4>1. i + 1 \in DOMAIN todo /\ k.todo[i] = todo[i + 1]
        BY <2>4, <2>5, <3>1
      <4> QED
        BY <2>3, <2>5, <3>1, <4>1
    <3> QED
      BY <1>0, <2>5, <3>1 DEF CallFormed
  <2>7. \A B : Source(B) => Drawn(k, B)
    BY <1>0, <2>5, AllDrawn DEF IndexInv, Drawn
  <2>8. Moves(c, k) /\ Goes(c, k)
    BY <1>0, <2>1, <2>5, <2>6, <2>7 DEF Moves, Goes, Opening
  <2>9. rows \in [Paths -> Row]
    BY <1>0, RunIs
  <2>10. /\ rows' \in [Paths -> Row]
         /\ \A p \in Paths : /\ rows[p].there => rows'[p].there
                             /\ rows'[p].changed = rows[p].changed
                             /\ rows'[p].diff = IF p \in write.paths THEN write.diff
                                                                     ELSE rows[p].diff
    <3>1. ASSUME NEW p \in Paths
          PROVE  /\ rows'[p] \in Row /\ (rows[p].there => rows'[p].there)
                 /\ rows'[p].changed = rows[p].changed
                 /\ rows'[p].diff = IF p \in write.paths THEN write.diff ELSE rows[p].diff
      <4>1. rows[p] \in Row
        BY <2>9
      <4>2. CASE p \in write.paths
        <5>1. rows'[p] = [rows[p] EXCEPT !.there = TRUE, !.diff = write.diff]
          BY <2>1, <4>2
        <5>2. write.diff \in {"unseen", "complete", "truncated", "unavailable"}
          BY <2>4 DEF Exposure
        <5> QED
          BY <4>1, <4>2, <5>1, <5>2 DEF Row
      <4>3. CASE p \notin write.paths
        BY <2>1, <4>1, <4>3
      <4> QED
        BY <4>2, <4>3
    <3>2. rows' \in [Paths -> Row]
      BY <2>1, <3>1
    <3> QED
      BY <3>1, <3>2
  <2>11. FormedInv'
    BY <1>0, <2>1, <2>8, <2>10, OpeningsStay DEF FormedInv, FileIndexTypeOK
  <2>12. (\E d \in Calls : Opening(calls'[d])) => Unregistered'
    BY <1>0, <2>8, <2>10, OpeningsStay DEF IndexInv, StartInv, Unregistered
  <2>13. StartInv' /\ HeadInv'
    BY <1>0, <2>8, <2>12, CallStep DEF IndexInv
  <2>14. RegisteredInv'
    <3>1. {p \in Paths : rows'[p].changed} = {p \in Paths : rows[p].changed}
      BY <2>10
    <3> QED
      BY <1>0, <3>1 DEF IndexInv, RegisteredInv
  <2>a. \A b : Held(b) => Held(b)'
    BY <1>0, <2>1, <2>8, HeldStays
  <2>15. SeenInv'
    <3> SUFFICES ASSUME head = run.head, NEW p \in Paths, rows'[p].diff = "complete"
                 PROVE  Held(<<run.head, p>>)'
      BY <1>0 DEF SeenInv
    <3>2. CASE p \notin write.paths
      <4>1. Held(<<run.head, p>>)
        BY <1>2, <2>10, <3>2 DEF IndexInv, SeenInv
      <4>2. PICK b : b = <<run.head, p>>
        OBVIOUS
      <4>3. Held(b)'
        BY <2>a, <4>1, <4>2
      <4> QED
        BY <1>0, <4>2, <4>3
    <3>3. CASE p \in write.paths
      <4>1. p \in PathsOf(calls[c].shows \cup calls[c].refuses)
        BY <2>3, <2>4, <2>10, <3>3
      <4>2. PICK b \in calls[c].shows \cup calls[c].refuses : b[2] = p
        BY <4>1 DEF PathsOf
      <4>3. b \in OfRun
        BY <1>0 DEF IndexInv, HeadInv, Holds
      <4>4. b = <<run.head, p>>
        BY <4>2, <4>3 DEF OfRun
      <4>5. b \in calls'[c].shows \cup calls'[c].refuses
        BY <1>0, <2>5, <2>8, OpeningsStay
      <4> QED
        BY <1>0, <4>4, <4>5 DEF Held
    <3> QED
      BY <3>2, <3>3
  <2>16. ReviewInv'
    BY <1>0, <2>a DEF IndexInv, ReviewInv
  <2>17. ListInv'
    BY <1>0, <2>10, ListStays DEF IndexInv
  <2> QED
    BY <2>11, <2>13, <2>14, <2>15, <2>16, <2>17 DEF IndexInv
<1> QED
  BY <1>1, <1>2

\* The answer passes from the call to the session.
LEMMA AnswerKeeps ==
    ASSUME IndexInv, NEW c \in Calls, AnswerDiff(c)
    PROVE  IndexInv'
<1>0. /\ calls[c].pc = "store" /\ FormedInv /\ run.status # "none"
      /\ Goes(c, Idle) /\ UNCHANGED <<head, run, rows, listing, review>>
      /\ calls[c].shows \subseteq Blocks /\ calls[c].refuses \subseteq Blocks
  <2>1. /\ calls[c].pc = "store" /\ FormedInv /\ Ends(c)
        /\ UNCHANGED <<head, run, rows, listing, review>>
    BY DEF AnswerDiff, At, IndexInv
  <2>2. run.status # "none" /\ Goes(c, Idle)
    BY <2>1, OpenRun, EndsGoes DEF IndexInv
  <2> QED
    BY <2>1, <2>2, CallIs
<1>1. /\ told' \in [shown : SUBSET Blocks, refused : SUBSET Blocks, late : SUBSET Blocks]
      /\ \A b : Held(b) => Held(b)'
  <2>1. told \in [shown : SUBSET Blocks, refused : SUBSET Blocks, late : SUBSET Blocks]
    BY <1>0 DEF FormedInv, FileIndexTypeOK
  <2>2. CASE run.status = "running"
    <3>1. told' = [told EXCEPT !.shown = @ \cup calls[c].shows,
                               !.refused = @ \cup calls[c].refuses]
      BY <2>2 DEF AnswerDiff
    <3>2. /\ told' \in [shown : SUBSET Blocks, refused : SUBSET Blocks, late : SUBSET Blocks]
          /\ told'.shown = told.shown \cup calls[c].shows
          /\ told'.refused = told.refused \cup calls[c].refuses
          /\ told'.late = told.late
      BY <1>0, <2>1, <3>1
    <3>3. \A d \in Calls \ {c} : calls'[d] = calls[d]
      BY <1>0, OpeningsStay
    <3> QED
      BY <3>2, <3>3 DEF Held
  <2>3. CASE run.status # "running"
    BY <1>0, <2>3, LateHeld DEF AnswerDiff
  <2> QED
    BY <2>2, <2>3
<1>2. FormedInv'
  BY <1>0, <1>1, OpeningsStay DEF FormedInv, FileIndexTypeOK
<1>3. (\E d \in Calls : Opening(calls'[d])) => Unregistered'
  BY <1>0, OpeningsStay DEF IndexInv, StartInv, Unregistered
<1>4. StartInv' /\ HeadInv'
  BY <1>0, <1>3, CallStep DEF IndexInv
<1>5. RegisteredInv' /\ ReviewInv'
  BY <1>0, <1>1 DEF IndexInv, RegisteredInv, ReviewInv
<1>6. SeenInv'
  BY <1>0, <1>1 DEF IndexInv, SeenInv
<1>7. ListInv'
  BY <1>0, ListStays DEF IndexInv
<1> QED
  BY <1>2, <1>4, <1>5, <1>6, <1>7 DEF IndexInv

LEMMA WriteKeeps ==
    ASSUME IndexInv, NEW c \in Calls, WriteRanges(c)
    PROVE  IndexInv'
<1>0. /\ calls[c].pc = "write" /\ FormedInv /\ run.status # "none"
      /\ Moves(c, Idle) /\ Goes(c, Idle) /\ UNCHANGED <<head, run, told, listing, review>>
      /\ calls[c].path \in Paths /\ calls[c].reads \subseteq {"head", "base"} \X Ranges
  <2>1. /\ calls[c].pc = "write" /\ FormedInv /\ Ends(c)
        /\ UNCHANGED <<head, run, told, listing, review>>
    BY DEF WriteRanges, At, IndexInv
  <2>2. run.status # "none" /\ Goes(c, Idle) /\ Moves(c, Idle)
    BY <2>1, OpenRun, EndsGoes, EndsMoves DEF IndexInv
  <2>3. calls[c] \in Call /\ calls[c].path \in Paths
    BY <2>1, CallIs DEF CallFormed
  <2> QED
    BY <2>1, <2>2, <2>3 DEF Call
<1> DEFINE path == calls[c].path
           reads == {r \in rows[path].reads : r[1] # calls[c].side} \cup calls[c].reads
           row == [rows[path] EXCEPT !.there = TRUE, !.reads = reads]
<1>1. rows' = [rows EXCEPT ![path] = row]
  BY DEF WriteRanges
<1>2. rows \in [Paths -> Row] /\ path \in Paths
  BY <1>0, RunIs
<1>3. reads \subseteq {"head", "base"} \X Ranges
  <2>1. rows[path].reads \subseteq {"head", "base"} \X Ranges
    BY <1>2 DEF Row
  <2> QED
    BY <1>0, <2>1
<1> HIDE DEF path, reads
<1>4. row \in Row /\ row.there /\ row.changed = rows[path].changed /\ row.diff = rows[path].diff
  BY <1>2, <1>3 DEF Row
<1> HIDE DEF row
<1>5. /\ rows' \in [Paths -> Row]
      /\ \A p \in Paths : /\ rows[p].there => rows'[p].there
                          /\ rows'[p].changed = rows[p].changed
                          /\ rows'[p].diff = rows[p].diff
  BY <1>1, <1>2, <1>4
<1>6. FormedInv'
  BY <1>0, <1>5, OpeningsStay DEF FormedInv, FileIndexTypeOK
<1>7. (\E d \in Calls : Opening(calls'[d])) => Unregistered'
  BY <1>0, <1>5, OpeningsStay DEF IndexInv, StartInv, Unregistered
<1>8. StartInv' /\ HeadInv'
  BY <1>0, <1>7, CallStep DEF IndexInv
<1>9. RegisteredInv'
  <2>1. {p \in Paths : rows'[p].changed} = {p \in Paths : rows[p].changed}
    BY <1>5
  <2> QED
    BY <1>0, <2>1 DEF IndexInv, RegisteredInv
<1>10. \A b : Held(b) => Held(b)'
  BY <1>0, HeldStays
<1>11. SeenInv' /\ ReviewInv'
  BY <1>0, <1>5, <1>10 DEF IndexInv, SeenInv, ReviewInv
<1>12. ListInv'
  BY <1>0, <1>5, ListStays DEF IndexInv
<1> QED
  BY <1>6, <1>8, <1>9, <1>11, <1>12 DEF IndexInv

\* The next page of the rows that are there.
LEMMA PageIs ==
    ASSUME FormedInv, ListInv, NEW there \in SUBSET Paths
    PROVE  LET rest == PageAfterCursor(there) IN
           /\ rest \in Seq(there) /\ Len(rest) \in Nat
           /\ \A i \in 1..Len(rest) : rest[i] > listing.cursor
           /\ \A i, j \in 1..Len(rest) : i < j => rest[i] < rest[j]
           /\ \A p \in there : p > listing.cursor => \E i \in 1..Len(rest) : rest[i] = p
<1> DEFINE S == {p \in there : p > listing.cursor}
           rest == Ascending(S)
<1>1. S \in SUBSET Nat /\ IsFiniteSet(S) /\ S \in SUBSET there
  BY PathSets
<1> HIDE DEF S
<1>2. /\ rest \in Seq(S) /\ Len(rest) = Cardinality(S) /\ Cardinality(S) \in Nat
      /\ \A i, j \in 1..Cardinality(S) : i < j => rest[i] < rest[j]
      /\ \A p \in S : \E i \in 1..Cardinality(S) : rest[i] = p
  BY <1>1, AscendingSeq, AscendingIs
<1> HIDE DEF rest
<1>3. rest \in Seq(there)
  <2>0. S \subseteq there
    BY <1>1
  <2>1. rest \in [1..Len(rest) -> S] /\ Len(rest) \in Nat
    BY <1>2
  <2>2. rest \in [1..Len(rest) -> there]
    BY <2>0, <2>1
  <2> QED
    BY <2>1, <2>2
<1>4. PageAfterCursor(there) = rest
  BY DEF PageAfterCursor, rest, S
<1>5. \A i \in 1..Len(rest) : rest[i] > listing.cursor
  BY <1>2 DEF S
<1>6. \A p \in there : p > listing.cursor => \E i \in 1..Len(rest) : rest[i] = p
  BY <1>2 DEF S
<1> QED
  BY <1>2, <1>3, <1>4, <1>5, <1>6

\* An ascending list goes on with greater members.
LEMMA Joined ==
    ASSUME NEW s \in Seq(Paths), NEW t \in Seq(Paths), NEW m \in Nat,
           \A i, j \in DOMAIN s : i < j => s[i] < s[j],
           \A i, j \in DOMAIN t : i < j => t[i] < t[j],
           \A i \in DOMAIN s : s[i] <= m,
           \A i \in DOMAIN t : t[i] > m
    PROVE  /\ s \o t \in Seq(Paths)
           /\ \A i, j \in DOMAIN (s \o t) : i < j => (s \o t)[i] < (s \o t)[j]
           /\ \A p : (\E i \in DOMAIN s : s[i] = p) \/ (\E i \in DOMAIN t : t[i] = p)
                        <=> \E i \in DOMAIN (s \o t) : (s \o t)[i] = p
<1>0. \A p \in Paths : p \in Nat
  BY FileIndexAssumption
<1>1. /\ Len(s) \in Nat /\ Len(t) \in Nat /\ s \o t \in Seq(Paths)
      /\ Len(s \o t) = Len(s) + Len(t)
      /\ DOMAIN s = 1..Len(s) /\ DOMAIN t = 1..Len(t)
      /\ DOMAIN (s \o t) = 1..(Len(s) + Len(t))
  OBVIOUS
<1>2. /\ \A i \in DOMAIN s : i \in DOMAIN (s \o t) /\ (s \o t)[i] = s[i]
      /\ \A i \in DOMAIN t : /\ i + Len(s) \in DOMAIN (s \o t)
                             /\ (s \o t)[i + Len(s)] = t[i]
  BY <1>1
<1>3. \A i \in DOMAIN (s \o t) :
         \/ i \in DOMAIN s /\ (s \o t)[i] = s[i]
         \/ i > Len(s) /\ i - Len(s) \in DOMAIN t /\ (s \o t)[i] = t[i - Len(s)]
  BY <1>1
<1>4. ASSUME NEW i \in DOMAIN (s \o t), NEW j \in DOMAIN (s \o t), i < j
      PROVE  (s \o t)[i] < (s \o t)[j]
  <2>0. i \in Nat /\ j \in Nat
    BY <1>1
  <2>1. CASE j \in DOMAIN s
    <3>1. i \in DOMAIN s
      BY <1>1, <1>4, <2>0, <2>1
    <3>2. (s \o t)[i] = s[i] /\ (s \o t)[j] = s[j]
      BY <1>2, <2>1, <3>1
    <3> QED
      BY <1>4, <2>1, <3>1, <3>2
  <2>2. CASE j \notin DOMAIN s
    <3>1. j > Len(s) /\ j - Len(s) \in DOMAIN t /\ (s \o t)[j] = t[j - Len(s)]
      BY <1>3, <2>2
    <3>2. CASE i \in DOMAIN s
      <4>1. (s \o t)[i] = s[i] /\ s[i] \in Paths /\ t[j - Len(s)] \in Paths
        BY <1>1, <1>2, <3>1, <3>2
      <4>2. s[i] <= m /\ t[j - Len(s)] > m
        BY <3>1, <3>2
      <4>3. \A a, b \in Nat : a <= m /\ b > m => a < b
        OBVIOUS
      <4> QED
        BY <1>0, <3>1, <4>1, <4>2, <4>3
    <3>3. CASE i \notin DOMAIN s
      <4>1. i > Len(s) /\ i - Len(s) \in DOMAIN t /\ (s \o t)[i] = t[i - Len(s)]
        BY <1>3, <3>3
      <4>2. i - Len(s) < j - Len(s)
        BY <1>1, <1>4, <2>0
      <4> QED
        BY <3>1, <4>1, <4>2
    <3> QED
      BY <3>2, <3>3
  <2> QED
    BY <2>1, <2>2
<1> QED
  BY <1>1, <1>2, <1>3, <1>4

LEMMA ListKeeps ==
    ASSUME IndexInv, ListFiles
    PROVE  IndexInv'
<1>0. FormedInv /\ ListInv /\ run.status # "none" /\ ~listing.done
      /\ UNCHANGED <<head, weight, rows, calls, told, review, left>>
  BY DEF ListFiles, IndexInv, Begun
<1>1. CASE Outdated /\ Ended /\ UNCHANGED listing
  BY <1>0, <1>1, RunEnds DEF Ended
<1>2. CASE ~(Outdated /\ Ended /\ UNCHANGED listing)
  <2> DEFINE there == {p \in Paths : rows[p].there}
             rest == PageAfterCursor(there)
             n == Min({ListLimit, Len(rest)})
             page == SubSeq(rest, 1, n)
             more == Len(rest) > ListLimit
             first == IF listing.cursor = All THEN there ELSE listing.first
             cursor == IF more THEN page[ListLimit] ELSE listing.cursor
  <2>1. /\ UNCHANGED run
        /\ listing' = [cursor |-> cursor, got |-> listing.got \o page, first |-> first,
                       done |-> ~more]
    BY <1>2 DEF ListFiles
  <2>2. /\ listing.cursor \in Paths \cup {All} /\ listing.got \in Seq(Paths)
        /\ listing.first \in SUBSET Paths /\ listing.cursor \in Nat
        /\ ListLimit \in Nat \ {0} /\ (\A p \in Paths : p \in Nat /\ p > 0)
    <3>1. /\ listing.cursor \in Paths \cup {All} /\ listing.got \in Seq(Paths)
          /\ listing.first \in SUBSET Paths
      BY <1>0 DEF ListInv
    <3>2. ListLimit \in Nat \ {0} /\ Paths \subseteq Nat \ {0}
      BY FileIndexAssumption
    <3>3. \A p \in Paths : p \in Nat /\ p > 0
      BY <3>2
    <3>4. listing.cursor \in Nat
      BY <3>1, <3>3 DEF All
    <3> QED
      BY <3>1, <3>2, <3>3, <3>4
  <2>3. there \in SUBSET Paths
    OBVIOUS
  <2>4. /\ rest \in Seq(there) /\ Len(rest) \in Nat
        /\ (\A i \in 1..Len(rest) : rest[i] > listing.cursor)
        /\ (\A i, j \in 1..Len(rest) : i < j => rest[i] < rest[j])
        /\ (\A p \in there : p > listing.cursor => \E i \in 1..Len(rest) : rest[i] = p)
    BY <1>0, <2>3, PageIs
  <2> HIDE DEF there, rest
  <2>5. /\ n \in 0..Len(rest) /\ (more => n = ListLimit) /\ (~more => n = Len(rest))
    <3>1. n \in {ListLimit, Len(rest)} /\ n <= ListLimit /\ n <= Len(rest)
      BY <2>2, <2>4, MinOfTwo
    <3> HIDE DEF n
    <3> QED
      BY <2>2, <2>4, <3>1
  <2> HIDE DEF n
  <2>6. /\ page \in Seq(there) /\ Len(page) = n /\ DOMAIN page = 1..n
        /\ \A i \in 1..n : page[i] = rest[i]
    BY <2>4, <2>5, PrefixIn
  <2> HIDE DEF page
  <2>7. /\ page \in Seq(Paths) /\ \A i \in DOMAIN page : page[i] > listing.cursor
        /\ \A i, j \in DOMAIN page : i < j => page[i] < page[j]
    <3>1. page \in [1..Len(page) -> Paths] /\ Len(page) \in Nat
      BY <2>3, <2>6
    <3> QED
      BY <2>4, <2>5, <2>6, <3>1
  <2> DEFINE got == listing.got \o page
  <2>8. /\ got \in Seq(Paths)
        /\ (\A i, j \in DOMAIN got : i < j => got[i] < got[j])
        /\ \A p : (\E i \in DOMAIN listing.got : listing.got[i] = p)
                  \/ (\E i \in DOMAIN page : page[i] = p)
                    <=> \E i \in DOMAIN got : got[i] = p
    BY <1>0, <2>2, <2>7, Joined DEF ListInv
  <2> HIDE DEF got
  <2>9. cursor \in Paths \cup {All} /\ (more => cursor = page[n] /\ n \in DOMAIN page /\ cursor \in Paths)
    <3>1. CASE more
      <4>1. n \in 1..n /\ n = ListLimit
        BY <2>2, <2>5, <3>1
      <4> QED
        BY <2>6, <2>7, <3>1, <4>1
    <3>2. CASE ~more
      BY <2>2, <3>2
    <3> QED
      BY <3>1, <3>2
  <2>10. first \in SUBSET Paths /\ first \subseteq there
    <3>1. listing.cursor # All => listing.first \subseteq there
      BY <1>0, <2>2 DEF ListInv, there
    <3> QED
      BY <2>2, <2>3, <3>1
  <2>11. \A p \in first : p <= listing.cursor => \E i \in DOMAIN listing.got : listing.got[i] = p
    <3>1. listing.cursor = All => \A p \in Paths : ~(p <= listing.cursor)
      BY <2>2 DEF All
    <3>2. listing.cursor # All =>
             \A p \in listing.first :
                p <= listing.cursor => \E i \in DOMAIN listing.got : listing.got[i] = p
      BY <1>0 DEF ListInv
    <3> QED
      BY <2>10, <3>1, <3>2
  <2> HIDE DEF first
  \* What was there at the first page and is not after the new cursor was got.
  <2>12. ASSUME NEW p \in first, more => p <= cursor
         PROVE  \E i \in DOMAIN got : got[i] = p
    <3>0. p \in there /\ p \in Paths /\ p \in Nat
      BY <2>2, <2>10
    <3>1. CASE p <= listing.cursor
      BY <2>8, <2>11, <3>1
    <3>2. CASE ~(p <= listing.cursor)
      <4>1. PICK i \in 1..Len(rest) : rest[i] = p
        BY <2>2, <2>4, <3>0, <3>2
      <4>2. i <= n
        <5>1. CASE more
          <6>1. n \in 1..Len(rest) /\ cursor = rest[n] /\ rest[n] \in Nat
            BY <2>2, <2>5, <2>6, <2>9, <5>1
          <6>2. ~(n < i)
            <7>1. n < i => rest[n] < rest[i]
              BY <2>4, <6>1
            <7>2. p <= rest[n]
              BY <2>12, <5>1, <6>1
            <7>3. \A a, b \in Nat : a <= b => ~(b < a)
              OBVIOUS
            <7> QED
              BY <3>0, <4>1, <6>1, <7>1, <7>2, <7>3
          <6> QED
            BY <2>4, <6>1, <6>2
        <5>2. CASE ~more
          BY <2>5, <5>2
        <5> QED
          BY <5>1, <5>2
      <4>3. i \in DOMAIN page /\ page[i] = p
        BY <2>4, <2>5, <2>6, <4>1, <4>2
      <4> QED
        BY <2>8, <4>3
    <3> QED
      BY <3>1, <3>2
  <2>13. ASSUME more, NEW i \in DOMAIN got
         PROVE  got[i] <= cursor
    <3>1. cursor \in Nat /\ cursor > listing.cursor
      BY <2>2, <2>7, <2>9, <2>13
    <3>2. \/ \E j \in DOMAIN listing.got : listing.got[j] = got[i]
          \/ \E j \in DOMAIN page : page[j] = got[i]
      BY <2>8
    <3>3. CASE \E j \in DOMAIN listing.got : listing.got[j] = got[i]
      <4>1. got[i] <= listing.cursor /\ got[i] \in Paths
        BY <1>0, <2>2, <3>3 DEF ListInv
      <4> QED
        BY <2>2, <3>1, <4>1
    <3>4. CASE \E j \in DOMAIN page : page[j] = got[i]
      <4>1. PICK j \in DOMAIN page : page[j] = got[i]
        BY <3>4
      <4>2. j \in 1..n /\ n \in DOMAIN page /\ cursor = page[n] /\ n \in Nat /\ page[j] \in Nat
        BY <2>2, <2>5, <2>6, <2>7, <2>9, <2>13
      <4>3. j = n \/ j < n
        BY <4>2
      <4>4. j < n => page[j] < page[n]
        BY <2>7, <4>2
      <4> QED
        BY <3>1, <4>1, <4>2, <4>3, <4>4
    <3> QED
      BY <3>2, <3>3, <3>4
  <2> HIDE DEF cursor, more
  <2>14. listing' \in [cursor : Paths \cup {All}, got : Seq(Paths), first : SUBSET Paths,
                       done : BOOLEAN]
    BY <2>1, <2>8, <2>9, <2>10 DEF got, more
  <2>15. /\ listing'.cursor = cursor /\ listing'.got = got /\ listing'.first = first
         /\ listing'.done = ~more
    BY <2>1 DEF got
  <2>16. \A p \in first : rows'[p].there
    BY <1>0, <2>10 DEF there
  <2>17. ListInv'
    BY <2>8, <2>12, <2>13, <2>14, <2>15, <2>16 DEF ListInv
  <2>18. FormedInv'
    BY <1>0, <2>1 DEF FormedInv, FileIndexTypeOK
  <2>19. OfRun' = OfRun
    BY <1>0, <2>1 DEF OfRun
  <2>20. (\A b : Held(b)' <=> Held(b)) /\ (Unregistered' <=> Unregistered)
    BY <1>0, <2>1 DEF Held, Unregistered
  <2>21. StartInv' /\ HeadInv' /\ RegisteredInv' /\ SeenInv' /\ ReviewInv'
    BY <1>0, <2>1, <2>19, <2>20
       DEF IndexInv, StartInv, HeadInv, Holds, RegisteredInv, SeenInv, ReviewInv
  <2> QED
    BY <2>17, <2>18, <2>21 DEF IndexInv
<1> QED
  BY <1>1, <1>2

LEMMA BeginKeeps ==
    ASSUME IndexInv, NEW c \in Calls, NEW h \in Heads, Begin(c, h)
    PROVE  IndexInv'
<1>0. /\ run.status = "none" /\ h <= head /\ FormedInv
      /\ run' = [run EXCEPT !.status = "running", !.head = h]
      /\ UNCHANGED <<head, rows, told, listing, review>>
      /\ calls' = [calls EXCEPT ![c].pc = "page"]
  BY DEF Begin, IndexInv
<1>1. /\ calls \in [Calls -> Call] /\ (\A d \in Calls : calls[d] = Idle)
      /\ review.coverage = "none" /\ Unregistered
      /\ \A p \in Paths : rows[p].diff # "complete"
  <2>1. \A d \in Calls : calls[d].pc = "idle"
    BY <1>0 DEF IndexInv, StartInv
  <2>2. \A d \in Calls : calls[d] = Idle
    BY <1>0, <2>1, CallIs DEF CallFormed
  <2> QED
    BY <1>0, <2>2, CallIs DEF IndexInv, StartInv
<1>2. /\ run' \in Run /\ run'.head = h /\ run'.status = "running" /\ ~run'.indexed
      /\ run'.indexed = run.indexed
  <2>1. run \in Run /\ ~run.indexed
    BY <1>0, <1>1, RunIs DEF Unregistered
  <2> QED
    BY <1>0, <2>1 DEF Run
<1> DEFINE k == [Idle EXCEPT !.pc = "page"]
<1>3. /\ k \in Call /\ k.pc = "page" /\ k.kind = "begin" /\ k.items = <<>>
      /\ k.todo = <<>> /\ k.shows = {} /\ k.refuses = {}
  <2>1. /\ Idle \in Call /\ Idle.items = <<>> /\ Idle.shows = {} /\ Idle.refuses = {}
        /\ Idle.todo = <<>> /\ Idle.kind = "begin"
    BY IdleIs DEF Idle
  <2> DEFINE idle == Idle
  <2>2. /\ idle \in Call /\ idle.items = <<>> /\ idle.shows = {} /\ idle.refuses = {}
        /\ idle.todo = <<>> /\ idle.kind = "begin" /\ k = [idle EXCEPT !.pc = "page"]
    BY <2>1
  <2> HIDE DEF idle, k
  <2> QED
    BY <2>2 DEF Call
<1>4. calls' = [calls EXCEPT ![c] = k]
  BY <1>0, <1>1
<1> HIDE DEF k
<1>5. /\ calls' \in [Calls -> Call] /\ calls'[c] = k
      /\ \A d \in Calls \ {c} : calls'[d] = Idle
  BY <1>1, <1>3, <1>4
<1>6. \A d \in Calls : /\ CallFormed(calls'[d]) /\ calls'[d].items = <<>>
                       /\ calls'[d].shows = {} /\ calls'[d].refuses = {}
                       /\ Opening(calls'[d]) => d = c
  <2>1. CallFormed(k)
    BY <1>3 DEF CallFormed
  <2>2. Idle.items = <<>>
    BY DEF Idle
  <2> QED
    BY <1>3, <1>5, <2>1, <2>2, IdleIs
<1>7. FormedInv'
  BY <1>0, <1>2, <1>5, <1>6 DEF FormedInv, FileIndexTypeOK
<1>8. Unregistered'
  BY <1>0, <1>1, <1>2 DEF Unregistered
<1>9. StartInv'
  BY <1>0, <1>2, <1>6, <1>8 DEF StartInv
<1>10. HeadInv'
  BY <1>6 DEF HeadInv, Holds, BlocksOf
<1>11. RegisteredInv' /\ SeenInv' /\ ReviewInv'
  BY <1>0, <1>1, <1>2 DEF RegisteredInv, SeenInv, ReviewInv
<1>12. ListInv'
  BY <1>0, ListStays DEF IndexInv
<1> QED
  BY <1>7, <1>9, <1>10, <1>11, <1>12 DEF IndexInv

\* Complete coverage of a registered head: every file of it was held.
LEMMA CoverageIs ==
    ASSUME IndexInv, Coverage = "complete"
    PROVE  \A p \in Listing[run.head] : rows[p].diff = "complete"
<1> DEFINE changed == {p \in Paths : rows[p].changed}
           whole == {p \in changed : rows[p].diff = "complete"}
<1>1. run.indexed /\ Cardinality(whole) = run.registered
  BY DEF Coverage
<1>2. changed = Listing[run.head] /\ run.registered = Cardinality(changed)
  BY <1>1 DEF IndexInv, RegisteredInv
<1>3. IsFiniteSet(changed) /\ whole \in SUBSET changed
  BY PathSets
<1>4. whole = changed
  <2> HIDE DEF changed, whole
  <2> QED
    BY <1>1, <1>2, <1>3, FS_Subset
<1> QED
  BY <1>2, <1>4

LEMMA FinalizeKeeps ==
    ASSUME IndexInv, Finalize
    PROVE  IndexInv'
<1>0. /\ FormedInv /\ run.status # "none"
      /\ UNCHANGED <<head, rows, calls, told, listing>>
      /\ \/ /\ Current /\ review' = [review EXCEPT !.coverage = Coverage] /\ UNCHANGED run
         \/ Ended /\ UNCHANGED review
  BY DEF Finalize, IndexInv, Begun, At
<1>1. CASE Ended /\ UNCHANGED review
  BY <1>0, <1>1, RunEnds DEF Ended
<1>2. CASE Current /\ review' = [review EXCEPT !.coverage = Coverage] /\ UNCHANGED run
  <2>1. Coverage \in {"unknown", "incomplete", "complete"}
    BY DEF Coverage
  <2>2. /\ review' \in [coverage : {"none", "unknown", "incomplete", "complete"},
                        posted : BOOLEAN]
        /\ review'.coverage = Coverage
    <3>1. review \in [coverage : {"none", "unknown", "incomplete", "complete"},
                      posted : BOOLEAN]
      BY <1>0 DEF FormedInv
    <3> DEFINE new == Coverage
    <3>2. new \in {"unknown", "incomplete", "complete"}
          /\ review' = [review EXCEPT !.coverage = new]
      BY <1>2, <2>1
    <3> HIDE DEF new
    <3>3. /\ review' \in [coverage : {"none", "unknown", "incomplete", "complete"},
                          posted : BOOLEAN]
          /\ review'.coverage = new
      BY <3>1, <3>2
    <3> QED
      BY <3>3 DEF new
  <2>3. FormedInv'
    BY <1>0, <1>2, <2>2 DEF FormedInv, FileIndexTypeOK
  <2>a. OfRun' = OfRun
    BY <1>2 DEF OfRun
  <2>b. (\A b : Held(b)' <=> Held(b)) /\ (Unregistered' <=> Unregistered)
    BY <1>0, <1>2 DEF Held, Unregistered
  <2>4. ReviewInv'
    <3> SUFFICES ASSUME Coverage = "complete", NEW p \in Listing[run.head]
                 PROVE  Held(<<run.head, p>>)
      BY <1>0, <1>2, <2>2, <2>a, <2>b DEF ReviewInv
    <3>1. rows[p].diff = "complete" /\ p \in Paths
      BY <1>0, CoverageIs, RunIs
    <3> QED
      BY <1>2, <3>1 DEF IndexInv, SeenInv, Current
  <2>7. StartInv' /\ HeadInv' /\ RegisteredInv' /\ SeenInv'
    BY <1>0, <1>2, <2>a, <2>b DEF IndexInv, StartInv, HeadInv, Holds, RegisteredInv, SeenInv
  <2>8. ListInv'
    BY <1>0, ListStays DEF IndexInv
  <2> QED
    BY <2>3, <2>4, <2>7, <2>8 DEF IndexInv
<1> QED
  BY <1>0, <1>1, <1>2

LEMMA PushKeeps ==
    ASSUME IndexInv, Push
    PROVE  IndexInv'
<1>0. /\ FormedInv /\ head' = head + 1 /\ head' \in Heads
      /\ UNCHANGED <<run, rows, calls, told, listing, review>>
  BY DEF Push, IndexInv
<1>1. head \in Nat /\ run.head \in Nat
  BY <1>0, RunIs
<1>2. run.status # "none" => head' # run.head /\ run.head <= head'
  <2>1. run.status # "none" => run.head <= head
    BY DEF IndexInv, StartInv
  <2> QED
    BY <1>0, <1>1, <2>1
<1>3. FormedInv'
  BY <1>0 DEF FormedInv, FileIndexTypeOK
<1>4. Unregistered' <=> Unregistered
  BY <1>0 DEF Unregistered
<1>5. StartInv'
  BY <1>0, <1>2, <1>4 DEF IndexInv, StartInv
<1>6. HeadInv' /\ SeenInv'
  BY <1>0, <1>2 DEF HeadInv, SeenInv
<1>7. RegisteredInv' /\ ReviewInv'
  BY <1>0 DEF IndexInv, RegisteredInv, ReviewInv, Held
<1>8. ListInv'
  BY <1>0, ListStays DEF IndexInv
<1> QED
  BY <1>3, <1>5, <1>6, <1>7, <1>8 DEF IndexInv

LEMMA IndexInit ==
    ASSUME FileIndexInit
    PROVE  IndexInv
<1>1. /\ head = 0 /\ 0 \in Heads /\ rows = [p \in Paths |-> NoRow]
      /\ calls = [c \in Calls |-> Idle] /\ told = [shown |-> {}, refused |-> {}, late |-> {}]
      /\ run = [status |-> "none", head |-> 0, reported |-> 0, registered |-> 0,
                indexed |-> FALSE]
      /\ listing = [cursor |-> All, got |-> <<>>, first |-> {}, done |-> FALSE]
      /\ review = [coverage |-> "none", posted |-> FALSE]
  BY FileIndexAssumption DEF FileIndexInit
<1>2. run \in Run /\ run.status = "none" /\ ~run.indexed
  BY <1>1 DEF Run
<1>3. NoRow \in Row /\ ~NoRow.changed /\ NoRow.diff = "unseen"
  BY DEF NoRow, Row
<1>4. \A p \in Paths : rows[p] = NoRow
  BY <1>1
<1>5. \A c \in Calls : calls[c] = Idle
  BY <1>1
<1>6. calls \in [Calls -> Call]
  <2> DEFINE idle == Idle
  <2>1. idle \in Call /\ calls = [c \in Calls |-> idle]
    BY <1>1, IdleIs
  <2> HIDE DEF idle
  <2> QED
    BY <2>1
<1>7. rows \in [Paths -> Row]
  <2> DEFINE row == NoRow
  <2>1. row \in Row /\ rows = [p \in Paths |-> row]
    BY <1>1, <1>3
  <2> HIDE DEF row
  <2> QED
    BY <2>1
<1>8. /\ review \in [coverage : {"none", "unknown", "incomplete", "complete"},
                     posted : BOOLEAN]
      /\ review.coverage = "none"
  BY <1>1
<1>9. told \in [shown : SUBSET Blocks, refused : SUBSET Blocks, late : SUBSET Blocks]
  BY <1>1
<1>10. FormedInv
  BY <1>1, <1>2, <1>5, <1>6, <1>7, <1>8, <1>9, IdleIs DEF FormedInv, FileIndexTypeOK
<1>11. Unregistered
  BY <1>2, <1>3, <1>4 DEF Unregistered
<1>12. StartInv
  BY <1>2, <1>3, <1>4, <1>5, <1>8, <1>11, IdleIs DEF StartInv
<1>13. HeadInv /\ RegisteredInv /\ SeenInv /\ ReviewInv
  BY <1>2, <1>8 DEF HeadInv, RegisteredInv, SeenInv, ReviewInv
<1>14. ListInv
  <2>1. /\ listing.cursor = All /\ listing.got = <<>> /\ listing.first = {} /\ ~listing.done
        /\ listing \in [cursor : Paths \cup {All}, got : Seq(Paths), first : SUBSET Paths,
                        done : BOOLEAN]
    BY <1>1
  <2>2. DOMAIN listing.got = {}
    BY <2>1
  <2> QED
    BY <2>1, <2>2 DEF ListInv
<1> QED
  BY <1>10, <1>12, <1>13, <1>14 DEF IndexInv

LEMMA IndexStep ==
    ASSUME IndexInv, [FileIndexNext]_vars
    PROVE  IndexInv'
<1>1. ASSUME NEW c \in Calls, NEW h \in Heads, Begin(c, h)
      PROVE  IndexInv'
  BY <1>1, BeginKeeps
<1>2. ASSUME NEW c \in Calls,
             \/ FullPass(c) \/ TerminalPass(c) \/ FetchDiff(c)
             \/ LookupFile(c) \/ MergeRanges(c)
      PROVE  IndexInv'
  <2>1. FormedInv /\ HeadInv /\ StartInv
    BY DEF IndexInv
  <2>2. \E k : Moves(c, k)
    BY <1>2, <2>1, PassMoves, FetchMoves, FileStepMoves
  <2>3. run.status # "none"
    <3>1. calls[c].pc # "idle"
      BY <1>2 DEF FullPass, TerminalPass, FetchDiff, LookupFile, MergeRanges, At
    <3> QED
      BY <2>1, <3>1, OpenRun
  <2>4. UNCHANGED <<head, run, rows, told, listing, review>>
    BY <1>2 DEF FullPass, TerminalPass, FetchDiff, LookupFile, MergeRanges
  <2> QED
    BY <2>2, <2>3, <2>4, CallMoves
<1>3. ASSUME NEW c \in Calls, Register(c)
      PROVE  IndexInv'
  BY <1>3, RegisterKeeps
<1>4. ASSUME NEW c \in Calls, StoreExposure(c) \/ AnswerDiff(c) \/ WriteRanges(c)
      PROVE  IndexInv'
  BY <1>4, StoreKeeps, AnswerKeeps, WriteKeeps
<1>5. ASSUME NEW c \in Calls, RequestFails(c)
      PROVE  IndexInv'
  BY <1>5, FailureKeeps
<1>6. ASSUME NEW c \in Calls, NEW path \in Paths \cup {All}, NEW chars \in Budgets,
             StartDiff(c, path, chars)
      PROVE  IndexInv'
  BY <1>6, StartKeeps
<1>7. ASSUME NEW c \in Calls, NEW path \in Paths, NEW side \in {"head", "base"},
             NEW range \in Ranges, StartFile(c, path, side, range)
      PROVE  IndexInv'
  BY <1>7, StartKeeps
<1>8. CASE ListFiles
  BY <1>8, ListKeeps
<1>9. CASE Finalize
  BY <1>9, FinalizeKeeps
<1>10. CASE Publish
  BY <1>10, RunEnds DEF Publish, Ended
<1>11. CASE Push
  BY <1>11, PushKeeps
<1>12. CASE EndRun
  BY <1>12, RunEnds DEF EndRun, Ended
<1>13. CASE UNCHANGED vars
  <2>1. UNCHANGED <<head, run, rows, calls, told, listing, review>>
    BY <1>13 DEF vars
  <2>2. OfRun' = OfRun /\ (\A b : Held(b)' <=> Held(b)) /\ (Unregistered' <=> Unregistered)
    BY <2>1 DEF OfRun, Held, Unregistered
  <2>3. FormedInv' /\ StartInv' /\ HeadInv' /\ RegisteredInv' /\ SeenInv' /\ ReviewInv'
    BY <2>1, <2>2 DEF IndexInv, FormedInv, FileIndexTypeOK, StartInv, HeadInv, Holds,
                      RegisteredInv, SeenInv, ReviewInv
  <2>4. ListInv'
    BY <2>1, ListStays DEF IndexInv
  <2> QED
    BY <2>3, <2>4 DEF IndexInv
<1> QED
  BY <1>1, <1>2, <1>3, <1>4, <1>5, <1>6, <1>7, <1>8, <1>9, <1>10, <1>11, <1>12, <1>13
     DEF FileIndexNext

LEMMA IndexAlways == FileIndexSpec => []IndexInv
<1>1. FileIndexInit => IndexInv
  BY IndexInit
<1>2. IndexInv /\ [FileIndexNext]_vars => IndexInv'
  BY IndexStep
<1> QED
  BY <1>1, <1>2, PTL DEF FileIndexSpec

-----------------------------------------------------------------------------
(* The theorems.                                                             *)

\* Every row of the run, every row of its file index and every open tool
\* call keep the values the schema and the code give them.
THEOREM IndexTypes == FileIndexSpec => []FileIndexTypeOK
<1>1. IndexInv => FileIndexTypeOK
  BY DEF IndexInv, FormedInv
<1> QED
  BY <1>1, IndexAlways, PTL

\* register_changed_files calls an index complete only for the files of the
\* head the run reviews, although each page of the list is of the head of
\* its own moment.
THEOREM RegistrationsAreOfTheHead == FileIndexSpec => []RegistrationIsOfTheHead
<1>1. IndexInv => RegistrationIsOfTheHead
  BY DEF IndexInv, RegisteredInv, RegistrationIsOfTheHead
<1> QED
  BY <1>1, IndexAlways, PTL

\* A review posted with complete coverage is one whose session was handed
\* the diff of every file of the head, but for what was recorded and then
\* refused to it, whatever calls were open at once, whatever failed and
\* whatever was pushed between their requests.
THEOREM CompleteReviewsWereSeen == FileIndexSpec => []CompleteCoverageWasSeen
<1>1. IndexInv => CompleteCoverageWasSeen
  BY DEF IndexInv, ReviewInv, CompleteCoverageWasSeen
<1> QED
  BY <1>1, IndexAlways, PTL

\* The cursor of eneo_pr_files misses no row that was there at the first
\* page and gives none twice, while other calls add rows.
THEOREM ListingsMissNothing == FileIndexSpec => []ListingMissesNothing
<1>1. ASSUME IndexInv
      PROVE  ListingMissesNothing
  <2>1. /\ listing.got \in Seq(Paths)
        /\ \A i, j \in DOMAIN listing.got : i < j => listing.got[i] < listing.got[j]
        /\ listing.done => \A p \in listing.first : \E i \in DOMAIN listing.got : listing.got[i] = p
    BY <1>1 DEF IndexInv, ListInv
  <2>2. ASSUME NEW i \in DOMAIN listing.got, NEW j \in DOMAIN listing.got,
               listing.got[i] = listing.got[j]
        PROVE  i = j
    <3>1. i \in Nat /\ j \in Nat /\ listing.got[i] \in Nat /\ listing.got[j] \in Nat
      <4>1. Paths \subseteq Nat
        BY FileIndexAssumption
      <4>2. i \in Nat /\ j \in Nat /\ listing.got[i] \in Paths /\ listing.got[j] \in Paths
        BY <2>1
      <4> QED
        BY <4>1, <4>2
    <3>2. ~(i < j) /\ ~(j < i)
      BY <2>1, <2>2, <3>1
    <3> QED
      BY <3>1, <3>2
  <2>3. IsInjective(listing.got)
    BY <2>2 DEF IsInjective
  <2>4. listing.done => listing.first \subseteq ToSet(listing.got)
    BY <2>1 DEF ToSet
  <2> QED
    BY <2>3, <2>4 DEF ListingMissesNothing
<1> QED
  BY <1>1, IndexAlways, PTL
=============================================================================

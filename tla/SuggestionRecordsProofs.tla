------------------------ MODULE SuggestionRecordsProofs ------------------------
(* Theorems of SuggestionRecords, for any findings, patches, hunks, limits and *)
(* any number of runs and calls.                                               *)
EXTENDS SuggestionRecords, TLAPS, FiniteSetTheorems, WellFoundedInduction

-----------------------------------------------------------------------------
(* The invariant, in its parts.                                              *)

\* The patches considered for findings can each be placed on the diff.
OptionsFit(options) ==
    \A f \in DOMAIN options : \A p \in options[f] : p \in Patches /\ Suggestible(p)

\* A call between its transactions stores what its options made it choose.
CallInv ==
    /\ call = [r \in Runs |-> call[r]]
    /\ \A r \in Runs :
          /\ call[r].pc = "idle" => call[r] = NoCall
          /\ call[r].pc = "select" => /\ call[r].options = Nothing
                                      /\ call[r].chosen = Nothing
          /\ call[r].pc = "store" => /\ call[r].chosen = Choose(call[r].options)
                                     /\ OptionsFit(call[r].options)

\* The rows of a finding have one patch, and it can be placed on the diff.
TableInv ==
    /\ \A one, other \in table : one.finding = other.finding => one.patch = other.patch
    /\ \A row \in table : Suggestible(row.patch)

\* What is on GitHub is of runs that ended.  Their rows stay, but for the runs
\* of which a call stored its rows later.
GithubInv ==
    /\ \A row \in github : row.run < run /\ (row.run \notin late => row \in table)
    /\ \A one, other \in github :
           one.finding = other.finding /\ {one.run, other.run} \cap late = {} =>
               one = other

RecordsInv == RecordsTypeOK /\ CallInv /\ TableInv /\ GithubInv

\* What RecordsTypeOK says of one call.
CallTyped(k) ==
    /\ k.pc \in {"idle", "select", "store"}
    /\ k.asked \subseteq Findings
    /\ DOMAIN k.offers \subseteq k.asked
    /\ \A f \in DOMAIN k.offers : k.offers[f] \in Patches
    /\ DOMAIN k.chosen \subseteq DOMAIN k.options
    /\ DOMAIN k.options \subseteq k.asked
    /\ \A f \in DOMAIN k.chosen : k.chosen[f] \in Patches

\* What CallInv says of one call.
CallSound(k) ==
    /\ k.pc = "idle" => k = NoCall
    /\ k.pc = "select" => k.options = Nothing /\ k.chosen = Nothing
    /\ k.pc = "store" => k.chosen = Choose(k.options) /\ OptionsFit(k.options)

\* Of the findings up to n, "chosen" has those whose turn gave them a patch.
Sound(chosen, n, options) ==
    /\ chosen = [f \in DOMAIN chosen |-> chosen[f]]
    /\ DOMAIN chosen \subseteq DOMAIN options \cap 1..n
    /\ \A f \in DOMAIN chosen : chosen[f] \in options[f]
    /\ Cardinality(DOMAIN chosen) <= Limit
    /\ \A f, g \in DOMAIN chosen : f # g => ~Overlap(chosen[f], chosen[g])

\* Whoever of the findings up to n is left out finds the review full, or its
\* lines taken, at its turn.
LeftOut(chosen, n, options) ==
    \A f \in (DOMAIN options \cap 1..n) \ DOMAIN chosen : \A p \in options[f] :
        \/ Cardinality({g \in DOMAIN chosen : g < f}) = Limit
        \/ \E g \in {g \in DOMAIN chosen : g < f} : Overlap(p, chosen[g])

\* "next" has one finding more than "chosen", and for it a patch that fits.
GivenOne(next, n, options, chosen) ==
    /\ next = [f \in DOMAIN next |-> next[f]]
    /\ DOMAIN next = DOMAIN chosen \cup {n}
    /\ next[n] \in options[n] /\ Fits(next[n], chosen)
    /\ \A g \in DOMAIN chosen : next[g] = chosen[g]

\* The first m turns, one after the other.
AreTurns(c, m, options) ==
    /\ c = [n \in 0..m |-> c[n]]
    /\ c[0] = Nothing
    /\ \A n \in 1..m : c[n] = Take(c[n - 1], n, options)

-----------------------------------------------------------------------------
(* Induction on the natural numbers, for sets of them.                        *)

\* A set of numbers that is not empty has a least element.
LEMMA LeastExists ==
    ASSUME NEW S \in SUBSET Nat, S # {}
    PROVE  \E k \in S : \A m \in S : k <= m
<1> DEFINE R == OpToRel(<, Nat)
<1>1. PICK k \in S : \A y \in S : ~(<<y, k>> \in R)
  <2> HIDE DEF R
  <2>1. IsWellFoundedOn(R, Nat)
    BY NatLessThanWellFounded DEF R
  <2> QED
    BY <2>1, WFMin
<1>2. \A m \in S : ~(m < k)
  <2> TAKE m \in S
  <2> SUFFICES ASSUME m < k PROVE FALSE
    OBVIOUS
  <2>1. m \in Nat /\ k \in Nat
    OBVIOUS
  <2>2. <<m, k>> \in R
    BY <2>1 DEF OpToRel
  <2> QED
    BY <1>1, <2>2
<1>3. \A m \in S : k <= m
  <2> TAKE m \in S
  <2>1. m \in Nat /\ k \in Nat /\ ~(m < k)
    BY <1>2
  <2> QED
    BY <2>1
<1> QED
  BY <1>3

\* A set of numbers up to n that has 0, and with each number the next, has
\* them all.
LEMMA UpTo ==
    ASSUME NEW n \in Nat, NEW S, 0 \in S, \A m \in 1..n : m - 1 \in S => m \in S
    PROVE  0..n \subseteq S
<1> SUFFICES ASSUME ~(0..n \subseteq S) PROVE FALSE
  OBVIOUS
<1> DEFINE Rest == 0..n \ S
<1>1. Rest \in SUBSET Nat /\ Rest # {}
  OBVIOUS
<1>2. PICK k \in Rest : \A m \in Rest : k <= m
  <2> HIDE DEF Rest
  <2> QED
    BY <1>1, LeastExists
<1>3. k \in 1..n /\ k \notin S
  BY <1>2
<1>4. k - 1 \in 0..n /\ ~(k <= k - 1)
  BY <1>3
<1>5. k - 1 \in S
  BY <1>2, <1>4
<1> QED
  BY <1>3, <1>5

-----------------------------------------------------------------------------
(* The loop over the findings.                                                *)

\* One more turn after the first m.
LEMMA OneMoreTurn ==
    ASSUME NEW m \in Nat, m # 0, NEW options, NEW c, AreTurns(c, m - 1, options)
    PROVE  \E d : AreTurns(d, m, options)
<1> DEFINE d == [n \in 0..m |-> IF n = m THEN Take(c[m - 1], m, options) ELSE c[n]]
<1>1. d = [n \in 0..m |-> d[n]]
  OBVIOUS
<1>2. d[0] = Nothing
  <2>1. 0 \in 0..m /\ 0 # m
    OBVIOUS
  <2>2. d[0] = c[0]
    BY <2>1
  <2> QED
    BY <2>2 DEF AreTurns
<1>3. ASSUME NEW n \in 1..m PROVE d[n] = Take(d[n - 1], n, options)
  <2>1. n \in 0..m /\ n - 1 \in 0..m /\ n - 1 # m
    OBVIOUS
  <2>2. d[n - 1] = c[n - 1]
    BY <2>1
  <2>3. CASE n = m
    <3>1. d[n] = Take(c[m - 1], m, options)
      BY <2>1, <2>3
    <3> HIDE DEF d
    <3> QED
      BY <2>2, <2>3, <3>1
  <2>4. CASE n # m
    <3>1. d[n] = c[n] /\ n \in 1..(m - 1)
      BY <2>1, <2>4
    <3>2. c[n] = Take(c[n - 1], n, options)
      BY <3>1 DEF AreTurns
    <3> HIDE DEF d
    <3> QED
      BY <2>2, <3>1, <3>2
  <2> QED
    BY <2>3, <2>4
<1>4. AreTurns(d, m, options)
  <2> HIDE DEF d
  <2> QED
    BY <1>1, <1>2, <1>3 DEF AreTurns
<1> QED
  BY <1>4

\* The turns can all be taken.
LEMMA TurnsExist ==
    ASSUME NEW options PROVE \A m \in Nat : \E c : AreTurns(c, m, options)
<1> TAKE m \in Nat
<1> DEFINE S == {n \in Nat : \E c : AreTurns(c, n, options)}
<1>1. 0 \in S
  <2> DEFINE c == [n \in 0..0 |-> Nothing]
  <2>1. c = [n \in 0..0 |-> c[n]] /\ c[0] = Nothing
    OBVIOUS
  <2>2. 1..0 = {}
    OBVIOUS
  <2>3. AreTurns(c, 0, options)
    <3> HIDE DEF c
    <3> QED
      BY <2>1, <2>2 DEF AreTurns
  <2> QED
    BY <2>3
<1>2. ASSUME NEW n \in 1..m, n - 1 \in S PROVE n \in S
  <2>1. n \in Nat /\ n # 0
    OBVIOUS
  <2>2. PICK c : AreTurns(c, n - 1, options)
    BY <1>2
  <2>3. \E d : AreTurns(d, n, options)
    BY <2>1, <2>2, OneMoreTurn
  <2> QED
    BY <2>1, <2>3
<1>3. 0..m \subseteq S
  <2> HIDE DEF S
  <2> QED
    BY <1>1, <1>2, UpTo
<1> QED
  BY <1>3

\* What Turns defines is the turns of the loop.
LEMMA TurnsAre ==
    ASSUME NEW options PROVE AreTurns(Turns(options), LastFinding, options)
<1> DEFINE Body(c) == [n \in 0..LastFinding |->
                          IF n = 0 THEN Nothing ELSE Take(c[n - 1], n, options)]
<1>0. LastFinding \in Nat
  BY RecordsAssumption
<1>1. PICK c : AreTurns(c, LastFinding, options)
  BY <1>0, TurnsExist
<1>2. c = Body(c)
  <2>1. ASSUME NEW n \in 0..LastFinding
        PROVE  c[n] = IF n = 0 THEN Nothing ELSE Take(c[n - 1], n, options)
    <3>1. n = 0 \/ n \in 1..LastFinding
      BY <1>0
    <3>2. c[0] = Nothing /\ \A k \in 1..LastFinding : c[k] = Take(c[k - 1], k, options)
      BY <1>1 DEF AreTurns
    <3>3. CASE n = 0
      BY <3>2, <3>3
    <3>4. CASE n # 0
      BY <3>1, <3>2, <3>4
    <3> QED
      BY <3>3, <3>4
  <2>2. c = [n \in 0..LastFinding |-> c[n]]
    BY <1>1 DEF AreTurns
  <2> QED
    BY <2>1, <2>2, Zenon
<1>3. Turns(options) = CHOOSE t : t = Body(t)
  BY DEF Turns
<1>4. Turns(options) = Body(Turns(options))
  <2> HIDE DEF Body
  <2> QED
    BY <1>2, <1>3
<1>5. ASSUME NEW t, t = Body(t) PROVE AreTurns(t, LastFinding, options)
  <2>1. \A n \in 0..LastFinding :
           t[n] = IF n = 0 THEN Nothing ELSE Take(t[n - 1], n, options)
    BY <1>5
  <2>2. t[0] = Nothing /\ \A n \in 1..LastFinding : t[n] = Take(t[n - 1], n, options)
    BY <1>0, <2>1
  <2>3. t = [n \in 0..LastFinding |-> t[n]]
    BY <1>5
  <2> QED
    BY <2>2, <2>3 DEF AreTurns
<1> HIDE DEF Body
<1> QED
  BY <1>4, <1>5

\* Before the first turn nothing is chosen.
LEMMA NothingIsSound ==
    ASSUME NEW options PROVE Sound(Nothing, 0, options) /\ LeftOut(Nothing, 0, options)
<1>1. DOMAIN Nothing = {} /\ Nothing = [f \in DOMAIN Nothing |-> Nothing[f]]
  BY DEF Nothing
<1>2. Cardinality({}) = 0 /\ Limit \in Nat
  BY FS_EmptySet, RecordsAssumption
<1>3. 1..0 = {}
  OBVIOUS
<1> QED
  BY <1>1, <1>2, <1>3 DEF Sound, LeftOut

\* What a turn that gives finding n a patch changes.
LEMMA TakeOne ==
    ASSUME NEW n, NEW options, NEW chosen, n \notin DOMAIN chosen, n \in DOMAIN options,
           \E p \in options[n] : Fits(p, chosen)
    PROVE  GivenOne(Take(chosen, n, options), n, options, chosen)
<1> DEFINE q == CHOOSE p \in options[n] : Fits(p, chosen)
           next == Take(chosen, n, options)
<1>1. next = [g \in DOMAIN chosen \cup {n} |-> IF g = n THEN q ELSE chosen[g]]
  BY Zenon DEF Take
<1>2. q \in options[n] /\ Fits(q, chosen)
  BY Zenon
<1> HIDE DEF q, next
<1>3. GivenOne(next, n, options, chosen)
  BY <1>1, <1>2 DEF GivenOne
<1> QED
  BY <1>3 DEF next

\* A turn keeps the selection sound, and what it leaves out is justified.
LEMMA TakeIsSound ==
    ASSUME NEW n \in Nat, n # 0, NEW options, NEW chosen, NEW next,
           next = Take(chosen, n, options),
           Sound(chosen, n - 1, options), LeftOut(chosen, n - 1, options)
    PROVE  Sound(next, n, options) /\ LeftOut(next, n, options)
<1> DEFINE D == DOMAIN chosen
           Gets == n \in DOMAIN options /\ \E p \in options[n] : Fits(p, chosen)
<1>1. /\ Limit \in Nat /\ n - 1 \in Nat
      /\ D \subseteq DOMAIN options \cap 1..(n - 1) /\ Cardinality(D) <= Limit
      /\ chosen = [f \in D |-> chosen[f]]
      /\ \A f \in D : chosen[f] \in options[f]
      /\ \A f, g \in D : f # g => ~Overlap(chosen[f], chosen[g])
  BY RecordsAssumption DEF Sound
<1>2. /\ IsFiniteSet(D) /\ Cardinality(D) \in Nat /\ n \notin D
      /\ D \subseteq 1..n /\ \A g \in D : g \in Nat /\ g < n
  <2>1. IsFiniteSet(1..(n - 1))
    <3>1. 1 \in Int /\ n - 1 \in Int
      OBVIOUS
    <3> QED
      BY <3>1, FS_Interval
  <2>2. IsFiniteSet(D)
    BY <1>1, <2>1, FS_Subset
  <2>3. \A g \in D : g \in Nat /\ g < n /\ g \in 1..n
    BY <1>1
  <2>4. n \notin D
    BY <2>3
  <2> QED
    BY <2>2, <2>3, <2>4, FS_CardinalityType
<1>3. \A f \in (DOMAIN options \cap 1..(n - 1)) \ D : \A p \in options[f] :
        \/ Cardinality({g \in D : g < f}) = Limit
        \/ \E g \in {g \in D : g < f} : Overlap(p, chosen[g])
  BY DEF LeftOut
<1>4. \A f \in 1..n : f # n => f \in 1..(n - 1)
  OBVIOUS
<1>5. CASE Gets
  <2>1. /\ next = [f \in DOMAIN next |-> next[f]] /\ DOMAIN next = D \cup {n}
        /\ next[n] \in options[n] /\ Fits(next[n], chosen)
        /\ \A g \in D : next[g] = chosen[g]
    <3>1. n \notin DOMAIN chosen /\ n \in DOMAIN options
      BY <1>2, <1>5
    <3>2. \E p \in options[n] : Fits(p, chosen)
      BY <1>5
    <3>3. GivenOne(Take(chosen, n, options), n, options, chosen)
      BY <3>1, <3>2, TakeOne, Zenon
    <3> QED
      BY <3>3 DEF GivenOne
  <2>2. Cardinality(D) < Limit /\ \A g \in D : ~Overlap(next[n], chosen[g])
    BY <2>1 DEF Fits
  <2>3. Cardinality(DOMAIN next) <= Limit
    <3>1. Cardinality(D \cup {n}) = Cardinality(D) + 1
      BY <1>2, FS_AddElement
    <3> QED
      BY <1>1, <1>2, <2>1, <2>2, <3>1
  <2>4. ASSUME NEW f \in DOMAIN next, NEW g \in DOMAIN next, f # g
        PROVE  ~Overlap(next[f], next[g])
    <3>1. CASE f \in D /\ g \in D
      BY <1>1, <2>1, <2>4, <3>1
    <3>2. CASE f = n
      <4>1. g \in D
        BY <2>1, <2>4, <3>2
      <4> QED
        BY <2>1, <2>2, <3>2, <4>1
    <3>3. CASE g = n
      <4>1. f \in D
        BY <2>1, <2>4, <3>3
      <4>2. ~Overlap(next[g], next[f])
        BY <2>1, <2>2, <3>3, <4>1
      <4> QED
        BY <4>2 DEF Overlap
    <3> QED
      BY <2>1, <3>1, <3>2, <3>3
  <2>5. DOMAIN next \subseteq DOMAIN options \cap 1..n
    BY <1>1, <1>2, <1>5, <2>1
  <2>6. \A f \in DOMAIN next : next[f] \in options[f]
    BY <1>1, <2>1
  <2>7. ASSUME NEW f \in (DOMAIN options \cap 1..n) \ DOMAIN next, NEW p \in options[f]
        PROVE  \/ Cardinality({g \in DOMAIN next : g < f}) = Limit
               \/ \E g \in {g \in DOMAIN next : g < f} : Overlap(p, next[g])
    <3>1. f \in (DOMAIN options \cap 1..(n - 1)) \ D
      BY <1>4, <2>1
    <3>2. ~(n < f)
      BY <3>1
    <3>3. {g \in DOMAIN next : g < f} = {g \in D : g < f}
      BY <2>1, <3>2
    <3> QED
      BY <1>3, <2>1, <3>1, <3>3
  <2> HIDE DEF D
  <2> QED
    BY <2>1, <2>3, <2>4, <2>5, <2>6, <2>7 DEF Sound, LeftOut
<1>6. CASE ~Gets
  <2>1. next = chosen
    BY <1>6, Zenon DEF Take
  <2>2. Sound(chosen, n, options)
    BY <1>1, <1>2 DEF Sound
  <2>3. ASSUME NEW f \in (DOMAIN options \cap 1..n) \ D, NEW p \in options[f]
        PROVE  \/ Cardinality({g \in D : g < f}) = Limit
               \/ \E g \in {g \in D : g < f} : Overlap(p, chosen[g])
    <3>1. CASE f = n
      <4>1. {g \in D : g < f} = D
        BY <1>2, <3>1
      <4>2. ~Fits(p, chosen)
        BY <1>6, <3>1
      <4>3. CASE ~(Cardinality(D) < Limit)
        BY <1>1, <1>2, <4>1, <4>3
      <4>4. CASE \E g \in D : Overlap(p, chosen[g])
        BY <4>1, <4>4
      <4> QED
        BY <4>2, <4>3, <4>4 DEF Fits
    <3>2. CASE f # n
      BY <1>3, <1>4, <3>2
    <3> QED
      BY <3>1, <3>2
  <2> QED
    BY <2>1, <2>2, <2>3 DEF LeftOut
<1> QED
  BY <1>5, <1>6

\* The selection that a call stores is sound, and so is what it leaves out.
LEMMA ChooseIsSound ==
    ASSUME NEW options
    PROVE  /\ Sound(Choose(options), LastFinding, options)
           /\ LeftOut(Choose(options), LastFinding, options)
<1> DEFINE t == Turns(options)
           S == {n \in 0..LastFinding : Sound(t[n], n, options) /\ LeftOut(t[n], n, options)}
<1>1. LastFinding \in Nat
  BY RecordsAssumption
<1>2. t[0] = Nothing /\ \A n \in 1..LastFinding : t[n] = Take(t[n - 1], n, options)
  BY TurnsAre DEF AreTurns
<1> HIDE DEF t
<1>3. 0 \in S
  <2>1. 0 \in 0..LastFinding
    BY <1>1
  <2> QED
    BY <1>2, <2>1, NothingIsSound
<1>4. ASSUME NEW n \in 1..LastFinding, n - 1 \in S PROVE n \in S
  <2>1. n \in Nat /\ n # 0 /\ n \in 0..LastFinding
    BY <1>1
  <2>2. /\ t[n] = Take(t[n - 1], n, options)
        /\ Sound(t[n - 1], n - 1, options) /\ LeftOut(t[n - 1], n - 1, options)
    BY <1>2, <1>4
  <2>3. Sound(t[n], n, options) /\ LeftOut(t[n], n, options)
    BY <2>1, <2>2, TakeIsSound
  <2> QED
    BY <2>1, <2>3
<1>5. 0..LastFinding \subseteq S
  <2> HIDE DEF S
  <2> QED
    BY <1>1, <1>3, <1>4, UpTo
<1>6. LastFinding \in S
  BY <1>1, <1>5
<1>7. Choose(options) = t[LastFinding]
  BY DEF Choose, t
<1> QED
  BY <1>6, <1>7

-----------------------------------------------------------------------------
(* The rows of a finding.                                                     *)

\* Rows of a finding have a first one.
LEMMA FirstExists ==
    ASSUME NEW rows \in SUBSET Row, NEW f, RowsOf(rows, f) # {}
    PROVE  \E p : p \in First(rows, f)
<1> DEFINE S == {row.id : row \in RowsOf(rows, f)}
<1>1. RowsOf(rows, f) \subseteq Row
  BY DEF RowsOf
<1>2. S \in SUBSET Nat /\ S # {}
  BY <1>1 DEF Row
<1>3. PICK k \in S : \A m \in S : k <= m
  <2> HIDE DEF S
  <2> QED
    BY <1>2, LeastExists
<1>4. PICK row \in RowsOf(rows, f) : row.id = k
  BY <1>3
<1>5. \A other \in RowsOf(rows, f) : row.id <= other.id
  BY <1>3, <1>4
<1>6. row.patch \in First(rows, f)
  BY <1>4, <1>5 DEF First
<1> QED
  BY <1>6

\* The first patch of a finding is one of its rows'.
LEMMA FirstIsOfRow ==
    ASSUME NEW rows, NEW f, NEW p \in First(rows, f)
    PROVE  \E row \in rows : row.finding = f /\ p = row.patch
BY DEF First, RowsOf

\* What is stored for a finding is the patch chosen if it has no row, and
\* else that of one of its rows.
LEMMA StoredPatchIs ==
    ASSUME NEW rows \in SUBSET Row, NEW f, NEW p
    PROVE  \/ RowsOf(rows, f) = {} /\ StoredPatch(rows, f, p) = p
           \/ \E row \in rows : row.finding = f /\ StoredPatch(rows, f, p) = row.patch
<1>1. CASE RowsOf(rows, f) = {}
  BY <1>1 DEF StoredPatch
<1>2. CASE RowsOf(rows, f) # {}
  <2>1. PICK q : q \in First(rows, f)
    BY <1>2, FirstExists
  <2>2. (CHOOSE one \in First(rows, f) : TRUE) \in First(rows, f)
    BY <2>1
  <2>3. StoredPatch(rows, f, p) = CHOOSE one \in First(rows, f) : TRUE
    BY <1>2 DEF StoredPatch
  <2>4. StoredPatch(rows, f, p) \in First(rows, f)
    BY <2>2, <2>3, Zenon
  <2> QED
    BY <2>4, FirstIsOfRow
<1> QED
  BY <1>1, <1>2

-----------------------------------------------------------------------------
(* The invariant is inductive.                                               *)

LEMMA ConstantTypes == /\ LastFinding \in Nat /\ MaxRuns \in Nat /\ MaxCalls \in Nat
                       /\ Runs \subseteq Nat /\ Findings \subseteq Nat
BY RecordsAssumption DEF Runs, Findings

LEMMA InitInv == RecordsInit => RecordsInv
<1> SUFFICES ASSUME RecordsInit PROVE RecordsInv
  OBVIOUS
<1>1. DOMAIN Nothing = {}
  BY DEF Nothing
<1>2. \A r \in Runs : call[r] = NoCall
  BY DEF RecordsInit
<1>3. RecordsTypeOK
  BY <1>1, <1>2, ConstantTypes, RecordsAssumption DEF RecordsInit, RecordsTypeOK, NoCall
<1>4. CallInv
  <2>1. call = [r \in Runs |-> call[r]]
    BY DEF RecordsInit
  <2> QED
    BY <1>2, <2>1 DEF CallInv, NoCall
<1>5. TableInv /\ GithubInv
  BY DEF RecordsInit, TableInv, GithubInv
<1> QED
  BY <1>3, <1>4, <1>5 DEF RecordsInv

\* What is considered for the findings of a call can be placed on the diff.
LEMMA CandidatesFit ==
    ASSUME RecordsInv, NEW f, NEW offered \in Patches, NEW p \in Candidates(f, offered)
    PROVE  p \in Patches /\ Suggestible(p)
<1>1. CASE p \in Canonical(f)
  <2>1. PICK row \in table : p = row.patch
    BY <1>1, FirstIsOfRow DEF Canonical
  <2>2. row \in Row /\ Suggestible(row.patch)
    BY DEF RecordsInv, RecordsTypeOK, TableInv
  <2> QED
    BY <2>1, <2>2 DEF Row
<1>2. CASE p = offered /\ Valid(f, p)
  BY <1>2 DEF Valid
<1> QED
  BY <1>1, <1>2 DEF Candidates

\* A step of one call that leaves it sound keeps what is said of the calls.
LEMMA CallMoves ==
    ASSUME RecordsInv, NEW r \in Runs, NEW k, call' = [call EXCEPT ![r] = k],
           CallTyped(k), CallSound(k)
    PROVE  /\ CallInv'
           /\ \A s \in Runs : CallTyped(call'[s]) /\ (s # r => call'[s] = call[s])
<1>1. call = [s \in Runs |-> call[s]]
  BY DEF RecordsInv, CallInv
<1>2. /\ call'[r] = k /\ \A s \in Runs : s # r => call'[s] = call[s]
      /\ call' = [s \in Runs |-> call'[s]]
  BY <1>1
<1>3. ASSUME NEW s \in Runs PROVE CallTyped(call[s]) /\ CallSound(call[s])
  BY DEF RecordsInv, RecordsTypeOK, CallInv, CallTyped, CallSound
<1>4. \A s \in Runs : CallTyped(call'[s]) /\ CallSound(call'[s])
  BY <1>2, <1>3
<1>5. CallInv'
  BY <1>2, <1>4 DEF CallInv, CallSound
<1> QED
  BY <1>2, <1>4, <1>5

LEMMA NoCallIsSound == CallTyped(NoCall) /\ CallSound(NoCall)
BY DEF CallTyped, CallSound, NoCall, Nothing

\* A step of a call that touches neither the table nor the runs.
LEMMA CallKeeps ==
    ASSUME RecordsInv, NEW r \in Runs, NEW k, call' = [call EXCEPT ![r] = k],
           CallTyped(k), CallSound(k), calls' \in 0..MaxCalls,
           UNCHANGED <<run, table, lastId, suppressed, github, late>>
    PROVE  RecordsInv'
<1>1. CallInv' /\ \A s \in Runs : CallTyped(call'[s])
  BY CallMoves
<1>2. RecordsTypeOK'
  BY <1>1 DEF RecordsInv, RecordsTypeOK, CallTyped
<1>3. TableInv' /\ GithubInv'
  BY DEF RecordsInv, TableInv, GithubInv
<1> QED
  BY <1>1, <1>2, <1>3 DEF RecordsInv

LEMMA RecordKeeps ==
    ASSUME RecordsInv, NEW recorded \in SUBSET Findings, NEW offers \in Offers(recorded),
           Record(recorded, offers)
    PROVE  RecordsInv'
<1> DEFINE left == [f \in DOMAIN offers \ suppressed |-> offers[f]]
           k == [pc |-> "select", asked |-> recorded, offers |-> left,
                 options |-> Nothing, chosen |-> Nothing]
<1>1. /\ run \in Runs /\ calls < MaxCalls
      /\ DOMAIN offers \subseteq recorded
      /\ call' = [call EXCEPT ![run] = k] /\ calls' = calls + 1
      /\ UNCHANGED <<run, table, lastId, suppressed, github, late>>
  BY DEF Record
<1>2. \A f \in DOMAIN offers : offers[f] \in Patches
  BY DEF Offers
<1>3. DOMAIN left \subseteq DOMAIN offers /\ \A f \in DOMAIN left : left[f] = offers[f]
  OBVIOUS
<1> HIDE DEF left
<1>4. CallTyped(k) /\ CallSound(k)
  BY <1>1, <1>2, <1>3 DEF CallTyped, CallSound, Nothing
<1>5. calls' \in 0..MaxCalls
  BY <1>1, ConstantTypes DEF RecordsInv, RecordsTypeOK
<1> HIDE DEF k
<1> QED
  BY <1>1, <1>4, <1>5, CallKeeps

LEMMA SelectKeeps ==
    ASSUME RecordsInv, NEW r \in Runs, Select(r)
    PROVE  RecordsInv'
<1> DEFINE offers == call[r].offers
           options == [f \in DOMAIN offers |-> Candidates(f, offers[f])]
           k == [pc |-> "store", asked |-> call[r].asked, offers |-> Nothing,
                 options |-> options, chosen |-> Choose(options)]
<1>1. /\ call[r].pc = "select" /\ call' = [call EXCEPT ![r] = k]
      /\ UNCHANGED <<run, calls, table, lastId, suppressed, github, late>>
  BY DEF Select
<1>2. /\ call[r].asked \subseteq Findings /\ DOMAIN offers \subseteq call[r].asked
      /\ \A f \in DOMAIN offers : offers[f] \in Patches
  BY DEF RecordsInv, RecordsTypeOK
<1>3. /\ DOMAIN options = DOMAIN offers
      /\ \A f \in DOMAIN offers : options[f] = Candidates(f, offers[f])
  OBVIOUS
<1> HIDE DEF options
<1>4. OptionsFit(options)
  BY <1>2, <1>3, CandidatesFit DEF OptionsFit
<1>5. /\ DOMAIN k.chosen \subseteq DOMAIN k.options
      /\ \A f \in DOMAIN k.chosen : k.chosen[f] \in Patches
  <2>1. Sound(Choose(options), LastFinding, options)
    BY ChooseIsSound
  <2> QED
    BY <1>4, <2>1 DEF Sound, OptionsFit
<1>6. CallTyped(k) /\ CallSound(k)
  BY <1>2, <1>3, <1>4, <1>5 DEF CallTyped, CallSound, Nothing
<1>7. calls' \in 0..MaxCalls
  BY <1>1 DEF RecordsInv, RecordsTypeOK
<1> HIDE DEF k
<1> QED
  BY <1>1, <1>6, <1>7, CallKeeps

LEMMA StoreKeeps ==
    ASSUME RecordsInv, NEW r \in Runs, Store(r)
    PROVE  RecordsInv'
<1> DEFINE kept == Without(table, r, call[r].asked)
           chosen == call[r].chosen
           new == Inserted(kept, r, chosen)
<1>1. /\ call[r].pc = "store" /\ table' = kept \cup new /\ lastId' = lastId + LastFinding
      /\ call' = [call EXCEPT ![r] = NoCall]
      /\ late' = late \cup ({r} \ {run})
      /\ UNCHANGED <<run, calls, suppressed, github>>
  BY DEF Store
<1>2. /\ table \subseteq Row /\ lastId \in Nat /\ \A row \in table : row.id <= lastId
      /\ \A one, other \in table :
            one.id = other.id \/ (one.run = other.run /\ one.finding = other.finding) =>
                one = other
      /\ \A one, other \in table : one.finding = other.finding => one.patch = other.patch
      /\ \A row \in table : Suggestible(row.patch)
  BY DEF RecordsInv, RecordsTypeOK, TableInv
<1>3. kept = {row \in table : ~(row.run = r /\ row.finding \in call[r].asked)}
  BY DEF Without
<1>4. \A f \in DOMAIN chosen : f \in call[r].asked /\ f \in Findings
  BY DEF RecordsInv, RecordsTypeOK
<1>5. \A f \in DOMAIN chosen : chosen[f] \in Patches /\ Suggestible(chosen[f])
  <2>1. chosen = Choose(call[r].options) /\ OptionsFit(call[r].options)
    BY <1>1 DEF RecordsInv, CallInv
  <2>2. Sound(chosen, LastFinding, call[r].options)
    BY <2>1, ChooseIsSound
  <2> QED
    BY <2>1, <2>2 DEF Sound, OptionsFit
<1> HIDE DEF kept, chosen
\* A row stored has the patch chosen for its finding, or that of a row kept.
<1>6. ASSUME NEW row \in new
      PROVE  /\ row \in Row /\ row.id = lastId + row.finding /\ row.run = r
             /\ row.finding \in DOMAIN chosen /\ Suggestible(row.patch)
             /\ \A other \in kept : other.finding = row.finding => other.patch = row.patch
  <2>1. PICK f \in DOMAIN chosen :
           row = [id |-> lastId + f, run |-> r, finding |-> f,
                  patch |-> StoredPatch(kept, f, chosen[f])]
    BY DEF Inserted
  <2>2. row.id = lastId + f /\ row.run = r /\ row.finding = f
        /\ row.patch = StoredPatch(kept, f, chosen[f])
    BY <2>1
  <2>3. kept \in SUBSET Row /\ kept \subseteq table
    BY <1>2, <1>3
  <2>4. /\ row.patch \in Patches /\ Suggestible(row.patch)
        /\ \A other \in kept : other.finding = f => other.patch = row.patch
    <3>1. CASE RowsOf(kept, f) = {} /\ StoredPatch(kept, f, chosen[f]) = chosen[f]
      <4>1. \A other \in kept : other.finding # f
        BY <3>1 DEF RowsOf
      <4> QED
        BY <1>5, <2>2, <3>1, <4>1
    <3>2. ASSUME NEW first \in kept, first.finding = f,
                 StoredPatch(kept, f, chosen[f]) = first.patch
          PROVE  /\ row.patch \in Patches /\ Suggestible(row.patch)
                 /\ \A other \in kept : other.finding = f => other.patch = row.patch
      <4>1. first \in Row /\ first \in table /\ row.patch = first.patch
        BY <2>2, <2>3, <3>2
      <4> QED
        BY <1>2, <2>3, <3>2, <4>1 DEF Row
    <3> QED
      BY <2>3, <3>1, <3>2, StoredPatchIs
  <2>5. row \in Row
    <3>1. row = [id |-> row.id, run |-> row.run, finding |-> row.finding, patch |-> row.patch]
      BY <2>1
    <3>2. row.id \in Nat /\ row.run \in Runs /\ row.finding \in Findings
      <4>1. f \in Findings /\ f \in Nat
        BY <1>4, ConstantTypes
      <4>2. lastId + f \in Nat
        BY <1>2, <4>1
      <4> QED
        BY <2>2, <4>1, <4>2
    <3> QED
      BY <2>4, <3>1, <3>2 DEF Row
  <2> QED
    BY <2>2, <2>4, <2>5
<1> HIDE DEF new
\* A row stored is for another observation than a row kept, and has a later id.
<1>7. ASSUME NEW row \in new, NEW other \in kept
      PROVE  ~(row.run = other.run /\ row.finding = other.finding) /\ row.id > other.id
  <2>1. other \in Row /\ other.id <= lastId /\ ~(other.run = r /\ other.finding \in call[r].asked)
    BY <1>2, <1>3
  <2>2. other.id \in Nat /\ row.finding \in Nat /\ row.finding > 0
    BY <1>6, <2>1, ConstantTypes DEF Row, Findings
  <2> QED
    BY <1>2, <1>4, <1>6, <2>1, <2>2
<1>8. \A one, other \in new : one.id = other.id \/ one.finding = other.finding => one = other
  <2> TAKE one \in new, other \in new
  <2>1. PICK f \in DOMAIN chosen :
           one = [id |-> lastId + f, run |-> r, finding |-> f,
                  patch |-> StoredPatch(kept, f, chosen[f])]
    BY DEF Inserted, new
  <2>2. PICK g \in DOMAIN chosen :
           other = [id |-> lastId + g, run |-> r, finding |-> g,
                    patch |-> StoredPatch(kept, g, chosen[g])]
    BY DEF Inserted, new
  <2>3. f \in Nat /\ g \in Nat
    BY <1>4, ConstantTypes
  <2>4. one.id = lastId + f /\ one.finding = f /\ other.id = lastId + g /\ other.finding = g
    BY <2>1, <2>2
  <2>5. SUFFICES ASSUME one.id = other.id \/ one.finding = other.finding PROVE f = g
    BY <2>1, <2>2
  <2> QED
    BY <1>2, <2>3, <2>4, <2>5
<1>9. CallInv' /\ \A s \in Runs : CallTyped(call'[s])
  BY <1>1, CallMoves, NoCallIsSound
<1>10. RecordsTypeOK'
  <2>1. table' \subseteq Row /\ lastId' \in Nat
    BY <1>1, <1>2, <1>3, <1>6, ConstantTypes
  <2>2. ASSUME NEW row \in table' PROVE row.id <= lastId'
    <3>1. CASE row \in kept
      BY <1>1, <1>2, <1>3, <3>1, ConstantTypes DEF Row
    <3>2. CASE row \in new
      <4>1. row.finding \in 1..LastFinding
        BY <1>6, <3>2 DEF Row, Findings
      <4> QED
        BY <1>1, <1>2, <1>6, <3>2, <4>1, ConstantTypes
    <3> QED
      BY <1>1, <3>1, <3>2
  <2>3. ASSUME NEW one \in table', NEW other \in table',
               one.id = other.id \/ (one.run = other.run /\ one.finding = other.finding)
        PROVE  one = other
    <3>1. one.id \in Nat /\ other.id \in Nat
      BY <2>1 DEF Row
    <3>2. CASE one \in kept /\ other \in kept
      BY <1>2, <1>3, <2>3, <3>2
    <3>3. CASE one \in new /\ other \in new
      BY <1>8, <2>3, <3>3
    <3>4. CASE one \in new /\ other \in kept
      BY <1>7, <2>3, <3>1, <3>4
    <3>5. CASE one \in kept /\ other \in new
      BY <1>7, <2>3, <3>1, <3>5
    <3> QED
      BY <1>1, <3>2, <3>3, <3>4, <3>5
  <2>4. \A s \in Runs : CallTyped(call'[s])
    BY <1>9
  <2>5. late' \subseteq Runs
    BY <1>1 DEF RecordsInv, RecordsTypeOK
  <2> QED
    BY <1>1, <2>1, <2>2, <2>3, <2>4, <2>5 DEF RecordsInv, RecordsTypeOK, CallTyped
<1>11. TableInv'
  <2>1. ASSUME NEW one \in table', NEW other \in table', one.finding = other.finding
        PROVE  one.patch = other.patch
    <3>1. CASE one \in kept /\ other \in kept
      BY <1>2, <1>3, <2>1, <3>1
    <3>2. CASE one \in new /\ other \in new
      BY <1>8, <2>1, <3>2
    <3>3. CASE one \in new /\ other \in kept
      BY <1>6, <2>1, <3>3
    <3>4. CASE one \in kept /\ other \in new
      BY <1>6, <2>1, <3>4
    <3> QED
      BY <1>1, <3>1, <3>2, <3>3, <3>4
  <2>2. \A row \in table' : Suggestible(row.patch)
    BY <1>1, <1>2, <1>3, <1>6
  <2> QED
    BY <2>1, <2>2 DEF TableInv
\* A row of r is not yet on GitHub, or r is among the late runs from now on.
<1>12. GithubInv'
  <2>1. ASSUME NEW row \in github, row.run \notin late' PROVE row \in table'
    <3>1. row \in table /\ row.run < run /\ row.run \in Nat
      BY <1>1, <2>1, ConstantTypes DEF RecordsInv, RecordsTypeOK, GithubInv, Row
    <3>2. row.run # r
      BY <1>1, <2>1, <3>1
    <3> QED
      BY <1>1, <1>3, <3>1, <3>2
  <2>2. late \subseteq late'
    BY <1>1
  <2> QED
    BY <1>1, <2>1, <2>2 DEF RecordsInv, GithubInv
<1> QED
  BY <1>9, <1>10, <1>11, <1>12 DEF RecordsInv

LEMMA CallFailsKeeps ==
    ASSUME RecordsInv, NEW r \in Runs, CallFails(r)
    PROVE  RecordsInv'
<1>1. /\ call' = [call EXCEPT ![r] = NoCall]
      /\ UNCHANGED <<run, calls, table, lastId, suppressed, github, late>>
  BY DEF CallFails
<1>2. calls' \in 0..MaxCalls
  BY <1>1 DEF RecordsInv, RecordsTypeOK
<1> QED
  BY <1>1, <1>2, CallKeeps, NoCallIsSound

LEMMA DecideKeeps ==
    ASSUME RecordsInv, NEW f \in Disputed, Decide(f)
    PROVE  RecordsInv'
<1>1. /\ suppressed' \subseteq Findings
      /\ UNCHANGED <<run, calls, table, lastId, call, github, late>>
  BY RecordsAssumption DEF Decide, RecordsInv, RecordsTypeOK
<1>2. RecordsTypeOK'
  BY <1>1 DEF RecordsInv, RecordsTypeOK
<1>3. CallInv' /\ TableInv' /\ GithubInv'
  BY <1>1 DEF RecordsInv, CallInv, TableInv, GithubInv
<1> QED
  BY <1>2, <1>3 DEF RecordsInv

\* The next run starts: what is on GitHub is of earlier ones still.
LEMMA NextRunKeeps ==
    ASSUME RecordsInv, run \in Runs, NextRun, UNCHANGED <<table, lastId, suppressed, call>>
    PROVE  /\ run' \in 1..(MaxRuns + 1) /\ calls' \in 0..MaxCalls
           /\ run \in Nat /\ run' = run + 1
           /\ CallInv' /\ TableInv'
BY ConstantTypes DEF NextRun, Runs, RecordsInv, CallInv, TableInv

LEMMA DeliverKeeps ==
    ASSUME RecordsInv, Deliver
    PROVE  RecordsInv'
<1>1. run \in Runs /\ NextRun /\ UNCHANGED <<table, lastId, suppressed, call, late>>
  BY DEF Deliver
<1>2. PICK selected \in SUBSET Offered(run) :
         github' = github \cup {row \in selected : ~Recovered(row)}
  BY DEF Deliver
<1>3. /\ run' \in 1..(MaxRuns + 1) /\ calls' \in 0..MaxCalls
      /\ run \in Nat /\ run' = run + 1 /\ CallInv' /\ TableInv'
  BY <1>1, NextRunKeeps
<1>4. \A row \in selected : row \in table /\ row.run = run
  BY DEF Offered
<1>5. ASSUME NEW row \in github'
      PROVE  row \in Row /\ row.run < run' /\ (row.run \notin late => row \in table)
  <2>1. CASE row \in github
    <3>1. row \in Row /\ row.run < run /\ (row.run \notin late => row \in table)
      BY <2>1 DEF RecordsInv, RecordsTypeOK, GithubInv
    <3>2. row.run \in Nat
      BY <3>1, ConstantTypes DEF Row
    <3> QED
      BY <1>3, <3>1, <3>2
  <2>2. CASE row \in selected
    BY <1>3, <1>4, <2>2 DEF RecordsInv, RecordsTypeOK
  <2> QED
    BY <1>2, <2>1, <2>2
<1>6. RecordsTypeOK'
  <2>1. github' \subseteq Row
    BY <1>5
  <2> QED
    BY <1>1, <1>3, <2>1 DEF RecordsInv, RecordsTypeOK
\* Rows of one finding have one patch, so one that is posted is recovered.
<1>7. ASSUME NEW one \in github', NEW other \in github', one.finding = other.finding,
             {one.run, other.run} \cap late = {}
      PROVE  one = other
  <2>1. one \in table /\ other \in table /\ one.patch = other.patch
    BY <1>5, <1>7 DEF RecordsInv, TableInv
  <2>2. CASE one \in github /\ other \in github
    BY <1>7, <2>2 DEF RecordsInv, GithubInv
  <2>3. CASE one \notin github /\ other \notin github
    BY <1>2, <1>4, <1>7, <2>1, <2>3 DEF RecordsInv, RecordsTypeOK
  <2>4. CASE one \notin github /\ other \in github
    <3>1. ~Recovered(one)
      BY <1>2, <2>4
    <3> QED
      BY <1>7, <2>1, <2>4, <3>1 DEF Recovered
  <2>5. CASE one \in github /\ other \notin github
    <3>1. ~Recovered(other)
      BY <1>2, <2>5
    <3> QED
      BY <1>7, <2>1, <2>5, <3>1 DEF Recovered
  <2> QED
    BY <2>2, <2>3, <2>4, <2>5
<1>8. GithubInv'
  BY <1>1, <1>5, <1>7 DEF GithubInv
<1> QED
  BY <1>3, <1>6, <1>8 DEF RecordsInv

LEMMA EndRunKeeps ==
    ASSUME RecordsInv, EndRun
    PROVE  RecordsInv'
<1>1. run \in Runs /\ NextRun /\ UNCHANGED <<table, lastId, suppressed, call, github, late>>
  BY DEF EndRun
<1>2. /\ run' \in 1..(MaxRuns + 1) /\ calls' \in 0..MaxCalls
      /\ run \in Nat /\ run' = run + 1 /\ CallInv' /\ TableInv'
  BY <1>1, NextRunKeeps
<1>3. RecordsTypeOK'
  BY <1>1, <1>2 DEF RecordsInv, RecordsTypeOK
<1>4. GithubInv'
  <2>1. ASSUME NEW row \in github PROVE row.run < run'
    <3>1. row.run < run /\ row.run \in Nat
      BY ConstantTypes DEF RecordsInv, RecordsTypeOK, GithubInv, Row
    <3> QED
      BY <1>2, <3>1
  <2> QED
    BY <1>1, <2>1 DEF RecordsInv, GithubInv
<1> QED
  BY <1>2, <1>3, <1>4 DEF RecordsInv

LEMMA NextInv == RecordsInv /\ [RecordsNext]_vars => RecordsInv'
<1> SUFFICES ASSUME RecordsInv, [RecordsNext]_vars PROVE RecordsInv'
  OBVIOUS
<1>1. CASE \E recorded \in Batches : \E offers \in Offers(recorded) : Record(recorded, offers)
  BY <1>1, RecordKeeps, RecordsAssumption
<1>0. CASE \E r \in Runs : Select(r)
  BY <1>0, SelectKeeps
<1>2. CASE \E r \in Runs : Store(r)
  BY <1>2, StoreKeeps
<1>3. CASE \E r \in Runs : CallFails(r)
  BY <1>3, CallFailsKeeps
<1>4. CASE \E f \in Disputed : Decide(f)
  BY <1>4, DecideKeeps
<1>5. CASE Deliver
  BY <1>5, DeliverKeeps
<1>6. CASE EndRun
  BY <1>6, EndRunKeeps
<1>7. CASE UNCHANGED vars
  BY <1>7 DEF vars, RecordsInv, RecordsTypeOK, CallInv, TableInv, GithubInv
<1> QED
  BY <1>0, <1>1, <1>2, <1>3, <1>4, <1>5, <1>6, <1>7 DEF RecordsNext

LEMMA AlwaysRecordsInv == RecordsSpec => []RecordsInv
BY InitInv, NextInv, PTL DEF RecordsSpec

-----------------------------------------------------------------------------
(* The theorems.                                                             *)

\* Every variable keeps to the values the columns, calls and GitHub can have;
\* an id is given once and an observation has one suggestion, however many
\* calls clear and store its rows.
THEOREM RecordsAreTyped == RecordsSpec => []RecordsTypeOK
<1>1. RecordsInv => RecordsTypeOK
  BY DEF RecordsInv
<1> QED
  BY <1>1, AlwaysRecordsInv, PTL

\* One patch is on record for a finding on this head, and no rerun puts another
\* one on the diff, for any number of runs whose calls interleave: the patch
\* stored first wins, and the rows of what was posted are only cleared by a call
\* that was under way when its run ended.
THEOREM NoPatchesCompete == RecordsSpec => []NoCompetingPatches
<1>1. RecordsInv => NoCompetingPatches
  BY DEF RecordsInv, TableInv, GithubInv, NoCompetingPatches
<1> QED
  BY <1>1, AlwaysRecordsInv, PTL

\* A patch that lies inside a hunk and touches an added line starts and ends
\* in the hunk.
LEMMA SuggestibleFits ==
    ASSUME NEW p \in Patches, Suggestible(p)
    PROVE  \E h \in Hunks :
              /\ h.first <= p.first /\ p.last <= h.last
              /\ \E n \in h.added : p.first <= n /\ n <= p.last
<1>1. PICK h \in Hunks : /\ p.first..p.last \subseteq h.first..h.last
                         /\ p.first..p.last \cap h.added # {}
  BY DEF Suggestible
<1>2. h.first \in Nat /\ h.last \in Nat
  BY RecordsAssumption
<1>3. p.first \in Nat /\ p.last \in Nat
  <2>1. FileLines \subseteq Nat
    BY RecordsAssumption DEF FileLines
  <2> QED
    BY <2>1 DEF Patches
<1>4. PICK n \in p.first..p.last : n \in h.added
  BY <1>1
<1>5. p.first \in p.first..p.last /\ p.last \in p.first..p.last
  BY <1>3, <1>4
<1>6. p.first \in h.first..h.last /\ p.last \in h.first..h.last
  BY <1>1, <1>5
<1> QED
  BY <1>2, <1>3, <1>4, <1>6

\* Every patch on record can be placed on the diff: it was validated against
\* the diff of this head, by this call or by the one that stored it first.
THEOREM PatchesAlwaysFit == RecordsSpec => []PatchesFitTheDiff
<1>1. RecordsInv => PatchesFitTheDiff
  <2> SUFFICES ASSUME RecordsInv, NEW row \in table
               PROVE  \E h \in Hunks :
                         /\ h.first <= row.patch.first /\ row.patch.last <= h.last
                         /\ \E n \in h.added : row.patch.first <= n /\ n <= row.patch.last
    BY DEF PatchesFitTheDiff
  <2>1. row.patch \in Patches /\ Suggestible(row.patch)
    BY DEF RecordsInv, RecordsTypeOK, TableInv, Row
  <2> QED
    BY <2>1, SuggestibleFits
<1> QED
  BY <1>1, AlwaysRecordsInv, PTL

\* The loop of _record_optional_suggestions makes the selection the operations
\* guide promises, for any findings, any options and any limit: no more than the
\* limit, no two on a common line, and nobody left out but for want of a valid
\* patch, of room, or of lines that more severe findings have not taken.
THEOREM SelectionFollowsPriority == RecordsSpec => []SelectionIsByPriority
<1>1. ASSUME RecordsInv, NEW r \in Runs, NEW chosen, NEW options,
             chosen = call[r].chosen, options = call[r].options
      PROVE  /\ Cardinality(DOMAIN chosen) <= Limit
             /\ \A f, g \in DOMAIN chosen : f # g => ~Overlap(chosen[f], chosen[g])
             /\ \A f \in DOMAIN options \ DOMAIN chosen : \A p \in options[f] :
                    \/ Cardinality({g \in DOMAIN chosen : g < f}) = Limit
                    \/ \E g \in {g \in DOMAIN chosen : g < f} : Overlap(p, chosen[g])
  <2>1. CASE call[r].pc # "store"
    <3>1. call[r].pc \in {"idle", "select"}
      BY <1>1, <2>1 DEF RecordsInv, RecordsTypeOK
    <3>2. DOMAIN chosen = {} /\ DOMAIN options = {}
      BY <1>1, <3>1 DEF RecordsInv, CallInv, NoCall, Nothing
    <3>3. Cardinality({}) = 0 /\ Limit \in Nat
      BY FS_EmptySet, RecordsAssumption
    <3> QED
      BY <3>2, <3>3
  <2>2. CASE call[r].pc = "store"
    <3>1. chosen = Choose(options)
      BY <1>1, <2>2 DEF RecordsInv, CallInv
    <3>2. Sound(chosen, LastFinding, options) /\ LeftOut(chosen, LastFinding, options)
      BY <3>1, ChooseIsSound
    <3>3. DOMAIN options \subseteq 1..LastFinding
      BY <1>1 DEF RecordsInv, RecordsTypeOK, Findings
    <3> QED
      BY <3>2, <3>3 DEF Sound, LeftOut
  <2> QED
    BY <2>1, <2>2
<1>2. RecordsInv => SelectionIsByPriority
  BY <1>1 DEF SelectionIsByPriority
<1> QED
  BY <1>2, AlwaysRecordsInv, PTL
=============================================================================

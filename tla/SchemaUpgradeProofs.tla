------------------------- MODULE SchemaUpgradeProofs -------------------------
(* Theorems of SchemaUpgrade, for any version after the twelfth, and any     *)
(* findings, databases, runs, publications, inits and stops.                 *)
EXTENDS SchemaUpgrade, TLAPS, FiniteSetTheorems, WellFoundedInduction

-----------------------------------------------------------------------------
(* The invariant, in its parts.                                              *)

Live == version = SchemaVersion

\* The steps of init_schema once it has made review_runs,
\* finding_observations, the index of the numbers, the runs and parts, and
\* the index of the current review what they are to be.
RunsMade == {"fill", "observations", "unnumber", "renumber", "parts", "unrun", "rerun",
             "current", "backfill", "version"}

ObservationsMade == RunsMade \ {"fill", "observations"}

NumberMade == ObservationsMade \ {"unnumber", "renumber"}

PartsMade == NumberMade \ {"parts"}

CurrentMade == {"backfill", "version"}

InitSet == [pc : {"off", "number", "status", "lifecycle", "rebuild"} \cup RunsMade,
            existing : 0..SchemaVersion, runs : Seq(Run), observations : [Findings -> Nat]]

\* What init_schema knows is so, also of what it read a step before.
InitInv ==
    /\ init \in InitSet
    /\ init.pc # "off" => init.existing = version
    /\ init.pc = "rebuild" => init.runs = runs /\ tables.runs # "current"
    /\ init.pc \in RunsMade => tables.runs = "current"
    /\ init.pc = "observations" => /\ init.observations = observations
                                   /\ tables.observations # "current"
    /\ init.pc \in {"unnumber", "renumber", "parts"} => ~Live
    /\ init.pc \in ObservationsMade => tables.observations = "current"
    /\ init.pc \in NumberMade => "number" \in indexes
    /\ init.pc \in CurrentMade => "current" \in indexes
    /\ Live => tables = Upgraded /\ {"number", "current"} \subseteq indexes

RunsInv ==
    /\ Live \/ init.pc \in PartsMade => \A i, j \in Running(runs) : i = j
    /\ Live => \A i \in DOMAIN runs : runs[i].counted \/ runs[i].files = 0
    /\ ~Live /\ init.pc \in RunsMade \ {"fill"} => \A i \in DOMAIN runs : runs[i].counted

\* The reviews that are posted without a number, or may yet be.
Unnumbered == {i \in DOMAIN publications :
    /\ publications[i].number = 0
    /\ publications[i].status = "generated" => runs[publications[i].run].status = "running"}

\* A run has one review.  The upgrade gives the posted reviews their numbers,
\* and clears the other ones' before the thirteenth version; it leaves one
\* running run, so that one review at most is posted without a number.
NumbersInv ==
    /\ \A i \in DOMAIN publications :
          /\ publications[i].run \in 0..Len(runs)
          /\ publications[i].status # "posted" => publications[i].run # 0
          /\ ~Live => publications[i].status \in {"generated", "posted"}
    /\ \A i, j \in DOMAIN publications :
          publications[i].run = publications[j].run /\ publications[i].run # 0 => i = j
    /\ \A i, j \in Posted(publications) :
          publications[i].number = publications[j].number /\ publications[i].number # 0
             => i = j
    /\ version <= 12 =>
          \/ \A i \in Posted(publications) : publications[i].number # 0
          \/ /\ version < 12 /\ init.pc \in {"off", "number"}
             /\ \A i \in Posted(publications) : publications[i].number = 0
    /\ version > 12 => \A i, j \in Unnumbered : i = j

ReviewsInv ==
    /\ Live \/ init.pc \in CurrentMade => \A i, j \in Current(publications) : i = j
    /\ version >= 8 \/ init.pc \in PartsMade =>
          \A i \in Posted(publications) : publications[i].part

ObservedInv ==
    version >= 3 \/ init.pc = "version" => \A f \in Findings : observations[f] > 0

UpgradeInv ==
    UpgradeTypeOK /\ InitInv /\ RunsInv /\ NumbersInv /\ ReviewsInv /\ ObservedInv

-----------------------------------------------------------------------------
(* Rows.                                                                     *)

LEMMA AtMostOne ==
    ASSUME NEW S, IsFiniteSet(S)
    PROVE  /\ Cardinality(S) \in Nat
           /\ Cardinality(S) <= 1 <=> \A i, j \in S : i = j
<1>1. Cardinality(S) \in Nat
  BY FS_CardinalityType
<1>2. ASSUME Cardinality(S) <= 1, NEW i \in S, NEW j \in S
      PROVE  i = j
  <2>1. Cardinality({i}) = 1 /\ IsFiniteSet({i})
    BY FS_Singleton
  <2>2. {i} \in SUBSET S
    OBVIOUS
  <2>3. Cardinality({i}) <= Cardinality(S) /\ (Cardinality({i}) = Cardinality(S) => {i} = S)
    BY <2>2, FS_Subset
  <2>4. {i} = S
    BY <1>1, <1>2, <2>1, <2>3
  <2> QED
    BY <2>4
<1>3. ASSUME \A i, j \in S : i = j
      PROVE  Cardinality(S) <= 1
  <2>1. CASE S = {}
    BY <2>1, FS_EmptySet
  <2>2. CASE S # {}
    <3>1. PICK i \in S : TRUE
      BY <2>2
    <3>2. S = {i}
      BY <1>3, <3>1
    <3> QED
      BY <3>2, FS_Singleton
  <2> QED
    BY <2>1, <2>2
<1> QED
  BY <1>1, <1>2, <1>3

\* Of numbers up to a bound one is the last.
LEMMA LastExists ==
    ASSUME NEW S \in SUBSET Nat, S # {}, NEW n \in Nat, \A m \in S : m <= n
    PROVE  \E k \in S : \A m \in S : m <= k
<1> DEFINE T == {k \in Nat : \A m \in S : m <= k}
           R == OpToRel(<, Nat)
<1>1. T \subseteq Nat /\ T # {}
  OBVIOUS
<1>2. PICK k \in T : \A y \in T : ~(<<y, k>> \in R)
  <2> HIDE DEF T, R
  <2>1. IsWellFoundedOn(R, Nat)
    BY NatLessThanWellFounded DEF R
  <2> QED
    BY <1>1, <2>1, WFMin
<1>3. k \in S
  <2> SUFFICES ASSUME k \notin S PROVE FALSE
    OBVIOUS
  <2>1. PICK l \in S : TRUE
    OBVIOUS
  <2>2. l \in Nat /\ l <= k /\ l # k /\ k \in Nat
    OBVIOUS
  <2>3. k - 1 \in Nat /\ k - 1 < k
    BY <2>2
  <2>4. \A m \in S : m <= k - 1
    <3> TAKE m \in S
    <3>1. m \in Nat /\ m <= k /\ m # k
      OBVIOUS
    <3> QED
      BY <3>1
  <2>5. k - 1 \in T
    BY <2>3, <2>4
  <2>6. <<k - 1, k>> \in R
    BY <2>2, <2>3 DEF OpToRel
  <2> QED
    BY <1>2, <2>5, <2>6
<1> QED
  BY <1>3

\* A set of rows of a table is a finite set of numbers.
LEMMA RowSets ==
    ASSUME NEW T, NEW rows \in Seq(T), NEW S, S \subseteq DOMAIN rows
    PROVE  /\ DOMAIN rows = 1..Len(rows) /\ Len(rows) \in Nat
           /\ S \in SUBSET Nat /\ IsFiniteSet(S) /\ Cardinality(S) \in Nat
           /\ \A m \in S : m <= Len(rows)
<1>1. DOMAIN rows = 1..Len(rows) /\ Len(rows) \in Nat
  OBVIOUS
<1>2. IsFiniteSet(1..Len(rows))
  BY <1>1, FS_Interval
<1>3. IsFiniteSet(S) /\ Cardinality(S) \in Nat
  BY <1>1, <1>2, FS_Subset, FS_CardinalityType
<1> QED
  BY <1>1, <1>3

LEMMA RowsAre ==
    ASSUME NEW T, NEW rows \in Seq(T), NEW new, DOMAIN new = DOMAIN rows,
           new = [i \in DOMAIN rows |-> new[i]], \A i \in DOMAIN rows : new[i] \in T
    PROVE  new \in Seq(T) /\ Len(new) = Len(rows)
<1>1. DOMAIN rows = 1..Len(rows) /\ Len(rows) \in Nat
  OBVIOUS
<1>2. new \in [1..Len(rows) -> T]
  BY <1>1
<1> QED
  BY <1>1, <1>2

\* A run that keeps everything but its counts, and one that fails.
SameRun(new, old) == new.status = old.status /\ new.phase = old.phase /\ new.files = old.files

Failed(new, old) ==
    /\ new.status = "failed" /\ new.phase = "failed" /\ new.files = old.files
    /\ new.counted = old.counted /\ new.complete = old.complete

\* What a run is, as SMT sees it.
LEMMA RunIs ==
    ASSUME NEW r \in Run
    PROVE  /\ r.status \in {"running", "done", "generated", "failed"}
           /\ r.phase \in {"", "accepted", "posted", "failed"}
           /\ r.files \in 0..1 /\ r.counted \in BOOLEAN /\ r.complete \in BOOLEAN
BY DEF Run

LEMMA RunFails ==
    ASSUME NEW r \in Run
    PROVE  LET s == [r EXCEPT !.status = "failed", !.phase = "failed"] IN
           s \in Run /\ Failed(s, r)
BY DEF Run, Failed

LEMMA LastRunsAre ==
    ASSUME NEW rows \in Seq(Run)
    PROVE  /\ LastRuns(rows) \in Seq(Run) /\ Len(LastRuns(rows)) = Len(rows)
           /\ DOMAIN LastRuns(rows) = DOMAIN rows
           /\ \A i \in DOMAIN rows :
                 IF rows[i].status = "running" /\ \E j \in Running(rows) : j > i
                 THEN Failed(LastRuns(rows)[i], rows[i])
                 ELSE LastRuns(rows)[i] = rows[i]
           /\ \A i, j \in Running(LastRuns(rows)) : i = j
           /\ \A i \in DOMAIN rows :
                 rows[i].status = "running" /\ LastRuns(rows)[i].status = "failed" =>
                    \E j \in Running(LastRuns(rows)) : j > i
           /\ (\A i, j \in Running(rows) : i = j) => LastRuns(rows) = rows
<1> DEFINE new == LastRuns(rows)
           Later(i) == \E j \in Running(rows) : j > i
<1>0. /\ DOMAIN rows = 1..Len(rows) /\ Len(rows) \in Nat
      /\ Running(rows) \in SUBSET Nat /\ \A m \in Running(rows) : m <= Len(rows)
  <2>1. Running(rows) \subseteq DOMAIN rows
    BY DEF Running
  <2> QED
    BY <2>1, RowSets
<1>1. DOMAIN new = DOMAIN rows /\ new = [i \in DOMAIN rows |-> new[i]]
  BY DEF LastRuns
<1>2. ASSUME NEW i \in DOMAIN rows
      PROVE  /\ new[i] \in Run
             /\ IF rows[i].status = "running" /\ Later(i) THEN Failed(new[i], rows[i])
                                                          ELSE new[i] = rows[i]
  <2>1. rows[i] \in Run
    OBVIOUS
  <2>2. new[i] = IF rows[i].status = "running" /\ Later(i)
                 THEN [rows[i] EXCEPT !.status = "failed", !.phase = "failed"] ELSE rows[i]
    BY DEF LastRuns
  <2> DEFINE r == rows[i]
             s == [r EXCEPT !.status = "failed", !.phase = "failed"]
  <2>3. s \in Run /\ Failed(s, r)
    BY <2>1, RunFails
  <2> HIDE DEF s, Later
  <2> QED
    BY <2>1, <2>2, <2>3 DEF s
<1>3. new \in Seq(Run) /\ Len(new) = Len(rows)
  <2> HIDE DEF new
  <2> QED
    BY <1>1, <1>2, RowsAre
<1> HIDE DEF new
<1>4. \A i \in Running(new) : i \in Running(rows) /\ ~Later(i) /\ i \in Nat
  <2> SUFFICES ASSUME NEW i \in Running(new)
               PROVE  i \in Running(rows) /\ ~Later(i)
    BY <1>0
  <2>1. i \in DOMAIN rows /\ new[i].status = "running"
    BY <1>1 DEF Running
  <2>2. new[i] = rows[i] /\ ~(rows[i].status = "running" /\ Later(i))
    BY <1>2, <2>1 DEF Failed
  <2> QED
    BY <2>1, <2>2 DEF Running
<1>5. ASSUME NEW i \in Running(new), NEW j \in Running(new)
      PROVE  i = j
  <2>1. ~(i < j) /\ ~(j < i) /\ i \in Nat /\ j \in Nat
    BY <1>4
  <2> QED
    BY <2>1
<1>6. ASSUME NEW i \in DOMAIN rows, Later(i)
      PROVE  \E j \in Running(new) : j > i
  <2> DEFINE S == {j \in Running(rows) : j > i}
  <2>1. S \in SUBSET Nat /\ S # {} /\ \A m \in S : m <= Len(rows)
    BY <1>0, <1>6
  <2>2. PICK k \in S : \A m \in S : m <= k
    <3> HIDE DEF S
    <3> QED
      BY <1>0, <2>1, LastExists
  <2>3. i \in Nat /\ k \in Nat /\ k > i /\ k \in Running(rows) /\ k \in DOMAIN rows
    BY <1>0, <2>2 DEF Running
  <2>4. ~Later(k)
    BY <1>0, <2>2, <2>3
  <2>5. new[k] = rows[k] /\ k \in DOMAIN new
    BY <1>1, <1>2, <2>3, <2>4
  <2>6. k \in Running(new)
    BY <2>3, <2>5 DEF Running
  <2> QED
    BY <2>3, <2>6
<1>7. ASSUME NEW i \in DOMAIN rows, rows[i].status = "running", new[i].status = "failed"
      PROVE  \E j \in Running(new) : j > i
  <2>1. Later(i)
    BY <1>2, <1>7
  <2> QED
    BY <1>6, <2>1
<1>8. ASSUME \A i, j \in Running(rows) : i = j
      PROVE  new = rows
  <2>1. ASSUME NEW i \in DOMAIN rows
        PROVE  new[i] = rows[i]
    <3>1. rows[i].status = "running" => i \in Running(rows) /\ i \in Nat
      BY <1>0 DEF Running
    <3>2. ~(rows[i].status = "running" /\ Later(i))
      BY <1>0, <1>8, <3>1
    <3> QED
      BY <1>2, <3>2
  <2>2. rows = [i \in DOMAIN rows |-> rows[i]]
    BY <1>0
  <2> QED
    BY <1>1, <2>1, <2>2
<1> QED
  BY <1>1, <1>2, <1>3, <1>5, <1>7, <1>8 DEF new

\* Counting adds counts alone, and nothing to a run that has them.
LEMMA FilledAre ==
    ASSUME NEW rows \in Seq(Run)
    PROVE  /\ Filled(rows) \in Seq(Run) /\ Len(Filled(rows)) = Len(rows)
           /\ DOMAIN Filled(rows) = DOMAIN rows
           /\ \A i \in DOMAIN rows :
                 /\ SameRun(Filled(rows)[i], rows[i]) /\ Filled(rows)[i].counted
                 /\ rows[i].counted \/ rows[i].files = 0 =>
                       Filled(rows)[i] = [rows[i] EXCEPT !.counted = TRUE]
           /\ Running(Filled(rows)) = Running(rows)
<1> DEFINE new == Filled(rows)
<1>0. DOMAIN rows = 1..Len(rows) /\ Len(rows) \in Nat
  OBVIOUS
<1>1. DOMAIN new = DOMAIN rows /\ new = [i \in DOMAIN rows |-> new[i]]
  BY DEF Filled
<1>2. ASSUME NEW i \in DOMAIN rows
      PROVE  /\ new[i] \in Run /\ SameRun(new[i], rows[i]) /\ new[i].counted
             /\ rows[i].counted \/ rows[i].files = 0 =>
                   new[i] = [rows[i] EXCEPT !.counted = TRUE]
  <2> DEFINE r == rows[i]
             yes == r.complete \/ r.files > 0
             s == [r EXCEPT !.counted = TRUE, !.complete = yes]
  <2>1. r \in Run /\ new[i] = IF r.counted THEN r ELSE s
    BY DEF Filled
  <2> HIDE DEF r
  <2>2. CASE r.counted
    <3>1. [r EXCEPT !.counted = TRUE] = r
      BY <2>1, <2>2 DEF Run
    <3> QED
      BY <2>1, <2>2, <3>1 DEF SameRun, r
  <2>3. CASE ~r.counted
    <3>1. yes \in BOOLEAN /\ (r.files = 0 => yes = r.complete)
      <4>1. r.files \in 0..1 /\ r.complete \in BOOLEAN
        BY <2>1, RunIs
      <4>2. r.files = 0 => ~(r.files > 0)
        BY <4>1
      <4> QED
        BY <4>1, <4>2
    <3> HIDE DEF yes
    <3>2. s \in Run /\ SameRun(s, r) /\ s.counted
      BY <2>1, <3>1 DEF Run, SameRun
    <3>3. r.files = 0 => s = [r EXCEPT !.counted = TRUE]
      BY <2>1, <3>1 DEF Run
    <3> QED
      BY <2>1, <2>3, <3>2, <3>3 DEF r
  <2> QED
    BY <2>2, <2>3
<1>3. new \in Seq(Run) /\ Len(new) = Len(rows)
  <2> HIDE DEF new
  <2> QED
    BY <1>1, <1>2, RowsAre
<1>4. Running(new) = Running(rows)
  <2> HIDE DEF new
  <2> QED
    BY <1>1, <1>2 DEF Running, SameRun
<1> HIDE DEF new
<1> QED
  BY <1>1, <1>2, <1>3, <1>4 DEF new

-----------------------------------------------------------------------------
(* Steps that change no row.                                                 *)

\* What OutcomesSurvive and RerunIsHarmless say of one step.
Survives ==
    \A i \in DOMAIN runs :
       /\ i \in DOMAIN runs'
       /\ runs[i].status \in {"generated", "failed"} => runs'[i].status = runs[i].status
       /\ runs[i].status = "done" => runs'[i].status \in {"done", "generated"}
       /\ runs[i].status = "running" /\ runs'[i].status = "failed" =>
              \E j \in Running(runs') : j > i

Harmless ==
    init.pc # "off" /\ init.existing = SchemaVersion /\ init' # init =>
       /\ UNCHANGED <<version, tables, publications, observations>>
       /\ runs' = [i \in DOMAIN runs |-> [runs[i] EXCEPT !.counted = runs'[i].counted]]

\* A step keeps the invariant and does what the two properties allow.
Keeps == UpgradeInv' /\ Survives /\ Harmless

LEMMA TypesAre ==
    ASSUME UpgradeTypeOK
    PROVE  /\ runs \in Seq(Run) /\ DOMAIN runs = 1..Len(runs) /\ Len(runs) \in Nat
           /\ publications \in Seq(Publication)
           /\ DOMAIN publications = 1..Len(publications) /\ Len(publications) \in Nat
           /\ version \in Nat /\ SchemaVersion \in Nat /\ SchemaVersion > 12
           /\ Live => version > 12
  <1>1. /\ runs \in Seq(Run) /\ publications \in Seq(Publication) /\ version \in 0..SchemaVersion
    BY DEF UpgradeTypeOK
  <1>2. SchemaVersion \in Nat /\ SchemaVersion > 12
    BY UpgradeAssumption
  <1> QED
    BY <1>1, <1>2 DEF Live

LEMMA SameRuns ==
    ASSUME UpgradeTypeOK, runs' = runs
    PROVE  /\ Survives
           /\ runs' = [i \in DOMAIN runs |-> [runs[i] EXCEPT !.counted = runs'[i].counted]]
<1>1. runs \in Seq(Run)
  BY DEF UpgradeTypeOK
<1>2. ASSUME NEW i \in DOMAIN runs
      PROVE  [runs[i] EXCEPT !.counted = runs[i].counted] = runs[i]
  <2>1. runs[i] \in Run
    BY <1>1
  <2> QED
    BY <2>1 DEF Run
<1>3. runs = [i \in DOMAIN runs |-> runs[i]]
  BY <1>1
<1>4. Survives
  BY DEF Survives
<1> QED
  BY <1>2, <1>3, <1>4

LEMMA GoIs ==
    ASSUME init \in InitSet, NEW step \in {"off", "number", "status", "lifecycle", "rebuild"} \cup RunsMade,
           Go(step)
    PROVE  /\ init' \in InitSet /\ init'.pc = step /\ init'.existing = init.existing
           /\ init'.runs = init.runs /\ init'.observations = init.observations
BY DEF InitSet, Go

LEMMA OffIs ==
    ASSUME Off
    PROVE  init' \in InitSet /\ init'.pc = "off"
<1>1. 0 \in 0..SchemaVersion /\ [f \in Findings |-> 0] \in [Findings -> Nat] /\ <<>> \in Seq(Run)
  BY UpgradeAssumption
<1> DEFINE none == [f \in Findings |-> 0]
<1>2. none \in [Findings -> Nat] /\ init' = [pc |-> "off", existing |-> 0, runs |-> <<>>, observations |-> none]
  BY <1>1 DEF Off, Idle
<1> HIDE DEF none
<1> QED
  BY <1>1, <1>2 DEF InitSet

\* The parts that are about the rows, when init goes to an earlier or equal
\* promise.
LEMMA RowsStay ==
    ASSUME UpgradeInv, UNCHANGED <<version, tables, runs, publications, observations>>,
           indexes' \subseteq {"running", "number", "current"},
           init'.pc \in RunsMade \ {"fill"} => init.pc \in RunsMade \ {"fill"},
           init'.pc \in PartsMade => init.pc \in PartsMade,
           init'.pc \in CurrentMade =>
              init.pc \in CurrentMade \/ \A i, j \in Current(publications) : i = j,
           init'.pc = "version" => init.pc = "version",
           init.pc \in {"off", "number"} => init'.pc \in {"off", "number"}
    PROVE  UpgradeTypeOK' /\ RunsInv' /\ NumbersInv' /\ ReviewsInv' /\ ObservedInv' /\ Survives /\ Harmless
<1>1. UpgradeTypeOK'
  BY DEF UpgradeInv, UpgradeTypeOK
<1>2. Live' <=> Live
  BY DEF Live
<1>3. RunsInv'
  BY <1>2 DEF UpgradeInv, RunsInv
<1>4. NumbersInv'
  BY <1>2 DEF UpgradeInv, NumbersInv, Unnumbered
<1>5. ReviewsInv'
  BY <1>2 DEF UpgradeInv, ReviewsInv
<1>6. ObservedInv'
  BY <1>2 DEF UpgradeInv, ObservedInv
<1>7. Survives /\ Harmless
  BY SameRuns DEF UpgradeInv, Harmless
<1> QED
  BY <1>1, <1>3, <1>4, <1>5, <1>6, <1>7

\* init starts, raises or is stopped.
LEMMA EdgesKeep ==
    ASSUME UpgradeInv, StartInit \/ Refuse \/ Stop
    PROVE  Keeps
<1>0. UNCHANGED <<version, tables, runs, publications, observations, indexes>>
  BY DEF StartInit, Refuse, Stop
<1>a. Live' <=> Live
  BY <1>0 DEF Live
<1>1. CASE Off
  <2>1. init' \in InitSet /\ init'.pc = "off"
    BY <1>1, OffIs
  <2>2. InitInv'
    BY <1>0, <1>a, <2>1 DEF UpgradeInv, InitInv, RunsMade, ObservationsMade, NumberMade, CurrentMade
  <2>3. indexes' \subseteq {"running", "number", "current"}
    BY <1>0 DEF UpgradeInv, UpgradeTypeOK
  <2> QED
    BY <1>0, <2>1, <2>2, <2>3, RowsStay
       DEF Keeps, UpgradeInv, RunsMade, ObservationsMade, NumberMade, PartsMade, CurrentMade
<1>2. CASE StartInit
  <2>1. init.pc = "off" /\ init' = [init EXCEPT !.pc = "number", !.existing = version]
    BY <1>2 DEF StartInit, At
  <2>2. init \in InitSet /\ version \in 0..SchemaVersion
    BY DEF UpgradeInv, InitInv, UpgradeTypeOK
  <2>3. init' \in InitSet /\ init'.pc = "number" /\ init'.existing = version
    BY <2>1, <2>2 DEF InitSet
  <2>4. InitInv'
    BY <1>0, <1>a, <2>3 DEF UpgradeInv, InitInv, RunsMade, ObservationsMade, NumberMade, CurrentMade
  <2>5. indexes' \subseteq {"running", "number", "current"}
    BY <1>0 DEF UpgradeInv, UpgradeTypeOK
  <2> QED
    BY <1>0, <2>1, <2>3, <2>4, <2>5, RowsStay
       DEF Keeps, UpgradeInv, RunsMade, ObservationsMade, NumberMade, PartsMade, CurrentMade
<1> QED
  BY <1>1, <1>2 DEF Refuse, Stop

\* The steps that read, or make and drop indexes.
LEMMA IndexStepsKeep ==
    ASSUME UpgradeInv,
           DropNumberIndex \/ CreateNumberIndex \/ DropRunIndex
    PROVE  Keeps
<1>0. /\ UNCHANGED <<version, tables, runs, publications, observations>>
      /\ init \in InitSet
  BY DEF DropNumberIndex, CreateNumberIndex, DropRunIndex, UpgradeInv, InitInv
<1>a. Live' <=> Live
  BY <1>0 DEF Live
<1>1. CASE DropNumberIndex
  <2>1. /\ init.pc = "unnumber" /\ indexes' = indexes \ {"number"} /\ Go("renumber")
    BY <1>1 DEF DropNumberIndex, At
  <2>2. /\ init' \in InitSet /\ init'.pc = "renumber" /\ init'.existing = init.existing
    BY <1>0, <2>1, GoIs DEF RunsMade
  <2>3. InitInv'
    BY <1>0, <1>a, <2>1, <2>2 DEF UpgradeInv, InitInv, RunsMade, ObservationsMade, NumberMade, CurrentMade
  <2>4. indexes' \subseteq {"running", "number", "current"}
    BY <2>1 DEF UpgradeInv, UpgradeTypeOK
  <2> QED
    BY <1>0, <2>1, <2>2, <2>3, <2>4, RowsStay
       DEF Keeps, UpgradeInv, RunsMade, ObservationsMade, NumberMade, PartsMade, CurrentMade
<1>2. CASE CreateNumberIndex
  <2>1. /\ init.pc = "renumber" /\ indexes' = indexes \cup {"number"} /\ Go("parts")
    BY <1>2 DEF CreateNumberIndex, At
  <2>2. /\ init' \in InitSet /\ init'.pc = "parts" /\ init'.existing = init.existing
    BY <1>0, <2>1, GoIs DEF RunsMade
  <2>3. InitInv'
    BY <1>0, <1>a, <2>1, <2>2 DEF UpgradeInv, InitInv, RunsMade, ObservationsMade, NumberMade, CurrentMade
  <2>4. indexes' \subseteq {"running", "number", "current"}
    BY <2>1 DEF UpgradeInv, UpgradeTypeOK
  <2> QED
    BY <1>0, <2>1, <2>2, <2>3, <2>4, RowsStay
       DEF Keeps, UpgradeInv, RunsMade, ObservationsMade, NumberMade, PartsMade, CurrentMade
<1>3. CASE DropRunIndex
  <2>1. /\ init.pc = "unrun" /\ indexes' = indexes \ {"running"} /\ Go("rerun")
    BY <1>3 DEF DropRunIndex, At
  <2>2. /\ init' \in InitSet /\ init'.pc = "rerun" /\ init'.existing = init.existing
    BY <1>0, <2>1, GoIs DEF RunsMade
  <2>3. InitInv'
    BY <1>0, <1>a, <2>1, <2>2
       DEF UpgradeInv, InitInv, RunsMade, ObservationsMade, NumberMade, CurrentMade
  <2>4. indexes' \subseteq {"running", "number", "current"}
    BY <2>1 DEF UpgradeInv, UpgradeTypeOK
  <2> QED
    BY <1>0, <2>1, <2>2, <2>3, <2>4, RowsStay
       DEF Keeps, UpgradeInv, RunsMade, ObservationsMade, NumberMade, PartsMade, CurrentMade
<1> QED
  BY <1>1, <1>2, <1>3

LEMMA CreationsKeep ==
    ASSUME UpgradeInv, CreateRunIndex \/ CreateCurrentIndex
    PROVE  Keeps
<1>0. /\ UNCHANGED <<version, tables, runs, publications, observations>>
      /\ init \in InitSet
  BY DEF CreateRunIndex, CreateCurrentIndex, UpgradeInv, InitInv
<1>a. Live' <=> Live
  BY <1>0 DEF Live
<1>1. CASE CreateRunIndex
  <2>1. /\ init.pc = "rerun" /\ indexes' = indexes \cup {"running"} /\ Go("current")
    BY <1>1 DEF CreateRunIndex, At
  <2>2. /\ init' \in InitSet /\ init'.pc = "current" /\ init'.existing = init.existing
    BY <1>0, <2>1, GoIs DEF RunsMade
  <2>3. InitInv'
    BY <1>0, <1>a, <2>1, <2>2 DEF UpgradeInv, InitInv, RunsMade, ObservationsMade, NumberMade, CurrentMade
  <2>4. indexes' \subseteq {"running", "number", "current"}
    BY <2>1 DEF UpgradeInv, UpgradeTypeOK
  <2> QED
    BY <1>0, <2>1, <2>2, <2>3, <2>4, RowsStay
       DEF Keeps, UpgradeInv, RunsMade, ObservationsMade, NumberMade, PartsMade, CurrentMade
<1>2. CASE CreateCurrentIndex
  <2>1. /\ init.pc = "current" /\ indexes' = indexes \cup {"current"} /\ Go("backfill")
        /\ Cardinality(Current(publications)) <= 1
    BY <1>2 DEF CreateCurrentIndex, At
  <2>2. /\ init' \in InitSet /\ init'.pc = "backfill" /\ init'.existing = init.existing
    BY <1>0, <2>1, GoIs DEF RunsMade
  <2>3. InitInv'
    BY <1>0, <1>a, <2>1, <2>2 DEF UpgradeInv, InitInv, RunsMade, ObservationsMade, NumberMade, CurrentMade
  <2>4. indexes' \subseteq {"running", "number", "current"}
    BY <2>1 DEF UpgradeInv, UpgradeTypeOK
  <2>5. \A i, j \in Current(publications) : i = j
    <3>1. Current(publications) \subseteq DOMAIN publications
      BY DEF Current, Posted
    <3>2. IsFiniteSet(Current(publications))
      BY <3>1, TypesAre, RowSets DEF UpgradeInv
    <3> QED
      BY <2>1, <3>2, AtMostOne
  <2> QED
    BY <1>0, <2>1, <2>2, <2>3, <2>4, <2>5, RowsStay
       DEF Keeps, UpgradeInv, RunsMade, ObservationsMade, NumberMade, PartsMade, CurrentMade
<1> QED
  BY <1>1, <1>2

LEMMA ReadRunsKeeps ==
    ASSUME UpgradeInv, ReadRuns
    PROVE  Keeps
<1>0. /\ UNCHANGED <<version, tables, runs, publications, observations, indexes>>
      /\ init \in InitSet /\ init.pc = "lifecycle" /\ runs \in Seq(Run)
  BY DEF ReadRuns, At, UpgradeInv, InitInv, UpgradeTypeOK
<1>a. Live' <=> Live
  BY <1>0 DEF Live
<1>b. indexes' \subseteq {"running", "number", "current"}
  BY <1>0 DEF UpgradeInv, UpgradeTypeOK
<1>1. CASE tables.runs = "current"
  <2>1. init' = [init EXCEPT !.pc = "fill"]
    BY <1>1 DEF ReadRuns
  <2>2. init' \in InitSet /\ init'.pc = "fill" /\ init'.existing = init.existing
    BY <1>0, <2>1, GoIs DEF RunsMade, Go
  <2>3. InitInv'
    BY <1>0, <1>1, <1>a, <2>2 DEF UpgradeInv, InitInv, RunsMade, ObservationsMade, NumberMade, CurrentMade
  <2> QED
    BY <1>0, <1>b, <2>2, <2>3, RowsStay
       DEF Keeps, UpgradeInv, RunsMade, ObservationsMade, NumberMade, PartsMade, CurrentMade
<1>2. CASE tables.runs # "current"
  <2>1. init' = [init EXCEPT !.pc = "rebuild", !.runs = runs]
    BY <1>2 DEF ReadRuns
  <2>2. init' \in InitSet /\ init'.pc = "rebuild" /\ init'.existing = init.existing
        /\ init'.runs = runs
    BY <1>0, <2>1 DEF InitSet
  <2>3. InitInv'
    BY <1>0, <1>2, <1>a, <2>2 DEF UpgradeInv, InitInv, RunsMade, ObservationsMade, NumberMade, CurrentMade
  <2> QED
    BY <1>0, <1>b, <2>2, <2>3, RowsStay
       DEF Keeps, UpgradeInv, RunsMade, ObservationsMade, NumberMade, PartsMade, CurrentMade
<1> QED
  BY <1>1, <1>2

\* The version is set when everything it stands for is done.
LEMMA SetVersionKeeps ==
    ASSUME UpgradeInv, SetVersion
    PROVE  Keeps
<1>0. /\ UNCHANGED <<tables, runs, publications, observations, indexes>>
      /\ init.pc = "version" /\ version' = SchemaVersion /\ init.existing = version
      /\ init' \in InitSet /\ init'.pc = "off"
  BY OffIs DEF SetVersion, At, UpgradeInv, InitInv
<1>a. Live' /\ SchemaVersion \in Nat /\ SchemaVersion > 12
  BY <1>0, UpgradeAssumption DEF Live
<1>1. UpgradeTypeOK'
  <2>1. SchemaVersion \in 0..SchemaVersion
    BY <1>a
  <2> QED
    BY <1>0, <2>1 DEF UpgradeInv, UpgradeTypeOK
<1>2. InitInv'
  <2>1. tables \in Shapes /\ tables.runs = "current" /\ tables.observations = "current"
    BY <1>0 DEF UpgradeInv, UpgradeTypeOK, InitInv, RunsMade, ObservationsMade
  <2>2. tables = Upgraded
    BY <2>1 DEF Shapes, Upgraded
  <2>3. {"number", "current"} \subseteq indexes
    BY <1>0 DEF UpgradeInv, InitInv, RunsMade, ObservationsMade, NumberMade, CurrentMade
  <2> QED
    BY <1>0, <1>a, <2>2, <2>3 DEF InitInv, RunsMade, ObservationsMade, NumberMade, CurrentMade
<1>3. RunsInv'
  BY <1>0, <1>a DEF UpgradeInv, RunsInv, RunsMade, ObservationsMade, NumberMade, PartsMade
<1>4. NumbersInv'
  <2>1. /\ NumbersInv /\ RunsInv /\ version \in Nat
        /\ DOMAIN runs = 1..Len(runs) /\ Len(runs) \in Nat
        /\ version <= 12 => ~Live
    BY TypesAre DEF UpgradeInv
  <2>2. \A i, j \in Unnumbered : i = j
    <3>1. CASE version > 12
      BY <2>1, <3>1 DEF NumbersInv
    <3>2. CASE version <= 12
      <4>1. ASSUME NEW i \in Unnumbered
            PROVE  /\ i \in DOMAIN publications /\ publications[i].run # 0
                   /\ publications[i].run \in Running(runs)
        <5>1. i \in DOMAIN publications /\ publications[i].number = 0
          BY DEF Unnumbered
        <5>2. publications[i].status # "posted"
          BY <1>0, <2>1, <3>2, <5>1 DEF NumbersInv, Posted
        <5>3. publications[i].status = "generated" /\ publications[i].run # 0
          BY <2>1, <3>2, <5>1, <5>2 DEF NumbersInv
        <5>4. runs[publications[i].run].status = "running"
          BY <5>3 DEF Unnumbered
        <5>5. publications[i].run \in 1..Len(runs)
          BY <2>1, <5>1, <5>3 DEF NumbersInv
        <5> QED
          BY <2>1, <5>1, <5>3, <5>4, <5>5 DEF Running
      <4>2. \A i, j \in Running(runs) : i = j
        BY <1>0, <2>1
           DEF RunsInv, PartsMade, NumberMade, ObservationsMade, RunsMade
      <4> QED
        BY <2>1, <4>1, <4>2 DEF NumbersInv
    <3> QED
      BY <2>1, <3>1, <3>2
  <2>3. Unnumbered' = Unnumbered
    BY <1>0 DEF Unnumbered
  <2>4. version' > 12 /\ ~(version' <= 12) /\ Live'
    BY <1>0, <1>a
  <2> QED
    BY <1>0, <2>1, <2>2, <2>3, <2>4 DEF NumbersInv
<1>5. ReviewsInv' /\ ObservedInv'
  BY <1>0, <1>a DEF UpgradeInv, ReviewsInv, ObservedInv, RunsMade, ObservationsMade, NumberMade,
                    PartsMade, CurrentMade
<1>6. Survives /\ Harmless
  BY <1>0, SameRuns DEF UpgradeInv, Harmless
<1> QED
  BY <1>1, <1>2, <1>3, <1>4, <1>5, <1>6 DEF Keeps, UpgradeInv

LEMMA BackfillKeeps ==
    ASSUME UpgradeInv, Backfill
    PROVE  Keeps
<1>0. /\ UNCHANGED <<version, tables, runs, publications, indexes>>
      /\ init.pc = "backfill" /\ init.existing = version
      /\ observations' = IF NeedsBackfill(init.existing)
                         THEN [f \in Findings |-> observations[f] + 1] ELSE observations
      /\ init \in InitSet /\ Go("version")
  BY DEF Backfill, At, UpgradeInv, InitInv
<1>a. /\ init' \in InitSet /\ init'.pc = "version" /\ init'.existing = init.existing
      /\ Live' <=> Live
  BY <1>0, GoIs DEF RunsMade, Live
<1>b. /\ version \in Nat /\ (Live => version > 12)
      /\ observations \in [Findings -> Nat]
  BY TypesAre DEF UpgradeInv, UpgradeTypeOK
<1>c. /\ observations' \in [Findings -> Nat] /\ \A f \in Findings : observations'[f] > 0
      /\ Live => observations' = observations
  <2>1. CASE version < 3
    <3>1. observations' = [f \in Findings |-> observations[f] + 1]
      BY <1>0, <2>1 DEF NeedsBackfill
    <3>2. \A f \in Findings : observations[f] + 1 \in Nat /\ observations[f] + 1 > 0
      BY <1>b
    <3> QED
      BY <1>b, <2>1, <3>1, <3>2
  <2>2. CASE ~(version < 3)
    BY <1>0, <1>b, <2>2 DEF NeedsBackfill, UpgradeInv, ObservedInv
  <2> QED
    BY <2>1, <2>2
<1>1. UpgradeTypeOK'
  BY <1>0, <1>c DEF UpgradeInv, UpgradeTypeOK
<1>2. InitInv'
  BY <1>0, <1>a DEF UpgradeInv, InitInv, RunsMade, ObservationsMade, NumberMade, CurrentMade
<1>3. RunsInv'
  BY <1>0, <1>a DEF UpgradeInv, RunsInv, RunsMade, ObservationsMade, NumberMade, PartsMade
<1>4. NumbersInv'
  BY <1>0, <1>a DEF UpgradeInv, NumbersInv, Unnumbered
<1>5. ReviewsInv' /\ ObservedInv'
  BY <1>0, <1>a, <1>c DEF UpgradeInv, ReviewsInv, ObservedInv, RunsMade, ObservationsMade, NumberMade,
                    PartsMade, CurrentMade
<1>6. Survives /\ Harmless
  BY <1>0, <1>c, SameRuns DEF UpgradeInv, Harmless, Live
<1> QED
  BY <1>1, <1>2, <1>3, <1>4, <1>5, <1>6 DEF Keeps, UpgradeInv

LEMMA RebuildObservationsKeeps ==
    ASSUME UpgradeInv, RebuildObservations
    PROVE  Keeps
<1>0. /\ UNCHANGED <<version, runs, publications, indexes>>
      /\ observations' = observations /\ tables' = [tables EXCEPT !.observations = "current"]
      /\ init.pc = "observations" /\ init.existing = version /\ tables.observations # "current"
      /\ tables.runs = "current" /\ init \in InitSet /\ Go("unnumber") /\ tables \in Shapes
  BY DEF RebuildObservations, At, UpgradeInv, InitInv, RunsMade, UpgradeTypeOK
<1>a. /\ init' \in InitSet /\ init'.pc = "unnumber" /\ init'.existing = init.existing
      /\ ~Live /\ ~Live' /\ version # SchemaVersion
  <2>1. init' \in InitSet /\ init'.pc = "unnumber" /\ init'.existing = init.existing
    BY <1>0, GoIs DEF RunsMade
  <2>2. ~Live
    BY <1>0 DEF UpgradeInv, InitInv, Upgraded
  <2> QED
    BY <1>0, <2>1, <2>2 DEF Live
<1>b. tables' \in Shapes /\ tables'.runs = tables.runs /\ tables'.observations = "current"
  BY <1>0 DEF Shapes
<1>1. UpgradeTypeOK'
  BY <1>0, <1>b DEF UpgradeInv, UpgradeTypeOK
<1>2. InitInv'
  BY <1>0, <1>a, <1>b DEF InitInv, RunsMade, ObservationsMade, NumberMade, CurrentMade
<1>3. RunsInv'
  BY <1>0, <1>a DEF UpgradeInv, RunsInv, RunsMade, ObservationsMade, NumberMade, PartsMade
<1>4. NumbersInv'
  BY <1>0, <1>a DEF UpgradeInv, NumbersInv, Unnumbered
<1>5. ReviewsInv' /\ ObservedInv'
  BY <1>0, <1>a DEF UpgradeInv, ReviewsInv, ObservedInv, RunsMade, ObservationsMade, NumberMade,
                    PartsMade, CurrentMade
<1>6. Survives /\ Harmless
  BY <1>0, <1>a, SameRuns DEF UpgradeInv, Harmless
<1> QED
  BY <1>1, <1>2, <1>3, <1>4, <1>5, <1>6 DEF Keeps, UpgradeInv

-----------------------------------------------------------------------------
(* Steps that change rows.                                                   *)

\* Reviews that keep their status and run.
SameReview(new, old) == new.status = old.status /\ new.run = old.run

LEMMA ReviewIs ==
    ASSUME NEW p \in Publication
    PROVE  /\ p.status \in {"generated", "posting", "posted", "publish_failed"}
           /\ p.run \in Nat /\ p.number \in Nat
           /\ p.part \in BOOLEAN /\ p.current \in BOOLEAN
BY DEF Publication

LEMMA NumberedAre ==
    ASSUME NEW existing \in Nat, publications \in Seq(Publication)
    PROVE  LET new == Numbered(existing) IN
           /\ new \in Seq(Publication) /\ Len(new) = Len(publications)
           /\ DOMAIN new = DOMAIN publications
           /\ \A i \in DOMAIN publications :
                 /\ SameReview(new[i], publications[i])
                 /\ new[i].part = publications[i].part
                 /\ new[i].current = publications[i].current
                 /\ publications[i].status = "posted" =>
                       new[i].number = IF existing < 12 /\ publications[i].number = 0
                                       THEN Cardinality(Earlier(i)) ELSE publications[i].number
           /\ existing > 12 => new = publications
<1> DEFINE new == Numbered(existing)
<1>0. /\ DOMAIN new = DOMAIN publications /\ new = [i \in DOMAIN publications |-> new[i]]
      /\ publications = [i \in DOMAIN publications |-> publications[i]]
  BY DEF Numbered
<1>1. ASSUME NEW i \in DOMAIN publications
      PROVE  /\ new[i] \in Publication /\ SameReview(new[i], publications[i])
             /\ new[i].part = publications[i].part
             /\ new[i].current = publications[i].current
             /\ publications[i].status = "posted" =>
                   new[i].number = IF existing < 12 /\ publications[i].number = 0
                                   THEN Cardinality(Earlier(i)) ELSE publications[i].number
             /\ existing > 12 => new[i] = publications[i]
  <2> DEFINE p == publications[i]
             n == Cardinality(Earlier(i))
             number == IF p.status = "posted"
                       THEN IF existing < 12 /\ p.number = 0 THEN n ELSE p.number
                       ELSE IF existing < 13 THEN 0 ELSE p.number
             q == [p EXCEPT !.number = number]
  <2>1. p \in Publication /\ new[i] = q
    BY DEF Numbered
  <2>2. n \in Nat
    <3>1. i \in Nat /\ Earlier(i) \subseteq 1..i
      BY DEF Earlier
    <3>2. IsFiniteSet(1..i)
      BY <3>1, FS_Interval
    <3> QED
      BY <3>1, <3>2, FS_Subset, FS_CardinalityType
  <2> HIDE DEF p, n
  <2>3. number \in Nat /\ (existing > 12 => number = p.number)
    <3>1. p.number \in Nat
      BY <2>1, ReviewIs
    <3> QED
      BY <2>2, <3>1
  <2>4. p.status = "posted" =>
           number = IF existing < 12 /\ p.number = 0 THEN n ELSE p.number
    OBVIOUS
  <2> HIDE DEF number
  <2>5. /\ q \in Publication /\ q.status = p.status /\ q.run = p.run /\ q.part = p.part
        /\ q.current = p.current /\ q.number = number
        /\ number = p.number => q = p
    BY <2>1, <2>3 DEF Publication
  <2> HIDE DEF q
  <2> QED
    BY <2>1, <2>3, <2>4, <2>5 DEF SameReview, p, n
<1>2. new \in Seq(Publication) /\ Len(new) = Len(publications)
  <2> HIDE DEF new
  <2> QED
    BY <1>0, <1>1, RowsAre
<1> HIDE DEF new
<1>3. existing > 12 => new = publications
  BY <1>0, <1>1
<1> QED
  BY <1>0, <1>1, <1>2, <1>3 DEF new

LEMMA SamePosted ==
    ASSUME NEW rows, NEW new, DOMAIN new = DOMAIN rows,
           \A i \in DOMAIN rows : SameReview(new[i], rows[i])
    PROVE  Posted(new) = Posted(rows)
BY DEF Posted, SameReview

\* The part about numbers, when no review changes its status or number and no
\* run begins to run.
LEMMA NumbersStay ==
    ASSUME UpgradeInv, version' = version, Len(runs') \in Nat, Len(runs) <= Len(runs'),
           \A j \in DOMAIN runs : runs'[j].status = "running" => runs[j].status = "running",
           DOMAIN publications' = DOMAIN publications,
           \A i \in DOMAIN publications :
              /\ SameReview(publications'[i], publications[i])
              /\ publications'[i].number = publications[i].number,
           init.pc \in {"off", "number"} => init'.pc \in {"off", "number"}
    PROVE  NumbersInv'
<1>1. /\ NumbersInv /\ version \in Nat /\ DOMAIN runs = 1..Len(runs) /\ Len(runs) \in Nat
      /\ Live' <=> Live
  BY TypesAre DEF UpgradeInv, Live
<1>2. Posted(publications') = Posted(publications)
  BY SamePosted
<1>3. \A i \in DOMAIN publications :
         /\ publications'[i].run = publications[i].run
         /\ publications'[i].status = publications[i].status
  BY DEF SameReview
<1>4. \A i \in DOMAIN publications' :
         /\ publications'[i].run \in 0..Len(runs')
         /\ publications'[i].status # "posted" => publications'[i].run # 0
         /\ ~Live' => publications'[i].status \in {"generated", "posted"}
  <2>1. \A n \in 0..Len(runs) : n \in 0..Len(runs')
    BY <1>1
  <2> QED
    BY <1>1, <1>3, <2>1 DEF NumbersInv
<1>5. \A i, j \in DOMAIN publications' :
         publications'[i].run = publications'[j].run /\ publications'[i].run # 0 => i = j
  BY <1>1, <1>3 DEF NumbersInv
<1>6. Unnumbered' \subseteq Unnumbered
  <2> SUFFICES ASSUME NEW i \in Unnumbered' PROVE i \in Unnumbered
    OBVIOUS
  <2>1. i \in DOMAIN publications /\ publications[i].number = 0
    BY DEF Unnumbered
  <2>2. CASE publications'[i].status # "generated"
    BY <1>3, <2>1, <2>2 DEF Unnumbered
  <2>3. CASE publications'[i].status = "generated"
    <3>1. /\ publications[i].status = "generated"
          /\ runs'[publications[i].run].status = "running"
      BY <1>3, <2>1, <2>3 DEF Unnumbered
    <3>2. publications[i].run \in 0..Len(runs) /\ publications[i].run # 0
      BY <1>1, <2>1, <3>1 DEF NumbersInv
    <3>3. publications[i].run \in DOMAIN runs
      BY <1>1, <3>2
    <3>4. runs[publications[i].run].status = "running"
      BY <3>1, <3>3
    <3> QED
      BY <2>1, <3>1, <3>4 DEF Unnumbered
  <2> QED
    BY <2>2, <2>3
<1>7. Posted(publications) \subseteq DOMAIN publications
  BY DEF Posted
<1>8. \A i, j \in Posted(publications') :
         publications'[i].number = publications'[j].number /\ publications'[i].number # 0 => i = j
  BY <1>1, <1>2, <1>7 DEF NumbersInv
<1>9. version' <= 12 =>
         \/ \A i \in Posted(publications') : publications'[i].number # 0
         \/ /\ version' < 12 /\ init'.pc \in {"off", "number"}
            /\ \A i \in Posted(publications') : publications'[i].number = 0
  BY <1>1, <1>2, <1>7 DEF NumbersInv
<1>10. version' > 12 => \A i, j \in Unnumbered' : i = j
  BY <1>1, <1>6 DEF NumbersInv
<1> QED
  BY <1>4, <1>5, <1>8, <1>9, <1>10 DEF NumbersInv

\* Each posted review without a number has one more before it, itself counted.
LEMMA EarlierCount ==
    ASSUME publications \in Seq(Publication),
           NEW i \in Posted(publications), publications[i].number = 0,
           NEW j \in Posted(publications), publications[j].number = 0
    PROVE  /\ Cardinality(Earlier(i)) # 0
           /\ i < j => Cardinality(Earlier(i)) # Cardinality(Earlier(j))
<1>1. i \in Nat \ {0} /\ j \in Nat \ {0}
  <2>1. DOMAIN publications = 1..Len(publications) /\ Len(publications) \in Nat
    OBVIOUS
  <2> QED
    BY <2>1 DEF Posted
<1>2. IsFiniteSet(Earlier(i)) /\ IsFiniteSet(Earlier(j))
  <2>1. IsFiniteSet(1..i) /\ IsFiniteSet(1..j)
    BY <1>1, FS_Interval
  <2>2. Earlier(i) \subseteq 1..i /\ Earlier(j) \subseteq 1..j
    BY DEF Earlier
  <2> QED
    BY <2>1, <2>2, FS_Subset
<1>3. i \in Earlier(i) /\ j \in Earlier(j)
  BY <1>1 DEF Earlier, Posted
<1>4. Cardinality(Earlier(i)) # 0
  BY <1>2, <1>3, FS_EmptySet
<1>5. ASSUME i < j
      PROVE  Cardinality(Earlier(i)) # Cardinality(Earlier(j))
  <2>1. Earlier(i) \subseteq Earlier(j)
    BY <1>1, <1>5 DEF Earlier
  <2>2. j \notin Earlier(i)
    BY <1>1, <1>5 DEF Earlier
  <2> QED
    BY <1>2, <1>3, <2>1, <2>2, FS_Subset
<1> QED
  BY <1>4, <1>5

LEMMA NumberKeeps ==
    ASSUME UpgradeInv, Number
    PROVE  Keeps
<1>0. /\ UNCHANGED <<version, tables, runs, observations, indexes>>
      /\ init.pc = "number" /\ init.existing = version
      /\ publications' = Numbered(version)
      /\ init \in InitSet /\ Go("status") /\ UpgradeTypeOK
  BY DEF Number, At, UpgradeInv, InitInv
<1>a. /\ init' \in InitSet /\ init'.pc = "status" /\ init'.existing = init.existing
      /\ Live' <=> Live
  BY <1>0, GoIs DEF Live
<1>b. /\ version \in Nat /\ (Live => version > 12)
      /\ publications \in Seq(Publication) /\ DOMAIN publications = 1..Len(publications)
      /\ Len(publications) \in Nat
  BY <1>0, TypesAre
<1>c. /\ publications' \in Seq(Publication) /\ Len(publications') = Len(publications)
      /\ DOMAIN publications' = DOMAIN publications
      /\ \A i \in DOMAIN publications :
            /\ SameReview(publications'[i], publications[i])
            /\ publications'[i].part = publications[i].part
            /\ publications'[i].current = publications[i].current
            /\ publications[i].status = "posted" =>
                  publications'[i].number =
                     IF version < 12 /\ publications[i].number = 0
                     THEN Cardinality(Earlier(i)) ELSE publications[i].number
      /\ version > 12 => publications' = publications
  BY <1>0, <1>b, NumberedAre
<1>d. Posted(publications') = Posted(publications)
  BY <1>c, SamePosted
<1>1. UpgradeTypeOK'
  BY <1>0, <1>c DEF UpgradeTypeOK
<1>2. InitInv'
  BY <1>0, <1>a DEF UpgradeInv, InitInv, RunsMade, ObservationsMade, NumberMade, CurrentMade
<1>3. RunsInv'
  BY <1>0, <1>a DEF UpgradeInv, RunsInv, RunsMade, ObservationsMade, NumberMade, PartsMade
<1>4. NumbersInv'
  <2>0. NumbersInv
    BY DEF UpgradeInv
  <2>1. CASE version > 12
    <3>1. publications' = publications
      BY <1>c, <2>1
    <3> QED
      BY <1>0, <1>a, <1>b, <2>0, <2>1, <3>1 DEF NumbersInv, Unnumbered
  <2>2. CASE version <= 12
    <3>0. ~Live /\ ~Live'
      BY <1>a, <1>b, <2>2
    <3>1. \A i \in DOMAIN publications' :
             /\ publications'[i].run = publications[i].run
             /\ publications'[i].status = publications[i].status
      BY <1>c DEF SameReview
    <3>2. Posted(publications) \subseteq DOMAIN publications
      BY DEF Posted
    <3>3. /\ \A i \in Posted(publications) : publications'[i].number # 0
          /\ \A i, j \in Posted(publications) :
                publications'[i].number = publications'[j].number => i = j
      <4>1. CASE \A i \in Posted(publications) : publications[i].number # 0
        <5>1. \A i \in Posted(publications) : publications'[i].number = publications[i].number
          BY <1>c, <3>2, <4>1 DEF Posted
        <5> QED
          BY <2>0, <4>1, <5>1 DEF NumbersInv
      <4>2. CASE version < 12 /\ \A i \in Posted(publications) : publications[i].number = 0
        <5>1. \A i \in Posted(publications) :
                 publications'[i].number = Cardinality(Earlier(i))
          BY <1>c, <3>2, <4>2 DEF Posted
        <5>2. \A i \in Posted(publications) : publications'[i].number # 0
          BY <1>b, <4>2, <5>1, EarlierCount
        <5>3. ASSUME NEW i \in Posted(publications), NEW j \in Posted(publications), i # j
              PROVE  publications'[i].number # publications'[j].number
          <6>1. i \in Nat /\ j \in Nat
            BY <1>b, <3>2
          <6>2. i < j \/ j < i
            BY <5>3, <6>1
          <6> QED
            BY <1>b, <4>2, <5>1, <6>2, EarlierCount
        <5> QED
          BY <5>2, <5>3
      <4> QED
        BY <1>0, <2>0, <2>2, <4>1, <4>2 DEF NumbersInv
    <3>4. \A i \in DOMAIN publications' :
             /\ publications'[i].run \in 0..Len(runs')
             /\ publications'[i].status # "posted" => publications'[i].run # 0
             /\ publications'[i].status \in {"generated", "posted"}
      BY <1>0, <1>c, <2>0, <3>0, <3>1 DEF NumbersInv
    <3>5. \A i, j \in DOMAIN publications' :
             publications'[i].run = publications'[j].run /\ publications'[i].run # 0 => i = j
      BY <1>c, <2>0, <3>1 DEF NumbersInv
    <3>6. ~(version' > 12)
      BY <1>0, <1>b, <2>2
    <3> QED
      BY <1>d, <3>0, <3>3, <3>4, <3>5, <3>6 DEF NumbersInv
  <2> QED
    BY <1>b, <2>1, <2>2
<1>5. ReviewsInv' /\ ObservedInv'
  <2>1. Current(publications') = Current(publications)
    BY <1>c, <1>d DEF Current, Posted
  <2>2. \A i \in Posted(publications) : publications'[i].part = publications[i].part
    BY <1>c DEF Posted
  <2> QED
    BY <1>0, <1>a, <1>d, <2>1, <2>2
       DEF UpgradeInv, ReviewsInv, ObservedInv, RunsMade, ObservationsMade, NumberMade,
           PartsMade, CurrentMade
<1>6. Survives /\ Harmless
  BY <1>0, <1>b, <1>c, SameRuns DEF UpgradeInv, Harmless, Live
<1> QED
  BY <1>1, <1>2, <1>3, <1>4, <1>5, <1>6 DEF Keeps, UpgradeInv

\* The parts about reviews, when only runs change and init goes on.
LEMMA ReviewsStay ==
    ASSUME UpgradeInv, UNCHANGED <<version, publications, observations>>,
           Len(runs') = Len(runs),
           \A j \in DOMAIN runs : runs'[j].status = "running" => runs[j].status = "running",
           init'.pc \in PartsMade => init.pc \in PartsMade,
           init'.pc \in CurrentMade => init.pc \in CurrentMade,
           init'.pc = "version" => init.pc = "version",
           init.pc \in {"off", "number"} => init'.pc \in {"off", "number"}
    PROVE  NumbersInv' /\ ReviewsInv' /\ ObservedInv'
<1>1. Live' <=> Live
  BY DEF Live
<1>2. NumbersInv'
  <2>1. /\ Len(runs) \in Nat /\ Len(runs') \in Nat /\ Len(runs) <= Len(runs')
        /\ \A i \in DOMAIN publications :
              /\ SameReview(publications'[i], publications[i])
              /\ publications'[i].number = publications[i].number
    BY TypesAre DEF UpgradeInv, SameReview
  <2> QED
    BY <2>1, NumbersStay
<1>3. ReviewsInv'
  BY <1>1 DEF UpgradeInv, ReviewsInv
<1>4. ObservedInv'
  BY DEF UpgradeInv, ObservedInv
<1> QED
  BY <1>2, <1>3, <1>4

\* A run whose status is named anew.
LEMMA RunRenamed ==
    ASSUME NEW r \in Run, NEW status \in {"running", "done", "generated", "failed"},
           NEW phase \in {"", "accepted", "posted", "failed"}
    PROVE  LET s == [r EXCEPT !.status = status, !.phase = phase] IN
           s \in Run /\ s.status = status /\ s.phase = phase
BY DEF Run

LEMMA MigrateStatusKeeps ==
    ASSUME UpgradeInv, MigrateStatus
    PROVE  Keeps
<1>0. /\ UNCHANGED <<version, publications, observations, indexes>>
      /\ init.pc = "status" /\ init.existing = version
      /\ init \in InitSet /\ Go("lifecycle") /\ UpgradeTypeOK
      /\ runs \in Seq(Run) /\ tables \in Shapes
  BY DEF MigrateStatus, At, UpgradeInv, InitInv, UpgradeTypeOK
<1>a. /\ init' \in InitSet /\ init'.pc = "lifecycle" /\ init'.existing = init.existing
      /\ Live' <=> Live
  BY <1>0, GoIs DEF Live
<1>1. CASE tables.runs # "done"
  <2>1. UNCHANGED <<runs, tables>>
    BY <1>1 DEF MigrateStatus
  <2>2. InitInv'
    BY <1>0, <1>a, <2>1 DEF UpgradeInv, InitInv, RunsMade, ObservationsMade, NumberMade, CurrentMade
  <2>3. indexes' \subseteq {"running", "number", "current"}
    BY <1>0 DEF UpgradeTypeOK
  <2> QED
    BY <1>0, <1>a, <2>1, <2>2, <2>3, RowsStay
       DEF Keeps, UpgradeInv, RunsMade, ObservationsMade, NumberMade, PartsMade, CurrentMade
<1>2. CASE tables.runs = "done"
  <2>1. /\ runs' = [i \in DOMAIN runs |->
              [runs[i] EXCEPT !.status = IF @ = "done" THEN "generated" ELSE @]]
        /\ tables' = [tables EXCEPT !.runs = "plain"]
    BY <1>2 DEF MigrateStatus
  <2>2. ~Live
    BY <1>2 DEF UpgradeInv, InitInv, Upgraded
  <2>3. tables' \in Shapes /\ tables'.runs = "plain" /\ tables'.observations = tables.observations
    BY <1>0, <2>1 DEF Shapes
  <2>4. ASSUME NEW i \in DOMAIN runs
        PROVE  /\ runs'[i] \in Run /\ runs'[i].phase = ""
               /\ runs'[i].status = IF runs[i].status = "done" THEN "generated" ELSE runs[i].status
    <3> DEFINE r == runs[i]
               status == IF r.status = "done" THEN "generated" ELSE r.status
               s == [r EXCEPT !.status = status]
    <3>a. r \in Run
      BY <1>0
    <3>b. r.phase = ""
      BY <1>0, <1>2 DEF UpgradeTypeOK
    <3>c. runs'[i] = s
      BY <2>1
    <3>1. r \in Run /\ runs'[i] = s /\ r.phase = ""
      BY <3>a, <3>b, <3>c
    <3> HIDE DEF r
    <3>2. status \in {"running", "done", "generated", "failed"}
      BY <3>1, RunIs
    <3> HIDE DEF status
    <3>3. s \in Run /\ s.status = status /\ s.phase = r.phase
      BY <3>1, <3>2 DEF Run
    <3> QED
      BY <3>1, <3>3 DEF status, r
  <2>5. DOMAIN runs' = DOMAIN runs /\ runs' = [i \in DOMAIN runs |-> runs'[i]]
    BY <2>1
  <2>6. runs' \in Seq(Run) /\ Len(runs') = Len(runs)
    BY <1>0, <2>4, <2>5, RowsAre
  <2>7. UpgradeTypeOK'
    BY <1>0, <2>3, <2>4, <2>5, <2>6 DEF UpgradeTypeOK
  <2>8. InitInv'
    BY <1>0, <1>a, <2>2, <2>3 DEF UpgradeInv, InitInv, RunsMade, ObservationsMade, NumberMade, CurrentMade
  <2>9. RunsInv'
    BY <1>a, <2>2 DEF RunsInv, RunsMade, ObservationsMade, NumberMade, PartsMade
  <2>10. NumbersInv' /\ ReviewsInv' /\ ObservedInv'
    <3>1. \A i \in DOMAIN runs : runs'[i].status = "running" => runs[i].status = "running"
      BY <2>4
    <3> QED
      BY <1>0, <1>a, <2>6, <3>1, ReviewsStay
         DEF RunsMade, ObservationsMade, NumberMade, PartsMade, CurrentMade
  <2>11. Survives
    BY <2>4, <2>5 DEF Survives
  <2>12. Harmless
    BY <1>0, <2>2 DEF Harmless, Live
  <2> QED
    BY <2>7, <2>8, <2>9, <2>10, <2>11, <2>12 DEF Keeps, UpgradeInv
<1> QED
  BY <1>1, <1>2

LEMMA RebuildRunsKeeps ==
    ASSUME UpgradeInv, RebuildRuns
    PROVE  Keeps
<1>0. /\ UNCHANGED <<version, publications, observations, indexes>>
      /\ init.pc = "rebuild" /\ init.existing = version /\ tables.runs # "current"
      /\ init \in InitSet /\ Go("fill") /\ UpgradeTypeOK
      /\ runs \in Seq(Run) /\ tables \in Shapes
      /\ runs' = [i \in DOMAIN runs |-> WithPhase(runs[i])]
      /\ tables' = [tables EXCEPT !.runs = "current"]
  BY DEF RebuildRuns, At, UpgradeInv, InitInv, UpgradeTypeOK
<1>a. /\ init' \in InitSet /\ init'.pc = "fill" /\ init'.existing = init.existing
      /\ ~Live /\ ~Live'
  <2>1. init' \in InitSet /\ init'.pc = "fill" /\ init'.existing = init.existing
    BY <1>0, GoIs DEF RunsMade
  <2>2. ~Live
    BY <1>0 DEF UpgradeInv, InitInv, Upgraded
  <2> QED
    BY <1>0, <2>1, <2>2 DEF Live
<1>b. tables' \in Shapes /\ tables'.runs = "current" /\ tables'.observations = tables.observations
  BY <1>0 DEF Shapes
<1>c. ASSUME NEW i \in DOMAIN runs
      PROVE  /\ runs'[i] \in Run /\ runs'[i].phase = PhaseOf(runs'[i].status)
             /\ runs'[i].status = IF runs[i].status = "done" THEN "generated" ELSE runs[i].status
  <2> DEFINE r == runs[i]
             status == IF r.status = "done" THEN "generated" ELSE r.status
             phase == PhaseOf(status)
             s == [r EXCEPT !.status = status, !.phase = phase]
  <2>a. r \in Run
    BY <1>0
  <2>b. runs'[i] = s
    BY <1>0 DEF WithPhase
  <2>1. r \in Run /\ runs'[i] = s
    BY <2>a, <2>b
  <2> HIDE DEF r
  <2>2. status \in {"running", "generated", "failed"}
    BY <2>1, RunIs
  <2> HIDE DEF status
  <2>3. phase \in {"", "accepted", "posted", "failed"}
    BY <2>2 DEF PhaseOf
  <2> HIDE DEF phase
  <2>4. s \in Run /\ s.status = status /\ s.phase = phase
    BY <2>1, <2>2, <2>3 DEF Run
  <2> QED
    BY <2>1, <2>4 DEF status, r, phase
<1>d. DOMAIN runs' = DOMAIN runs /\ runs' = [i \in DOMAIN runs |-> runs'[i]]
  BY <1>0
<1>e. runs' \in Seq(Run) /\ Len(runs') = Len(runs)
  BY <1>0, <1>c, <1>d, RowsAre
<1>f. \A i \in DOMAIN runs : runs'[i].status # "done"
  BY <1>c
<1>1. UpgradeTypeOK'
  BY <1>0, <1>b, <1>c, <1>d, <1>e, <1>f DEF UpgradeTypeOK
<1>2. InitInv'
  BY <1>0, <1>a, <1>b DEF UpgradeInv, InitInv, RunsMade, ObservationsMade, NumberMade, CurrentMade
<1>3. RunsInv'
  BY <1>a DEF RunsInv, RunsMade, ObservationsMade, NumberMade, PartsMade
<1>4. NumbersInv' /\ ReviewsInv' /\ ObservedInv'
  <2>1. \A i \in DOMAIN runs : runs'[i].status = "running" => runs[i].status = "running"
    BY <1>c
  <2> QED
    BY <1>0, <1>a, <1>e, <2>1, ReviewsStay
       DEF RunsMade, ObservationsMade, NumberMade, PartsMade, CurrentMade
<1>5. Survives
  BY <1>c, <1>d DEF Survives
<1>6. Harmless
  BY <1>0, <1>a DEF Harmless, Live
<1> QED
  BY <1>1, <1>2, <1>3, <1>4, <1>5, <1>6 DEF Keeps, UpgradeInv

LEMMA WithPartsAre ==
    ASSUME NEW rows \in Seq(Publication), NEW existing \in Nat
    PROVE  LET new == WithParts(rows, existing) IN
           /\ new \in Seq(Publication) /\ Len(new) = Len(rows) /\ DOMAIN new = DOMAIN rows
           /\ \A i \in DOMAIN rows :
                 /\ SameReview(new[i], rows[i]) /\ new[i].number = rows[i].number
                 /\ new[i].current = rows[i].current
                 /\ new[i].part <=> rows[i].part \/ (existing < 8 /\ rows[i].status = "posted")
           /\ existing >= 8 => new = rows
<1> DEFINE new == WithParts(rows, existing)
<1>0. /\ DOMAIN new = DOMAIN rows /\ new = [i \in DOMAIN rows |-> new[i]]
      /\ rows = [i \in DOMAIN rows |-> rows[i]]
  BY DEF WithParts
<1>1. ASSUME NEW i \in DOMAIN rows
      PROVE  /\ new[i] \in Publication /\ SameReview(new[i], rows[i])
             /\ new[i].number = rows[i].number /\ new[i].current = rows[i].current
             /\ new[i].part <=> rows[i].part \/ (existing < 8 /\ rows[i].status = "posted")
             /\ existing >= 8 => new[i] = rows[i]
  <2> DEFINE p == rows[i]
             part == p.part \/ (existing < 8 /\ p.status = "posted")
             q == [p EXCEPT !.part = part]
  <2>1. p \in Publication
    OBVIOUS
  <2>2. new[i] = q
    BY DEF WithParts
  <2> HIDE DEF p
  <2>3. p.part \in BOOLEAN
    BY <2>1, ReviewIs
  <2>4. part \in BOOLEAN
    BY <2>3
  <2>5. existing >= 8 => ~(existing < 8)
    OBVIOUS
  <2>6. existing >= 8 => part = p.part
    BY <2>3, <2>5
  <2>7. part <=> p.part \/ (existing < 8 /\ p.status = "posted")
    OBVIOUS
  <2> HIDE DEF part
  <2>8. /\ q \in Publication /\ q.status = p.status /\ q.run = p.run /\ q.number = p.number
        /\ q.current = p.current /\ q.part = part
        /\ part = p.part => q = p
    BY <2>1, <2>4 DEF Publication
  <2> HIDE DEF q
  <2> QED
    BY <2>2, <2>6, <2>7, <2>8 DEF SameReview, p
<1>2. new \in Seq(Publication) /\ Len(new) = Len(rows)
  <2> HIDE DEF new
  <2> QED
    BY <1>0, <1>1, RowsAre
<1> HIDE DEF new
<1>3. existing >= 8 => new = rows
  BY <1>0, <1>1
<1> QED
  BY <1>0, <1>1, <1>2, <1>3 DEF new

LEMMA PartsStay ==
    ASSUME UpgradeInv, UNCHANGED <<version, observations>>, Len(runs') = Len(runs),
           \A j \in DOMAIN runs : runs'[j].status = "running" => runs[j].status = "running",
           publications' = WithParts(publications, version),
           init.pc \notin {"off", "number"}, init'.pc = "unrun"
    PROVE  /\ publications' \in Seq(Publication)
           /\ NumbersInv' /\ ReviewsInv' /\ ObservedInv'
           /\ Live => publications' = publications
<1>0. /\ version \in Nat /\ (Live => version > 12) /\ publications \in Seq(Publication)
      /\ Live' <=> Live
  BY TypesAre DEF UpgradeInv, Live
<1>1. /\ publications' \in Seq(Publication) /\ Len(publications') = Len(publications)
      /\ DOMAIN publications' = DOMAIN publications
      /\ \A i \in DOMAIN publications :
            /\ SameReview(publications'[i], publications[i])
            /\ publications'[i].number = publications[i].number
            /\ publications'[i].current = publications[i].current
            /\ publications'[i].part <=>
                  publications[i].part \/ (version < 8 /\ publications[i].status = "posted")
      /\ version >= 8 => publications' = publications
  BY <1>0, WithPartsAre
<1>2. Posted(publications') = Posted(publications)
  BY <1>1, SamePosted
<1>3. Posted(publications) \subseteq DOMAIN publications
  BY DEF Posted
<1>4. Current(publications') = Current(publications)
  BY <1>1, <1>2, <1>3 DEF Current
<1>6. NumbersInv'
  <2>1. Len(runs) \in Nat /\ Len(runs') \in Nat /\ Len(runs) <= Len(runs')
    BY TypesAre DEF UpgradeInv
  <2> QED
    BY <1>1, <2>1, NumbersStay
<1>7. ReviewsInv'
  <2>1. ASSUME NEW i \in Posted(publications)
        PROVE  publications'[i].part
    <3>1. version >= 8 => publications[i].part
      BY <2>1 DEF UpgradeInv, ReviewsInv
    <3>2. publications[i].status = "posted"
      BY DEF Posted
    <3> QED
      BY <1>0, <1>1, <1>3, <3>1, <3>2
  <2>2. Live => \A i, j \in Current(publications) : i = j
    BY DEF UpgradeInv, ReviewsInv
  <2> QED
    BY <1>0, <1>2, <1>4, <2>1, <2>2 DEF ReviewsInv, CurrentMade
<1>8. ObservedInv'
  BY DEF UpgradeInv, ObservedInv
<1> QED
  BY <1>0, <1>1, <1>6, <1>7, <1>8

LEMMA FillKeeps ==
    ASSUME UpgradeInv, Fill
    PROVE  Keeps
<1>0. /\ UNCHANGED <<version, tables, observations>>
      /\ init.pc = "fill" /\ init.existing = version /\ tables.runs = "current"
      /\ init \in InitSet /\ UpgradeTypeOK /\ runs \in Seq(Run)
      /\ (Live' <=> Live) /\ (Live => tables.observations = "current")
  <2>1. UNCHANGED <<version, tables, observations>> /\ init.pc = "fill"
    BY DEF Fill, At
  <2>2. InitInv /\ UpgradeTypeOK
    BY DEF UpgradeInv
  <2>3. /\ init.existing = version /\ tables.runs = "current" /\ init \in InitSet
        /\ Live => tables.observations = "current"
    BY <2>1, <2>2 DEF InitInv, RunsMade, Upgraded
  <2>4. runs \in Seq(Run)
    BY <2>2 DEF UpgradeTypeOK
  <2> QED
    BY <2>1, <2>2, <2>3, <2>4 DEF Live
<1> DEFINE full == Filled(runs)
<1>1. /\ full \in Seq(Run) /\ Len(full) = Len(runs) /\ DOMAIN full = DOMAIN runs
      /\ \A i \in DOMAIN runs :
            /\ SameRun(full[i], runs[i]) /\ full[i].counted
            /\ runs[i].counted \/ runs[i].files = 0 => full[i] = [runs[i] EXCEPT !.counted = TRUE]
      /\ Running(full) = Running(runs)
  BY <1>0, FilledAre
<1>t. \A i \in DOMAIN runs : /\ runs[i].status # "done"
                             /\ runs[i].phase = PhaseOf(runs[i].status)
  BY <1>0 DEF UpgradeTypeOK
<1> HIDE DEF full
<1>2. CASE tables.observations = "current"
  <2> DEFINE last == LastRuns(full)
  <2>1. /\ runs' = last /\ publications' = WithParts(publications, version)
        /\ indexes' = indexes \cup {"number"} /\ Go("unrun")
    BY <1>0, <1>2 DEF Fill, full
  <2>2. /\ init' \in InitSet /\ init'.pc = "unrun" /\ init'.existing = init.existing
    BY <1>0, <2>1, GoIs DEF RunsMade
  <2>3. /\ last \in Seq(Run) /\ Len(last) = Len(full) /\ DOMAIN last = DOMAIN full
        /\ \A i \in DOMAIN full : Failed(last[i], full[i]) \/ last[i] = full[i]
        /\ \A i \in DOMAIN full : Failed(last[i], full[i]) /\ full[i].status # "running" =>
                                     last[i] = full[i]
        /\ \A i, j \in Running(last) : i = j
        /\ \A i \in DOMAIN full :
              full[i].status = "running" /\ last[i].status = "failed" =>
                 \E j \in Running(last) : j > i
        /\ (\A i, j \in Running(full) : i = j) => last = full
    BY <1>1, LastRunsAre
  <2> HIDE DEF last
  <2>4. /\ publications' \in Seq(Publication) /\ NumbersInv' /\ ReviewsInv' /\ ObservedInv'
        /\ Live => publications' = publications
    <3>1. \A i \in DOMAIN runs : last[i].status = "running" => runs[i].status = "running"
      BY <1>1, <2>3 DEF Failed, SameRun
    <3> QED
      BY <1>0, <1>1, <2>1, <2>2, <2>3, <3>1, PartsStay
  <2>5. UpgradeTypeOK'
    <3>1. ASSUME NEW i \in DOMAIN runs
          PROVE  /\ last[i].status # "done" /\ last[i].phase = PhaseOf(last[i].status)
      <4>1. CASE last[i] = full[i]
        BY <1>1, <1>t, <4>1 DEF SameRun
      <4>2. CASE Failed(last[i], full[i])
        BY <4>2 DEF Failed, PhaseOf
      <4> QED
        BY <1>1, <2>3, <4>1, <4>2
    <3> QED
      BY <1>0, <1>1, <2>1, <2>3, <2>4, <3>1 DEF UpgradeTypeOK
  <2>6. InitInv'
    BY <1>0, <1>2, <2>1, <2>2
       DEF UpgradeInv, InitInv, RunsMade, ObservationsMade, NumberMade, CurrentMade
  <2>7. \A i \in DOMAIN runs : last[i].counted
    BY <1>1, <2>3 DEF Failed
  <2>8. RunsInv'
    BY <1>1, <2>1, <2>3, <2>7 DEF RunsInv
  <2>9. Survives
    <3>1. ASSUME NEW i \in DOMAIN runs
          PROVE  /\ i \in DOMAIN last
                 /\ runs[i].status \in {"generated", "failed"} => last[i].status = runs[i].status
                 /\ runs[i].status = "running" /\ last[i].status = "failed" =>
                       \E j \in Running(last) : j > i
      <4>1. full[i].status = runs[i].status /\ i \in DOMAIN full /\ i \in DOMAIN last
        BY <1>1, <2>3 DEF SameRun
      <4> QED
        BY <2>3, <4>1
    <3> QED
      BY <1>t, <2>1, <3>1 DEF Survives
  <2>10. Harmless
    <3> SUFFICES ASSUME Live
                 PROVE  /\ UNCHANGED <<version, tables, publications, observations>>
                        /\ runs' = [i \in DOMAIN runs |-> [runs[i] EXCEPT !.counted = runs'[i].counted]]
      BY <1>0 DEF Harmless, Live
    <3>1. last = full
      BY <1>1, <2>3 DEF UpgradeInv, RunsInv
    <3>2. \A i \in DOMAIN runs : full[i] = [runs[i] EXCEPT !.counted = TRUE] /\ full[i].counted = TRUE
      <4>1. \A i \in DOMAIN runs : full[i] = [runs[i] EXCEPT !.counted = TRUE] /\ full[i].counted
        BY <1>1 DEF UpgradeInv, RunsInv
      <4>2. \A i \in DOMAIN runs : full[i].counted \in BOOLEAN
        <5>1. \A i \in DOMAIN runs : full[i] \in Run
          BY <1>1
        <5> QED
          BY <5>1, RunIs
      <4> QED
        BY <4>1, <4>2
    <3>3. full = [i \in DOMAIN runs |-> full[i]]
      BY <1>1
    <3>4. full = [i \in DOMAIN runs |-> [runs[i] EXCEPT !.counted = full[i].counted]]
      BY <3>2, <3>3
    <3> QED
      BY <1>0, <2>1, <2>4, <3>1, <3>4
  <2> QED
    BY <2>4, <2>5, <2>6, <2>8, <2>9, <2>10 DEF Keeps, UpgradeInv
<1>3. CASE tables.observations # "current"
  <2>1. /\ runs' = full /\ UNCHANGED <<publications, indexes>>
        /\ init' = [init EXCEPT !.pc = "observations", !.observations = observations]
        /\ ~Live /\ observations \in [Findings -> Nat]
    BY <1>0, <1>3 DEF Fill, full, UpgradeTypeOK
  <2>2. /\ init' \in InitSet /\ init'.pc = "observations" /\ init'.existing = init.existing
        /\ init'.observations = observations
    BY <1>0, <2>1 DEF InitSet, RunsMade
  <2>3. UpgradeTypeOK'
    BY <1>0, <1>1, <1>t, <2>1 DEF UpgradeTypeOK, SameRun
  <2>4. InitInv'
    BY <1>0, <1>3, <2>1, <2>2
       DEF UpgradeInv, InitInv, RunsMade, ObservationsMade, NumberMade, CurrentMade
  <2>5. RunsInv'
    BY <1>0, <1>1, <2>1, <2>2 DEF RunsInv, RunsMade, ObservationsMade, NumberMade, PartsMade
  <2>6. NumbersInv' /\ ReviewsInv' /\ ObservedInv'
    <3>1. \A i \in DOMAIN runs : runs'[i].status = "running" => runs[i].status = "running"
      BY <1>1, <2>1 DEF SameRun
    <3> QED
      BY <1>0, <1>1, <2>1, <2>2, <3>1, ReviewsStay
         DEF RunsMade, ObservationsMade, NumberMade, PartsMade, CurrentMade
  <2>7. Survives
    BY <1>1, <2>1 DEF Survives, SameRun
  <2>8. Harmless
    BY <1>0, <2>1 DEF Harmless, Live
  <2> QED
    BY <2>3, <2>4, <2>5, <2>6, <2>7, <2>8 DEF Keeps, UpgradeInv
<1> QED
  BY <1>2, <1>3

LEMMA EndDuplicatesKeeps ==
    ASSUME UpgradeInv, EndDuplicates
    PROVE  Keeps
<1>0. /\ UNCHANGED <<version, tables, observations, indexes>>
      /\ init.pc = "parts" /\ init.existing = version /\ tables.runs = "current"
      /\ init \in InitSet /\ UpgradeTypeOK /\ runs \in Seq(Run) /\ Go("unrun")
      /\ runs' = LastRuns(runs) /\ publications' = WithParts(publications, version)
      /\ ~Live /\ ~Live'
  BY DEF EndDuplicates, At, UpgradeInv, InitInv, UpgradeTypeOK, RunsMade, Live
<1> DEFINE last == LastRuns(runs)
<1>1. /\ init' \in InitSet /\ init'.pc = "unrun" /\ init'.existing = init.existing
  BY <1>0, GoIs DEF RunsMade
<1>2. /\ last \in Seq(Run) /\ Len(last) = Len(runs) /\ DOMAIN last = DOMAIN runs
      /\ \A i \in DOMAIN runs : Failed(last[i], runs[i]) \/ last[i] = runs[i]
      /\ \A i \in DOMAIN runs : Failed(last[i], runs[i]) /\ runs[i].status # "running" =>
                                   last[i] = runs[i]
      /\ \A i, j \in Running(last) : i = j
      /\ \A i \in DOMAIN runs :
            runs[i].status = "running" /\ last[i].status = "failed" =>
               \E j \in Running(last) : j > i
  BY <1>0, LastRunsAre
<1>3. runs' = last
  BY <1>0
<1> HIDE DEF last
<1>t. \A i \in DOMAIN runs : /\ runs[i].status # "done"
                             /\ runs[i].phase = PhaseOf(runs[i].status)
  BY <1>0 DEF UpgradeTypeOK
<1>4. publications' \in Seq(Publication) /\ NumbersInv' /\ ReviewsInv' /\ ObservedInv'
  <2>1. \A i \in DOMAIN runs : last[i].status = "running" => runs[i].status = "running"
    BY <1>2 DEF Failed
  <2> QED
    BY <1>0, <1>1, <1>2, <1>3, <2>1, PartsStay
<1>5. UpgradeTypeOK'
  <2>1. ASSUME NEW i \in DOMAIN runs
        PROVE  /\ last[i].status # "done" /\ last[i].phase = PhaseOf(last[i].status)
    <3>1. CASE last[i] = runs[i]
      BY <1>t, <3>1
    <3>2. CASE Failed(last[i], runs[i])
      BY <3>2 DEF Failed, PhaseOf
    <3> QED
      BY <1>2, <3>1, <3>2
  <2> QED
    BY <1>0, <1>2, <1>3, <1>4, <2>1 DEF UpgradeTypeOK
<1>6. InitInv'
  BY <1>0, <1>1 DEF UpgradeInv, InitInv, RunsMade, ObservationsMade, NumberMade, CurrentMade
<1>7. \A i \in DOMAIN runs : last[i].counted
  <2>1. \A i \in DOMAIN runs : runs[i].counted
    BY <1>0 DEF UpgradeInv, RunsInv, RunsMade
  <2> QED
    BY <1>2, <2>1 DEF Failed
<1>8. RunsInv'
  BY <1>2, <1>3, <1>7 DEF RunsInv
<1>9. Survives
  BY <1>2, <1>3, <1>t DEF Survives
<1>10. Harmless
  BY <1>0 DEF Harmless, Live
<1> QED
  BY <1>4, <1>5, <1>6, <1>8, <1>9, <1>10 DEF Keeps, UpgradeInv

-----------------------------------------------------------------------------
(* The operator and the gateway.                                             *)

LEMMA ResolveKeeps ==
    ASSUME UpgradeInv, Resolve
    PROVE  Keeps
<1>0. /\ UNCHANGED <<version, tables, runs, observations, indexes, init>>
      /\ publications' = [i \in DOMAIN publications |->
             [publications[i] EXCEPT !.current =
                 @ /\ \A j \in Current(publications) : j <= i]]
      /\ publications \in Seq(Publication) /\ UpgradeTypeOK
      /\ Live' <=> Live
  BY DEF Resolve, UpgradeInv, UpgradeTypeOK, Live
<1>1. ASSUME NEW i \in DOMAIN publications
      PROVE  /\ publications'[i] \in Publication
             /\ SameReview(publications'[i], publications[i])
             /\ publications'[i].number = publications[i].number
             /\ publications'[i].part = publications[i].part
             /\ publications'[i].current => publications[i].current
  <2> DEFINE p == publications[i]
             last == \A j \in Current(publications) : j <= i
             current == p.current /\ last
             q == [p EXCEPT !.current = current]
  <2>1. publications'[i] = q
    BY <1>0
  <2>2. p \in Publication
    BY <1>0
  <2> HIDE DEF p, last
  <2>3. current \in BOOLEAN /\ (current => p.current)
    OBVIOUS
  <2> HIDE DEF current
  <2>4. /\ q \in Publication /\ q.status = p.status /\ q.run = p.run /\ q.number = p.number
        /\ q.part = p.part /\ q.current = current
    BY <2>2, <2>3 DEF Publication
  <2> HIDE DEF q
  <2> QED
    BY <2>1, <2>3, <2>4 DEF SameReview, p
<1>2. DOMAIN publications' = DOMAIN publications
      /\ publications' = [i \in DOMAIN publications |-> publications'[i]]
  BY <1>0
<1>3. publications' \in Seq(Publication) /\ Len(publications') = Len(publications)
  <2>1. publications \in Seq(Publication)
    BY <1>0
  <2>2. \A i \in DOMAIN publications : publications'[i] \in Publication
    BY <1>1
  <2> QED
    BY <1>2, <2>1, <2>2, RowsAre
<1>4. Posted(publications') = Posted(publications)
  BY <1>1, <1>2, SamePosted
<1>5. Posted(publications) \subseteq DOMAIN publications
  BY DEF Posted
<1>6. Current(publications') \subseteq Current(publications)
  BY <1>1, <1>4, <1>5 DEF Current
<1>7. UpgradeTypeOK'
  BY <1>0, <1>3 DEF UpgradeTypeOK
<1>8. InitInv'
  BY <1>0 DEF UpgradeInv, InitInv
<1>9. RunsInv'
  BY <1>0 DEF UpgradeInv, RunsInv
<1>10. NumbersInv'
  <2>1. Len(runs) \in Nat /\ Len(runs') \in Nat /\ Len(runs) <= Len(runs')
    BY <1>0, TypesAre
  <2> QED
    BY <1>0, <1>1, <1>2, <2>1, NumbersStay
<1>11. ReviewsInv' /\ ObservedInv'
  BY <1>0, <1>1, <1>4, <1>5, <1>6 DEF UpgradeInv, ReviewsInv, ObservedInv
<1>12. Survives /\ Harmless
  BY <1>0, SameRuns DEF Harmless
<1> QED
  BY <1>7, <1>8, <1>9, <1>10, <1>11, <1>12 DEF Keeps, UpgradeInv

\* What a live database is.
LEMMA LiveIs ==
    ASSUME UpgradeInv, version = SchemaVersion
    PROVE  /\ Live /\ UpgradeTypeOK /\ runs \in Seq(Run) /\ tables.runs = "current"
           /\ version \in Nat /\ version > 12
           /\ init.pc \notin {"rebuild", "observations"}
           /\ \A i \in DOMAIN runs : /\ runs[i].status # "done"
                                     /\ runs[i].phase = PhaseOf(runs[i].status)
                                     /\ runs[i].counted \/ runs[i].files = 0
           /\ \A i, j \in Running(runs) : i = j
<1>1. Live /\ UpgradeTypeOK /\ InitInv /\ RunsInv
  BY DEF UpgradeInv, Live
<1>2. tables.runs = "current" /\ tables.observations = "current"
  BY <1>1 DEF InitInv, Upgraded
<1>3. init.pc \notin {"rebuild", "observations"}
  BY <1>1, <1>2 DEF InitInv
<1>4. runs \in Seq(Run) /\ version \in Nat /\ version > 12
  BY <1>1, TypesAre
<1>5. \A i \in DOMAIN runs : runs[i].status # "done" /\ runs[i].phase = PhaseOf(runs[i].status)
  BY <1>1, <1>2 DEF UpgradeTypeOK
<1> QED
  BY <1>1, <1>2, <1>3, <1>4, <1>5 DEF RunsInv

\* The gateway changes a run: its status, or what it registered.
LEMMA GatewayRunsKeep ==
    ASSUME UpgradeInv, version = SchemaVersion,
           UNCHANGED <<version, tables, observations, indexes, init>>,
           runs' \in Seq(Run),
           \A i \in DOMAIN runs' : /\ runs'[i].status # "done"
                                   /\ runs'[i].phase = PhaseOf(runs'[i].status)
                                   /\ runs'[i].counted \/ runs'[i].files = 0,
           \A i, j \in Running(runs') : i = j
    PROVE  /\ InitInv' /\ RunsInv' /\ ObservedInv' /\ Harmless
           /\ publications' \in Seq(Publication) => UpgradeTypeOK'
<1>0. Live /\ Live' /\ tables.runs = "current" /\ init.pc \notin {"rebuild", "observations"}
  BY LiveIs DEF Live
<1>1. InitInv'
  <2>1. InitInv
    BY DEF UpgradeInv
  <2> QED
    BY <1>0, <2>1 DEF InitInv
<1>2. RunsInv'
  BY <1>0 DEF RunsInv
<1>3. ObservedInv' /\ Harmless
  BY DEF UpgradeInv, ObservedInv, Harmless
<1>4. publications' \in Seq(Publication) => UpgradeTypeOK'
  BY <1>0 DEF UpgradeInv, UpgradeTypeOK
<1> QED
  BY <1>1, <1>2, <1>3, <1>4

LEMMA StartRunKeeps ==
    ASSUME UpgradeInv, StartRun
    PROVE  Keeps
<1> DEFINE Stopped(r) == IF r.status = "running"
                         THEN [r EXCEPT !.status = "failed", !.phase = "failed"] ELSE r
           old == [i \in DOMAIN runs |-> Stopped(runs[i])]
           run == [status |-> "running", phase |-> "accepted", files |-> 0,
                   counted |-> FALSE, complete |-> FALSE]
<1>0. /\ version = SchemaVersion /\ runs' = Append(old, run)
      /\ UNCHANGED <<version, tables, publications, observations, indexes, init>>
  BY DEF StartRun
<1>1. /\ Live /\ UpgradeTypeOK /\ runs \in Seq(Run)
      /\ \A i \in DOMAIN runs : /\ runs[i].status # "done"
                                /\ runs[i].phase = PhaseOf(runs[i].status)
                                /\ runs[i].counted \/ runs[i].files = 0
  BY <1>0, LiveIs
<1>2. ASSUME NEW i \in DOMAIN runs
      PROVE  /\ old[i] \in Run /\ old[i].status \notin {"done", "running"}
             /\ old[i].phase = PhaseOf(old[i].status)
             /\ old[i].counted \/ old[i].files = 0
             /\ runs[i].status # "running" => old[i].status = runs[i].status
  <2> DEFINE r == runs[i]
             s == [r EXCEPT !.status = "failed", !.phase = "failed"]
  <2>1. r \in Run /\ old[i] = IF r.status = "running" THEN s ELSE r
    BY <1>1
  <2>2. r.status # "done" /\ r.phase = PhaseOf(r.status) /\ (r.counted \/ r.files = 0)
    BY <1>1
  <2> HIDE DEF r, old
  <2>3. s \in Run /\ Failed(s, r)
    BY <2>1, RunFails
  <2> HIDE DEF s
  <2>4. CASE r.status = "running"
    BY <2>1, <2>2, <2>3, <2>4 DEF Failed, PhaseOf, r
  <2>5. CASE r.status # "running"
    BY <2>1, <2>2, <2>5 DEF r
  <2> QED
    BY <2>4, <2>5
<1>3. DOMAIN old = DOMAIN runs /\ old = [i \in DOMAIN runs |-> old[i]]
  OBVIOUS
<1> HIDE DEF old
<1>4. old \in Seq(Run) /\ Len(old) = Len(runs) /\ Len(runs) \in Nat /\ DOMAIN runs = 1..Len(runs)
  BY <1>1, <1>2, <1>3, RowsAre
<1>5. run \in Run /\ run.status = "running" /\ run.phase = "accepted" /\ run.files = 0
  BY DEF Run
<1> HIDE DEF run
<1>6. /\ runs' \in Seq(Run) /\ Len(runs') = Len(runs) + 1 /\ DOMAIN runs' = 1..Len(runs) + 1
      /\ runs'[Len(runs) + 1] = run
      /\ \A i \in DOMAIN runs : i \in DOMAIN runs' /\ runs'[i] = old[i]
      /\ \A i \in DOMAIN runs' : i \in DOMAIN runs \/ i = Len(runs) + 1
  BY <1>0, <1>4, <1>5
<1>7. \A i \in DOMAIN runs' : /\ runs'[i].status # "done"
                              /\ runs'[i].phase = PhaseOf(runs'[i].status)
                              /\ runs'[i].counted \/ runs'[i].files = 0
  <2>1. PhaseOf("running") = "accepted"
    BY DEF PhaseOf
  <2> QED
    BY <1>2, <1>5, <1>6, <2>1
<1>8. \A i \in Running(runs') : i = Len(runs) + 1
  BY <1>2, <1>6 DEF Running
<1>9. UpgradeTypeOK' /\ InitInv' /\ RunsInv' /\ ObservedInv' /\ Harmless
  <2>1. publications' \in Seq(Publication)
    BY <1>0, <1>1 DEF UpgradeTypeOK
  <2> QED
    BY <1>0, <1>6, <1>7, <1>8, <2>1, GatewayRunsKeep
<1>10. NumbersInv' /\ ReviewsInv'
  <2>1. /\ Len(runs') \in Nat /\ Len(runs) <= Len(runs')
        /\ \A j \in DOMAIN runs : runs'[j].status = "running" => runs[j].status = "running"
    BY <1>2, <1>4, <1>6
  <2>2. NumbersInv'
    BY <1>0, <2>1, NumbersStay DEF SameReview
  <2>3. ReviewsInv'
    BY <1>0 DEF UpgradeInv, ReviewsInv, Live
  <2> QED
    BY <2>2, <2>3
<1>11. Survives
  <2>1. Len(runs) + 1 \in Running(runs') /\ \A i \in DOMAIN runs : Len(runs) + 1 > i
    BY <1>4, <1>5, <1>6 DEF Running
  <2> QED
    BY <1>1, <1>2, <1>6, <2>1 DEF Survives
<1> QED
  BY <1>9, <1>10, <1>11 DEF Keeps, UpgradeInv

LEMMA RegisterFilesKeeps ==
    ASSUME UpgradeInv, NEW i \in DOMAIN runs, NEW files \in 0..1, NEW complete \in BOOLEAN,
           RegisterFiles(i, files, complete)
    PROVE  Keeps
<1>0. /\ version = SchemaVersion
      /\ runs' = [runs EXCEPT ![i].files = files, ![i].counted = TRUE, ![i].complete = complete]
      /\ UNCHANGED <<version, tables, publications, observations, indexes, init>>
  BY DEF RegisterFiles
<1>1. /\ Live /\ UpgradeTypeOK /\ runs \in Seq(Run)
      /\ \A j \in DOMAIN runs : /\ runs[j].status # "done"
                                /\ runs[j].phase = PhaseOf(runs[j].status)
                                /\ runs[j].counted \/ runs[j].files = 0
      /\ \A j, k \in Running(runs) : j = k
  BY <1>0, LiveIs
<1> DEFINE r == runs[i]
           s == [r EXCEPT !.files = files, !.counted = TRUE, !.complete = complete]
<1>2. runs' = [runs EXCEPT ![i] = s]
  BY <1>0
<1>3. r \in Run
  BY <1>1
<1> HIDE DEF r
<1>4. s \in Run /\ s.status = r.status /\ s.phase = r.phase /\ s.counted
  BY <1>3 DEF Run
<1> HIDE DEF s
<1>5. /\ runs' \in Seq(Run) /\ Len(runs') = Len(runs) /\ DOMAIN runs' = DOMAIN runs
      /\ \A j \in DOMAIN runs : runs'[j] = IF j = i THEN s ELSE runs[j]
  BY <1>1, <1>2, <1>4
<1>6. \A j \in DOMAIN runs : /\ runs'[j].status = runs[j].status
                             /\ runs'[j].phase = runs[j].phase
                             /\ runs'[j].counted \/ runs'[j].files = 0
  BY <1>1, <1>4, <1>5 DEF r
<1>7. Running(runs') = Running(runs)
  BY <1>5, <1>6 DEF Running
<1>8. UpgradeTypeOK' /\ InitInv' /\ RunsInv' /\ ObservedInv' /\ Harmless
  <2>1. publications' \in Seq(Publication)
    BY <1>0, <1>1 DEF UpgradeTypeOK
  <2>2. \A j \in DOMAIN runs' : /\ runs'[j].status # "done"
                                /\ runs'[j].phase = PhaseOf(runs'[j].status)
                                /\ runs'[j].counted \/ runs'[j].files = 0
    BY <1>1, <1>5, <1>6
  <2> QED
    BY <1>0, <1>1, <1>5, <1>7, <2>1, <2>2, GatewayRunsKeep
<1>9. NumbersInv' /\ ReviewsInv'
  <2>1. Len(runs') \in Nat /\ Len(runs) <= Len(runs')
    BY <1>1, <1>5
  <2>2. NumbersInv'
    BY <1>0, <1>5, <1>6, <2>1, NumbersStay DEF SameReview
  <2> QED
    BY <1>0, <2>2 DEF UpgradeInv, ReviewsInv, Live
<1>10. Survives
  BY <1>5, <1>6 DEF Survives
<1> QED
  BY <1>8, <1>9, <1>10 DEF Keeps, UpgradeInv

\* The facts about reviews of a live database.
LEMMA ReviewsAre ==
    ASSUME UpgradeInv, version = SchemaVersion
    PROVE  /\ publications \in Seq(Publication) /\ Len(publications) \in Nat
           /\ DOMAIN publications = 1..Len(publications)
           /\ Posted(publications) \subseteq DOMAIN publications
           /\ DOMAIN runs = 1..Len(runs) /\ Len(runs) \in Nat
           /\ \A i \in DOMAIN publications :
                 /\ publications[i] \in Publication
                 /\ publications[i].run \in 0..Len(runs)
                 /\ publications[i].status # "posted" => publications[i].run # 0
           /\ \A i, j \in DOMAIN publications :
                 publications[i].run = publications[j].run /\ publications[i].run # 0 => i = j
           /\ \A i, j \in Posted(publications) :
                 publications[i].number = publications[j].number /\ publications[i].number # 0
                    => i = j
           /\ \A i, j \in Unnumbered : i = j
           /\ \A i \in Posted(publications) : publications[i].part
           /\ \A i, j \in Current(publications) : i = j
           /\ "number" \in indexes
<1>1. /\ publications \in Seq(Publication) /\ Len(publications) \in Nat
      /\ DOMAIN publications = 1..Len(publications)
      /\ DOMAIN runs = 1..Len(runs) /\ Len(runs) \in Nat
  BY TypesAre DEF UpgradeInv
<1>2. Posted(publications) \subseteq DOMAIN publications
  BY DEF Posted
<1>3. Live /\ version >= 8 /\ version > 12
  BY LiveIs
<1>4. /\ \A i \in DOMAIN publications :
            /\ publications[i].run \in 0..Len(runs)
            /\ publications[i].status # "posted" => publications[i].run # 0
      /\ \A i, j \in DOMAIN publications :
            publications[i].run = publications[j].run /\ publications[i].run # 0 => i = j
      /\ \A i, j \in Posted(publications) :
            publications[i].number = publications[j].number /\ publications[i].number # 0
               => i = j
      /\ \A i, j \in Unnumbered : i = j
  BY <1>3 DEF UpgradeInv, NumbersInv
<1>5. \A i \in DOMAIN publications : publications[i] \in Publication
  BY <1>1
<1>6. /\ \A i \in Posted(publications) : publications[i].part
      /\ \A i, j \in Current(publications) : i = j
  BY <1>3 DEF UpgradeInv, ReviewsInv
<1>7. "number" \in indexes
  BY <1>3 DEF UpgradeInv, InitInv
<1> QED
  BY <1>1, <1>2, <1>4, <1>5, <1>6, <1>7

\* The part about numbers, when the gateway changes the status of a review and
\* leaves its run and number.
LEMMA LiveNumbers ==
    ASSUME UpgradeInv, version = SchemaVersion, version' = version,
           DOMAIN publications' = DOMAIN publications, Len(runs') = Len(runs),
           \A j \in DOMAIN publications :
              /\ publications'[j].run = publications[j].run
              /\ publications'[j].number = publications[j].number
              /\ publications'[j].status # "posted" => publications[j].run # 0,
           \A j, k \in Posted(publications') :
              publications[j].number = publications[k].number /\ publications[j].number # 0
                 => j = k,
           Unnumbered' \subseteq Unnumbered
    PROVE  NumbersInv'
<1>1. Live' /\ version' > 12 /\ ~(version' <= 12)
  BY LiveIs DEF Live
<1>2. Posted(publications') \subseteq DOMAIN publications
  BY DEF Posted
<1>3. /\ \A j \in DOMAIN publications' :
            /\ publications'[j].run \in 0..Len(runs')
            /\ publications'[j].status # "posted" => publications'[j].run # 0
      /\ \A j, k \in DOMAIN publications' :
            publications'[j].run = publications'[k].run /\ publications'[j].run # 0 => j = k
  BY ReviewsAre
<1>4. \A j, k \in Posted(publications') :
         publications'[j].number = publications'[k].number /\ publications'[j].number # 0
            => j = k
  BY <1>2
<1>5. \A j, k \in Unnumbered' : j = k
  BY ReviewsAre
<1> QED
  BY <1>1, <1>3, <1>4, <1>5 DEF NumbersInv

\* The gateway changes the status of reviews, and no run.
LEMMA GatewayReviewsKeep ==
    ASSUME UpgradeInv, version = SchemaVersion,
           UNCHANGED <<version, tables, runs, observations, indexes, init>>,
           publications' \in Seq(Publication), NumbersInv',
           Current(publications') \subseteq Current(publications),
           \A j \in Posted(publications') : publications'[j].part
    PROVE  Keeps
<1>1. UpgradeTypeOK' /\ InitInv' /\ RunsInv' /\ ObservedInv' /\ Harmless
  <2>1. /\ runs \in Seq(Run)
        /\ \A j \in DOMAIN runs : /\ runs[j].status # "done"
                                  /\ runs[j].phase = PhaseOf(runs[j].status)
                                  /\ runs[j].counted \/ runs[j].files = 0
        /\ \A j, k \in Running(runs) : j = k
    BY LiveIs
  <2> QED
    BY <2>1, GatewayRunsKeep
<1>2. ReviewsInv'
  BY ReviewsAre DEF ReviewsInv
<1>3. Survives
  BY SameRuns DEF UpgradeInv
<1> QED
  BY <1>1, <1>2, <1>3 DEF Keeps, UpgradeInv

LEMMA RenderKeeps ==
    ASSUME UpgradeInv, NEW i \in DOMAIN runs, RenderReview(i)
    PROVE  Keeps
<1>0. /\ version = SchemaVersion
      /\ UNCHANGED <<version, tables, runs, observations, indexes, init>>
      /\ \A j \in DOMAIN publications : publications[j].run # i
  BY DEF RenderReview
<1> DEFINE n == Len(publications)
<1>1. PICK next \in 1..MaxPublications + 1 :
         publications' = Append(publications,
                [status |-> "generated", run |-> i, number |-> next,
                 part |-> FALSE, current |-> FALSE])
  BY DEF RenderReview
<1> DEFINE p == [status |-> "generated", run |-> i, number |-> next,
                 part |-> FALSE, current |-> FALSE]
<1>2. /\ publications \in Seq(Publication) /\ n \in Nat /\ DOMAIN publications = 1..n
      /\ DOMAIN runs = 1..Len(runs) /\ Len(runs) \in Nat
  BY <1>0, ReviewsAre
<1>3. /\ i \in Nat /\ i # 0 /\ i \in 0..Len(runs)
      /\ next \in Nat /\ next # 0
  <2>1. MaxPublications \in Nat
    BY UpgradeAssumption
  <2> QED
    BY <1>2, <2>1
<1>4. p \in Publication /\ p.status = "generated" /\ p.run = i /\ p.number = next
  BY <1>3 DEF Publication
<1>5. publications' = Append(publications, p)
  BY <1>1
<1> HIDE DEF p
<1>6. /\ publications' \in Seq(Publication)
      /\ DOMAIN publications' = 1..n + 1 /\ publications'[n + 1] = p
      /\ \A j \in DOMAIN publications : j \in DOMAIN publications'
                                        /\ publications'[j] = publications[j]
      /\ \A j \in DOMAIN publications' : j \in DOMAIN publications \/ j = n + 1
  BY <1>2, <1>4, <1>5
<1>7. Posted(publications') = Posted(publications)
  BY <1>4, <1>6 DEF Posted
<1>8. Posted(publications) \subseteq DOMAIN publications
  BY DEF Posted
<1>9. Current(publications') = Current(publications)
  BY <1>6, <1>7, <1>8 DEF Current
<1>10. Unnumbered' \subseteq Unnumbered
  BY <1>0, <1>3, <1>4, <1>6 DEF Unnumbered
<1>11. NumbersInv'
  <2>1. /\ \A j \in DOMAIN publications :
              /\ publications[j].run \in 0..Len(runs)
              /\ publications[j].status # "posted" => publications[j].run # 0
        /\ \A j, k \in DOMAIN publications :
              publications[j].run = publications[k].run /\ publications[j].run # 0 => j = k
        /\ \A j, k \in Posted(publications) :
              publications[j].number = publications[k].number /\ publications[j].number # 0
                 => j = k
        /\ \A j, k \in Unnumbered : j = k
    BY <1>0, ReviewsAre
  <2>2. \A j \in DOMAIN publications' :
           /\ publications'[j].run \in 0..Len(runs')
           /\ publications'[j].status # "posted" => publications'[j].run # 0
    BY <1>0, <1>3, <1>4, <1>6, <2>1
  <2>3. \A j, k \in DOMAIN publications' :
           publications'[j].run = publications'[k].run /\ publications'[j].run # 0 => j = k
    BY <1>0, <1>4, <1>6, <2>1
  <2>4. \A j, k \in Posted(publications') :
           publications'[j].number = publications'[k].number /\ publications'[j].number # 0
              => j = k
    BY <1>6, <1>7, <1>8, <2>1
  <2>5. Live' /\ version' > 12 /\ ~(version' <= 12)
    BY <1>0, LiveIs DEF Live
  <2> QED
    BY <1>10, <2>1, <2>2, <2>3, <2>4, <2>5 DEF NumbersInv
<1>12. \A j \in Posted(publications') : publications'[j].part
  <2>1. \A j \in Posted(publications) : publications[j].part
    BY <1>0, ReviewsAre
  <2> QED
    BY <1>6, <1>7, <1>8, <2>1
<1> QED
  BY <1>0, <1>6, <1>9, <1>11, <1>12, GatewayReviewsKeep

LEMMA ReviewChanges ==
    ASSUME publications \in Seq(Publication), NEW i \in DOMAIN publications,
           NEW q \in Publication, publications' = [publications EXCEPT ![i] = q]
    PROVE  /\ publications' \in Seq(Publication)
           /\ DOMAIN publications' = DOMAIN publications
           /\ \A j \in DOMAIN publications :
                 publications'[j] = IF j = i THEN q ELSE publications[j]
OBVIOUS

LEMMA ClaimKeeps ==
    ASSUME UpgradeInv, NEW i \in DOMAIN publications, ClaimReview(i)
    PROVE  Keeps
<1> DEFINE p == publications[i]
           q == [p EXCEPT !.status = "posting"]
<1>0. /\ version = SchemaVersion /\ p.status = "generated"
      /\ runs[p.run].status = "running"
      /\ publications' = [publications EXCEPT ![i] = q]
      /\ UNCHANGED <<version, tables, runs, observations, indexes, init>>
  BY DEF ClaimReview
<1>1. publications \in Seq(Publication) /\ p \in Publication /\ p.run # 0
  BY <1>0, ReviewsAre
<1> HIDE DEF p
<1>2. /\ q \in Publication /\ q.status = "posting" /\ q.run = p.run /\ q.number = p.number
      /\ q.part = p.part /\ q.current = p.current
  BY <1>1 DEF Publication
<1> HIDE DEF q
<1>3. /\ publications' \in Seq(Publication)
      /\ DOMAIN publications' = DOMAIN publications
      /\ \A j \in DOMAIN publications :
            publications'[j] = IF j = i THEN q ELSE publications[j]
  BY <1>0, <1>1, <1>2, ReviewChanges
<1>4. Posted(publications') = Posted(publications) /\ i \notin Posted(publications)
  BY <1>0, <1>2, <1>3 DEF Posted, p
<1>5. Posted(publications) \subseteq DOMAIN publications
  BY DEF Posted
<1>6. Current(publications') = Current(publications)
  BY <1>3, <1>4, <1>5 DEF Current
<1>7. Unnumbered' \subseteq Unnumbered
  BY <1>0, <1>2, <1>3 DEF Unnumbered, p
<1>8. NumbersInv'
  <2>1. \A j \in DOMAIN publications :
           /\ publications'[j].run = publications[j].run
           /\ publications'[j].number = publications[j].number
           /\ publications'[j].status # "posted" => publications[j].run # 0
    BY <1>0, <1>1, <1>2, <1>3, ReviewsAre DEF p
  <2>2. \A j, k \in Posted(publications') :
           publications[j].number = publications[k].number /\ publications[j].number # 0
              => j = k
    BY <1>0, <1>4, ReviewsAre
  <2> QED
    BY <1>0, <1>3, <1>7, <2>1, <2>2, LiveNumbers
<1>9. \A j \in Posted(publications') : publications'[j].part
  <2>1. \A j \in Posted(publications) : publications[j].part
    BY <1>0, ReviewsAre
  <2> QED
    BY <1>3, <1>4, <1>5, <2>1
<1> QED
  BY <1>0, <1>3, <1>6, <1>8, <1>9, GatewayReviewsKeep

LEMMA TakeBackKeeps ==
    ASSUME UpgradeInv, NEW i \in DOMAIN publications, TakeBackReview(i)
    PROVE  Keeps
<1> DEFINE p == publications[i]
           q == [p EXCEPT !.status = "publish_failed", !.current = FALSE]
<1>0. /\ version = SchemaVersion /\ p.status = "posted" /\ p.run # 0
      /\ publications' = [publications EXCEPT ![i] = q]
      /\ UNCHANGED <<version, tables, runs, observations, indexes, init>>
  BY DEF TakeBackReview
<1>1. publications \in Seq(Publication) /\ p \in Publication
  BY <1>0, ReviewsAre
<1> HIDE DEF p
<1>2. /\ q \in Publication /\ q.status = "publish_failed" /\ q.run = p.run
      /\ q.number = p.number
  BY <1>1 DEF Publication
<1> HIDE DEF q
<1>3. /\ publications' \in Seq(Publication)
      /\ DOMAIN publications' = DOMAIN publications
      /\ \A j \in DOMAIN publications :
            publications'[j] = IF j = i THEN q ELSE publications[j]
  BY <1>0, <1>1, <1>2, ReviewChanges
<1>4. /\ Posted(publications') \subseteq Posted(publications)
      /\ \A j \in Posted(publications') : publications'[j] = publications[j]
  BY <1>2, <1>3 DEF Posted
<1>5. Current(publications') \subseteq Current(publications)
  BY <1>4 DEF Current
<1>6. Unnumbered' \subseteq Unnumbered
  BY <1>0, <1>2, <1>3 DEF Unnumbered, p
<1>7. NumbersInv'
  <2>1. \A j \in DOMAIN publications :
           /\ publications'[j].run = publications[j].run
           /\ publications'[j].number = publications[j].number
           /\ publications'[j].status # "posted" => publications[j].run # 0
    BY <1>0, <1>2, <1>3, ReviewsAre DEF p
  <2>2. \A j, k \in Posted(publications') :
           publications[j].number = publications[k].number /\ publications[j].number # 0
              => j = k
    BY <1>0, <1>4, ReviewsAre
  <2> QED
    BY <1>0, <1>3, <1>6, <2>1, <2>2, LiveNumbers
<1>8. \A j \in Posted(publications') : publications'[j].part
  <2>1. \A j \in Posted(publications) : publications[j].part
    BY <1>0, ReviewsAre
  <2> QED
    BY <1>4, <2>1
<1> QED
  BY <1>0, <1>3, <1>5, <1>7, <1>8, GatewayReviewsKeep

LEMMA PostKeeps ==
    ASSUME UpgradeInv, NEW i \in DOMAIN publications, PostReview(i)
    PROVE  Keeps
<1> DEFINE p == publications[i]
           q == [p EXCEPT !.status = "posted", !.part = TRUE, !.current = TRUE]
<1>0. /\ version = SchemaVersion /\ p.status \in {"posting", "publish_failed"}
      /\ "number" \in indexes /\ p.number # 0 =>
            \A j \in Posted(publications) : publications[j].number # p.number
      /\ publications' = [j \in DOMAIN publications |->
             IF j = i THEN q ELSE [publications[j] EXCEPT !.current = FALSE]]
      /\ runs' = IF runs[p.run].status = "running"
                 THEN [runs EXCEPT ![p.run].status = "generated", ![p.run].phase = "posted"]
                 ELSE runs
      /\ UNCHANGED <<version, tables, observations, indexes, init>>
  BY DEF PostReview
<1>1. /\ publications \in Seq(Publication)
      /\ DOMAIN runs = 1..Len(runs) /\ Len(runs) \in Nat
      /\ Posted(publications) \subseteq DOMAIN publications /\ "number" \in indexes
      /\ \A j \in DOMAIN publications :
            /\ publications[j] \in Publication
            /\ publications[j].run \in 0..Len(runs)
            /\ publications[j].status # "posted" => publications[j].run # 0
      /\ \A j, k \in Posted(publications) :
            publications[j].number = publications[k].number /\ publications[j].number # 0
               => j = k
      /\ \A j \in Posted(publications) : publications[j].part
  BY <1>0, ReviewsAre
<1>2. /\ Live /\ UpgradeTypeOK /\ runs \in Seq(Run)
      /\ \A j \in DOMAIN runs : /\ runs[j].status # "done"
                                /\ runs[j].phase = PhaseOf(runs[j].status)
                                /\ runs[j].counted \/ runs[j].files = 0
      /\ \A j, k \in Running(runs) : j = k
  BY <1>0, LiveIs
<1>3. p \in Publication /\ p.run \in DOMAIN runs
  <2>1. p \in Publication /\ p.run \in 0..Len(runs) /\ p.run # 0
    BY <1>0, <1>1
  <2> QED
    BY <1>1, <2>1
<1>4. ASSUME NEW j \in DOMAIN publications
      PROVE  /\ publications'[j] \in Publication
             /\ publications'[j].run = publications[j].run
             /\ publications'[j].number = publications[j].number
             /\ j = i => /\ publications'[j].status = "posted" /\ publications'[j].part
                         /\ publications'[j].current
             /\ j # i => /\ publications'[j].status = publications[j].status
                         /\ publications'[j].part = publications[j].part
                         /\ ~publications'[j].current
  <2> DEFINE o == publications[j]
             u == [o EXCEPT !.current = FALSE]
             v == [o EXCEPT !.status = "posted", !.part = TRUE, !.current = TRUE]
  <2>1. o \in Publication /\ publications'[j] = IF j = i THEN v ELSE u
    BY <1>0, <1>1
  <2> HIDE DEF o
  <2>2. /\ u \in Publication /\ u.run = o.run /\ u.number = o.number /\ u.status = o.status
        /\ u.part = o.part /\ u.current = FALSE
    BY <2>1 DEF Publication
  <2>3. /\ v \in Publication /\ v.run = o.run /\ v.number = o.number /\ v.status = "posted"
        /\ v.part = TRUE /\ v.current = TRUE
    BY <2>1 DEF Publication
  <2> HIDE DEF u, v
  <2> QED
    BY <2>1, <2>2, <2>3 DEF o
<1>5. /\ DOMAIN publications' = DOMAIN publications
      /\ publications' = [j \in DOMAIN publications |-> publications'[j]]
  BY <1>0
<1>6. publications' \in Seq(Publication) /\ Len(publications') = Len(publications)
  <2>1. publications \in Seq(Publication)
    BY <1>1
  <2>2. \A j \in DOMAIN publications : publications'[j] \in Publication
    BY <1>4
  <2> QED
    BY <1>5, <2>1, <2>2, RowsAre
<1>7. Posted(publications') = Posted(publications) \cup {i} /\ i \notin Posted(publications)
  BY <1>0, <1>4, <1>5 DEF Posted
<1>8. Current(publications') = {i}
  BY <1>4, <1>5, <1>7 DEF Current, Posted
<1>9. /\ runs' \in Seq(Run) /\ Len(runs') = Len(runs) /\ DOMAIN runs' = DOMAIN runs
      /\ \A j \in DOMAIN runs :
            \/ runs'[j] = runs[j]
            \/ /\ runs[j].status = "running" /\ runs'[j].status = "generated"
               /\ runs'[j].phase = "posted" /\ runs'[j].counted = runs[j].counted
               /\ runs'[j].files = runs[j].files
  <2> DEFINE k == p.run
             r == runs[k]
             s == [r EXCEPT !.status = "generated", !.phase = "posted"]
  <2>1. k \in DOMAIN runs /\ r \in Run
    BY <1>2, <1>3
  <2>2. runs' = IF r.status = "running" THEN [runs EXCEPT ![k] = s] ELSE runs
    BY <1>0
  <2> HIDE DEF r, k
  <2>3. /\ s \in Run /\ s.status = "generated" /\ s.phase = "posted"
        /\ s.counted = r.counted /\ s.files = r.files
    BY <2>1 DEF Run
  <2> HIDE DEF s
  <2>4. CASE r.status = "running"
    <3>1. /\ runs' \in Seq(Run) /\ Len(runs') = Len(runs) /\ DOMAIN runs' = DOMAIN runs
          /\ \A j \in DOMAIN runs : runs'[j] = IF j = k THEN s ELSE runs[j]
      BY <1>2, <2>1, <2>2, <2>3, <2>4
    <3> QED
      BY <2>3, <2>4, <3>1 DEF r
  <2>5. CASE r.status # "running"
    BY <1>2, <2>2, <2>5
  <2> QED
    BY <2>4, <2>5
<1>10. \A j \in DOMAIN runs' : /\ runs'[j].status # "done"
                               /\ runs'[j].phase = PhaseOf(runs'[j].status)
                               /\ runs'[j].counted \/ runs'[j].files = 0
  <2>1. PhaseOf("generated") = "posted"
    BY DEF PhaseOf
  <2> QED
    BY <1>2, <1>9, <2>1
<1>11. \A j, k \in Running(runs') : j = k
  <2>1. Running(runs') \subseteq Running(runs)
    BY <1>9 DEF Running
  <2> QED
    BY <1>2, <2>1
<1>12. UpgradeTypeOK' /\ InitInv' /\ RunsInv' /\ ObservedInv' /\ Harmless
  BY <1>0, <1>6, <1>9, <1>10, <1>11, GatewayRunsKeep
<1>13. Unnumbered' \subseteq Unnumbered
  <2> SUFFICES ASSUME NEW j \in Unnumbered' PROVE j \in Unnumbered
    OBVIOUS
  <2>1. j \in DOMAIN publications /\ publications[j].number = 0
    BY <1>4, <1>5 DEF Unnumbered
  <2>2. CASE j = i
    BY <1>0, <2>1, <2>2 DEF Unnumbered
  <2>3. CASE j # i
    <3>1. /\ publications'[j].status = publications[j].status
          /\ publications'[j].run = publications[j].run
      BY <1>4, <2>1, <2>3
    <3>2. CASE publications[j].status # "generated"
      BY <2>1, <3>2 DEF Unnumbered
    <3>3. CASE publications[j].status = "generated"
      <4>1. /\ publications[j].status = "generated"
            /\ runs'[publications[j].run].status = "running"
        BY <3>1, <3>3 DEF Unnumbered
      <4>2. publications[j].run \in 0..Len(runs) /\ publications[j].run # 0
        BY <1>1, <2>1, <4>1
      <4>3. publications[j].run \in DOMAIN runs
        BY <1>1, <4>2
      <4>4. runs[publications[j].run].status = "running"
        BY <1>9, <4>1, <4>3
      <4> QED
        BY <2>1, <4>1, <4>4 DEF Unnumbered
    <3> QED
      BY <3>2, <3>3
  <2> QED
    BY <2>2, <2>3
<1>14. NumbersInv'
  <2>1. \A j \in DOMAIN publications :
           /\ publications'[j].run = publications[j].run
           /\ publications'[j].number = publications[j].number
           /\ publications'[j].status # "posted" => publications[j].run # 0
    BY <1>1, <1>4
  <2>2. \A j, k \in Posted(publications') :
           publications[j].number = publications[k].number /\ publications[j].number # 0
              => j = k
    BY <1>0, <1>1, <1>7
  <2> QED
    BY <1>0, <1>5, <1>9, <1>13, <2>1, <2>2, LiveNumbers
<1>15. ReviewsInv'
  <2>1. \A j \in Posted(publications') : publications'[j].part
    BY <1>1, <1>4, <1>7
  <2> QED
    BY <1>8, <2>1 DEF ReviewsInv
<1>16. Survives
  BY <1>2, <1>9 DEF Survives
<1> QED
  BY <1>12, <1>14, <1>15, <1>16 DEF Keeps, UpgradeInv

-----------------------------------------------------------------------------
(* The start, all steps, and the theorems.                                   *)

\* The reviews of a database an older deployment left, and one of this version.
AreOld(rows, age) ==
    /\ rows \in Seq(Publication)
    /\ \A i \in DOMAIN rows :
          /\ rows[i].status \in {"generated", "posted"}
          /\ rows[i].status = "generated" => rows[i].run \in Running(runs)
          /\ rows[i].status = "posted" => rows[i].run = 0
          /\ rows[i].status = "posted" /\ age >= 8 => rows[i].part
          /\ age < 12 => rows[i].number = 0
          /\ age = 12 => rows[i].number # 0
    /\ \A i, j \in DOMAIN rows : rows[i].run = rows[j].run /\ rows[i].run # 0 => i = j
    /\ \A i, j \in Posted(rows) :
          rows[i].number = rows[j].number /\ rows[i].number # 0 => i = j
    /\ age > 12 => \A i, j \in DOMAIN rows :
                      rows[i].number = 0 /\ rows[j].number = 0 => i = j
    /\ age >= 12 => \A i, j \in Current(rows) : i = j

LEMMA OldPublicationsAre ==
    ASSUME NEW d \in Databases, NEW posted \in 0..2, NEW open \in RunsWithReviews,
           NEW skipped \in 0..1, NEW unnumbered \in 0..2, runs \in Seq(Run),
           NEW rows, rows = OldPublications(d, posted, open, skipped, unnumbered)
    PROVE  AreOld(rows, d.version)
<1> DEFINE n == posted + Len(open)
           age == d.version
           none(i) == age < 12 \/ (age > 12 /\ i <= posted /\ i = unnumbered)
<1>0. /\ age \in Nat /\ posted \in Nat /\ unnumbered \in Nat /\ skipped \in Nat
      /\ Len(open) \in Nat /\ DOMAIN open = 1..Len(open) /\ n \in Nat /\ posted <= n
      /\ \A i \in DOMAIN open : open[i] \in Running(runs) /\ open[i] \in Nat /\ open[i] # 0
      /\ \A i, j \in DOMAIN open : open[i] = open[j] => i = j
  <2>1. d.version \in 0..SchemaVersion /\ SchemaVersion \in Nat
    BY UpgradeAssumption
  <2>2. PICK m \in 0..2 : open \in [1..m -> Running(runs)]
    BY DEF RunsWithReviews
  <2>3. m \in Nat /\ DOMAIN open = 1..m
    BY <2>2
  <2>4. Len(open) = m
    BY <2>2, <2>3
  <2>5. Running(runs) \in SUBSET Nat /\ \A r \in Running(runs) : r # 0
    <3>1. Running(runs) \subseteq DOMAIN runs /\ DOMAIN runs = 1..Len(runs) /\ Len(runs) \in Nat
      BY DEF Running
    <3> QED
      BY <3>1
  <2>6. \A i, j \in DOMAIN open : open[i] = open[j] => i = j
    BY DEF RunsWithReviews
  <2> QED
    BY <2>1, <2>2, <2>3, <2>4, <2>5, <2>6
<1>1. ASSUME NEW i \in 1..n
      PROVE  /\ rows[i] \in Publication
             /\ rows[i].status = IF i <= posted THEN "posted" ELSE "generated"
             /\ rows[i].run = IF i <= posted THEN 0 ELSE open[i - posted]
             /\ rows[i].number = IF none(i) THEN 0
                                 ELSE skipped + IF i <= posted THEN i ELSE posted + 1
             /\ rows[i].part <=> age >= 8 /\ i <= posted
             /\ rows[i].current <=> i <= posted /\ (age < 12 \/ i = posted)
  <2> DEFINE status == IF i <= posted THEN "posted" ELSE "generated"
             run == IF i <= posted THEN 0 ELSE open[i - posted]
             number == IF none(i) THEN 0
                       ELSE skipped + IF i <= posted THEN i ELSE posted + 1
             part == age >= 8 /\ i <= posted
             current == i <= posted /\ (age < 12 \/ i = posted)
  <2>1. rows[i] = [status |-> status, run |-> run, number |-> number, part |-> part,
                   current |-> current]
    BY DEF OldPublications
  <2>2. run \in Nat
    <3>1. ~(i <= posted) => i - posted \in DOMAIN open
      BY <1>0
    <3> QED
      BY <1>0, <3>1
  <2>3. /\ status \in {"generated", "posted"} /\ number \in Nat
        /\ part \in BOOLEAN /\ current \in BOOLEAN
    BY <1>0
  <2> HIDE DEF status, run, number, part, current
  <2>4. /\ rows[i] \in Publication /\ rows[i].run = run
        /\ rows[i].status = status /\ rows[i].number = number
        /\ rows[i].part = part /\ rows[i].current = current
    BY <2>1, <2>2, <2>3 DEF Publication
  <2> QED
    BY <2>4 DEF status, run, number, part, current
<1>2. DOMAIN rows = 1..n /\ rows = [i \in 1..n |-> rows[i]]
  BY DEF OldPublications
<1> HIDE DEF none
<1>3. rows \in [1..n -> Publication]
  <2>1. \A i \in 1..n : rows[i] \in Publication
    BY <1>1
  <2> QED
    BY <1>2, <2>1
<1>4. rows \in Seq(Publication)
  BY <1>0, <1>3
<1>5. ASSUME NEW i \in DOMAIN rows
      PROVE  /\ rows[i].status \in {"generated", "posted"}
             /\ rows[i].status = "generated" => rows[i].run \in Running(runs)
             /\ rows[i].status = "posted" => rows[i].run = 0
             /\ rows[i].status = "posted" /\ age >= 8 => rows[i].part
             /\ age < 12 => rows[i].number = 0
             /\ age = 12 => rows[i].number # 0
  <2>1. i \in 1..n /\ i \in Nat /\ i > 0
    BY <1>0, <1>2
  <2>2. ~(i <= posted) => i - posted \in DOMAIN open
    BY <1>0, <2>1
  <2>3. (age < 12 => none(i)) /\ (age = 12 => ~none(i))
    BY <1>0 DEF none
  <2> QED
    BY <1>0, <1>1, <2>1, <2>2, <2>3
<1>6. ASSUME NEW i \in DOMAIN rows, NEW j \in DOMAIN rows,
             rows[i].run = rows[j].run, rows[i].run # 0
      PROVE  i = j
  <2>1. i \in 1..n /\ j \in 1..n
    BY <1>2
  <2>2. ~(i <= posted) /\ ~(j <= posted) /\ open[i - posted] = open[j - posted]
    BY <1>1, <1>6, <2>1
  <2>3. i - posted \in DOMAIN open /\ j - posted \in DOMAIN open
    BY <1>0, <2>1, <2>2
  <2>4. i - posted = j - posted
    BY <1>0, <2>2, <2>3
  <2> QED
    BY <1>0, <2>1, <2>4
<1>7. ASSUME NEW i \in Posted(rows), NEW j \in Posted(rows),
             rows[i].number = rows[j].number, rows[i].number # 0
      PROVE  i = j
  <2>1. i \in 1..n /\ j \in 1..n /\ rows[i].status = "posted" /\ rows[j].status = "posted"
    BY <1>2 DEF Posted
  <2>2. i \in Nat /\ j \in Nat /\ i <= posted /\ j <= posted
    BY <1>0, <1>1, <2>1
  <2>3. rows[i].number = skipped + i /\ rows[j].number = skipped + j
    BY <1>1, <1>7, <2>1, <2>2
  <2>4. skipped + i = skipped + j /\ skipped \in Nat
    BY <1>0, <1>7, <2>3
  <2> QED
    BY <2>2, <2>4
<1>9. ASSUME age > 12, NEW i \in DOMAIN rows, NEW j \in DOMAIN rows,
             rows[i].number = 0, rows[j].number = 0
      PROVE  i = j
  <2>1. \A k \in 1..n : rows[k].number = 0 => none(k)
    <3> TAKE k \in 1..n
    <3>1. k \in Nat /\ k > 0 /\ posted + 1 > 0 /\ posted + 1 \in Nat
      BY <1>0
    <3>2. skipped + (IF k <= posted THEN k ELSE posted + 1) # 0
      BY <1>0, <3>1
    <3> QED
      BY <1>1, <3>2
  <2>2. none(i) /\ none(j)
    BY <1>2, <1>9, <2>1
  <2> QED
    BY <1>0, <1>9, <2>2 DEF none
<1>8. ASSUME age >= 12, NEW i \in Current(rows)
      PROVE  i = posted
  <2>1. i \in 1..n /\ rows[i].current
    BY <1>2 DEF Current, Posted
  <2> QED
    BY <1>0, <1>1, <1>8, <2>1
<1> QED
  BY <1>4, <1>5, <1>6, <1>7, <1>8, <1>9 DEF AreOld

LEMMA UpgradeStart ==
    ASSUME UpgradeInit
    PROVE  UpgradeInv
<1>1. PICK d \in Databases :
         /\ version = d.version /\ tables = d.tables
         /\ \E n \in 0..2 : runs \in [1..n -> OldRun(d)]
         /\ d.version = SchemaVersion => Cardinality(Running(runs)) <= 1
         /\ \E posted \in 0..2, skipped \in 0..1, unnumbered \in 0..2 :
                \E open \in RunsWithReviews :
                    publications = OldPublications(d, posted, open, skipped, unnumbered)
         /\ observations = [f \in Findings |-> IF d.version < 3 THEN 0 ELSE 1]
         /\ indexes = IF d.version = SchemaVersion THEN {"running", "number", "current"} ELSE {}
         /\ init = Idle
  BY DEF UpgradeInit
<1>2. /\ version \in 0..SchemaVersion /\ version \in Nat /\ tables \in Shapes
      /\ SchemaVersion \in Nat /\ SchemaVersion > 12
      /\ Live => tables = Upgraded /\ version > 12
  BY <1>1, UpgradeAssumption DEF Live
<1>3. PICK n \in 0..2 : runs \in [1..n -> OldRun(d)]
  BY <1>1
<1>4. /\ runs \in Seq(Run) /\ Len(runs) \in Nat
      /\ \A i \in DOMAIN runs :
            /\ runs[i].status # IF tables.runs = "done" THEN "generated" ELSE "done"
            /\ runs[i].phase = IF tables.runs = "current" THEN PhaseOf(runs[i].status) ELSE ""
            /\ tables.runs = "current" => runs[i].counted
  <2>1. \A r \in OldRun(d) :
           /\ r \in Run
           /\ r.status # IF tables.runs = "done" THEN "generated" ELSE "done"
           /\ r.phase = IF tables.runs = "current" THEN PhaseOf(r.status) ELSE ""
           /\ tables.runs = "current" => r.counted
    BY <1>1 DEF OldRun, Run
  <2>2. runs \in Seq(Run) /\ Len(runs) \in Nat
    <3>1. OldRun(d) \subseteq Run /\ n \in Nat
      <4>1. OldRun(d) \subseteq Run
        BY Zenon DEF OldRun
      <4> QED
        BY <4>1
    <3>2. runs \in Seq(OldRun(d))
      BY <1>3, <3>1
    <3> QED
      BY <3>1, <3>2
  <2>3. \A i \in DOMAIN runs : runs[i] \in OldRun(d)
    BY <1>3
  <2> QED
    BY <2>1, <2>2, <2>3
<1>5. PICK posted \in 0..2, skipped \in 0..1, unnumbered \in 0..2 :
         \E open \in RunsWithReviews :
             publications = OldPublications(d, posted, open, skipped, unnumbered)
  BY <1>1
<1>6. AreOld(publications, version)
  <2>1. version = d.version
    BY <1>1
  <2>2. AreOld(publications, d.version)
    BY <1>4, <1>5, OldPublicationsAre
  <2> QED
    BY <2>1, <2>2
<1>7. init \in InitSet /\ init.pc = "off"
  <2> DEFINE none == [f \in Findings |-> 0]
  <2>1. none \in [Findings -> Nat] /\ 0 \in 0..SchemaVersion /\ <<>> \in Seq(Run)
    BY <1>2
  <2>2. init = [pc |-> "off", existing |-> 0, runs |-> <<>>, observations |-> none]
    BY <1>1 DEF Idle
  <2> HIDE DEF none
  <2> QED
    BY <2>1, <2>2 DEF InitSet
<1>8. /\ observations \in [Findings -> Nat]
      /\ version >= 3 => \A f \in Findings : observations[f] > 0
      /\ indexes \subseteq {"running", "number", "current"}
      /\ Live => {"number", "current"} \subseteq indexes
  <2>1. ASSUME NEW f \in Findings
        PROVE  observations[f] \in Nat /\ (version >= 3 => observations[f] > 0)
    BY <1>1, <1>2
  <2> QED
    BY <1>1, <2>1 DEF Live
<1>9. UpgradeTypeOK
  BY <1>2, <1>4, <1>6, <1>8 DEF UpgradeTypeOK, AreOld
<1>10. InitInv
  BY <1>2, <1>7, <1>8
     DEF InitInv, RunsMade, ObservationsMade, NumberMade, CurrentMade
<1>11. RunsInv
  <2>1. Live => \A i, j \in Running(runs) : i = j
    <3>1. Running(runs) \subseteq DOMAIN runs
      BY DEF Running
    <3>2. IsFiniteSet(Running(runs))
      BY <1>4, <3>1, RowSets
    <3> QED
      BY <1>1, <3>2, AtMostOne DEF Live
  <2>2. Live => \A i \in DOMAIN runs : runs[i].counted
    <3>1. Live => tables.runs = "current"
      BY <1>2 DEF Upgraded
    <3>2. tables.runs = "current" => \A i \in DOMAIN runs : runs[i].counted
      BY <1>4
    <3> QED
      BY <3>1, <3>2
  <2> QED
    BY <1>7, <2>1, <2>2
       DEF RunsInv, PartsMade, NumberMade, ObservationsMade, RunsMade
<1>12. NumbersInv
  <2>1. /\ \A i \in DOMAIN publications :
              /\ publications[i].status \in {"generated", "posted"}
              /\ publications[i].status = "generated" => publications[i].run \in Running(runs)
              /\ publications[i].status = "posted" => publications[i].run = 0
              /\ version < 12 => publications[i].number = 0
              /\ version = 12 => publications[i].number # 0
        /\ \A i, j \in DOMAIN publications :
              publications[i].run = publications[j].run /\ publications[i].run # 0 => i = j
        /\ \A i, j \in Posted(publications) :
              publications[i].number = publications[j].number /\ publications[i].number # 0
                 => i = j
        /\ version > 12 => \A i, j \in DOMAIN publications :
              publications[i].number = 0 /\ publications[j].number = 0 => i = j
    BY <1>6 DEF AreOld
  <2>0. Len(runs) \in Nat /\ DOMAIN runs = 1..Len(runs)
    <3>1. runs \in Seq(Run)
      BY <1>4
    <3> QED
      BY <3>1
  <2>2. \A k \in Running(runs) : k \in 0..Len(runs) /\ k # 0
    <3>1. Running(runs) \subseteq 1..Len(runs)
      BY <2>0 DEF Running
    <3> QED
      BY <2>0, <3>1
  <2>3. \A i \in DOMAIN publications :
           /\ publications[i].run \in 0..Len(runs)
           /\ publications[i].status # "posted" => publications[i].run # 0
    <3>1. 0 \in 0..Len(runs)
      BY <2>0
    <3> QED
      BY <2>1, <2>2, <3>1
  <2>4. Posted(publications) \subseteq DOMAIN publications
    BY DEF Posted
  <2>5. version <= 12 =>
           \/ \A i \in Posted(publications) : publications[i].number # 0
           \/ /\ version < 12 /\ init.pc \in {"off", "number"}
              /\ \A i \in Posted(publications) : publications[i].number = 0
    BY <1>2, <1>7, <2>1, <2>4
  <2>6. version > 12 => \A i, j \in Unnumbered : i = j
    BY <2>1 DEF Unnumbered
  <2> QED
    BY <2>1, <2>3, <2>4, <2>5, <2>6 DEF NumbersInv
<1>13. ReviewsInv
  <2>1. Live => \A i, j \in Current(publications) : i = j
    BY <1>2, <1>6 DEF AreOld
  <2>2. version >= 8 => \A i \in Posted(publications) : publications[i].part
    BY <1>6 DEF AreOld, Posted
  <2> QED
    BY <1>7, <2>1, <2>2
       DEF ReviewsInv, CurrentMade, PartsMade, NumberMade, ObservationsMade, RunsMade
<1>14. ObservedInv
  BY <1>7, <1>8 DEF ObservedInv
<1> QED
  BY <1>9, <1>10, <1>11, <1>12, <1>13, <1>14 DEF UpgradeInv

LEMMA UpgradeStep ==
    ASSUME UpgradeInv, UpgradeNext
    PROVE  Keeps
<1>1. CASE StartInit \/ Refuse \/ Stop
  BY <1>1, EdgesKeep
<1>2. CASE DropNumberIndex \/ CreateNumberIndex \/ DropRunIndex
  BY <1>2, IndexStepsKeep
<1>3. CASE CreateRunIndex \/ CreateCurrentIndex
  BY <1>3, CreationsKeep
<1>4. CASE Number
  BY <1>4, NumberKeeps
<1>5. CASE MigrateStatus
  BY <1>5, MigrateStatusKeeps
<1>6. CASE ReadRuns
  BY <1>6, ReadRunsKeeps
<1>7. CASE RebuildRuns
  BY <1>7, RebuildRunsKeeps
<1>8. CASE Fill
  BY <1>8, FillKeeps
<1>9. CASE RebuildObservations
  BY <1>9, RebuildObservationsKeeps
<1>10. CASE EndDuplicates
  BY <1>10, EndDuplicatesKeeps
<1>11. CASE Backfill
  BY <1>11, BackfillKeeps
<1>12. CASE SetVersion
  BY <1>12, SetVersionKeeps
<1>13. CASE Resolve
  BY <1>13, ResolveKeeps
<1>14. CASE StartRun
  BY <1>14, StartRunKeeps
<1>15. ASSUME NEW i \in DOMAIN runs, NEW files \in 0..1, NEW complete \in BOOLEAN,
              RegisterFiles(i, files, complete)
       PROVE  Keeps
  BY <1>15, RegisterFilesKeeps
<1>16. ASSUME NEW i \in DOMAIN runs, RenderReview(i)
       PROVE  Keeps
  BY <1>16, RenderKeeps
<1>17. ASSUME NEW i \in DOMAIN publications, ClaimReview(i)
       PROVE  Keeps
  BY <1>17, ClaimKeeps
<1>18. ASSUME NEW i \in DOMAIN publications, PostReview(i)
       PROVE  Keeps
  BY <1>18, PostKeeps
<1>19. ASSUME NEW i \in DOMAIN publications, TakeBackReview(i)
       PROVE  Keeps
  BY <1>19, TakeBackKeeps
<1> QED
  BY <1>1, <1>2, <1>3, <1>4, <1>5, <1>6, <1>7, <1>8, <1>9, <1>10, <1>11, <1>12, <1>13,
     <1>14, <1>15, <1>16, <1>17, <1>18, <1>19 DEF UpgradeNext, InitSteps

LEMMA UpgradeStutter ==
    ASSUME UpgradeInv, UNCHANGED vars
    PROVE  UpgradeInv'
<1>1. UNCHANGED <<version, tables, runs, publications, observations, indexes, init>>
  BY DEF vars
<1>2. UpgradeTypeOK' /\ InitInv' /\ RunsInv'
  BY <1>1 DEF UpgradeInv, UpgradeTypeOK, InitInv, RunsInv, Live
<1>3. NumbersInv' /\ ReviewsInv' /\ ObservedInv'
  BY <1>1 DEF UpgradeInv, NumbersInv, Unnumbered, ReviewsInv, ObservedInv, Live
<1> QED
  BY <1>2, <1>3 DEF UpgradeInv

\* Wherever init_schema is stopped, and whatever version it began on, the
\* invariant holds.
LEMMA UpgradeInvariant == UpgradeSpec => []UpgradeInv
<1>1. UpgradeInit => UpgradeInv
  BY UpgradeStart
<1>2. UpgradeInv /\ [UpgradeNext]_vars => UpgradeInv'
  BY UpgradeStep, UpgradeStutter DEF Keeps
<1> QED
  BY <1>1, <1>2, PTL DEF UpgradeSpec

\* Each column holds what it can hold, and review_runs only the statuses and
\* phases that the CHECKs of its shape allow, in every state of an upgrade.
THEOREM UpgradeTypes == UpgradeSpec => []UpgradeTypeOK
<1>1. UpgradeInv => UpgradeTypeOK
  BY DEF UpgradeInv
<1> QED
  BY <1>1, UpgradeInvariant, PTL

\* A database verify_schema lets a gateway work on has what the gateway relies
\* on, also if several inits were stopped in the middle of their upgrade, and
\* while an init runs again beside the gateway.
THEOREM ReadyDatabasesAreUpgraded == UpgradeSpec => []ReadyMeansUpgraded
<1>1. ASSUME UpgradeInv, version = SchemaVersion
      PROVE  /\ tables = Upgraded
             /\ {"number", "current"} \subseteq indexes
             /\ Cardinality(Running(runs)) <= 1
             /\ Cardinality(Current(publications)) <= 1
             /\ \A i, j \in Posted(publications) :
                   publications[i].number = publications[j].number => i = j
             /\ \A i \in Posted(publications) : publications[i].part
             /\ \A f \in Findings : observations[f] > 0
  <2>1. Live /\ UpgradeTypeOK /\ runs \in Seq(Run) /\ version \in Nat /\ version > 12
    BY <1>1, LiveIs
  <2>2. publications \in Seq(Publication)
    BY <2>1 DEF UpgradeTypeOK
  <2>3. IsFiniteSet(Running(runs)) /\ IsFiniteSet(Current(publications))
    <3>1. Running(runs) \subseteq DOMAIN runs /\ Current(publications) \subseteq DOMAIN publications
      BY DEF Running, Current, Posted
    <3> QED
      BY <2>1, <2>2, <3>1, RowSets
  <2>4. Cardinality(Running(runs)) <= 1
    <3>1. \A i, j \in Running(runs) : i = j
      BY <1>1, LiveIs
    <3> QED
      BY <2>3, <3>1, AtMostOne
  <2>5. Cardinality(Current(publications)) <= 1
    <3>1. \A i, j \in Current(publications) : i = j
      BY <1>1, <2>1 DEF UpgradeInv, ReviewsInv
    <3> QED
      BY <2>3, <3>1, AtMostOne
  <2>6. \A i, j \in Posted(publications) :
           publications[i].number = publications[j].number => i = j
    <3>1. \A i \in Posted(publications) : publications[i].number = 0 => i \in Unnumbered
      BY DEF Posted, Unnumbered
    <3> QED
      BY <1>1, <3>1, ReviewsAre
  <2>7. /\ \A i \in Posted(publications) : publications[i].part
        /\ \A f \in Findings : observations[f] > 0
    BY <1>1, <2>1 DEF UpgradeInv, ReviewsInv, ObservedInv
  <2>8. tables = Upgraded /\ {"number", "current"} \subseteq indexes
    BY <1>1, <2>1 DEF UpgradeInv, InitInv
  <2> QED
    BY <2>4, <2>5, <2>6, <2>7, <2>8
<1>2. UpgradeInv => ReadyMeansUpgraded
  BY <1>1 DEF ReadyMeansUpgraded
<1> QED
  BY <1>2, UpgradeInvariant, PTL

\* The tables of runs that are made again, twice for the oldest databases, lose
\* no run and no outcome; of the duplicates that still run the last one goes on.
THEOREM NoUpgradeLosesARun == UpgradeSpec => OutcomesSurvive
<1>1. UpgradeInv /\ [UpgradeNext]_vars => [Survives]_vars
  BY UpgradeStep DEF Keeps
<1> QED
  BY <1>1, UpgradeInvariant, PTL DEF UpgradeSpec, OutcomesSurvive, Survives

\* init_schema may be run again in the container of a working gateway: no step
\* of it takes back or repeats what was written since it began.
THEOREM RerunsAreHarmless == UpgradeSpec => RerunIsHarmless
<1>1. UpgradeInv /\ [UpgradeNext]_vars => [Harmless]_vars
  BY UpgradeStep DEF Keeps
<1> QED
  BY <1>1, UpgradeInvariant, PTL DEF UpgradeSpec, RerunIsHarmless, Harmless
=============================================================================

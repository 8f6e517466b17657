------------------------ MODULE FindingLifecycleProofs ------------------------
(* Theorems of FindingLifecycle, for any findings, versions and limit, and    *)
(* any number of runs, pushes and decisions.                                  *)
EXTENDS FindingLifecycle, FiniteSetTheorems, WellFoundedInduction, TLAPS

\* The columns of the rows.
Form ==
    /\ runs \in [Runs -> Run]
    /\ ledger \in Seq(Publication)
    /\ refs \in [Findings -> Nat]
    /\ decisions \in [Findings -> Decision]
    /\ dropping = NoDrop
         \/ dropping \in [run : Runs, finding : Findings, drop : BOOLEAN]

\* References are given one after the other, none of them twice.
Named == {f \in Findings : refs[f] # 0}

ReferencesGrow ==
    /\ \A f \in Findings : refs[f] <= Cardinality(Named)
    /\ ReferencesNameOneFinding

\* A run has a publication once its session has delivered; the review comes
\* out before the clean-up.
OnePublication ==
    /\ \A p \in DOMAIN ledger :
         /\ runs[ledger[p].run].pc \in {"posting", "cleanup", "done"}
         /\ runs[ledger[p].run].pc = "posting" => ~ledger[p].posted
         /\ runs[ledger[p].run].pc = "cleanup" => ledger[p].posted
    /\ \A p, q \in DOMAIN ledger : ledger[p].run = ledger[q].run => p = q

\* A review lists a finding in one way only.
ListedOnce ==
    \A p \in DOMAIN ledger :
        /\ ledger[p].hushed \subseteq ledger[p].closed
        /\ ledger[p].current \cap (ledger[p].closed \cup ledger[p].unchecked) = {}
        /\ ledger[p].closed \cap ledger[p].unchecked = {}

PostedNumbers == {ledger[p].number : p \in Posted}

\* The numbers are no greater than the ids.
NumbersBounded == \A p \in DOMAIN ledger : ledger[p].number <= p

\* Reviews that came out have the numbers up to the next; none is beyond it.
NumbersInOrder ==
    /\ PostedNumbers = 1..(NextNumber - 1)
    /\ \A p \in DOMAIN ledger : ledger[p].number <= NextNumber

\* A review that can still come out, for it has the next number, was rendered
\* on the board as it still is.
RenderedOnThisBoard(p) ==
    /\ \A q \in Posted : q < p
    /\ Active \subseteq ledger[p].current \cup ledger[p].closed \cup ledger[p].unchecked
    /\ ledger[p].closed \cup ledger[p].unchecked \subseteq Active
    /\ Cardinality(ledger[p].current \cup ledger[p].unchecked) <= Limit

NextIsUpToDate ==
    \A p \in DOMAIN ledger \ Posted :
        ledger[p].number = NextNumber => RenderedOnThisBoard(p)

CurrentPosted == current = 0 \/ current \in Posted

\* As long as no review was taken back, one is current if any came out.
OneIsCurrent == current = 0 => Posted = {}

Undisturbed == NumbersInOrder /\ NextIsUpToDate /\ OneIsCurrent

LedgerInv ==
    /\ OnePublication /\ ListedOnce /\ NumbersBounded /\ CurrentPosted
    /\ TakenBack = {} => Undisturbed

-----------------------------------------------------------------------------
(* The largest of a set of numbers.                                          *)

LEMMA LargestIs ==
    ASSUME NEW S \in SUBSET Nat, S # {}, NEW n \in Nat, \A m \in S : m <= n
    PROVE  Largest(S) \in S /\ \A m \in S : m <= Largest(S)
<1> DEFINE T == {k \in Nat : \A m \in S : m <= k}
           R == OpToRel(<, Nat)
<1>1. T \subseteq Nat /\ T # {}
  OBVIOUS
<1>2. PICK k \in T : \A y \in T : ~(<<y, k>> \in R)
  <2> HIDE DEF T, R
  <2>1. IsWellFoundedOn(R, Nat)
    BY NatLessThanWellFounded DEF R
  <2> QED
    BY <1>1, <2>1, WFMin
<1>3. k \in S
  <2> SUFFICES ASSUME k \notin S PROVE FALSE
    OBVIOUS
  <2>1. PICK l \in S : TRUE
    OBVIOUS
  <2>2. l \in Nat /\ l <= k /\ l # k /\ k \in Nat
    OBVIOUS
  <2>3. k - 1 \in Nat /\ k - 1 < k
    BY <2>2
  <2>4. \A m \in S : m <= k - 1
    <3> TAKE m \in S
    <3>1. m \in Nat /\ m <= k /\ m # k
      OBVIOUS
    <3> QED
      BY <3>1
  <2>5. k - 1 \in T
    BY <2>3, <2>4
  <2>6. <<k - 1, k>> \in R
    BY <2>2, <2>3 DEF OpToRel
  <2> QED
    BY <1>2, <2>5, <2>6
<1>4. \E m \in S : \A l \in S : l <= m
  BY <1>3
<1> QED
  BY <1>4 DEF Largest

\* The largest is the one that is in the set and above it.
LEMMA LargestIsThis ==
    ASSUME NEW S \in SUBSET Nat, NEW n \in S, \A m \in S : m <= n
    PROVE  Largest(S) = n
<1>1. Largest(S) \in S /\ n <= Largest(S)
  BY LargestIs
<1>2. Largest(S) \in Nat /\ n \in Nat /\ Largest(S) <= n
  BY <1>1
<1> QED
  BY <1>1, <1>2

-----------------------------------------------------------------------------
(* Rows.                                                                     *)

LEMMA FormInit == LifecycleInit => Form
<1> SUFFICES ASSUME LifecycleInit PROVE Form
  OBVIOUS
<1>1. FirstVersion \in Versions
  BY LifecycleAssumption DEF FirstVersion
<1>2. runs \in [Runs -> Run]
  BY <1>1 DEF LifecycleInit, Run
<1>3. decisions \in [Findings -> Decision]
  BY DEF LifecycleInit, Decision
<1>4. refs \in [Findings -> Nat] /\ ledger \in Seq(Publication) /\ dropping = NoDrop
  BY DEF LifecycleInit
<1> QED
  BY <1>2, <1>3, <1>4 DEF Form

\* What a row of the ledger holds.
LEMMA RowForm ==
    ASSUME Form, NEW p \in DOMAIN ledger
    PROVE  /\ DOMAIN ledger = 1..Len(ledger) /\ Len(ledger) \in Nat
           /\ ledger[p] \in Publication /\ ledger[p].run \in Runs
           /\ ledger[p].number \in Nat \ {0}
           /\ ledger[p].current \subseteq Findings
           /\ ledger[p].closed \subseteq Findings
           /\ ledger[p].unchecked \subseteq Findings
<1>1. /\ DOMAIN ledger = 1..Len(ledger) /\ Len(ledger) \in Nat
      /\ ledger[p] \in Publication
  BY DEF Form
<1> QED
  BY <1>1 DEF Publication

LEMMA CurrentIsFinding ==
    ASSUME Form, NEW r \in Runs PROVE CurrentOf(r) \subseteq Findings
BY DEF Form, CurrentOf, Run

\* The updates of a row of review_runs and of its session.
LEMMA RunUpdates ==
    ASSUME NEW k \in Run
    PROVE  /\ \A step \in {"working", "recording", "delivering", "posting", "cleanup", "done"} :
                  [k EXCEPT !.pc = step] \in Run
           /\ \A head \in [Findings -> Versions] :
                  [k EXCEPT !.status = "running", !.head = head] \in Run
           /\ [k EXCEPT !.status = "ended"] \in Run
           /\ [k EXCEPT !.pc = "done", !.status = "ended"] \in Run
           /\ [k EXCEPT !.pc = "cleanup", !.status = "ended"] \in Run
           /\ \A batch \in SUBSET Findings :
                  [k EXCEPT !.pc = "recording", !.batch = batch] \in Run
           /\ \A seen \in SUBSET Findings :
                  [k EXCEPT !.seen = seen, !.batch = {}, !.pc = "working"] \in Run
           /\ \A drops \in SUBSET Findings : [k EXCEPT !.drops = drops] \in Run
           /\ k.seen \subseteq Findings /\ k.batch \subseteq Findings
           /\ k.drops \subseteq Findings /\ k.head \in [Findings -> Versions]
BY DEF Run

LEMMA FormRuns ==
    ASSUME Form, NEW r \in Runs,
           \/ \E head \in [Findings -> Versions] : StartRun(r, head)
           \/ \E batch \in SUBSET Findings : RecordCheck(r, batch)
           \/ DeliverCheck(r)
    PROVE  Form'
<1>1. ASSUME NEW head \in [Findings -> Versions], StartRun(r, head) PROVE Form'
  <2>1. ASSUME NEW q \in Runs
        PROVE  /\ [runs[q] EXCEPT !.status = "running", !.head = head] \in Run
               /\ [runs[q] EXCEPT !.status = "ended"] \in Run
               /\ runs[q] \in Run
    BY RunUpdates DEF Form
  <2>2. runs' \in [Runs -> Run]
    BY <1>1, <2>1 DEF StartRun
  <2> QED
    BY <1>1, <2>2 DEF StartRun, Form
<1>2. ASSUME NEW batch \in SUBSET Findings, RecordCheck(r, batch) PROVE Form'
  <2>1. [runs[r] EXCEPT !.pc = "recording", !.batch = batch] \in Run
    BY RunUpdates DEF Form
  <2>2. runs' = [runs EXCEPT ![r] = [runs[r] EXCEPT !.pc = "recording", !.batch = batch]]
    BY <1>2 DEF RecordCheck, Form
  <2>3. runs' \in [Runs -> Run]
    BY <2>1, <2>2 DEF Form
  <2> QED
    BY <1>2, <2>3 DEF RecordCheck, Form
<1>3. CASE DeliverCheck(r)
  <2>1. [runs[r] EXCEPT !.pc = "delivering"] \in Run
    BY RunUpdates DEF Form
  <2>2. runs' \in [Runs -> Run]
    BY <1>3, <2>1 DEF DeliverCheck, Form
  <2> QED
    BY <1>3, <2>2 DEF DeliverCheck, Form
<1> QED
  BY <1>1, <1>2, <1>3

\* The next number is above those of the reviews that are out.
LEMMA NextNumberIs ==
    ASSUME Form, NumbersBounded
    PROVE  /\ NextNumber \in Nat \ {0} /\ NextNumber <= Len(ledger) + 1
           /\ PostedNumbers \in SUBSET Nat
           /\ PostedNumbers = {} => NextNumber = 1
           /\ PostedNumbers # {} => NextNumber = Largest(PostedNumbers) + 1
<1>1. Len(ledger) \in Nat /\ DOMAIN ledger = 1..Len(ledger)
  BY DEF Form
<1>2. PostedNumbers \in SUBSET Nat /\ \A m \in PostedNumbers : m <= Len(ledger)
  <2>1. ASSUME NEW p \in Posted
        PROVE  ledger[p].number \in Nat /\ ledger[p].number <= Len(ledger)
    <3>1. p \in DOMAIN ledger /\ p \in Nat /\ p <= Len(ledger)
      BY <1>1 DEF Posted
    <3>2. ledger[p].number \in Nat /\ ledger[p].number <= p
      BY <3>1, RowForm DEF NumbersBounded
    <3> QED
      BY <1>1, <3>1, <3>2
  <2> QED
    BY <2>1 DEF PostedNumbers
<1>3. PostedNumbers = {} <=> Posted = {}
  BY DEF PostedNumbers
<1>4. CASE Posted = {}
  <2>1. NextNumber = 1 /\ PostedNumbers = {}
    BY <1>3, <1>4 DEF NextNumber
  <2> QED
    BY <1>1, <1>2, <2>1
<1>5. CASE Posted # {}
  <2>1. NextNumber = Largest(PostedNumbers) + 1 /\ PostedNumbers # {}
    BY <1>3, <1>5 DEF NextNumber, PostedNumbers
  <2>2. Largest(PostedNumbers) \in PostedNumbers
    BY <1>1, <1>2, <2>1, LargestIs
  <2>3. Largest(PostedNumbers) \in Nat /\ Largest(PostedNumbers) <= Len(ledger)
    BY <1>2, <2>2
  <2>4. NextNumber \in Nat \ {0} /\ NextNumber <= Len(ledger) + 1
    BY <1>1, <2>1, <2>3
  <2> QED
    BY <1>2, <2>1, <2>4
<1> QED
  BY <1>4, <1>5

\* The session's verdicts on the prior findings sort them.
LEMMA ReconciledForm ==
    ASSUME NEW r \in Runs, NEW given, NEW result
    PROVE  /\ Reconciled(r, given, result) \subseteq Previous /\ Previous \subseteq Active
           /\ Reconciled(r, given, result) \subseteq Findings
           /\ result \in {"hushed", "closed", "unchecked"} =>
                  Reconciled(r, given, result) \cap CurrentOf(r) = {}
BY DEF Reconciled, Reconcile, Previous, Active

\* What finalize_review appends.
Rendered(r, given) ==
    [run |-> r, number |-> NextNumber, posted |-> FALSE, takenBack |-> FALSE,
     current |-> CurrentOf(r),
     closed |-> Reconciled(r, given, "closed") \cup Reconciled(r, given, "hushed"),
     hushed |-> Reconciled(r, given, "hushed"),
     unchecked |-> Reconciled(r, given, "unchecked")]

LEMMA RenderedForm ==
    ASSUME Form, NumbersBounded, NEW r \in Runs, NEW given
    PROVE  Rendered(r, given) \in Publication
BY CurrentIsFinding, ReconciledForm, NextNumberIs DEF Publication, Rendered

\* finalize_review refuses the verdicts, fails the run, or renders a review.
LEMMA FinalizeForm ==
    ASSUME NEW r \in Runs, NEW given, Finalize(r, given)
    PROVE  \/ UNCHANGED ledger /\ runs' = [runs EXCEPT ![r].pc = "working"]
           \/ UNCHANGED ledger /\ runs' = Fail(r)
           \/ /\ ledger' = Append(ledger, Rendered(r, given))
              /\ runs' = [runs EXCEPT ![r].pc = "posting"]
              /\ Reconciled(r, given, "refused") = {}
              /\ ~(Cardinality(Pending(r, given)) > Limit)
<1>1. CASE Reconciled(r, given, "refused") # {}
  BY <1>1 DEF Finalize
<1>2. CASE /\ Reconciled(r, given, "refused") = {}
           /\ Cardinality(Pending(r, given)) > Limit
  BY <1>2 DEF Finalize
<1>3. CASE /\ Reconciled(r, given, "refused") = {}
           /\ ~(Cardinality(Pending(r, given)) > Limit)
  BY <1>3 DEF Finalize, Rendered
<1> QED
  BY <1>1, <1>2, <1>3

LEMMA FormFinalize ==
    ASSUME Form, NumbersBounded, NEW r \in Runs, NEW given, Finalize(r, given)
    PROVE  Form'
<1>1. \A step \in {"working", "posting"} : [runs[r] EXCEPT !.pc = step] \in Run
  BY RunUpdates DEF Form
<1>2. Fail(r) \in [Runs -> Run]
  BY RunUpdates DEF Fail, Form
<1>3. /\ [runs EXCEPT ![r].pc = "working"] \in [Runs -> Run]
      /\ [runs EXCEPT ![r].pc = "posting"] \in [Runs -> Run]
  BY <1>1 DEF Form
<1>4. runs' \in [Runs -> Run]
  BY <1>2, <1>3, FinalizeForm
<1>5. UNCHANGED ledger \/ ledger' = Append(ledger, Rendered(r, given))
  BY FinalizeForm
<1>6. ledger' \in Seq(Publication)
  <2>1. Rendered(r, given) \in Publication /\ ledger \in Seq(Publication)
    BY RenderedForm DEF Form
  <2>2. Append(ledger, Rendered(r, given)) \in Seq(Publication)
    BY <2>1
  <2> QED
    BY <1>5, <2>1, <2>2
<1> QED
  BY <1>4, <1>6 DEF Finalize, Form

LEMMA LastReferenceIs ==
    ASSUME Form, ReferencesGrow, Findings # {}
    PROVE  /\ LastReference \in Nat /\ LastReference <= Cardinality(Named)
           /\ \A f \in Findings : refs[f] \in Nat /\ refs[f] <= LastReference
<1> DEFINE S == {refs[f] : f \in Findings}
<1>1. S \in SUBSET Nat /\ S # {}
  BY DEF Form
<1>2. Cardinality(Named) \in Nat
  BY LifecycleAssumption, FS_Subset, FS_CardinalityType DEF Named
<1>3. \A m \in S : m <= Cardinality(Named)
  BY DEF ReferencesGrow
<1> HIDE DEF S
<1>4. Largest(S) \in S /\ \A m \in S : m <= Largest(S)
  BY <1>1, <1>2, <1>3, LargestIs
<1>5. LastReference = Largest(S)
  BY DEF LastReference, S
<1>6. \A f \in Findings : refs[f] \in S
  BY DEF S
<1> QED
  BY <1>1, <1>3, <1>4, <1>5, <1>6

\* New references go on from the last, one for each finding that has none.
LEMMA RecordRefers ==
    ASSUME Form, ReferencesGrow, NEW r \in Runs, RecordWrite(r)
    PROVE  refs' \in [Findings -> Nat] /\ ReferencesGrow'
<1> DEFINE new == {f \in runs[r].batch : refs[f] = 0}
           c == Cardinality(new)
<1>1. new \subseteq Findings /\ IsFiniteSet(new) /\ c \in Nat
  <2>1. new \subseteq Findings
    BY DEF Form, Run
  <2> QED
    BY <2>1, LifecycleAssumption, FS_Subset, FS_CardinalityType
<1>2. PICK number \in [new -> LastReference + 1 .. LastReference + c] :
         /\ \A f, g \in new : number[f] = number[g] => f = g
         /\ refs' = [f \in Findings |-> IF f \in new THEN number[f] ELSE refs[f]]
  BY DEF RecordWrite
<1> HIDE DEF new
<1>3. CASE new = {}
  <2>1. refs' = refs
    BY <1>2, <1>3 DEF Form
  <2> QED
    BY <2>1 DEF Form, ReferencesGrow, ReferencesNameOneFinding, Named
<1>4. CASE new # {}
  <2>1. /\ LastReference \in Nat /\ LastReference <= Cardinality(Named)
        /\ \A f \in Findings : refs[f] \in Nat /\ refs[f] <= LastReference
    BY <1>1, <1>4, LastReferenceIs
  <2>2. \A f \in new : /\ number[f] \in Nat /\ number[f] > LastReference
                       /\ number[f] <= LastReference + c
    BY <1>1, <1>2, <2>1
  <2>3. /\ \A f \in new : refs'[f] = number[f]
        /\ \A f \in Findings \ new : refs'[f] = refs[f]
    BY <1>1, <1>2
  <2>4. refs' \in [Findings -> Nat]
    BY <1>2, <2>1, <2>2
  <2>5. Named' = Named \cup new /\ Named \cap new = {}
    BY <1>1, <2>1, <2>2, <2>3 DEF Named, new
  <2>6. IsFiniteSet(Named) /\ Cardinality(Named) \in Nat
    BY LifecycleAssumption, FS_Subset, FS_CardinalityType DEF Named
  <2>7. Cardinality(Named') = Cardinality(Named) + c
    BY <1>1, <2>5, <2>6, FS_Union, FS_EmptySet
  <2>8. \A f \in Findings : refs'[f] <= Cardinality(Named')
    BY <1>1, <2>1, <2>2, <2>3, <2>6, <2>7
  <2>9. ASSUME NEW f \in Findings, NEW g \in Findings, refs'[f] = refs'[g], refs'[f] # 0
        PROVE  f = g
    <3>1. CASE f \in new /\ g \in new
      BY <1>2, <2>3, <2>9, <3>1
    <3>2. CASE f \notin new /\ g \notin new
      BY <2>3, <2>9, <3>2 DEF ReferencesGrow, ReferencesNameOneFinding
    <3>3. CASE f \in new /\ g \notin new
      BY <2>1, <2>2, <2>3, <2>9, <3>3
    <3>4. CASE f \notin new /\ g \in new
      BY <2>1, <2>2, <2>3, <2>9, <3>4
    <3> QED
      BY <3>1, <3>2, <3>3, <3>4
  <2> QED
    BY <2>4, <2>8, <2>9 DEF ReferencesGrow, ReferencesNameOneFinding
<1> QED
  BY <1>3, <1>4

LEMMA FormRecord ==
    ASSUME Form, ReferencesGrow, NEW r \in Runs, RecordWrite(r) PROVE Form'
<1>1. [runs[r] EXCEPT !.seen = @ \cup runs[r].batch, !.batch = {}, !.pc = "working"]
        \in Run
  BY RunUpdates DEF Form
<1>2. runs' \in [Runs -> Run]
  BY <1>1 DEF RecordWrite, Form
<1> QED
  BY <1>2, RecordRefers DEF RecordWrite, Form

\* What a review that comes out changes of the ledger.
LEMMA Comes ==
    ASSUME Form, NEW p \in DOMAIN ledger, ledger' = [ledger EXCEPT ![p].posted = TRUE]
    PROVE  /\ ledger' \in Seq(Publication) /\ DOMAIN ledger' = DOMAIN ledger
           /\ \A q \in DOMAIN ledger : q # p => ledger'[q] = ledger[q]
           /\ ledger'[p].posted = TRUE /\ ledger'[p].takenBack = ledger[p].takenBack
           /\ ledger'[p].run = ledger[p].run /\ ledger'[p].number = ledger[p].number
           /\ ledger'[p].current = ledger[p].current
           /\ ledger'[p].closed = ledger[p].closed
           /\ ledger'[p].hushed = ledger[p].hushed
           /\ ledger'[p].unchecked = ledger[p].unchecked
<1>1. ledger[p] \in Publication /\ ledger \in Seq(Publication)
  BY DEF Form
<1>2. [ledger[p] EXCEPT !.posted = TRUE] \in Publication
  BY <1>1 DEF Publication
<1>3. ledger' = [ledger EXCEPT ![p] = [ledger[p] EXCEPT !.posted = TRUE]]
  BY <1>1
<1>4. /\ ledger' \in Seq(Publication) /\ DOMAIN ledger' = DOMAIN ledger
      /\ \A q \in DOMAIN ledger : q # p => ledger'[q] = ledger[q]
      /\ ledger'[p] = [ledger[p] EXCEPT !.posted = TRUE]
  BY <1>1, <1>2, <1>3
<1> QED
  BY <1>1, <1>4 DEF Publication

\* What is changed of the ledger when a review is taken back.
LEMMA GoesBack ==
    ASSUME Form, NEW p \in DOMAIN ledger,
           ledger' = [ledger EXCEPT ![p].posted = FALSE, ![p].takenBack = TRUE]
    PROVE  /\ ledger' \in Seq(Publication) /\ DOMAIN ledger' = DOMAIN ledger
           /\ \A q \in DOMAIN ledger : q # p => ledger'[q] = ledger[q]
           /\ ledger'[p].posted = FALSE /\ ledger'[p].takenBack = TRUE
           /\ ledger'[p].run = ledger[p].run /\ ledger'[p].number = ledger[p].number
           /\ ledger'[p].current = ledger[p].current
           /\ ledger'[p].closed = ledger[p].closed
           /\ ledger'[p].hushed = ledger[p].hushed
           /\ ledger'[p].unchecked = ledger[p].unchecked
<1>1. ledger[p] \in Publication /\ ledger \in Seq(Publication)
  BY DEF Form
<1> DEFINE row == [ledger[p] EXCEPT !.posted = FALSE, !.takenBack = TRUE]
<1>2. /\ row \in Publication /\ row.posted = FALSE /\ row.takenBack = TRUE
      /\ row.run = ledger[p].run /\ row.number = ledger[p].number
      /\ row.current = ledger[p].current /\ row.closed = ledger[p].closed
      /\ row.hushed = ledger[p].hushed /\ row.unchecked = ledger[p].unchecked
  BY <1>1 DEF Publication
<1>3. ledger' = [ledger EXCEPT ![p] = row]
  BY <1>1
<1> HIDE DEF row
<1>4. ledger' \in Seq(Publication)
  <2>1. \A s \in Seq(Publication) : \A q \in DOMAIN s : \A row_1 \in Publication :
           [s EXCEPT ![q] = row_1] \in Seq(Publication)
    OBVIOUS
  <2>2. [ledger EXCEPT ![p] = row] \in Seq(Publication)
    BY <1>1, <1>2, <2>1
  <2> QED
    BY <1>3, <2>2, Zenon
<1>5. /\ DOMAIN ledger' = DOMAIN ledger
      /\ \A q \in DOMAIN ledger : q # p => ledger'[q] = ledger[q]
      /\ ledger'[p] = row
  BY <1>1, <1>3
<1> QED
  BY <1>2, <1>4, <1>5

LEMMA FormPost ==
    ASSUME Form, NEW r \in Runs, Post(r) \/ PostFails(r) \/ TakeBack(r) PROVE Form'
<1>1. /\ [runs[r] EXCEPT !.pc = "done", !.status = "ended"] \in Run
      /\ [runs[r] EXCEPT !.pc = "cleanup", !.status = "ended"] \in Run
      /\ [runs[r] EXCEPT !.pc = "done"] \in Run
  BY RunUpdates DEF Form
<1>2. runs' \in [Runs -> Run]
  BY <1>1 DEF Post, PostFails, TakeBack, Fail, Form
<1>3. ledger' \in Seq(Publication)
  BY Comes, GoesBack DEF Post, PostFails, TakeBack, Form
<1> QED
  BY <1>2, <1>3 DEF Post, PostFails, TakeBack, Form

LEMMA FormVerifier ==
    ASSUME Form,
           \/ \E r \in Runs, f \in Findings, drop \in BOOLEAN : DropCheck(r, f, drop)
           \/ DropWrite
    PROVE  Form'
<1>1. ASSUME NEW r \in Runs, NEW f \in Findings, NEW drop \in BOOLEAN,
             DropCheck(r, f, drop)
      PROVE  Form'
  BY <1>1 DEF DropCheck, Form
<1>2. CASE DropWrite
  <2>1. dropping \in [run : Runs, finding : Findings, drop : BOOLEAN]
    BY <1>2 DEF DropWrite, Form
  <2>2. \A r \in Runs : \A drops \in SUBSET Findings :
          [runs[r] EXCEPT !.drops = drops] \in Run
    BY RunUpdates DEF Form
  <2>3. \A r \in Runs : runs[r].drops \subseteq Findings
    BY RunUpdates DEF Form
  <2>4. runs' \in [Runs -> Run]
    BY <1>2, <2>1, <2>2, <2>3 DEF DropWrite, Form
  <2> QED
    BY <1>2, <2>4 DEF DropWrite, Form
<1> QED
  BY <1>1, <1>2

LEMMA FormDecide ==
    ASSUME Form, CurrentPosted, NEW f \in Findings,
           \/ SuppressOnPullRequest(f) \/ Unsuppress(f)
           \/ \E r \in Runs : SuppressByOperator(f, r)
    PROVE  Form'
<1>1. \A r \in Runs :
        [suppresses |-> TRUE, version |-> runs[r].head[f]] \in Decision
  BY DEF Form, Run, Decision
<1>2. CASE SuppressOnPullRequest(f)
  <2>1. current \in DOMAIN ledger
    BY <1>2 DEF SuppressOnPullRequest, CurrentPosted, Posted
  <2>2. ledger[current].run \in Runs
    BY <2>1, RowForm
  <2> QED
    BY <1>1, <1>2, <2>2 DEF SuppressOnPullRequest, Decide, Form
<1>3. CASE Unsuppress(f)
  BY <1>3 DEF Unsuppress, Form, Decision
<1>4. ASSUME NEW r \in Runs, SuppressByOperator(f, r) PROVE Form'
  BY <1>1, <1>4 DEF SuppressByOperator, Decide, Form
<1> QED
  BY <1>2, <1>3, <1>4

\* Every step is one of these.
RunSteps(r) ==
    \/ \E head \in [Findings -> Versions] : StartRun(r, head)
    \/ \E batch \in SUBSET Findings : RecordCheck(r, batch)
    \/ DeliverCheck(r)

VerifierSteps ==
    \/ \E r \in Runs, f \in Findings, drop \in BOOLEAN : DropCheck(r, f, drop)
    \/ DropWrite

DecisionSteps(f) ==
    \/ SuppressOnPullRequest(f) \/ Unsuppress(f)
    \/ \E r \in Runs : SuppressByOperator(f, r)

LEMMA Steps ==
    ASSUME [LifecycleNext]_vars
    PROVE  \/ \E r \in Runs : RunSteps(r) \/ RecordWrite(r)
           \/ \E r \in Runs : Post(r) \/ PostFails(r) \/ TakeBack(r)
           \/ \E r \in Runs : \E given \in [Previous -> Verdicts] : Finalize(r, given)
           \/ VerifierSteps
           \/ \E f \in Findings : DecisionSteps(f)
           \/ UNCHANGED vars
BY DEF LifecycleNext, RunSteps, VerifierSteps, DecisionSteps

LEMMA FormStep ==
    ASSUME Form, ReferencesGrow, NumbersBounded, CurrentPosted, [LifecycleNext]_vars
    PROVE  Form'
<1>1. CASE UNCHANGED vars
  BY <1>1 DEF Form, vars
<1>2. ASSUME NEW r \in Runs, RunSteps(r) PROVE Form'
  BY <1>2, FormRuns DEF RunSteps
<1>3. CASE VerifierSteps
  BY <1>3, FormVerifier DEF VerifierSteps
<1>4. ASSUME NEW f \in Findings, DecisionSteps(f) PROVE Form'
  BY <1>4, FormDecide DEF DecisionSteps
<1> QED
  BY <1>1, <1>2, <1>3, <1>4, FormRecord, FormPost, FormFinalize, Steps

LEMMA RefersStep ==
    ASSUME Form, ReferencesGrow, [LifecycleNext]_vars PROVE ReferencesGrow'
<1>1. ASSUME UNCHANGED refs PROVE ReferencesGrow'
  BY <1>1 DEF ReferencesGrow, ReferencesNameOneFinding, Named
<1>2. ASSUME NEW r \in Runs, 
             RunSteps(r) \/ Post(r) \/ PostFails(r) \/ TakeBack(r)
      PROVE  UNCHANGED refs
  BY <1>2 DEF RunSteps, StartRun, RecordCheck, DeliverCheck, Post, PostFails, TakeBack
<1>3. ASSUME NEW r \in Runs, NEW given, Finalize(r, given) PROVE UNCHANGED refs
  BY <1>3 DEF Finalize
<1>4. CASE VerifierSteps
  BY <1>1, <1>4 DEF VerifierSteps, DropCheck, DropWrite
<1>5. ASSUME NEW f \in Findings, DecisionSteps(f) PROVE UNCHANGED refs
  BY <1>5 DEF DecisionSteps, SuppressOnPullRequest, Unsuppress, SuppressByOperator, Decide
<1>6. CASE UNCHANGED vars
  BY <1>1, <1>6 DEF vars
<1> QED
  BY <1>1, <1>2, <1>3, <1>4, <1>5, <1>6, RecordRefers, Steps

-----------------------------------------------------------------------------
(* The ledger.                                                               *)

\* The row that decides on a finding is one of a review that came out.
LEMMA LastMention ==
    ASSUME Form, NEW f, Mentions(f) # {}
    PROVE  /\ Largest(Mentions(f)) \in Mentions(f) /\ Largest(Mentions(f)) \in Posted
           /\ \A p \in Mentions(f) : p <= Largest(Mentions(f))
<1>1. Len(ledger) \in Nat /\ DOMAIN ledger = 1..Len(ledger)
  BY DEF Form
<1>2. /\ Mentions(f) \in SUBSET Nat /\ Mentions(f) \subseteq Posted
      /\ \A p \in Mentions(f) : p <= Len(ledger)
  BY <1>1 DEF Mentions, Posted
<1> QED
  BY <1>1, <1>2, LargestIs

\* The board and the next number depend on the reviews that came out only.
LEMMA SameBoard ==
    ASSUME Form, Posted' = Posted, \A p \in Posted : ledger'[p] = ledger[p]
    PROVE  Active' = Active /\ PostedNumbers' = PostedNumbers /\ NextNumber' = NextNumber
<1>1. \A f \in Findings : Mentions(f)' = Mentions(f)
  BY DEF Mentions
<1>2. Active' = Active
  <2>1. ASSUME NEW f \in Findings PROVE f \in Active' <=> f \in Active
    <3>1. CASE Mentions(f) = {}
      BY <1>1, <3>1 DEF Active
    <3>2. CASE Mentions(f) # {}
      <4>1. Largest(Mentions(f)) \in Posted
        BY <3>2, LastMention
      <4> QED
        BY <1>1, <3>2, <4>1 DEF Active
    <3> QED
      BY <3>1, <3>2
  <2> QED
    BY <2>1 DEF Active
<1>3. PostedNumbers' = PostedNumbers
  BY DEF PostedNumbers
<1> QED
  BY <1>2, <1>3 DEF NextNumber, PostedNumbers

\* Steps that leave the ledger alone, and no session past its delivery back.
LEMMA LedgerKept ==
    ASSUME Form, LedgerInv, UNCHANGED <<ledger, current>>,
           \A r \in Runs : \/ runs'[r].pc = runs[r].pc
                           \/ runs'[r].pc = "done" /\ runs[r].pc = "posting"
                           \/ runs[r].pc \notin {"posting", "cleanup", "done"}
    PROVE  LedgerInv'
<1>1. UNCHANGED <<Posted, TakenBack, Active, NextNumber, PostedNumbers>>
  <2>1. Posted' = Posted /\ \A p \in Posted : ledger'[p] = ledger[p]
    BY DEF Posted
  <2> QED
    BY <2>1, SameBoard DEF TakenBack
<1>2. OnePublication'
  BY RowForm DEF LedgerInv, OnePublication
<1>3. ListedOnce' /\ NumbersBounded' /\ CurrentPosted'
  BY <1>1 DEF LedgerInv, ListedOnce, NumbersBounded, CurrentPosted
<1>4. ASSUME Undisturbed PROVE Undisturbed'
  BY <1>1, <1>4 DEF Undisturbed, NumbersInOrder, NextIsUpToDate, RenderedOnThisBoard,
                    OneIsCurrent
<1> QED
  BY <1>1, <1>2, <1>3, <1>4 DEF LedgerInv

\* A review is rendered on the board as it is, and gets the next number.
LEMMA LedgerFinalize ==
    ASSUME Form, LedgerInv, NEW r \in Runs, NEW given,
           At(r, "delivering"),
           ledger' = Append(ledger, Rendered(r, given)), UNCHANGED current,
           runs' = [runs EXCEPT ![r].pc = "posting"],
           Reconciled(r, given, "refused") = {},
           ~(Cardinality(Pending(r, given)) > Limit)
    PROVE  LedgerInv'
<1> DEFINE new == Rendered(r, given)
<1> PICK n \in Nat : n = Len(ledger) + 1
  BY DEF Form
<1>1. new \in Publication
  BY RenderedForm DEF LedgerInv
<1>2. /\ Len(ledger) \in Nat /\ DOMAIN ledger = 1..Len(ledger)
      /\ DOMAIN ledger' = 1..n /\ ledger'[n] = new
      /\ \A p \in 1..Len(ledger) : ledger'[p] = ledger[p]
  <2> HIDE DEF new
  <2> QED
    BY <1>1 DEF Form, new
<1>3. /\ new.run = r /\ new.number = NextNumber
      /\ new.posted = FALSE /\ new.takenBack = FALSE
      /\ new.current = CurrentOf(r)
      /\ new.closed = Reconciled(r, given, "closed") \cup Reconciled(r, given, "hushed")
      /\ new.hushed = Reconciled(r, given, "hushed")
      /\ new.unchecked = Reconciled(r, given, "unchecked")
  BY DEF Rendered
<1> HIDE DEF new
<1>4. 1..n = 1..Len(ledger) \cup {n} /\ n \notin 1..Len(ledger) /\ n \in Nat
  BY <1>2
<1>5. Posted' = Posted /\ Posted \subseteq 1..Len(ledger)
        /\ \A p \in Posted : ledger'[p] = ledger[p]
  BY <1>2, <1>3, <1>4 DEF Posted
<1>6. UNCHANGED <<Active, NextNumber, PostedNumbers, TakenBack>>
  <2>1. TakenBack' = TakenBack
    BY <1>2, <1>3, <1>4 DEF TakenBack
  <2> QED
    BY <1>5, <2>1, SameBoard
<1>7. /\ runs'[r].pc = "posting"
      /\ \A q \in Runs : q # r => runs'[q] = runs[q]
      /\ runs[r].pc = "delivering"
  BY DEF Form, Run, At
<1>8. OnePublication'
  <2>1. \A p \in 1..Len(ledger) : ledger[p].run \in Runs /\ ledger[p].run # r
    BY <1>2, <1>7, RowForm DEF LedgerInv, OnePublication
  <2>2. ASSUME NEW p \in DOMAIN ledger'
        PROVE  /\ runs'[ledger'[p].run].pc \in {"posting", "cleanup", "done"}
               /\ runs'[ledger'[p].run].pc = "posting" => ~ledger'[p].posted
               /\ runs'[ledger'[p].run].pc = "cleanup" => ledger'[p].posted
    BY <1>2, <1>3, <1>4, <1>7, <2>1 DEF LedgerInv, OnePublication
  <2>3. ASSUME NEW p \in DOMAIN ledger', NEW q \in DOMAIN ledger',
               ledger'[p].run = ledger'[q].run
        PROVE  p = q
    BY <1>2, <1>3, <1>4, <2>1, <2>3 DEF LedgerInv, OnePublication
  <2> QED
    BY <2>2, <2>3 DEF OnePublication
<1>9. ListedOnce'
  <2>1. \A result \in {"hushed", "closed", "unchecked"} :
          Reconciled(r, given, result) \cap CurrentOf(r) = {}
    BY ReconciledForm
  <2>2. /\ Reconciled(r, given, "closed") \cap Reconciled(r, given, "unchecked") = {}
        /\ Reconciled(r, given, "hushed") \cap Reconciled(r, given, "unchecked") = {}
    BY DEF Reconciled
  <2>3. /\ new.hushed \subseteq new.closed
        /\ new.current \cap (new.closed \cup new.unchecked) = {}
        /\ new.closed \cap new.unchecked = {}
    BY <1>3, <2>1, <2>2
  <2> QED
    BY <1>2, <1>4, <2>3 DEF LedgerInv, ListedOnce
<1>10. NumbersBounded' /\ CurrentPosted'
  <2>1. NextNumber \in Nat /\ NextNumber <= n
    BY NextNumberIs DEF LedgerInv
  <2>2. \A p \in DOMAIN ledger' : ledger'[p].number <= p
    BY <1>2, <1>3, <1>4, <2>1 DEF LedgerInv, NumbersBounded
  <2> QED
    BY <1>5, <2>2 DEF LedgerInv, NumbersBounded, CurrentPosted
<1>12. ASSUME Undisturbed PROVE NumbersInOrder' /\ OneIsCurrent'
  <2>1. NextNumber \in Nat
    BY NextNumberIs DEF LedgerInv
  <2> QED
    BY <1>2, <1>3, <1>4, <1>5, <1>6, <1>12, <2>1
       DEF Undisturbed, NumbersInOrder, OneIsCurrent
<1>11. ASSUME Undisturbed PROVE NextIsUpToDate'
  <2>0. Previous = Active
    <3>1. CASE current = 0
      BY <1>11, <3>1 DEF Undisturbed, OneIsCurrent, Previous, Active, Mentions
    <3> QED
      BY <3>1 DEF Previous
  <2>1. Active \subseteq new.current \cup new.closed \cup new.unchecked
    <3>1. ASSUME NEW f \in Active
          PROVE  \/ f \in CurrentOf(r)
                 \/ f \in Reconciled(r, given, "closed")
                 \/ f \in Reconciled(r, given, "hushed")
                 \/ f \in Reconciled(r, given, "unchecked")
      <4>1. f \notin Reconciled(r, given, "refused")
        OBVIOUS
      <4> QED
        BY <2>0, <4>1 DEF Reconciled, Reconcile
    <3> QED
      BY <1>3, <3>1
  <2>2. new.closed \cup new.unchecked \subseteq Active
    BY <1>3, <2>0, ReconciledForm
  <2>3. Cardinality(new.current \cup new.unchecked) <= Limit
    <3>1. new.current \cup new.unchecked = Pending(r, given)
      BY <1>3 DEF Pending
    <3>2. Pending(r, given) \subseteq Findings
      BY CurrentIsFinding, ReconciledForm DEF Pending
    <3>3. IsFiniteSet(Pending(r, given))
      BY <3>2, LifecycleAssumption, FS_Subset
    <3>4. Cardinality(Pending(r, given)) \in Nat /\ Limit \in Nat
      BY <3>3, LifecycleAssumption, FS_CardinalityType
    <3>5. Cardinality(Pending(r, given)) <= Limit
      BY <3>4
    <3> QED
      BY <3>1, <3>5
  <2>4. RenderedOnThisBoard(n)'
    BY <1>2, <1>4, <1>5, <1>6, <2>1, <2>2, <2>3 DEF RenderedOnThisBoard
  <2>5. ASSUME NEW p \in DOMAIN ledger \ Posted, RenderedOnThisBoard(p)
        PROVE  RenderedOnThisBoard(p)'
    BY <1>2, <1>5, <1>6, <2>5 DEF RenderedOnThisBoard
  <2>6. DOMAIN ledger' \ Posted' = (DOMAIN ledger \ Posted) \cup {n}
    BY <1>2, <1>4, <1>5
  <2>7. ASSUME NEW p \in DOMAIN ledger' \ Posted', ledger'[p].number = NextNumber'
        PROVE  RenderedOnThisBoard(p)'
    <3>1. CASE p = n
      BY <2>4, <3>1
    <3>2. CASE p \in DOMAIN ledger \ Posted
      <4>1. ledger[p].number = NextNumber
        BY <1>2, <1>6, <2>7, <3>2
      <4> QED
        BY <1>11, <2>5, <3>2, <4>1 DEF Undisturbed, NextIsUpToDate
    <3> QED
      BY <2>6, <3>1, <3>2
  <2> QED
    BY <2>7 DEF NextIsUpToDate
<1> QED
  BY <1>6, <1>8, <1>9, <1>10, <1>11, <1>12 DEF LedgerInv, Undisturbed

\* The index lets only the review with the next number come out, and that one
\* was rendered on the board as it is.
LEMMA ComesOut ==
    ASSUME Form, LedgerInv, Undisturbed, NEW p \in DOMAIN ledger, ~ledger[p].posted,
           ~NumberTaken(ledger[p].number),
           ledger' = [ledger EXCEPT ![p].posted = TRUE]
    PROVE  /\ p \notin Posted /\ Posted' = Posted \cup {p}
           /\ ledger[p].number = NextNumber /\ NextNumber' = NextNumber + 1
           /\ PostedNumbers' = PostedNumbers \cup {NextNumber}
           /\ RenderedOnThisBoard(p)
<1>1. p \notin Posted /\ ledger[p].number \in Nat \ {0}
  BY RowForm DEF Posted
<1>2. Posted' = Posted \cup {p} /\ \A q \in Posted : ledger'[q] = ledger[q]
  BY <1>1, Comes DEF Posted
<1>3. /\ NextNumber \in Nat \ {0} /\ PostedNumbers = 1..(NextNumber - 1)
      /\ ledger[p].number <= NextNumber
  BY NextNumberIs DEF LedgerInv, Undisturbed, NumbersInOrder
<1>4. ledger[p].number \notin PostedNumbers
  BY DEF NumberTaken, PostedNumbers
<1>5. ledger[p].number = NextNumber
  BY <1>1, <1>3, <1>4
<1>6. PostedNumbers' = PostedNumbers \cup {NextNumber}
  BY <1>1, <1>2, <1>5, Comes DEF PostedNumbers
<1>7. NextNumber' = NextNumber + 1
  <2>1. /\ PostedNumbers' \in SUBSET Nat /\ NextNumber \in PostedNumbers'
        /\ \A m \in PostedNumbers' : m <= NextNumber
    BY <1>3, <1>6
  <2>2. Largest(PostedNumbers') = NextNumber
    BY <1>3, <2>1, LargestIsThis
  <2>3. NextNumber' = Largest(PostedNumbers') + 1
    BY <1>2 DEF NextNumber, PostedNumbers, Largest
  <2> QED
    BY <2>2, <2>3
<1>8. RenderedOnThisBoard(p)
  BY <1>1, <1>5 DEF Undisturbed, NextIsUpToDate
<1> QED
  BY <1>1, <1>2, <1>5, <1>6, <1>7, <1>8

LEMMA LedgerPost ==
    ASSUME Form, LedgerInv, NEW r \in Runs, Post(r)
    PROVE  LedgerInv'
<1>1. /\ runs'[r].pc = "cleanup" /\ runs[r].pc = "posting"
      /\ \A q \in Runs : q # r => runs'[q] = runs[q]
  BY DEF Post, Form, Run, At
<1>2. PICK p \in DOMAIN ledger :
         /\ ledger[p].run = r /\ ~NumberTaken(ledger[p].number)
         /\ ledger' = [ledger EXCEPT ![p].posted = TRUE]
         /\ current' = p
  BY DEF Post
<1>3. ~ledger[p].posted
  BY <1>1, <1>2 DEF LedgerInv, OnePublication
<1>4. /\ DOMAIN ledger' = DOMAIN ledger
      /\ \A q \in DOMAIN ledger : q # p => ledger'[q] = ledger[q]
      /\ ledger'[p].posted = TRUE /\ ledger'[p].takenBack = ledger[p].takenBack
      /\ ledger'[p].run = ledger[p].run /\ ledger'[p].number = ledger[p].number
      /\ ledger'[p].current = ledger[p].current
      /\ ledger'[p].closed = ledger[p].closed
      /\ ledger'[p].hushed = ledger[p].hushed
      /\ ledger'[p].unchecked = ledger[p].unchecked
  BY <1>2, Comes
<1>5. OnePublication'
  <2>1. \A q \in DOMAIN ledger : ledger[q].run = r => q = p
    BY <1>2 DEF LedgerInv, OnePublication
  <2>2. ASSUME NEW q \in DOMAIN ledger'
        PROVE  /\ ledger'[q].run = ledger[q].run
               /\ runs'[ledger'[q].run].pc \in {"posting", "cleanup", "done"}
               /\ runs'[ledger'[q].run].pc = "posting" => ~ledger'[q].posted
               /\ runs'[ledger'[q].run].pc = "cleanup" => ledger'[q].posted
    <3>1. CASE q = p
      BY <1>1, <1>2, <1>4, <3>1
    <3>2. CASE q # p
      <4>1. ledger[q].run \in Runs /\ ledger[q].run # r
        BY <1>4, <2>1, <3>2, RowForm
      <4> QED
        BY <1>1, <1>4, <3>2, <4>1 DEF LedgerInv, OnePublication
    <3> QED
      BY <3>1, <3>2
  <2> QED
    BY <1>4, <2>2 DEF LedgerInv, OnePublication
<1>6. ListedOnce' /\ NumbersBounded'
  BY <1>4 DEF LedgerInv, ListedOnce, NumbersBounded
<1>7. CurrentPosted' /\ OneIsCurrent'
  <2>1. current' = p /\ p \in Posted'
    BY <1>2, <1>4 DEF Posted
  <2>2. p # 0
    BY RowForm
  <2> QED
    BY <2>1, <2>2 DEF CurrentPosted, OneIsCurrent
<1>8. ASSUME Undisturbed PROVE NumbersInOrder' /\ NextIsUpToDate'
  <2>1. /\ p \notin Posted /\ Posted' = Posted \cup {p}
        /\ ledger[p].number = NextNumber /\ NextNumber' = NextNumber + 1
        /\ PostedNumbers' = PostedNumbers \cup {NextNumber}
    BY <1>2, <1>3, <1>8, ComesOut
  <2>2. /\ NextNumber \in Nat \ {0} /\ PostedNumbers = 1..(NextNumber - 1)
        /\ \A q \in DOMAIN ledger : /\ ledger[q].number <= NextNumber
                                    /\ ledger[q].number \in Nat
    BY <1>8, RowForm, NextNumberIs DEF LedgerInv, Undisturbed, NumbersInOrder
  <2>3. NumbersInOrder'
    BY <1>4, <2>1, <2>2 DEF NumbersInOrder
  <2>4. \A q \in DOMAIN ledger' : ledger'[q].number # NextNumber'
    BY <1>4, <2>1, <2>2
  <2> QED
    BY <2>3, <2>4 DEF NextIsUpToDate
<1>9. TakenBack' = TakenBack
  BY <1>4 DEF TakenBack
<1> QED
  BY <1>5, <1>6, <1>7, <1>8, <1>9 DEF LedgerInv, Undisturbed

\* From now on nothing is said of numbers and of the board.
LEMMA LedgerTakeBack ==
    ASSUME Form, LedgerInv, NEW r \in Runs, TakeBack(r)
    PROVE  LedgerInv'
<1>1. /\ runs'[r].pc = "done" /\ runs[r].pc = "cleanup"
      /\ \A q \in Runs : q # r => runs'[q] = runs[q]
  BY DEF TakeBack, Form, Run, At
<1>2. PICK p \in DOMAIN ledger :
         /\ ledger[p].run = r
         /\ ledger' = [ledger EXCEPT ![p].posted = FALSE, ![p].takenBack = TRUE]
         /\ current' = IF current = p THEN 0 ELSE current
  BY DEF TakeBack
<1>3. /\ DOMAIN ledger' = DOMAIN ledger
      /\ \A q \in DOMAIN ledger : q # p => ledger'[q] = ledger[q]
      /\ ledger'[p].posted = FALSE /\ ledger'[p].takenBack = TRUE
      /\ ledger'[p].run = ledger[p].run /\ ledger'[p].number = ledger[p].number
      /\ ledger'[p].current = ledger[p].current
      /\ ledger'[p].closed = ledger[p].closed
      /\ ledger'[p].hushed = ledger[p].hushed
      /\ ledger'[p].unchecked = ledger[p].unchecked
  BY <1>2, GoesBack
<1>4. OnePublication'
  <2>1. \A q \in DOMAIN ledger : ledger[q].run = r => q = p
    BY <1>2 DEF LedgerInv, OnePublication
  <2>2. ASSUME NEW q \in DOMAIN ledger'
        PROVE  /\ ledger'[q].run = ledger[q].run
               /\ runs'[ledger'[q].run].pc \in {"posting", "cleanup", "done"}
               /\ runs'[ledger'[q].run].pc = "posting" => ~ledger'[q].posted
               /\ runs'[ledger'[q].run].pc = "cleanup" => ledger'[q].posted
    <3>1. CASE q = p
      BY <1>1, <1>2, <1>3, <3>1
    <3>2. CASE q # p
      <4>1. ledger[q].run \in Runs /\ ledger[q].run # r
        BY <1>3, <2>1, <3>2, RowForm
      <4> QED
        BY <1>1, <1>3, <3>2, <4>1 DEF LedgerInv, OnePublication
    <3> QED
      BY <3>1, <3>2
  <2> QED
    BY <1>3, <2>2 DEF LedgerInv, OnePublication
<1>5. ListedOnce' /\ NumbersBounded'
  BY <1>3 DEF LedgerInv, ListedOnce, NumbersBounded
<1>6. CurrentPosted'
  <2>1. Posted' = Posted \ {p}
    BY <1>3 DEF Posted
  <2> QED
    BY <1>2, <2>1 DEF LedgerInv, CurrentPosted
<1>7. p \in TakenBack'
  BY <1>3 DEF TakenBack
<1> QED
  BY <1>4, <1>5, <1>6, <1>7 DEF LedgerInv

LEMMA LedgerStep ==
    ASSUME Form, LedgerInv, [LifecycleNext]_vars PROVE LedgerInv'
<1>1. ASSUME NEW r \in Runs, RunSteps(r) \/ RecordWrite(r) PROVE LedgerInv'
  <2>1. UNCHANGED <<ledger, current>>
    BY <1>1 DEF RunSteps, StartRun, RecordCheck, DeliverCheck, RecordWrite
  <2>2. ASSUME NEW q \in Runs
        PROVE  \/ runs'[q].pc = runs[q].pc
               \/ runs[q].pc \notin {"posting", "cleanup", "done"}
    <3>1. CASE \E head \in [Findings -> Versions] : StartRun(r, head)
      <4>1. PICK head \in [Findings -> Versions] : StartRun(r, head)
        BY <3>1
      <4>2. runs[q] \in Run
        BY DEF Form
      <4>3. \/ runs'[q] = [runs[q] EXCEPT !.status = "running", !.head = head]
            \/ runs'[q] = [runs[q] EXCEPT !.status = "ended"]
            \/ runs'[q] = runs[q]
        BY <4>1 DEF StartRun
      <4> QED
        BY <4>2, <4>3 DEF Run
    <3>2. CASE \E batch \in SUBSET Findings : RecordCheck(r, batch)
      BY <3>2 DEF RecordCheck, Form, Run, At
    <3>3. CASE DeliverCheck(r)
      BY <3>3 DEF DeliverCheck, Form, Run, At
    <3>4. CASE RecordWrite(r)
      BY <3>4 DEF RecordWrite, Form, Run, At
    <3> QED
      BY <1>1, <3>1, <3>2, <3>3, <3>4 DEF RunSteps
  <2> QED
    BY <2>1, <2>2, LedgerKept
<1>2. ASSUME NEW r \in Runs, NEW given, Finalize(r, given) PROVE LedgerInv'
  <2>1. At(r, "delivering") /\ UNCHANGED current
    BY <1>2 DEF Finalize
  <2>2. CASE UNCHANGED ledger /\ \/ runs' = [runs EXCEPT ![r].pc = "working"]
                                 \/ runs' = Fail(r)
    <3>1. \A q \in Runs :
             runs'[q].pc = runs[q].pc \/ runs[q].pc \notin {"posting", "cleanup", "done"}
      BY <2>1, <2>2 DEF Fail, Form, Run, At
    <3> QED
      BY <2>1, <2>2, <3>1, LedgerKept
  <2> QED
    BY <1>2, <2>1, <2>2, FinalizeForm, LedgerFinalize
<1>3. CASE VerifierSteps
  <2>1. UNCHANGED <<ledger, current>>
    BY <1>3 DEF VerifierSteps, DropCheck, DropWrite
  <2>2. ASSUME NEW q \in Runs PROVE runs'[q].pc = runs[q].pc
    <3>1. CASE DropWrite
      <4>1. runs \in [Runs -> Run] /\ runs[q] \in Run
        BY DEF Form
      <4>2. \/ runs'[q] = runs[q]
            \/ \E drops : runs'[q] = [runs[q] EXCEPT !.drops = drops]
        BY <3>1, <4>1 DEF DropWrite
      <4> QED
        BY <4>1, <4>2 DEF Run
    <3>2. ASSUME NEW r \in Runs, NEW f \in Findings, NEW drop \in BOOLEAN,
                 DropCheck(r, f, drop)
          PROVE  UNCHANGED runs
      BY <3>2 DEF DropCheck
    <3> QED
      BY <1>3, <3>1, <3>2 DEF VerifierSteps
  <2> QED
    BY <2>1, <2>2, LedgerKept
<1>4. ASSUME NEW f \in Findings, DecisionSteps(f) PROVE LedgerInv'
  <2>1. UNCHANGED <<runs, ledger, current>>
    BY <1>4 DEF DecisionSteps, SuppressOnPullRequest, Unsuppress, SuppressByOperator,
                Decide
  <2> QED
    BY <2>1, LedgerKept
<1>5. CASE UNCHANGED vars
  BY <1>5, LedgerKept DEF vars
<1>6. ASSUME NEW r \in Runs, PostFails(r) PROVE LedgerInv'
  <2>1. /\ runs'[r].pc = "done" /\ runs[r].pc = "posting"
        /\ \A q \in Runs : q # r => runs'[q] = runs[q]
        /\ UNCHANGED <<ledger, current>>
    BY <1>6 DEF PostFails, Fail, Form, Run, At
  <2> QED
    BY <2>1, LedgerKept
<1> QED
  BY <1>1, <1>2, <1>3, <1>4, <1>5, <1>6, LedgerPost, LedgerTakeBack, Steps

-----------------------------------------------------------------------------
(* Theorems.                                                                 *)

LifecycleInv == Form /\ ReferencesGrow /\ LedgerInv

LEMMA InvInit == LifecycleInit => LifecycleInv
<1> SUFFICES ASSUME LifecycleInit PROVE LifecycleInv
  OBVIOUS
<1>1. ledger = <<>> /\ DOMAIN ledger = {} /\ Posted = {} /\ current = 0
  BY DEF LifecycleInit, Posted
<1>2. ReferencesGrow
  <2>1. Named = {} /\ \A f \in Findings : refs[f] = 0
    BY DEF LifecycleInit, Named
  <2> QED
    BY <2>1, FS_EmptySet DEF ReferencesGrow, ReferencesNameOneFinding
<1>3. NumbersInOrder
  <2>1. NextNumber = 1 /\ PostedNumbers = {}
    BY <1>1 DEF NextNumber, PostedNumbers
  <2> QED
    BY <1>1, <2>1 DEF NumbersInOrder
<1> QED
  BY <1>1, <1>2, <1>3, FormInit
     DEF LifecycleInv, LedgerInv, OnePublication, ListedOnce, NumbersBounded,
         CurrentPosted, Undisturbed, NextIsUpToDate, OneIsCurrent

LEMMA InvStep == LifecycleInv /\ [LifecycleNext]_vars => LifecycleInv'
BY FormStep, RefersStep, LedgerStep DEF LifecycleInv, LedgerInv

LEMMA InvHolds == LifecycleSpec => []LifecycleInv
BY InvInit, InvStep, PTL DEF LifecycleSpec

\* Runs, publications, references and decisions hold values of their columns,
\* a session makes one publication at most, and a publication lists a finding
\* in one way only (finalize_review, _reconcile_prior_findings).
THEOREM LifecycleTypeCorrect == LifecycleSpec => []LifecycleTypeOK
<1>1. LifecycleInv => LifecycleTypeOK
  <2> SUFFICES ASSUME LifecycleInv PROVE LifecycleTypeOK
    OBVIOUS
  <2>1. Named \subseteq Findings /\ IsFiniteSet(Findings)
    BY LifecycleAssumption DEF Named
  <2>2. /\ Cardinality(Named) \in Nat /\ Cardinality(Findings) \in Nat
        /\ Cardinality(Named) <= Cardinality(Findings)
    BY <2>1, FS_Subset, FS_CardinalityType
  <2>3. ASSUME NEW f \in Findings PROVE refs[f] \in 0..Cardinality(Findings)
    BY <2>2 DEF LifecycleInv, ReferencesGrow, Form
  <2>4. refs \in [Findings -> 0..Cardinality(Findings)]
    BY <2>3 DEF LifecycleInv, Form
  <2>5. \A p, q \in DOMAIN ledger : ledger[p].run = ledger[q].run => p = q
    BY DEF LifecycleInv, LedgerInv, OnePublication
  <2>6. ListedOnce /\ CurrentPosted
    BY DEF LifecycleInv, LedgerInv
  <2> QED
    BY <2>4, <2>5, <2>6 DEF LifecycleInv, Form, ListedOnce, CurrentPosted, LifecycleTypeOK
<1> QED
  BY <1>1, InvHolds, PTL

\* A local reference is given to one finding only, in whatever order the runs
\* record and however many findings a call brings (assign_local_reference).
THEOREM ReferencesAreUnique == LifecycleSpec => []ReferencesNameOneFinding
<1>1. LifecycleInv => ReferencesNameOneFinding
  BY DEF LifecycleInv, ReferencesGrow
<1> QED
  BY <1>1, InvHolds, PTL

\* A review comes out or is taken back, or the board stays as it is.
LEMMA BoardChanges ==
    ASSUME LifecycleInv, [LifecycleNext]_vars
    PROVE  \/ Posted' = Posted /\ TakenBack' = TakenBack /\ Active' = Active
           \/ \E p \in DOMAIN ledger :
                 /\ ~ledger[p].posted /\ ~NumberTaken(ledger[p].number)
                 /\ ledger' = [ledger EXCEPT ![p].posted = TRUE]
           \/ \E p \in Posted :
                 ledger' = [ledger EXCEPT ![p].posted = FALSE, ![p].takenBack = TRUE]
<1> Form /\ LedgerInv
  BY DEF LifecycleInv
<1>1. ASSUME UNCHANGED ledger
      PROVE  Posted' = Posted /\ TakenBack' = TakenBack /\ Active' = Active
  <2>1. /\ Posted' = Posted /\ \A p \in Posted : ledger'[p] = ledger[p]
        /\ TakenBack' = TakenBack
    BY <1>1 DEF Posted, TakenBack
  <2> QED
    BY <2>1, SameBoard
<1>2. ASSUME NEW r \in Runs, RunSteps(r) \/ RecordWrite(r) PROVE UNCHANGED ledger
  BY <1>2 DEF RunSteps, StartRun, RecordCheck, DeliverCheck, RecordWrite
<1>3. ASSUME VerifierSteps \/ UNCHANGED vars PROVE UNCHANGED ledger
  BY <1>3 DEF VerifierSteps, DropCheck, DropWrite, vars
<1>4. ASSUME NEW f \in Findings, DecisionSteps(f) PROVE UNCHANGED ledger
  BY <1>4 DEF DecisionSteps, SuppressOnPullRequest, Unsuppress, SuppressByOperator,
              Decide
<1>5. ASSUME NEW r \in Runs, NEW given, Finalize(r, given)
      PROVE  Posted' = Posted /\ TakenBack' = TakenBack /\ Active' = Active
  <2>1. CASE ledger' = Append(ledger, Rendered(r, given))
    <3>1. /\ Rendered(r, given) \in Publication
          /\ Rendered(r, given).posted = FALSE /\ Rendered(r, given).takenBack = FALSE
      BY RenderedForm DEF LedgerInv, Rendered
    <3>2. /\ DOMAIN ledger = 1..Len(ledger) /\ Len(ledger) \in Nat
          /\ DOMAIN ledger' = 1..Len(ledger) \cup {Len(ledger) + 1}
          /\ ledger'[Len(ledger) + 1] = Rendered(r, given)
          /\ \A p \in 1..Len(ledger) : ledger'[p] = ledger[p]
      BY <2>1, <3>1 DEF Form
    <3>3. /\ Posted' = Posted /\ \A p \in Posted : ledger'[p] = ledger[p]
          /\ TakenBack' = TakenBack
      BY <3>1, <3>2 DEF Posted, TakenBack
    <3> QED
      BY <3>3, SameBoard
  <2> QED
    BY <1>1, <1>5, <2>1, FinalizeForm
<1>6. ASSUME NEW r \in Runs, Post(r)
      PROVE  \E p \in DOMAIN ledger :
                   /\ ~ledger[p].posted /\ ~NumberTaken(ledger[p].number)
                   /\ ledger' = [ledger EXCEPT ![p].posted = TRUE]
  <2>1. runs[r].pc = "posting"
    BY <1>6 DEF Post, At
  <2>2. \A p \in DOMAIN ledger : ledger[p].run = r => ~ledger[p].posted
    BY <2>1 DEF LedgerInv, OnePublication
  <2> QED
    BY <1>6, <2>2 DEF Post
<1>7. ASSUME NEW r \in Runs, PostFails(r) PROVE UNCHANGED ledger
  BY <1>7 DEF PostFails
<1>8. ASSUME NEW r \in Runs, TakeBack(r)
      PROVE  \E p \in Posted :
                ledger' = [ledger EXCEPT ![p].posted = FALSE, ![p].takenBack = TRUE]
  <2>1. runs[r].pc = "cleanup"
    BY <1>8 DEF TakeBack, At
  <2>2. \A p \in DOMAIN ledger : ledger[p].run = r => p \in Posted
    BY <2>1 DEF LedgerInv, OnePublication, Posted
  <2> QED
    BY <1>8, <2>2 DEF TakeBack
<1> QED
  BY <1>1, <1>2, <1>3, <1>4, <1>5, <1>6, <1>7, <1>8, Steps

\* As long as no review was taken back, one that comes out accounts for the
\* findings open at that moment: if another one came out since it was rendered,
\* that one has its number, and the index refuses it (mark_publication_posted).
THEOREM ReviewsAccountForFindings == LifecycleSpec => AccountsForOpenFindings
<1>1. ASSUME LifecycleInv, [LifecycleNext]_vars, TakenBack = {},
             NEW p \in Posted' \ Posted
      PROVE  /\ Active \subseteq
                  ledger[p].current \cup ledger[p].closed \cup ledger[p].unchecked
             /\ ledger[p].closed \cup ledger[p].unchecked \subseteq Active
  <2> Form /\ LedgerInv /\ Undisturbed
    BY <1>1 DEF LifecycleInv, LedgerInv
  <2>0. ASSUME NEW q \in Posted,
               ledger' = [ledger EXCEPT ![q].posted = FALSE, ![q].takenBack = TRUE]
        PROVE  Posted' \subseteq Posted
    BY <2>0, GoesBack DEF Posted
  <2>1. PICK q \in DOMAIN ledger :
           /\ ~ledger[q].posted /\ ~NumberTaken(ledger[q].number)
           /\ ledger' = [ledger EXCEPT ![q].posted = TRUE]
    BY <1>1, <2>0, BoardChanges
  <2>2. Posted' = Posted \cup {q} /\ RenderedOnThisBoard(q)
    BY <2>1, ComesOut
  <2> QED
    BY <1>1, <2>2 DEF RenderedOnThisBoard
<1>2. LifecycleInv /\ [LifecycleNext]_vars =>
        [TakenBack = {} => \A p \in Posted' \ Posted :
           /\ Active \subseteq
                ledger[p].current \cup ledger[p].closed \cup ledger[p].unchecked
           /\ ledger[p].closed \cup ledger[p].unchecked \subseteq Active]_vars
  BY <1>1
<1> QED
  BY <1>2, InvHolds, PTL DEF LifecycleSpec, AccountsForOpenFindings

\* The board after a review came out: what it found, and what it carried over.
LEMMA BoardMoves ==
    ASSUME Form, LedgerInv, Undisturbed, NEW p \in DOMAIN ledger, ~ledger[p].posted,
           ~NumberTaken(ledger[p].number),
           ledger' = [ledger EXCEPT ![p].posted = TRUE]
    PROVE  Cardinality(Active') <= Limit
<1>1. /\ p \notin Posted /\ Posted' = Posted \cup {p}
      /\ \A q \in Posted : q < p
      /\ Active \subseteq ledger[p].current \cup ledger[p].closed \cup ledger[p].unchecked
      /\ Cardinality(ledger[p].current \cup ledger[p].unchecked) <= Limit
  BY ComesOut DEF RenderedOnThisBoard
<1>2. /\ \A q \in DOMAIN ledger : q # p => ledger'[q] = ledger[q]
      /\ ledger'[p].current = ledger[p].current
      /\ ledger'[p].closed = ledger[p].closed
  BY Comes
<1>3. DOMAIN ledger = 1..Len(ledger) /\ Len(ledger) \in Nat /\ p \in Nat
  BY RowForm
<1>4. ASSUME NEW f \in Active'
      PROVE  f \in ledger[p].current \cup ledger[p].unchecked
  <2>1. CASE f \in ledger[p].current \cup ledger[p].closed
    <3>1. Mentions(f)' = Mentions(f) \cup {p}
      BY <1>1, <1>2, <2>1 DEF Mentions, Posted
    <3>2. /\ Mentions(f)' \in SUBSET Nat /\ p \in Mentions(f)'
          /\ \A q \in Mentions(f)' : q <= p
      BY <1>1, <1>3, <3>1 DEF Mentions, Posted
    <3>3. Largest(Mentions(f)') = p
      BY <3>2, LargestIsThis
    <3> QED
      BY <1>2, <1>4, <3>3 DEF Active, Largest
  <2>2. CASE f \notin ledger[p].current \cup ledger[p].closed
    <3>1. Mentions(f)' = Mentions(f)
      BY <1>1, <1>2, <2>2 DEF Mentions, Posted
    <3>2. f \in Findings /\ Mentions(f) # {} /\ f \in ledger'[Largest(Mentions(f))].current
      BY <1>4, <3>1 DEF Active, Largest
    <3>3. Largest(Mentions(f)) \in Posted
      BY <3>2, LastMention
    <3>4. f \in Active
      BY <1>1, <1>2, <3>2, <3>3 DEF Active, Posted
    <3> QED
      BY <1>1, <2>2, <3>4
  <2> QED
    BY <2>1, <2>2
<1> DEFINE S == ledger[p].current \cup ledger[p].unchecked
<1>5. S \subseteq Findings /\ Active' \in SUBSET S
  BY <1>4, RowForm
<1> HIDE DEF S
<1>6. IsFiniteSet(S)
  BY <1>5, LifecycleAssumption, FS_Subset
<1>7. IsFiniteSet(Active') /\ Cardinality(Active') <= Cardinality(S)
  BY <1>5, <1>6, FS_Subset
<1>8. /\ Cardinality(Active') \in Nat /\ Cardinality(S) \in Nat /\ Limit \in Nat
      /\ Cardinality(S) <= Limit
  BY <1>1, <1>6, <1>7, FS_CardinalityType, LifecycleAssumption DEF S
<1> QED
  BY <1>7, <1>8

\* One more review is out, or one fewer.
LEMMA RoundMoves ==
    ASSUME Form, NEW p \in DOMAIN ledger
    PROVE  /\ /\ p \notin Posted /\ Posted' = Posted \cup {p}
              => Cardinality(Posted') = Cardinality(Posted) + 1
           /\ /\ p \in Posted /\ Posted' = Posted \ {p}
              => /\ Cardinality(Posted') = Cardinality(Posted) - 1
                 /\ Cardinality(Posted) > 0
<1>1. IsFiniteSet(Posted)
  <2>1. Len(ledger) \in Nat /\ Posted \in SUBSET Nat /\ \A q \in Posted : q <= Len(ledger)
    BY DEF Posted, Form
  <2> QED
    BY <2>1, FS_BoundedSetOfNaturals
<1>2. CASE p \notin Posted /\ Posted' = Posted \cup {p}
  BY <1>1, <1>2, FS_AddElement
<1>3. CASE p \in Posted /\ Posted' = Posted \ {p}
  <2>1. Cardinality(Posted') = Cardinality(Posted) - 1
    BY <1>1, <1>3, FS_RemoveElement
  <2>2. Cardinality(Posted) \in Nat /\ Cardinality(Posted) # 0
    BY <1>1, <1>3, FS_CardinalityType, FS_EmptySet
  <2> QED
    BY <1>3, <2>1, <2>2
<1> QED
  BY <1>2, <1>3

\* The reviews implement the abstract board: nothing but one that comes out or
\* is taken back opens or closes a finding, and as long as none has been taken
\* back, none leaves more open than the limit (finalize_review,
\* active_publication_findings, mark_publication_posted, mark_publication_failed).
THEOREM LifecycleImplementsBoard == LifecycleSpec => BoardSpec
<1>1. LifecycleInit => Board!BoardInit
  <2> SUFFICES ASSUME LifecycleInit PROVE Board!BoardInit
    OBVIOUS
  <2>1. Posted = {} /\ TakenBack = {}
    BY DEF LifecycleInit, Posted, TakenBack
  <2>2. Active = {}
    BY <2>1 DEF Active, Mentions
  <2> QED
    BY <2>1, <2>2, FS_EmptySet DEF Board!BoardInit
<1>2. LifecycleInv /\ [LifecycleNext]_vars =>
        [Board!BoardNext]_<<Cardinality(Posted), Active, TakenBack # {}>>
  <2> SUFFICES ASSUME LifecycleInv, [LifecycleNext]_vars
               PROVE  [Board!BoardNext]_<<Cardinality(Posted), Active, TakenBack # {}>>
    OBVIOUS
  <2> Form /\ LedgerInv
    BY DEF LifecycleInv
  <2>1. CASE Posted' = Posted /\ TakenBack' = TakenBack /\ Active' = Active
    BY <2>1
  <2>2. ASSUME NEW p \in DOMAIN ledger, ~ledger[p].posted,
               ~NumberTaken(ledger[p].number),
               ledger' = [ledger EXCEPT ![p].posted = TRUE]
        PROVE  Board!ComesOut
    <3>1. Posted' = Posted \cup {p} /\ p \notin Posted /\ TakenBack' = TakenBack
      BY <2>2, Comes DEF Posted, TakenBack
    <3>2. Cardinality(Posted') = Cardinality(Posted) + 1
      BY <3>1, RoundMoves
    <3>3. TakenBack = {} => Cardinality(Active') <= Limit
      BY <2>2, BoardMoves DEF LedgerInv
    <3>4. Active' \in SUBSET Findings
      BY DEF Active
    <3>5. Board!Cardinality(Active') = Cardinality(Active')
      BY DEF Cardinality, Board!Cardinality
    <3> QED
      BY <3>1, <3>2, <3>3, <3>4, <3>5 DEF Board!ComesOut
  <2>3. ASSUME NEW p \in Posted,
               ledger' = [ledger EXCEPT ![p].posted = FALSE, ![p].takenBack = TRUE]
        PROVE  Board!IsTakenBack
    <3>1. p \in DOMAIN ledger /\ Posted' = Posted \ {p} /\ p \in TakenBack'
      BY <2>3, GoesBack DEF Posted, TakenBack
    <3>2. /\ Cardinality(Posted') = Cardinality(Posted) - 1
          /\ Cardinality(Posted) > 0
      BY <3>1, RoundMoves
    <3>3. Active' \in SUBSET Findings
      BY DEF Active
    <3> QED
      BY <3>1, <3>2, <3>3 DEF Board!IsTakenBack
  <2> QED
    BY <2>1, <2>2, <2>3, BoardChanges DEF Board!BoardNext
<1> QED
  BY <1>1, <1>2, InvHolds, PTL DEF LifecycleSpec, BoardSpec, Board!BoardSpec
=============================================================================

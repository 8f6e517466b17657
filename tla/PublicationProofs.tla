-------------------------- MODULE PublicationProofs --------------------------
(* Theorems of ReviewDelivery about the publication ledger and the comments  *)
(* on GitHub, for any number of calls, runs, comment parts, pushes, faults   *)
(* and restarts.  ReviewDeliveryProofs has those about the run table.        *)
EXTENDS ReviewDeliveryProofs, FiniteSetTheorems, WellFoundedInduction

-----------------------------------------------------------------------------
(* The invariant every instance keeps.                                       *)

Ended == {"generated", "failed"}

\* Steps at which a call may hold ids of comments.
Sending == {"post", "mark", "supersede", "cleanup", "notice"}

\* Steps only review_deliver has.
Delivering == PublishSteps \cup {"finalize", "phase", "claim", "mark", "supersede", "cleanup"}

\* Comment i is part k of the review of run r.
IsPart(C, i, r, k) == i \in DOMAIN C /\ C[i] = [run |-> r, part |-> k]

\* What a call remembers is true of the tables: n is the last run, R, P and C
\* are the runs, the publications and the comments.
Formed(k, n, R, P, C) ==
    /\ k.pc \notin Unowned => k.run \in 1..n
    /\ k.pc \notin Sending => k.ids = <<>>
    /\ \/ k.pc \in {"supersede", "cleanup"}
       \/ k.pc = "notice" /\ "locked" \notin FaultPoints
       => R[k.run].status \in Ended
    /\ k.already => k.pc \in PublishSteps /\ P[k.run].ids # <<>>
    /\ k.pc \in PublishSteps => Len(k.ids) < Parts
    /\ k.pc = "mark" => Len(k.ids) = Parts
    /\ k.pc \in {"reverify", "post"} => k.listed <= Len(C)
    /\ \A m \in DOMAIN k.ids : IsPart(C, k.ids[m], k.run, m)
    /\ k.pc \in Delivering => k.goal = "rendering"

\* A review that has comments has all of them, and its run is over.
RowFormed(p, r, n, R, C) ==
    /\ p.status = "none" => p.ids = <<>>
    /\ p.status # "none" => r <= n
    /\ p.ids # <<>> =>
         /\ Len(p.ids) = Parts
         /\ \A m \in 1..Parts : IsPart(C, p.ids[m], r, m)
         /\ R[r].status \in Ended
    /\ p.status = "posted" => p.ids # <<>>
    /\ R[r].status = "generated" => p.ids # <<>>

Comment == [run : Runs, part : 1..Parts]

\* The reviews that were rendered.
Made == {r \in Runs : pubs[r].status # "none"}

CallsFormed ==
    /\ calls \in [Calls -> Call]
    /\ \A c \in Calls : Formed(calls[c], last, runs, pubs, comments)

RowsFormed ==
    /\ pubs \in [Runs -> PubRow]
    /\ comments \in Seq(Comment)
    /\ \A r \in Runs : RowFormed(pubs[r], r, last, runs, comments)

NumbersBounded == \A r \in Runs : pubs[r].number <= Cardinality(Made)

PublicationInv == CallsFormed /\ RowsFormed /\ NumbersBounded

-----------------------------------------------------------------------------
(* Numbers.                                                                  *)

LEMMA LargestExists ==
    ASSUME NEW S \in SUBSET Nat, S # {}, NEW n \in Nat, \A m \in S : m <= n
    PROVE  \E k \in S : \A m \in S : m <= k
<1> DEFINE T == {k \in Nat : \A m \in S : m <= k}
           R == OpToRel(<, Nat)
<1>1. T \subseteq Nat /\ T # {}
  OBVIOUS
<1>2. PICK k \in T : \A y \in T : ~(<<y, k>> \in R)
  <2> HIDE DEF T, R
  <2>1. IsWellFoundedOn(R, Nat)
    BY NatLessThanWellFounded DEF R
  <2> QED
    BY <1>1, <2>1, WFMin
<1>3. k \in S
  <2> SUFFICES ASSUME k \notin S PROVE FALSE
    OBVIOUS
  <2>1. PICK l \in S : TRUE
    OBVIOUS
  <2>2. l \in Nat /\ l <= k /\ l # k /\ k \in Nat
    OBVIOUS
  <2>3. k - 1 \in Nat /\ k - 1 < k
    BY <2>2
  <2>4. \A m \in S : m <= k - 1
    <3> TAKE m \in S
    <3>1. m \in Nat /\ m <= k /\ m # k
      OBVIOUS
    <3> QED
      BY <3>1
  <2>5. k - 1 \in T
    BY <2>3, <2>4
  <2>6. <<k - 1, k>> \in R
    BY <2>2, <2>3 DEF OpToRel
  <2> QED
    BY <1>2, <2>5, <2>6
<1> QED
  BY <1>3

LEMMA MadeCount ==
    ASSUME NEW S \in SUBSET Runs
    PROVE  IsFiniteSet(S) /\ Cardinality(S) \in Nat /\ Cardinality(S) <= MaxRuns
<1>1. IsFiniteSet(Runs) /\ Cardinality(Runs) = MaxRuns
  BY RunsAssumption, FS_Interval DEF Runs
<1> QED
  BY <1>1, RunsAssumption, FS_Subset, FS_CardinalityType

\* The next number exists, is beyond those of the posted reviews and follows
\* one of them.
LEMMA NextNumberIs ==
    ASSUME pubs \in [Runs -> PubRow], NumbersBounded
    PROVE  /\ NextNumber \in Nat \ {0}
           /\ NextNumber <= Cardinality(Made) + 1
           /\ \A r \in Runs : Posted(r) => pubs[r].number < NextNumber
           /\ NextNumber = 1 \/ \E r \in Runs : Posted(r) /\ pubs[r].number = NextNumber - 1
<1> DEFINE N == Cardinality(Made)
           S == {pubs[r].number : r \in {q \in Runs : Posted(q)}}
           Next(n) == /\ \A r \in Runs : Posted(r) => pubs[r].number < n
                      /\ n = 1 \/ \E r \in Runs : Posted(r) /\ pubs[r].number = n - 1
<1>1. N \in Nat /\ N <= MaxRuns /\ MaxRuns \in Nat
  BY MadeCount, RunsAssumption DEF Made
<1>2. \A r \in Runs : pubs[r].number \in Nat /\ pubs[r].number <= N
  BY DEF NumbersBounded, PubRow
<1>3. \E n \in 1..(MaxRuns + 1) : Next(n)
  <2> HIDE DEF N
  <2>1. CASE S = {}
    <3>1. Next(1)
      BY <2>1
    <3> QED
      BY <1>1, <3>1
  <2>2. CASE S # {}
    <3>1. S \in SUBSET Nat /\ \A m \in S : m <= N
      BY <1>2
    <3>2. PICK k \in S : \A m \in S : m <= k
      BY <1>1, <2>2, <3>1, LargestExists
    <3>3. PICK q \in Runs : Posted(q) /\ pubs[q].number = k
      BY <3>2
    <3>4. k \in Nat /\ k <= N
      BY <1>2, <3>3
    <3>5. \A r \in Runs : Posted(r) => pubs[r].number < k + 1
      BY <1>2, <3>2, <3>4
    <3>6. Next(k + 1)
      BY <3>3, <3>4, <3>5
    <3> QED
      BY <1>1, <3>4, <3>6
  <2> QED
    BY <2>1, <2>2
<1>4. NextNumber = CHOOSE n \in 1..(MaxRuns + 1) : Next(n)
  BY DEF NextNumber
<1>5. NextNumber \in 1..(MaxRuns + 1) /\ Next(NextNumber)
  <2> HIDE DEF Next
  <2> QED
    BY <1>3, <1>4
<1>6. NextNumber <= N + 1
  BY <1>1, <1>2, <1>5
<1> QED
  BY <1>1, <1>5, <1>6

-----------------------------------------------------------------------------
(* What every step leaves as it is.                                          *)

\* No run comes back, none is lost.
RunsGrow ==
    /\ RunsInv /\ RunsInv' /\ last <= last'
    /\ \A r \in Runs : Terminal(r) => runs'[r].status \in Ended

\* No run is called generated, and none turns stale unless runs may.
NotPosting ==
    \A r \in Runs :
        /\ runs'[r].status = "generated" => runs[r].status = "generated"
        /\ runs'[r].stale => runs[r].stale \/ Ageing

CommentsGrow ==
    /\ comments' \in Seq(Comment) /\ Len(comments) <= Len(comments')
    /\ \A i \in DOMAIN comments : comments'[i] = comments[i]

IdsStay == \A r \in Runs : pubs[r].ids # <<>> => pubs'[r].ids # <<>>

\* The review of r may be claimed or given up.
ReviewStays(r) ==
    /\ pubs'[r].ids = pubs[r].ids /\ pubs'[r].number = pubs[r].number
    /\ \/ pubs'[r].status = pubs[r].status
       \/ pubs'[r].status \notin {"none", "posted"} /\ r <= last'

ReviewsStay == pubs' \in [Runs -> PubRow] /\ \A r \in Runs : ReviewStays(r)

LEMMA LastGrows ==
    ASSUME RunsStep, last \in 0..MaxRuns
    PROVE  last <= last'
<1>0. last \in Nat
  BY RunsAssumption
<1>1. CASE UNCHANGED runVars
  BY <1>0, <1>1 DEF runVars
<1>2. ASSUME NEW snap \in Snapshots, StartRun(snap)
      PROVE  last <= last'
  BY <1>0, <1>2 DEF StartRun
<1>3. ASSUME NEW r \in Runs,
             \/ \E phase \in RunningPhases : UpdateRunPhase(r, phase)
             \/ \E code \in FailureCodes : FailRun(r, code)
             \/ PostRun(r) \/ PassCutoff(r) \/ RecordNotice(r)
      PROVE  last <= last'
  <2>1. last' = last
    BY <1>3 DEF UpdateRunPhase, FailRun, PostRun, PassCutoff, RecordNotice
  <2> QED
    BY <1>0, <2>1
<1>4. CASE ClearNotices \/ \E found \in SUBSET Runs : FailStaleRuns(found)
  BY <1>0, <1>4 DEF FailStaleRuns, ClearNotices
<1> QED
  BY <1>1, <1>2, <1>3, <1>4 DEF RunsStep, RunsNext

LEMMA EveryStepGrows == RunsInv /\ CallsInv /\ [DeliveryNext]_vars => RunsGrow
<1> SUFFICES ASSUME RunsInv, CallsInv, [DeliveryNext]_vars PROVE RunsGrow
  OBVIOUS
<1>1. RunsStep
  BY DeliveryNext_Step
<1>2. RunsInv'
  BY <1>1, RunsNext_Inv DEF RunsStep
<1>3. last <= last'
  BY <1>1, LastGrows DEF CallsInv
<1>4. \A r \in Runs : Terminal(r) => runs'[r].status \in Ended
  <2>1. CASE UNCHANGED runVars
    BY <2>1 DEF runVars, Terminal, Ended
  <2>2. CASE RunsNext
    BY <2>2, StepKeepsOutcome DEF Terminal, Ended
  <2> QED
    BY <1>1, <2>1, <2>2 DEF RunsStep
<1> QED
  BY <1>2, <1>3, <1>4 DEF RunsGrow

\* Only a publisher that marks its review calls a run generated.
LEMMA OthersDoNotPost ==
    ASSUME RunsInv,
           \/ UNCHANGED runVars
           \/ \E snap \in Snapshots : StartRun(snap)
           \/ \E r \in Runs : \E phase \in RunningPhases : UpdateRunPhase(r, phase)
           \/ \E r \in Runs : \E code \in FailureCodes : FailRun(r, code)
           \/ \E r \in Runs : (Ageing /\ PassCutoff(r)) \/ RecordNotice(r)
           \/ \E found \in SUBSET Runs : FailStaleRuns(found)
           \/ ClearNotices
    PROVE  NotPosting
<1> USE DEF NotPosting
<1>0. runs \in [Runs -> RunRow]
  BY DEF RunsInv, RunsTypeOK
<1>1. CASE UNCHANGED runVars
  BY <1>1 DEF runVars
<1>2. ASSUME NEW snap \in Snapshots, StartRun(snap)
      PROVE  NotPosting
  <2> DEFINE new == [NoRun EXCEPT !.status = "running", !.phase = "accepted",
                                  !.snap = snap]
  <2>1. new.status # "generated" /\ ~new.stale
    BY DEF NoRun
  <2>2. \A r \in Runs : /\ Failed(runs[r], "snapshot_superseded").status # "generated"
                        /\ ~Failed(runs[r], "snapshot_superseded").stale
    BY <1>0 DEF Failed, RunRow
  <2>3. \A r \in Runs : \/ runs'[r] = new \/ runs'[r] = runs[r]
                        \/ runs'[r] = Failed(runs[r], "snapshot_superseded")
    BY <1>2 DEF StartRun
  <2> QED
    BY <2>1, <2>2, <2>3
<1>3. ASSUME NEW r \in Runs, NEW phase \in RunningPhases, UpdateRunPhase(r, phase)
      PROVE  NotPosting
  BY <1>0, <1>3 DEF UpdateRunPhase, RunRow
<1>4. ASSUME NEW r \in Runs, NEW code \in FailureCodes, FailRun(r, code)
      PROVE  NotPosting
  BY <1>0, <1>4 DEF FailRun, Failed, RunRow
<1>5. ASSUME NEW r \in Runs, (Ageing /\ PassCutoff(r)) \/ RecordNotice(r)
      PROVE  NotPosting
  BY <1>0, <1>5 DEF PassCutoff, RecordNotice, RunRow
<1>6. ASSUME NEW found \in SUBSET Runs, FailStaleRuns(found)
      PROVE  NotPosting
  BY <1>0, <1>6 DEF FailStaleRuns, Failed, RunRow
<1>7. CASE ClearNotices
  BY <1>0, <1>7 DEF ClearNotices, RunRow
<1> QED
  BY <1>1, <1>2, <1>3, <1>4, <1>5, <1>6, <1>7

\* A run that is failed is over.
LEMMA FailedEnds ==
    ASSUME RunsInv, NEW r \in Runs, r <= last, NEW code \in FailureCodes, FailRun(r, code)
    PROVE  runs'[r].status \in Ended
<1>1. /\ runs \in [Runs -> RunRow] /\ last \in Nat /\ r \in Nat
      /\ (runs[r].status = "none") <=> (r > last)
  BY RunsAssumption DEF RunsInv, RunsTypeOK, Runs
<1>2. runs[r].status \in {"running", "generated", "failed"}
  BY <1>1 DEF RunRow
<1>3. CASE Running(r)
  BY <1>1, <1>3 DEF FailRun, Failed, RunRow, Ended
<1>4. CASE ~Running(r)
  BY <1>2, <1>4 DEF FailRun, Running, Ended
<1> QED
  BY <1>3, <1>4

LEMMA FormedStays ==
    ASSUME RunsGrow, CommentsGrow, IdsStay, comments \in Seq(Comment), NEW k \in Call,
           Formed(k, last, runs, pubs, comments)
    PROVE  Formed(k, last', runs', pubs', comments')
<1>1. /\ last \in Nat /\ last' \in Nat /\ last <= last' /\ last <= MaxRuns
      /\ MaxRuns \in Nat
  BY RunsAssumption DEF RunsGrow, RunsInv, RunsTypeOK
<1>2. k.pc \notin Unowned => k.run \in 1..last /\ k.run \in 1..last' /\ k.run \in Runs
  BY <1>1 DEF Formed, Runs, Call
<1>3. k.pc \in PublishSteps \cup {"notice", "supersede", "cleanup"} => k.pc \notin Unowned
  BY DEF PublishSteps, Unowned
<1>4. \/ k.pc \in {"supersede", "cleanup"}
      \/ k.pc = "notice" /\ "locked" \notin FaultPoints
      => runs'[k.run].status \in Ended
  BY <1>2, <1>3 DEF Formed, RunsGrow, Terminal, Ended
<1>5. k.already => k.pc \in PublishSteps /\ pubs'[k.run].ids # <<>>
  BY <1>2, <1>3 DEF Formed, IdsStay
<1>6. k.listed <= Len(comments) => k.listed <= Len(comments')
  BY DEF CommentsGrow, Call
<1>7. \A m \in DOMAIN k.ids : IsPart(comments', k.ids[m], k.run, m)
  <2> TAKE m \in DOMAIN k.ids
  <2>1. IsPart(comments, k.ids[m], k.run, m)
    BY DEF Formed
  <2> QED
    BY <2>1 DEF IsPart, CommentsGrow
<1> QED
  BY <1>2, <1>4, <1>5, <1>6, <1>7 DEF Formed

LEMMA CallMoves ==
    ASSUME CallsFormed, RunsGrow, CommentsGrow, IdsStay, comments \in Seq(Comment),
           NEW c \in Calls, NEW k \in Call, calls' = [calls EXCEPT ![c] = k],
           Formed(k, last', runs', pubs', comments')
    PROVE  CallsFormed'
<1>1. calls' \in [Calls -> Call]
  BY DEF CallsFormed
<1>2. ASSUME NEW d \in Calls
      PROVE  Formed(calls'[d], last', runs', pubs', comments')
  <2>1. CASE d = c
    BY <2>1 DEF CallsFormed
  <2>2. CASE d # c
    <3>1. calls'[d] = calls[d] /\ calls[d] \in Call
      BY <2>2 DEF CallsFormed
    <3>2. Formed(calls[d], last, runs, pubs, comments)
      BY DEF CallsFormed
    <3>3. Formed(calls[d], last', runs', pubs', comments')
      BY <3>1, <3>2, FormedStays
    <3> QED
      BY <3>1, <3>3
  <2> QED
    BY <2>1, <2>2
<1> QED
  BY <1>1, <1>2 DEF CallsFormed

LEMMA CallsStay ==
    ASSUME CallsFormed, RunsGrow, CommentsGrow, IdsStay, comments \in Seq(Comment),
           calls' = calls
    PROVE  CallsFormed'
<1>1. ASSUME NEW d \in Calls
      PROVE  Formed(calls[d], last', runs', pubs', comments')
  BY FormedStays DEF CallsFormed
<1> QED
  BY <1>1 DEF CallsFormed

LEMMA RowStays ==
    ASSUME RowsFormed, RunsGrow, NotPosting, CommentsGrow, ReviewsStay, NEW r \in Runs
    PROVE  RowFormed(pubs'[r], r, last', runs', comments')
<1>1. RowFormed(pubs[r], r, last, runs, comments) /\ ReviewStays(r)
  BY DEF RowsFormed, ReviewsStay
<1>2. /\ last \in Nat /\ last' \in Nat /\ last <= last' /\ r \in Nat
  BY RunsAssumption DEF RunsGrow, RunsInv, RunsTypeOK, Runs
<1>3. pubs'[r].status = "none" => pubs[r].status = "none"
  BY <1>1 DEF ReviewStays
<1>4. pubs'[r].status # "none" => r <= last'
  BY <1>1, <1>2 DEF ReviewStays, RowFormed
<1>5. pubs'[r].status = "posted" => pubs[r].status = "posted"
  BY <1>1 DEF ReviewStays
<1>6. ASSUME pubs'[r].ids # <<>>
      PROVE  /\ Len(pubs'[r].ids) = Parts
             /\ \A m \in 1..Parts : IsPart(comments', pubs'[r].ids[m], r, m)
             /\ runs'[r].status \in Ended
  <2>1. /\ Len(pubs[r].ids) = Parts /\ pubs'[r].ids = pubs[r].ids
        /\ \A m \in 1..Parts : IsPart(comments, pubs[r].ids[m], r, m)
        /\ runs[r].status \in Ended
    BY <1>1, <1>6 DEF RowFormed, ReviewStays
  <2>2. \A m \in 1..Parts : IsPart(comments', pubs[r].ids[m], r, m)
    BY <2>1 DEF IsPart, CommentsGrow
  <2> QED
    BY <2>1, <2>2 DEF RunsGrow, Terminal, Ended
<1>7. runs'[r].status = "generated" => pubs'[r].ids # <<>>
  BY <1>1 DEF NotPosting, RowFormed, ReviewStays
<1> QED
  BY <1>1, <1>3, <1>4, <1>5, <1>6, <1>7 DEF RowFormed, ReviewStays

LEMMA BoundStays ==
    ASSUME RowsFormed, NumbersBounded, ReviewsStay
    PROVE  NumbersBounded'
<1>1. Made \subseteq Made'
  BY DEF Made, ReviewsStay, ReviewStays
<1>2. Made' \in SUBSET Runs
  BY DEF Made
<1>3. /\ Cardinality(Made) \in Nat /\ Cardinality(Made') \in Nat
      /\ Cardinality(Made) <= Cardinality(Made')
  <2>1. IsFiniteSet(Made') /\ Cardinality(Made') \in Nat
    BY <1>2, MadeCount
  <2> QED
    BY <1>1, <2>1, FS_Subset, FS_CardinalityType
<1> QED
  BY <1>3 DEF NumbersBounded, ReviewsStay, ReviewStays, RowsFormed, PubRow

LEMMA RowsStay ==
    ASSUME PublicationInv, RunsGrow, NotPosting, CommentsGrow, ReviewsStay
    PROVE  RowsFormed' /\ NumbersBounded' /\ IdsStay
<1>1. RowsFormed' /\ NumbersBounded'
  BY RowStays, BoundStays DEF PublicationInv, RowsFormed, CommentsGrow, ReviewsStay
<1> QED
  BY <1>1 DEF IdsStay, ReviewsStay, ReviewStays

LEMMA NothingNew ==
    ASSUME PublicationInv
    PROVE  /\ UNCHANGED comments => CommentsGrow
           /\ UNCHANGED pubs => ReviewsStay
BY DEF PublicationInv, RowsFormed, CommentsGrow, ReviewsStay, ReviewStays

-----------------------------------------------------------------------------
(* What one step of a call does: it turns to something else, or works on    *)
(* its publication.                                                         *)

\* Steps of a publisher from its claim on, and from the step before it.
Holding == PublishSteps \cup {"mark", "supersede", "cleanup"}

AtWork == Holding \cup {"claim"}

Progress(c, k) ==
    /\ calls' = [calls EXCEPT ![c] = k]
    /\ Formed(k, last', runs', pubs', comments')

\* Where the run of a call that turns comes from.
KeepsRun(c, k) ==
    \/ k.pc \in Unowned
    \/ ExtraSessions
    \/ k.run = last' /\ last' = last + 1
    \/ /\ calls[c].pc \notin Unowned /\ k.run = calls[c].run
       /\ \/ calls[c].pc \notin Holding
          \/ k.pc = "notice"
          \/ runs'[k.run].status \in Ended

\* Call c goes on with something that is not its publication.
Turns(c) ==
    /\ UNCHANGED <<pubs, comments>>
    /\ NotPosting
    /\ \E k \in Call : /\ Progress(c, k) /\ k.pc \notin AtWork /\ KeepsRun(c, k)
                       /\ k.pc = "phase" => pubs[k.run].status # "none"

LEMMA IdleFormed ==
    /\ Idle \in Call /\ Idle.pc = "idle"
    /\ Formed(Idle, last', runs', pubs', comments')
<1>1. AnyPull \in PullStates
  BY DeliveryAssumption DEF AnyPull, PullStates
<1>2. Idle \in Call
  BY <1>1, RunsAssumption DEF Idle, Call, Steps, Goals
<1> QED
  BY <1>2 DEF Idle, Formed, Unowned, Sending, PublishSteps, Delivering

LEMMA SessionFormed ==
    ASSUME NEW r \in Runs, r \in 1..last'
    PROVE  /\ Session(r) \in Call /\ Session(r).pc = "session" /\ Session(r).run = r
           /\ Formed(Session(r), last', runs', pubs', comments')
<1>1. Idle \in Call
  BY IdleFormed
<1>2. r \in 0..MaxRuns /\ "session" \in Steps
  BY RunsAssumption DEF Runs, Steps
<1>3. Session(r) \in Call /\ Session(r).pc = "session" /\ Session(r).run = r
  BY <1>1, <1>2 DEF Session, Call
<1>4. Session(r).ids = <<>> /\ Session(r).already = FALSE
  BY <1>1 DEF Session, Call, Idle
<1> QED
  BY <1>3, <1>4 DEF Formed, Sending, PublishSteps, Delivering

\* What holds of a call in the next state before it moves.
LEMMA Carries ==
    ASSUME PublicationInv, RunsGrow, CommentsGrow, IdsStay, NEW c \in Calls
    PROVE  /\ calls[c] \in Call
           /\ Formed(calls[c], last, runs, pubs, comments)
           /\ Formed(calls[c], last', runs', pubs', comments')
           /\ calls[c].pc \notin Unowned =>
                calls[c].run \in Runs /\ calls[c].run <= last /\ calls[c].run \in 1..last'
<1>1. calls[c] \in Call /\ Formed(calls[c], last, runs, pubs, comments)
  BY DEF PublicationInv, CallsFormed
<1>2. Formed(calls[c], last', runs', pubs', comments')
  BY <1>1, FormedStays DEF PublicationInv, RowsFormed
<1>3. last \in 0..MaxRuns /\ last' \in 0..MaxRuns /\ MaxRuns \in Nat
  BY RunsAssumption DEF RunsGrow, RunsInv, RunsTypeOK
<1> QED
  BY <1>1, <1>2, <1>3 DEF Formed, Runs

LEMMA OwnedFormed ==
    ASSUME PublicationInv, RunsInv, NEW c \in Calls, calls[c].pc \notin Unowned
    PROVE  /\ calls[c] \in Call /\ Formed(calls[c], last, runs, pubs, comments)
           /\ calls[c].run \in Runs /\ calls[c].run \in Nat /\ calls[c].run <= last
<1>1. calls[c] \in Call /\ Formed(calls[c], last, runs, pubs, comments)
  BY DEF PublicationInv, CallsFormed
<1>2. last \in 0..MaxRuns /\ MaxRuns \in Nat
  BY RunsAssumption DEF RunsInv, RunsTypeOK
<1> QED
  BY <1>1, <1>2 DEF Formed, Runs

LEMMA StillThere ==
    ASSUME PublicationInv, UNCHANGED <<pubs, comments>>
    PROVE  CommentsGrow /\ IdsStay /\ ReviewsStay
BY NothingNew DEF IdsStay

LEMMA IdleTurns ==
    ASSUME NEW c \in Calls, Become(c, Idle), NotPosting, UNCHANGED <<pubs, comments>>
    PROVE  Turns(c)
BY IdleFormed DEF Turns, Progress, Become, KeepsRun, Unowned, AtWork, Holding, PublishSteps

LEMMA SessionTurns ==
    ASSUME PublicationInv, RunsGrow, NotPosting, UNCHANGED <<pubs, comments>>,
           NEW c \in Calls, calls[c].pc \notin Unowned, Become(c, Session(calls[c].run)),
           calls[c].pc \notin Holding \/ runs'[calls[c].run].status \in Ended
    PROVE  Turns(c)
<1>1. calls[c].run \in Runs /\ calls[c].run \in 1..last'
  BY StillThere, Carries
<1>2. /\ Session(calls[c].run) \in Call /\ Progress(c, Session(calls[c].run))
      /\ Session(calls[c].run).pc = "session" /\ Session(calls[c].run).run = calls[c].run
  BY <1>1, SessionFormed DEF Progress, Become
<1> QED
  BY <1>2 DEF Turns, KeepsRun, AtWork, Holding, PublishSteps

\* A call goes to its notice when its run is over, or may be running still
\* where the database is locked.
LEMMA NoticeTurns ==
    ASSUME PublicationInv, RunsGrow, NotPosting, UNCHANGED <<pubs, comments>>,
           NEW c \in Calls, calls[c].pc \notin Unowned \cup PublishSteps,
           "locked" \in FaultPoints \/ runs'[calls[c].run].status \in Ended,
           NEW b \in BOOLEAN,
           calls' = [calls EXCEPT ![c] = [calls[c] EXCEPT !.pc = "notice", !.terminal = b]]
    PROVE  Turns(c)
<1> DEFINE k == [calls[c] EXCEPT !.pc = "notice", !.terminal = b]
<1>1. /\ calls[c] \in Call /\ Formed(calls[c], last', runs', pubs', comments')
      /\ calls[c].pc \notin Unowned
  BY StillThere, Carries
<1>2. k \in Call /\ k.pc = "notice" /\ k.run = calls[c].run
  BY <1>1 DEF Call, Steps
<1>3. /\ k.ids = calls[c].ids /\ k.already = calls[c].already
      /\ ~calls[c].already
  BY <1>1 DEF Call, Formed
<1>4. Formed(k, last', runs', pubs', comments')
  BY <1>1, <1>2, <1>3 DEF Formed, Sending, PublishSteps, Delivering
<1> QED
  BY <1>1, <1>2, <1>4 DEF Turns, Progress, KeepsRun, AtWork, Holding, PublishSteps

\* Marking the run failed ends it, or the database was locked.
LEMMA MarkedFailed ==
    ASSUME RunsInv, NEW c \in Calls, calls[c].run \in Runs, calls[c].run <= last,
           NEW code \in FailureCodes, MarkRunFailed(c, code)
    PROVE  /\ NotPosting
           /\ "locked" \in FaultPoints \/ runs'[calls[c].run].status \in Ended
<1>1. CASE FailRun(calls[c].run, code)
  BY <1>1, OthersDoNotPost, FailedEnds
<1>2. CASE "locked" \in FaultPoints /\ UNCHANGED runVars
  BY <1>2, OthersDoNotPost
<1> QED
  BY <1>1, <1>2 DEF MarkRunFailed

LEMMA ErrorTurns ==
    ASSUME PublicationInv, RunsGrow, UNCHANGED <<pubs, comments>>,
           NEW c \in Calls, calls[c].pc \notin Unowned \cup PublishSteps,
           NEW code \in FailureCodes, HandlerError(c, code)
    PROVE  Turns(c)
<1>0. RunsInv
  BY DEF RunsGrow
<1>1. /\ calls[c] \in Call /\ Formed(calls[c], last, runs, pubs, comments)
      /\ calls[c].run \in Runs /\ calls[c].run <= last
  BY StillThere, Carries
<1>2. CASE MarkRunFailed(c, "review_failed") /\ Become(c, Idle)
  <2>1. "review_failed" \in FailureCodes
    BY DEF FailureCodes
  <2>2. NotPosting
    BY <1>0, <1>1, <1>2, <2>1, MarkedFailed
  <2> QED
    BY <1>2, <2>2, IdleTurns
<1>3. CASE /\ calls[c].goal = "reviewing" /\ Become(c, Session(calls[c].run))
           /\ UNCHANGED runVars
  <2>1. NotPosting
    BY <1>0, <1>3, OthersDoNotPost
  <2>2. calls[c].pc \notin Holding
    BY <1>1, <1>3 DEF Formed, Holding, Delivering
  <2> QED
    BY <1>3, <2>1, <2>2, SessionTurns
<1>4. CASE MarkRunFailed(c, code) /\ Go(c, "notice")
  <2>1. /\ NotPosting
        /\ "locked" \in FaultPoints \/ runs'[calls[c].run].status \in Ended
    BY <1>0, <1>1, <1>4, MarkedFailed
  <2> DEFINE k == [calls[c] EXCEPT !.pc = "notice", !.terminal = calls[c].terminal]
  <2>2. calls[c].terminal \in BOOLEAN /\ k = [calls[c] EXCEPT !.pc = "notice"]
    BY <1>1 DEF Call
  <2>3. calls' = [calls EXCEPT ![c] = k]
    BY <1>4, <2>2 DEF Go
  <2> QED
    BY <2>1, <2>2, <2>3, NoticeTurns
<1> QED
  BY <1>2, <1>3, <1>4 DEF HandlerError

LEMMA LostTurns ==
    ASSUME PublicationInv, RunsGrow, UNCHANGED <<pubs, comments>>,
           NEW c \in Calls, calls[c].pc \notin Unowned \cup PublishSteps, LostRun(c)
    PROVE  Turns(c)
<1>1. "review_deliver_error" \in FailureCodes
  BY DEF FailureCodes
<1>2. CASE Become(c, Idle) /\ UNCHANGED runVars
  BY <1>2, IdleTurns, OthersDoNotPost DEF RunsGrow
<1> QED
  BY <1>1, <1>2, ErrorTurns DEF LostRun

\* review_begin turns, but for the reaping in it.
LEMMA BeginTurns ==
    ASSUME PublicationInv, RunsGrow, NEW c \in Calls, pr \in PullStates,
           \/ BeginFetch(c) \/ BeginReap(c) \/ BeginDuplicate(c)
           \/ BeginStart(c) \/ BeginPhase(c)
    PROVE  Turns(c)
<1>0. RunsInv /\ RunsInv' /\ UNCHANGED <<pubs, comments>>
  BY DEF BeginFetch, BeginReap, BeginDuplicate, BeginStart, BeginPhase, RunsGrow
<1>a. /\ calls[c] \in Call /\ Formed(calls[c], last', runs', pubs', comments')
      /\ calls[c].pc \notin Unowned =>
            calls[c].run \in Runs /\ calls[c].run <= last /\ calls[c].run \in 1..last'
  BY <1>0, StillThere, Carries
<1>b. UNCHANGED runVars => NotPosting
  BY <1>0, OthersDoNotPost
<1>1. CASE BeginFetch(c)
  <2> DEFINE k == [Idle EXCEPT !.pc = "begin_reap", !.pull = pr,
                               !.goal = "collecting_diff"]
  <2>1. Idle \in Call
    BY IdleFormed
  <2>2. k \in Call /\ k.pc = "begin_reap" /\ k.ids = <<>> /\ k.already = FALSE
    BY <2>1 DEF Call, Steps, Goals, Idle
  <2>3. Progress(c, k)
    BY <1>1, <2>2 DEF BeginFetch, Become, Progress, Formed, Unowned, Sending,
                      PublishSteps, Delivering
  <2> QED
    BY <1>0, <1>1, <1>b, <2>2, <2>3
       DEF BeginFetch, Turns, KeepsRun, Unowned, AtWork, Holding, PublishSteps
<1>2. CASE BeginReap(c)
  <2> DEFINE step == IF StaleRuns = {} THEN "begin_start" ELSE "begin_fail"
             k == [calls[c] EXCEPT !.pc = step, !.stale = StaleRuns]
  <2>1. StaleRuns \subseteq Runs /\ step \in {"begin_start", "begin_fail"}
    BY DEF StaleRuns
  <2> HIDE DEF step
  <2>2. /\ k \in Call /\ k.pc = step /\ k.ids = calls[c].ids
        /\ k.already = calls[c].already
    BY <1>a, <2>1 DEF Call, Steps
  <2>3. calls[c].pc = "begin_reap" /\ calls' = [calls EXCEPT ![c] = k]
    BY <1>2 DEF BeginReap, At, step
  <2>4. Progress(c, k)
    BY <1>a, <2>1, <2>2, <2>3 DEF Progress, Formed, Unowned, Sending, PublishSteps, Delivering
  <2> QED
    BY <1>0, <1>2, <1>b, <2>1, <2>2, <2>4
       DEF BeginReap, Turns, KeepsRun, Unowned, AtWork, Holding, PublishSteps
<1>3. CASE BeginDuplicate(c)
  <2> DEFINE q == CHOOSE r \in Runs : Running(r)
  <2>1. q \in Runs /\ Running(q)
    BY <1>3 DEF BeginDuplicate, IsDuplicate
  <2>2. q \in 1..last'
    BY <1>0, <1>3, <2>1 DEF RunsInv, RunsTypeOK, Running, BeginDuplicate, runVars, Runs
  <2>3. NotPosting
    BY <1>3, <1>b DEF BeginDuplicate
  <2>4. CASE ~ExtraSessions
    BY <1>0, <1>3, <2>3, <2>4, IdleTurns DEF BeginDuplicate
  <2>5. CASE ExtraSessions
    <3> HIDE DEF q
    <3>1. /\ Session(q) \in Call /\ Session(q).pc = "session"
          /\ Formed(Session(q), last', runs', pubs', comments')
      BY <2>1, <2>2, SessionFormed
    <3>2. calls' = [calls EXCEPT ![c] = Session(q)]
      BY <1>3, <2>5 DEF BeginDuplicate, Become, q
    <3> QED
      BY <1>0, <2>3, <2>5, <3>1, <3>2
         DEF Turns, Progress, KeepsRun, AtWork, Holding, PublishSteps
  <2> QED
    BY <2>4, <2>5, DeliveryAssumption
<1>4. CASE BeginStart(c)
  <2> DEFINE k == [calls[c] EXCEPT !.pc = "begin_phase", !.run = last + 1]
  <2>1. calls[c].pull.snap \in Snapshots
    BY <1>a DEF Call, PullStates
  <2>2. NotPosting
    BY <1>0, <1>4, <2>1, OthersDoNotPost DEF BeginStart
  <2>0. last \in Nat /\ MaxRuns \in Nat /\ last < MaxRuns /\ last' = last + 1
    BY <1>0, <1>4, RunsAssumption DEF BeginStart, StartRun, RunsInv, RunsTypeOK
  <2>3. /\ last' = last + 1 /\ last' \in 1..MaxRuns /\ calls[c].pc = "begin_start"
        /\ calls' = [calls EXCEPT ![c] = k]
    <3>1. last' \in 1..MaxRuns
      BY <2>0
    <3>2. calls[c].pc = "begin_start" /\ calls' = [calls EXCEPT ![c] = k]
      BY <1>4 DEF BeginStart, At
    <3> QED
      BY <2>0, <3>1, <3>2
  <2>4. /\ k \in Call /\ k.pc = "begin_phase" /\ k.run = last'
        /\ k.ids = calls[c].ids /\ k.already = calls[c].already
    <3>1. last + 1 \in 0..MaxRuns
      BY <2>0
    <3> QED
      BY <1>a, <2>3, <3>1 DEF Call, Steps
  <2>5. calls[c].ids = <<>> /\ ~calls[c].already
    BY <1>a, <2>3 DEF Formed, Sending, PublishSteps
  <2>6. k.run \in 1..last'
    BY <2>3, <2>4
  <2>7. Formed(k, last', runs', pubs', comments')
    BY <2>4, <2>5, <2>6 DEF Formed, Unowned, Sending, PublishSteps, Delivering
  <2> QED
    BY <1>0, <2>2, <2>3, <2>4, <2>7
       DEF Turns, Progress, KeepsRun, AtWork, Holding, PublishSteps
<1>5. CASE BeginPhase(c)
  <2>1. calls[c].pc = "begin_phase" /\ calls[c].pc \notin Unowned \cup PublishSteps
    BY <1>5 DEF BeginPhase, At, Unowned, PublishSteps
  <2>2. CASE LostRun(c)
    BY <1>0, <2>1, <2>2, LostTurns
  <2>3. CASE UpdateRunPhase(calls[c].run, "fetching_pr") /\ Go(c, "fetch")
    <3> DEFINE k == [calls[c] EXCEPT !.pc = "fetch"]
    <3>1. NotPosting
      <4>1. "fetching_pr" \in RunningPhases
        BY DEF RunningPhases
      <4> QED
        BY <1>0, <1>a, <2>1, <2>3, <4>1, OthersDoNotPost
    <3>2. /\ k \in Call /\ k.pc = "fetch" /\ k.ids = calls[c].ids
          /\ k.already = calls[c].already /\ k.run = calls[c].run
      BY <1>a DEF Call, Steps
    <3>3. Formed(k, last', runs', pubs', comments')
      BY <1>a, <2>1, <3>2 DEF Formed, Unowned, Sending, PublishSteps, Delivering
    <3> QED
      BY <1>0, <2>1, <2>3, <3>1, <3>2, <3>3
         DEF Go, Turns, Progress, KeepsRun, AtWork, Holding, PublishSteps
  <2> QED
    BY <1>5, <2>2, <2>3 DEF BeginPhase
<1> QED
  BY <1>1, <1>2, <1>3, <1>4, <1>5

\* A session and the check of its snapshot turn.
LEMMA SessionStepTurns ==
    ASSUME PublicationInv, RunsGrow, NEW c \in Calls, pr \in PullStates,
           \/ EndTurn(c) \/ SnapshotFetch(c) \/ SnapshotValidate(c) \/ Record(c)
           \/ SnapshotFetchFails(c) \/ \E goal \in Goals : Work(c, goal)
    PROVE  Turns(c)
<1>0. RunsInv /\ UNCHANGED <<pubs, comments>>
  BY DEF EndTurn, SnapshotFetch, SnapshotValidate, Record, SnapshotFetchFails, Work, RunsGrow
<1>a. /\ calls[c] \in Call /\ Formed(calls[c], last', runs', pubs', comments')
      /\ calls[c].pc \notin Unowned =>
            calls[c].run \in Runs /\ calls[c].run <= last /\ calls[c].run \in 1..last'
  BY <1>0, StillThere, Carries
<1>b. UNCHANGED runVars => NotPosting
  BY <1>0, OthersDoNotPost
<1>c. \A step \in {"session", "fetch", "validate", "record"} :
          step \in Steps \ (Unowned \cup AtWork \cup Sending \cup Delivering)
  BY DEF Steps, Unowned, AtWork, Holding, PublishSteps, Sending, Delivering
<1>1. CASE EndTurn(c)
  BY <1>0, <1>1, <1>b, IdleTurns DEF EndTurn
<1>2. CASE SnapshotFetch(c)
  <2>1. calls[c].pc = "fetch"
    BY <1>2 DEF SnapshotFetch, At
  <2>2. CASE LostRun(c)
    BY <1>0, <1>c, <2>1, <2>2, LostTurns DEF AtWork, Holding
  <2>3. CASE /\ calls' = [calls EXCEPT ![c].pc = "validate", ![c].pull = pr]
             /\ UNCHANGED runVars
    <3> DEFINE k == [calls[c] EXCEPT !.pc = "validate", !.pull = pr]
    <3>1. /\ k \in Call /\ k.pc = "validate" /\ k.run = calls[c].run
          /\ k.ids = calls[c].ids /\ k.already = calls[c].already
      BY <1>a, <1>c DEF Call
    <3>2. Formed(k, last', runs', pubs', comments')
      BY <1>a, <2>1, <3>1 DEF Formed, Unowned, Sending, PublishSteps, Delivering
    <3> QED
      BY <1>0, <1>b, <2>1, <2>3, <3>1, <3>2
         DEF Turns, Progress, KeepsRun, AtWork, Holding, PublishSteps, Unowned
  <2> QED
    BY <1>2, <2>2, <2>3 DEF SnapshotFetch
<1>3. CASE SnapshotValidate(c)
  <2>1. calls[c].pc = "validate" /\ calls[c].pc \notin Unowned \cup PublishSteps
    BY <1>3 DEF SnapshotValidate, At, Unowned, PublishSteps
  <2>2. CASE LostRun(c)
    BY <1>0, <2>1, <2>2, LostTurns
  <2>3. CASE /\ FailRun(calls[c].run, "snapshot_superseded")
             /\ calls' = [calls EXCEPT ![c].pc = "notice", ![c].terminal = TRUE]
    <3>1. "snapshot_superseded" \in FailureCodes
      BY DEF FailureCodes
    <3>2. NotPosting /\ runs'[calls[c].run].status \in Ended
      BY <1>0, <1>a, <2>1, <2>3, <3>1, OthersDoNotPost, FailedEnds
    <3>3. calls' = [calls EXCEPT ![c] = [calls[c] EXCEPT !.pc = "notice", !.terminal = TRUE]]
      BY <2>3
    <3> QED
      BY <1>0, <2>1, <3>2, <3>3, NoticeTurns
  <2>4. CASE /\ UpdateRunPhase(calls[c].run, calls[c].goal)
             /\ \/ calls[c].goal = "rendering" /\ Go(c, "finalize")
                \/ calls[c].goal = "reviewing" /\ Go(c, "record")
                \/ calls[c].goal # "rendering" /\ Become(c, Session(calls[c].run))
    <3>1. calls[c].goal \in RunningPhases
      BY <1>a DEF Call, Goals, RunningPhases
    <3>2. NotPosting
      BY <1>0, <1>a, <2>1, <2>4, <3>1, OthersDoNotPost
    <3>3. CASE Become(c, Session(calls[c].run))
      BY <1>0, <2>1, <3>2, <3>3, SessionTurns DEF Holding
    <3>4. ASSUME NEW step \in {"finalize", "record"}, Go(c, step),
                 step = "finalize" => calls[c].goal = "rendering"
          PROVE  Turns(c)
      <4> DEFINE k == [calls[c] EXCEPT !.pc = step]
      <4>1. /\ k \in Call /\ k.pc = step /\ k.run = calls[c].run
            /\ k.ids = calls[c].ids /\ k.already = calls[c].already
            /\ k.goal = calls[c].goal
        BY <1>a DEF Call, Steps
      <4>2. Formed(k, last', runs', pubs', comments')
        BY <1>a, <2>1, <3>4, <4>1 DEF Formed, Unowned, Sending, PublishSteps, Delivering
      <4>3. calls' = [calls EXCEPT ![c] = k]
        BY <3>4 DEF Go
      <4> QED
        BY <1>0, <2>1, <3>2, <4>1, <4>2, <4>3
           DEF Turns, Progress, KeepsRun, AtWork, Holding, PublishSteps, Unowned
    <3> QED
      BY <2>4, <3>3, <3>4
  <2> QED
    BY <1>3, <2>2, <2>3, <2>4 DEF SnapshotValidate
<1>4. CASE Record(c)
  <2>1. calls[c].pc = "record"
    BY <1>4 DEF Record, At
  <2> QED
    BY <1>0, <1>4, <1>b, <1>c, <2>1, SessionTurns DEF Record, AtWork
<1>5. CASE SnapshotFetchFails(c)
  <2>1. calls[c].pc = "fetch" /\ "review_deliver_error" \in FailureCodes
    BY <1>5 DEF SnapshotFetchFails, At, FailureCodes
  <2> QED
    BY <1>0, <1>5, <1>c, <2>1, ErrorTurns DEF SnapshotFetchFails, AtWork, Holding
<1>6. ASSUME NEW goal \in Goals, Work(c, goal)
      PROVE  Turns(c)
  <2> DEFINE k == [calls[c] EXCEPT !.pc = "fetch", !.goal = goal]
  <2>1. calls[c].pc = "session" /\ calls' = [calls EXCEPT ![c] = k]
    BY <1>6 DEF Work, At
  <2>2. /\ k \in Call /\ k.pc = "fetch" /\ k.run = calls[c].run
        /\ k.ids = calls[c].ids /\ k.already = calls[c].already
    BY <1>a, <1>c DEF Call
  <2>3. Formed(k, last', runs', pubs', comments')
    BY <1>a, <2>1, <2>2 DEF Formed, Unowned, Sending, PublishSteps, Delivering
  <2> QED
    BY <1>0, <1>6, <1>b, <2>1, <2>2, <2>3
       DEF Work, Turns, Progress, KeepsRun, AtWork, Holding, PublishSteps, Unowned
<1> QED
  BY <1>1, <1>2, <1>3, <1>4, <1>5, <1>6

\* The ways a delivery turns from its publication without touching it.
LEMMA DeliveryTurns ==
    ASSUME PublicationInv, RunsGrow, NEW c \in Calls,
           \/ FinalizeConflict(c) \/ FinalizeRefused(c)
           \/ PublishingPhase(c) /\ LostRun(c)
           \/ Claim(c) /\ HandlerError(c, "review_deliver_error") /\ UNCHANGED pubs
           \/ NothingToRefresh(c) \/ PublishCrashes(c) \/ MarkRefused(c) \/ Cleanup(c)
           \/ PostNotice(c) \/ PostNoticeFails(c)
    PROVE  Turns(c)
<1>0. RunsInv /\ UNCHANGED <<pubs, comments>>
  BY DEF FinalizeConflict, FinalizeRefused, PublishingPhase, Claim, NothingToRefresh,
         PublishCrashes, MarkRefused, Cleanup, PostNotice, PostNoticeFails, RunsGrow
<1>a. /\ calls[c] \in Call /\ Formed(calls[c], last', runs', pubs', comments')
      /\ calls[c].pc \notin Unowned =>
            calls[c].run \in Runs /\ calls[c].run <= last /\ calls[c].run \in 1..last'
  BY <1>0, StillThere, Carries
<1>b. UNCHANGED runVars => NotPosting
  BY <1>0, OthersDoNotPost
<1>c. \A step \in {"finalize", "phase", "claim", "mark", "cleanup", "notice"} :
          step \notin Unowned \cup PublishSteps
  BY DEF Unowned, PublishSteps
<1>d. /\ "review_deliver_error" \in FailureCodes
      /\ "unexpected_review_deliver_failure" \in FailureCodes
      /\ "reviewing" \in RunningPhases
  BY DEF FailureCodes, RunningPhases
<1>1. CASE FinalizeConflict(c)
  <2>1. calls[c].pc = "finalize" /\ calls[c].pc \notin Holding
    BY <1>1 DEF FinalizeConflict, At, Holding, PublishSteps
  <2>2. NotPosting
    BY <1>0, <1>1, <1>a, <1>b, <1>c, <1>d, <2>1, OthersDoNotPost DEF FinalizeConflict
  <2> QED
    BY <1>0, <1>1, <1>c, <2>1, <2>2, IdleTurns, SessionTurns DEF FinalizeConflict
<1>2. CASE FinalizeRefused(c)
  BY <1>0, <1>2, <1>c, <1>d, ErrorTurns DEF FinalizeRefused, At
<1>3. CASE PublishingPhase(c) /\ LostRun(c)
  BY <1>0, <1>3, <1>c, <1>d, LostTurns DEF PublishingPhase, At
<1>4. CASE Claim(c) /\ HandlerError(c, "review_deliver_error")
  BY <1>0, <1>4, <1>c, <1>d, ErrorTurns DEF Claim, At
<1>5. CASE NothingToRefresh(c)
  <2>1. /\ calls[c].pc = "post" /\ calls[c].already /\ UNCHANGED runVars
        /\ Become(c, Session(calls[c].run)) /\ calls[c].pc \notin Unowned
    BY <1>5 DEF NothingToRefresh, At, Unowned
  <2>2. RowFormed(pubs[calls[c].run], calls[c].run, last, runs, comments)
    BY <1>a, <2>1 DEF PublicationInv, RowsFormed
  <2>3. runs'[calls[c].run].status \in Ended
    BY <1>0, <1>a, <2>1, <2>2 DEF Formed, RowFormed, runVars
  <2> QED
    BY <1>0, <1>b, <2>1, <2>3, SessionTurns
<1>6. CASE PublishCrashes(c)
  BY <1>0, <1>6, <1>c, <1>d, ErrorTurns DEF PublishCrashes
<1>7. CASE MarkRefused(c)
  BY <1>0, <1>7, <1>c, <1>d, ErrorTurns DEF MarkRefused, At
<1>8. CASE Cleanup(c)
  <2>1. /\ calls[c].pc = "cleanup" /\ ClearNotices /\ Become(c, Session(calls[c].run))
        /\ calls[c].pc \notin Unowned
    BY <1>8 DEF Cleanup, At, Unowned
  <2>2. runs'[calls[c].run].status \in Ended /\ NotPosting
    BY <1>0, <1>a, <2>1, OthersDoNotPost DEF Formed
  <2> QED
    BY <1>0, <2>1, <2>2, SessionTurns
<1>9. CASE PostNotice(c) \/ PostNoticeFails(c)
  <2>1. calls[c].pc = "notice" /\ calls[c].pc \notin Unowned \cup Holding
    BY <1>9 DEF PostNotice, PostNoticeFails, At, Holding, Unowned, PublishSteps
  <2>2. NotPosting
    BY <1>0, <1>9, <1>a, <1>b, <2>1, OthersDoNotPost
       DEF PostNotice, PersistNotice, PostNoticeFails
  <2> QED
    BY <1>0, <1>9, <2>1, <2>2, IdleTurns, SessionTurns
       DEF PostNotice, PostNoticeFails, AfterNotice
<1> QED
  BY <1>1, <1>2, <1>3, <1>4, <1>5, <1>6, <1>7, <1>8, <1>9

LEMMA ProgressInv ==
    ASSUME PublicationInv, RunsGrow, NotPosting, CommentsGrow, ReviewsStay,
           NEW c \in Calls, NEW k \in Call, Progress(c, k)
    PROVE  PublicationInv'
BY RowsStay, CallMoves DEF PublicationInv, RowsFormed, Progress

LEMMA TurnsInv ==
    ASSUME PublicationInv, RunsGrow, NEW c \in Calls, Turns(c)
    PROVE  PublicationInv'
BY StillThere, ProgressInv DEF Turns

\* The comment a listing shows for a part is a comment of that part.
LEMMA FoundPart ==
    ASSUME PublicationInv, NEW c \in Calls, calls[c].listed <= Len(comments),
           NEW n \in DOMAIN Found(c)
    PROVE  /\ n \in 1..Parts
           /\ Found(c)[n] \in 1..calls[c].listed
           /\ IsPart(comments, Found(c)[n], calls[c].run, n)
<1> DEFINE l == calls[c].listed
           r == calls[c].run
           S == {i \in 1..l : comments[i] = [run |-> r, part |-> n]}
           Newest(i) == /\ comments[i] = [run |-> r, part |-> n]
                        /\ \A j \in (i + 1)..l : comments[j] # [run |-> r, part |-> n]
<1>1. l \in Nat /\ comments \in Seq(Comment) /\ Len(comments) \in Nat
  BY DEF PublicationInv, CallsFormed, RowsFormed, Call
<1>2. \A i \in 1..l : comments[i] \in Comment /\ i \in DOMAIN comments
  BY <1>1
<1>3. PICK j \in 1..l : comments[j].run = r /\ comments[j].part = n
  BY DEF Found
<1>4. comments[j] = [run |-> r, part |-> n] /\ n \in 1..Parts
  BY <1>2, <1>3 DEF Comment
<1>5. S # {} /\ S \in SUBSET Nat /\ \A i \in S : i <= l
  BY <1>1, <1>3, <1>4
<1>6. PICK i \in S : \A m \in S : m <= i
  <2> HIDE DEF S
  <2> QED
    BY <1>1, <1>5, LargestExists
<1>7. i \in 1..l /\ Newest(i)
  <2>1. ASSUME NEW m \in (i + 1)..l, comments[m] = [run |-> r, part |-> n]
        PROVE  FALSE
    BY <1>1, <1>6, <2>1
  <2> QED
    BY <1>6, <2>1
<1>8. Found(c)[n] = CHOOSE m \in 1..l : Newest(m)
  BY DEF Found
<1>9. Found(c)[n] \in 1..l /\ Newest(Found(c)[n])
  <2> HIDE DEF Newest
  <2> QED
    BY <1>7, <1>8
<1> QED
  BY <1>2, <1>4, <1>9 DEF IsPart

LEMMA SmallerIsThere ==
    ASSUME NEW a \in Nat, NEW b \in Nat
    PROVE  Min({a, b}) \in Nat /\ Min({a, b}) <= a /\ Min({a, b}) <= b
<1>1. \E m \in {a, b} : \A y \in {a, b} : m <= y
  <2>1. CASE a <= b
    BY <2>1
  <2>2. CASE b <= a
    BY <2>2
  <2> QED
    BY <2>1, <2>2
<1>2. Min({a, b}) \in {a, b} /\ \A y \in {a, b} : Min({a, b}) <= y
  BY <1>1 DEF Min
<1> QED
  BY <1>2

\* The steps of a publisher that change neither the table nor GitHub.
Reads(c) ==
    \/ PublishingPhase(c) /\ UpdateRunPhase(calls[c].run, "publishing") /\ Go(c, "claim")
    \/ /\ Claim(c) /\ pubs[calls[c].run].status = "posted"
       /\ calls' = [calls EXCEPT ![c].pc = "verify", ![c].already = TRUE]
       /\ UNCHANGED <<runVars, pubs>>
    \/ Verify(c, "verify", "list") \/ Verify(c, "reverify", "post")
    \/ List(c) \/ UpdatePart(c)

\* A publisher that has posted or found a part remembers its comment.
LEMMA PartFormed ==
    ASSUME PublicationInv, RunsGrow, CommentsGrow, IdsStay, NEW c \in Calls,
           calls[c].pc = "post", NEW id \in Nat, NextPart(c) <= Parts,
           IsPart(comments', id, calls[c].run, NextPart(c)),
           PartDone(c, id)
    PROVE  \E k \in Call : Progress(c, k)
<1>1. /\ calls[c] \in Call /\ Formed(calls[c], last', runs', pubs', comments')
      /\ calls[c].pc \notin Unowned
      /\ calls[c].run \in Runs /\ calls[c].run <= last /\ calls[c].run \in 1..last'
  BY Carries DEF Unowned
<1>2. calls[c].ids \in Seq(Nat) /\ Len(calls[c].ids) \in Nat /\ Parts \in Nat
  BY <1>1, DeliveryAssumption DEF Call
<1> DEFINE ids == Append(calls[c].ids, id)
           here == [calls[c] EXCEPT !.ids = ids]
           marks == [calls[c] EXCEPT !.ids = ids, !.pc = "mark"]
<1>3. /\ ids \in Seq(Nat) /\ Len(ids) = Len(calls[c].ids) + 1
      /\ \A m \in DOMAIN ids : m \in DOMAIN calls[c].ids \/ m = NextPart(c)
      /\ \A m \in DOMAIN calls[c].ids : ids[m] = calls[c].ids[m]
      /\ ids[NextPart(c)] = id
  <2> DEFINE q == calls[c].ids
  <2> HIDE DEF q
  <2>1. q \in Seq(Nat) /\ Len(q) \in Nat /\ NextPart(c) = Len(q) + 1 /\ ids = Append(q, id)
    BY <1>2 DEF NextPart, q
  <2>2. /\ Append(q, id) \in Seq(Nat) /\ Len(Append(q, id)) = Len(q) + 1
        /\ \A m \in DOMAIN q : Append(q, id)[m] = q[m]
        /\ Append(q, id)[Len(q) + 1] = id
        /\ \A m \in DOMAIN Append(q, id) : m \in DOMAIN q \/ m = Len(q) + 1
    BY <2>1
  <2> QED
    BY <2>1, <2>2 DEF q
<1> HIDE DEF ids
<1>4. \A m \in DOMAIN ids : IsPart(comments', ids[m], calls[c].run, m)
  BY <1>1, <1>3 DEF Formed
<1>5. CASE NextPart(c) < Parts /\ calls' = [calls EXCEPT ![c].ids = Append(@, id)]
  <2>1. calls' = [calls EXCEPT ![c] = here]
    BY <1>5 DEF ids
  <2>2. /\ here \in Call /\ here.pc = "post" /\ here.run = calls[c].run /\ here.ids = ids
        /\ here.already = calls[c].already /\ here.goal = calls[c].goal
        /\ here.listed = calls[c].listed
    BY <1>1, <1>3 DEF Call
  <2>3. Len(ids) < Parts
    BY <1>2, <1>3, <1>5 DEF NextPart
  <2>4. Formed(here, last', runs', pubs', comments')
    BY <1>1, <1>4, <2>2, <2>3 DEF Formed, Unowned, Sending, PublishSteps, Delivering
  <2> QED
    BY <2>1, <2>2, <2>4 DEF Progress
<1>6. CASE calls[c].already /\ Become(c, Session(calls[c].run))
  BY <1>1, <1>6, SessionFormed DEF Become, Progress
<1>7. CASE /\ ~(NextPart(c) < Parts) /\ ~calls[c].already
           /\ calls' = [calls EXCEPT ![c].ids = Append(@, id), ![c].pc = "mark"]
  <2>1. calls' = [calls EXCEPT ![c] = marks]
    BY <1>7 DEF ids
  <2>2. /\ marks \in Call /\ marks.pc = "mark" /\ marks.run = calls[c].run /\ marks.ids = ids
        /\ marks.already = calls[c].already /\ marks.goal = calls[c].goal
    BY <1>1, <1>3 DEF Call, Steps
  <2>3. Len(ids) = Parts
    BY <1>2, <1>3, <1>7 DEF NextPart
  <2>4. Formed(marks, last', runs', pubs', comments')
    BY <1>1, <1>4, <1>7, <2>2, <2>3 DEF Formed, Unowned, Sending, PublishSteps, Delivering
  <2> QED
    BY <2>1, <2>2, <2>4 DEF Progress
<1> QED
  BY <1>5, <1>6, <1>7 DEF PartDone

LEMMA ReadsProgress ==
    ASSUME PublicationInv, RunsGrow, NEW c \in Calls, Reads(c)
    PROVE  /\ UNCHANGED <<pubs, comments>> /\ NotPosting
           /\ \E k \in Call : Progress(c, k)
<1>0. RunsInv /\ UNCHANGED <<pubs, comments>>
  BY DEF Reads, PublishingPhase, Claim, Verify, List, UpdatePart, RunsGrow
<1>a. /\ calls[c] \in Call /\ Formed(calls[c], last, runs, pubs, comments)
      /\ Formed(calls[c], last', runs', pubs', comments')
      /\ calls[c].pc \notin Unowned =>
            calls[c].run \in Runs /\ calls[c].run <= last /\ calls[c].run \in 1..last'
  BY <1>0, StillThere, Carries
<1>b. UNCHANGED runVars => NotPosting
  BY <1>0, OthersDoNotPost
<1>c. comments \in Seq(Comment) /\ Len(comments) \in Nat /\ Window \in Nat /\ Parts \in Nat
  BY DeliveryAssumption DEF PublicationInv, RowsFormed
<1>1. CASE /\ PublishingPhase(c) /\ UpdateRunPhase(calls[c].run, "publishing")
           /\ Go(c, "claim")
  <2> DEFINE k == [calls[c] EXCEPT !.pc = "claim"]
  <2>1. /\ calls[c].pc = "phase" /\ calls[c].pc \notin Unowned
        /\ calls' = [calls EXCEPT ![c] = k] /\ "publishing" \in RunningPhases
    BY <1>1 DEF PublishingPhase, At, Go, Unowned, RunningPhases
  <2>2. NotPosting
    BY <1>0, <1>1, <1>a, <2>1, OthersDoNotPost
  <2>3. /\ k \in Call /\ k.pc = "claim" /\ k.run = calls[c].run /\ k.ids = calls[c].ids
        /\ k.already = calls[c].already /\ k.goal = calls[c].goal
    BY <1>a DEF Call, Steps
  <2>4. Formed(k, last', runs', pubs', comments')
    BY <1>a, <2>1, <2>3 DEF Formed, Unowned, Sending, PublishSteps, Delivering
  <2> QED
    BY <1>0, <2>1, <2>2, <2>3, <2>4 DEF Progress
<1>2. CASE /\ Claim(c) /\ pubs[calls[c].run].status = "posted"
           /\ calls' = [calls EXCEPT ![c].pc = "verify", ![c].already = TRUE]
           /\ UNCHANGED <<runVars, pubs>>
  <2> DEFINE k == [calls[c] EXCEPT !.pc = "verify", !.already = TRUE]
  <2>1. /\ calls[c].pc = "claim" /\ calls[c].pc \notin Unowned
        /\ calls' = [calls EXCEPT ![c] = k]
    BY <1>2 DEF Claim, At, Unowned
  <2>2. pubs'[calls[c].run].ids # <<>>
    BY <1>0, <1>2, <1>a, <2>1 DEF PublicationInv, RowsFormed, RowFormed
  <2>3. /\ k \in Call /\ k.pc = "verify" /\ k.run = calls[c].run /\ k.ids = calls[c].ids
        /\ k.goal = calls[c].goal
    BY <1>a DEF Call, Steps, PublishSteps
  <2>4. calls[c].ids = <<>> /\ Len(calls[c].ids) < Parts /\ calls[c].goal = "rendering"
    BY <1>a, <2>1, DeliveryAssumption DEF Formed, Sending, Delivering
  <2>5. Formed(k, last', runs', pubs', comments')
    BY <1>a, <2>1, <2>2, <2>3, <2>4
       DEF Formed, Unowned, Sending, PublishSteps, Delivering
  <2> QED
    BY <1>0, <1>2, <1>b, <2>1, <2>3, <2>5 DEF Progress
<1>3. ASSUME NEW step, NEW next, Verify(c, step, next),
             \/ step = "verify" /\ next = "list"
             \/ step = "reverify" /\ next = "post"
      PROVE  NotPosting /\ \E k \in Call : Progress(c, k)
  <2> DEFINE k == [calls[c] EXCEPT !.pc = next]
  <2>1. /\ calls[c].pc = step /\ calls' = [calls EXCEPT ![c] = k]
        /\ UNCHANGED runVars
    BY <1>3 DEF Verify, At, Go
  <2>3. /\ k \in Call /\ k.pc = next /\ k.run = calls[c].run /\ k.ids = calls[c].ids
        /\ k.already = calls[c].already /\ k.goal = calls[c].goal
        /\ k.listed = calls[c].listed
    BY <1>3, <1>a DEF Call, Steps, PublishSteps
  <2>4. Formed(k, last', runs', pubs', comments')
    BY <1>3, <1>a, <2>1, <2>3 DEF Formed, Unowned, Sending, PublishSteps, Delivering
  <2> QED
    BY <1>b, <2>1, <2>3, <2>4 DEF Progress
<1>4. CASE List(c)
  <2> DEFINE n == Min({Len(comments), Window})
             k == [calls[c] EXCEPT !.pc = "reverify", !.listed = n]
  <2>1. n \in Nat /\ n <= Len(comments)
    BY <1>c, SmallerIsThere
  <2>2. /\ calls[c].pc = "list" /\ calls' = [calls EXCEPT ![c] = k]
        /\ UNCHANGED runVars
    BY <1>4 DEF List, At
  <2> HIDE DEF n
  <2>3. /\ k \in Call /\ k.pc = "reverify" /\ k.run = calls[c].run /\ k.ids = calls[c].ids
        /\ k.already = calls[c].already /\ k.goal = calls[c].goal /\ k.listed = n
    BY <1>a, <2>1 DEF Call, Steps, PublishSteps
  <2>4. Formed(k, last', runs', pubs', comments')
    BY <1>0, <1>a, <2>1, <2>2, <2>3 DEF Formed, Unowned, Sending, PublishSteps, Delivering
  <2> QED
    BY <1>0, <1>b, <2>2, <2>3, <2>4 DEF Progress
<1>5. CASE UpdatePart(c)
  <2> DEFINE id == Found(c)[NextPart(c)]
  <2>1. /\ calls[c].pc = "post" /\ NextPart(c) \in DOMAIN Found(c) /\ PartDone(c, id)
        /\ UNCHANGED runVars
    BY <1>5 DEF UpdatePart, Posting, At
  <2>2. calls[c].listed <= Len(comments) /\ calls[c].listed \in Nat
    BY <1>a, <2>1 DEF Formed, Call
  <2>3. /\ NextPart(c) \in 1..Parts /\ id \in 1..calls[c].listed
        /\ IsPart(comments, id, calls[c].run, NextPart(c))
    BY <2>1, <2>2, FoundPart
  <2> HIDE DEF id
  <2>4. id \in Nat /\ NextPart(c) <= Parts
    BY <1>c, <2>2, <2>3
  <2>5. \E k \in Call : Progress(c, k)
    BY <1>0, <2>1, <2>3, <2>4, StillThere, PartFormed
  <2> QED
    BY <1>0, <1>b, <2>1, <2>5
<1> QED
  BY <1>0, <1>1, <1>2, <1>3, <1>4, <1>5 DEF Reads

LEMMA ReadsInv ==
    ASSUME PublicationInv, RunsGrow, NEW c \in Calls, Reads(c)
    PROVE  PublicationInv'
BY ReadsProgress, StillThere, ProgressInv

\* The status of one review may change to anything but none or posted.
LEMMA StatusStays ==
    ASSUME PublicationInv, NEW S \in SUBSET Runs, \A r \in S : r <= last',
           NEW status \in DeliveryStatus \ {"none", "posted"},
           pubs' = [r \in Runs |-> IF r \in S THEN [pubs[r] EXCEPT !.status = status]
                                              ELSE pubs[r]]
    PROVE  ReviewsStay
<1>1. \A r \in Runs : pubs[r] \in PubRow
  BY DEF PublicationInv, RowsFormed
<1>2. \A r \in Runs : pubs'[r] \in PubRow
  BY <1>1 DEF PubRow, DeliveryStatus
<1>3. \A r \in Runs : ReviewStays(r)
  BY <1>1 DEF ReviewStays, PubRow
<1> QED
  BY <1>2, <1>3 DEF ReviewsStay

\* Only the status of review r changes.
OneStatus(r, status) == pubs' = [pubs EXCEPT ![r].status = status]

LEMMA OneStatusStays ==
    ASSUME PublicationInv, NEW r \in Runs, r <= last',
           NEW status \in DeliveryStatus \ {"none", "posted"}, OneStatus(r, status)
    PROVE  ReviewsStay
<1>1. pubs' = [q \in Runs |-> IF q \in {r} THEN [pubs[q] EXCEPT !.status = status]
                                           ELSE pubs[q]]
  BY DEF OneStatus, PublicationInv, RowsFormed
<1> QED
  BY <1>1, StatusStays

\* The claim of a review that is not out yet.
Claiming(c) ==
    /\ Claim(c) /\ pubs[calls[c].run].status \in ReadyToPost
    /\ OneStatus(calls[c].run, "posting") /\ Go(c, "verify") /\ UNCHANGED runVars

LEMMA ClaimingInv ==
    ASSUME PublicationInv, RunsGrow, NEW c \in Calls, Claiming(c)
    PROVE  PublicationInv'
<1> DEFINE k == [calls[c] EXCEPT !.pc = "verify"]
<1>1. /\ calls[c].pc = "claim" /\ calls[c].pc \notin Unowned
      /\ calls' = [calls EXCEPT ![c] = k] /\ comments' = comments
  BY DEF Claiming, Claim, At, Go, Unowned
<1>2. /\ CommentsGrow /\ NotPosting
  BY <1>1, NothingNew, OthersDoNotPost DEF Claiming, RunsGrow
<1>3. calls[c].run \in Runs /\ calls[c].run <= last'
  BY <1>1 DEF PublicationInv, CallsFormed, Formed, Call, RunsGrow, RunsInv, RunsTypeOK,
              Runs, Claiming, runVars
<1>4. "posting" \in DeliveryStatus \ {"none", "posted"}
  BY DEF DeliveryStatus
<1>5. ReviewsStay /\ IdsStay
  BY <1>3, <1>4, OneStatusStays DEF Claiming, ReviewsStay, ReviewStays, IdsStay
<1>6. calls[c] \in Call /\ Formed(calls[c], last', runs', pubs', comments')
  BY <1>2, <1>5, Carries
<1>7. /\ k \in Call /\ k.pc = "verify" /\ k.run = calls[c].run /\ k.ids = calls[c].ids
      /\ k.goal = calls[c].goal /\ k.already = calls[c].already
  BY <1>6 DEF Call, Steps, PublishSteps
<1>8. calls[c].ids = <<>> /\ Len(calls[c].ids) < Parts /\ ~calls[c].already
  BY <1>1, <1>6, DeliveryAssumption DEF Formed, Sending, PublishSteps
<1>9. Formed(k, last', runs', pubs', comments')
  BY <1>1, <1>6, <1>7, <1>8 DEF Formed, Unowned, Sending, PublishSteps, Delivering
<1> QED
  BY <1>1, <1>2, <1>5, <1>7, <1>9, ProgressInv DEF Progress

\* A comment more is on GitHub, and those that were are still there.
LEMMA CommentAdded ==
    ASSUME PublicationInv, NEW c \in Calls, calls[c].run \in Runs,
           NextPart(c) \in 1..Parts, AddComment(c)
    PROVE  /\ CommentsGrow
           /\ Len(comments) + 1 \in Nat
           /\ Len(comments') = Len(comments) + 1
           /\ IsPart(comments', Len(comments) + 1, calls[c].run, NextPart(c))
<1> DEFINE new == [run |-> calls[c].run, part |-> NextPart(c)]
           C == comments
<1>1. C \in Seq(Comment) /\ new \in Comment
  BY DEF PublicationInv, RowsFormed, Comment
<1>2. comments' = Append(C, new)
  BY DEF AddComment
<1> HIDE DEF C, new
<1>3. /\ Append(C, new) \in Seq(Comment) /\ Len(Append(C, new)) = Len(C) + 1
      /\ Len(C) \in Nat /\ \A i \in DOMAIN C : Append(C, new)[i] = C[i]
      /\ Append(C, new)[Len(C) + 1] = new /\ Len(C) + 1 \in DOMAIN Append(C, new)
  BY <1>1
<1> QED
  BY <1>2, <1>3 DEF CommentsGrow, IsPart, C, new

LEMMA CreatePartInv ==
    ASSUME PublicationInv, RunsGrow, NEW c \in Calls, CreatePart(c)
    PROVE  PublicationInv' /\ CommentsGrow
<1>1. /\ calls[c].pc = "post" /\ calls[c].pc \notin Unowned /\ AddComment(c)
      /\ PartDone(c, Len(comments) + 1) /\ UNCHANGED <<runVars, pubs>>
  BY DEF CreatePart, Posting, At, Unowned
<1>2. /\ calls[c] \in Call /\ Formed(calls[c], last, runs, pubs, comments)
      /\ calls[c].run \in Runs
  BY <1>1 DEF PublicationInv, CallsFormed, Formed, Call, Runs
<1>3. NextPart(c) \in 1..Parts
  BY <1>1, <1>2, DeliveryAssumption DEF NextPart, Formed, PublishSteps, Call
<1>4. /\ CommentsGrow /\ Len(comments) + 1 \in Nat
      /\ IsPart(comments', Len(comments) + 1, calls[c].run, NextPart(c))
  BY <1>1, <1>2, <1>3, CommentAdded
<1>5. ReviewsStay /\ IdsStay /\ NotPosting
  BY <1>1, NothingNew, OthersDoNotPost DEF IdsStay, RunsGrow
<1>6. \E k \in Call : Progress(c, k)
  BY <1>1, <1>3, <1>4, <1>5, PartFormed
<1> QED
  BY <1>4, <1>5, <1>6, ProgressInv

\* A publisher that gives up releases its claim and fails its run.
LEMMA GivesUpInv ==
    ASSUME PublicationInv, RunsGrow, NEW c \in Calls, calls[c].pc \in PublishSteps,
           CommentsGrow, NEW status \in {"stale", "publish_failed"},
           NEW code \in FailureCodes, PublishGivesUp(c, status, code)
    PROVE  PublicationInv' /\ ReviewsStay
<1>0. RunsInv
  BY DEF RunsGrow
<1>1. calls[c].pc \notin Unowned /\ calls' = [calls EXCEPT ![c] = Session(calls[c].run)]
  BY DEF PublishSteps, Unowned, PublishGivesUp, Become
<1>2. /\ calls[c].run \in Runs /\ calls[c].run <= last' /\ calls[c].run <= last
      /\ calls[c].run \in 1..last'
  <2>1. /\ calls[c] \in Call /\ Formed(calls[c], last, runs, pubs, comments)
        /\ last \in Nat /\ last' \in Nat /\ last <= last' /\ last <= MaxRuns
        /\ MaxRuns \in Nat
    BY RunsAssumption DEF PublicationInv, CallsFormed, RunsGrow, RunsInv, RunsTypeOK
  <2> QED
    BY <1>1, <2>1 DEF Formed, Runs
<1>3. CASE UNCHANGED <<runVars, pubs>>
  <2>1. ReviewsStay /\ NotPosting
    BY <1>0, <1>3, NothingNew, OthersDoNotPost
  <2> QED
    BY <1>1, <1>2, <2>1, SessionFormed, ProgressInv DEF Progress
<1>4. CASE MarkFailed(calls[c].run, status, code)
  <2>1. NotPosting
    BY <1>0, <1>2, <1>4, OthersDoNotPost DEF MarkFailed
  <2>2. ReviewsStay
    BY <1>2, <1>4, OneStatusStays DEF MarkFailed, OneStatus, DeliveryStatus
  <2> QED
    BY <1>1, <1>2, <2>1, <2>2, SessionFormed, ProgressInv DEF Progress
<1> QED
  BY <1>3, <1>4 DEF PublishGivesUp

\* A publisher that fails, with or without a comment posted on the way.
Fails(c) == OffTarget(c) \/ PublishFails(c)

LEMMA FailsInv ==
    ASSUME PublicationInv, RunsGrow, NEW c \in Calls, Fails(c)
    PROVE  PublicationInv' /\ CommentsGrow /\ ReviewsStay
<1>1. CASE OffTarget(c)
  BY <1>1, GivesUpInv, NothingNew DEF OffTarget, At, PublishSteps, FailureCodes
<1>2. CASE PublishFails(c)
  <2>1. /\ calls[c].pc \in PublishSteps
        /\ PublishGivesUp(c, "publish_failed", "publish_failed")
        /\ "publish_failed" \in FailureCodes
    BY <1>2 DEF PublishFails, FailureCodes
  <2>2. CASE UNCHANGED comments
    BY <2>1, <2>2, GivesUpInv, NothingNew
  <2>3. CASE Posting(c) /\ AddComment(c)
    <3>1. /\ calls[c] \in Call /\ Formed(calls[c], last, runs, pubs, comments)
          /\ calls[c].pc = "post"
      BY <2>3 DEF PublicationInv, CallsFormed, Posting, At
    <3>2. calls[c].run \in Runs
      BY <3>1 DEF Formed, Unowned, Call, Runs
    <3>3. NextPart(c) \in 1..Parts
      BY <3>1, DeliveryAssumption DEF NextPart, Formed, PublishSteps, Call
    <3>4. CommentsGrow
      BY <2>3, <3>2, <3>3, CommentAdded
    <3> QED
      BY <2>1, <3>4, GivesUpInv
  <2> QED
    BY <1>2, <2>2, <2>3 DEF PublishFails
<1> QED
  BY <1>1, <1>2 DEF Fails

\* review_deliver takes a publication that was rendered before as it is.
FinalizesAgain(c) == Finalize(c) /\ pubs[calls[c].run].status # "none"

LEMMA FinalizesAgainTurns ==
    ASSUME PublicationInv, RunsGrow, NEW c \in Calls, FinalizesAgain(c)
    PROVE  Turns(c)
<1> DEFINE k == [calls[c] EXCEPT !.pc = "phase", !.pull = AnyPull]
<1>1. /\ calls[c].pc = "finalize" /\ UNCHANGED <<pubs, comments, runVars>>
      /\ calls' = [calls EXCEPT ![c] = k]
  BY DEF FinalizesAgain, Finalize, At
<1>2. /\ calls[c] \in Call /\ Formed(calls[c], last', runs', pubs', comments')
  BY <1>1, StillThere, Carries
<1>3. AnyPull \in PullStates
  BY DeliveryAssumption DEF AnyPull, PullStates
<1>4. /\ k \in Call /\ k.pc = "phase" /\ k.run = calls[c].run /\ k.ids = calls[c].ids
      /\ k.already = calls[c].already /\ k.goal = calls[c].goal
  BY <1>2, <1>3 DEF Call, Steps
<1>5. Formed(k, last', runs', pubs', comments')
  BY <1>1, <1>2, <1>4 DEF Formed, Unowned, Sending, PublishSteps, Delivering
<1>6. NotPosting
  BY <1>1, OthersDoNotPost DEF RunsGrow
<1>7. pubs[k.run].status # "none"
  BY <1>4 DEF FinalizesAgain
<1> QED
  BY <1>1, <1>4, <1>5, <1>6, <1>7
     DEF Turns, Progress, KeepsRun, AtWork, Holding, PublishSteps, Unowned

\* It renders one that was not.
Renders(c) ==
    LET r == calls[c].run
        found == SubjectsOf(runs[r].snap.head)
    IN
    /\ Finalize(c) /\ pubs[r].status = "none" /\ found # {}
    /\ pubs' = [pubs EXCEPT ![r].status = "generated",
                            ![r].target = subjects[Max(found)],
                            ![r].number = NextNumber]

\* What rendering does to the review of run r.
Rendered(r) ==
    /\ pubs' \in [Runs -> PubRow]
    /\ pubs[r].status = "none" /\ pubs'[r].status = "generated"
    /\ pubs'[r].ids = pubs[r].ids /\ pubs'[r].number = NextNumber
    /\ \A q \in Runs \ {r} : pubs'[q] = pubs[q]

LEMMA NewestSubject ==
    ASSUME subjects \in Seq(Snapshots), NEW head, SubjectsOf(head) # {}
    PROVE  subjects[Max(SubjectsOf(head))] \in Snapshots
<1> DEFINE S == SubjectsOf(head)
<1>1. /\ S \in SUBSET Nat /\ S \subseteq DOMAIN subjects
      /\ \A i \in S : i <= Len(subjects) /\ Len(subjects) \in Nat
  BY DEF SubjectsOf
<1>2. \E i \in S : \A j \in S : j <= i
  <2> HIDE DEF S
  <2>1. PICK i \in S : TRUE
    BY DEF S
  <2> QED
    BY <1>1, <2>1, LargestExists DEF S
<1>3. Max(S) \in S
  <2>1. \E i \in S : \A j \in S : i >= j
    BY <1>1, <1>2
  <2> QED
    BY <2>1 DEF Max
<1> QED
  BY <1>1, <1>3

LEMMA RendersRow ==
    ASSUME PublicationInv, subjects \in Seq(Snapshots), NEW c \in Calls, Renders(c),
           calls[c].run \in Runs
    PROVE  Rendered(calls[c].run)
<1> DEFINE r == calls[c].run
           target == subjects[Max(SubjectsOf(runs[r].snap.head))]
<1>1. target \in Snapshots
  BY NewestSubject DEF Renders
<1>2. NextNumber \in Nat
  BY NextNumberIs DEF PublicationInv, RowsFormed
<1>3. pubs \in [Runs -> PubRow]
  BY DEF PublicationInv, RowsFormed
<1> HIDE DEF target
<1>4. pubs[r].status = "none" /\ pubs' = [pubs EXCEPT ![r].status = "generated",
                ![r].target = target, ![r].number = NextNumber]
  BY DEF Renders, target
<1>5. pubs' = [pubs EXCEPT ![r] = [pubs[r] EXCEPT !.status = "generated",
                !.target = target, !.number = NextNumber]]
  BY <1>4
<1> DEFINE row == [pubs[r] EXCEPT !.status = "generated", !.target = target,
                                  !.number = NextNumber]
<1>6. row \in PubRow /\ row.status = "generated" /\ row.ids = pubs[r].ids
      /\ row.number = NextNumber
  BY <1>1, <1>2, <1>3 DEF PubRow, DeliveryStatus
<1> QED
  BY <1>3, <1>4, <1>5, <1>6 DEF Rendered

LEMMA RendersInv ==
    ASSUME PublicationInv, RunsGrow, subjects \in Seq(Snapshots), NEW c \in Calls, Renders(c)
    PROVE  PublicationInv'
<1> DEFINE r == calls[c].run
           k == [calls[c] EXCEPT !.pc = "phase", !.pull = AnyPull]
<1>1. /\ calls[c].pc = "finalize" /\ UNCHANGED <<comments, runVars>>
      /\ calls' = [calls EXCEPT ![c] = k]
  BY DEF Renders, Finalize, At
<1>2. /\ calls[c] \in Call /\ Formed(calls[c], last, runs, pubs, comments)
      /\ r \in Runs /\ r <= last
  BY <1>1, OwnedFormed DEF Unowned, RunsGrow
<1>3. Rendered(r)
  BY <1>2, RendersRow
<1>4. CommentsGrow /\ IdsStay
  BY <1>1, <1>3, NothingNew DEF IdsStay, Rendered
<1>5. Formed(calls[c], last', runs', pubs', comments')
  BY <1>4, Carries
<1>6. AnyPull \in PullStates
  BY DeliveryAssumption DEF AnyPull, PullStates
<1>7. /\ k \in Call /\ k.pc = "phase" /\ k.run = calls[c].run /\ k.ids = calls[c].ids
      /\ k.already = calls[c].already /\ k.goal = calls[c].goal
  BY <1>2, <1>6 DEF Call, Steps
<1>8. Formed(k, last', runs', pubs', comments')
  BY <1>1, <1>5, <1>7 DEF Formed, Unowned, Sending, PublishSteps, Delivering
<1>9. CallsFormed'
  BY <1>1, <1>4, <1>7, <1>8, CallMoves DEF PublicationInv, RowsFormed
<1>10. RowsFormed'
  <2>1. ASSUME NEW q \in Runs
        PROVE  RowFormed(pubs'[q], q, last', runs', comments')
    <3>1. RowFormed(pubs[q], q, last, runs, comments)
      BY DEF PublicationInv, RowsFormed
    <3>2. CASE q = r
      <4>1. pubs[r].ids = <<>>
        BY <1>3, <3>1, <3>2 DEF Rendered, RowFormed
      <4> QED
        BY <1>1, <1>2, <1>3, <3>1, <3>2, <4>1 DEF Rendered, RowFormed, runVars
    <3>3. CASE q # r
      BY <1>1, <1>3, <3>1, <3>3 DEF Rendered, runVars
    <3> QED
      BY <3>2, <3>3
  <2> QED
    BY <1>1, <1>3, <2>1 DEF RowsFormed, Rendered, PublicationInv
<1>11. NumbersBounded'
  <2>1. Made' = Made \cup {r} /\ r \notin Made
    BY <1>2, <1>3 DEF Made, Rendered
  <2>2. Cardinality(Made') = Cardinality(Made) + 1 /\ Cardinality(Made) \in Nat
    BY <2>1, MadeCount, FS_AddElement DEF Made
  <2>3. NextNumber <= Cardinality(Made) + 1
    BY NextNumberIs DEF PublicationInv, RowsFormed
  <2>4. \A q \in Runs : pubs[q].number \in Nat
    BY DEF PublicationInv, RowsFormed, PubRow
  <2> QED
    BY <1>2, <1>3, <2>2, <2>3, <2>4 DEF NumbersBounded, Rendered, PublicationInv
<1> QED
  BY <1>9, <1>10, <1>11 DEF PublicationInv

\* What marking does: the review of run r is posted with these ids, every
\* other one keeps its state and its comments.
Marked(r, ids) ==
    /\ pubs' \in [Runs -> PubRow]
    /\ pubs'[r].status = "posted" /\ pubs'[r].ids = ids
    /\ pubs'[r].number = pubs[r].number
    /\ pubs[r].status \in {"generated", "posting", "posted"} /\ ~NumberTaken(r)
    /\ \A q \in Runs \ {r} :
          /\ pubs'[q].status = pubs[q].status /\ pubs'[q].ids = pubs[q].ids
          /\ pubs'[q].number = pubs[q].number

LEMMA PostedPubRow ==
    ASSUME NEW row \in PubRow, NEW ids \in Seq(Nat)
    PROVE  LET posted == [row EXCEPT !.status = "posted", !.by = 0, !.ids = ids]
           IN  /\ posted \in PubRow /\ posted.status = "posted" /\ posted.ids = ids
               /\ posted.number = row.number
<1>1. 0 \in 0..MaxRuns /\ "posted" \in DeliveryStatus
  BY RunsAssumption DEF DeliveryStatus
<1> QED
  BY <1>1 DEF PubRow

LEMMA MarkPostedRow ==
    ASSUME PublicationInv, RunsInv, NEW c \in Calls, MarkPosted(c)
    PROVE  /\ calls[c].pc = "mark" /\ calls[c].run \in Runs
           /\ Marked(calls[c].run, calls[c].ids)
<1> DEFINE r == calls[c].run
           posted == [pubs[r] EXCEPT !.status = "posted", !.by = 0, !.ids = calls[c].ids]
           old(q) == [pubs[q] EXCEPT !.by = r]
<1>1. /\ calls[c].pc = "mark" /\ calls[c] \in Call /\ r \in Runs
  BY OwnedFormed DEF MarkPosted, At, Unowned
<1>2. r \in 0..MaxRuns /\ calls[c].ids \in Seq(Nat) /\ 0 \in 0..MaxRuns
  BY <1>1, RunsAssumption DEF Call
<1>3. \A q \in Runs : pubs[q] \in PubRow
  BY DEF PublicationInv, RowsFormed
<1>4. /\ posted \in PubRow /\ posted.status = "posted" /\ posted.ids = calls[c].ids
      /\ posted.number = pubs[r].number
  BY <1>1, <1>2, <1>3, PostedPubRow
<1>5. ASSUME NEW q \in Runs
      PROVE  /\ old(q) \in PubRow /\ old(q).status = pubs[q].status
             /\ old(q).ids = pubs[q].ids /\ old(q).number = pubs[q].number
  BY <1>2, <1>3 DEF PubRow
<1>6. pubs' = [q \in Runs |-> IF q = r THEN posted
                              ELSE IF pubs[q].status = "posted" /\ pubs[q].by = 0
                              THEN old(q) ELSE pubs[q]]
  BY DEF MarkPosted
<1> HIDE DEF posted, old
<1>7. \A q \in Runs : pubs'[q] \in PubRow
  BY <1>3, <1>4, <1>5, <1>6
<1>8. pubs'[r] = posted /\ \A q \in Runs \ {r} : pubs'[q] = old(q) \/ pubs'[q] = pubs[q]
  BY <1>1, <1>6
<1>9. pubs[r].status \in {"generated", "posting", "posted"} /\ ~NumberTaken(r)
  BY DEF MarkPosted, Postable
<1>10. pubs' \in [Runs -> PubRow]
  BY <1>6, <1>7
<1> QED
  BY <1>1, <1>4, <1>5, <1>8, <1>9, <1>10 DEF Marked

LEMMA MarkPostedInv ==
    ASSUME PublicationInv, RunsGrow, NEW c \in Calls, MarkPosted(c)
    PROVE  PublicationInv'
<1> DEFINE r == calls[c].run
           step == IF DOMAIN Found(c) = {} THEN "supersede" ELSE "cleanup"
           k == [calls[c] EXCEPT !.pc = step]
<1>1. /\ calls[c].pc = "mark" /\ UNCHANGED comments /\ PostRun(r)
      /\ calls' = [calls EXCEPT ![c] = k] /\ Marked(r, calls[c].ids)
  BY MarkPostedRow DEF MarkPosted, Go, RunsGrow
<1>a. step \in {"supersede", "cleanup"}
  OBVIOUS
<1> HIDE DEF step
<1>2. /\ calls[c] \in Call /\ Formed(calls[c], last, runs, pubs, comments)
      /\ r \in Runs /\ r <= last /\ r \in Nat
  BY <1>1, OwnedFormed DEF Unowned, RunsGrow
<1>b. Parts \in Nat \ {0} /\ last \in Nat /\ last' = last
  BY <1>1, DeliveryAssumption, RunsAssumption DEF RunsGrow, RunsInv, RunsTypeOK, PostRun
<1>3. Len(calls[c].ids) = Parts /\ calls[c].ids # <<>>
  BY <1>1, <1>2, <1>b DEF Formed, PublishSteps, Call
<1>4. CommentsGrow /\ IdsStay
  BY <1>1, <1>3, NothingNew DEF IdsStay, Marked
<1>5. /\ runs'[r].status \in Ended
      /\ \A q \in Runs \ {r} : runs'[q] = runs[q]
  <2>1. /\ runs \in [Runs -> RunRow] /\ runs[r].status # "none"
    BY <1>2, <1>b DEF RunsGrow, RunsInv, RunsTypeOK
  <2>2. runs[r].status \in {"running", "generated", "failed"}
    BY <1>2, <2>1 DEF RunRow
  <2>3. CASE Running(r)
    BY <1>1, <1>2, <2>1, <2>3 DEF PostRun, Ended, RunRow
  <2>4. CASE ~Running(r)
    BY <1>1, <1>2, <2>2, <2>4 DEF PostRun, Ended, Running
  <2> QED
    BY <2>3, <2>4
<1>6. Formed(calls[c], last', runs', pubs', comments')
  BY <1>4, Carries
<1>7. /\ k \in Call /\ k.pc = step /\ k.run = calls[c].run /\ k.ids = calls[c].ids
      /\ k.already = calls[c].already /\ k.goal = calls[c].goal
  BY <1>a, <1>2 DEF Call, Steps
<1>8. Formed(k, last', runs', pubs', comments')
  BY <1>1, <1>5, <1>6, <1>7, <1>a DEF Formed, Unowned, Sending, PublishSteps, Delivering
<1>9. CallsFormed'
  BY <1>1, <1>4, <1>7, <1>8, CallMoves DEF PublicationInv, RowsFormed
<1>10. RowsFormed'
  <2>1. ASSUME NEW q \in Runs
        PROVE  RowFormed(pubs'[q], q, last', runs', comments')
    <3>1. RowFormed(pubs[q], q, last, runs, comments)
      BY DEF PublicationInv, RowsFormed
    <3>2. CASE q = r
      <4>1. \A m \in 1..Parts : IsPart(comments', calls[c].ids[m], r, m)
        BY <1>1, <1>2, <1>3 DEF Formed, Call
      <4> QED
        BY <1>1, <1>2, <1>3, <1>5, <1>b, <3>1, <3>2, <4>1 DEF Marked, RowFormed
    <3>3. CASE q # r
      BY <1>1, <1>5, <1>b, <3>1, <3>3 DEF Marked, RowFormed
    <3> QED
      BY <3>2, <3>3
  <2> QED
    BY <1>1, <2>1 DEF RowsFormed, Marked, PublicationInv
<1>11. NumbersBounded'
  <2>1. Made' = Made
    BY <1>1, <1>2 DEF Made, Marked
  <2> QED
    BY <1>1, <1>2, <2>1 DEF NumbersBounded, Marked, PublicationInv
<1> QED
  BY <1>9, <1>10, <1>11 DEF PublicationInv

\* Status, comments and number of every review stay.
ReviewsKept ==
    /\ pubs' \in [Runs -> PubRow]
    /\ \A q \in Runs : /\ pubs'[q].status = pubs[q].status
                       /\ pubs'[q].ids = pubs[q].ids
                       /\ pubs'[q].number = pubs[q].number

LEMMA KeptStays == ASSUME ReviewsKept PROVE ReviewsStay
BY DEF ReviewsKept, ReviewsStay, ReviewStays

LEMMA HistoryKept ==
    ASSUME PublicationInv, NEW old, NEW h \in {"rendered", "failed"},
           pubs' = [pubs EXCEPT ![old].history = h]
    PROVE  ReviewsKept
<1>1. pubs \in [Runs -> PubRow]
  BY DEF PublicationInv, RowsFormed
<1>2. \A q \in Runs : LET new == [pubs[q] EXCEPT !.history = h]
                      IN /\ new \in PubRow /\ new.status = pubs[q].status
                         /\ new.ids = pubs[q].ids /\ new.number = pubs[q].number
  BY <1>1 DEF PubRow
<1>3. pubs' = [q \in Runs |-> IF q = old THEN [pubs[q] EXCEPT !.history = h] ELSE pubs[q]]
  BY <1>1
<1> QED
  BY <1>1, <1>2, <1>3 DEF ReviewsKept

\* A superseded review is rewritten, or its rewriting fails.
Rewrites(c) == Supersede(c) \/ SupersedeFails(c)

LEMMA RewritesInv ==
    ASSUME PublicationInv, RunsGrow, NEW c \in Calls, Rewrites(c)
    PROVE  PublicationInv' /\ ReviewsKept
<1> DEFINE k == [calls[c] EXCEPT !.pc = "cleanup"]
<1>1. /\ calls[c].pc = "supersede" /\ calls' = [calls EXCEPT ![c] = k]
      /\ UNCHANGED <<runVars, comments>>
  BY DEF Rewrites, Supersede, SupersedeFails, At, Go
<1>2. ReviewsKept
  <2>1. CASE UNCHANGED pubs
    BY <2>1 DEF ReviewsKept, PublicationInv, RowsFormed
  <2>2. ASSUME NEW old, NEW h \in {"rendered", "failed"},
               pubs' = [pubs EXCEPT ![old].history = h]
        PROVE  ReviewsKept
    BY <2>2, HistoryKept
  <2> QED
    BY <2>1, <2>2 DEF Rewrites, Supersede, SupersedeFails
<1>3. ReviewsStay /\ IdsStay /\ CommentsGrow /\ NotPosting
  BY <1>1, <1>2, KeptStays, NothingNew, OthersDoNotPost DEF ReviewsKept, IdsStay, RunsGrow
<1>4. calls[c] \in Call /\ Formed(calls[c], last', runs', pubs', comments')
  BY <1>3, Carries
<1>5. /\ k \in Call /\ k.pc = "cleanup" /\ k.run = calls[c].run /\ k.ids = calls[c].ids
      /\ k.goal = calls[c].goal /\ k.already = calls[c].already
  BY <1>4 DEF Call, Steps
<1>6. Formed(k, last', runs', pubs', comments')
  BY <1>1, <1>4, <1>5 DEF Formed, Unowned, Sending, PublishSteps, Delivering
<1> QED
  BY <1>1, <1>2, <1>3, <1>5, <1>6, ProgressInv DEF Progress

LEMMA CleanupFailsInv ==
    ASSUME PublicationInv, RunsGrow, NEW c \in Calls, CleanupFails(c)
    PROVE  PublicationInv' /\ ReviewsStay
<1>1. /\ calls[c].pc = "cleanup" /\ UNCHANGED comments /\ ClearNotices
      /\ calls' = [calls EXCEPT ![c] = Session(calls[c].run)]
      /\ OneStatus(calls[c].run, "publish_failed")
  BY DEF CleanupFails, At, Become, OneStatus
<1>2. /\ calls[c].run \in Runs /\ calls[c].run <= last' /\ calls[c].run \in 1..last'
  <2>1. calls[c].run \in Runs /\ calls[c].run \in Nat /\ calls[c].run <= last
    BY <1>1, OwnedFormed DEF Unowned, RunsGrow
  <2>2. last \in Nat /\ last' = last
    BY <1>1, RunsAssumption DEF ClearNotices, RunsGrow, RunsInv, RunsTypeOK
  <2> QED
    BY <2>1, <2>2 DEF Runs
<1>3. ReviewsStay /\ CommentsGrow /\ NotPosting
  <2>1. "publish_failed" \in DeliveryStatus \ {"none", "posted"}
    BY DEF DeliveryStatus
  <2> QED
    BY <1>1, <1>2, <2>1, OneStatusStays, NothingNew, OthersDoNotPost DEF RunsGrow
<1> QED
  BY <1>1, <1>2, <1>3, SessionFormed, ProgressInv DEF Progress

-----------------------------------------------------------------------------
(* The stale cleanup, whoever runs it, and the environment.                  *)

\* Claims of runs that were found stale are released.
LEMMA ReapStays ==
    ASSUME PublicationInv, RunsGrow, NEW found \in SUBSET Runs, ReapStale(found)
    PROVE  ReviewsStay /\ NotPosting
<1> DEFINE S == {r \in found : pubs[r].status = "posting"}
<1>1. S \in SUBSET Runs
  OBVIOUS
<1>2. pubs' = [r \in Runs |-> IF r \in S THEN [pubs[r] EXCEPT !.status = "publish_failed"]
                                         ELSE pubs[r]]
  BY DEF ReapStale
<1>3. \A r \in S : r <= last'
  <2>1. \A r \in S : r <= last /\ r \in Nat
    BY DEF PublicationInv, RowsFormed, RowFormed, Runs
  <2>2. last \in Nat /\ last' \in Nat /\ last <= last'
    BY RunsAssumption DEF RunsGrow, RunsInv, RunsTypeOK
  <2> QED
    BY <2>1, <2>2
<1>4. "publish_failed" \in DeliveryStatus \ {"none", "posted"}
  BY DEF DeliveryStatus
<1> HIDE DEF S
<1>5. ReviewsStay
  BY <1>1, <1>2, <1>3, <1>4, StatusStays
<1> QED
  BY <1>5, OthersDoNotPost DEF ReapStale, RunsGrow

LEMMA BeginFailStaleInv ==
    ASSUME PublicationInv, RunsGrow, NEW c \in Calls, BeginFailStale(c)
    PROVE  PublicationInv' /\ ReviewsStay
<1> DEFINE k == [calls[c] EXCEPT !.pc = "begin_start", !.stale = {}]
<1>1. /\ calls[c].pc = "begin_fail" /\ calls' = [calls EXCEPT ![c] = k]
      /\ UNCHANGED comments /\ ReapStale(calls[c].stale)
  BY DEF BeginFailStale, At
<1>2. calls[c] \in Call /\ calls[c].stale \in SUBSET Runs
  BY DEF PublicationInv, CallsFormed, Call
<1>3. ReviewsStay /\ NotPosting /\ CommentsGrow /\ IdsStay
  BY <1>1, <1>2, ReapStays, NothingNew DEF IdsStay, ReviewsStay, ReviewStays
<1>4. Formed(calls[c], last', runs', pubs', comments')
  BY <1>3, Carries
<1>5. /\ k \in Call /\ k.pc = "begin_start" /\ k.ids = calls[c].ids
      /\ k.already = calls[c].already
  BY <1>2 DEF Call, Steps
<1>6. Formed(k, last', runs', pubs', comments')
  BY <1>1, <1>4, <1>5 DEF Formed, Unowned, Sending, PublishSteps, Delivering
<1> QED
  BY <1>1, <1>3, <1>5, <1>6, ProgressInv DEF Progress

\* Steps of no call, that leave the reviews and their comments alone.
Elsewhere ==
    \/ ReaperFinds \/ (\E r \in Runs : ReaperPosts(r) \/ Silence(r))
    \/ (\E snap \in Snapshots : Push(snap)) \/ Close

LEMMA ElsewhereQuiet ==
    ASSUME RunsInv, Elsewhere
    PROVE  UNCHANGED <<pubs, comments, calls>> /\ NotPosting
<1>1. UNCHANGED <<pubs, comments, calls>>
  BY DEF Elsewhere, ReaperFinds, ReaperPosts, Silence, Push, Close, others
<1>2. \/ UNCHANGED runVars
      \/ \E r \in Runs : (Ageing /\ PassCutoff(r)) \/ RecordNotice(r)
  BY DEF Elsewhere, ReaperFinds, ReaperPosts, PersistNotice, Silence, Push, Close
<1> QED
  BY <1>1, <1>2, OthersDoNotPost

LEMMA QuietInv ==
    ASSUME PublicationInv, RunsGrow, NotPosting, UNCHANGED <<comments, calls>>, ReviewsStay
    PROVE  PublicationInv'
<1>1. CommentsGrow
  BY NothingNew
<1> QED
  BY <1>1, RowsStay, CallsStay DEF PublicationInv, RowsFormed

LEMMA RestartInv ==
    ASSUME PublicationInv, RunsGrow, Restart
    PROVE  PublicationInv'
<1>1. CommentsGrow /\ ReviewsStay /\ NotPosting
  BY NothingNew, OthersDoNotPost DEF Restart, RunsGrow
<1>2. CallsFormed'
  BY IdleFormed DEF Restart, CallsFormed
<1> QED
  BY <1>1, <1>2, RowsStay DEF PublicationInv

-----------------------------------------------------------------------------
(* Every step is one of these, so each keeps the invariant.                  *)

\* What is left of the bounds, the subjects, and the notices on GitHub.
SideInv ==
    /\ subjects \in Seq(Snapshots)
    /\ notices \subseteq Runs
    /\ left \in [{"push", "fault", "restart"} -> Nat]
    /\ "locked" \notin FaultPoints => NoNoticeForRunningRun

DeliveryInv == RunsInv /\ CallsInv /\ PublicationInv /\ SideInv

StepOf(c) ==
    \/ Turns(c) \/ Reads(c) \/ Claiming(c) \/ CreatePart(c) \/ Fails(c)
    \/ Renders(c) \/ MarkPosted(c) \/ Rewrites(c) \/ CleanupFails(c)
    \/ BeginFailStale(c)

StepOfNone == Elsewhere \/ Restart \/ ReaperMarks

LEMMA ProceedKinds ==
    ASSUME PublicationInv, RunsGrow, NEW c \in Calls, pr \in PullStates, Proceed(c)
    PROVE  StepOf(c)
<1> USE DEF StepOf
<1>1. CASE \/ BeginReap(c) \/ BeginFailStale(c) \/ BeginDuplicate(c) \/ BeginStart(c)
           \/ BeginPhase(c)
  BY <1>1, BeginTurns
<1>2. CASE SnapshotFetch(c) \/ SnapshotValidate(c) \/ Record(c)
  BY <1>2, SessionStepTurns
<1>3. CASE Finalize(c)
  <2>1. CASE pubs[calls[c].run].status # "none"
    BY <1>3, <2>1, FinalizesAgainTurns DEF FinalizesAgain
  <2>2. CASE pubs[calls[c].run].status = "none"
    BY <1>3, <2>2 DEF Finalize, Renders
  <2> QED
    BY <2>1, <2>2
<1>4. CASE FinalizeConflict(c) \/ FinalizeRefused(c)
  BY <1>4, DeliveryTurns
<1>5. CASE PublishingPhase(c)
  <2>1. CASE LostRun(c)
    BY <1>5, <2>1, DeliveryTurns
  <2>2. CASE ~LostRun(c)
    BY <1>5, <2>2 DEF PublishingPhase, Reads
  <2> QED
    BY <2>1, <2>2
<1>6. CASE Claim(c)
  <2>1. CASE HandlerError(c, "review_deliver_error") /\ UNCHANGED pubs
    BY <1>6, <2>1, DeliveryTurns
  <2>2. CASE ~(HandlerError(c, "review_deliver_error") /\ UNCHANGED pubs)
    BY <1>6, <2>2 DEF Claim, Reads, Claiming, OneStatus
  <2> QED
    BY <2>1, <2>2
<1>7. CASE \/ Verify(c, "verify", "list") \/ Verify(c, "reverify", "post") \/ List(c)
           \/ UpdatePart(c)
  BY <1>7 DEF Reads
<1>8. CASE NothingToRefresh(c) \/ MarkRefused(c) \/ Cleanup(c) \/ PostNotice(c)
  BY <1>8, DeliveryTurns
<1>9. CASE OffTarget(c) \/ CreatePart(c) \/ MarkPosted(c) \/ Supersede(c)
  BY <1>9 DEF Fails, Rewrites
<1> QED
  BY <1>1, <1>2, <1>3, <1>4, <1>5, <1>6, <1>7, <1>8, <1>9 DEF Proceed

LEMMA StepKinds ==
    ASSUME DeliveryInv, RunsGrow, DeliveryNext
    PROVE  StepOfNone \/ \E c \in Calls : StepOf(c)
<1>0. pr \in PullStates
  BY DEF DeliveryInv, CallsInv
<1>1. ASSUME NEW c \in Calls, BeginFetch(c) \/ EndTurn(c)
      PROVE  StepOf(c)
  BY <1>0, <1>1, BeginTurns, SessionStepTurns DEF DeliveryInv, StepOf
<1>2. ASSUME NEW c \in Calls, NEW goal \in Goals, Work(c, goal)
      PROVE  StepOf(c)
  BY <1>0, <1>2, SessionStepTurns DEF DeliveryInv, StepOf
<1>3. ASSUME NEW c \in Calls, Proceed(c)
      PROVE  StepOf(c)
  BY <1>0, <1>3, ProceedKinds DEF DeliveryInv
<1>4. ASSUME NEW c \in Calls, Falter(c)
      PROVE  StepOf(c)
  <2>1. CASE SnapshotFetchFails(c)
    BY <1>0, <2>1, SessionStepTurns DEF DeliveryInv, StepOf
  <2>2. CASE PublishCrashes(c) \/ PostNoticeFails(c)
    BY <2>2, DeliveryTurns DEF DeliveryInv, StepOf
  <2>3. CASE PublishFails(c) \/ SupersedeFails(c) \/ CleanupFails(c)
    BY <2>3 DEF StepOf, Fails, Rewrites
  <2> QED
    BY <1>4, <2>1, <2>2, <2>3 DEF Falter
<1>5. CASE \/ ReaperFinds \/ ReaperMarks \/ (\E r \in Runs : ReaperPosts(r))
           \/ (\E r \in Runs : Silence(r)) \/ (\E snap \in Snapshots : Push(snap))
           \/ Close \/ Restart
  BY <1>5 DEF StepOfNone, Elsewhere
<1> QED
  BY <1>1, <1>2, <1>3, <1>4, <1>5 DEF DeliveryNext

LEMMA StepInv ==
    ASSUME DeliveryInv, RunsGrow, StepOfNone \/ \E c \in Calls : StepOf(c)
    PROVE  PublicationInv'
<1>0. PublicationInv /\ RunsInv /\ subjects \in Seq(Snapshots) /\ reaper \in SUBSET Runs
  BY DEF DeliveryInv, SideInv, CallsInv
<1>1. ASSUME NEW c \in Calls, StepOf(c)
      PROVE  PublicationInv'
  BY <1>0, <1>1, TurnsInv, ReadsInv, ClaimingInv, CreatePartInv, FailsInv, RendersInv,
     MarkPostedInv, RewritesInv, CleanupFailsInv, BeginFailStaleInv DEF StepOf
<1>2. CASE Elsewhere
  BY <1>0, <1>2, ElsewhereQuiet, NothingNew, QuietInv
<1>3. CASE Restart
  BY <1>0, <1>3, RestartInv
<1>4. CASE ReaperMarks
  BY <1>0, <1>4, ReapStays, QuietInv DEF ReaperMarks
<1> QED
  BY <1>1, <1>2, <1>3, <1>4 DEF StepOfNone

\* The notices of every step are those that were there and at most one, of a
\* run that is over unless the database was locked.
LEMMA NoticeStays ==
    ASSUME DeliveryInv, RunsGrow, DeliveryNext
    PROVE  /\ notices' \subseteq Runs
           /\ "locked" \notin FaultPoints =>
                \A r \in notices' : r \in notices \/ Terminal(r)
<1>0. notices \subseteq Runs
  BY DEF DeliveryInv, SideInv
<1>1. CASE notices' \subseteq notices
  BY <1>0, <1>1
<1>2. ASSUME NEW c \in Calls, PostNotice(c)
      PROVE  /\ notices' \subseteq Runs
             /\ "locked" \notin FaultPoints =>
                  \A r \in notices' : r \in notices \/ Terminal(r)
  <2>1. /\ calls[c].pc = "notice" /\ notices' = notices \cup {calls[c].run}
    BY <1>2 DEF PostNotice, At
  <2>2. /\ calls[c].run \in Runs
        /\ "locked" \notin FaultPoints => Terminal(calls[c].run)
    BY <2>1, OwnedFormed DEF DeliveryInv, Unowned, Formed, Ended, Terminal
  <2> QED
    BY <1>0, <2>1, <2>2
<1>3. ASSUME NEW r \in Runs, ReaperPosts(r)
      PROVE  /\ notices' \subseteq Runs
             /\ \A q \in notices' : q \in notices \/ Terminal(q)
  BY <1>0, <1>3 DEF ReaperPosts, NeedsNotice, Terminal
<1>4. ASSUME NEW c \in Calls, Proceed(c), ~PostNotice(c)
      PROVE  notices' \subseteq notices
  BY <1>4 DEF Proceed, BeginReap, BeginFailStale, BeginDuplicate, BeginStart, BeginPhase,
       SnapshotFetch, SnapshotValidate, Record, Finalize, FinalizeConflict, FinalizeRefused,
       PublishingPhase, Claim, Verify, OffTarget, List, NothingToRefresh, UpdatePart,
       CreatePart, MarkPosted, MarkRefused, Supersede, Cleanup
<1>5. ASSUME NEW c \in Calls, Falter(c)
      PROVE  notices' \subseteq notices
  BY <1>5 DEF Falter, SnapshotFetchFails, PublishFails, PublishCrashes, SupersedeFails,
       CleanupFails, PostNoticeFails
<1>6. CASE \/ \E c \in Calls : BeginFetch(c) \/ EndTurn(c) \/ \E goal \in Goals : Work(c, goal)
           \/ ReaperFinds \/ ReaperMarks \/ (\E r \in Runs : Silence(r))
           \/ (\E snap \in Snapshots : Push(snap)) \/ Close \/ Restart
  BY <1>1, <1>6 DEF BeginFetch, EndTurn, Work, ReaperFinds, ReaperMarks, Silence, Push, Close,
       Restart, others
<1> QED
  BY <1>1, <1>2, <1>3, <1>4, <1>5, <1>6 DEF DeliveryNext

LEMMA SubjectsStay ==
    ASSUME DeliveryInv, DeliveryNext
    PROVE  subjects' \in Seq(Snapshots)
<1>0. subjects \in Seq(Snapshots)
  BY DEF DeliveryInv, SideInv
<1>1. CASE UNCHANGED subjects
  BY <1>0, <1>1
<1>2. ASSUME NEW c \in Calls, Record(c)
      PROVE  subjects' \in Seq(Snapshots)
  <2>1. calls[c].pull.snap \in Snapshots
    BY DEF DeliveryInv, PublicationInv, CallsFormed, Call, PullStates
  <2>2. \/ subjects' = subjects
        \/ subjects' = Append(subjects, calls[c].pull.snap)
    BY <1>2 DEF Record
  <2> QED
    BY <1>0, <2>1, <2>2
<1>3. ASSUME NEW c \in Calls, Proceed(c), ~Record(c)
      PROVE  UNCHANGED subjects
  BY <1>3 DEF Proceed, BeginReap, BeginFailStale, BeginDuplicate, BeginStart, BeginPhase,
       SnapshotFetch, SnapshotValidate, Finalize, FinalizeConflict, FinalizeRefused,
       PublishingPhase, Claim, Verify, OffTarget, List, NothingToRefresh, UpdatePart,
       CreatePart, MarkPosted, MarkRefused, Supersede, Cleanup, PostNotice
<1>4. ASSUME NEW c \in Calls, Falter(c)
      PROVE  UNCHANGED subjects
  BY <1>4 DEF Falter, SnapshotFetchFails, PublishFails, PublishCrashes, SupersedeFails,
       CleanupFails, PostNoticeFails
<1>5. CASE \/ \E c \in Calls : BeginFetch(c) \/ EndTurn(c) \/ \E goal \in Goals : Work(c, goal)
           \/ ReaperFinds \/ ReaperMarks \/ (\E r \in Runs : Silence(r) \/ ReaperPosts(r))
           \/ (\E snap \in Snapshots : Push(snap)) \/ Close \/ Restart
  BY <1>1, <1>5 DEF BeginFetch, EndTurn, Work, ReaperFinds, ReaperMarks, Silence, ReaperPosts,
       Push, Close, Restart, others
<1> QED
  BY <1>1, <1>2, <1>3, <1>4, <1>5 DEF DeliveryNext

LEMMA LeftStays ==
    ASSUME DeliveryInv, DeliveryNext
    PROVE  left' \in [{"push", "fault", "restart"} -> Nat]
<1>0. left \in [{"push", "fault", "restart"} -> Nat]
  BY DEF DeliveryInv, SideInv
<1>1. CASE UNCHANGED left
  BY <1>0, <1>1
<1>2. ASSUME NEW what \in {"push", "fault", "restart"}, Spend(what)
      PROVE  left' \in [{"push", "fault", "restart"} -> Nat]
  <2>1. left[what] \in Nat /\ left[what] > 0
    BY <1>0, <1>2 DEF Spend
  <2>2. left[what] - 1 \in Nat
    BY <2>1
  <2> QED
    BY <1>0, <1>2, <2>2 DEF Spend
<1>3. ASSUME NEW c \in Calls, Proceed(c)
      PROVE  UNCHANGED left \/ Spend("fault")
  BY <1>3 DEF Proceed, BeginReap, BeginFailStale, BeginDuplicate, BeginStart, BeginPhase,
       SnapshotFetch, SnapshotValidate, Record, Finalize, FinalizeConflict, FinalizeRefused,
       PublishingPhase, Claim, Verify, OffTarget, List, NothingToRefresh, UpdatePart,
       CreatePart, MarkPosted, MarkRefused, Supersede, Cleanup, PostNotice, PersistNotice
<1>4. ASSUME NEW c \in Calls, Falter(c)
      PROVE  Spend("fault")
  BY <1>4 DEF Falter, SnapshotFetchFails, PublishFails, PublishCrashes, SupersedeFails,
       CleanupFails, PostNoticeFails
<1>5. CASE \/ \E c \in Calls : BeginFetch(c) \/ EndTurn(c) \/ \E goal \in Goals : Work(c, goal)
           \/ ReaperFinds \/ ReaperMarks \/ (\E r \in Runs : Silence(r) \/ ReaperPosts(r))
  BY <1>1, <1>2, <1>5 DEF BeginFetch, EndTurn, Work, ReaperFinds, ReaperMarks, Silence,
       ReaperPosts, PersistNotice, others
<1>6. CASE (\E snap \in Snapshots : Push(snap)) \/ Close \/ Restart
  BY <1>2, <1>6 DEF Push, Close, Restart
<1> QED
  BY <1>1, <1>2, <1>3, <1>4, <1>5, <1>6 DEF DeliveryNext

LEMMA DeliveryInit_All == DeliveryInit => DeliveryInv
<1> SUFFICES ASSUME DeliveryInit PROVE DeliveryInv
  OBVIOUS
<1>1. RunsInv /\ CallsInv
  BY RunsInit_Inv, DeliveryInit_Inv DEF DeliveryInit
<1>2. NoPub \in PubRow
  BY RunsAssumption DEF NoPub, PubRow, DeliveryStatus
<1>3. /\ pubs = [r \in Runs |-> NoPub] /\ comments = <<>> /\ calls = [c \in Calls |-> Idle]
      /\ runs = [r \in Runs |-> NoRun]
  BY DEF DeliveryInit, RunsInit
<1>4. CallsFormed
  <2>1. /\ Idle \in Call
        /\ Formed(Idle, last, runs, pubs, comments)
    <3>1. Idle \in Call
      BY IdleFormed
    <3> QED
      BY <3>1 DEF Idle, Formed, Unowned, Sending, PublishSteps, Delivering
  <2> QED
    BY <1>3, <2>1 DEF CallsFormed
<1>5. RowsFormed
  <2>1. \A r \in Runs : RowFormed(NoPub, r, last, runs, comments)
    BY <1>3 DEF RowFormed, NoPub, NoRun
  <2> QED
    BY <1>2, <1>3, <2>1 DEF RowsFormed
<1>6. NumbersBounded
  <2>1. Cardinality(Made) \in Nat
    BY MadeCount DEF Made
  <2>2. \A r \in Runs : pubs[r].number = 0
    BY <1>3 DEF NoPub
  <2> QED
    BY <2>1, <2>2 DEF NumbersBounded
<1>7. SideInv
  BY DeliveryAssumption DEF DeliveryInit, SideInv, NoNoticeForRunningRun
<1> QED
  BY <1>1, <1>4, <1>5, <1>6, <1>7 DEF DeliveryInv, PublicationInv

LEMMA DeliveryNext_All == DeliveryInv /\ [DeliveryNext]_vars => DeliveryInv' /\ RunsGrow
<1> SUFFICES ASSUME DeliveryInv, [DeliveryNext]_vars PROVE DeliveryInv' /\ RunsGrow
  OBVIOUS
<1>1. RunsGrow /\ RunsInv' /\ CallsInv'
  BY EveryStepGrows, DeliveryNext_Step DEF DeliveryInv, RunsGrow
<1>2. CASE UNCHANGED vars
  <2>1. UNCHANGED runVars /\ UNCHANGED <<pubs, comments, calls>>
    BY <1>2 DEF vars, runVars
  <2>2. PublicationInv'
    BY <1>1, <2>1, NothingNew, OthersDoNotPost, QuietInv DEF DeliveryInv
  <2>3. SideInv'
    BY <1>2 DEF vars, DeliveryInv, SideInv, NoNoticeForRunningRun, Terminal
  <2> QED
    BY <1>1, <2>2, <2>3 DEF DeliveryInv
<1>3. CASE DeliveryNext
  <2>1. PublicationInv'
    BY <1>1, <1>3, StepKinds, StepInv
  <2>2. /\ "locked" \notin FaultPoints => NoNoticeForRunningRun'
        /\ notices' \subseteq Runs
    BY <1>1, <1>3, NoticeStays
       DEF DeliveryInv, SideInv, NoNoticeForRunningRun, RunsGrow, Terminal, Ended
  <2>3. SideInv'
    BY <1>3, <2>2, SubjectsStay, LeftStays DEF SideInv
  <2> QED
    BY <1>1, <2>1, <2>3 DEF DeliveryInv
<1> QED
  BY <1>2, <1>3

LEMMA DeliveryInvariant == DeliverySpec => []DeliveryInv
<1>1. DeliveryInit => DeliveryInv
  BY DeliveryInit_All
<1>2. DeliveryInv /\ [DeliveryNext]_vars => DeliveryInv'
  BY DeliveryNext_All
<1> QED
  BY <1>1, <1>2, PTL DEF DeliverySpec

\* Every row, call, comment and subject stays a value its column, session or
\* list on GitHub can have, whatever fails or restarts.
THEOREM DeliveryTypeCorrect == DeliverySpec => []DeliveryTypeOK
<1>1. DeliveryInv => DeliveryTypeOK
  BY DEF DeliveryInv, RunsInv, CallsInv, PublicationInv, CallsFormed, RowsFormed, Comment,
         SideInv, DeliveryTypeOK
<1> QED
  BY <1>1, DeliveryInvariant, PTL

\* Whoever posts a failure notice, a handler or the operator's command, does
\* so after the run's end, and the run never comes back, if the database never
\* refuses the write of _mark_run_failed.
THEOREM NoticesAreOfEndedRuns ==
    ASSUME "locked" \notin FaultPoints
    PROVE  DeliverySpec => []NoNoticeForRunningRun
<1>1. DeliveryInv => NoNoticeForRunningRun
  BY DEF DeliveryInv, SideInv
<1> QED
  BY <1>1, DeliveryInvariant, PTL

\* Whatever failed half way and whoever took over, a run the ledger calls
\* generated and a review it calls posted are on GitHub in full: the recorded
\* ids are the comments of the parts of that very run, in order.
THEOREM RecordedReviewsAreOnGitHub == DeliverySpec => []RecordedReviewIsOnGitHub
<1>1. DeliveryInv => RecordedReviewIsOnGitHub
  <2> SUFFICES ASSUME DeliveryInv, NEW r \in Runs, Posted(r) \/ runs[r].status = "generated"
               PROVE  /\ Len(pubs[r].ids) = Parts
                      /\ \A k \in 1..Parts :
                             comments[pubs[r].ids[k]] = [run |-> r, part |-> k]
    BY DEF RecordedReviewIsOnGitHub
  <2>1. RowFormed(pubs[r], r, last, runs, comments)
    BY DEF DeliveryInv, PublicationInv, RowsFormed
  <2> QED
    BY <2>1 DEF RowFormed, Posted, IsPart
<1> QED
  BY <1>1, DeliveryInvariant, PTL

-----------------------------------------------------------------------------
(* Who is at work on a review, and what it does to the table and to GitHub.  *)

\* A call that claimed its review and has not left the publisher.
HoldsAt(k) == k.pc \in Holding /\ ~k.already

Holds(c) == HoldsAt(calls[c])

Finishing == {"supersede", "cleanup"}

\* A call keeps its run, drops it, or takes a new one; it holds a review it
\* held before or claims now, and finishes what it marked.
MovesOn(c, k) ==
    /\ calls' = [calls EXCEPT ![c] = k]
    /\ \/ k.pc \in Unowned
       \/ ExtraSessions
       \/ k.run = last' /\ last' = last + 1
       \/ calls[c].pc \notin Unowned /\ k.run = calls[c].run
    /\ HoldsAt(k) => k.run = calls[c].run /\ (Holds(c) \/ Claiming(c))
    /\ k.pc \in Finishing => calls[c].pc \in Finishing \/ MarkPosted(c)
    /\ HoldsAt(k) /\ calls[c].pc \in Finishing => k.pc \in Finishing

LEMMA StepMoves ==
    ASSUME PublicationInv, RunsInv, NEW c \in Calls, StepOf(c)
    PROVE  \E k : MovesOn(c, k)
<1> USE DEF MovesOn, HoldsAt, Holds, Finishing
<1>0. calls[c] \in Call
  BY DEF PublicationInv, CallsFormed
<1>a. calls[c].pc \notin Unowned => Formed(calls[c], last, runs, pubs, comments)
  BY DEF PublicationInv, CallsFormed
<1>b. \A r : /\ Session(r).pc = "session" /\ Session(r).run = r
             /\ "session" \notin Holding \cup Finishing
  <2>1. Idle \in Call
    BY IdleFormed
  <2> QED
    BY <2>1 DEF Session, Call, Holding, PublishSteps, Idle
<1>1. CASE Turns(c)
  BY <1>1 DEF Turns, Progress, KeepsRun, AtWork, Holding
<1>2. ASSUME NEW step \in Steps, calls' = [calls EXCEPT ![c].pc = step],
             calls[c].pc \notin Unowned,
             step \in Holding => calls[c].pc \in Holding \/ Claiming(c) \/ calls[c].already,
             step \in Finishing => calls[c].pc \in Finishing \/ MarkPosted(c),
             calls[c].pc \in Finishing /\ step \in Holding => step \in Finishing
      PROVE  \E k : MovesOn(c, k)
  <2> DEFINE k == [calls[c] EXCEPT !.pc = step]
  <2>1. /\ calls' = [calls EXCEPT ![c] = k] /\ k.pc = step /\ k.run = calls[c].run
        /\ k.already = calls[c].already
    BY <1>0, <1>2 DEF Call
  <2>2. MovesOn(c, k)
    BY <1>2, <2>1
  <2> QED
    BY <2>2
<1>3. ASSUME calls[c].pc \notin Unowned, Become(c, Session(calls[c].run))
      PROVE  \E k : MovesOn(c, k)
  <2>1. MovesOn(c, Session(calls[c].run))
    BY <1>3, <1>b DEF Become
  <2> QED
    BY <2>1
<1>4. ASSUME NEW id, At(c, "post"), PartDone(c, id)
      PROVE  \E k : MovesOn(c, k)
  <2> DEFINE here == [calls[c] EXCEPT !.ids = Append(@, id)]
             marks == [calls[c] EXCEPT !.ids = Append(@, id), !.pc = "mark"]
  <2>0. /\ calls[c].pc = "post" /\ "post" \notin Unowned \cup Finishing
        /\ "mark" \notin Finishing /\ "post" \in Holding
    BY <1>4 DEF At, Unowned, Holding, PublishSteps
  <2>1. CASE calls' = [calls EXCEPT ![c] = here]
    <3>1. here.pc = "post" /\ here.run = calls[c].run /\ here.already = calls[c].already
      BY <1>0, <2>0 DEF Call
    <3>2. MovesOn(c, here)
      BY <2>0, <2>1, <3>1
    <3> QED
      BY <3>2
  <2>2. CASE calls' = [calls EXCEPT ![c] = marks]
    <3>1. marks.pc = "mark" /\ marks.run = calls[c].run /\ marks.already = calls[c].already
      BY <1>0 DEF Call
    <3>2. MovesOn(c, marks)
      BY <2>0, <2>2, <3>1
    <3> QED
      BY <3>2
  <2>3. CASE Become(c, Session(calls[c].run))
    BY <1>3, <2>0, <2>3
  <2> QED
    BY <1>4, <2>1, <2>2, <2>3 DEF PartDone
<1>5. CASE Reads(c)
  <2>1. CASE PublishingPhase(c) /\ Go(c, "claim")
    BY <1>2, <2>1 DEF PublishingPhase, At, Go, Steps, Unowned, Holding, PublishSteps
  <2>2. CASE Claim(c) /\ calls' = [calls EXCEPT ![c].pc = "verify", ![c].already = TRUE]
    <3> DEFINE k == [calls[c] EXCEPT !.pc = "verify", !.already = TRUE]
    <3>1. /\ calls' = [calls EXCEPT ![c] = k] /\ k.pc = "verify" /\ k.run = calls[c].run
          /\ k.already /\ calls[c].pc = "claim"
      BY <1>0, <2>2 DEF Call, Claim, At
    <3>2. MovesOn(c, k)
      BY <3>1 DEF Unowned
    <3> QED
      BY <3>2
  <2>3. CASE Verify(c, "verify", "list") \/ Verify(c, "reverify", "post")
    BY <1>2, <2>3 DEF Verify, At, Go, Steps, Unowned, Holding, PublishSteps
  <2>4. CASE List(c)
    <3> DEFINE n == Min({Len(comments), Window})
               k == [calls[c] EXCEPT !.pc = "reverify", !.listed = n]
    <3> HIDE DEF n
    <3>1. /\ calls' = [calls EXCEPT ![c] = k] /\ k.pc = "reverify" /\ k.run = calls[c].run
          /\ k.already = calls[c].already /\ calls[c].pc = "list"
      BY <1>0, <2>4 DEF Call, List, At, n
    <3>2. MovesOn(c, k)
      BY <3>1 DEF Unowned, Holding, PublishSteps
    <3> QED
      BY <3>2
  <2>5. CASE UpdatePart(c)
    BY <1>4, <2>5 DEF UpdatePart, Posting
  <2> QED
    BY <1>5, <2>1, <2>2, <2>3, <2>4, <2>5 DEF Reads
<1>6. CASE Claiming(c)
  BY <1>2, <1>6 DEF Claiming, Claim, At, Go, Steps, Unowned, Holding, PublishSteps
<1>7. CASE CreatePart(c)
  BY <1>4, <1>7 DEF CreatePart, Posting
<1>8. CASE Fails(c)
  BY <1>3, <1>8 DEF Fails, OffTarget, PublishFails, PublishGivesUp, At, Unowned, PublishSteps
<1>9. CASE Renders(c)
  <2> DEFINE k == [calls[c] EXCEPT !.pc = "phase", !.pull = AnyPull]
  <2>1. /\ calls' = [calls EXCEPT ![c] = k] /\ k.pc = "phase" /\ k.run = calls[c].run
        /\ calls[c].pc = "finalize"
    BY <1>0, <1>9 DEF Call, Renders, Finalize, At
  <2>2. MovesOn(c, k)
    BY <2>1 DEF Unowned, Holding, PublishSteps
  <2> QED
    BY <2>2
<1>10. CASE MarkPosted(c)
  <2>1. calls[c].pc = "mark" /\ calls[c].pc \notin Unowned /\ calls[c].pc \in Holding
    BY <1>10 DEF MarkPosted, At, Unowned, Holding
  <2>2. \E step \in {"supersede", "cleanup"} : calls' = [calls EXCEPT ![c].pc = step]
    BY <1>10 DEF MarkPosted, Go
  <2> QED
    BY <1>2, <1>10, <2>1, <2>2 DEF Steps
<1>11. CASE Rewrites(c)
  BY <1>2, <1>11 DEF Rewrites, Supersede, SupersedeFails, At, Go, Steps, Unowned, Holding
<1>12. CASE CleanupFails(c)
  BY <1>3, <1>12 DEF CleanupFails, At, Unowned
<1>13. CASE BeginFailStale(c)
  <2> DEFINE k == [calls[c] EXCEPT !.pc = "begin_start", !.stale = {}]
  <2>1. calls' = [calls EXCEPT ![c] = k] /\ k.pc = "begin_start"
    BY <1>0, <1>13 DEF Call, BeginFailStale
  <2>2. MovesOn(c, k)
    BY <2>1 DEF Unowned, Holding, PublishSteps
  <2> QED
    BY <2>2
<1> QED
  BY <1>1, <1>5, <1>6, <1>7, <1>8, <1>9, <1>10, <1>11, <1>12, <1>13 DEF StepOf

\* How the status of a review changes in a step of call c.
LEMMA StatusSteps ==
    ASSUME PublicationInv, RunsInv, subjects \in Seq(Snapshots), NEW c \in Calls, StepOf(c),
           NEW r \in Runs, pubs'[r].status # pubs[r].status
    PROVE  \/ /\ r = calls[c].run /\ Claiming(c)
              /\ pubs[r].status \in ReadyToPost /\ pubs'[r].status = "posting"
           \/ /\ r = calls[c].run /\ Holds(c) /\ calls' = [calls EXCEPT ![c] = Session(r)]
              /\ CleanupFails(c) \/ calls[c].pc \in PublishSteps
              /\ pubs'[r].status \in Released
           \/ r = calls[c].run /\ Renders(c) /\ Rendered(r)
           \/ r = calls[c].run /\ MarkPosted(c) /\ pubs'[r].status = "posted"
           \/ /\ BeginFailStale(c) /\ r \in calls[c].stale
              /\ pubs[r].status = "posting" /\ pubs'[r].status = "publish_failed"
<1>0. /\ pubs \in [Runs -> PubRow] /\ calls[c] \in Call
      /\ Formed(calls[c], last, runs, pubs, comments)
  BY DEF PublicationInv, RowsFormed, CallsFormed
<1>1. CASE Turns(c) \/ Reads(c) \/ CreatePart(c)
  <2>1. UNCHANGED pubs
    BY <1>1 DEF Turns, Reads, PublishingPhase, Verify, List, UpdatePart, CreatePart
  <2> QED
    BY <2>1
<1>2. CASE Claiming(c)
  BY <1>0, <1>2 DEF Claiming, OneStatus, PubRow
<1>3. CASE Fails(c)
  <2>1. /\ calls[c].pc \in PublishSteps /\ calls' = [calls EXCEPT ![c] = Session(calls[c].run)]
        /\ \E status \in Released : \E code : PublishGivesUp(c, status, code)
    BY <1>3 DEF Fails, OffTarget, PublishFails, PublishGivesUp, Become, At, PublishSteps, Released
  <2>2. PICK status \in Released : ~calls[c].already /\ OneStatus(calls[c].run, status)
    BY <2>1 DEF PublishGivesUp, MarkFailed, OneStatus
  <2>3. r = calls[c].run /\ pubs'[r].status = status
    BY <1>0, <2>2 DEF OneStatus, PubRow
  <2> QED
    BY <2>1, <2>2, <2>3 DEF Holds, HoldsAt, Holding
<1>4. CASE Renders(c)
  <2>1. calls[c].run \in Runs
    BY <1>4, OwnedFormed DEF Renders, Finalize, At, Unowned
  <2>2. Rendered(calls[c].run)
    BY <1>4, <2>1, RendersRow
  <2> QED
    BY <1>4, <2>1, <2>2 DEF Rendered
<1>5. CASE MarkPosted(c)
  BY <1>5, MarkPostedRow DEF Marked
<1>6. CASE Rewrites(c)
  <2>1. CASE UNCHANGED pubs
    BY <2>1
  <2>2. ASSUME NEW old, NEW h \in {"rendered", "failed"},
               pubs' = [pubs EXCEPT ![old].history = h]
        PROVE  FALSE
    BY <2>2, HistoryKept DEF ReviewsKept
  <2> QED
    BY <1>6, <2>1, <2>2 DEF Rewrites, Supersede, SupersedeFails
<1>7. CASE CleanupFails(c)
  <2>1. /\ calls[c].pc = "cleanup" /\ calls' = [calls EXCEPT ![c] = Session(calls[c].run)]
        /\ OneStatus(calls[c].run, "publish_failed")
    BY <1>7 DEF CleanupFails, At, Become, OneStatus
  <2>2. r = calls[c].run /\ pubs'[r].status = "publish_failed"
    BY <1>0, <2>1 DEF OneStatus, PubRow
  <2>3. ~calls[c].already
    BY <1>0, <2>1 DEF Formed, PublishSteps
  <2> QED
    BY <1>7, <2>1, <2>2, <2>3 DEF Holds, HoldsAt, Holding, Released
<1>8. CASE BeginFailStale(c)
  <2>1. pubs' = [q \in Runs |-> IF q \in calls[c].stale /\ pubs[q].status = "posting"
                                THEN [pubs[q] EXCEPT !.status = "publish_failed"]
                                ELSE pubs[q]]
    BY <1>8 DEF BeginFailStale, ReapStale
  <2> QED
    BY <1>0, <1>8, <2>1 DEF PubRow
<1> QED
  BY <1>1, <1>2, <1>3, <1>4, <1>5, <1>6, <1>7, <1>8 DEF StepOf

\* Unless runs may pass the stale cutoff, nobody ever finds one that did.
NoneStale ==
    /\ reaper = {}
    /\ \A r \in Runs : ~runs[r].stale
    /\ \A c \in Calls : calls[c].stale = {}

\* The stale runs a call knows are those it knew or finds now.
FindsStale(c) ==
    \E k : /\ calls' = [calls EXCEPT ![c] = k]
           /\ k.stale \in {{}, calls[c].stale, StaleRuns}

LEMMA GoFinds ==
    ASSUME NEW c \in Calls, calls[c] \in Call, NEW step, Go(c, step)
    PROVE  FindsStale(c)
<1> DEFINE k == [calls[c] EXCEPT !.pc = step]
<1>1. k.stale = calls[c].stale /\ calls' = [calls EXCEPT ![c] = k]
  BY DEF Call, Go
<1> QED
  BY <1>1 DEF FindsStale

LEMMA LeavesFinds ==
    ASSUME NEW c \in Calls, Become(c, Idle) \/ \E r : Become(c, Session(r))
    PROVE  FindsStale(c)
<1>1. Idle.stale = {} /\ \A r : Session(r).stale = {}
  BY IdleFormed DEF Idle, Session, Call
<1>2. CASE Become(c, Idle)
  BY <1>1, <1>2 DEF Become, FindsStale
<1>3. ASSUME NEW r, Become(c, Session(r))
      PROVE  FindsStale(c)
  BY <1>1, <1>3 DEF Become, FindsStale
<1> QED
  BY <1>2, <1>3

LEMMA ErrorFinds ==
    ASSUME NEW c \in Calls, calls[c] \in Call,
           LostRun(c) \/ \E code : HandlerError(c, code)
    PROVE  FindsStale(c)
BY GoFinds, LeavesFinds DEF LostRun, HandlerError

LEMMA CallFinds ==
    ASSUME NEW c \in Calls, calls[c] \in Call,
           BeginFetch(c) \/ EndTurn(c) \/ (\E goal \in Goals : Work(c, goal))
             \/ Proceed(c) \/ Falter(c)
    PROVE  FindsStale(c)
<1>1. CASE BeginFetch(c)
  <2> DEFINE k == [Idle EXCEPT !.pc = "begin_reap", !.pull = pr, !.goal = "collecting_diff"]
  <2>1. k.stale = {} /\ calls' = [calls EXCEPT ![c] = k]
    BY <1>1, IdleFormed DEF BeginFetch, Become, Call, Idle
  <2> QED
    BY <2>1 DEF FindsStale
<1>2. ASSUME NEW goal \in Goals, Work(c, goal)
      PROVE  FindsStale(c)
  <2> DEFINE k == [calls[c] EXCEPT !.pc = "fetch", !.goal = goal]
  <2>1. k.stale = calls[c].stale /\ calls' = [calls EXCEPT ![c] = k]
    BY <1>2 DEF Work, Call
  <2> QED
    BY <2>1 DEF FindsStale
<1>3. CASE BeginReap(c)
  <2> DEFINE step == IF StaleRuns = {} THEN "begin_start" ELSE "begin_fail"
             k == [calls[c] EXCEPT !.pc = step, !.stale = StaleRuns]
  <2>1. k.stale = StaleRuns /\ calls' = [calls EXCEPT ![c] = k]
    BY <1>3 DEF BeginReap, Call
  <2> QED
    BY <2>1 DEF FindsStale
<1>4. CASE BeginFailStale(c)
  <2> DEFINE k == [calls[c] EXCEPT !.pc = "begin_start", !.stale = {}]
  <2>1. k.stale = {} /\ calls' = [calls EXCEPT ![c] = k]
    BY <1>4 DEF BeginFailStale, Call
  <2> QED
    BY <2>1 DEF FindsStale
<1>5. CASE BeginStart(c)
  <2> DEFINE k == [calls[c] EXCEPT !.pc = "begin_phase", !.run = last + 1]
  <2>1. k.stale = calls[c].stale /\ calls' = [calls EXCEPT ![c] = k]
    BY <1>5 DEF BeginStart, Call
  <2> QED
    BY <2>1 DEF FindsStale
<1>6. CASE SnapshotFetch(c) \/ SnapshotFetchFails(c)
  <2> DEFINE k == [calls[c] EXCEPT !.pc = "validate", !.pull = pr]
  <2>1. CASE calls' = [calls EXCEPT ![c].pc = "validate", ![c].pull = pr]
    <3>1. k.stale = calls[c].stale /\ calls' = [calls EXCEPT ![c] = k]
      BY <2>1 DEF Call
    <3> QED
      BY <3>1 DEF FindsStale
  <2> QED
    BY <1>6, <2>1, ErrorFinds DEF SnapshotFetch, SnapshotFetchFails
<1>7. CASE SnapshotValidate(c)
  <2> DEFINE k == [calls[c] EXCEPT !.pc = "notice", !.terminal = TRUE]
  <2>1. CASE calls' = [calls EXCEPT ![c].pc = "notice", ![c].terminal = TRUE]
    <3>1. k.stale = calls[c].stale /\ calls' = [calls EXCEPT ![c] = k]
      BY <2>1 DEF Call
    <3> QED
      BY <3>1 DEF FindsStale
  <2> QED
    BY <1>7, <2>1, ErrorFinds, GoFinds, LeavesFinds DEF SnapshotValidate
<1>8. CASE Finalize(c)
  <2> DEFINE k == [calls[c] EXCEPT !.pc = "phase", !.pull = AnyPull]
  <2>1. k.stale = calls[c].stale /\ calls' = [calls EXCEPT ![c] = k]
    BY <1>8 DEF Finalize, Call
  <2> QED
    BY <2>1 DEF FindsStale
<1>9. CASE Claim(c)
  <2> DEFINE k == [calls[c] EXCEPT !.pc = "verify", !.already = TRUE]
  <2>1. CASE calls' = [calls EXCEPT ![c].pc = "verify", ![c].already = TRUE]
    <3>1. k.stale = calls[c].stale /\ calls' = [calls EXCEPT ![c] = k]
      BY <2>1 DEF Call
    <3> QED
      BY <3>1 DEF FindsStale
  <2> QED
    BY <1>9, <2>1, ErrorFinds, GoFinds DEF Claim
<1>10. CASE List(c)
  <2> DEFINE n == Min({Len(comments), Window})
             k == [calls[c] EXCEPT !.pc = "reverify", !.listed = n]
  <2> HIDE DEF n
  <2>1. k.stale = calls[c].stale /\ calls' = [calls EXCEPT ![c] = k]
    BY <1>10 DEF List, Call, n
  <2> QED
    BY <2>1 DEF FindsStale
<1>11. CASE UpdatePart(c) \/ CreatePart(c)
  <2>1. PICK id : PartDone(c, id)
    BY <1>11 DEF UpdatePart, CreatePart
  <2> DEFINE here == [calls[c] EXCEPT !.ids = Append(@, id)]
             marks == [calls[c] EXCEPT !.ids = Append(@, id), !.pc = "mark"]
  <2>2. here.stale = calls[c].stale /\ marks.stale = calls[c].stale
    BY DEF Call
  <2>3. \/ calls' = [calls EXCEPT ![c] = here] \/ calls' = [calls EXCEPT ![c] = marks]
        \/ Become(c, Session(calls[c].run))
    BY <2>1 DEF PartDone
  <2> QED
    BY <2>2, <2>3, LeavesFinds DEF FindsStale
<1>12. CASE BeginDuplicate(c) \/ EndTurn(c) \/ Record(c) \/ FinalizeConflict(c) \/ OffTarget(c)
            \/ NothingToRefresh(c) \/ Cleanup(c) \/ PostNotice(c) \/ PublishFails(c)
            \/ CleanupFails(c) \/ PostNoticeFails(c)
  BY <1>12, LeavesFinds
     DEF BeginDuplicate, EndTurn, Record, FinalizeConflict, OffTarget, PublishGivesUp,
         NothingToRefresh, Cleanup, PostNotice, PublishFails, CleanupFails, PostNoticeFails,
         AfterNotice
<1>13. CASE BeginPhase(c) \/ FinalizeRefused(c) \/ PublishingPhase(c) \/ MarkRefused(c)
            \/ PublishCrashes(c)
  BY <1>13, ErrorFinds, GoFinds
     DEF BeginPhase, FinalizeRefused, PublishingPhase, MarkRefused, PublishCrashes
<1>14. CASE Verify(c, "verify", "list") \/ Verify(c, "reverify", "post") \/ MarkPosted(c)
            \/ Supersede(c) \/ SupersedeFails(c)
  BY <1>14, GoFinds DEF Verify, MarkPosted, Supersede, SupersedeFails
<1> QED
  BY <1>1, <1>2, <1>3, <1>4, <1>5, <1>6, <1>7, <1>8, <1>9, <1>10, <1>11, <1>12, <1>13, <1>14
     DEF Proceed, Falter

LEMMA CallNotPosting ==
    ASSUME PublicationInv, RunsGrow, NEW c \in Calls, StepOf(c), ~MarkPosted(c)
    PROVE  NotPosting
<1>0. RunsInv
  BY DEF RunsGrow
<1>1. CASE UNCHANGED runVars
  BY <1>0, <1>1, OthersDoNotPost
<1>2. CASE Turns(c) \/ Reads(c)
  BY <1>2, ReadsProgress DEF Turns
<1>3. CASE Fails(c)
  <2>1. calls[c].pc \notin Unowned
    BY <1>3 DEF Fails, OffTarget, PublishFails, At, Unowned, PublishSteps
  <2>2. calls[c].run \in Runs
    BY <1>0, <2>1, OwnedFormed
  <2>3. \/ UNCHANGED runVars
        \/ \E code \in FailureCodes : FailRun(calls[c].run, code)
    BY <1>3 DEF Fails, OffTarget, PublishFails, PublishGivesUp, MarkFailed, FailureCodes
  <2> QED
    BY <1>0, <2>2, <2>3, OthersDoNotPost
<1>4. CASE CleanupFails(c)
  BY <1>0, <1>4, OthersDoNotPost DEF CleanupFails
<1>5. CASE BeginFailStale(c)
  <2>1. calls[c].stale \in SUBSET Runs
    BY DEF PublicationInv, CallsFormed, Call
  <2> QED
    BY <1>5, <2>1, ReapStays DEF BeginFailStale
<1>6. CASE Claiming(c) \/ CreatePart(c) \/ Renders(c) \/ Rewrites(c)
  BY <1>1, <1>6 DEF Claiming, CreatePart, Renders, Finalize, Rewrites, Supersede, SupersedeFails
<1> QED
  BY <1>2, <1>3, <1>4, <1>5, <1>6 DEF StepOf

LEMMA NoneTurnsStale ==
    ASSUME DeliveryInv, RunsGrow, StepOfNone \/ \E c \in Calls : StepOf(c), ~Ageing, NoneStale
    PROVE  \A r \in Runs : ~runs'[r].stale
<1>0. /\ runs \in [Runs -> RunRow] /\ \A r \in Runs : ~runs[r].stale
      /\ PublicationInv /\ RunsInv
  BY DEF DeliveryInv, RunsInv, RunsTypeOK, NoneStale
<1>1. CASE NotPosting
  BY <1>0, <1>1 DEF NotPosting
<1>2. ASSUME NEW c \in Calls, MarkPosted(c)
      PROVE  \A r \in Runs : ~runs'[r].stale
  <2>1. PostRun(calls[c].run)
    BY <1>2 DEF MarkPosted
  <2> QED
    BY <1>0, <2>1 DEF PostRun, RunRow
<1>3. CASE Elsewhere
  BY <1>0, <1>1, <1>3, ElsewhereQuiet
<1>4. CASE Restart
  BY <1>0, <1>4 DEF Restart, runVars
<1>5. CASE ReaperMarks
  BY <1>5 DEF ReaperMarks, NoneStale
<1> QED
  BY <1>0, <1>1, <1>2, <1>3, <1>4, <1>5, CallNotPosting DEF StepOfNone

LEMMA NoneStaleNext ==
    ASSUME DeliveryInv, RunsGrow, DeliveryNext, ~Ageing, NoneStale
    PROVE  NoneStale'
<1>0. \A c \in Calls : calls[c] \in Call
  BY DEF DeliveryInv, PublicationInv, CallsFormed
<1>1. \A r \in Runs : ~runs'[r].stale
  BY StepKinds, NoneTurnsStale
<1>2. StaleRuns = {}
  BY DEF StaleRuns, NoneStale
<1>3. ASSUME NEW c \in Calls, FindsStale(c)
      PROVE  \A d \in Calls : calls'[d].stale = {}
  <2>1. PICK k : calls' = [calls EXCEPT ![c] = k] /\ k.stale \in {{}, calls[c].stale, StaleRuns}
    BY <1>3 DEF FindsStale
  <2>2. calls \in [Calls -> Call]
    BY DEF DeliveryInv, PublicationInv, CallsFormed
  <2> QED
    BY <1>2, <2>1, <2>2 DEF NoneStale
<1>4. ASSUME NEW c \in Calls,
             BeginFetch(c) \/ EndTurn(c) \/ (\E goal \in Goals : Work(c, goal))
               \/ Proceed(c) \/ Falter(c)
      PROVE  NoneStale'
  <2>1. UNCHANGED reaper
    <3>1. CASE Proceed(c)
      BY <3>1 DEF Proceed, BeginReap, BeginFailStale, BeginDuplicate, BeginStart, BeginPhase,
         SnapshotFetch, SnapshotValidate, Record, Finalize, FinalizeConflict, FinalizeRefused,
         PublishingPhase, Claim, Verify, OffTarget, List, NothingToRefresh, UpdatePart,
         CreatePart, MarkPosted, MarkRefused, Supersede, Cleanup, PostNotice
    <3>2. CASE Falter(c)
      BY <3>2 DEF Falter, SnapshotFetchFails, PublishFails, PublishCrashes, SupersedeFails,
         CleanupFails, PostNoticeFails
    <3> QED
      BY <1>4, <3>1, <3>2 DEF BeginFetch, EndTurn, Work
  <2>2. \A d \in Calls : calls'[d].stale = {}
    BY <1>0, <1>3, <1>4, CallFinds
  <2> QED
    BY <1>1, <2>1, <2>2 DEF NoneStale
<1>5. CASE ReaperFinds \/ ReaperMarks
  BY <1>2, <1>5 DEF ReaperFinds, ReaperMarks, NoneStale
<1>6. CASE \/ (\E r \in Runs : ReaperPosts(r) \/ Silence(r))
           \/ (\E snap \in Snapshots : Push(snap)) \/ Close
  BY <1>1, <1>6 DEF ReaperPosts, Silence, others, Push, Close, NoneStale
<1>7. CASE Restart
  BY <1>1, <1>7, IdleFormed DEF Restart, NoneStale, Idle
<1> QED
  BY <1>4, <1>5, <1>6, <1>7 DEF DeliveryNext

-----------------------------------------------------------------------------
(* Exclusive claims.  Two calls of one run may only work on its review at a  *)
(* time if a session told "duplicate" goes on with the run and a claim is    *)
(* released by the clock; the theorems below say which of the two is         *)
(* excluded.                                                                 *)

\* No two calls have one run.
OneSessionPerRun ==
    \A c, d \in Calls :
        c # d /\ calls[c].pc \notin Unowned /\ calls[d].pc \notin Unowned =>
            calls[c].run # calls[d].run

OneHolder ==
    \A c, d \in Calls :
        c # d /\ calls[c].run = calls[d].run => ~(Holds(c) /\ Holds(d))

\* The status says that a review is held.
HeldStatus ==
    \A c \in Calls :
        Holds(c) => pubs[calls[c].run].status =
                        IF calls[c].pc \in Finishing THEN "posted" ELSE "posting"

ClaimInv ==
    /\ ~ExtraSessions => OneSessionPerRun
    /\ ~Ageing => NoneStale /\ HeldStatus
    /\ ~(ExtraSessions /\ Ageing) => OneHolder

LEMMA OneSessionStep ==
    ASSUME DeliveryInv, RunsGrow, StepOfNone \/ \E c \in Calls : StepOf(c), ~ExtraSessions,
           OneSessionPerRun
    PROVE  OneSessionPerRun'
<1>0. /\ PublicationInv /\ RunsInv /\ calls \in [Calls -> Call] /\ last \in Nat
  BY RunsAssumption DEF DeliveryInv, PublicationInv, CallsFormed, RunsInv, RunsTypeOK
<1>1. ASSUME NEW c \in Calls, StepOf(c)
      PROVE  OneSessionPerRun'
  <2>1. PICK k : MovesOn(c, k)
    BY <1>0, <1>1, StepMoves
  <2>2. \A d \in Calls : calls[d].pc \notin Unowned => calls[d].run <= last /\ calls[d].run \in Nat
    BY <1>0, OwnedFormed
  <2>3. ASSUME NEW d \in Calls, d # c, k.pc \notin Unowned, calls[d].pc \notin Unowned
        PROVE  k.run # calls[d].run
    BY <1>0, <2>1, <2>2, <2>3 DEF MovesOn, OneSessionPerRun
  <2>4. calls'[c] = k /\ \A d \in Calls : d # c => calls'[d] = calls[d]
    BY <1>0, <2>1 DEF MovesOn
  <2> QED
    BY <2>3, <2>4 DEF OneSessionPerRun
<1>2. CASE UNCHANGED calls
  BY <1>2 DEF OneSessionPerRun
<1>3. CASE Restart
  BY <1>3, IdleFormed DEF Restart, OneSessionPerRun, Unowned
<1> QED
  BY <1>0, <1>1, <1>2, <1>3, ElsewhereQuiet DEF StepOfNone, ReaperMarks

LEMMA HeldStep ==
    ASSUME DeliveryInv, RunsGrow, StepOfNone \/ \E c \in Calls : StepOf(c), ~Ageing,
           NoneStale, HeldStatus, OneHolder
    PROVE  HeldStatus' /\ OneHolder'
<1>0. /\ PublicationInv /\ RunsInv /\ calls \in [Calls -> Call] /\ subjects \in Seq(Snapshots)
      /\ "posting" \notin ReadyToPost /\ "posted" \notin ReadyToPost
      /\ "posting" # "posted" /\ "none" \notin {"posting", "posted"}
  BY DEF DeliveryInv, PublicationInv, CallsFormed, SideInv, ReadyToPost
<1>a. \A c \in Calls : Holds(c) => /\ calls[c].run \in Runs
                                   /\ pubs[calls[c].run].status \in {"posting", "posted"}
  BY <1>0, OwnedFormed DEF Holds, HoldsAt, Holding, PublishSteps, Unowned, HeldStatus
<1>1. ASSUME NEW c \in Calls, StepOf(c)
      PROVE  HeldStatus' /\ OneHolder'
  <2>1. PICK k : MovesOn(c, k)
    BY <1>0, <1>1, StepMoves
  <2>2. calls'[c] = k /\ \A d \in Calls : d # c => calls'[d] = calls[d]
    BY <1>0, <2>1 DEF MovesOn
  <2>3. ASSUME NEW d \in Calls, d # c, HoldsAt(k), Holds(d), k.run = calls[d].run
        PROVE  FALSE
    <3>1. CASE Holds(c)
      BY <2>1, <2>3, <3>1 DEF MovesOn, OneHolder
    <3>2. CASE Claiming(c)
      BY <1>0, <1>a, <2>1, <2>3, <3>2 DEF MovesOn, Claiming
    <3> QED
      BY <2>1, <2>3, <3>1, <3>2 DEF MovesOn
  <2>4. OneHolder'
    BY <2>2, <2>3 DEF OneHolder, Holds
  <2>5. ASSUME NEW d \in Calls, d # c, Holds(d)
        PROVE  pubs'[calls[d].run].status = pubs[calls[d].run].status
    <3> DEFINE r == calls[d].run
    <3>1. /\ r \in Runs /\ pubs[r].status \in {"posting", "posted"}
          /\ ~(Holds(c) /\ r = calls[c].run)
      BY <1>a, <2>5 DEF OneHolder
    <3>2. MarkPosted(c) => Holds(c)
      BY <1>0, OwnedFormed DEF MarkPosted, At, Unowned, Formed, PublishSteps, Holds, HoldsAt, Holding
    <3>3. calls[c].stale = {}
      BY DEF NoneStale
    <3> SUFFICES ASSUME pubs'[r].status # pubs[r].status PROVE FALSE
      OBVIOUS
    <3> QED
      BY <1>0, <1>1, <3>1, <3>2, <3>3, StatusSteps DEF Rendered
  <2>6. ASSUME HoldsAt(k)
        PROVE  pubs'[k.run].status = IF k.pc \in Finishing THEN "posted" ELSE "posting"
    <3> DEFINE r == calls[c].run
    <3>1. k.run = r /\ (Holds(c) \/ Claiming(c))
      BY <2>1, <2>6 DEF MovesOn
    <3>2. CASE Claiming(c)
      <4>1. calls[c].pc = "claim" /\ OneStatus(r, "posting")
        BY <3>2 DEF Claiming, Claim, At
      <4>2. k.pc \notin Finishing
        BY <2>1, <4>1 DEF MovesOn, MarkPosted, At, Finishing
      <4>3. r \in Runs
        BY <1>0, <4>1, OwnedFormed DEF Unowned
      <4>4. pubs'[r].status = "posting"
        BY <1>0, <4>1, <4>3 DEF OneStatus, PublicationInv, RowsFormed, PubRow
      <4> QED
        BY <3>1, <4>2, <4>4
    <3>3. CASE Holds(c) /\ MarkPosted(c)
      <4>1. Marked(r, calls[c].ids) /\ calls[c] \in Call
        BY <1>0, <3>3, MarkPostedRow
      <4>2. \E step \in Finishing : calls' = [calls EXCEPT ![c] = [calls[c] EXCEPT !.pc = step]]
        BY <3>3 DEF MarkPosted, Go, Finishing
      <4>3. k.pc \in Finishing
        BY <1>0, <2>2, <4>1, <4>2 DEF Call
      <4> QED
        BY <3>1, <4>1, <4>3 DEF Marked
    <3>4. CASE Holds(c) /\ ~MarkPosted(c) /\ ~Claiming(c)
      <4>1. k.pc \in Finishing <=> calls[c].pc \in Finishing
        BY <2>1, <2>6, <3>4 DEF MovesOn
      <4>2. pubs'[r].status = pubs[r].status
        <5>1. r \in Runs /\ Session(r).pc = "session" /\ "session" \notin Holding
          BY <1>a, <3>4, IdleFormed DEF Session, Call, Holding, PublishSteps, Idle
        <5>2. calls' # [calls EXCEPT ![c] = Session(r)]
          BY <1>0, <2>2, <2>6, <5>1 DEF HoldsAt
        <5>3. calls[c].pc \in Holding /\ ~BeginFailStale(c) /\ ~Renders(c)
          BY <3>4 DEF Holds, HoldsAt, Holding, PublishSteps, BeginFailStale, Renders, Finalize, At
        <5> QED
          BY <1>0, <1>1, <3>4, <5>1, <5>2, <5>3, StatusSteps
      <4> QED
        BY <3>1, <3>4, <4>1, <4>2 DEF HeldStatus
    <3> QED
      BY <3>1, <3>2, <3>3, <3>4
  <2>7. HeldStatus'
    <3> SUFFICES ASSUME NEW d \in Calls, HoldsAt(calls'[d])
                 PROVE  pubs'[calls'[d].run].status =
                            IF calls'[d].pc \in Finishing THEN "posted" ELSE "posting"
      BY DEF HeldStatus, Holds
    <3>1. CASE d = c
      BY <2>2, <2>6, <3>1
    <3>2. CASE d # c
      BY <2>2, <2>5, <3>2 DEF HeldStatus, Holds
    <3> QED
      BY <3>1, <3>2
  <2> QED
    BY <2>4, <2>7
<1>2. CASE Elsewhere
  BY <1>0, <1>2, ElsewhereQuiet DEF HeldStatus, OneHolder, Holds
<1>3. CASE Restart
  <2>1. \A d \in Calls : ~HoldsAt(calls'[d])
    BY <1>3, IdleFormed DEF Restart, HoldsAt, Holding, PublishSteps
  <2> QED
    BY <2>1 DEF HeldStatus, OneHolder, Holds
<1>4. CASE ReaperMarks
  BY <1>4 DEF ReaperMarks, NoneStale
<1> QED
  BY <1>1, <1>2, <1>3, <1>4 DEF StepOfNone

LEMMA ClaimInit == DeliveryInit => ClaimInv
<1> SUFFICES ASSUME DeliveryInit PROVE ClaimInv
  OBVIOUS
<1>1. \A c \in Calls : calls[c] = Idle /\ calls[c].pc \in Unowned /\ ~Holds(c)
                       /\ calls[c].stale = {}
  BY DEF DeliveryInit, Idle, Unowned, Holds, HoldsAt, Holding, PublishSteps
<1>2. reaper = {} /\ \A r \in Runs : ~runs[r].stale
  BY DEF DeliveryInit, RunsInit, NoRun
<1> QED
  BY <1>1, <1>2 DEF ClaimInv, OneSessionPerRun, OneHolder, HeldStatus, NoneStale

LEMMA ClaimNext == DeliveryInv /\ ClaimInv /\ [DeliveryNext]_vars => ClaimInv'
<1> SUFFICES ASSUME DeliveryInv, ClaimInv, [DeliveryNext]_vars PROVE ClaimInv'
  OBVIOUS
<1>1. CASE UNCHANGED vars
  BY <1>1 DEF vars, ClaimInv, OneSessionPerRun, OneHolder, HeldStatus, NoneStale, Holds
<1>2. CASE DeliveryNext
  <2>1. RunsGrow /\ (StepOfNone \/ \E c \in Calls : StepOf(c))
    BY <1>2, DeliveryNext_All, StepKinds
  <2>2. CASE ~ExtraSessions
    <3>1. OneSessionPerRun'
      BY <2>1, <2>2, OneSessionStep DEF ClaimInv
    <3>2. OneHolder'
      BY <3>1 DEF OneSessionPerRun, OneHolder, Holds, HoldsAt, Holding, PublishSteps, Unowned
    <3>3. ~Ageing => NoneStale' /\ HeldStatus'
      BY <1>2, <2>1, <2>2, NoneStaleNext, HeldStep DEF ClaimInv
    <3> QED
      BY <3>1, <3>2, <3>3 DEF ClaimInv
  <2>3. CASE ExtraSessions /\ ~Ageing
    BY <1>2, <2>1, <2>3, NoneStaleNext, HeldStep DEF ClaimInv
  <2>4. CASE ExtraSessions /\ Ageing
    BY <2>4 DEF ClaimInv
  <2> QED
    BY <2>2, <2>3, <2>4, DeliveryAssumption
<1> QED
  BY <1>1, <1>2

LEMMA ClaimInvariant == DeliverySpec => [](DeliveryInv /\ ClaimInv)
<1>1. DeliveryInit => DeliveryInv /\ ClaimInv
  BY DeliveryInit_All, ClaimInit
<1>2. DeliveryInv /\ ClaimInv /\ [DeliveryNext]_vars => (DeliveryInv /\ ClaimInv)'
  BY DeliveryNext_All, ClaimNext
<1> QED
  BY <1>1, <1>2, PTL DEF DeliverySpec

\* Of the publishers of one run at most one is between its claim and its
\* mark, if the gateway gives no run to a second session, or if no live
\* session is ever silent past the stale cutoff.
THEOREM ClaimsAreExclusive ==
    ASSUME ~(ExtraSessions /\ Ageing)
    PROVE  DeliverySpec => []ClaimIsExclusive
<1>1. DeliveryInv /\ ClaimInv => ClaimIsExclusive
  BY DEF ClaimInv, OneHolder, ClaimIsExclusive, Holds, HoldsAt, Holding
<1> QED
  BY <1>1, ClaimInvariant, PTL

-----------------------------------------------------------------------------
(* No part twice.                                                            *)

\* A publisher that has listed the comments: one that claimed its review saw
\* every part it has not posted itself, unless beyond the window; one that
\* refreshes a review saw all of its parts, unless its window was full.
SawComments(k, C) ==
    k.pc \in {"reverify", "post"} =>
        IF k.already
        THEN k.listed >= Window \/
             \A m \in 1..Parts : \E i \in 1..k.listed : IsPart(C, i, k.run, m)
        ELSE \A i \in DOMAIN C :
                 i <= Window /\ C[i].run = k.run /\ i > k.listed =>
                     C[i].part <= Len(k.ids)

PartsInv == NoPartTwice /\ \A c \in Calls : SawComments(calls[c], comments)

\* The step posts the next part of the review of call c.
Posts(c) == Posting(c) /\ NextPart(c) \notin DOMAIN Found(c) /\ AddComment(c)

LEMMA CommentsStep ==
    ASSUME NEW c \in Calls, StepOf(c)
    PROVE  UNCHANGED comments \/ (Posts(c) /\ (CreatePart(c) \/ PublishFails(c)))
BY DEF StepOf, Turns, Reads, PublishingPhase, Claim, Verify, List, UpdatePart, Claiming,
       CreatePart, Fails, OffTarget, PublishFails, Renders, Finalize, MarkPosted, Rewrites,
       Supersede, SupersedeFails, CleanupFails, BeginFailStale, Posts

\* A part that is not found in the listing is not in it.
LEMMA NotFound ==
    ASSUME PublicationInv, NEW c \in Calls, calls[c].listed <= Len(comments),
           NEW n, n \notin DOMAIN Found(c), NEW i \in 1..calls[c].listed
    PROVE  comments[i] # [run |-> calls[c].run, part |-> n]
<1> SUFFICES ASSUME comments[i] = [run |-> calls[c].run, part |-> n] PROVE FALSE
  OBVIOUS
<1>1. comments[i].run = calls[c].run /\ comments[i].part = n
  OBVIOUS
<1> QED
  BY <1>1 DEF Found

\* A part posted is new, or the copy it repeats is beyond the window.
LEMMA PostsNew ==
    ASSUME PublicationInv, PartsInv, RunsInv, NEW c \in Calls, Posts(c)
    PROVE  /\ calls[c].run \in Runs /\ NextPart(c) \in 1..Parts
           /\ calls[c].already => Len(comments) + 1 > Window
           /\ \A i \in DOMAIN comments :
                  comments[i] = [run |-> calls[c].run, part |-> NextPart(c)] => i > Window
<1>1. /\ calls[c].pc = "post" /\ calls[c] \in Call
      /\ Formed(calls[c], last, runs, pubs, comments) /\ calls[c].run \in Runs
  BY OwnedFormed DEF Posts, Posting, At, Unowned
<1>2. /\ calls[c].listed \in Nat /\ calls[c].listed <= Len(comments)
      /\ Len(comments) \in Nat /\ Window \in Nat /\ Parts \in Nat
      /\ Len(calls[c].ids) \in Nat /\ DOMAIN comments = 1..Len(comments)
  BY <1>1, DeliveryAssumption DEF Call, Formed, PublicationInv, RowsFormed
<1>3. NextPart(c) \in 1..Parts
  BY <1>1, <1>2 DEF NextPart, Formed, PublishSteps
<1>4. \A i \in 1..calls[c].listed :
          comments[i] # [run |-> calls[c].run, part |-> NextPart(c)]
  BY <1>2, NotFound DEF Posts
<1>5. SawComments(calls[c], comments)
  BY DEF PartsInv
<1>6. CASE calls[c].already
  <2>1. calls[c].listed >= Window
    <3> SUFFICES ASSUME \A m \in 1..Parts : \E i \in 1..calls[c].listed :
                                IsPart(comments, i, calls[c].run, m)
                 PROVE  FALSE
      BY <1>1, <1>5, <1>6 DEF SawComments
    <3> QED
      BY <1>3, <1>4 DEF IsPart
  <2> QED
    BY <1>1, <1>2, <1>3, <1>4, <2>1
<1>7. CASE ~calls[c].already
  <2>1. ASSUME NEW i \in DOMAIN comments,
               comments[i] = [run |-> calls[c].run, part |-> NextPart(c)]
        PROVE  i > Window
    <3>1. i > calls[c].listed /\ i \in Nat
      BY <1>2, <1>4, <2>1
    <3>2. comments[i].run = calls[c].run /\ comments[i].part = Len(calls[c].ids) + 1
      BY <2>1 DEF NextPart
    <3> QED
      BY <1>1, <1>2, <1>5, <1>7, <3>1, <3>2 DEF SawComments
  <2> QED
    BY <1>1, <1>3, <1>7, <2>1
<1> QED
  BY <1>6, <1>7

\* What a publisher saw stays true, whoever posts.
LEMMA SawStays ==
    ASSUME NEW C \in Seq(Comment), NEW new \in Comment, NEW k \in Call, SawComments(k, C),
           \/ k.run # new.run \/ k.already \/ Len(C) + 1 > Window
           \/ new.part <= Len(k.ids)
    PROVE  SawComments(k, Append(C, new))
<1> DEFINE D == Append(C, new)
<1>1. /\ D \in Seq(Comment) /\ Len(D) = Len(C) + 1 /\ Len(C) \in Nat
      /\ \A i \in DOMAIN C : i \in DOMAIN D /\ D[i] = C[i]
      /\ D[Len(C) + 1] = new
      /\ \A i \in DOMAIN D : i \in DOMAIN C \/ i = Len(C) + 1
  OBVIOUS
<1> HIDE DEF D
<1>2. CASE k.pc \notin {"reverify", "post"}
  BY <1>2 DEF SawComments
<1>3. CASE k.already
  BY <1>1, <1>3 DEF SawComments, IsPart
<1>4. CASE k.pc \in {"reverify", "post"} /\ ~k.already
  <2> SUFFICES ASSUME NEW i \in DOMAIN D, i <= Window, D[i].run = k.run, i > k.listed
               PROVE  D[i].part <= Len(k.ids)
    BY <1>4 DEF SawComments, D
  <2>1. CASE i \in DOMAIN C
    BY <1>1, <1>4, <2>1 DEF SawComments
  <2>2. CASE i = Len(C) + 1
    <3>1. Window \in Nat /\ new.run = k.run /\ ~k.already /\ ~(Len(C) + 1 > Window)
      BY <1>1, <1>4, <2>2, DeliveryAssumption
    <3> QED
      BY <1>1, <2>2, <3>1
  <2> QED
    BY <1>1, <2>1, <2>2
<1> QED
  BY <1>2, <1>3, <1>4 DEF D

\* A call that remembers one id more saw what it saw.
LEMMA SawMore ==
    ASSUME NEW C \in Seq(Comment), NEW k \in Call, NEW id, SawComments(k, C)
    PROVE  SawComments([k EXCEPT !.ids = Append(@, id)], C)
<1> DEFINE ids == Append(k.ids, id)
           new == [k EXCEPT !.ids = ids]
<1>1. /\ new.pc = k.pc /\ new.run = k.run /\ new.listed = k.listed
      /\ new.already = k.already /\ new.ids = ids
  BY DEF Call
<1>2. Len(ids) = Len(k.ids) + 1 /\ Len(k.ids) \in Nat
  BY DEF Call
<1> HIDE DEF ids, new
<1>3. \A i \in DOMAIN C : C[i].part \in Nat
  <2>1. \A i \in DOMAIN C : C[i] \in Comment
    OBVIOUS
  <2> QED
    BY <2>1, DeliveryAssumption DEF Comment
<1>4. SawComments(new, C)
  BY <1>1, <1>2, <1>3 DEF SawComments
<1> QED
  BY <1>4 DEF new, ids

LEMMA OneIdMore ==
    ASSUME NEW k \in Call, NEW id \in Nat
    PROVE  /\ [k EXCEPT !.ids = Append(@, id)] \in Call
           /\ Len([k EXCEPT !.ids = Append(@, id)].ids) = Len(k.ids) + 1
<1> DEFINE ids == Append(k.ids, id)
<1>1. ids \in Seq(Nat) /\ Len(ids) = Len(k.ids) + 1
  BY DEF Call
<1> HIDE DEF ids
<1>2. [k EXCEPT !.ids = ids] \in Call /\ [k EXCEPT !.ids = ids].ids = ids
  BY <1>1 DEF Call
<1> QED
  BY <1>1, <1>2 DEF ids

LEMMA CallSaw ==
    ASSUME PublicationInv, RunsInv, PartsInv, NEW c \in Calls, StepOf(c)
    PROVE  SawComments(calls'[c], comments')
<1>0. /\ calls \in [Calls -> Call] /\ calls[c] \in Call /\ comments \in Seq(Comment)
      /\ SawComments(calls[c], comments) /\ Len(comments) \in Nat
      /\ Formed(calls[c], last, runs, pubs, comments)
  BY DEF PublicationInv, CallsFormed, RowsFormed, PartsInv
<1>1. CASE calls'[c].pc \notin {"reverify", "post"}
  BY <1>1 DEF SawComments
<1>2. CASE List(c)
  <2> DEFINE n == Min({Len(comments), Window})
             k == [calls[c] EXCEPT !.pc = "reverify", !.listed = n]
             r == calls[c].run
  <2>1. n \in Nat /\ (n = Len(comments) \/ n >= Window)
    <3>1. Window \in Nat
      BY DeliveryAssumption
    <3>2. \E m \in {Len(comments), Window} : \A y \in {Len(comments), Window} : m <= y
      <4>1. Len(comments) <= Window \/ Window <= Len(comments)
        BY <1>0, <3>1
      <4> QED
        BY <1>0, <3>1, <4>1
    <3> QED
      BY <1>0, <3>1, <3>2 DEF Min
  <2>2. calls[c].pc = "list" /\ calls'[c] = k /\ UNCHANGED <<pubs, comments>>
    BY <1>0, <1>2 DEF List, At
  <2> HIDE DEF n
  <2>3. k.pc = "reverify" /\ k.listed = n /\ k.run = r /\ k.already = calls[c].already
    BY <1>0 DEF Call
  <2>4. CASE n >= Window
    BY <1>0, <2>1, <2>2, <2>3, <2>4, DeliveryAssumption DEF SawComments
  <2>5. CASE n = Len(comments)
    <3>1. \A i \in DOMAIN comments : ~(i > n)
      BY <1>0, <2>5
    <3>2. CASE ~calls[c].already
      BY <2>2, <2>3, <3>1, <3>2 DEF SawComments
    <3>3. CASE calls[c].already
      <4>1. r \in Runs /\ pubs[r].ids # <<>>
        BY <1>0, <2>2, <3>3, OwnedFormed DEF Formed, Unowned
      <4>2. \A m \in 1..Parts : IsPart(comments, pubs[r].ids[m], r, m)
        BY <4>1 DEF PublicationInv, RowsFormed, RowFormed
      <4>3. \A m \in 1..Parts : \E i \in 1..n : IsPart(comments, i, r, m)
        BY <1>0, <2>5, <4>2 DEF IsPart
      <4> QED
        BY <2>2, <2>3, <3>3, <4>3 DEF SawComments
    <3> QED
      BY <3>2, <3>3
  <2> QED
    BY <2>1, <2>4, <2>5
<1>3. CASE Verify(c, "reverify", "post")
  <2> DEFINE k == [calls[c] EXCEPT !.pc = "post"]
  <2>1. /\ k.pc = "post" /\ k.run = calls[c].run /\ k.listed = calls[c].listed
        /\ k.ids = calls[c].ids /\ k.already = calls[c].already
        /\ calls'[c] = k /\ calls[c].pc = "reverify" /\ comments' = comments
    BY <1>0, <1>3 DEF Verify, At, Go, Call
  <2> QED
    BY <1>0, <2>1 DEF SawComments
<1>4. ASSUME NEW id, PartDone(c, id), calls'[c].pc \in {"reverify", "post"}
      PROVE  calls'[c] = [calls[c] EXCEPT !.ids = Append(@, id)]
  <2> DEFINE here == [calls[c] EXCEPT !.ids = Append(@, id)]
             marks == [calls[c] EXCEPT !.ids = Append(@, id), !.pc = "mark"]
  <2>1. Session(calls[c].run).pc = "session"
    BY IdleFormed DEF Session, Call, Idle
  <2>2. marks.pc = "mark"
    BY <1>0 DEF Call
  <2>3. \/ calls' = [calls EXCEPT ![c] = here] \/ calls' = [calls EXCEPT ![c] = marks]
        \/ calls' = [calls EXCEPT ![c] = Session(calls[c].run)]
    BY <1>4 DEF PartDone, Become
  <2> QED
    BY <1>0, <1>4, <2>1, <2>2, <2>3
<1>5. CASE UpdatePart(c)
  <2> DEFINE id == Found(c)[NextPart(c)]
  <2>1. UNCHANGED comments /\ PartDone(c, id)
    BY <1>5 DEF UpdatePart
  <2> HIDE DEF id
  <2>2. SawComments([calls[c] EXCEPT !.ids = Append(@, id)], comments)
    BY <1>0, SawMore
  <2> QED
    BY <1>1, <1>4, <2>1, <2>2
<1>6. CASE CreatePart(c) /\ calls'[c].pc \in {"reverify", "post"}
  <2> DEFINE id == Len(comments) + 1
             k == [calls[c] EXCEPT !.ids = Append(@, id)]
             new == [run |-> calls[c].run, part |-> NextPart(c)]
  <2>1. Posts(c) /\ PartDone(c, id) /\ comments' = Append(comments, new)
    BY <1>6 DEF CreatePart, Posts, AddComment
  <2>2. new \in Comment
    BY <2>1, PostsNew DEF Comment
  <2>3. k \in Call /\ Len(k.ids) = NextPart(c)
    <3>1. id \in Nat
      BY <1>0
    <3> HIDE DEF id
    <3>2. k \in Call /\ Len(k.ids) = Len(calls[c].ids) + 1
      BY <1>0, <3>1, OneIdMore
    <3> QED
      BY <3>2 DEF NextPart
  <2>4. SawComments(k, comments)
    BY <1>0, SawMore
  <2>5. new.part = NextPart(c) /\ NextPart(c) \in Nat
    BY <1>0 DEF NextPart, Call
  <2>6. SawComments(k, Append(comments, new))
    <3> HIDE DEF k, new
    <3> QED
      BY <1>0, <2>2, <2>3, <2>4, <2>5, SawStays
  <2> QED
    BY <1>4, <1>6, <2>1, <2>6
<1>7. ASSUME calls'[c].pc \in {"reverify", "post"}
      PROVE  List(c) \/ Verify(c, "reverify", "post") \/ UpdatePart(c) \/ CreatePart(c)
  <2>1. Session(calls[c].run).pc = "session"
    BY IdleFormed DEF Session, Call, Idle
  <2>2. CASE Turns(c)
    BY <1>0, <1>7, <2>2 DEF Turns, Progress, AtWork, Holding, PublishSteps
  <2>3. CASE Reads(c)
    BY <1>0, <1>7, <2>3 DEF Reads, Go, Verify, Call
  <2>4. CASE Claiming(c)
    BY <1>0, <1>7, <2>4 DEF Claiming, Go, Call
  <2>5. CASE Fails(c) \/ CleanupFails(c)
    BY <1>0, <1>7, <2>1, <2>5
       DEF Fails, OffTarget, PublishFails, PublishGivesUp, CleanupFails, Become
  <2>6. CASE Renders(c) \/ BeginFailStale(c)
    BY <1>0, <1>7, <2>6 DEF Renders, Finalize, BeginFailStale, Call
  <2>7. CASE MarkPosted(c) \/ Rewrites(c)
    BY <1>0, <1>7, <2>7 DEF MarkPosted, Rewrites, Supersede, SupersedeFails, Go, Call
  <2> QED
    BY <2>2, <2>3, <2>4, <2>5, <2>6, <2>7 DEF StepOf
<1> QED
  BY <1>1, <1>2, <1>3, <1>5, <1>6, <1>7

LEMMA PartsStep ==
    ASSUME DeliveryInv, OneHolder, PartsInv, RunsGrow,
           StepOfNone \/ \E c \in Calls : StepOf(c)
    PROVE  PartsInv'
<1>0. /\ PublicationInv /\ RunsInv /\ calls \in [Calls -> Call] /\ comments \in Seq(Comment)
      /\ Len(comments) \in Nat /\ Window \in Nat
  BY DeliveryAssumption DEF DeliveryInv, PublicationInv, CallsFormed, RowsFormed
<1>1. ASSUME NEW c \in Calls, StepOf(c)
      PROVE  PartsInv'
  <2>1. SawComments(calls'[c], comments')
    BY <1>0, <1>1, CallSaw
  <2>2. PICK k : calls' = [calls EXCEPT ![c] = k]
    BY <1>0, <1>1, StepMoves DEF MovesOn
  <2>3. \A d \in Calls : d # c => calls'[d] = calls[d]
    BY <1>0, <2>2
  <2>4. CASE UNCHANGED comments
    <3>1. \A d \in Calls : SawComments(calls'[d], comments')
      BY <2>1, <2>3, <2>4 DEF PartsInv
    <3> QED
      BY <2>4, <3>1 DEF PartsInv, NoPartTwice
  <2>5. CASE Posts(c)
    <3> DEFINE r == calls[c].run
               new == [run |-> r, part |-> NextPart(c)]
    <3>1. /\ r \in Runs /\ NextPart(c) \in 1..Parts /\ new \in Comment
          /\ calls[c].already => Len(comments) + 1 > Window
          /\ \A i \in DOMAIN comments : comments[i] = new => i > Window
      BY <1>0, <2>5, PostsNew DEF Comment
    <3>2. comments' = Append(comments, new) /\ new.run = r
      BY <2>5 DEF Posts, AddComment
    <3>a. calls[c].pc = "post"
      BY <2>5 DEF Posts, Posting, At
    <3> HIDE DEF new
    <3>3. NoPartTwice'
      <4>1. /\ Len(comments') = Len(comments) + 1 /\ comments'[Len(comments) + 1] = new
            /\ \A i \in 1..Len(comments) : comments'[i] = comments[i]
        BY <1>0, <3>1, <3>2
      <4> SUFFICES ASSUME NEW i \in 1..Len(comments'), NEW j \in 1..Len(comments'),
                          i < j, comments'[i] = comments'[j]
                   PROVE  i > Window
        BY DEF NoPartTwice
      <4>2. CASE j \in 1..Len(comments)
        BY <1>0, <4>1, <4>2 DEF PartsInv, NoPartTwice
      <4>3. CASE j = Len(comments) + 1
        BY <1>0, <3>1, <4>1, <4>3
      <4> QED
        BY <1>0, <4>1, <4>2, <4>3
    <3>4. ASSUME NEW d \in Calls, d # c
          PROVE  SawComments(calls[d], comments')
      <4>1. CASE calls[d].pc \notin {"reverify", "post"}
        BY <4>1 DEF SawComments
      <4>2. CASE calls[d].pc \in {"reverify", "post"}
        <5>1. calls[d].run # r \/ calls[d].already \/ Len(comments) + 1 > Window
          <6> SUFFICES ASSUME calls[d].run = r, ~calls[d].already, ~calls[c].already
                       PROVE  FALSE
            BY <3>1
          <6>1. Holds(c) /\ Holds(d)
            BY <3>a, <4>2 DEF Holds, HoldsAt, Holding, PublishSteps
          <6> QED
            BY <3>4, <6>1 DEF OneHolder
        <5>2. SawComments(calls[d], comments) /\ calls[d] \in Call
          BY <1>0 DEF PartsInv
        <5> QED
          BY <1>0, <3>1, <3>2, <5>1, <5>2, SawStays
      <4> QED
        BY <4>1, <4>2
    <3>5. \A d \in Calls : SawComments(calls'[d], comments')
      BY <2>1, <2>3, <3>4
    <3> QED
      BY <3>3, <3>5 DEF PartsInv
  <2> QED
    BY <1>1, <2>4, <2>5, CommentsStep
<1>2. CASE UNCHANGED <<comments, calls>>
  BY <1>2 DEF PartsInv, NoPartTwice
<1>3. CASE Restart
  <2>1. \A d \in Calls : SawComments(calls'[d], comments')
    BY <1>3, IdleFormed DEF Restart, SawComments
  <2> QED
    BY <1>3, <2>1 DEF Restart, PartsInv, NoPartTwice
<1> QED
  BY <1>0, <1>1, <1>2, <1>3, ElsewhereQuiet DEF StepOfNone, ReaperMarks

\* No part of a review is on GitHub twice, whatever publisher failed half way
\* and whatever publisher took over, unless the first copy lies beyond the
\* comments the publisher lists; two publishers of one review at a time are
\* excluded as above.
THEOREM PartsAreNotRepeated ==
    ASSUME ~(ExtraSessions /\ Ageing)
    PROVE  DeliverySpec => []NoPartTwice
<1> DEFINE Inv == DeliveryInv /\ ClaimInv /\ PartsInv
<1>1. DeliveryInit => PartsInv
  BY IdleFormed DEF DeliveryInit, PartsInv, NoPartTwice, SawComments
<1>2. DeliveryInit => Inv
  BY <1>1, DeliveryInit_All, ClaimInit
<1>3. Inv /\ [DeliveryNext]_vars => Inv'
  <2> SUFFICES ASSUME Inv, [DeliveryNext]_vars PROVE Inv'
    OBVIOUS
  <2>1. DeliveryInv' /\ ClaimInv' /\ RunsGrow
    BY DeliveryNext_All, ClaimNext
  <2>2. CASE UNCHANGED vars
    BY <2>1, <2>2 DEF vars, PartsInv, NoPartTwice
  <2>3. CASE DeliveryNext
    <3>1. StepOfNone \/ \E c \in Calls : StepOf(c)
      BY <2>1, <2>3, StepKinds
    <3>2. PartsInv'
      BY <2>1, <3>1, PartsStep DEF ClaimInv
    <3> QED
      BY <2>1, <3>2
  <2> QED
    BY <2>2, <2>3
<1>4. Inv => NoPartTwice
  BY DEF PartsInv
<1> QED
  BY <1>2, <1>3, <1>4, PTL DEF DeliverySpec

-----------------------------------------------------------------------------
(* A claim that was taken away.                                              *)

\* A session of a run that is not in the publisher.
BeforeClaimAt(k) == k.pc \notin Unowned \cup Holding \cup {"notice"}

\* Before its session claims it, the review of a run that is still going was
\* not claimed by anybody.
NotClaimedBefore ==
    \A c \in Calls :
        BeforeClaimAt(calls[c]) /\ (Running(calls[c].run) \/ At(c, "claim")) =>
            pubs[calls[c].run].status \in {"none", "generated"}

LEMMA WasRunning ==
    ASSUME RunsGrow, NEW r \in Runs, r <= last, Running(r)'
    PROVE  Running(r) /\ r <= last
BY DEF RunsGrow, RunsInv, RunsTypeOK, RunRow, Running, Terminal, Ended, Runs

\* A call that leaves the publisher leaves a run that is over.
LEMMA LeavesEnded ==
    ASSUME PublicationInv, RunsGrow, NEW c \in Calls,
           Claiming(c) \/ CreatePart(c) \/ UpdatePart(c) \/ Fails(c) \/ MarkPosted(c)
             \/ Rewrites(c) \/ CleanupFails(c) \/ BeginFailStale(c)
    PROVE  \/ ~BeforeClaimAt(calls'[c])
           \/ /\ calls'[c] = Session(calls[c].run)
              /\ runs'[calls[c].run].status \in Ended
<1>0. /\ calls \in [Calls -> Call] /\ calls[c] \in Call /\ RunsInv
      /\ Formed(calls[c], last, runs, pubs, comments)
  BY DEF PublicationInv, CallsFormed, RunsGrow
<1> USE DEF BeforeClaimAt
<1>1. CASE Claiming(c)
  BY <1>0, <1>1 DEF Claiming, Go, Call, Holding, PublishSteps
<1>2. CASE MarkPosted(c) \/ Rewrites(c)
  <2>1. \E step \in {"supersede", "cleanup"} :
            calls' = [calls EXCEPT ![c] = [calls[c] EXCEPT !.pc = step]]
    BY <1>2 DEF MarkPosted, Rewrites, Supersede, SupersedeFails, Go
  <2>2. calls'[c].pc \in {"supersede", "cleanup"}
    BY <1>0, <2>1 DEF Call
  <2> QED
    BY <2>2 DEF Holding
<1>3. CASE BeginFailStale(c)
  BY <1>0, <1>3 DEF BeginFailStale, Call, Unowned
<1>4. ASSUME calls[c].pc \notin Unowned, calls[c].already
      PROVE  runs'[calls[c].run].status \in Ended
  <2>1. calls[c].run \in Runs /\ pubs[calls[c].run].ids # <<>>
    BY <1>0, <1>4, OwnedFormed DEF Formed
  <2>2. runs[calls[c].run].status \in Ended
    BY <2>1 DEF PublicationInv, RowsFormed, RowFormed
  <2> QED
    BY <2>1, <2>2 DEF RunsGrow, Terminal, Ended
<1>5. CASE CreatePart(c) \/ UpdatePart(c)
  <2>1. PICK id : calls[c].pc = "post" /\ PartDone(c, id)
    BY <1>5 DEF CreatePart, UpdatePart, Posting, At
  <2> DEFINE here == [calls[c] EXCEPT !.ids = Append(@, id)]
             marks == [calls[c] EXCEPT !.ids = Append(@, id), !.pc = "mark"]
  <2>2. here.pc = "post" /\ marks.pc = "mark" /\ {"post", "mark"} \subseteq Holding
        /\ "post" \notin Unowned
    BY <1>0, <2>1 DEF Call, Holding, PublishSteps, Unowned
  <2>3. \/ calls' = [calls EXCEPT ![c] = here] \/ calls' = [calls EXCEPT ![c] = marks]
        \/ calls[c].already /\ calls' = [calls EXCEPT ![c] = Session(calls[c].run)]
    BY <2>1 DEF PartDone, Become
  <2> QED
    BY <1>0, <1>4, <2>1, <2>2, <2>3
<1>6. CASE Fails(c)
  <2>1. /\ calls[c].pc \notin Unowned /\ Become(c, Session(calls[c].run))
        /\ \/ calls[c].already
           \/ \E code \in FailureCodes : FailRun(calls[c].run, code)
    BY <1>6 DEF Fails, OffTarget, PublishFails, PublishGivesUp, MarkFailed, FailureCodes, At,
                PublishSteps, Unowned
  <2>2. runs'[calls[c].run].status \in Ended
    BY <1>0, <1>4, <2>1, OwnedFormed, FailedEnds
  <2> QED
    BY <1>0, <2>1, <2>2 DEF Become
<1>7. CASE CleanupFails(c)
  <2>1. calls[c].pc = "cleanup" /\ Become(c, Session(calls[c].run))
    BY <1>7 DEF CleanupFails, At
  <2>2. calls[c].run \in Runs /\ runs[calls[c].run].status \in Ended
    BY <1>0, <2>1, OwnedFormed DEF Formed, Unowned
  <2>3. runs'[calls[c].run].status \in Ended
    BY <2>2 DEF RunsGrow, Terminal, Ended
  <2> QED
    BY <1>0, <2>1, <2>3 DEF Become
<1> QED
  BY <1>1, <1>2, <1>3, <1>5, <1>6, <1>7

\* A call that has not claimed yet, and the review of its run.
LEMMA NotClaimedOwn ==
    ASSUME PublicationInv, RunsGrow, subjects \in Seq(Snapshots), ~ExtraSessions,
           "locked" \notin FaultPoints, NotClaimedBefore, NEW c \in Calls, StepOf(c), BeforeClaimAt(calls'[c]),
           runs'[calls'[c].run].status = "running" \/ calls'[c].pc = "claim"
    PROVE  pubs'[calls'[c].run].status \in {"none", "generated"}
<1>0. /\ calls \in [Calls -> Call] /\ calls[c] \in Call /\ RunsInv
      /\ Formed(calls[c], last, runs, pubs, comments)
  BY DEF PublicationInv, CallsFormed, RunsGrow
<1>1. CASE Turns(c)
  <2>1. PICK k \in Call : Progress(c, k) /\ k.pc \notin AtWork /\ KeepsRun(c, k)
    BY <1>1 DEF Turns
  <2>2. calls'[c] = k /\ UNCHANGED <<pubs, comments>> /\ Formed(k, last', runs', pubs', comments')
    BY <1>0, <1>1, <2>1 DEF Progress, Turns
  <2>3. runs'[k.run].status = "running" /\ k.pc \notin Unowned /\ k.pc # "notice"
    BY <2>1, <2>2 DEF AtWork, BeforeClaimAt
  <2>4. k.run \in 1..last' /\ k.run \in Runs
    BY <2>1, <2>2, <2>3, RunsAssumption DEF Formed, RunsGrow, RunsInv, RunsTypeOK, Runs
  <2>5. CASE k.run = last' /\ last' = last + 1
    <3>1. RowFormed(pubs[k.run], k.run, last, runs, comments) /\ last \in Nat
      BY <1>0, <2>4, RunsAssumption DEF PublicationInv, RowsFormed, RunsInv, RunsTypeOK
    <3>2. pubs[k.run].status = "none"
      BY <2>5, <3>1 DEF RowFormed
    <3> QED
      BY <2>2, <3>2
  <2>6. CASE calls[c].pc \notin Unowned /\ k.run = calls[c].run /\ calls[c].pc \notin Holding
    <3>1. k.run <= last /\ Running(k.run)'
      BY <1>0, <2>3, <2>6, OwnedFormed DEF Running
    <3>2. Running(k.run)
      BY <2>4, <3>1, WasRunning
    <3>3. calls[c].pc # "notice"
      BY <1>0, <2>6, <3>2 DEF Formed, Running, Ended
    <3> QED
      BY <2>2, <2>6, <3>2, <3>3 DEF NotClaimedBefore, BeforeClaimAt
  <2>7. CASE runs'[k.run].status \in Ended
    BY <2>3, <2>7 DEF Ended
  <2> QED
    BY <2>1, <2>3, <2>5, <2>6, <2>7 DEF KeepsRun
<1>2. CASE PublishingPhase(c) /\ UpdateRunPhase(calls[c].run, "publishing") /\ Go(c, "claim")
  <2>1. calls[c].pc = "phase" /\ Running(calls[c].run) /\ UNCHANGED pubs
    BY <1>2 DEF PublishingPhase, At, UpdateRunPhase
  <2>2. pubs[calls[c].run].status \in {"none", "generated"}
    BY <2>1 DEF NotClaimedBefore, BeforeClaimAt, Unowned, Holding, PublishSteps
  <2>3. calls'[c].run = calls[c].run
    BY <1>0, <1>2 DEF Go, Call
  <2> QED
    BY <2>1, <2>2, <2>3
<1>3. CASE Renders(c)
  <2>1. calls[c].run \in Runs
    BY <1>0, <1>3, OwnedFormed DEF Renders, Finalize, At, Unowned
  <2>2. Rendered(calls[c].run)
    BY <1>3, <2>1, RendersRow
  <2>3. calls'[c].run = calls[c].run
    BY <1>0, <1>3 DEF Renders, Finalize, Call
  <2> QED
    BY <2>2, <2>3 DEF Rendered
<1>4. CASE \/ Claiming(c) \/ CreatePart(c) \/ UpdatePart(c) \/ Fails(c) \/ MarkPosted(c)
           \/ Rewrites(c) \/ CleanupFails(c) \/ BeginFailStale(c)
  <2>1. Session(calls[c].run).run = calls[c].run /\ Session(calls[c].run).pc = "session"
    BY IdleFormed DEF Session, Idle, Call
  <2> QED
    BY <1>4, <2>1, LeavesEnded DEF Ended
<1>5. CASE Reads(c) /\ ~UpdatePart(c) /\ ~Go(c, "claim")
  <2>1. calls'[c].pc \in PublishSteps
    BY <1>0, <1>5 DEF Reads, Verify, List, Go, Call, PublishSteps
  <2> QED
    BY <2>1 DEF BeforeClaimAt, Holding
<1>6. CASE Reads(c) /\ Go(c, "claim") /\ ~UpdatePart(c)
  <2>1. calls'[c].pc = "claim"
    BY <1>0, <1>6 DEF Go, Call
  <2>2. ASSUME NEW step \in PublishSteps, calls'[c].pc = step
        PROVE  FALSE
    BY <2>1, <2>2 DEF PublishSteps
  <2>3. \/ PublishingPhase(c) /\ UpdateRunPhase(calls[c].run, "publishing")
        \/ calls'[c].pc \in PublishSteps
    BY <1>0, <1>6 DEF Reads, Verify, List, Go, Call, PublishSteps
  <2> QED
    BY <1>2, <1>6, <2>2, <2>3
<1> QED
  BY <1>1, <1>2, <1>3, <1>4, <1>5, <1>6 DEF StepOf

LEMMA NotClaimedStep ==
    ASSUME DeliveryInv, RunsGrow, StepOfNone \/ \E c \in Calls : StepOf(c), ~ExtraSessions,
           "locked" \notin FaultPoints,
           OneSessionPerRun, NotClaimedBefore
    PROVE  NotClaimedBefore'
<1>0. /\ PublicationInv /\ RunsInv /\ calls \in [Calls -> Call] /\ subjects \in Seq(Snapshots)
      /\ pubs \in [Runs -> PubRow]
  BY DEF DeliveryInv, PublicationInv, CallsFormed, RowsFormed, SideInv
<1>a. ASSUME NEW d \in Calls, BeforeClaimAt(calls[d]),
             runs'[calls[d].run].status = "running" \/ calls[d].pc = "claim"
      PROVE  /\ calls[d].pc \notin Unowned /\ calls[d].run \in Runs
             /\ pubs[calls[d].run].status \in {"none", "generated"}
  <2>1. calls[d].pc \notin Unowned /\ calls[d].run \in Runs /\ calls[d].run <= last
    BY <1>0, <1>a, OwnedFormed DEF BeforeClaimAt
  <2>2. Running(calls[d].run) \/ At(d, "claim")
    BY <1>a, <2>1, WasRunning DEF Running, At
  <2> QED
    BY <1>a, <2>1, <2>2 DEF NotClaimedBefore
<1> SUFFICES ASSUME NEW d \in Calls, BeforeClaimAt(calls'[d]),
                    runs'[calls'[d].run].status = "running" \/ calls'[d].pc = "claim"
             PROVE  pubs'[calls'[d].run].status \in {"none", "generated"}
  BY DEF NotClaimedBefore, Running, At
<1>1. ASSUME NEW c \in Calls, StepOf(c)
      PROVE  pubs'[calls'[d].run].status \in {"none", "generated"}
  <2>1. CASE d = c
    BY <1>0, <1>1, <2>1, NotClaimedOwn
  <2>2. CASE d # c
    <3> DEFINE r == calls[d].run
    <3>1. calls'[d] = calls[d]
      BY <1>0, <1>1, <2>2, StepMoves DEF MovesOn
    <3>2. calls[d].pc \notin Unowned /\ r \in Runs /\ pubs[r].status \in {"none", "generated"}
      BY <1>a, <3>1
    <3>3. calls[c].pc \notin Unowned => r # calls[c].run
      BY <2>2, <3>2 DEF OneSessionPerRun
    <3>4. pubs'[r].status = pubs[r].status
      <4> SUFFICES ASSUME pubs'[r].status # pubs[r].status PROVE FALSE
        OBVIOUS
      <4>1. \/ r = calls[c].run /\ (Claiming(c) \/ Holds(c) \/ Renders(c) \/ MarkPosted(c))
            \/ pubs[r].status = "posting"
        BY <1>0, <1>1, <3>2, StatusSteps
      <4>2. ASSUME Claiming(c) \/ Holds(c) \/ Renders(c) \/ MarkPosted(c)
            PROVE  calls[c].pc \notin Unowned
        BY <4>2 DEF Claiming, Claim, Holds, HoldsAt, Renders, Finalize, MarkPosted, At, Unowned,
           Holding, PublishSteps
      <4> QED
        BY <3>2, <3>3, <4>1, <4>2
    <3> QED
      BY <3>1, <3>2, <3>4
  <2> QED
    BY <2>1, <2>2
<1>2. CASE Elsewhere
  BY <1>0, <1>2, <1>a, ElsewhereQuiet
<1>3. CASE Restart
  <2>1. calls'[d] = Idle
    BY <1>3 DEF Restart
  <2> QED
    BY <2>1, IdleFormed DEF BeforeClaimAt, Unowned
<1>4. CASE ReaperMarks
  <2>1. /\ calls' = calls
        /\ pubs' = [q \in Runs |-> IF q \in reaper /\ pubs[q].status = "posting"
                                   THEN [pubs[q] EXCEPT !.status = "publish_failed"]
                                   ELSE pubs[q]]
    BY <1>4 DEF ReaperMarks, ReapStale
  <2> QED
    BY <1>0, <1>a, <2>1
<1> QED
  BY <1>1, <1>2, <1>3, <1>4 DEF StepOfNone

\* Only the publisher of a run's own session claims its review again after a
\* claim was released, and no session is left that has yet to claim.
LEMMA ReleasedStep ==
    ASSUME DeliveryInv, RunsGrow, StepOfNone \/ \E c \in Calls : StepOf(c), NotClaimedBefore,
           NEW r \in Runs, pubs[r].status \in Released, Terminal(r)
    PROVE  pubs'[r].status \in Released
<1>0. /\ PublicationInv /\ RunsInv /\ calls \in [Calls -> Call] /\ subjects \in Seq(Snapshots)
      /\ pubs \in [Runs -> PubRow]
  BY DEF DeliveryInv, PublicationInv, CallsFormed, RowsFormed, SideInv
<1>1. ASSUME NEW c \in Calls, StepOf(c), pubs'[r].status # pubs[r].status
      PROVE  pubs'[r].status \in Released
  <2>1. CASE r = calls[c].run /\ Claiming(c)
    <3>1. At(c, "claim") /\ BeforeClaimAt(calls[c])
      BY <2>1 DEF Claiming, Claim, At, BeforeClaimAt, Unowned, Holding, PublishSteps
    <3>2. pubs[r].status \in {"none", "generated"}
      BY <2>1, <3>1 DEF NotClaimedBefore
    <3> QED
      BY <3>2 DEF Released
  <2>2. CASE r = calls[c].run /\ MarkPosted(c)
    <3>1. Marked(r, calls[c].ids)
      BY <1>0, <2>2, MarkPostedRow
    <3> QED
      BY <3>1 DEF Marked, Released
  <2>3. CASE Rendered(r)
    BY <2>3 DEF Rendered, Released
  <2> QED
    BY <1>0, <1>1, <2>1, <2>2, <2>3, StatusSteps DEF Released
<1>2. CASE Elsewhere \/ Restart
  BY <1>0, <1>2, ElsewhereQuiet DEF Restart
<1>3. CASE ReaperMarks
  BY <1>0, <1>3 DEF ReaperMarks, ReapStale, Released
<1> QED
  BY <1>1, <1>2, <1>3 DEF StepOfNone

\* Once a claim was taken away or given up and its run has ended, no publisher
\* can claim the review again or make the ledger call it posted, if the
\* gateway gives no run to a second session and the database never refuses
\* the write of _mark_run_failed.
THEOREM ReleasedClaimsStayReleased ==
    ASSUME ~ExtraSessions, "locked" \notin FaultPoints
    PROVE  DeliverySpec => ReleasedClaimIsNeverPosted
<1> DEFINE Inv == DeliveryInv /\ ClaimInv /\ NotClaimedBefore
           Stays == \A r \in Runs : pubs[r].status \in Released /\ Terminal(r) =>
                                        pubs'[r].status \in Released
<1>1. DeliveryInit => Inv
  <2>1. DeliveryInit => NotClaimedBefore
    BY DEF DeliveryInit, NotClaimedBefore, BeforeClaimAt, Unowned, Idle
  <2> QED
    BY <2>1, DeliveryInit_All, ClaimInit
<1>2. Inv /\ [DeliveryNext]_vars => Inv' /\ [Stays]_vars
  <2> SUFFICES ASSUME Inv, [DeliveryNext]_vars PROVE Inv' /\ [Stays]_vars
    OBVIOUS
  <2>1. DeliveryInv' /\ ClaimInv' /\ RunsGrow
    BY DeliveryNext_All, ClaimNext
  <2>2. CASE UNCHANGED vars
    BY <2>1, <2>2 DEF vars, NotClaimedBefore, Running, At
  <2>3. CASE DeliveryNext
    <3>1. StepOfNone \/ \E c \in Calls : StepOf(c)
      BY <2>1, <2>3, StepKinds
    <3>2. NotClaimedBefore'
      BY <2>1, <3>1, NotClaimedStep DEF ClaimInv
    <3>3. Stays
      BY <2>1, <3>1, ReleasedStep
    <3> QED
      BY <2>1, <3>2, <3>3
  <2> QED
    BY <2>2, <2>3
<1> QED
  BY <1>1, <1>2, PTL DEF DeliverySpec, ReleasedClaimIsNeverPosted

-----------------------------------------------------------------------------
(* The order of the reviews: the ledger implements ReviewLedger.             *)

Count == Cardinality(Published)

\* A publisher that claimed its review and has not marked it.
ClaimsAt(k) == k.pc \in PublishSteps \cup {"mark"} /\ ~k.already

\* The reviews that came out are posted and have the numbers from one on, each
\* once; no review was given a number beyond the next.
LedgerRows ==
    /\ \A r \in Runs : /\ pubs[r].status # "none" => pubs[r].number >= 1
                       /\ pubs[r].ids # <<>> => pubs[r].status = "posted"
                       /\ pubs[r].number <= Count + 1
    /\ \A r \in Published : pubs[r].number <= Count
    /\ \A n \in 1..Count : \E r \in Published : pubs[r].number = n
    /\ \A q, r \in Published : pubs[q].number = pubs[r].number => q = r

\* A review that is to be claimed is rendered, and one that is claimed is not
\* out yet; if it has the next number, every review that is out is of an older
\* run.
LedgerCalls ==
    \A c \in Calls :
        LET r == calls[c].run IN
        /\ At(c, "phase") \/ At(c, "claim") => pubs[r].status # "none"
        /\ ClaimsAt(calls[c]) => pubs[r].ids = <<>> /\ pubs[r].status # "none"
        /\ ClaimsAt(calls[c]) \/ At(c, "claim") =>
             (pubs[r].number = Count + 1 => \A q \in Published : q < r)

LedgerInv == LedgerRows /\ LedgerCalls

LEMMA CountIs ==
    /\ IsFiniteSet(Published) /\ Count \in Nat
    /\ Published \subseteq Runs
BY MadeCount DEF Published, Count

\* A step that marks no review keeps what readers see of all of them.
LEMMA RowSteps ==
    ASSUME PublicationInv, RunsInv, subjects \in Seq(Snapshots), NEW c \in Calls, StepOf(c),
           ~MarkPosted(c), NEW r \in Runs
    PROVE  /\ pubs'[r].by = pubs[r].by /\ pubs'[r].ids = pubs[r].ids
           /\ \/ pubs'[r].number = pubs[r].number
              \/ r = calls[c].run /\ Renders(c) /\ Rendered(r)
<1>0. pubs \in [Runs -> PubRow]
  BY DEF PublicationInv, RowsFormed
<1>1. CASE UNCHANGED pubs
  BY <1>1
<1>2. ASSUME NEW q, NEW status, pubs' = [pubs EXCEPT ![q].status = status]
      PROVE  /\ pubs'[r].by = pubs[r].by /\ pubs'[r].ids = pubs[r].ids
             /\ pubs'[r].number = pubs[r].number
  BY <1>0, <1>2 DEF PubRow
<1>3. ASSUME NEW q, NEW h, pubs' = [pubs EXCEPT ![q].history = h]
      PROVE  /\ pubs'[r].by = pubs[r].by /\ pubs'[r].ids = pubs[r].ids
             /\ pubs'[r].number = pubs[r].number
  BY <1>0, <1>3 DEF PubRow
<1>4. CASE Turns(c) \/ Reads(c) \/ CreatePart(c)
  <2>1. UNCHANGED pubs
    BY <1>4 DEF Turns, Reads, PublishingPhase, Verify, List, UpdatePart, CreatePart
  <2> QED
    BY <1>1, <2>1
<1>5. CASE Claiming(c)
  BY <1>2, <1>5 DEF Claiming, OneStatus
<1>6. CASE Fails(c)
  BY <1>1, <1>2, <1>6 DEF Fails, OffTarget, PublishFails, PublishGivesUp, MarkFailed
<1>7. CASE Rewrites(c)
  BY <1>1, <1>3, <1>7 DEF Rewrites, Supersede, SupersedeFails
<1>8. CASE CleanupFails(c)
  BY <1>2, <1>8 DEF CleanupFails
<1>9. CASE BeginFailStale(c)
  <2>1. pubs' = [q \in Runs |-> IF q \in calls[c].stale /\ pubs[q].status = "posting"
                                THEN [pubs[q] EXCEPT !.status = "publish_failed"]
                                ELSE pubs[q]]
    BY <1>9 DEF BeginFailStale, ReapStale
  <2> QED
    BY <1>0, <2>1 DEF PubRow
<1>10. CASE Renders(c)
  <2>1. calls[c].run \in Runs
    BY <1>10, OwnedFormed DEF Renders, Finalize, At, Unowned
  <2>2. Rendered(calls[c].run)
    BY <1>10, <2>1, RendersRow
  <2>3. \E target : pubs' = [pubs EXCEPT ![calls[c].run].status = "generated",
                                         ![calls[c].run].target = target,
                                         ![calls[c].run].number = NextNumber]
    BY <1>10 DEF Renders
  <2>4. pubs'[r].by = pubs[r].by
    BY <1>0, <2>3 DEF PubRow
  <2>5. pubs'[r].ids = pubs[r].ids
    BY <2>1, <2>2 DEF Rendered
  <2> QED
    BY <1>10, <2>1, <2>2, <2>4, <2>5 DEF Rendered
<1> QED
  BY <1>4, <1>5, <1>6, <1>7, <1>8, <1>9, <1>10 DEF StepOf

\* Only the publishing phase of a run that is still going leads to a claim.
LEMMA ComesToClaim ==
    ASSUME PublicationInv, RunsGrow, NEW c \in Calls, StepOf(c), calls'[c].pc = "claim"
    PROVE  /\ calls[c].pc = "phase"
           /\ Running(calls[c].run) /\ UNCHANGED pubs /\ calls'[c].run = calls[c].run
           /\ calls[c].run \in Runs /\ calls[c].run <= last
<1>0. calls \in [Calls -> Call] /\ calls[c] \in Call /\ RunsInv
  BY DEF PublicationInv, CallsFormed, RunsGrow
<1>1. CASE PublishingPhase(c) /\ UpdateRunPhase(calls[c].run, "publishing") /\ Go(c, "claim")
  <2>1. calls[c].pc = "phase" /\ Running(calls[c].run) /\ UNCHANGED pubs
    BY <1>1 DEF PublishingPhase, At, UpdateRunPhase
  <2>2. calls'[c].run = calls[c].run
    BY <1>0, <1>1 DEF Go, Call
  <2> QED
    BY <1>0, <2>1, <2>2, OwnedFormed DEF Unowned
<1>2. CASE Turns(c)
  BY <1>0, <1>2 DEF Turns, Progress, AtWork
<1>3. CASE Renders(c)
  <2>1. calls'[c].pc = "phase"
    BY <1>0, <1>3 DEF Renders, Finalize, Call
  <2> QED
    BY <2>1
<1>4. CASE \/ Claiming(c) \/ CreatePart(c) \/ UpdatePart(c) \/ Fails(c) \/ MarkPosted(c)
           \/ Rewrites(c) \/ CleanupFails(c) \/ BeginFailStale(c)
  <2>1. Session(calls[c].run).pc = "session"
    BY IdleFormed DEF Session, Idle, Call
  <2>2. BeforeClaimAt(calls'[c])
    BY DEF BeforeClaimAt, Unowned, Holding, PublishSteps
  <2> QED
    BY <1>4, <2>1, <2>2, LeavesEnded
<1>5. CASE Reads(c) /\ ~UpdatePart(c) /\ ~Go(c, "claim")
  <2>1. calls'[c].pc \in PublishSteps
    BY <1>0, <1>5 DEF Reads, Verify, List, Go, Call, PublishSteps
  <2> QED
    BY <2>1 DEF PublishSteps
<1>6. CASE Reads(c) /\ Go(c, "claim") /\ ~UpdatePart(c)
  <2>1. \/ PublishingPhase(c) /\ UpdateRunPhase(calls[c].run, "publishing")
        \/ calls'[c].pc \in PublishSteps
    BY <1>0, <1>6 DEF Reads, Verify, List, Go, Call, PublishSteps
  <2> QED
    BY <1>1, <1>6, <2>1 DEF PublishSteps
<1> QED
  BY <1>1, <1>2, <1>3, <1>4, <1>5, <1>6 DEF StepOf

\* Only a review that is rendered comes to the publishing phase.
LEMMA ComesToPhase ==
    ASSUME PublicationInv, RunsGrow, subjects \in Seq(Snapshots), NEW c \in Calls, StepOf(c),
           calls'[c].pc = "phase"
    PROVE  pubs'[calls'[c].run].status # "none"
<1>0. calls \in [Calls -> Call] /\ calls[c] \in Call
  BY DEF PublicationInv, CallsFormed
<1>1. CASE Turns(c)
  <2>1. PICK k \in Call : Progress(c, k) /\ (k.pc = "phase" => pubs[k.run].status # "none")
    BY <1>1 DEF Turns
  <2>2. calls'[c] = k /\ UNCHANGED pubs
    BY <1>0, <1>1, <2>1 DEF Progress, Turns
  <2> QED
    BY <2>1, <2>2
<1>2. CASE Renders(c)
  <2>1. calls[c].run \in Runs
    BY <1>2, OwnedFormed DEF RunsGrow, Renders, Finalize, At, Unowned
  <2>2. pubs'[calls[c].run].status = "generated"
    BY <1>2, <2>1, RendersRow DEF Rendered
  <2>3. calls'[c].run = calls[c].run
    BY <1>0, <1>2 DEF Renders, Finalize, Call
  <2> QED
    BY <2>2, <2>3
<1>3. CASE \/ Claiming(c) \/ CreatePart(c) \/ UpdatePart(c) \/ Fails(c) \/ MarkPosted(c)
           \/ Rewrites(c) \/ CleanupFails(c) \/ BeginFailStale(c)
  <2>1. Session(calls[c].run).pc = "session"
    BY IdleFormed DEF Session, Idle, Call
  <2>2. BeforeClaimAt(calls'[c])
    BY DEF BeforeClaimAt, Unowned, Holding, PublishSteps
  <2> QED
    BY <1>3, <2>1, <2>2, LeavesEnded
<1>4. CASE Reads(c) /\ ~UpdatePart(c)
  <2>1. calls'[c].pc \in PublishSteps \cup {"claim"}
    BY <1>0, <1>4 DEF Reads, PublishingPhase, Verify, List, Go, Call, PublishSteps
  <2> QED
    BY <2>1 DEF PublishSteps
<1> QED
  BY <1>1, <1>2, <1>3, <1>4 DEF StepOf

\* A step that brings no review out.
LedgerStays ==
    /\ Published' = Published /\ Count' = Count
    /\ \A r \in Published : /\ pubs'[r].number = pubs[r].number
                            /\ pubs'[r].by = pubs[r].by
                            /\ pubs'[r].status = pubs[r].status

LEMMA QuietRows ==
    ASSUME LedgerRows,
           \A r \in Runs :
              /\ pubs'[r].ids = pubs[r].ids /\ pubs'[r].by = pubs[r].by
              /\ r \in Published => /\ pubs'[r].status = pubs[r].status
                                    /\ pubs'[r].number = pubs[r].number
              /\ pubs'[r].number <= Count + 1
              /\ pubs'[r].status # "none" => pubs'[r].number >= 1
    PROVE  LedgerRows' /\ LedgerStays
<1>1. Published' = Published
  BY DEF Published
<1>2. Count' = Count
  BY <1>1 DEF Count
<1>3. Published \subseteq Runs /\ \A r \in Published : pubs[r].ids # <<>>
  BY DEF Published
<1>4. /\ \A r \in Runs : /\ pubs'[r].status # "none" => pubs'[r].number >= 1
                        /\ pubs'[r].ids # <<>> => pubs'[r].status = "posted"
                        /\ pubs'[r].number <= Count' + 1
      /\ \A r \in Published' : pubs'[r].number <= Count'
  BY <1>1, <1>2, <1>3 DEF LedgerRows, Published
<1>5. /\ \A n \in 1..Count' : \E r \in Published' : pubs'[r].number = n
      /\ \A q, r \in Published' : pubs'[q].number = pubs'[r].number => q = r
  BY <1>1, <1>2, <1>3 DEF LedgerRows
<1> QED
  BY <1>1, <1>2, <1>3, <1>4, <1>5 DEF LedgerRows, LedgerStays

LEMMA RowsStep ==
    ASSUME DeliveryInv, RunsInv, LedgerInv, "cleanup" \notin FaultPoints,
           NEW c \in Calls, StepOf(c), ~MarkPosted(c)
    PROVE  LedgerRows' /\ LedgerStays
<1>0. /\ PublicationInv /\ subjects \in Seq(Snapshots) /\ pubs \in [Runs -> PubRow]
      /\ NumbersBounded
  BY DEF DeliveryInv, PublicationInv, RowsFormed, SideInv
<1>1. ASSUME NEW r \in Runs, pubs[r].ids # <<>>
      PROVE  pubs'[r].status = pubs[r].status /\ ~Rendered(r)
  <2>1. pubs[r].status = "posted"
    BY <1>1 DEF LedgerInv, LedgerRows
  <2>2. ~(r = calls[c].run /\ Holds(c) /\ calls[c].pc \in PublishSteps)
    BY <1>1 DEF LedgerInv, LedgerCalls, ClaimsAt, Holds, HoldsAt
  <2>3. ~CleanupFails(c)
    BY DEF CleanupFails
  <2> QED
    BY <1>0, <2>1, <2>2, <2>3, StatusSteps DEF ReadyToPost, Rendered
<1>2. ASSUME NEW r \in Runs, Rendered(r)
      PROVE  pubs'[r].number >= 1 /\ pubs'[r].number <= Count + 1
  <2>1. /\ NextNumber \in Nat \ {0}
        /\ NextNumber = 1 \/ \E q \in Runs : Posted(q) /\ pubs[q].number = NextNumber - 1
    BY <1>0, NextNumberIs
  <2>2. \A q \in Runs : Posted(q) => pubs[q].number <= Count
    BY DEF Posted, Published, LedgerInv, LedgerRows
  <2>3. Count \in Nat
    BY CountIs
  <2> QED
    BY <1>2, <2>1, <2>2, <2>3 DEF Rendered
<1>3. ASSUME NEW r \in Runs, ~Rendered(r), pubs'[r].status # "none"
      PROVE  pubs[r].status # "none"
  <2>1. ~(r = calls[c].run /\ Holds(c) /\ calls[c].pc \in PublishSteps /\ pubs[r].status = "none")
    BY DEF LedgerInv, LedgerCalls, ClaimsAt, Holds, HoldsAt
  <2>2. ~CleanupFails(c)
    BY DEF CleanupFails
  <2> QED
    BY <1>0, <1>3, <2>1, <2>2, StatusSteps DEF ReadyToPost
<1>4. ASSUME NEW r \in Runs
      PROVE  /\ pubs'[r].ids = pubs[r].ids /\ pubs'[r].by = pubs[r].by
             /\ Rendered(r) \/ pubs'[r].number = pubs[r].number
  BY <1>0, RowSteps
<1>5. \A r \in Runs :
        /\ pubs'[r].ids = pubs[r].ids /\ pubs'[r].by = pubs[r].by
        /\ r \in Published => /\ pubs'[r].status = pubs[r].status
                              /\ pubs'[r].number = pubs[r].number
        /\ pubs'[r].number <= Count + 1
        /\ pubs'[r].status # "none" => pubs'[r].number >= 1
  BY <1>1, <1>2, <1>3, <1>4 DEF LedgerInv, LedgerRows, Published
<1> QED
  BY <1>5, QuietRows DEF LedgerInv

\* What LedgerCalls says of one call.
InOrder(k) ==
    /\ k.pc \in {"phase", "claim"} => pubs[k.run].status # "none"
    /\ ClaimsAt(k) => pubs[k.run].ids = <<>> /\ pubs[k.run].status # "none"
    /\ ClaimsAt(k) \/ k.pc = "claim" =>
         (pubs[k.run].number = Count + 1 => \A q \in Published : q < k.run)

LEMMA CallsInOrder == LedgerCalls <=> \A c \in Calls : InOrder(calls[c])
BY DEF LedgerCalls, InOrder, At

\* The call that steps.
LEMMA MoverInOrder ==
    ASSUME DeliveryInv, RunsGrow, LedgerInv, NEW c \in Calls, StepOf(c), ~MarkPosted(c),
           LedgerStays
    PROVE  InOrder(calls[c])'
<1>0. /\ PublicationInv /\ RunsInv /\ calls \in [Calls -> Call] /\ subjects \in Seq(Snapshots)
      /\ pubs \in [Runs -> PubRow]
  BY DEF DeliveryInv, PublicationInv, CallsFormed, RowsFormed, SideInv, RunsGrow
<1>1. PICK k : MovesOn(c, k)
  BY <1>0, StepMoves
<1>2. calls'[c] = k
  BY <1>0, <1>1 DEF MovesOn
<1> DEFINE r == calls[c].run
<1>3. ASSUME ClaimsAt(k)
      PROVE  /\ k.run = r /\ r \in Runs /\ (ClaimsAt(calls[c]) \/ Claiming(c))
             /\ calls[c].pc # "finalize"
  <2>1. HoldsAt(k) /\ k.pc \notin Finishing
    BY <1>3 DEF ClaimsAt, HoldsAt, Holding, Finishing, PublishSteps
  <2>2. k.run = r /\ (Holds(c) \/ Claiming(c)) /\ calls[c].pc \notin Finishing
    BY <1>1, <2>1 DEF MovesOn
  <2>3. ClaimsAt(calls[c]) \/ Claiming(c)
    BY <2>2 DEF Holds, HoldsAt, Holding, Finishing, ClaimsAt
  <2>4. calls[c].pc \notin Unowned \cup {"finalize"}
    BY <2>3 DEF ClaimsAt, Claiming, Claim, At, PublishSteps, Unowned
  <2> QED
    BY <1>0, <2>2, <2>3, <2>4, OwnedFormed
<1>4. ASSUME ClaimsAt(k)
      PROVE  /\ pubs'[r].ids = pubs[r].ids /\ pubs'[r].number = pubs[r].number
             /\ pubs[r].status # "none" => pubs'[r].status # "none"
  <2>1. ~Renders(c)
    BY <1>3, <1>4 DEF Renders, Finalize, At
  <2> QED
    BY <1>0, <1>3, <1>4, <2>1, RowSteps, StatusSteps DEF Released, Rendered
<1>5. ASSUME ClaimsAt(k), Claiming(c)
      PROVE  pubs[r].ids = <<>> /\ pubs[r].status # "none" /\ calls[c].pc = "claim"
  BY <1>3, <1>5 DEF Claiming, Claim, At, ReadyToPost, LedgerInv, LedgerRows
<1>6. ClaimsAt(k) => InOrder(k)'
  <2>1. ClaimsAt(k) => k.pc \notin {"phase", "claim"}
    BY DEF ClaimsAt, PublishSteps
  <2> QED
    BY <1>3, <1>4, <1>5, <2>1 DEF InOrder, LedgerStays, LedgerInv, LedgerCalls, At
<1>7. ASSUME k.pc = "claim"
      PROVE  \A q \in Published : q < k.run
  <2>1. /\ Running(r) /\ k.run = r /\ r \in Runs /\ r <= last
    BY <1>0, <1>2, <1>7, ComesToClaim
  <2>2. r = last
    BY <1>0, <2>1 DEF RunsInv, RunningIsNewest
  <2> SUFFICES ASSUME NEW q \in Published PROVE q < r
    BY <2>1
  <2>3. q \in Runs /\ RowFormed(pubs[q], q, last, runs, comments) /\ pubs[q].ids # <<>>
    BY <1>0 DEF Published, PublicationInv, RowsFormed
  <2>4. q <= last /\ runs[q].status \in Ended
    BY <2>3 DEF RowFormed
  <2>5. q # r
    BY <2>1, <2>4 DEF Running, Ended
  <2> QED
    BY <2>1, <2>2, <2>3, <2>4, <2>5, RunsAssumption DEF Runs
<1>8. k.pc \in {"phase", "claim"} => pubs'[k.run].status # "none"
  <2>1. k.pc = "phase" => pubs'[k.run].status # "none"
    BY <1>0, <1>2, ComesToPhase
  <2>2. ASSUME k.pc = "claim" PROVE pubs'[k.run].status # "none"
    <3>1. /\ calls[c].pc = "phase" /\ UNCHANGED pubs /\ k.run = r
      BY <1>0, <1>2, <2>2, ComesToClaim
    <3> QED
      BY <3>1 DEF LedgerInv, LedgerCalls, At
  <2> QED
    BY <2>1, <2>2
<1>9. k.pc = "claim" => InOrder(k)'
  BY <1>7, <1>8 DEF InOrder, ClaimsAt, PublishSteps, LedgerStays
<1>10. ~ClaimsAt(k) /\ k.pc # "claim" => InOrder(k)'
  BY <1>8 DEF InOrder
<1> QED
  BY <1>2, <1>6, <1>9, <1>10 DEF InOrder

LEMMA OthersInOrder ==
    ASSUME DeliveryInv, RunsInv, LedgerInv, NEW c \in Calls, StepOf(c),
           ~MarkPosted(c), LedgerStays, NEW d \in Calls, d # c
    PROVE  InOrder(calls[d])'
<1>0. /\ PublicationInv /\ calls \in [Calls -> Call] /\ subjects \in Seq(Snapshots)
  BY DEF DeliveryInv, PublicationInv, CallsFormed, SideInv
<1>1. calls'[d] = calls[d]
  BY <1>0, StepMoves DEF MovesOn
<1> DEFINE k == calls[d]
<1>2. CASE ~ClaimsAt(k) /\ k.pc \notin {"phase", "claim"}
  BY <1>1, <1>2 DEF InOrder
<1>3. CASE ClaimsAt(k) \/ k.pc \in {"phase", "claim"}
  <2>1. k.pc \notin Unowned
    BY <1>3 DEF ClaimsAt, PublishSteps, Unowned
  <2>2. k.run \in Runs
    BY <1>0, <2>1, OwnedFormed
  <2>3. InOrder(k)
    BY DEF LedgerInv, LedgerCalls, InOrder, At
\* The review is rendered, so nobody renders it again.
  <2>4. pubs[k.run].status # "none" /\ ~Rendered(k.run)
    BY <1>3, <2>3 DEF InOrder, Rendered
  <2>5. pubs'[k.run].ids = pubs[k.run].ids /\ pubs'[k.run].number = pubs[k.run].number
    BY <1>0, <2>2, <2>4, RowSteps
  <2>6. pubs'[k.run].status # "none"
    BY <1>0, <2>2, <2>4, StatusSteps DEF Released
  <2> QED
    BY <1>1, <2>3, <2>5, <2>6 DEF InOrder, LedgerStays
<1> QED
  BY <1>2, <1>3

\* The steps of nobody's review.
LEMMA NoneInOrder ==
    ASSUME DeliveryInv, RunsInv, LedgerInv, StepOfNone
    PROVE  LedgerInv' /\ LedgerStays
<1>0. pubs \in [Runs -> PubRow] /\ \A r \in Runs : pubs[r] \in PubRow
  BY DEF DeliveryInv, PublicationInv, RowsFormed
<1>1. CASE Elsewhere \/ Restart
  <2>1. UNCHANGED pubs
    BY <1>1, ElsewhereQuiet DEF Restart
  <2>2. Published' = Published
    BY <2>1 DEF Published
  <2>3. Count' = Count
    BY <2>2 DEF Count
  <2>4. LedgerRows'
    BY <2>1, <2>2, <2>3 DEF LedgerInv, LedgerRows
  <2>5. LedgerCalls'
    <3>1. CASE UNCHANGED calls
      BY <2>1, <2>2, <2>3, <3>1 DEF LedgerInv, LedgerCalls, At
    <3>2. CASE Restart
      BY <3>2, IdleFormed DEF Restart, LedgerCalls, At, ClaimsAt, PublishSteps
    <3> QED
      BY <1>1, <3>1, <3>2, ElsewhereQuiet
  <2> QED
    BY <2>1, <2>2, <2>3, <2>4, <2>5 DEF LedgerInv, LedgerStays
<1>2. CASE ReaperMarks
  <2>1. /\ calls' = calls
        /\ pubs' = [q \in Runs |-> IF q \in reaper /\ pubs[q].status = "posting"
                                   THEN [pubs[q] EXCEPT !.status = "publish_failed"]
                                   ELSE pubs[q]]
    BY <1>2 DEF ReaperMarks, ReapStale
  <2>2. ASSUME NEW r \in Runs
        PROVE  /\ pubs'[r].ids = pubs[r].ids /\ pubs'[r].by = pubs[r].by
               /\ pubs'[r].number = pubs[r].number
               /\ pubs[r].status # "posting" => pubs'[r].status = pubs[r].status
               /\ pubs[r].status = "none" <=> pubs'[r].status = "none"
    <3>1. pubs[r] \in PubRow
      BY <1>0
    <3> QED
      BY <2>1, <3>1 DEF PubRow
  <2>3. \A r \in Published : r \in Runs /\ pubs[r].status = "posted"
    BY DEF Published, LedgerInv, LedgerRows
  <2>4. LedgerRows' /\ LedgerStays
    <3>1. \A r \in Runs :
              /\ pubs'[r].ids = pubs[r].ids /\ pubs'[r].by = pubs[r].by
              /\ r \in Published => /\ pubs'[r].status = pubs[r].status
                                    /\ pubs'[r].number = pubs[r].number
              /\ pubs'[r].number <= Count + 1
              /\ pubs'[r].status # "none" => pubs'[r].number >= 1
      BY <2>2, <2>3 DEF LedgerInv, LedgerRows
    <3> QED
      BY <3>1, QuietRows DEF LedgerInv
  <2>5. ASSUME NEW c \in Calls
        PROVE  InOrder(calls[c])'
    <3>1. InOrder(calls[c])
      BY DEF LedgerInv, LedgerCalls, InOrder, At
    <3>2. CASE ~ClaimsAt(calls[c]) /\ calls[c].pc \notin {"phase", "claim"}
      BY <2>1, <3>2 DEF InOrder
    <3>3. CASE ClaimsAt(calls[c]) \/ calls[c].pc \in {"phase", "claim"}
      <4>1. calls[c].pc \notin Unowned
        BY <3>3 DEF ClaimsAt, PublishSteps, Unowned
      <4>2. calls[c].run \in Runs
        BY <4>1, OwnedFormed DEF DeliveryInv
      <4> QED
        BY <2>1, <2>2, <2>4, <3>1, <4>2 DEF InOrder, LedgerStays
    <3> QED
      BY <3>2, <3>3
  <2>6. LedgerCalls'
    BY <2>5 DEF LedgerCalls, InOrder, At
  <2> QED
    BY <2>4, <2>6 DEF LedgerInv
<1> QED
  BY <1>1, <1>2 DEF StepOfNone

\* A review that is marked has the next number and the newest run of all that
\* are out.
LEMMA MarksNext ==
    ASSUME DeliveryInv, RunsInv, LedgerInv, NEW c \in Calls, MarkPosted(c)
    PROVE  LET r == calls[c].run IN
           /\ r \in Runs /\ r \notin Published /\ pubs[r].number = Count + 1
           /\ \A q \in Published : q < r
           /\ Marked(r, calls[c].ids)
           /\ Published' = Published \cup {r} /\ Count' = Count + 1
<1> DEFINE r == calls[c].run
<1>0. PublicationInv /\ calls \in [Calls -> Call] /\ pubs \in [Runs -> PubRow]
  BY DEF DeliveryInv, PublicationInv, CallsFormed, RowsFormed
<1>1. calls[c].pc = "mark" /\ r \in Runs /\ Marked(r, calls[c].ids)
  BY <1>0, MarkPostedRow
<1>2. Formed(calls[c], last, runs, pubs, comments) /\ calls[c] \in Call
  BY <1>0 DEF PublicationInv, CallsFormed
<1>3. ClaimsAt(calls[c]) /\ Len(calls[c].ids) = Parts
  BY <1>1, <1>2 DEF Formed, ClaimsAt, PublishSteps
<1>4. pubs[r].ids = <<>> /\ pubs[r].status # "none"
  BY <1>3 DEF LedgerInv, LedgerCalls
<1>5. r \notin Published
  BY <1>4 DEF Published
<1>6. pubs[r].number = Count + 1
  <2>1. /\ Count \in Nat /\ pubs[r].number \in Nat /\ pubs[r].number >= 1
        /\ pubs[r].number <= Count + 1
    BY <1>0, <1>1, <1>4, CountIs DEF LedgerInv, LedgerRows, PubRow
  <2>2. ASSUME pubs[r].number <= Count
        PROVE  FALSE
    <3>1. PICK q \in Published : pubs[q].number = pubs[r].number
      BY <2>1, <2>2 DEF LedgerInv, LedgerRows
    <3>2. q \in Runs \ {r} /\ Posted(q)
      BY <1>5, <3>1 DEF Published, Posted, LedgerInv, LedgerRows
    <3> QED
      BY <1>1, <3>1, <3>2 DEF Marked, NumberTaken
  <2> QED
    BY <2>1, <2>2
<1>7. \A q \in Published : q < r
  BY <1>3, <1>6 DEF LedgerInv, LedgerCalls
<1>8. pubs'[r].ids # <<>>
  BY <1>1, <1>3, DeliveryAssumption DEF Marked
<1>9. Published' = Published \cup {r}
  BY <1>1, <1>8 DEF Published, Marked
<1>10. Count' = Count + 1
  BY <1>5, <1>9, CountIs, FS_AddElement DEF Count
<1> QED
  BY <1>1, <1>5, <1>6, <1>7, <1>9, <1>10

LEMMA MarkedInOrder ==
    ASSUME DeliveryInv, RunsInv, OneHolder, LedgerInv, NEW c \in Calls, MarkPosted(c)
    PROVE  LedgerInv'
<1> DEFINE r == calls[c].run
<1>0. /\ PublicationInv /\ calls \in [Calls -> Call] /\ pubs \in [Runs -> PubRow]
      /\ Count \in Nat /\ \A q \in Runs : pubs[q].number \in Nat
  BY CountIs DEF DeliveryInv, PublicationInv, CallsFormed, RowsFormed, PubRow
<1>1. /\ r \in Runs /\ r \notin Published /\ pubs[r].number = Count + 1
      /\ Marked(r, calls[c].ids)
      /\ Published' = Published \cup {r} /\ Count' = Count + 1
  BY MarksNext
<1>2. /\ pubs'[r].status = "posted" /\ pubs'[r].number = Count + 1
      /\ \A q \in Runs \ {r} : /\ pubs'[q].status = pubs[q].status /\ pubs'[q].ids = pubs[q].ids
                               /\ pubs'[q].number = pubs[q].number
  BY <1>1 DEF Marked
<1>3. LedgerRows'
  <2>1. \A q \in Runs : /\ pubs'[q].status # "none" => pubs'[q].number >= 1
                        /\ pubs'[q].ids # <<>> => pubs'[q].status = "posted"
                        /\ pubs'[q].number <= Count' + 1
    BY <1>0, <1>1, <1>2 DEF LedgerInv, LedgerRows
  <2>2. \A q \in Published : q \in Runs \ {r} /\ pubs[q].number <= Count
    BY <1>1 DEF Published, LedgerInv, LedgerRows
  <2>3. \A q \in Published' : pubs'[q].number <= Count'
    BY <1>0, <1>1, <1>2, <2>2
  <2>4. \A n \in 1..Count' : \E q \in Published' : pubs'[q].number = n
    <3> TAKE n \in 1..Count'
    <3>1. CASE n = Count + 1
      BY <1>1, <1>2, <3>1
    <3>2. CASE n # Count + 1
      <4>1. n \in 1..Count
        BY <1>0, <1>1, <3>2
      <4>2. PICK q \in Published : pubs[q].number = n
        BY <4>1 DEF LedgerInv, LedgerRows
      <4> QED
        BY <1>1, <1>2, <2>2, <4>2
    <3> QED
      BY <3>1, <3>2
  <2>5. \A p, q \in Published' : pubs'[p].number = pubs'[q].number => p = q
    <3>1. \A p, q \in Published : pubs[p].number = pubs[q].number => p = q
      BY DEF LedgerInv, LedgerRows
    <3>2. \A p \in Published : pubs'[p].number = pubs[p].number /\ pubs[p].number # Count + 1
      BY <1>0, <1>2, <2>2
    <3> QED
      BY <1>1, <1>2, <3>1, <3>2
  <2> QED
    BY <2>1, <2>3, <2>4, <2>5 DEF LedgerRows
<1>4. LedgerCalls'
  <2>1. PICK step \in {"supersede", "cleanup"} :
            calls' = [calls EXCEPT ![c] = [calls[c] EXCEPT !.pc = step]]
    BY DEF MarkPosted, Go
  <2>2. calls'[c].pc \in {"supersede", "cleanup"} /\ \A d \in Calls : d # c => calls'[d] = calls[d]
    BY <1>0, <2>1 DEF Call
  <2>3. InOrder(calls[c])'
    BY <2>2 DEF InOrder, ClaimsAt, PublishSteps
  <2>4. ASSUME NEW d \in Calls, d # c
        PROVE  InOrder(calls[d])'
    <3>1. CASE ~ClaimsAt(calls[d]) /\ calls[d].pc \notin {"phase", "claim"}
      BY <2>2, <2>4, <3>1 DEF InOrder
    <3>2. CASE ClaimsAt(calls[d]) \/ calls[d].pc \in {"phase", "claim"}
      <4>1. calls[d].pc \notin Unowned
        BY <3>2 DEF ClaimsAt, PublishSteps, Unowned
      <4>2. calls[d].run \in Runs
        BY <1>0, <4>1, OwnedFormed
      <4>3. InOrder(calls[d]) /\ pubs[calls[d].run].number <= Count + 1
        BY <4>2 DEF LedgerInv, LedgerCalls, LedgerRows, InOrder, At
      <4>4. CASE calls[d].run # r
        <5>1. pubs'[calls[d].run].number # Count' + 1
          BY <1>0, <1>1, <1>2, <4>2, <4>3, <4>4
        <5> QED
          BY <1>2, <2>2, <2>4, <4>2, <4>3, <4>4, <5>1 DEF InOrder
\* Nobody else holds the review that is marked; who comes to claim it finds it
\* posted, under a number that is no longer the next.
      <4>5. CASE calls[d].run = r
        <5>1. ~ClaimsAt(calls[d])
          <6>1. Holds(c)
            BY <1>0, OwnedFormed DEF MarkPosted, At, Unowned, Formed, PublishSteps, Holds, HoldsAt, Holding
          <6> QED
            BY <2>4, <4>5, <6>1 DEF OneHolder, Holds, HoldsAt, Holding, ClaimsAt
        <5>2. pubs'[r].number # Count' + 1 /\ pubs'[r].status # "none"
          BY <1>0, <1>1, <1>2
        <5> QED
          BY <2>2, <2>4, <4>5, <5>1, <5>2 DEF InOrder
      <4> QED
        BY <4>4, <4>5
    <3> QED
      BY <3>1, <3>2
  <2> QED
    BY <2>3, <2>4 DEF LedgerCalls, InOrder, At
<1> QED
  BY <1>3, <1>4 DEF LedgerInv

\* A step either marks a review or leaves the ledger as it is.
LEMMA LedgerNextStep ==
    ASSUME DeliveryInv, RunsGrow, StepOfNone \/ \E c \in Calls : StepOf(c),
           OneHolder, LedgerInv, "cleanup" \notin FaultPoints
    PROVE  LedgerInv' /\ (LedgerStays \/ \E c \in Calls : MarkPosted(c))
<1>0. RunsInv
  BY DEF RunsGrow
<1>1. ASSUME NEW c \in Calls, StepOf(c), ~MarkPosted(c)
      PROVE  LedgerInv' /\ LedgerStays
  <2>1. LedgerRows' /\ LedgerStays
    BY <1>0, <1>1, RowsStep
  <2>2. \A d \in Calls : InOrder(calls[d])'
    BY <1>0, <1>1, <2>1, MoverInOrder, OthersInOrder
  <2>3. LedgerCalls'
    BY <2>2 DEF LedgerCalls, InOrder, At
  <2> QED
    BY <2>1, <2>3 DEF LedgerInv
<1>2. ASSUME NEW c \in Calls, MarkPosted(c)
      PROVE  LedgerInv'
  BY <1>0, <1>2, MarkedInOrder
<1> QED
  BY <1>0, <1>1, <1>2, NoneInOrder

LEMMA LedgerBegins == DeliveryInit => LedgerInv /\ Published = {} /\ Count = 0 /\ Current = {}
<1> SUFFICES ASSUME DeliveryInit
             PROVE  LedgerInv /\ Published = {} /\ Count = 0 /\ Current = {}
  OBVIOUS
<1>1. \A r \in Runs : pubs[r] = NoPub
  BY DEF DeliveryInit
<1>2. Published = {} /\ Current = {}
  BY <1>1 DEF Published, Current, Posted, NoPub
<1>3. Count = 0
  BY <1>2, FS_EmptySet DEF Count
<1>4. \A c \in Calls : calls[c].pc = "idle"
  BY DEF DeliveryInit, Idle
<1> QED
  BY <1>1, <1>2, <1>3, <1>4 DEF LedgerInv, LedgerRows, LedgerCalls, NoPub, ClaimsAt,
     PublishSteps, At

\* The runs whose reviews came out with number n.
Named(n) == {r \in Published : pubs[r].number = n}

TheOne(S) == IF Cardinality(S) = 1 THEN CHOOSE r \in S : TRUE ELSE 0

LEMMA TheOneIs == ASSUME NEW r PROVE TheOne({r}) = r
<1>1. Cardinality({r}) = 1
  BY FS_Singleton
<1> QED
  BY <1>1 DEF TheOne

LEMMA RunOfReviewIs ==
    ASSUME NEW n
    PROVE  RunOfReview(n) = TheOne(Named(n)) /\ RunOfReview(n)' = TheOne(Named(n)')
BY DEF RunOfReview, TheOne, Named

LEMMA RunOfNumber ==
    ASSUME LedgerRows, NEW r \in Published
    PROVE  RunOfReview(pubs[r].number) = r
<1>1. Named(pubs[r].number) = {r}
  BY DEF LedgerRows, Named
<1> QED
  BY <1>1, RunOfReviewIs, TheOneIs

LedgerNow == [n \in 1..Count |-> RunOfReview(n)]

LEMMA LedgerIs ==
    ASSUME LedgerRows, Count \in Nat
    PROVE  /\ \A n \in 1..Count : RunOfReview(n) \in Published /\ pubs[RunOfReview(n)].number = n
           /\ DOMAIN LedgerNow = 1..Count /\ LedgerNow \in Seq(Published) /\ Len(LedgerNow) = Count
<1>1. ASSUME NEW n \in 1..Count
      PROVE  RunOfReview(n) \in Published /\ pubs[RunOfReview(n)].number = n
  <2>1. PICK r \in Published : pubs[r].number = n
    BY DEF LedgerRows
  <2> QED
    BY <2>1, RunOfNumber
<1> QED
  BY <1>1 DEF LedgerNow

\* A step that marks no review is none of the ledger.
LEMMA StaysUnseen ==
    ASSUME LedgerInv, LedgerStays, LedgerInv',
           \A r \in Runs \ Published : ~Posted(r) /\ ~Posted(r)'
    PROVE  LedgerNow' = LedgerNow /\ Current' = Current
<1>1. Published' = Published /\ Count' = Count /\ Count \in Nat
  BY CountIs DEF LedgerStays
<1>2. ASSUME NEW n \in 1..Count
      PROVE  RunOfReview(n)' = RunOfReview(n)
  <2>1. Named(n)' = Named(n)
    BY <1>1 DEF LedgerStays, Named
  <2> QED
    BY <2>1, RunOfReviewIs
<1>3. LedgerNow' = LedgerNow
  BY <1>1, <1>2 DEF LedgerNow
<1>4. ASSUME NEW r \in Runs
      PROVE  r \in Current' <=> r \in Current
  <2>1. CASE r \in Published
    <3>1. pubs'[r].ids # <<>> /\ pubs[r].ids # <<>>
      BY <1>1, <2>1 DEF Published
    <3> QED
      BY <2>1, <3>1 DEF Current, Posted, LedgerStays
  <2>2. CASE r \notin Published
    BY <2>2 DEF Current
  <2> QED
    BY <2>1, <2>2
<1> QED
  BY <1>3, <1>4 DEF Current

\* A mark publishes the review of its run.
LEMMA MarkPublishes ==
    ASSUME DeliveryInv, RunsInv, LedgerInv, LedgerInv', NEW c \in Calls, MarkPosted(c)
    PROVE  /\ calls[c].run \in Runs
           /\ \A n \in DOMAIN LedgerNow : LedgerNow[n] < calls[c].run
           /\ LedgerNow' = Append(LedgerNow, calls[c].run)
           /\ Current' = {calls[c].run}
<1> DEFINE r == calls[c].run
<1>0. pubs \in [Runs -> PubRow] /\ Count \in Nat
  BY CountIs DEF DeliveryInv, PublicationInv, RowsFormed
<1>1. /\ r \in Runs /\ r \notin Published /\ pubs[r].number = Count + 1
      /\ \A q \in Published : q < r
      /\ Marked(r, calls[c].ids)
      /\ Published' = Published \cup {r} /\ Count' = Count + 1
  BY MarksNext
<1>2. \A n \in DOMAIN LedgerNow : LedgerNow[n] < r
  BY <1>0, <1>1, LedgerIs DEF LedgerInv, LedgerNow
<1>3. ASSUME NEW n \in 1..Count
      PROVE  RunOfReview(n)' = RunOfReview(n)
  <2>1. pubs'[r].number # n
    BY <1>0, <1>1 DEF Marked
  <2>2. Named(n)' = Named(n)
    BY <1>1, <2>1 DEF Marked, Published, Named
  <2> QED
    BY <2>2, RunOfReviewIs
<1>4. ASSUME NEW n, n = Count + 1
      PROVE  RunOfReview(n)' = r
  <2>1. r \in Published' /\ pubs'[r].number = Count + 1 /\ LedgerRows'
    BY <1>1 DEF Marked, LedgerInv
  <2>2. \A q \in Published' : pubs'[q].number = n => q = r
    BY <1>4, <2>1 DEF LedgerRows
  <2>3. Named(n)' = {r}
    BY <1>4, <2>1, <2>2 DEF Named
  <2> QED
    BY <2>3, RunOfReviewIs, TheOneIs
<1>5. LedgerNow' = Append(LedgerNow, r)
  <2>1. LedgerNow' = [n \in 1..(Count + 1) |-> RunOfReview(n)']
    BY <1>1 DEF LedgerNow
  <2>2. LedgerNow \in Seq(Published) /\ Len(LedgerNow) = Count
    BY <1>0, LedgerIs DEF LedgerInv
  <2>3. Append(LedgerNow, r) = [n \in 1..(Count + 1) |-> IF n = Count + 1 THEN r ELSE LedgerNow[n]]
    BY <1>0, <2>2
  <2>4. \A n \in 1..Count : LedgerNow[n] = RunOfReview(n)
    BY DEF LedgerNow
  <2>5. \A n \in 1..(Count + 1) :
            RunOfReview(n)' = IF n = Count + 1 THEN r ELSE LedgerNow[n]
    <3> TAKE n \in 1..(Count + 1)
    <3>1. CASE n = Count + 1
      BY <1>4, <3>1
    <3>2. CASE n # Count + 1
      <4>1. n \in 1..Count
        BY <1>0, <3>2
      <4> QED
        BY <1>3, <2>4, <3>2, <4>1
    <3> QED
      BY <3>1, <3>2
  <2> QED
    BY <2>1, <2>3, <2>5
<1>6. Current' = {r}
  <2>1. pubs' = [q \in Runs |->
                  IF q = r
                  THEN [pubs[r] EXCEPT !.status = "posted", !.by = 0, !.ids = calls[c].ids]
                  ELSE IF pubs[q].status = "posted" /\ pubs[q].by = 0
                  THEN [pubs[q] EXCEPT !.by = r]
                  ELSE pubs[q]]
    BY DEF MarkPosted
  <2>2. ASSUME NEW q \in Runs, q # r
        PROVE  ~(pubs'[q].status = "posted" /\ pubs'[q].by = 0)
    <3>1. pubs[q] \in PubRow /\ r # 0
      BY <1>0, <1>1 DEF Runs
    <3> QED
      BY <2>1, <2>2, <3>1 DEF PubRow
  <2>3. pubs'[r].by = 0 /\ pubs'[r].status = "posted" /\ pubs'[r].ids # <<>>
    <3>1. pubs'[r].by = 0
      BY <1>0, <1>1, <2>1 DEF PubRow
    <3>2. pubs'[r].status = "posted" /\ pubs'[r].ids # <<>>
      BY <1>1 DEF Marked, Published
    <3> QED
      BY <3>1, <3>2
  <2> QED
    BY <1>1, <2>2, <2>3 DEF Current, Posted
<1> QED
  BY <1>1, <1>2, <1>5, <1>6

\* The ledger of publications implements ReviewLedger: reviews come out in the
\* order of their runs, each once, numbered without gap or reuse, and the
\* newest is the one shown as current, if the clean-up after a posted review
\* does not call it failed, and the gateway gives no run to a second session
\* or no live session is ever silent past the stale cutoff.
THEOREM ReviewsComeOutOnce ==
    ASSUME ~(ExtraSessions /\ Ageing), "cleanup" \notin FaultPoints
    PROVE  DeliverySpec => ReviewsComeOutInOrder
<1> DEFINE Inv == DeliveryInv /\ ClaimInv /\ LedgerInv
           shown == <<LedgerNow, Current>>
<1>1. DeliveryInit => Inv /\ Ledger!LedgerInit
  <2> SUFFICES ASSUME DeliveryInit PROVE Inv /\ Ledger!LedgerInit
    OBVIOUS
  <2>1. Inv /\ Published = {} /\ Count = 0 /\ Current = {}
    BY DeliveryInit_All, ClaimInit, LedgerBegins
  <2>2. LedgerNow = <<>>
    BY <2>1, LedgerIs DEF LedgerInv
  <2> QED
    BY <2>1, <2>2 DEF Ledger!LedgerInit, LedgerNow, Count
<1>2. Inv /\ [DeliveryNext]_vars => Inv' /\ [Ledger!LedgerNext]_shown
  <2> SUFFICES ASSUME Inv, [DeliveryNext]_vars PROVE Inv' /\ [Ledger!LedgerNext]_shown
    OBVIOUS
  <2>1. DeliveryInv' /\ ClaimInv' /\ RunsGrow
    BY DeliveryNext_All, ClaimNext
  <2>2. CASE UNCHANGED vars
    <3>1. UNCHANGED <<pubs, calls>>
      BY <2>2 DEF vars
    <3>2. Published' = Published
      BY <3>1 DEF Published
    <3>3. Count' = Count
      BY <3>2 DEF Count
    <3>4. LedgerInv'
      BY <3>1, <3>2, <3>3 DEF LedgerInv, LedgerRows, LedgerCalls, ClaimsAt, At
    <3>5. LedgerStays
      BY <3>1, <3>2, <3>3 DEF LedgerStays
    <3>6. UNCHANGED shown
      <4>1. \A r \in Runs \ Published : ~Posted(r) /\ ~Posted(r)'
        BY <3>1 DEF Published, Posted
      <4> QED
        BY <3>4, <3>5, <4>1, StaysUnseen
    <3> QED
      BY <2>1, <3>4, <3>6
  <2>3. CASE DeliveryNext
    <3>1. /\ LedgerInv' /\ OneHolder /\ RunsInv
          /\ LedgerStays \/ \E c \in Calls : MarkPosted(c)
      <4>1. StepOfNone \/ \E c \in Calls : StepOf(c)
        BY <2>1, <2>3, StepKinds
      <4> QED
        BY <2>1, <4>1, LedgerNextStep DEF ClaimInv, RunsGrow
    <3>2. CASE LedgerStays
      <4>1. \A r \in Runs \ Published : ~Posted(r) /\ ~Posted(r)'
        BY <3>2 DEF LedgerStays, Published, Posted
      <4> QED
        BY <2>1, <3>1, <3>2, <4>1, StaysUnseen
    <3>3. ASSUME NEW c \in Calls, MarkPosted(c)
          PROVE  Ledger!LedgerNext
      <4> DEFINE r == calls[c].run
      <4>1. /\ r \in 1..MaxRuns
            /\ \A n \in DOMAIN LedgerNow : LedgerNow[n] < r
            /\ LedgerNow' = Append(LedgerNow, r) /\ Current' = {r}
        BY <3>1, <3>3, MarkPublishes DEF Runs
      <4>2. Ledger!Publish(r)
        BY <4>1 DEF Ledger!Publish, LedgerNow, Count
      <4> QED
        BY <4>1, <4>2 DEF Ledger!LedgerNext
    <3> QED
      BY <2>1, <3>1, <3>2, <3>3
  <2> QED
    BY <2>2, <2>3
<1>3. [Ledger!LedgerNext]_shown <=>
          [Ledger!LedgerNext]_<<[n \in 1..Cardinality(Published) |-> RunOfReview(n)], Current>>
  BY DEF LedgerNow, Count
<1> QED
  BY <1>1, <1>2, <1>3, PTL DEF DeliverySpec, ReviewsComeOutInOrder, Ledger!LedgerSpec
=============================================================================

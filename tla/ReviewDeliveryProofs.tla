------------------------ MODULE ReviewDeliveryProofs ------------------------
(* Theorems of ReviewRuns, for any snapshots and any number of runs, and of *)
(* ReviewDelivery, for any number of calls, runs, comment parts, pushes,    *)
(* faults and restarts: every step of a handler, of the publisher, of the   *)
(* operator and of the environment is a transaction of review_runs or       *)
(* leaves that table alone, so what ReviewRuns promises holds of the whole  *)
(* delivery.                                                                *)
EXTENDS ReviewDelivery, TLAPS

-----------------------------------------------------------------------------
(* ReviewRuns: the run table by itself.                                     *)

\* The parts of the invariant that need each other: a row may only leave
\* "running" because the rows below the newest are never running.
RunsInv == RunsTypeOK /\ RunningIsNewest /\ OutcomeExplained

\* The columns of the row a terminal write leaves.
LEMMA FailedRow ==
    ASSUME NEW row \in RunRow, NEW code \in FailureCodes
    PROVE  /\ Failed(row, code) \in RunRow
           /\ Failed(row, code).status = "failed"
           /\ Failed(row, code).phase = "failed"
           /\ Failed(row, code).code = code
           /\ Failed(row, code).code # "none"
           /\ Failed(row, code).snap = row.snap
<1>1. code # "none"
  BY DEF FailureCodes
<1> QED
  BY <1>1 DEF Failed, RunRow

\* The columns of the row a new run gets.
NewRow(snap) == [NoRun EXCEPT !.status = "running", !.phase = "accepted",
                              !.snap = snap]

LEMMA NewRowOK ==
    ASSUME NEW snap \in Snapshots
    PROVE  /\ NewRow(snap) \in RunRow
           /\ NewRow(snap).status = "running"
           /\ NewRow(snap).phase = "accepted"
           /\ NewRow(snap).code = "none"
<1>1. NoRun \in RunRow /\ NoRun.code = "none"
  BY DEF NoRun, RunRow
<1> QED
  BY <1>1 DEF NewRow, RunRow, RunningPhases

\* The columns of a row after a heartbeat.
LEMMA HeartbeatRow ==
    ASSUME NEW row \in RunRow, NEW phase \in RunningPhases
    PROVE  LET new == [row EXCEPT !.phase = phase, !.stale = FALSE]
           IN  /\ new \in RunRow
               /\ new.status = row.status
               /\ new.phase = phase
               /\ new.code = row.code
               /\ new.snap = row.snap
BY DEF RunRow

\* The columns of a row after its review is posted.
LEMMA PostedRow ==
    ASSUME NEW row \in RunRow
    PROVE  LET new == [row EXCEPT !.status = "generated", !.phase = "posted",
                                  !.stale = FALSE]
           IN  /\ new \in RunRow
               /\ new.status = "generated"
               /\ new.phase = "posted"
               /\ new.code = row.code
               /\ new.snap = row.snap
BY DEF RunRow

\* The cutoff and the notice are columns no other depends on.
SameOutcome(new, row) ==
    /\ new \in RunRow
    /\ new.status = row.status
    /\ new.phase = row.phase
    /\ new.code = row.code
    /\ new.snap = row.snap

LEMMA QuietRow ==
    ASSUME NEW row \in RunRow, NEW b \in BOOLEAN
    PROVE  /\ SameOutcome([row EXCEPT !.stale = b], row)
           /\ SameOutcome([row EXCEPT !.notice = b], row)
BY DEF RunRow, SameOutcome

\* What a row may be, given the last id.
RowOK(row, r, n) ==
    /\ row.status = "none" <=> r > n
    /\ row.status = "running" =>
           r = n /\ row.phase \in RunningPhases /\ row.code = "none"
    /\ row.status = "generated" => row.phase = "posted" /\ row.code = "none"
    /\ row.status = "failed" => row.phase = "failed" /\ row.code # "none"

LEMMA SameOutcomeOK ==
    ASSUME NEW row, NEW new, NEW r, NEW n, SameOutcome(new, row), RowOK(row, r, n)
    PROVE  new \in RunRow /\ RowOK(new, r, n)
BY DEF SameOutcome, RowOK

\* The invariant, one row at a time.
LEMMA InvByRow ==
    RunsInv <=> /\ last \in 0..MaxRuns
                /\ runs \in [Runs -> RunRow]
                /\ \A r \in Runs : RowOK(runs[r], r, last)
BY DEF RunsInv, RunsTypeOK, RunningIsNewest, OutcomeExplained, RowOK, Running

LEMMA RunsInit_Inv == RunsInit => RunsInv
<1>1. /\ NoRun \in RunRow
      /\ \A r \in Runs : RowOK(NoRun, r, 0)
  BY RunsAssumption DEF NoRun, RunRow, RowOK, Runs
<1> QED
  BY <1>1, RunsAssumption, InvByRow DEF RunsInit

\* Every transaction keeps the invariant.
LEMMA RunsNext_Inv == RunsInv /\ [RunsNext]_runVars => RunsInv'
<1> SUFFICES ASSUME RunsInv, [RunsNext]_runVars
             PROVE  /\ last' \in 0..MaxRuns
                    /\ runs' \in [Runs -> RunRow]
                    /\ \A r \in Runs : RowOK(runs'[r], r, last')
  BY DEF RunsInv, RunsTypeOK, RunningIsNewest, OutcomeExplained, RowOK, Running
<1> DEFINE Goal == /\ last' \in 0..MaxRuns
                   /\ runs' \in [Runs -> RunRow]
                   /\ \A r \in Runs : RowOK(runs'[r], r, last')
<1> USE RunsAssumption
<1>0. /\ last \in 0..MaxRuns
      /\ runs \in [Runs -> RunRow]
      /\ \A r \in Runs : RowOK(runs[r], r, last)
  BY InvByRow
<1>c. {"snapshot_superseded", "stale_timeout"} \subseteq FailureCodes
  BY DEF FailureCodes
<1>1. ASSUME NEW snap \in Snapshots, StartRun(snap) PROVE Goal
  <2>1. last' = last + 1 /\ last' \in Runs
    BY <1>0, <1>1 DEF StartRun, Runs
  <2>2. runs' = [r \in Runs |->
                    IF r = last + 1 THEN NewRow(snap)
                    ELSE IF Running(r) THEN Failed(runs[r], "snapshot_superseded")
                    ELSE runs[r]]
    BY <1>1 DEF StartRun, NewRow
  <2>3. ASSUME NEW r \in Runs
        PROVE runs'[r] \in RunRow /\ RowOK(runs'[r], r, last')
    <3>1. CASE r = last + 1
      <4>1. runs'[r] = NewRow(snap)
        BY <2>2, <3>1
      <4>2. "accepted" \in RunningPhases
        BY DEF RunningPhases
      <4> QED
        BY <1>0, <2>1, <3>1, <4>1, <4>2, NewRowOK DEF RowOK
    <3>2. CASE r # last + 1 /\ Running(r)
      <4>1. runs'[r] = Failed(runs[r], "snapshot_superseded")
        BY <2>2, <3>2
      <4>2. r <= last
        BY <1>0, <3>2 DEF RowOK, Running, Runs
      <4> QED
        BY <1>0, <1>c, <2>1, <4>1, <4>2, FailedRow DEF RowOK, Runs
    <3>3. CASE r # last + 1 /\ ~Running(r)
      <4>1. runs'[r] = runs[r]
        BY <2>2, <3>3
      <4> QED
        BY <1>0, <2>1, <3>3, <4>1 DEF RowOK, Running, Runs
    <3> QED BY <3>1, <3>2, <3>3
  <2> QED BY <1>0, <2>1, <2>2, <2>3 DEF Runs
<1>2. ASSUME NEW r \in Runs, NEW phase \in RunningPhases, UpdateRunPhase(r, phase)
      PROVE Goal
  <2>1. runs' = [runs EXCEPT ![r] = [runs[r] EXCEPT !.phase = phase,
                                                    !.stale = FALSE]]
    BY <1>0, <1>2 DEF UpdateRunPhase
  <2> DEFINE new == [runs[r] EXCEPT !.phase = phase, !.stale = FALSE]
  <2>2. new \in RunRow /\ RowOK(new, r, last)
    <3>1. /\ new \in RunRow
          /\ new.status = runs[r].status /\ new.phase = phase
          /\ new.code = runs[r].code
      BY <1>0, HeartbeatRow
    <3> HIDE DEF new
    <3> QED BY <1>0, <1>2, <3>1 DEF UpdateRunPhase, RowOK, Running
  <2> QED BY <1>0, <1>2, <2>1, <2>2 DEF UpdateRunPhase
<1>3. ASSUME NEW r \in Runs, NEW code \in FailureCodes, FailRun(r, code)
      PROVE Goal
  BY <1>0, <1>3, FailedRow DEF FailRun, RowOK, Running
<1>4. ASSUME NEW r \in Runs, PostRun(r) PROVE Goal
  <2>1. Running(r) => runs' = [runs EXCEPT ![r] =
                          [runs[r] EXCEPT !.status = "generated",
                                          !.phase = "posted", !.stale = FALSE]]
    BY <1>0, <1>4 DEF PostRun
  <2> DEFINE new == [runs[r] EXCEPT !.status = "generated",
                                    !.phase = "posted", !.stale = FALSE]
  <2>2. new \in RunRow /\ (Running(r) => RowOK(new, r, last))
    BY <1>0, PostedRow DEF RowOK, Running
  <2> QED BY <1>0, <1>4, <2>1, <2>2 DEF PostRun
<1>5. ASSUME NEW r \in Runs, PassCutoff(r) PROVE Goal
  <2>1. runs' = [runs EXCEPT ![r] = [runs[r] EXCEPT !.stale = TRUE]]
    BY <1>0, <1>5 DEF PassCutoff
  <2> DEFINE new == [runs[r] EXCEPT !.stale = TRUE]
  <2>2. new \in RunRow /\ RowOK(new, r, last)
    <3>1. SameOutcome(new, runs[r])
      BY <1>0, QuietRow
    <3> QED BY <1>0, <3>1, SameOutcomeOK
  <2> QED BY <1>0, <1>5, <2>1, <2>2 DEF PassCutoff
<1>6. ASSUME NEW r \in Runs, RecordNotice(r) PROVE Goal
  <2>1. runs' = [runs EXCEPT ![r] = [runs[r] EXCEPT !.notice = TRUE]]
    BY <1>0, <1>6 DEF RecordNotice
  <2> DEFINE new == [runs[r] EXCEPT !.notice = TRUE]
  <2>2. new \in RunRow /\ RowOK(new, r, last)
    <3>1. SameOutcome(new, runs[r])
      BY <1>0, QuietRow
    <3> QED BY <1>0, <3>1, SameOutcomeOK
  <2> QED BY <1>0, <1>6, <2>1, <2>2 DEF RecordNotice
<1>7. ASSUME NEW found \in SUBSET Runs, FailStaleRuns(found) PROVE Goal
  BY <1>0, <1>c, <1>7, FailedRow DEF FailStaleRuns, StaleRuns, RowOK, Running
<1>8. CASE ClearNotices
  <2>1. ASSUME NEW r \in Runs
        PROVE  LET new == [runs[r] EXCEPT !.notice = FALSE]
               IN  new \in RunRow /\ RowOK(new, r, last)
    <3>1. SameOutcome([runs[r] EXCEPT !.notice = FALSE], runs[r])
      BY <1>0, QuietRow
    <3> QED BY <1>0, <3>1, SameOutcomeOK
  <2> QED BY <1>0, <1>8, <2>1 DEF ClearNotices
<1>9. CASE UNCHANGED runVars
  BY <1>0, <1>9 DEF runVars
<1> QED
  BY <1>1, <1>2, <1>3, <1>4, <1>5, <1>6, <1>7, <1>8, <1>9 DEF RunsNext

THEOREM RunsInvariant == RunsSpec => []RunsInv
<1>1. RunsInit => RunsInv
  BY RunsInit_Inv
<1>2. RunsInv /\ [RunsNext]_runVars => RunsInv'
  BY RunsNext_Inv
<1> QED
  BY <1>1, <1>2, PTL DEF RunsSpec

\* The rows of review_runs keep the values of their columns for every number
\* of runs (the transactions of memory_runs.py).
THEOREM RunsTypeCorrect == RunsSpec => []RunsTypeOK
<1>1. RunsInv => RunsTypeOK
  BY DEF RunsInv
<1> QED
  BY <1>1, RunsInvariant, PTL

\* At most one run of a pull request is running, and it is the newest, for
\* every number of runs and whoever calls start_run.
THEOREM NewestAlone == RunsSpec => []RunningIsNewest
<1>1. RunsInv => RunningIsNewest
  BY DEF RunsInv
<1> QED
  BY <1>1, RunsInvariant, PTL

\* Status, phase and failure code of a run always tell the same story.
THEOREM OutcomesExplained == RunsSpec => []OutcomeExplained
<1>1. RunsInv => OutcomeExplained
  BY DEF RunsInv
<1> QED
  BY <1>1, RunsInvariant, PTL

\* No transaction rewrites the outcome or the snapshot of a run.
LEMMA StepKeepsOutcome ==
    ASSUME RunsInv, [RunsNext]_runVars, NEW r \in Runs
    PROVE  /\ Terminal(r) => /\ runs'[r].status = runs[r].status
                             /\ runs'[r].code = runs[r].code
           /\ r <= last => runs'[r].snap = runs[r].snap
<1> USE RunsAssumption
<1>0. /\ last \in 0..MaxRuns /\ runs \in [Runs -> RunRow]
      /\ \A q \in Runs : (runs[q].status = "none") <=> (q > last)
  BY DEF RunsInv, RunsTypeOK
<1>2. {"snapshot_superseded", "stale_timeout"} \subseteq FailureCodes
  BY DEF FailureCodes
<1>3. Terminal(r) => ~Running(r) /\ r <= last
  BY <1>0 DEF Terminal, Running, Runs
<1>4. ASSUME NEW snap \in Snapshots, StartRun(snap)
      PROVE /\ r <= last /\ ~Running(r) => runs'[r] = runs[r]
            /\ r <= last => runs'[r].snap = runs[r].snap
  BY <1>0, FailedRow, <1>2, <1>4 DEF StartRun, Runs
<1>5. ASSUME NEW q \in Runs, NEW phase \in RunningPhases, UpdateRunPhase(q, phase)
      PROVE /\ ~Running(r) => runs'[r] = runs[r]
            /\ runs'[r].snap = runs[r].snap
  BY <1>0, <1>5 DEF UpdateRunPhase
<1>6. ASSUME NEW q \in Runs, NEW code \in FailureCodes, FailRun(q, code)
      PROVE /\ ~Running(r) => runs'[r] = runs[r]
            /\ runs'[r].snap = runs[r].snap
  BY <1>0, FailedRow, <1>6 DEF FailRun
<1>7. ASSUME NEW q \in Runs, PostRun(q)
      PROVE /\ ~Running(r) => runs'[r] = runs[r]
            /\ runs'[r].snap = runs[r].snap
  BY <1>0, <1>7 DEF PostRun, RunRow
<1>8. ASSUME NEW q \in Runs, PassCutoff(q)
      PROVE /\ ~Running(r) => runs'[r] = runs[r]
            /\ runs'[r].snap = runs[r].snap
  BY <1>0, <1>8 DEF PassCutoff, RunRow
<1>9. ASSUME NEW q \in Runs, RecordNotice(q)
      PROVE /\ runs'[r].status = runs[r].status
            /\ runs'[r].code = runs[r].code
            /\ runs'[r].snap = runs[r].snap
  BY <1>0, <1>9 DEF RecordNotice, RunRow
<1>10. ASSUME NEW found \in SUBSET Runs, FailStaleRuns(found)
       PROVE /\ ~Running(r) => runs'[r] = runs[r]
             /\ runs'[r].snap = runs[r].snap
  BY <1>0, FailedRow, <1>2, <1>3, <1>10 DEF FailStaleRuns, StaleRuns
<1>11. CASE ClearNotices
  BY <1>0, <1>11 DEF ClearNotices, RunRow
<1>12. CASE UNCHANGED runVars
  BY <1>12 DEF runVars
<1> QED
  BY <1>3, <1>4, <1>5, <1>6, <1>7, <1>8, <1>9, <1>10, <1>11, <1>12 DEF RunsNext

\* A run that ended keeps its outcome and every run its snapshot, for every
\* number of runs and any order of late completers (complete_run's "clean
\* no-op rather than a corruption").
THEOREM OutcomesAreFinal == RunsSpec => OutcomeIsFinal
<1>1. RunsInv /\ [RunsNext]_runVars =>
        [\A r \in Runs :
            /\ Terminal(r) => /\ runs'[r].status = runs[r].status
                              /\ runs'[r].code = runs[r].code
            /\ r <= last => runs'[r].snap = runs[r].snap]_runVars
  BY StepKeepsOutcome
<1> QED
  BY <1>1, RunsInvariant, PTL DEF RunsSpec, OutcomeIsFinal

-----------------------------------------------------------------------------
(* ReviewDelivery: every step is one of the run table, or leaves it alone.  *)

\* The steps at which a call has no run yet.
Unowned == {"idle", "begin_reap", "begin_fail", "begin_start"}

\* What the argument needs of a call; the columns it has no use for are only
\* said to be there.
Owns(k) ==
    /\ k \in [pc : Steps, run : 0..MaxRuns, goal : Goals, pull : PullStates,
              listed : {k.listed}, ids : {k.ids}, already : {k.already},
              terminal : {k.terminal}, stale : SUBSET Runs]
    /\ k.pc \notin Unowned => k.run \in Runs

\* A call past review_begin knows the run it works on.
CallsInv ==
    /\ last \in 0..MaxRuns
    /\ pr \in PullStates
    /\ reaper \subseteq Runs
    /\ calls = [c \in Calls |-> calls[c]]
    /\ \A c \in Calls : Owns(calls[c])

RunsStep == [RunsNext]_runVars

Moves(c) == \E k : Owns(k) /\ calls' = [calls EXCEPT ![c] = k]

-----------------------------------------------------------------------------
LEMMA IdleOwns == Owns(Idle)
<1>1. AnyPull \in PullStates
  BY DeliveryAssumption DEF AnyPull, PullStates
<1> QED
  BY <1>1, RunsAssumption DEF Owns, Idle, Steps, PublishSteps, Goals, Unowned

\* A call that gets a run owns it at any step.
LEMMA TakeOwns ==
    ASSUME NEW k, Owns(k), NEW r \in Runs, NEW step \in Steps
    PROVE  Owns([k EXCEPT !.pc = step, !.run = r])
<1>1. r \in 0..MaxRuns
  BY RunsAssumption DEF Runs
<1> QED
  BY <1>1 DEF Owns

LEMMA SessionOwns ==
    ASSUME NEW r \in Runs
    PROVE  Owns(Session(r))
<1>1. "session" \in Steps
  BY DEF Steps
<1> QED
  BY <1>1, IdleOwns, TakeOwns DEF Session

\* A call that owns a run may go to any step.
LEMMA GoOwns ==
    ASSUME NEW k, Owns(k), k.run \in Runs, NEW step \in Steps
    PROVE  Owns([k EXCEPT !.pc = step])
BY DEF Owns

LEMMA GoMoves ==
    ASSUME CallsInv, NEW c \in Calls, calls[c].run \in Runs, NEW step \in Steps,
           Go(c, step)
    PROVE  Moves(c)
<1> DEFINE k == [calls[c] EXCEPT !.pc = step]
<1>1. Owns(k)
  BY GoOwns DEF CallsInv
<1>2. calls' = [calls EXCEPT ![c] = k]
  BY DEF Go
<1> QED
  BY <1>1, <1>2 DEF Moves

LEMMA BecomeMoves ==
    ASSUME NEW c, NEW k, Owns(k), Become(c, k)
    PROVE  Moves(c)
BY DEF Moves, Become

LEMMA IdleMoves == ASSUME NEW c, Become(c, Idle) PROVE Moves(c)
BY IdleOwns, BecomeMoves

LEMMA SessionMoves ==
    ASSUME NEW c, NEW r \in Runs, Become(c, Session(r)) PROVE Moves(c)
BY SessionOwns, BecomeMoves

\* A call that moves keeps the invariant.
LEMMA MovesInv ==
    ASSUME CallsInv, NEW c \in Calls, Moves(c), last' \in 0..MaxRuns,
           pr' \in PullStates, reaper' \subseteq Runs
    PROVE  CallsInv'
<1>1. PICK k : Owns(k) /\ calls' = [calls EXCEPT ![c] = k]
  BY DEF Moves
<1> QED
  BY <1>1 DEF CallsInv, Owns

LEMMA OwnedRun ==
    ASSUME CallsInv, NEW c \in Calls, calls[c].pc \notin Unowned
    PROVE  calls[c].run \in Runs
BY DEF CallsInv, Owns

-----------------------------------------------------------------------------
\* The transactions of review_runs as steps of RunsNext.
LEMMA FailRunStep ==
    ASSUME NEW r \in Runs, NEW code \in FailureCodes, FailRun(r, code)
    PROVE  RunsStep
BY DEF RunsStep, RunsNext

LEMMA MarkRunFailedStep ==
    ASSUME NEW c \in Calls, calls[c].run \in Runs,
           NEW code \in FailureCodes, MarkRunFailed(c, code)
    PROVE  RunsStep
<1>1. CASE FailRun(calls[c].run, code)
  BY <1>1, FailRunStep
<1>2. CASE UNCHANGED runVars
  BY <1>2 DEF RunsStep
<1> QED
  BY <1>1, <1>2 DEF MarkRunFailed

LEMMA HandlerErrorStep ==
    ASSUME CallsInv, NEW c \in Calls, calls[c].run \in Runs,
           NEW code \in FailureCodes, HandlerError(c, code)
    PROVE  RunsStep /\ Moves(c)
<1>1. CASE MarkRunFailed(c, "review_failed") /\ Become(c, Idle)
  <2>1. "review_failed" \in FailureCodes
    BY DEF FailureCodes
  <2> QED BY <1>1, <2>1, MarkRunFailedStep, IdleMoves
<1>2. CASE Become(c, Session(calls[c].run)) /\ UNCHANGED runVars
  BY <1>2, SessionMoves DEF RunsStep
<1>3. CASE MarkRunFailed(c, code) /\ Go(c, "notice")
  <2>1. "notice" \in Steps
    BY DEF Steps
  <2> QED BY <1>3, <2>1, MarkRunFailedStep, GoMoves
<1> QED
  BY <1>1, <1>2, <1>3 DEF HandlerError

LEMMA LostRunStep ==
    ASSUME CallsInv, NEW c \in Calls, calls[c].run \in Runs, LostRun(c)
    PROVE  RunsStep /\ Moves(c)
<1>1. CASE Become(c, Idle) /\ UNCHANGED runVars
  BY <1>1, IdleMoves DEF RunsStep
<1>2. CASE HandlerError(c, "review_deliver_error")
  <2>1. "review_deliver_error" \in FailureCodes
    BY DEF FailureCodes
  <2> QED BY <1>2, <2>1, HandlerErrorStep
<1> QED
  BY <1>1, <1>2 DEF LostRun

LEMMA GivesUpStep ==
    ASSUME CallsInv, NEW c \in Calls, calls[c].run \in Runs,
           NEW status, NEW code \in FailureCodes, PublishGivesUp(c, status, code)
    PROVE  RunsStep /\ Moves(c)
<1>1. Moves(c)
  BY SessionMoves DEF PublishGivesUp
<1>2. CASE UNCHANGED runVars
  BY <1>1, <1>2 DEF RunsStep
<1>3. CASE FailRun(calls[c].run, code)
  BY <1>1, <1>3, FailRunStep
<1> QED
  BY <1>2, <1>3 DEF PublishGivesUp, MarkFailed

LEMMA PhaseStep ==
    ASSUME NEW r \in Runs, NEW phase \in RunningPhases, UpdateRunPhase(r, phase)
    PROVE  RunsStep
BY DEF RunsStep, RunsNext

LEMMA NoticeStep ==
    ASSUME NEW r \in Runs, PersistNotice(r)
    PROVE  RunsStep
BY DEF PersistNotice, RunsStep, RunsNext

LEMMA PartMoves ==
    ASSUME CallsInv, NEW c \in Calls, calls[c].run \in Runs, NEW id, PartDone(c, id)
    PROVE  Moves(c)
<1> DEFINE k1 == [calls[c] EXCEPT !.ids = Append(@, id)]
           k2 == [calls[c] EXCEPT !.ids = Append(@, id), !.pc = "mark"]
<1>1. Owns(calls[c]) /\ "mark" \in Steps
  BY DEF CallsInv, Steps
<1>2. Owns(k1) /\ Owns(k2)
  BY <1>1 DEF Owns
<1>3. CASE calls' = [calls EXCEPT ![c] = k1]
  BY <1>2, <1>3 DEF Moves
<1>4. CASE Become(c, Session(calls[c].run))
  BY <1>4, SessionMoves
<1>5. CASE calls' = [calls EXCEPT ![c] = k2]
  BY <1>2, <1>5 DEF Moves
<1> QED
  BY <1>3, <1>4, <1>5 DEF PartDone

-----------------------------------------------------------------------------
\* What one step of a call is for the run table.
CallStep(c) == RunsStep /\ Moves(c) /\ UNCHANGED <<pr, reaper>>

LEMMA BeginStep ==
    ASSUME CallsInv, NEW c \in Calls,
           \/ BeginFetch(c) \/ BeginReap(c) \/ BeginFailStale(c)
           \/ BeginDuplicate(c) \/ BeginStart(c) \/ BeginPhase(c)
    PROVE  CallStep(c)
<1> USE DEF CallStep
<1>0. Owns(calls[c])
  BY DEF CallsInv
<1>1. CASE BeginFetch(c)
  <2> DEFINE k == [Idle EXCEPT !.pc = "begin_reap", !.pull = pr,
                               !.goal = "collecting_diff"]
  <2>1. Owns(k)
    BY IdleOwns DEF Owns, CallsInv, Steps, Goals, Unowned
  <2> QED BY <1>1, <2>1, BecomeMoves DEF BeginFetch, RunsStep
<1>2. CASE BeginReap(c)
  <2> DEFINE k(step) == [calls[c] EXCEPT !.pc = step, !.stale = StaleRuns]
  <2>1. Owns(k("begin_start")) /\ Owns(k("begin_fail"))
    BY <1>0 DEF Owns, Steps, Unowned, StaleRuns
  <2>2. \/ calls' = [calls EXCEPT ![c] = k("begin_start")]
        \/ calls' = [calls EXCEPT ![c] = k("begin_fail")]
    BY <1>2 DEF BeginReap
  <2>3. Moves(c)
    BY <2>1, <2>2 DEF Moves
  <2> QED BY <1>2, <2>3 DEF BeginReap, RunsStep
<1>6. CASE BeginFailStale(c)
  <2> DEFINE k == [calls[c] EXCEPT !.pc = "begin_start", !.stale = {}]
  <2>1. Owns(k)
    BY <1>0 DEF Owns, Steps, Unowned
  <2>2. calls' = [calls EXCEPT ![c] = k]
    BY <1>6 DEF BeginFailStale
  <2>3. Moves(c)
    BY <2>1, <2>2 DEF Moves
  <2>4. calls[c].stale \in SUBSET Runs
    BY <1>0 DEF Owns
  <2>5. RunsStep
    BY <1>6, <2>4 DEF BeginFailStale, ReapStale, RunsStep, RunsNext
  <2> QED BY <1>6, <2>3, <2>5 DEF BeginFailStale
<1>3. CASE BeginDuplicate(c)
  <2>1. (CHOOSE r \in Runs : Running(r)) \in Runs
    BY <1>3 DEF BeginDuplicate, IsDuplicate
  <2> QED BY <1>3, <2>1, IdleMoves, SessionMoves DEF BeginDuplicate, RunsStep
<1>4. CASE BeginStart(c)
  <2> DEFINE k == [calls[c] EXCEPT !.pc = "begin_phase", !.run = last + 1]
  <2>1. last + 1 \in Runs
    BY <1>4, RunsAssumption DEF BeginStart, StartRun, CallsInv, Runs
  <2>2. Owns(k)
    BY <1>0, <2>1, TakeOwns DEF Steps
  <2>3. Moves(c)
    BY <1>4, <2>2 DEF BeginStart, Moves
  <2>4. calls[c].pull.snap \in Snapshots
    BY <1>0 DEF Owns, PullStates
  <2>5. RunsStep
    BY <1>4, <2>4 DEF BeginStart, RunsStep, RunsNext
  <2> QED BY <1>4, <2>3, <2>5 DEF BeginStart
<1>5. CASE BeginPhase(c)
  <2>1. calls[c].run \in Runs
    BY <1>5, OwnedRun DEF BeginPhase, At, Unowned
  <2>2. "fetching_pr" \in RunningPhases /\ "fetch" \in Steps
    BY DEF RunningPhases, Steps
  <2> QED BY <1>5, <2>1, <2>2, PhaseStep, GoMoves, LostRunStep DEF BeginPhase
<1> QED
  BY <1>1, <1>2, <1>3, <1>4, <1>5, <1>6

LEMMA SessionStep ==
    ASSUME CallsInv, NEW c \in Calls,
           \/ EndTurn(c) \/ SnapshotFetch(c) \/ SnapshotValidate(c) \/ Record(c)
           \/ \E goal \in Goals : Work(c, goal)
    PROVE  CallStep(c)
<1> USE DEF CallStep
<1>0. Owns(calls[c])
  BY DEF CallsInv
<1>1. CASE EndTurn(c)
  BY <1>1, IdleMoves DEF EndTurn, RunsStep
<1>2. CASE SnapshotFetch(c)
  <2>1. calls[c].run \in Runs
    BY <1>2, OwnedRun DEF SnapshotFetch, At, Unowned
  <2> DEFINE k == [calls[c] EXCEPT !.pc = "validate", !.pull = pr]
  <2>2. Owns(k)
    BY <1>0, <2>1 DEF Owns, CallsInv, Steps
  <2>3. CASE calls' = [calls EXCEPT ![c] = k] /\ UNCHANGED runVars
    BY <1>2, <2>2, <2>3 DEF SnapshotFetch, Moves, RunsStep
  <2> QED BY <1>2, <2>1, <2>3, LostRunStep DEF SnapshotFetch
<1>3. CASE SnapshotValidate(c)
  <2>1. calls[c].run \in Runs
    BY <1>3, OwnedRun DEF SnapshotValidate, At, Unowned
  <2>2. CASE LostRun(c)
    BY <1>3, <2>1, <2>2, LostRunStep DEF SnapshotValidate
  <2>3. CASE /\ FailRun(calls[c].run, "snapshot_superseded")
             /\ calls' = [calls EXCEPT ![c].pc = "notice", ![c].terminal = TRUE]
    <3> DEFINE k == [calls[c] EXCEPT !.pc = "notice", !.terminal = TRUE]
    <3>1. Owns(k)
      BY <1>0, <2>1 DEF Owns, Steps
    <3>2. Moves(c)
      BY <2>3, <3>1 DEF Moves
    <3>3. "snapshot_superseded" \in FailureCodes
      BY DEF FailureCodes
    <3> QED BY <1>3, <2>1, <2>3, <3>2, <3>3, FailRunStep DEF SnapshotValidate
  <2>4. CASE /\ UpdateRunPhase(calls[c].run, calls[c].goal)
             /\ \/ Go(c, "finalize")
                \/ Go(c, "record")
                \/ Become(c, Session(calls[c].run))
    <3>1. calls[c].goal \in RunningPhases
      BY <1>0 DEF Owns, Goals, RunningPhases
    <3>2. "finalize" \in Steps /\ "record" \in Steps
      BY DEF Steps
    <3>3. Moves(c)
      BY <2>1, <2>4, <3>2, GoMoves, SessionMoves
    <3> QED BY <1>3, <2>1, <2>4, <3>1, <3>3, PhaseStep DEF SnapshotValidate
  <2> QED BY <1>3, <2>2, <2>3, <2>4 DEF SnapshotValidate
<1>4. CASE Record(c)
  <2>1. calls[c].run \in Runs
    BY <1>4, OwnedRun DEF Record, At, Unowned
  <2> QED BY <1>4, <2>1, SessionMoves DEF Record, RunsStep
<1>5. ASSUME NEW goal \in Goals, Work(c, goal)
      PROVE  CallStep(c)
  <2>1. calls[c].run \in Runs
    BY <1>5, OwnedRun DEF Work, At, Unowned
  <2> DEFINE k == [calls[c] EXCEPT !.pc = "fetch", !.goal = goal]
  <2>2. Owns(k)
    BY <1>0, <2>1 DEF Owns, Steps
  <2>3. calls' = [calls EXCEPT ![c] = k]
    BY <1>5 DEF Work
  <2>4. Moves(c)
    BY <2>2, <2>3 DEF Moves
  <2> QED BY <1>5, <2>4 DEF Work, RunsStep
<1> QED
  BY <1>1, <1>2, <1>3, <1>4, <1>5

LEMMA DeliverStep ==
    ASSUME CallsInv, NEW c \in Calls,
           Finalize(c) \/ FinalizeConflict(c) \/ FinalizeRefused(c)
             \/ PublishingPhase(c) \/ Claim(c)
    PROVE  CallStep(c)
<1> USE DEF CallStep
<1>0. Owns(calls[c])
  BY DEF CallsInv
<1>a. calls[c].run \in Runs
  BY OwnedRun
     DEF Finalize, FinalizeConflict, FinalizeRefused, PublishingPhase, Claim,
         At, Unowned
<1>b. "review_deliver_error" \in FailureCodes
  BY DEF FailureCodes
<1>1. CASE Finalize(c)
  <2> DEFINE k == [calls[c] EXCEPT !.pc = "phase", !.pull = AnyPull]
  <2>1. AnyPull \in PullStates
    BY DeliveryAssumption DEF AnyPull, PullStates
  <2>2. Owns(k)
    BY <1>0, <1>a, <2>1 DEF Owns, Steps
  <2>3. calls' = [calls EXCEPT ![c] = k]
    BY <1>1 DEF Finalize
  <2>4. Moves(c)
    BY <2>2, <2>3 DEF Moves
  <2>5. UNCHANGED <<runVars, pr, reaper>>
    BY <1>1 DEF Finalize
  <2> QED BY <2>4, <2>5 DEF RunsStep
<1>2. CASE FinalizeConflict(c)
  <2>1. "reviewing" \in RunningPhases
    BY DEF RunningPhases
  <2>2. CASE UpdateRunPhase(calls[c].run, "reviewing")
    BY <1>2, <1>a, <2>1, <2>2, PhaseStep, SessionMoves, IdleMoves
       DEF FinalizeConflict
  <2>3. CASE UNCHANGED runVars
    BY <1>2, <1>a, <2>3, SessionMoves, IdleMoves DEF FinalizeConflict, RunsStep
  <2> QED BY <1>2, <2>2, <2>3 DEF FinalizeConflict
<1>3. CASE FinalizeRefused(c)
  BY <1>3, <1>a, <1>b, HandlerErrorStep DEF FinalizeRefused
<1>4. CASE PublishingPhase(c)
  <2>1. "publishing" \in RunningPhases /\ "claim" \in Steps
    BY DEF RunningPhases, Steps
  <2> QED BY <1>4, <1>a, <2>1, PhaseStep, GoMoves, LostRunStep
             DEF PublishingPhase
<1>5. CASE Claim(c)
  <2> DEFINE k == [calls[c] EXCEPT !.pc = "verify", !.already = TRUE]
  <2>1. "verify" \in Steps
    BY DEF Steps, PublishSteps
  <2>2. Owns(k)
    BY <1>0, <1>a, <2>1 DEF Owns
  <2>3. CASE calls' = [calls EXCEPT ![c] = k] /\ UNCHANGED runVars
    BY <1>5, <2>2, <2>3 DEF Claim, Moves, RunsStep
  <2>4. CASE Go(c, "verify") /\ UNCHANGED runVars
    BY <1>5, <1>a, <2>1, <2>4, GoMoves DEF Claim, RunsStep
  <2>5. CASE HandlerError(c, "review_deliver_error")
    BY <1>5, <1>a, <1>b, <2>5, HandlerErrorStep DEF Claim
  <2> QED BY <1>5, <2>3, <2>4, <2>5 DEF Claim
<1> QED
  BY <1>1, <1>2, <1>3, <1>4, <1>5

LEMMA PublishStep ==
    ASSUME CallsInv, NEW c \in Calls,
           \/ Verify(c, "verify", "list") \/ Verify(c, "reverify", "post")
           \/ OffTarget(c) \/ List(c) \/ NothingToRefresh(c)
           \/ UpdatePart(c) \/ CreatePart(c)
    PROVE  CallStep(c)
<1> USE DEF CallStep
<1>0. Owns(calls[c])
  BY DEF CallsInv
<1>a. calls[c].run \in Runs
  BY OwnedRun
     DEF Verify, OffTarget, List, NothingToRefresh, UpdatePart, CreatePart,
         Posting, At, Unowned
<1>b. "list" \in Steps /\ "post" \in Steps /\ "reverify" \in Steps
  BY DEF Steps, PublishSteps
<1>1. CASE Verify(c, "verify", "list") \/ Verify(c, "reverify", "post")
  BY <1>1, <1>a, <1>b, GoMoves DEF Verify, RunsStep
<1>2. CASE OffTarget(c)
  <2>1. "pull_request_changed" \in FailureCodes
    BY DEF FailureCodes
  <2> QED BY <1>2, <1>a, <2>1, GivesUpStep DEF OffTarget
<1>3. CASE List(c)
  <2> DEFINE n == Min({Len(comments), Window})
             k == [calls[c] EXCEPT !.pc = "reverify", !.listed = n]
  <2>1. Owns(k)
    <3> HIDE DEF n
    <3> QED BY <1>0, <1>a, <1>b DEF Owns
  <2>2. Moves(c)
    BY <1>3, <2>1 DEF List, Moves
  <2> QED BY <1>3, <2>2 DEF List, RunsStep
<1>4. CASE NothingToRefresh(c)
  BY <1>4, <1>a, SessionMoves DEF NothingToRefresh, RunsStep
<1>5. CASE UpdatePart(c)
  BY <1>5, <1>a, PartMoves DEF UpdatePart, RunsStep
<1>6. CASE CreatePart(c)
  BY <1>6, <1>a, PartMoves DEF CreatePart, RunsStep
<1> QED
  BY <1>1, <1>2, <1>3, <1>4, <1>5, <1>6

LEMMA MarkStep ==
    ASSUME CallsInv, NEW c \in Calls,
           \/ MarkPosted(c) \/ MarkRefused(c) \/ Supersede(c) \/ Cleanup(c)
           \/ PostNotice(c)
    PROVE  CallStep(c)
<1> USE DEF CallStep
<1>a. calls[c].run \in Runs
  BY OwnedRun
     DEF MarkPosted, MarkRefused, Supersede, Cleanup, PostNotice, At, Unowned
<1>b. "supersede" \in Steps /\ "cleanup" \in Steps
  BY DEF Steps
<1>1. CASE MarkPosted(c)
  <2>1. RunsStep
    BY <1>1, <1>a DEF MarkPosted, RunsStep, RunsNext
  <2>2. Moves(c)
    BY <1>1, <1>a, <1>b, GoMoves DEF MarkPosted
  <2> QED BY <1>1, <2>1, <2>2 DEF MarkPosted
<1>2. CASE MarkRefused(c)
  <2>1. /\ "review_deliver_error" \in FailureCodes
        /\ "unexpected_review_deliver_failure" \in FailureCodes
    BY DEF FailureCodes
  <2> QED BY <1>2, <1>a, <2>1, HandlerErrorStep DEF MarkRefused
<1>3. CASE Supersede(c)
  BY <1>3, <1>a, <1>b, GoMoves DEF Supersede, RunsStep
<1>4. CASE Cleanup(c)
  BY <1>4, <1>a, SessionMoves DEF Cleanup, RunsStep, RunsNext
<1>5. CASE PostNotice(c)
  <2>1. Moves(c)
    BY <1>5, <1>a, SessionMoves, IdleMoves DEF PostNotice, AfterNotice
  <2> QED BY <1>5, <1>a, <2>1, NoticeStep DEF PostNotice
<1> QED
  BY <1>1, <1>2, <1>3, <1>4, <1>5

LEMMA FalterStep ==
    ASSUME CallsInv, NEW c \in Calls, Falter(c)
    PROVE  CallStep(c)
<1> USE DEF CallStep
<1>a. calls[c].run \in Runs
  BY OwnedRun
     DEF Falter, SnapshotFetchFails, PublishFails, PublishCrashes,
         SupersedeFails, CleanupFails, PostNoticeFails, PublishSteps, At, Unowned
<1>b. /\ "review_deliver_error" \in FailureCodes
      /\ "unexpected_review_deliver_failure" \in FailureCodes
      /\ "publish_failed" \in FailureCodes
  BY DEF FailureCodes
<1>1. CASE SnapshotFetchFails(c)
  BY <1>1, <1>a, <1>b, HandlerErrorStep DEF SnapshotFetchFails
<1>2. CASE PublishFails(c)
  BY <1>2, <1>a, <1>b, GivesUpStep DEF PublishFails
<1>3. CASE PublishCrashes(c)
  BY <1>3, <1>a, <1>b, HandlerErrorStep DEF PublishCrashes
<1>4. CASE SupersedeFails(c)
  <2>1. "cleanup" \in Steps
    BY DEF Steps
  <2> QED BY <1>4, <1>a, <2>1, GoMoves DEF SupersedeFails, RunsStep
<1>5. CASE CleanupFails(c)
  <2>1. RunsStep
    BY <1>5 DEF CleanupFails, RunsStep, RunsNext
  <2>2. Moves(c)
    BY <1>5, <1>a, SessionMoves DEF CleanupFails
  <2> QED BY <1>5, <2>1, <2>2 DEF CleanupFails
<1>6. CASE PostNoticeFails(c)
  BY <1>6, <1>a, SessionMoves, IdleMoves
     DEF PostNoticeFails, AfterNotice, RunsStep
<1> QED
  BY <1>1, <1>2, <1>3, <1>4, <1>5, <1>6 DEF Falter

-----------------------------------------------------------------------------
LEMMA LastStays ==
    ASSUME last \in 0..MaxRuns, RunsStep
    PROVE  last' \in 0..MaxRuns
<1>1. last' = last \/ (last < MaxRuns /\ last' = last + 1)
  <2>1. CASE UNCHANGED runVars
    BY <2>1 DEF runVars
  <2>2. ASSUME NEW snap \in Snapshots, StartRun(snap)
        PROVE  last < MaxRuns /\ last' = last + 1
    BY <2>2 DEF StartRun
  <2>3. ASSUME NEW r \in Runs,
               \/ \E phase \in RunningPhases : UpdateRunPhase(r, phase)
               \/ \E code \in FailureCodes : FailRun(r, code)
               \/ PostRun(r) \/ PassCutoff(r) \/ RecordNotice(r)
        PROVE  last' = last
    BY <2>3 DEF UpdateRunPhase, FailRun, PostRun, PassCutoff, RecordNotice
  <2>4. CASE ClearNotices \/ \E found \in SUBSET Runs : FailStaleRuns(found)
    BY <2>4 DEF FailStaleRuns, ClearNotices
  <2> QED BY <2>1, <2>2, <2>3, <2>4 DEF RunsStep, RunsNext
<1> QED
  BY <1>1, RunsAssumption

\* The steps of no call.
LEMMA OtherStep ==
    ASSUME CallsInv,
           \/ ReaperFinds \/ ReaperMarks
           \/ (\E r \in Runs : ReaperPosts(r) \/ Silence(r))
           \/ (\E snap \in Snapshots : Push(snap)) \/ Close \/ Restart
    PROVE  RunsStep /\ CallsInv'
<1>1. CASE ReaperMarks
  <2>1. RunsStep
    BY <1>1 DEF ReaperMarks, ReapStale, RunsStep, RunsNext, CallsInv
  <2>2. pr' = pr /\ calls' = calls /\ reaper' = {}
    BY <1>1 DEF ReaperMarks
  <2> QED BY <2>1, <2>2, LastStays DEF CallsInv
<1>2. ASSUME NEW r \in Runs, ReaperPosts(r) \/ Silence(r)
      PROVE  RunsStep /\ CallsInv'
  <2>1. RunsStep
    BY <1>2, NoticeStep DEF ReaperPosts, Silence, RunsStep, RunsNext
  <2>2. pr' = pr /\ calls' = calls /\ reaper' = reaper
    BY <1>2 DEF ReaperPosts, Silence, others
  <2> QED BY <2>1, <2>2, LastStays DEF CallsInv
<1>6. CASE ReaperFinds
  BY <1>6 DEF ReaperFinds, CallsInv, RunsStep, runVars, StaleRuns
<1>3. ASSUME NEW snap \in Snapshots, Push(snap)
      PROVE  RunsStep /\ CallsInv'
  <2>1. pr' \in PullStates
    BY <1>3 DEF Push, CallsInv, PullStates
  <2> QED BY <1>3, <2>1 DEF Push, CallsInv, RunsStep, runVars
<1>4. CASE Close
  <2>1. pr' \in PullStates
    BY <1>4 DEF Close, CallsInv, PullStates
  <2> QED BY <1>4, <2>1 DEF Close, CallsInv, RunsStep, runVars
<1>5. CASE Restart
  BY <1>5, IdleOwns DEF Restart, CallsInv, RunsStep, runVars
<1> QED
  BY <1>1, <1>2, <1>3, <1>4, <1>5, <1>6

LEMMA DeliveryInit_Inv == DeliveryInit => CallsInv
<1> SUFFICES ASSUME DeliveryInit PROVE CallsInv
  OBVIOUS
<1>1. last \in 0..MaxRuns
  BY RunsAssumption DEF DeliveryInit, RunsInit
<1>2. pr \in PullStates
  BY DEF DeliveryInit, PullStates
<1> QED
  BY <1>1, <1>2, IdleOwns DEF DeliveryInit, CallsInv

LEMMA DeliveryNext_Step ==
    CallsInv /\ [DeliveryNext]_vars => RunsStep /\ CallsInv'
<1> SUFFICES ASSUME CallsInv, [DeliveryNext]_vars
             PROVE  RunsStep /\ CallsInv'
  OBVIOUS
<1>1. CASE UNCHANGED vars
  BY <1>1 DEF vars, CallsInv, RunsStep, runVars
<1>2. ASSUME NEW c \in Calls, CallStep(c)
      PROVE  RunsStep /\ CallsInv'
  <2>1. last' \in 0..MaxRuns /\ pr' \in PullStates /\ reaper' \subseteq Runs
    BY <1>2, LastStays DEF CallsInv, CallStep
  <2> QED BY <1>2, <2>1, MovesInv DEF CallStep
<1>3. ASSUME NEW c \in Calls, Proceed(c)
      PROVE  CallStep(c)
  BY <1>3, BeginStep, SessionStep, DeliverStep, PublishStep, MarkStep
     DEF Proceed
<1>4. ASSUME NEW c \in Calls, BeginFetch(c) \/ EndTurn(c)
      PROVE  CallStep(c)
  BY <1>4, BeginStep, SessionStep
<1>5. ASSUME NEW c \in Calls, NEW goal \in Goals, Work(c, goal)
      PROVE  CallStep(c)
  BY <1>5, SessionStep
<1>6. ASSUME NEW c \in Calls, Falter(c)
      PROVE  CallStep(c)
  BY <1>6, FalterStep
<1> QED
  BY <1>1, <1>2, <1>3, <1>4, <1>5, <1>6, OtherStep DEF DeliveryNext

-----------------------------------------------------------------------------
\* Reviewing a pull request implements the run table: whatever the
\* handlers, the publisher, the operator, GitHub and a restart do, and in
\* whatever order, every step of theirs is one transaction of memory_runs.py
\* on a row of the right kind, or leaves review_runs alone.
THEOREM DeliveryImplementsRuns == DeliverySpec => RunsSpec
<1>1. DeliveryInit => RunsInit /\ CallsInv
  BY DeliveryInit_Inv DEF DeliveryInit
<1>2. CallsInv /\ [DeliveryNext]_vars => RunsStep /\ CallsInv'
  BY DeliveryNext_Step
<1> QED
  BY <1>1, <1>2, PTL DEF DeliverySpec, RunsSpec, RunsStep

\* No interleaving of sessions, reaper and pushes leaves an older run
\* running beside the newest.
THEOREM DeliveryNewestAlone == DeliverySpec => []RunningIsNewest
BY DeliveryImplementsRuns, NewestAlone, PTL

\* The three outcome columns agree all through a delivery.
THEOREM DeliveryOutcomesExplained == DeliverySpec => []OutcomeExplained
BY DeliveryImplementsRuns, OutcomesExplained, PTL

\* No late publisher, handler or reaper changes how a run ended.
THEOREM DeliveryOutcomesAreFinal == DeliverySpec => OutcomeIsFinal
BY DeliveryImplementsRuns, OutcomesAreFinal, PTL
=============================================================================

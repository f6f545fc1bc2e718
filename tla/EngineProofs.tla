---------------------------- MODULE EngineProofs ----------------------------
(***************************************************************************)
(* Theorems about module Engine, for any tasks, processes, users, workflow *)
(* and bounds: its type invariant, what every step does to a task, that a  *)
(* claimed step never runs twice, and that the engine implements module    *)
(* TaskPromise.                                                            *)
(*                                                                         *)
(* The argument: whatever the interleaving, a step changes a row only by   *)
(* one of the rules of module TaskRow, applied under that rule's own       *)
(* compare-and-set (lemma RowSteps).  Properties of the rows then follow   *)
(* from the lemmas of module TaskRowProofs about each rule.                *)
(*                                                                         *)
(* As for the runs, only the holder of the executor lock runs anything, so *)
(* all live jobs are its own; each live job holds the claim its row names; *)
(* and reclaim, which alone takes a claim from a task beside live jobs,    *)
(* works on a task without one.                                            *)
(*                                                                         *)
(* What moves a task on is the success of the last run of its step.  The   *)
(* argument adds the step runs to the invariant: every run belongs to a    *)
(* claim that was handed out, a claim has at most one, and the run of the  *)
(* job that holds a task is the last of the task's log.                    *)
(***************************************************************************)
EXTENDS EngineRefinement, TaskRowProofs, FiniteSetTheorems, SequenceTheorems

---------------------------------------------------------------------------
(* The parts of the inductive invariant.                                    *)

\* A job has the task of its claim from its submission to its end.
JobsHaveTasks ==
    \A k \in Tokens : job[k].pc \notin {"none", "dead"} => job[k].task \in Tasks

\* A pending decision was taken from a row that allowed it.
RequestsAllowed ==
    \A u \in Users : \A r \in request[u] : r.task \in Tasks /\ r.decision \in Allowed

\* A settle is about to write only for a row it read as executing.
SettlesExecuting ==
    \A p \in Procs : exec[p].cur # NoTask /\ exec[p].sub = "write"
        => exec[p].seen.status \in Executing

Supports == JobsHaveTasks /\ RequestsAllowed /\ SettlesExecuting

IInv == TypeOK /\ Supports /\ FlagsMatchStatus

---------------------------------------------------------------------------
(* What a step does to the row of a task.                                   *)

BySettle(t) ==
    \E seen \in Rows, alive \in BOOLEAN :
        /\ seen.status \in Executing
        /\ SettleMatches(task[t], seen, alive)
        /\ task'[t] = Settled(task[t], seen)

ByBoundary(t) ==
    \E seen \in Rows, out \in Outcomes, k \in Tokens :
        /\ FinishMatches(task[t], seen, k)
        /\ task'[t] = Boundary(task[t], seen, out, LatestIsDegraded(runs[t]))

ByScheduler(t) ==
    \/ /\ task[t].status = "queued"
       /\ \/ task'[t] = Claimed(task[t], claims + 1)
          \/ task'[t] = Skipped(task[t], LatestIsDegraded(runs[t]))
    \/ task[t].status = "failed" /\ task'[t] = Requeued(task[t])

ByUser(t) ==
    \E d \in Decisions :
        /\ d \in Allowed
        /\ StillAsRead(task[t], d)
        /\ task'[t] = Decided(task[t], d)

ByClock(t) ==
    \/ \E beat \in {"old", "new"} : task'[t] = [task[t] EXCEPT !.beat = beat]
    \/ task[t].due = "future" /\ task'[t] = [task[t] EXCEPT !.due = "past"]

RowStep(t) ==
    \/ task'[t] = task[t]
    \/ BySettle(t) \/ ByBoundary(t) \/ ByScheduler(t) \/ ByUser(t) \/ ByClock(t)

\* The heart of the proofs: whatever step the system takes, a row changes by one rule of
\* TaskRow only, under the compare-and-set that rule has in the code.
LEMMA RowSteps ==
    ASSUME TypeOK, Supports, [Next]_vars, NEW t \in Tasks
    PROVE  RowStep(t)
<1>1. /\ task \in [Tasks -> Rows] /\ exec \in [Procs -> Threads]
      /\ job \in [Tokens -> Jobs]
  BY DEF TypeOK
<1>2. CASE task' = task
  BY <1>2 DEF RowStep
<1>3. ASSUME NEW p \in Procs, SettleWrite(p), task' # task
      PROVE  RowStep(t)
  <2>1. exec[p].cur \in Tasks /\ exec[p].seen \in Rows
    BY <1>1, <1>3 DEF SettleWrite, Threads
  <2>2. exec[p].seen.status \in Executing
    BY <1>3 DEF SettleWrite, Supports, SettlesExecuting
  <2>3. /\ SettleMatches(task[exec[p].cur], exec[p].seen, CheckAlive(p))
        /\ task' = [task EXCEPT ![exec[p].cur] = Settled(@, exec[p].seen)]
    BY <1>3 DEF SettleWrite
  <2>4. CheckAlive(p) \in BOOLEAN
    BY DEF CheckAlive
  <2>5. CASE t = exec[p].cur
    <3>1. task'[t] = Settled(task[t], exec[p].seen) BY <1>1, <2>3, <2>5
    <3> QED BY <2>1, <2>2, <2>3, <2>4, <2>5, <3>1 DEF RowStep, BySettle
  <2>6. CASE t # exec[p].cur
    BY <1>1, <2>3, <2>6 DEF RowStep
  <2> QED BY <2>5, <2>6
<1>4. ASSUME NEW p \in Procs, NEW e \in exec[p].todo, RequeueFailed(p, e)
      PROVE  RowStep(t)
  BY <1>1, <1>4 DEF RequeueFailed, RowStep, ByScheduler, Threads
<1>5. ASSUME NEW p \in Procs, NEW e \in exec[p].todo, SkipStep(p, e)
      PROVE  RowStep(t)
  BY <1>1, <1>5 DEF SkipStep, RowStep, ByScheduler, Threads
<1>6. ASSUME NEW p \in Procs, NEW e \in exec[p].todo, Claim(p, e)
      PROVE  RowStep(t)
  BY <1>1, <1>6 DEF Claim, RowStep, ByScheduler, Threads
<1>7. ASSUME NEW k \in Tokens, FinishWrite(k), task' # task
      PROVE  RowStep(t)
  <2>1. job[k].task \in Tasks /\ job[k].seen \in Rows /\ job[k].out \in Outcomes
    BY <1>1, <1>7 DEF FinishWrite, Jobs, Supports, JobsHaveTasks
  <2>2. /\ FinishMatches(task[job[k].task], job[k].seen, k)
        /\ task' = [task EXCEPT ![job[k].task] =
                       Boundary(@, job[k].seen, job[k].out,
                                LatestIsDegraded(runs[job[k].task]))]
    BY <1>7 DEF FinishWrite
  <2>3. CASE t = job[k].task
    <3>1. task'[t] = Boundary(task[t], job[k].seen, job[k].out, LatestIsDegraded(runs[t]))
      BY <1>1, <2>2, <2>3
    <3> QED BY <2>1, <2>2, <2>3, <3>1 DEF RowStep, ByBoundary
  <2>4. CASE t # job[k].task
    BY <1>1, <2>2, <2>4 DEF RowStep
  <2> QED BY <2>3, <2>4
<1>8. ASSUME NEW k \in Tokens, Heartbeat(k)
      PROVE  RowStep(t)
  BY <1>1, <1>8 DEF Heartbeat, RowStep, ByClock
<1>9. ASSUME NEW u \in Users, NEW r \in request[u], UserWrites(u, r.task, r.decision)
      PROVE  RowStep(t)
  <2>1. r.task \in Tasks /\ r.decision \in Allowed /\ r.decision \in Decisions
    BY DEF Supports, RequestsAllowed, Allowed
  <2>2. CASE t = r.task /\ StillAsRead(task[t], r.decision)
    <3>1. task'[t] = Decided(task[t], r.decision) BY <1>1, <1>9, <2>2 DEF UserWrites
    <3> QED BY <2>1, <2>2, <3>1 DEF RowStep, ByUser
  <2>3. CASE ~(t = r.task /\ StillAsRead(task[t], r.decision))
    BY <1>1, <1>9, <2>1, <2>3 DEF UserWrites, RowStep
  <2> QED BY <2>2, <2>3
<1>10. ASSUME NEW x \in Tasks, DelayEnds(x) \/ HeartbeatAges(x)
       PROVE  RowStep(t)
  BY <1>1, <1>10 DEF DelayEnds, HeartbeatAges, RowStep, ByClock
<1>11. CASE Next
  <2>1. CASE \E p \in Procs : AcquireLock(p) \/ Recovery(p) \/ ReleaseLock(p) \/ Upset(p)
    BY <1>2, <2>1
       DEF AcquireLock, Recovery, ListRunning, ListPausing, ReleaseLock, Upset, RequestStop,
           Crash, RoundFails, RecoveryFails, tables
  <2>2. CASE \E p \in Procs : Settle(p)
    BY <1>2, <1>3, <2>2
       DEF Settle, ReclaimSkip, SettleBegin, SettleAgain, SettleClose, tables
  <2>3. CASE \E p \in Procs : Round(p)
    BY <1>2, <1>4, <1>5, <1>6, <2>3
       DEF Round, ListStale, ListDueFailed, CountRunning, CountPausing, ListQueued,
           PassOver, ClaimBeyondBound, tables
  <2>4. CASE \E k \in Tokens : Work(k) \/ Heartbeat(k) \/ JobRaises(k)
    BY <1>2, <1>7, <1>8, <2>4
       DEF Work, JobStart, JobAdmit, JobRecord, JobReturn, FinishRead, JobRaises, tables
  <2>5. CASE \E u \in Users : Command(u)
    BY <1>2, <1>9, <2>5 DEF Command, UserReads, tables
  <2>6. CASE Clock
    BY <1>10, <2>6 DEF Clock
  <2> QED BY <1>11, <2>1, <2>2, <2>3, <2>4, <2>5, <2>6 DEF Next, Schedule
<1> QED BY <1>2, <1>11 DEF vars

---------------------------------------------------------------------------
(* The rows.                                                                *)

\* A row stays a row.
LEMMA RowStepType ==
    ASSUME NEW t \in Tasks, task[t] \in Rows, claims \in Nat, RowStep(t)
    PROVE  task'[t] \in Rows
<1>1. CASE BySettle(t) BY <1>1, SettledType DEF BySettle
<1>2. CASE ByBoundary(t) BY <1>2, BoundaryType DEF ByBoundary, Outcomes, OutcomeKinds
<1>3. CASE ByScheduler(t)
  BY <1>3, ClaimedType, SkippedType, RequeuedType DEF ByScheduler
<1>4. CASE ByUser(t) BY <1>4, DecidedType DEF ByUser
<1>5. CASE ByClock(t) BY <1>5 DEF ByClock, Rows
<1> QED BY <1>1, <1>2, <1>3, <1>4, <1>5 DEF RowStep

\* The flags of a row keep matching its status.
LEMMA RowStepFlags ==
    ASSUME NEW t \in Tasks, task[t] \in Rows, claims \in Nat, RowStep(t), FlagsMatch(task[t])
    PROVE  FlagsMatch(task'[t])
<1>1. CASE BySettle(t) BY <1>1, SettledFlags DEF BySettle
<1>2. CASE ByBoundary(t) BY <1>2, BoundaryFlags DEF ByBoundary, Outcomes, OutcomeKinds
<1>3. CASE ByScheduler(t)
  <2>1. claims + 1 \in Nat \ {0} OBVIOUS
  <2>2. task[t].status = "failed" => task[t].status \notin Executing BY DEF Executing
  <2> QED BY <1>3, <2>1, <2>2, ClaimedFlags, SkippedFlags, RequeuedFlags DEF ByScheduler
<1>4. CASE ByUser(t) BY <1>4, DecidedFlags DEF ByUser
<1>5. CASE ByClock(t) BY <1>5 DEF ByClock, Rows, FlagsMatch
<1> QED BY <1>1, <1>2, <1>3, <1>4, <1>5 DEF RowStep

---------------------------------------------------------------------------
(* The scheduling threads.                                                  *)

\* The row that stands for "not read yet" is a row.
LEMMA BlankRowType == BlankRow \in Rows
BY NewRowType, RetryCapsAssumption DEF BlankRow

\* A scheduling thread that enters a phase is well typed.
LEMMA ThreadType ==
    ASSUME NEW pc \in {"off", "locked", "settle_running", "settle_pausing", "stopping"} \cup Looping,
           NEW todo \in SUBSET [id : Tasks, row : Rows], NEW load \in [Steps -> Nat]
    PROVE  Thread(pc, todo, load) \in Threads
BY BlankRowType DEF Thread, Threads

\* So is one that is not there.
LEMMA OffType == NoLoad \in [Steps -> Nat] /\ Off \in Threads
<1>1. NoLoad \in [Steps -> Nat] BY DEF NoLoad
<1> QED BY <1>1, ThreadType DEF Off

\* Rows listed by a query carry the task they are of.
LEMMA ListedType ==
    ASSUME task \in [Tasks -> Rows], NEW S \in SUBSET Tasks
    PROVE  Listed(S) \in SUBSET [id : Tasks, row : Rows]
BY DEF Listed

\* The load counted per step is a number.
LEMMA LoadType ==
    ASSUME NEW status
    PROVE  LoadIn(status) \in [Steps -> Nat]
<1>1. \A s : {t \in InStatus(status) : task[t].step = s} \subseteq Tasks BY DEF InStatus
<1>2. \A s : Cardinality({t \in InStatus(status) : task[t].step = s}) \in Nat
  BY <1>1, TasksAssumption, FS_Subset, FS_CardinalityType
<1> QED BY <1>2 DEF LoadIn

\* A try of _settle leaves the thread well typed.
LEMMA SettleReadsType ==
    ASSUME NEW p \in Procs, NEW t \in Tasks, NEW tries \in Nat,
           task \in [Tasks -> Rows], exec[p] \in Threads
    PROVE  SettleReads(p, t, tries) \in Threads
<1>1. task[t] \in Rows OBVIOUS
<1>2. [exec[p] EXCEPT !.cur = NoTask, !.sub = "read", !.seen = BlankRow, !.tries = 0] \in Threads
  BY BlankRowType DEF Threads
<1>3. [exec[p] EXCEPT !.cur = t, !.sub = "write", !.seen = task[t], !.tries = tries + 1] \in Threads
  <2>1. tries + 1 \in Nat OBVIOUS
  <2> QED BY <1>1, <2>1 DEF Threads
<1> QED BY <1>2, <1>3 DEF SettleReads

\* So does being done with a listed row.
LEMMA DropType ==
    ASSUME exec \in [Procs -> Threads], NEW p \in Procs, NEW e
    PROVE  Drop(p, e) \in [Procs -> Threads]
BY SMTT(30) DEF Drop, Threads

\* Every step keeps the scheduling threads well typed.
LEMMA ExecType ==
    ASSUME TypeOK, Supports, [Next]_vars
    PROVE  exec' \in [Procs -> Threads]
<1>1. task \in [Tasks -> Rows] /\ exec \in [Procs -> Threads]
  BY DEF TypeOK
<1>2. \A p \in Procs : exec[p] \in Threads BY <1>1
<1>3. CASE exec' = exec BY <1>1, <1>3
<1>4. ASSUME NEW p \in Procs, AcquireLock(p) \/ Recovery(p) \/ ReleaseLock(p) \/ Upset(p)
      PROVE  exec' \in [Procs -> Threads]
  <2>1. \A status : Listed(InStatus(status)) \in SUBSET [id : Tasks, row : Rows]
    BY <1>1, ListedType DEF InStatus
  <2>2. CASE AcquireLock(p)
    BY <1>1, <2>2, ThreadType, OffType DEF AcquireLock
  <2>3. CASE Recovery(p)
    BY <1>1, <2>1, <2>3, ThreadType, OffType DEF Recovery, ListRunning, ListPausing
  <2>4. CASE ReleaseLock(p) \/ Upset(p)
    BY <1>1, <2>4, ThreadType, OffType
       DEF ReleaseLock, Upset, RequestStop, Crash, RoundFails, RecoveryFails, Looping
  <2> QED BY <1>4, <2>2, <2>3, <2>4
<1>5. ASSUME NEW p \in Procs, Settle(p)
      PROVE  exec' \in [Procs -> Threads]
  <2>1. ASSUME NEW e \in exec[p].todo, ReclaimSkip(p, e)
        PROVE  exec' \in [Procs -> Threads]
    BY <1>1, <2>1, DropType DEF ReclaimSkip
  <2>2. ASSUME NEW e \in exec[p].todo, SettleBegin(p, e)
        PROVE  exec' \in [Procs -> Threads]
    <3>1. e.id \in Tasks BY <1>2 DEF Threads
    <3>2. SettleReads(p, e.id, 0) \in Threads BY <1>1, <1>2, <3>1, SettleReadsType
    <3>3. [SettleReads(p, e.id, 0) EXCEPT !.todo = @ \ {e}] \in Threads
      BY <3>2 DEF Threads
    <3> QED BY <1>1, <2>2, <3>3 DEF SettleBegin
  <2>3. CASE SettleAgain(p)
    <3>1. exec[p].cur \in Tasks /\ exec[p].tries \in Nat
      BY <1>2, <2>3 DEF SettleAgain, Threads
    <3>2. SettleReads(p, exec[p].cur, exec[p].tries) \in Threads
      BY <1>1, <1>2, <3>1, SettleReadsType
    <3> QED BY <1>1, <2>3, <3>2 DEF SettleAgain
  <2>4. CASE SettleWrite(p)
    <3>1. PICK sub \in {"close", "read"} : exec' = [exec EXCEPT ![p].sub = sub]
      BY <2>4 DEF SettleWrite
    <3>2. [exec[p] EXCEPT !.sub = sub] \in Threads BY <1>2 DEF Threads
    <3> QED BY <1>1, <3>1, <3>2
  <2>5. CASE SettleClose(p)
    <3>1. [exec[p] EXCEPT !.cur = NoTask, !.sub = "read", !.seen = BlankRow, !.tries = 0]
             \in Threads
      BY <1>2, BlankRowType DEF Threads
    <3> QED BY <1>1, <2>5, <3>1 DEF SettleClose
  <2> QED BY <1>5, <2>1, <2>2, <2>3, <2>4, <2>5 DEF Settle
<1>6. ASSUME NEW p \in Procs, Round(p)
      PROVE  exec' \in [Procs -> Threads]
  <2>1. CASE ListStale(p)
    <3>1. Listed({t \in Tasks : task[t].status \in Executing /\ task[t].beat = "old"})
             \in SUBSET [id : Tasks, row : Rows]
      BY <1>1, ListedType
    <3> QED BY <1>1, <2>1, <3>1, ThreadType, OffType DEF ListStale, Looping
  <2>2. CASE ListDueFailed(p)
    <3>1. Listed({t \in InStatus("failed") : RetryDue(task[t])})
             \in SUBSET [id : Tasks, row : Rows]
      BY <1>1, ListedType DEF InStatus
    <3> QED BY <1>1, <2>2, <3>1, ThreadType, OffType DEF ListDueFailed, Looping
  <2>3. CASE CountRunning(p)
    BY <1>1, <2>3, ThreadType, LoadType DEF CountRunning, Looping
  <2>4. CASE CountPausing(p)
    <3>1. [s \in Steps |-> exec[p].load[s] + LoadIn(CountOrder[2])[s]] \in [Steps -> Nat]
      <4>1. LoadIn(CountOrder[2]) \in [Steps -> Nat] BY LoadType
      <4>2. exec[p].load \in [Steps -> Nat] BY <1>2 DEF Threads
      <4> QED BY <4>1, <4>2
    <3> QED BY <1>1, <2>4, <3>1, ThreadType DEF CountPausing, Looping
  <2>5. CASE ListQueued(p)
    <3>1. Listed(InStatus("queued")) \in SUBSET [id : Tasks, row : Rows]
      BY <1>1, ListedType DEF InStatus
    <3>2. exec[p].load \in [Steps -> Nat] BY <1>2 DEF Threads
    <3> QED BY <1>1, <2>5, <3>1, <3>2, ThreadType DEF ListQueued, Looping
  <2>6. ASSUME NEW e \in exec[p].todo,
               RequeueFailed(p, e) \/ PassOver(p, e) \/ SkipStep(p, e) \/ ClaimBeyondBound(p, e)
        PROVE  exec' \in [Procs -> Threads]
    BY <1>1, <2>6, DropType DEF RequeueFailed, PassOver, SkipStep, ClaimBeyondBound
  <2>7. ASSUME NEW e \in exec[p].todo, Claim(p, e)
        PROVE  exec' \in [Procs -> Threads]
    <3>1. Drop(p, e) \in [Procs -> Threads] BY <1>1, DropType
    <3>2. e.row.step \in Steps BY <1>2 DEF Threads, Rows
    <3>3. [Drop(p, e) EXCEPT ![p].load[e.row.step] = @ + 1] \in [Procs -> Threads]
      <4>1. Drop(p, e)[p] \in Threads BY <3>1
      <4>2. Drop(p, e)[p].load \in [Steps -> Nat] BY <4>1 DEF Threads
      <4>3. [Drop(p, e)[p].load EXCEPT ![e.row.step] = @ + 1] \in [Steps -> Nat]
        BY <3>2, <4>2
      <4>4. [Drop(p, e)[p] EXCEPT !.load = [Drop(p, e)[p].load EXCEPT ![e.row.step] = @ + 1]]
               \in Threads
        BY <4>1, <4>3 DEF Threads
      <4> QED BY <3>1, <4>4
    <3> QED BY <2>7, <3>1, <3>3 DEF Claim
  <2> QED BY <1>6, <2>1, <2>2, <2>3, <2>4, <2>5, <2>6, <2>7 DEF Round
<1>7. CASE Next
  <2>1. CASE \E k \in Tokens : Work(k) \/ Heartbeat(k) \/ JobRaises(k)
    BY <1>3, <2>1
       DEF Work, JobStart, JobAdmit, JobRecord, JobReturn, FinishRead, FinishWrite, Heartbeat,
           JobRaises
  <2>2. CASE (\E u \in Users : Command(u)) \/ Clock
    BY <1>3, <2>2 DEF Command, UserReads, UserWrites, Clock, DelayEnds, HeartbeatAges
  <2> QED BY <1>4, <1>5, <1>6, <1>7, <2>1, <2>2 DEF Next, Schedule
<1> QED BY <1>3, <1>7 DEF vars

---------------------------------------------------------------------------
(* The jobs.                                                                *)

\* A fresh or ended job is well typed.
LEMMA JobType ==
    ASSUME NEW pc \in {"none", "queued", "admit", "start", "run", "finish", "commit", "done", "dead"},
           NEW p \in Procs \cup {NoProc}, NEW t \in Tasks \cup {NoTask}
    PROVE  Job(pc, p, t) \in Jobs
BY BlankRowType, NumStepsAssumption
   DEF Job, Jobs, Steps, NoGrant, Grants, NoOutcome, Outcomes

\* The end of a job leaves the jobs well typed.
LEMMA EndedType ==
    ASSUME job \in [Tokens -> Jobs], NEW k \in Tokens
    PROVE  Ended(k) \in [Tokens -> Jobs]
<1>1. Job("done", job[k].proc, job[k].task) \in Jobs BY JobType DEF Jobs
<1> QED BY <1>1 DEF Ended

\* So does the end of their process.
LEMMA OrphanedType ==
    ASSUME job \in [Tokens -> Jobs], NEW p
    PROVE  Orphaned(p) \in [Tokens -> Jobs]
<1>1. Job("dead", NoProc, NoTask) \in Jobs BY JobType
<1> QED BY <1>1 DEF Orphaned

\* count_runs returns a number.
LEMMA RunCountType ==
    ASSUME runs \in [Tasks -> Seq(Runs)], NEW t \in Tasks, NEW step
    PROVE  RunCount(t, step) \in Nat
<1>1. IsFiniteSet(DOMAIN runs[t])
  <2>1. runs[t] \in Seq(Runs) OBVIOUS
  <2>2. DOMAIN runs[t] = 1 .. Len(runs[t]) /\ Len(runs[t]) \in Nat BY <2>1
  <2> QED BY <2>2, FS_Interval
<1>2. IsFiniteSet({i \in DOMAIN runs[t] : runs[t][i].step = step})
  BY <1>1, FS_Subset
<1> QED BY <1>2, FS_CardinalityType DEF RunCount

\* Every step keeps the jobs well typed.
LEMMA JobsType ==
    ASSUME TypeOK, Supports, [Next]_vars
    PROVE  job' \in [Tokens -> Jobs]
<1>1. /\ task \in [Tasks -> Rows] /\ runs \in [Tasks -> Seq(Runs)]
      /\ exec \in [Procs -> Threads] /\ job \in [Tokens -> Jobs] /\ claims \in 0 .. MaxClaims
  BY DEF TypeOK
<1>2. CASE job' = job BY <1>1, <1>2
<1>3. ASSUME NEW p \in Procs, ReleaseLock(p) \/ Crash(p)
      PROVE  job' \in [Tokens -> Jobs]
  BY <1>1, <1>3, OrphanedType DEF ReleaseLock, Crash
<1>4. ASSUME NEW p \in Procs, NEW e \in exec[p].todo, Claim(p, e)
      PROVE  job' \in [Tokens -> Jobs]
  <2>1. e.id \in Tasks BY <1>1 DEF Threads
  <2>2. Job("queued", p, e.id) \in Jobs BY <2>1, JobType
  <2> QED BY <1>1, <1>4, <2>2 DEF Claim
<1>5. ASSUME NEW k \in Tokens, Work(k) \/ JobRaises(k)
      PROVE  job' \in [Tokens -> Jobs]
  <2>1. job[k] \in Jobs BY <1>1
  <2>2. job[k].pc \in Live => job[k].task \in Tasks
    BY DEF Supports, JobsHaveTasks, Live, Working
  <2>3. Ended(k) \in [Tokens -> Jobs] BY <1>1, EndedType
  <2>4. CASE JobStart(k)
    <3>1. task[job[k].task] \in Rows BY <1>1, <2>2, <2>4 DEF JobStart, Live
    <3>2. \A pc \in {"finish", "admit"} :
             [job[k] EXCEPT !.pc = pc, !.step = task[job[k].task].step,
                            !.grant = task[job[k].task].grant] \in Jobs
      BY <2>1, <3>1 DEF Jobs, Rows
    <3> QED BY <1>1, <2>3, <2>4, <3>2 DEF JobStart
  <2>5. CASE JobAdmit(k)
    <3> DEFINE attempt == RunCount(job[k].task, job[k].step) + 1
    <3>1. attempt \in Nat
      BY <1>1, <2>2, <2>5, RunCountType DEF JobAdmit, Live, Working
    <3>2. [job[k] EXCEPT !.pc = "start", !.attempt = attempt] \in Jobs
      BY <2>1, <3>1 DEF Jobs
    <3>3. ASSUME NEW answer, NEW kind \in Refusals(answer)
          PROVE  [job[k] EXCEPT !.pc = "finish", !.out = [kind |-> kind, attempt |-> attempt]]
                    \in Jobs
      <4>1. kind \in {"denied", "ask", "notready", "later"} BY <3>3 DEF Refusals
      <4>2. [kind |-> kind, attempt |-> attempt] \in Outcomes BY <3>1, <4>1 DEF Outcomes
      <4> QED BY <2>1, <4>2 DEF Jobs
    <3> HIDE DEF attempt
    <3>4. \/ job' = [job EXCEPT ![k].pc = "start", ![k].attempt = attempt]
          \/ \E answer : \E kind \in Refusals(answer) :
                job' = [job EXCEPT ![k].pc = "finish",
                                   ![k].out = [kind |-> kind, attempt |-> attempt]]
      BY <2>5 DEF JobAdmit, attempt
    <3>5. CASE job' = [job EXCEPT ![k].pc = "start", ![k].attempt = attempt]
      BY <1>1, <3>2, <3>5
    <3>6. ASSUME NEW answer, NEW kind \in Refusals(answer),
                 job' = [job EXCEPT ![k].pc = "finish",
                                    ![k].out = [kind |-> kind, attempt |-> attempt]]
          PROVE  job' \in [Tokens -> Jobs]
      BY <1>1, <3>3, <3>6
    <3> QED BY <3>4, <3>5, <3>6
  <2>6. CASE JobRecord(k)
    <3>1. Len(runs[job[k].task]) + 1 \in Nat
      BY <1>1, <2>2, <2>6 DEF JobRecord, Live, Working
    <3>2. [job[k] EXCEPT !.pc = "run", !.run = Len(runs[job[k].task]) + 1] \in Jobs
      BY <2>1, <3>1 DEF Jobs
    <3> QED BY <1>1, <2>6, <3>2 DEF JobRecord
  <2>7. ASSUME NEW kind \in Returns(job[k].step), JobReturn(k, kind)
        PROVE  job' \in [Tokens -> Jobs]
    <3>1. kind \in {"ok", "degraded", "notready", "later", "fatal", "failed"}
      BY DEF Returns
    <3>2. [kind |-> kind, attempt |-> 0] \in Outcomes BY <3>1 DEF Outcomes
    <3>3. [job[k] EXCEPT !.pc = "finish", !.out = [kind |-> kind, attempt |-> 0]] \in Jobs
      BY <2>1, <3>2 DEF Jobs
    <3> QED BY <1>1, <2>7, <3>3 DEF JobReturn
  <2>8. CASE FinishRead(k)
    <3>1. task[job[k].task] \in Rows BY <1>1, <2>2, <2>8 DEF FinishRead, Live, Working
    <3>2. job[k].tries + 1 \in Nat BY <2>1 DEF Jobs
    <3>3. [job[k] EXCEPT !.pc = "commit", !.seen = task[job[k].task], !.tries = @ + 1] \in Jobs
      BY <2>1, <3>1, <3>2 DEF Jobs
    <3> QED BY <1>1, <2>3, <2>8, <3>3 DEF FinishRead
  <2>9. CASE FinishWrite(k)
    <3>1. \/ job' = Ended(k)
          \/ job' = [job EXCEPT ![k].pc = "finish", ![k].seen = BlankRow]
      BY <2>9 DEF FinishWrite
    <3>2. [job[k] EXCEPT !.pc = "finish", !.seen = BlankRow] \in Jobs
      BY <2>1, BlankRowType DEF Jobs
    <3> QED BY <1>1, <2>3, <3>1, <3>2
  <2>10. CASE JobRaises(k)
    BY <2>3, <2>10 DEF JobRaises
  <2> QED BY <1>5, <2>4, <2>5, <2>6, <2>7, <2>8, <2>9, <2>10 DEF Work
<1>6. CASE Next
  <2>1. CASE \E p \in Procs : AcquireLock(p) \/ Recovery(p) \/ Settle(p) \/ ReleaseLock(p) \/ Upset(p)
    BY <1>2, <1>3, <2>1
       DEF AcquireLock, Recovery, ListRunning, ListPausing, Settle, ReclaimSkip, SettleBegin,
           SettleAgain, SettleWrite, SettleClose, Upset, RequestStop, RoundFails, RecoveryFails
  <2>2. CASE \E p \in Procs : Round(p)
    BY <1>2, <1>4, <2>2
       DEF Round, ListStale, ListDueFailed, CountRunning, CountPausing, ListQueued,
           RequeueFailed, PassOver, SkipStep, ClaimBeyondBound
  <2>3. CASE \E k \in Tokens : Heartbeat(k)
    BY <1>2, <2>3 DEF Heartbeat
  <2>4. CASE (\E u \in Users : Command(u)) \/ Clock
    BY <1>2, <2>4 DEF Command, UserReads, UserWrites, Clock, DelayEnds, HeartbeatAges
  <2> QED BY <1>5, <1>6, <2>1, <2>2, <2>3, <2>4 DEF Next, Schedule
<1> QED BY <1>2, <1>6 DEF vars

---------------------------------------------------------------------------
(* The supports of the invariant.                                           *)

\* Every step keeps the jobs of the pool on a task.
LEMMA JobsHaveTasksNext ==
    ASSUME TypeOK, Supports, [Next]_vars
    PROVE  JobsHaveTasks'
<1>1. /\ exec \in [Procs -> Threads] /\ job \in [Tokens -> Jobs]
      /\ \A k \in Tokens : job[k].pc \notin {"none", "dead"} => job[k].task \in Tasks
  BY DEF TypeOK, Supports, JobsHaveTasks
<1>2. CASE job' = job BY <1>1, <1>2 DEF JobsHaveTasks
<1>3. ASSUME NEW p \in Procs, ReleaseLock(p) \/ Crash(p)
      PROVE  JobsHaveTasks'
  BY <1>1, <1>3 DEF ReleaseLock, Crash, Orphaned, Job, JobsHaveTasks
<1>4. ASSUME NEW p \in Procs, NEW e \in exec[p].todo, Claim(p, e)
      PROVE  JobsHaveTasks'
  <2>1. e.id \in Tasks BY <1>1 DEF Threads
  <2> QED BY <1>1, <1>4, <2>1 DEF Claim, Job, JobsHaveTasks
<1>5. ASSUME NEW k \in Tokens, Work(k) \/ JobRaises(k)
      PROVE  JobsHaveTasks'
  <2>1. \A x \in Tokens : job'[x].task = job[x].task /\ (x # k => job'[x] = job[x])
    <3>1. CASE JobStart(k) BY <1>1, <3>1 DEF JobStart, Ended, Job, Jobs
    <3>2. CASE JobAdmit(k) BY <1>1, <3>2 DEF JobAdmit, Jobs
    <3>3. CASE JobRecord(k) BY <1>1, <3>3 DEF JobRecord, Jobs
    <3>4. CASE \E kind : JobReturn(k, kind) BY <1>1, <3>4 DEF JobReturn, Jobs
    <3>5. CASE FinishRead(k) BY <1>1, <3>5 DEF FinishRead, Ended, Job, Jobs
    <3>6. CASE FinishWrite(k) BY <1>1, <3>6 DEF FinishWrite, Ended, Job, Jobs
    <3>7. CASE JobRaises(k) BY <1>1, <3>7 DEF JobRaises, Ended, Job, Jobs
    <3> QED BY <1>5, <3>1, <3>2, <3>3, <3>4, <3>5, <3>6, <3>7 DEF Work
  <2>2. job[k].pc \in Live
    BY <1>5
       DEF Work, JobStart, JobAdmit, JobRecord, JobReturn, FinishRead, FinishWrite, JobRaises,
           Live, Working
  <2>3. job[k].task \in Tasks BY <1>1, <2>2 DEF Live, Working
  <2> QED BY <1>1, <2>1, <2>3 DEF JobsHaveTasks
<1>6. CASE Next
  <2>1. CASE \E p \in Procs : AcquireLock(p) \/ Recovery(p) \/ Settle(p) \/ ReleaseLock(p) \/ Upset(p)
    BY <1>2, <1>3, <2>1
       DEF AcquireLock, Recovery, ListRunning, ListPausing, Settle, ReclaimSkip, SettleBegin,
           SettleAgain, SettleWrite, SettleClose, Upset, RequestStop, RoundFails, RecoveryFails
  <2>2. CASE \E p \in Procs : Round(p)
    BY <1>2, <1>4, <2>2
       DEF Round, ListStale, ListDueFailed, CountRunning, CountPausing, ListQueued,
           RequeueFailed, PassOver, SkipStep, ClaimBeyondBound
  <2>3. CASE \E k \in Tokens : Heartbeat(k)
    BY <1>2, <2>3 DEF Heartbeat
  <2>4. CASE (\E u \in Users : Command(u)) \/ Clock
    BY <1>2, <2>4 DEF Command, UserReads, UserWrites, Clock, DelayEnds, HeartbeatAges
  <2> QED BY <1>5, <1>6, <2>1, <2>2, <2>3, <2>4 DEF Next, Schedule
<1> QED BY <1>2, <1>6 DEF vars

\* The decision a user takes from a row is a decision, and that row allows it.
LEMMA ReadIsAllowed ==
    ASSUME task \in [Tasks -> Rows], NEW t \in Tasks,
           NEW d \in [act : UserActs, expect : {task[t].status}, step : {task[t].step},
                      arg : Steps \cup RetryCaps \cup {task[t].grant.attempt, 0}],
           Decides(d, task[t])
    PROVE  d \in Allowed
<1>1. task[t] \in Rows OBVIOUS
<1>2. task[t].grant.attempt \in Nat BY <1>1 DEF Rows, Grants
<1>3. d.arg \in Nat BY <1>2, NumStepsAssumption, RetryCapsAssumption DEF Steps
<1>4. d \in Decisions BY <1>1, <1>3, UserActsAssumption DEF Decisions, Rows
<1> QED BY <1>1, <1>4 DEF Allowed

\* What a user is about to write was allowed by a row the user read, and stays so.
LEMMA RequestsNext ==
    ASSUME TypeOK, Supports, [Next]_vars
    PROVE  RequestsAllowed' /\ request' \in [Users -> SUBSET [task : Tasks, decision : Decisions]]
<1>1. /\ task \in [Tasks -> Rows]
      /\ request \in [Users -> SUBSET [task : Tasks, decision : Decisions]]
      /\ \A u \in Users : \A r \in request[u] : r.task \in Tasks /\ r.decision \in Allowed
  BY DEF TypeOK, Supports, RequestsAllowed
<1>2. CASE request' = request BY <1>1, <1>2 DEF RequestsAllowed
<1>3. ASSUME NEW u \in Users, NEW t \in Tasks, UserReads(u, t)
      PROVE  RequestsAllowed' /\ request' \in [Users -> SUBSET [task : Tasks, decision : Decisions]]
  <2>1. PICK d \in [act : UserActs, expect : {task[t].status}, step : {task[t].step},
                    arg : Steps \cup RetryCaps \cup {task[t].grant.attempt, 0}] :
           Decides(d, task[t]) /\ request' = [request EXCEPT ![u] = {[task |-> t, decision |-> d]}]
    BY <1>3 DEF UserReads
  <2>2. d \in Allowed BY <1>1, <2>1, ReadIsAllowed
  <2>3. d \in Decisions BY <2>2 DEF Allowed
  <2> DEFINE r == [task |-> t, decision |-> d]
  <2>4. r \in [task : Tasks, decision : Decisions] /\ r.task \in Tasks /\ r.decision \in Allowed
    BY <2>2, <2>3
  <2>5. request' = [request EXCEPT ![u] = {r}] BY <2>1
  <2> HIDE DEF r
  <2>6. \A v \in Users : request'[v] = request[v] \/ request'[v] = {r}
    BY <1>1, <2>5
  <2>7. request' \in [Users -> SUBSET [task : Tasks, decision : Decisions]]
    BY <1>1, <2>4, <2>5
  <2>8. \A v \in Users : \A x \in request'[v] : x.task \in Tasks /\ x.decision \in Allowed
    BY <1>1, <2>4, <2>6
  <2> QED BY <2>7, <2>8 DEF RequestsAllowed
<1>4. ASSUME NEW u \in Users, NEW r \in request[u], UserWrites(u, r.task, r.decision)
      PROVE  RequestsAllowed' /\ request' \in [Users -> SUBSET [task : Tasks, decision : Decisions]]
  <2>1. request' = [request EXCEPT ![u] = {}] BY <1>4 DEF UserWrites
  <2> QED BY <1>1, <2>1 DEF RequestsAllowed
<1>5. CASE Next
  <2>1. CASE \E p \in Procs : AcquireLock(p) \/ Recovery(p) \/ Settle(p)
    BY <1>2, <2>1
       DEF AcquireLock, Recovery, ListRunning, ListPausing, Settle, ReclaimSkip, SettleBegin,
           SettleAgain, SettleWrite, SettleClose
  <2>4. CASE \E p \in Procs : Round(p)
    BY <1>2, <2>4
       DEF Round, ListStale, ListDueFailed, CountRunning, CountPausing, ListQueued,
           RequeueFailed, PassOver, SkipStep, Claim, ClaimBeyondBound
  <2>5. CASE \E p \in Procs : ReleaseLock(p) \/ Upset(p)
    BY <1>2, <2>5 DEF ReleaseLock, Upset, RequestStop, Crash, RoundFails, RecoveryFails
  <2>2. CASE (\E k \in Tokens : Work(k) \/ Heartbeat(k) \/ JobRaises(k)) \/ Clock
    BY ZenonT(30), <1>2, <2>2
       DEF Work, JobStart, JobAdmit, JobRecord, JobReturn, FinishRead, FinishWrite, Heartbeat,
           JobRaises, Clock, DelayEnds, HeartbeatAges
  <2>3. CASE \E u \in Users : Command(u)
    BY <1>3, <1>4, <2>3 DEF Command
  <2> QED BY <1>5, <2>1, <2>2, <2>3, <2>4, <2>5 DEF Next, Schedule
<1> QED BY <1>2, <1>5 DEF vars

\* A row about to be settled was executing when it was read.
LEMMA SettlesExecutingNext ==
    ASSUME TypeOK, Supports, [Next]_vars
    PROVE  SettlesExecuting'
<1> DEFINE Fine(thread) ==
      thread.cur # NoTask /\ thread.sub = "write" => thread.seen.status \in Executing
<1>1. exec \in [Procs -> Threads] /\ \A p \in Procs : Fine(exec[p])
  BY DEF TypeOK, Supports, SettlesExecuting
<1>2. SUFFICES \A p \in Procs : Fine(exec'[p])
  BY DEF SettlesExecuting
<1>3. CASE exec' = exec BY <1>1, <1>3
<1>4. ASSUME NEW p \in Procs, NEW thread, exec' = [exec EXCEPT ![p] = thread], Fine(thread)
      PROVE  \A q \in Procs : Fine(exec'[q])
  BY <1>1, <1>4
<1>5. \A pc, todo, load : Fine(Thread(pc, todo, load)) BY DEF Thread
<1>6. ASSUME NEW p \in Procs, NEW e
      PROVE  \A q \in Procs : Fine(Drop(p, e)[q])
  BY <1>1 DEF Drop, Threads
<1>7. ASSUME NEW p \in Procs, NEW t, NEW tries
      PROVE  Fine(SettleReads(p, t, tries))
  <2>1. exec[p] \in Threads BY <1>1
  <2> QED BY <2>1 DEF SettleReads, Threads
<1>8. ASSUME NEW p \in Procs, Settle(p)
      PROVE  \A q \in Procs : Fine(exec'[q])
  <2>1. exec[p] \in Threads BY <1>1
  <2>2. ASSUME NEW e, ReclaimSkip(p, e)
        PROVE  \A q \in Procs : Fine(exec'[q])
    BY <1>6, <2>2 DEF ReclaimSkip
  <2>3. ASSUME NEW e \in exec[p].todo, SettleBegin(p, e)
        PROVE  \A q \in Procs : Fine(exec'[q])
    <3>1. e.id \in Tasks /\ task \in [Tasks -> Rows] BY <2>1 DEF TypeOK, Threads
    <3>2. SettleReads(p, e.id, 0) \in Threads BY <2>1, <3>1, SettleReadsType
    <3>3. Fine([SettleReads(p, e.id, 0) EXCEPT !.todo = @ \ {e}])
      BY <1>7, <3>2 DEF Threads
    <3> QED BY <1>4, <2>3, <3>3 DEF SettleBegin
  <2>4. CASE SettleAgain(p)
    BY <1>4, <1>7, <2>4 DEF SettleAgain
  <2>5. CASE SettleWrite(p)
    <3>1. PICK sub \in {"close", "read"} : exec' = [exec EXCEPT ![p].sub = sub]
      BY <2>5 DEF SettleWrite
    <3>2. Fine([exec[p] EXCEPT !.sub = sub]) BY <2>1 DEF Threads
    <3> QED BY <1>1, <3>1, <3>2
  <2>6. CASE SettleClose(p)
    <3>1. Fine([exec[p] EXCEPT !.cur = NoTask, !.sub = "read", !.seen = BlankRow, !.tries = 0])
      BY <2>1 DEF Threads
    <3> QED BY <1>1, <2>6, <3>1 DEF SettleClose
  <2> QED BY <1>8, <2>2, <2>3, <2>4, <2>5, <2>6 DEF Settle
<1>9. ASSUME NEW p \in Procs, NEW e \in exec[p].todo, Claim(p, e)
      PROVE  \A q \in Procs : Fine(exec'[q])
  <2>1. Drop(p, e) \in [Procs -> Threads] BY <1>1, DropType
  <2>2. \A q \in Procs : Fine([Drop(p, e) EXCEPT ![p].load[e.row.step] = @ + 1][q])
    BY <1>6, <2>1 DEF Threads
  <2> QED BY <1>6, <1>9, <2>2 DEF Claim
<1> HIDE DEF Fine
<1>10. ASSUME NEW p \in Procs, AcquireLock(p) \/ Recovery(p) \/ ReleaseLock(p) \/ Upset(p)
       PROVE  \A q \in Procs : Fine(exec'[q])
  BY <1>4, <1>5, <1>10
     DEF AcquireLock, Recovery, ListRunning, ListPausing, ReleaseLock, Upset, RequestStop, Crash,
         RoundFails, RecoveryFails, Off
<1>11. ASSUME NEW p \in Procs, Round(p)
       PROVE  \A q \in Procs : Fine(exec'[q])
  BY <1>4, <1>5, <1>6, <1>9, <1>11
     DEF Round, ListStale, ListDueFailed, CountRunning, CountPausing, ListQueued,
         RequeueFailed, PassOver, SkipStep, ClaimBeyondBound
<1>12. CASE Next
  <2>1. CASE \E k \in Tokens : Work(k) \/ Heartbeat(k) \/ JobRaises(k)
    BY ZenonT(30), <1>3, <2>1
       DEF Work, JobStart, JobAdmit, JobRecord, JobReturn, FinishRead, FinishWrite, Heartbeat,
           JobRaises
  <2>2. CASE (\E u \in Users : Command(u)) \/ Clock
    BY <1>3, <2>2 DEF Command, UserReads, UserWrites, Clock, DelayEnds, HeartbeatAges
  <2> QED BY <1>8, <1>10, <1>11, <1>12, <2>1, <2>2 DEF Next, Schedule
<1> QED BY <1>3, <1>12 DEF vars

---------------------------------------------------------------------------
(* The step runs and the counters.                                          *)

\* Closing the open step runs of a task leaves a log of step runs.
LEMMA ClosedRunsType ==
    ASSUME NEW log \in Seq(Runs)
    PROVE  [i \in DOMAIN log |-> IF log[i].status = "running"
                                 THEN [log[i] EXCEPT !.status = "interrupted"] ELSE log[i]]
             \in Seq(Runs)
<1> DEFINE closed == [i \in DOMAIN log |-> IF log[i].status = "running"
                                 THEN [log[i] EXCEPT !.status = "interrupted"] ELSE log[i]]
<1>1. DOMAIN log = 1 .. Len(log) /\ Len(log) \in Nat OBVIOUS
<1>2. ASSUME NEW i \in 1 .. Len(log) PROVE closed[i] \in Runs
  <2>1. log[i] \in Runs OBVIOUS
  <2>2. [log[i] EXCEPT !.status = "interrupted"] \in Runs BY <2>1 DEF Runs, RunStatus
  <2> QED BY <1>1, <2>1, <2>2
<1>3. closed \in [1 .. Len(log) -> Runs] BY <1>1, <1>2
<1> QED BY <1>1, <1>3

\* Every step keeps the logs of step runs well typed.
LEMMA RunsType ==
    ASSUME TypeOK, Supports, [Next]_vars
    PROVE  runs' \in [Tasks -> Seq(Runs)]
<1>1. /\ runs \in [Tasks -> Seq(Runs)] /\ exec \in [Procs -> Threads]
      /\ job \in [Tokens -> Jobs]
  BY DEF TypeOK
<1>2. CASE runs' = runs BY <1>1, <1>2
<1>3. ASSUME NEW p \in Procs, SettleClose(p)
      PROVE  runs' \in [Tasks -> Seq(Runs)]
  <2>1. exec[p].cur \in Tasks BY <1>1, <1>3 DEF SettleClose, Threads
  <2>2. runs[exec[p].cur] \in Seq(Runs) BY <1>1, <2>1
  <2> QED BY <1>1, <1>3, <2>2, ClosedRunsType DEF SettleClose
<1>4. ASSUME NEW k \in Tokens, JobRecord(k)
      PROVE  runs' \in [Tasks -> Seq(Runs)]
  <2>1. job[k].task \in Tasks BY <1>4 DEF JobRecord, Supports, JobsHaveTasks
  <2>2. k \in Nat BY DEF Tokens
  <2>3. job[k].step \in Steps /\ job[k].attempt \in Nat BY <1>1 DEF Jobs
  <2> DEFINE new == [step |-> job[k].step, attempt |-> job[k].attempt, token |-> k,
                     status |-> "running"]
  <2>4. new \in Runs BY <2>2, <2>3 DEF Runs, RunStatus
  <2>5. runs' = [runs EXCEPT ![job[k].task] = Append(@, new)] BY <1>4 DEF JobRecord
  <2> HIDE DEF new
  <2>6. Append(runs[job[k].task], new) \in Seq(Runs) BY <1>1, <2>1, <2>4
  <2> QED BY <1>1, <2>5, <2>6
<1>5. ASSUME NEW k \in Tokens, NEW kind \in Returns(job[k].step), JobReturn(k, kind)
      PROVE  runs' \in [Tasks -> Seq(Runs)]
  <2> DEFINE log == runs[job[k].task]
  <2>1. job[k].task \in Tasks BY <1>5 DEF JobReturn, Supports, JobsHaveTasks
  <2>2. log \in Seq(Runs) BY <1>1, <2>1
  <2>3. RunResult(kind) \in RunStatus BY DEF RunResult, RunStatus
  <2>4. ASSUME NEW i \in DOMAIN log
        PROVE  [log[i] EXCEPT !.status = RunResult(kind)] \in Runs
    <3>1. log[i] \in Runs BY <2>2
    <3> QED BY <2>3, <3>1 DEF Runs
  <2>5. [log EXCEPT ![job[k].run].status = RunResult(kind)] \in Seq(Runs)
    <3>1. CASE job[k].run \in DOMAIN log
      <4>1. [log[job[k].run] EXCEPT !.status = RunResult(kind)] \in Runs BY <2>4, <3>1
      <4>2. job[k].run \in 1 .. Len(log) BY <2>2, <3>1
      <4> QED BY <2>2, <4>1, <4>2, ExceptSeq
    <3>2. CASE job[k].run \notin DOMAIN log
      <4>1. [log EXCEPT ![job[k].run].status = RunResult(kind)] = log BY <2>2, <3>2
      <4> QED BY <2>2, <4>1
    <3> QED BY <3>1, <3>2
  <2> QED BY <1>1, <1>5, <2>5 DEF JobReturn
<1>6. CASE Next
  <2>1. CASE \E p \in Procs : AcquireLock(p) \/ Recovery(p) \/ ReleaseLock(p) \/ Upset(p)
    BY <1>2, <2>1
       DEF AcquireLock, Recovery, ListRunning, ListPausing, ReleaseLock, Upset, RequestStop,
           Crash, RoundFails, RecoveryFails, tables
  <2>2. CASE \E p \in Procs : Settle(p)
    BY <1>2, <1>3, <2>2 DEF Settle, ReclaimSkip, SettleBegin, SettleAgain, SettleWrite, tables
  <2>3. CASE \E p \in Procs : Round(p)
    BY <1>2, <2>3
       DEF Round, ListStale, ListDueFailed, CountRunning, CountPausing, ListQueued,
           RequeueFailed, PassOver, SkipStep, Claim, ClaimBeyondBound, tables
  <2>4. CASE \E k \in Tokens : Work(k) \/ Heartbeat(k) \/ JobRaises(k)
    BY <1>2, <1>4, <1>5, <2>4
       DEF Work, JobStart, JobAdmit, FinishRead, FinishWrite, Heartbeat, JobRaises, tables
  <2>5. CASE (\E u \in Users : Command(u)) \/ Clock
    BY <1>2, <2>5
       DEF Command, UserReads, UserWrites, Clock, DelayEnds, HeartbeatAges, tables
  <2> QED BY <1>6, <2>1, <2>2, <2>3, <2>4, <2>5 DEF Next, Schedule
<1> QED BY <1>2, <1>6 DEF vars, tables

\* Every step keeps the lock and the two bounds well typed.
LEMMA LockType ==
    ASSUME TypeOK, [Next]_vars
    PROVE  lock' \in Procs \cup {NoProc} /\ claims' \in 0 .. MaxClaims /\ crashes' \in 0 .. MaxCrashes
<1>1. lock \in Procs \cup {NoProc} /\ claims \in 0 .. MaxClaims /\ crashes \in 0 .. MaxCrashes
  BY DEF TypeOK
<1>2. MaxClaims \in Nat /\ MaxCrashes \in Nat BY BoundAssumption
<1>3. CASE UNCHANGED <<lock, claims, crashes>> BY <1>1, <1>3
<1>4. CASE Next
  <2>1. CASE \E p \in Procs : AcquireLock(p) \/ Recovery(p) \/ ReleaseLock(p) \/ Upset(p)
    BY <1>1, <1>2, <2>1
       DEF AcquireLock, Recovery, ListRunning, ListPausing, ReleaseLock, Upset, RequestStop,
           Crash, RoundFails, RecoveryFails
  <2>2. CASE \E p \in Procs : Settle(p)
    BY <1>3, <2>2
       DEF Settle, ReclaimSkip, SettleBegin, SettleAgain, SettleWrite, SettleClose
  <2>3. CASE \E p \in Procs : Round(p)
    BY <1>1, <1>2, <2>3
       DEF Round, ListStale, ListDueFailed, CountRunning, CountPausing, ListQueued,
           RequeueFailed, PassOver, SkipStep, Claim, ClaimBeyondBound
  <2>4. CASE \E k \in Tokens : Work(k) \/ Heartbeat(k) \/ JobRaises(k)
    BY ZenonT(30), <1>3, <2>4
       DEF Work, JobStart, JobAdmit, JobRecord, JobReturn, FinishRead, FinishWrite, Heartbeat,
           JobRaises
  <2>5. CASE (\E u \in Users : Command(u)) \/ Clock
    BY <1>3, <2>5 DEF Command, UserReads, UserWrites, Clock, DelayEnds, HeartbeatAges
  <2> QED BY <1>4, <2>1, <2>2, <2>3, <2>4, <2>5 DEF Next, Schedule
<1> QED BY <1>3, <1>4 DEF vars

\* Every step keeps the history variables well typed.
LEMMA HistoryType ==
    ASSUME TypeOK, Supports, [Next]_vars
    PROVE  /\ approved' \subseteq Tasks \X Steps \X Nat
           /\ failures' \in [Tasks -> Nat]
           /\ person' \in [Tasks -> BOOLEAN]
<1> DEFINE Goal == /\ approved' \subseteq Tasks \X Steps \X Nat
                   /\ failures' \in [Tasks -> Nat]
                   /\ person' \in [Tasks -> BOOLEAN]
<1>1. /\ approved \subseteq Tasks \X Steps \X Nat
      /\ failures \in [Tasks -> Nat]
      /\ person \in [Tasks -> BOOLEAN]
  BY DEF TypeOK
<1>2. CASE UNCHANGED history BY <1>1, <1>2 DEF history
<1>3. ASSUME NEW k \in Tokens, Work(k)
      PROVE  Goal
  <2>1. CASE JobRecord(k) BY <1>1, <2>1 DEF JobRecord
  <2>2. CASE FinishWrite(k)
    <3>1. \/ failures' = [failures EXCEPT ![job[k].task] = @ + 1]
          \/ failures' = failures
      BY <2>2 DEF FinishWrite
    <3>2. failures' \in [Tasks -> Nat] BY <1>1, <3>1
    <3> QED BY <1>1, <2>2, <3>2 DEF FinishWrite
  <2>3. CASE JobStart(k) \/ JobAdmit(k) \/ FinishRead(k) \/ \E kind : JobReturn(k, kind)
    BY <1>2, <2>3 DEF JobStart, JobAdmit, JobReturn, FinishRead
  <2> QED BY <1>3, <2>1, <2>2, <2>3 DEF Work
<1>4. ASSUME NEW u \in Users, NEW r \in request[u], UserWrites(u, r.task, r.decision)
      PROVE  Goal
  <2>1. r.task \in Tasks /\ r.decision \in Decisions
    BY DEF Supports, RequestsAllowed, Allowed
  <2>2. r.decision.step \in Steps /\ r.decision.arg \in Nat BY <2>1 DEF Decisions
  <2>3. approved' \subseteq approved \cup {<<r.task, r.decision.step, r.decision.arg>>}
    BY <1>4 DEF UserWrites
  <2>4. \/ failures' = [failures EXCEPT ![r.task] = 0]
        \/ failures' = failures
    BY <1>4 DEF UserWrites
  <2>5. \/ person' = [person EXCEPT ![r.task] = TRUE]
        \/ person' = person
    BY <1>4 DEF UserWrites
  <2>6. approved' \subseteq Tasks \X Steps \X Nat
    <3>1. <<r.task, r.decision.step, r.decision.arg>> \in Tasks \X Steps \X Nat
      BY <2>1, <2>2
    <3> QED BY <1>1, <2>3, <3>1
  <2>7. failures' \in [Tasks -> Nat] BY <1>1, <2>4
  <2>8. person' \in [Tasks -> BOOLEAN] BY <1>1, <2>5
  <2> QED BY <2>6, <2>7, <2>8
<1>5. CASE Next
  <2>1. CASE \E p \in Procs : AcquireLock(p) \/ Recovery(p) \/ ReleaseLock(p) \/ Upset(p)
    BY <1>2, <2>1
       DEF AcquireLock, Recovery, ListRunning, ListPausing, ReleaseLock, Upset, RequestStop,
           Crash, RoundFails, RecoveryFails
  <2>2. CASE \E p \in Procs : Settle(p)
    BY <1>2, <2>2
       DEF Settle, ReclaimSkip, SettleBegin, SettleAgain, SettleWrite, SettleClose
  <2>3. CASE \E p \in Procs : Round(p)
    BY <1>2, <2>3
       DEF Round, ListStale, ListDueFailed, CountRunning, CountPausing, ListQueued,
           RequeueFailed, PassOver, SkipStep, Claim, ClaimBeyondBound
  <2>4. CASE \E k \in Tokens : Heartbeat(k) \/ JobRaises(k)
    BY <1>2, <2>4 DEF Heartbeat, JobRaises
  <2>5. CASE (\E u \in Users : \E t \in Tasks : UserReads(u, t)) \/ Clock
    BY <1>2, <2>5 DEF UserReads, Clock, DelayEnds, HeartbeatAges
  <2> QED BY <1>3, <1>4, <1>5, <2>1, <2>2, <2>3, <2>4, <2>5 DEF Next, Schedule, Command
<1> QED BY <1>2, <1>5 DEF vars, history

---------------------------------------------------------------------------
(* The invariant.                                                           *)

\* No step adds or removes a task.
LEMMA TasksStay ==
    ASSUME TypeOK, [Next]_vars
    PROVE  task' = [t \in Tasks |-> task'[t]]
<1>1. task = [t \in Tasks |-> task[t]] BY DEF TypeOK
<1>2. CASE task' = task BY <1>1, <1>2
<1>3. ASSUME NEW t, NEW row, task' = [task EXCEPT ![t] = row]
      PROVE  task' = [x \in Tasks |-> task'[x]]
  BY <1>1, <1>3
<1>4. CASE Next
  <2>1. CASE \E p \in Procs : AcquireLock(p) \/ Recovery(p) \/ ReleaseLock(p) \/ Upset(p)
    BY <1>2, <2>1
       DEF AcquireLock, Recovery, ListRunning, ListPausing, ReleaseLock, Upset, RequestStop,
           Crash, RoundFails, RecoveryFails, tables
  <2>2. CASE \E p \in Procs : Settle(p)
    BY <1>2, <1>3, <2>2
       DEF Settle, ReclaimSkip, SettleBegin, SettleAgain, SettleWrite, SettleClose, tables
  <2>3. CASE \E p \in Procs : Round(p)
    BY SMTT(30), <1>2, <1>3, <2>3
       DEF Round, ListStale, ListDueFailed, CountRunning, CountPausing, ListQueued,
           RequeueFailed, PassOver, SkipStep, Claim, ClaimBeyondBound, tables
  <2>4. CASE \E k \in Tokens : Work(k) \/ Heartbeat(k) \/ JobRaises(k)
    BY ZenonT(30), <1>2, <1>3, <2>4
       DEF Work, JobStart, JobAdmit, JobRecord, JobReturn, FinishRead, FinishWrite, Heartbeat,
           JobRaises, tables
  <2>5. CASE (\E u \in Users : Command(u)) \/ Clock
    BY <1>2, <1>3, <2>5
       DEF Command, UserReads, UserWrites, Clock, DelayEnds, HeartbeatAges, tables
  <2> QED BY <1>4, <2>1, <2>2, <2>3, <2>4, <2>5 DEF Next, Schedule
<1> QED BY <1>2, <1>4 DEF vars, tables

\* The inductive invariant holds initially.
LEMMA InvInit ==
    ASSUME Init
    PROVE  IInv
<1> USE DEF Init
<1>1. task \in [Tasks -> Rows] BY NewRowType
<1>2. runs \in [Tasks -> Seq(Runs)] OBVIOUS
<1>3. exec \in [Procs -> Threads] BY OffType
<1>4. job \in [Tokens -> Jobs] BY JobType
<1>5. 0 \in 0 .. MaxClaims /\ 0 \in 0 .. MaxCrashes BY BoundAssumption
<1>6. TypeOK BY <1>1, <1>2, <1>3, <1>4, <1>5 DEF TypeOK
<1>7. Supports
  BY DEF Supports, JobsHaveTasks, RequestsAllowed, SettlesExecuting, Job, Off, Thread
<1>8. FlagsMatchStatus
  BY DEF FlagsMatchStatus, FlagsMatch, NewRow, Executing, NoToken
<1> QED BY <1>6, <1>7, <1>8 DEF IInv

\* Every step preserves it.
LEMMA InvNext ==
    ASSUME IInv, [Next]_vars
    PROVE  IInv'
<1>1. TypeOK /\ Supports /\ FlagsMatchStatus BY DEF IInv
<1>2. task \in [Tasks -> Rows] /\ claims \in Nat
  BY <1>1, BoundAssumption DEF TypeOK
<1>3. \A t \in Tasks : RowStep(t) BY <1>1, RowSteps
<1>4. \A t \in Tasks : task'[t] \in Rows BY <1>2, <1>3, RowStepType
<1>5. \A t \in Tasks : FlagsMatch(task'[t])
  BY <1>1, <1>2, <1>3, RowStepFlags DEF FlagsMatchStatus
<1>6. task' \in [Tasks -> Rows]
  BY <1>1, <1>4, TasksStay
<1>7. TypeOK'
  BY <1>1, <1>6, RunsType, LockType, ExecType, JobsType, RequestsNext, HistoryType DEF TypeOK
<1>8. Supports'
  BY <1>1, JobsHaveTasksNext, RequestsNext, SettlesExecutingNext DEF Supports
<1> QED BY <1>5, <1>7, <1>8 DEF IInv, FlagsMatchStatus

---------------------------------------------------------------------------
(* The theorems.                                                            *)

\* So it always holds.
LEMMA InvAlways == Spec => []IInv
<1>1. Init => IInv BY InvInit
<1>2. IInv /\ [Next]_vars => IInv' BY InvNext
<1> QED BY <1>1, <1>2, PTL DEF Spec

\* Every variable keeps its type.  In particular a transition never leaves the
\* workflow (the step of a row is always one of its steps), and the claims and the
\* recorded runs are what the code's readers take them for.
THEOREM TypeCorrect == Spec => []TypeOK
<1>1. IInv => TypeOK BY DEF IInv
<1> QED BY <1>1, InvAlways, PTL

\* Whatever the order in which workers, recovery, the scheduler and users read and
\* write a row, its flags and its claim agree with its status.
THEOREM FlagsCorrect == Spec => []FlagsMatchStatus
<1>1. IInv => FlagsMatchStatus BY DEF IInv
<1> QED BY <1>1, InvAlways, PTL

\* A row changed by one of its rules keeps the requests of the user.
LEMMA RowStepKeeps ==
    ASSUME NEW t \in Tasks, task[t] \in Rows, FlagsMatch(task[t]), RowStep(t)
    PROVE  RequestsKept(task[t], task'[t])
<1>1. CASE BySettle(t) BY <1>1, SettledKeeps DEF BySettle
<1>2. CASE ByBoundary(t)
  BY <1>2, BoundaryKeeps DEF ByBoundary, Outcomes, OutcomeKinds, Tokens
<1>3. CASE ByScheduler(t) BY <1>3, SchedulerKeeps DEF ByScheduler
<1>4. CASE ByUser(t) BY <1>4, DecidedKeeps DEF ByUser
<1>5. CASE ByClock(t) \/ task'[t] = task[t]
  BY <1>5 DEF ByClock, Rows, FlagsMatch, RequestsKept, TerminateKept, EndKept, PauseKept
<1> QED BY <1>1, <1>2, <1>3, <1>4, <1>5 DEF RowStep

\* So does every step of the system, from the invariant.
LEMMA StepKeeps ==
    ASSUME IInv, [Next]_vars, NEW t \in Tasks
    PROVE  RequestsKept(task[t], task'[t])
<1>1. TypeOK /\ Supports /\ FlagsMatch(task[t]) BY DEF IInv, FlagsMatchStatus
<1>2. task[t] \in Rows BY <1>1 DEF TypeOK
<1> QED BY <1>1, <1>2, RowSteps, RowStepKeeps

\* A terminate request is never lost, overridden or withdrawn.
THEOREM TerminateCorrect == Spec => TerminateWins
<1>1. IInv /\ [Next]_vars =>
        [\A t \in Tasks : task[t].term =>
          \/ task'[t].term /\ task'[t].status \in Executing /\ task'[t].step = task[t].step
          \/ task'[t].status = "terminated"]_vars
  BY StepKeeps DEF RequestsKept, TerminateKept
<1> QED BY <1>1, InvAlways, PTL DEF Spec, TerminateWins

\* No late worker, recovery, round or command touches the status or step of a
\* finished task.
THEOREM TerminalCorrect == Spec => TerminalIsFinal
<1>1. IInv /\ [Next]_vars =>
        [\A t \in Tasks : task[t].status \in Terminal =>
          task'[t].status = task[t].status /\ task'[t].step = task[t].step]_vars
  BY StepKeeps DEF RequestsKept, EndKept
<1> QED BY <1>1, InvAlways, PTL DEF Spec, TerminalIsFinal

\* A task whose pause was requested while it ran is never put back to work without
\* a person.
THEOREM PauseCorrect == Spec => PauseIsHonoured
<1>1. IInv /\ [Next]_vars =>
        [\A t \in Tasks : task[t].status = "pause_pending" =>
          task'[t].status \in {"pause_pending", "paused", "manual_required"} \cup Terminal]_vars
  BY StepKeeps DEF RequestsKept, PauseKept
<1> QED BY <1>1, InvAlways, PTL DEF Spec, PauseIsHonoured

---------------------------------------------------------------------------
(* Retry accounting.                                                        *)

\* A step charges a failure to a task and adds it to its counter, or resets both,
\* or leaves both.
ChargeStep(t) ==
    \/ failures'[t] = failures[t] /\ task'[t].retry = task[t].retry
    \/ failures'[t] = failures[t] + 1 /\ task'[t].retry = task[t].retry + 1
    \/ failures'[t] = 0 /\ task'[t].retry = 0

\* A step changes the retry count of a row exactly as it changes the failures charged to
\* the task.
LEMMA ChargeSteps ==
    ASSUME TypeOK, Supports, [Next]_vars, NEW t \in Tasks
    PROVE  ChargeStep(t)
<1>1. /\ task \in [Tasks -> Rows] /\ exec \in [Procs -> Threads]
      /\ job \in [Tokens -> Jobs] /\ failures \in [Tasks -> Nat]
  BY DEF TypeOK
<1>2. task[t] \in Rows BY <1>1
<1>3. CASE task' = task /\ failures' = failures BY <1>3 DEF ChargeStep
<1>4. ASSUME NEW x, NEW row, task' = [task EXCEPT ![x] = row], failures' = failures,
             x = t => row.retry = task[t].retry
      PROVE  ChargeStep(t)
  BY <1>1, <1>4 DEF ChargeStep
<1>5. ASSUME NEW p \in Procs, Settle(p)
      PROVE  ChargeStep(t)
  <2>1. CASE SettleWrite(p)
    <3>1. \/ task' = task
          \/ task' = [task EXCEPT ![exec[p].cur] = Settled(task[exec[p].cur], exec[p].seen)]
      BY <2>1 DEF SettleWrite
    <3>2. failures' = failures BY <2>1 DEF SettleWrite, history
    <3>3. Settled(task[t], exec[p].seen).retry = task[t].retry BY <1>2, SettledRetry
    <3> QED BY <1>3, <1>4, <3>1, <3>2, <3>3
  <2>2. CASE SettleAgain(p) \/ SettleClose(p) \/ \E e : ReclaimSkip(p, e) \/ SettleBegin(p, e)
    BY <1>3, <2>2 DEF SettleAgain, SettleClose, ReclaimSkip, SettleBegin, tables, history
  <2> QED BY <1>5, <2>1, <2>2 DEF Settle
<1>6. ASSUME NEW p \in Procs, Round(p)
      PROVE  ChargeStep(t)
  <2>1. \A token, degraded :
          /\ Claimed(task[t], token).retry = task[t].retry
          /\ Skipped(task[t], degraded).retry = task[t].retry
          /\ Requeued(task[t]).retry = task[t].retry
    BY <1>2, SchedulerRetry
  <2>2. ASSUME NEW e, RequeueFailed(p, e) \/ SkipStep(p, e) \/ Claim(p, e)
        PROVE  ChargeStep(t)
    <3>1. failures' = failures BY <2>2 DEF RequeueFailed, SkipStep, Claim, history
    <3>2. PICK row : /\ task' = [task EXCEPT ![e.id] = row]
                     /\ row \in {task[e.id], Requeued(task[e.id]), Claimed(task[e.id], claims + 1),
                                 Skipped(task[e.id], LatestIsDegraded(runs[e.id]))}
      BY <2>2 DEF RequeueFailed, SkipStep, Claim
    <3> QED BY <1>4, <2>1, <3>1, <3>2
  <2>3. CASE \/ ListStale(p) \/ ListDueFailed(p) \/ CountRunning(p) \/ CountPausing(p)
             \/ ListQueued(p) \/ \E e : PassOver(p, e) \/ ClaimBeyondBound(p, e)
    BY <1>3, <2>3
       DEF ListStale, ListDueFailed, CountRunning, CountPausing, ListQueued, PassOver,
           ClaimBeyondBound, tables, history
  <2> QED BY <1>6, <2>2, <2>3 DEF Round
<1>7. ASSUME NEW k \in Tokens, FinishWrite(k)
      PROVE  ChargeStep(t)
  <2>1. job[k].seen \in Rows /\ job[k].out \in [kind : OutcomeKinds, attempt : Nat]
    BY <1>1 DEF Jobs, Outcomes, OutcomeKinds
  <2>2. CASE task' # task /\ job[k].task = t
    <3>1. FinishMatches(task[t], job[k].seen, k)
      BY <1>7, <2>2 DEF FinishWrite
    <3>2. task'[t] = Boundary(task[t], job[k].seen, job[k].out, LatestIsDegraded(runs[t]))
      BY <1>1, <1>7, <2>2 DEF FinishWrite
    <3>3. failures'[t] = IF Charges(job[k].seen, job[k].out)
                         THEN failures[t] + 1 ELSE failures[t]
      BY <1>1, <1>7, <2>2 DEF FinishWrite, Charges
    <3> QED BY <1>2, <2>1, <3>1, <3>2, <3>3, BoundaryRetry DEF ChargeStep
  <2>3. CASE job[k].task # t
    BY <1>1, <1>7, <2>3 DEF FinishWrite, ChargeStep
  <2>4. CASE task' = task /\ job[k].task = t
    <3>1. CASE FinishMatches(task[t], job[k].seen, k)
      <4>1. task'[t] = Boundary(task[t], job[k].seen, job[k].out, LatestIsDegraded(runs[t]))
        BY <1>1, <1>7, <2>4, <3>1 DEF FinishWrite
      <4>2. failures'[t] = IF Charges(job[k].seen, job[k].out)
                           THEN failures[t] + 1 ELSE failures[t]
        BY <1>1, <1>7, <2>4, <3>1 DEF FinishWrite, Charges
      <4> QED BY <1>2, <2>1, <3>1, <4>1, <4>2, BoundaryRetry DEF ChargeStep
    <3>2. CASE ~FinishMatches(task[t], job[k].seen, k)
      BY <1>3, <1>7, <2>4, <3>2 DEF FinishWrite
    <3> QED BY <3>1, <3>2
  <2> QED BY <2>2, <2>3, <2>4
<1>8. ASSUME NEW k \in Tokens, Heartbeat(k)
      PROVE  ChargeStep(t)
  BY <1>1, <1>2, <1>8 DEF Heartbeat, history, ChargeStep, Rows
<1>9. ASSUME NEW u \in Users, NEW r \in request[u], UserWrites(u, r.task, r.decision)
      PROVE  ChargeStep(t)
  <2>1. r.decision \in Decisions BY DEF Supports, RequestsAllowed, Allowed
  <2>2. CASE t = r.task /\ StillAsRead(task[t], r.decision)
    <3>1. task'[t] = Decided(task[t], r.decision) BY <1>1, <1>9, <2>2 DEF UserWrites
    <3>2. failures'[t] = IF r.decision.act = "set_retries" THEN 0 ELSE failures[t]
      BY <1>1, <1>9, <2>2 DEF UserWrites
    <3> QED BY <1>2, <2>1, <3>1, <3>2, DecidedRetry DEF ChargeStep
  <2>3. CASE ~(t = r.task /\ StillAsRead(task[t], r.decision))
    BY <1>1, <1>9, <2>3 DEF UserWrites, ChargeStep
  <2> QED BY <2>2, <2>3
<1>10. CASE Clock
  BY <1>1, <1>2, <1>10 DEF Clock, DelayEnds, HeartbeatAges, history, ChargeStep, Rows
<1>11. CASE Next
  <2>1. CASE \E p \in Procs : AcquireLock(p) \/ Recovery(p) \/ ReleaseLock(p) \/ Upset(p)
    BY <1>3, <2>1
       DEF AcquireLock, Recovery, ListRunning, ListPausing, ReleaseLock, Upset, RequestStop,
           Crash, RoundFails, RecoveryFails, tables, history
  <2>2. CASE \E k \in Tokens : Work(k) \/ Heartbeat(k) \/ JobRaises(k)
    BY <1>3, <1>7, <1>8, <2>2
       DEF Work, JobStart, JobAdmit, JobRecord, JobReturn, FinishRead, JobRaises, tables, history
  <2>3. CASE \E u \in Users : Command(u)
    BY <1>3, <1>9, <2>3 DEF Command, UserReads, tables, history
  <2> QED BY <1>5, <1>6, <1>10, <1>11, <2>1, <2>2, <2>3 DEF Next, Schedule
<1> QED BY <1>3, <1>11 DEF vars

\* retry_count counts the failures charged since the last set-retries: no failing
\* worker overwrites a concurrent reset, and no reset loses a later failure.
THEOREM RetriesCorrect == Spec => []RetriesCounted
<1>1. Init => RetriesCounted BY DEF Init, RetriesCounted, NewRow
<1>2. IInv /\ RetriesCounted /\ [Next]_vars => RetriesCounted'
  <2> SUFFICES ASSUME IInv, RetriesCounted, [Next]_vars
               PROVE  \A t \in Tasks : task'[t].retry = failures'[t]
    BY DEF RetriesCounted
  <2>1. \A t \in Tasks : ChargeStep(t) BY ChargeSteps DEF IInv
  <2> QED BY <2>1 DEF RetriesCounted, ChargeStep
<1> QED BY <1>1, <1>2, InvAlways, PTL DEF Spec

---------------------------------------------------------------------------
(* The strengthening for the runs.                                          *)

Serving == Looping \cup {"stopping"}

\* Whoever runs holds the executor lock.
OnlyHolderRuns == \A p \in Procs : exec[p].pc # "off" => lock = p

\* A live job belongs to a process whose startup recovery is over.
JobsAreServed ==
    \A k \in Tokens : job[k].pc \in Live =>
        job[k].proc \in Procs /\ exec[job[k].proc].pc \in Serving

\* A live job holds the claim its row names.
JobsHoldClaims ==
    \A k \in Tokens : job[k].pc \in Live =>
        task[job[k].task].status \in Executing /\ task[job[k].task].token = k

\* The rows reclaim_stale listed still name the claim they were listed with, if any;
\* the task it settles has no live job.
ReclaimSpares ==
    \A p \in Procs : exec[p].pc = "reclaim" =>
        /\ \A e \in exec[p].todo :
              task[e.id].status \in Executing => task[e.id].token = e.row.token
        /\ \A k \in Tokens : job[k].pc \in Live => job[k].task # exec[p].cur

\* A task is being settled only in the phases that settle.
SettlesInPhase == \A p \in Procs : exec[p].cur # NoTask => Settling(p)

ExecInv ==
    OnlyHolderRuns /\ JobsAreServed /\ JobsHoldClaims /\ ReclaimSpares /\ SettlesInPhase

---------------------------------------------------------------------------
(* What a step does to a claim, to a job and to a thread.                   *)

\* A row that executes after the step executed before it under the same claim.
ClaimKept(old, new) ==
    new.status \in Executing => old.status \in Executing /\ new.token = old.token

\* A boundary releases the row.
LEMMA BoundaryReleases ==
    ASSUME NEW row \in Rows, NEW seen \in Rows, NEW degraded,
           NEW out \in [kind : OutcomeKinds, attempt : Nat]
    PROVE  Boundary(row, seen, out, degraded).status \notin Executing
<1> USE DEF Rows, Released, Unlock, Executing
<1>1. CASE seen.term BY <1>1 DEF Boundary
<1>2. CASE ~seen.term /\ Succeeds(out)
  <2>1. BoundarySucceeded(row, seen, out, degraded).status \notin Executing
    BY DEF BoundarySucceeded, PausedOr, FinalStatus
  <2> QED BY <1>2, <2>1 DEF Boundary, Succeeds
<1>3. CASE ~seen.term /\ out.kind = "denied" BY <1>3 DEF Boundary, Succeeds
<1>4. CASE ~seen.term /\ out.kind = "ask" BY <1>4 DEF Boundary, BoundaryAsked, Succeeds
<1>5. CASE ~seen.term /\ out.kind \in {"notready", "later"}
  BY <1>5 DEF Boundary, BoundaryDeferred, Succeeds
<1>6. CASE ~seen.term /\ out.kind \in {"failed", "fatal"}
  BY <1>6 DEF Boundary, BoundaryFailed, Succeeds
<1> QED BY <1>1, <1>2, <1>3, <1>4, <1>5, <1>6 DEF OutcomeKinds, Succeeds

\* So do recovery and reclaim.
LEMMA SettledReleases ==
    ASSUME NEW row \in Rows, NEW seen \in Rows
    PROVE  Settled(row, seen).status \notin Executing
BY DEF Rows, Released, Unlock, Executing, Settled

\* A user action puts no task to execution and takes no claim.
LEMMA DecidedKeepsClaim ==
    ASSUME NEW row \in Rows, NEW d \in Allowed, StillAsRead(row, d)
    PROVE  ClaimKept(row, Decided(row, d))
<1> USE DEF Rows, StillAsRead, Decided, ClaimKept, Executing
<1>1. PICK read \in Rows : Decides(d, read) BY DEF Allowed
<1>2. d \in Decisions BY DEF Allowed
<1>3. d.expect = read.status BY <1>1 DEF Decides
<1>4. CASE d.act \in {"pause", "terminate", "set_retries"} BY <1>4
<1>5. CASE d.act \in {"resume", "retry", "approve", "reject", "wake", "set_step", "force_step"}
  <2>1. d.expect \in {"paused", "failed", "manual_required", "awaiting_approval", "queued"}
    BY <1>1, <1>3, <1>5 DEF Decides
  <2> QED BY <1>5, <2>1 DEF Requeued
<1> QED BY <1>2, <1>4, <1>5 DEF Decisions, UserActions

\* Conversely, a user action leaves an executing task executing under its claim.
LEMMA DecidedKeepsExecution ==
    ASSUME NEW row \in Rows, NEW d \in Allowed, StillAsRead(row, d), row.status \in Executing
    PROVE  Decided(row, d).status \in Executing /\ Decided(row, d).token = row.token
<1> USE DEF Rows, StillAsRead, Decided, Executing
<1>1. PICK read \in Rows : Decides(d, read) BY DEF Allowed
<1>2. d \in Decisions BY DEF Allowed
<1>3. d.expect = read.status BY <1>1 DEF Decides
<1>4. CASE d.act = "pause"
  <2>1. d.expect \in {"queued", "running"} BY <1>1, <1>3, <1>4 DEF Decides
  <2> QED BY <1>4, <2>1
<1>5. CASE d.act \in {"terminate", "set_retries"} BY <1>5
<1>6. CASE d.act \in {"resume", "retry", "approve", "reject", "wake", "set_step", "force_step"}
  <2>1. d.expect \in {"paused", "failed", "manual_required", "awaiting_approval", "queued"}
    BY <1>1, <1>3, <1>6 DEF Decides
  <2> QED BY <2>1
<1> QED BY <1>2, <1>4, <1>5, <1>6 DEF Decisions, UserActions

\* No step but a claim puts a task to execution or changes the claim of one.
LEMMA ClaimSteps ==
    ASSUME TypeOK, Supports, [Next]_vars
    PROVE  \/ \E p \in Procs : \E e \in exec[p].todo : Claim(p, e)
           \/ \A t \in Tasks : ClaimKept(task[t], task'[t])
<1>1. /\ task \in [Tasks -> Rows] /\ exec \in [Procs -> Threads]
      /\ job \in [Tokens -> Jobs]
  BY DEF TypeOK
<1> DEFINE Kept == \A t \in Tasks : ClaimKept(task[t], task'[t])
<1>2. ASSUME task' = task PROVE Kept
  BY <1>2 DEF ClaimKept
<1>3. ASSUME NEW x, NEW row, task' = [task EXCEPT ![x] = row],
             x \in Tasks => ClaimKept(task[x], row)
      PROVE  Kept
  BY <1>1, <1>3 DEF ClaimKept
<1>4. ASSUME NEW p \in Procs, Settle(p)
      PROVE  Kept
  <2>1. CASE SettleWrite(p) /\ task' # task
    <3>1. task' = [task EXCEPT ![exec[p].cur] = Settled(task[exec[p].cur], exec[p].seen)]
      BY <2>1 DEF SettleWrite
    <3>2. exec[p].cur \in Tasks =>
             Settled(task[exec[p].cur], exec[p].seen).status \notin Executing
      BY <1>1, SettledReleases DEF Threads
    <3> QED BY <1>3, <3>1, <3>2 DEF ClaimKept
  <2>2. CASE SettleAgain(p) \/ SettleClose(p) \/ \E e : ReclaimSkip(p, e) \/ SettleBegin(p, e)
    <3>1. task' = task
      BY <2>2 DEF ReclaimSkip, SettleBegin, SettleAgain, SettleClose, tables
    <3> QED BY <1>2, <3>1
  <2> QED BY <1>2, <1>4, <2>1, <2>2 DEF Settle
<1>5. ASSUME NEW p \in Procs, NEW e, RequeueFailed(p, e) \/ SkipStep(p, e)
      PROVE  Kept
  <2>1. PICK row : /\ task' = [task EXCEPT ![e.id] = row]
                   /\ \/ row = task[e.id]
                      \/ row = Requeued(task[e.id])
                      \/ /\ task[e.id].status = "queued"
                         /\ row = Skipped(task[e.id], LatestIsDegraded(runs[e.id]))
    BY <1>5 DEF RequeueFailed, SkipStep
  <2>2. e.id \in Tasks => ClaimKept(task[e.id], row)
    BY <1>1, <2>1 DEF ClaimKept, Requeued, Skipped, FinalStatus, Rows, Executing
  <2> QED BY <1>3, <2>1, <2>2
<1>6. ASSUME NEW k \in Tokens, FinishWrite(k), task' # task
      PROVE  Kept
  <2>1. task' = [task EXCEPT ![job[k].task] =
                    Boundary(task[job[k].task], job[k].seen, job[k].out,
                             LatestIsDegraded(runs[job[k].task]))]
    BY <1>6 DEF FinishWrite
  <2>2. job[k].seen \in Rows /\ job[k].out \in [kind : OutcomeKinds, attempt : Nat]
    BY <1>1 DEF Jobs, Outcomes, OutcomeKinds
  <2>3. job[k].task \in Tasks =>
           Boundary(task[job[k].task], job[k].seen, job[k].out,
                    LatestIsDegraded(runs[job[k].task])).status \notin Executing
    BY <1>1, <2>2, BoundaryReleases
  <2> QED BY <1>3, <2>1, <2>3 DEF ClaimKept
<1>7. ASSUME NEW k \in Tokens, Heartbeat(k)
      PROVE  Kept
  BY <1>1, <1>7 DEF Heartbeat, ClaimKept, Rows
<1>8. ASSUME NEW u \in Users, NEW r \in request[u], UserWrites(u, r.task, r.decision)
      PROVE  Kept
  <2>1. r.task \in Tasks /\ r.decision \in Allowed
    BY DEF Supports, RequestsAllowed
  <2>2. CASE StillAsRead(task[r.task], r.decision)
    <3>1. task' = [task EXCEPT ![r.task] = Decided(task[r.task], r.decision)]
      BY <1>8, <2>2 DEF UserWrites
    <3>2. ClaimKept(task[r.task], Decided(task[r.task], r.decision))
      BY <1>1, <2>1, <2>2, DecidedKeepsClaim
    <3> QED BY <1>3, <3>1, <3>2
  <2>3. CASE ~StillAsRead(task[r.task], r.decision)
    <3>1. task' = task BY <1>8, <2>3 DEF UserWrites
    <3> QED BY <1>2, <3>1
  <2> QED BY <2>2, <2>3
<1>9. CASE Clock
  BY <1>1, <1>9 DEF Clock, DelayEnds, HeartbeatAges, ClaimKept, Rows
<1>10. CASE Next
  <2>1. CASE \E p \in Procs : AcquireLock(p) \/ Recovery(p) \/ ReleaseLock(p) \/ Upset(p)
    BY <1>2, <2>1
       DEF AcquireLock, Recovery, ListRunning, ListPausing, ReleaseLock, Upset, RequestStop,
           Crash, RoundFails, RecoveryFails, tables
  <2>2. CASE \E p \in Procs : Round(p)
    BY <1>2, <1>5, <2>2
       DEF Round, ListStale, ListDueFailed, CountRunning, CountPausing, ListQueued,
           PassOver, ClaimBeyondBound, tables
  <2>3. CASE \E k \in Tokens : Work(k) \/ Heartbeat(k) \/ JobRaises(k)
    BY <1>2, <1>6, <1>7, <2>3
       DEF Work, JobStart, JobAdmit, JobRecord, JobReturn, FinishRead, JobRaises, tables
  <2>4. CASE \E u \in Users : Command(u)
    BY <1>2, <1>8, <2>4 DEF Command, UserReads, tables
  <2> QED BY <1>4, <1>9, <1>10, <2>1, <2>2, <2>3, <2>4 DEF Next, Schedule
<1> QED BY <1>2, <1>10 DEF vars

\* A job that is alive after the step was the same live job before it.
JobKept(k) ==
    job'[k].pc \in Live =>
        job[k].pc \in Live /\ job'[k].task = job[k].task /\ job'[k].proc = job[k].proc

\* No step but a claim starts a job.
LEMMA JobSteps ==
    ASSUME TypeOK, [Next]_vars
    PROVE  \/ \E p \in Procs : \E e \in exec[p].todo : Claim(p, e)
           \/ \A k \in Tokens : JobKept(k)
<1>1. job \in [Tokens -> Jobs] BY DEF TypeOK
<1> DEFINE Kept == \A k \in Tokens : JobKept(k)
<1>2. ASSUME job' = job PROVE Kept
  BY <1>2 DEF JobKept
<1>3. ASSUME NEW p \in Procs, ReleaseLock(p) \/ Crash(p)
      PROVE  Kept
  BY <1>1, <1>3 DEF ReleaseLock, Crash, Orphaned, Job, JobKept, Live, Working
<1>4. ASSUME NEW k \in Tokens, Work(k) \/ JobRaises(k)
      PROVE  Kept
  <2>1. job[k].pc \in Live
    BY <1>4
       DEF Work, JobStart, JobAdmit, JobRecord, JobReturn, FinishRead, FinishWrite, JobRaises,
           Live, Working
  <2>2. \A x \in Tokens : /\ job'[x].task = job[x].task /\ job'[x].proc = job[x].proc
                          /\ x # k => job'[x] = job[x]
    <3>1. CASE JobStart(k) BY <1>1, <3>1 DEF JobStart, Ended, Job, Jobs
    <3>2. CASE JobAdmit(k) BY <1>1, <3>2 DEF JobAdmit, Jobs
    <3>3. CASE JobRecord(k) BY <1>1, <3>3 DEF JobRecord, Jobs
    <3>4. CASE \E kind : JobReturn(k, kind) BY <1>1, <3>4 DEF JobReturn, Jobs
    <3>5. CASE FinishRead(k) BY <1>1, <3>5 DEF FinishRead, Ended, Job, Jobs
    <3>6. CASE FinishWrite(k) BY <1>1, <3>6 DEF FinishWrite, Ended, Job, Jobs
    <3>7. CASE JobRaises(k) BY <1>1, <3>7 DEF JobRaises, Ended, Job, Jobs
    <3> QED BY <1>4, <3>1, <3>2, <3>3, <3>4, <3>5, <3>6, <3>7 DEF Work
  <2> QED BY <2>1, <2>2 DEF JobKept
<1>5. CASE Next
  <2>1. CASE \E p \in Procs : AcquireLock(p) \/ Recovery(p) \/ Settle(p) \/ ReleaseLock(p) \/ Upset(p)
    BY <1>2, <1>3, <2>1
       DEF AcquireLock, Recovery, ListRunning, ListPausing, Settle, ReclaimSkip, SettleBegin,
           SettleAgain, SettleWrite, SettleClose, Upset, RequestStop, RoundFails, RecoveryFails
  <2>2. CASE \E p \in Procs : Round(p)
    BY <1>2, <2>2
       DEF Round, ListStale, ListDueFailed, CountRunning, CountPausing, ListQueued,
           RequeueFailed, PassOver, SkipStep, ClaimBeyondBound
  <2>3. CASE \E k \in Tokens : Heartbeat(k)
    BY <1>2, <2>3 DEF Heartbeat
  <2>4. CASE (\E u \in Users : Command(u)) \/ Clock
    BY <1>2, <2>4 DEF Command, UserReads, UserWrites, Clock, DelayEnds, HeartbeatAges
  <2> QED BY <1>4, <1>5, <2>1, <2>2, <2>3, <2>4 DEF Next, Schedule
<1> QED BY <1>2, <1>5 DEF vars

---------------------------------------------------------------------------
(* The lock and the threads.                                                *)

\* No step but those four gives or takes the lock, or starts or ends a thread.
LEMMA LockSteps ==
    ASSUME TypeOK, Supports, [Next]_vars
    PROVE  \/ \E p \in Procs :
                 AcquireLock(p) \/ ReleaseLock(p) \/ Crash(p) \/ RecoveryFails(p)
           \/ /\ lock' = lock
              /\ \A q \in Procs : /\ exec'[q].pc # "off" => exec[q].pc # "off"
                                  /\ exec[q].pc \in Serving => exec'[q].pc \in Serving
<1>1. exec \in [Procs -> Threads] BY DEF TypeOK
<1> DEFINE Kept == /\ lock' = lock
                   /\ \A q \in Procs : /\ exec'[q].pc # "off" => exec[q].pc # "off"
                                       /\ exec[q].pc \in Serving => exec'[q].pc \in Serving
<1>2. ASSUME lock' = lock, exec' = exec PROVE Kept
  BY <1>2
<1>3. ASSUME lock' = lock, NEW p \in Procs, NEW thread, exec' = [exec EXCEPT ![p] = thread],
             exec[p].pc # "off", thread.pc # "off",
             exec[p].pc \in Serving => thread.pc \in Serving
      PROVE  Kept
  BY <1>1, <1>3
<1>4. ASSUME lock' = lock, NEW p \in Procs, NEW thread, exec' = [exec EXCEPT ![p] = thread],
             thread.pc = exec[p].pc
      PROVE  Kept
  BY <1>1, <1>4
<1>5. ASSUME NEW p \in Procs, Recovery(p) \/ RequestStop(p) \/ RoundFails(p)
      PROVE  Kept
  BY <1>1, <1>3, <1>5
     DEF Recovery, ListRunning, ListPausing, RequestStop, RoundFails, BetweenRounds, ListDone,
         Thread, Serving, Looping
<1>6. ASSUME NEW p \in Procs, Settle(p)
      PROVE  Kept
  <2>1. lock' = lock
    BY <1>6 DEF Settle, ReclaimSkip, SettleBegin, SettleAgain, SettleWrite, SettleClose
  <2>2. \A t, tries : SettleReads(p, t, tries).pc = exec[p].pc
    BY <1>1 DEF SettleReads, Threads
  <2>3. PICK thread : exec' = [exec EXCEPT ![p] = thread] /\ thread.pc = exec[p].pc
    <3>1. CASE \E e : ReclaimSkip(p, e)
      <4>1. PICK e : exec' = [exec EXCEPT ![p] = [exec[p] EXCEPT !.todo = @ \ {e}]]
        BY <1>1, <3>1 DEF ReclaimSkip, Drop
      <4>2. [exec[p] EXCEPT !.todo = @ \ {e}].pc = exec[p].pc BY <1>1 DEF Threads
      <4> QED BY <4>1, <4>2
    <3>2. CASE \E e : SettleBegin(p, e)
      <4>1. PICK e : exec' = [exec EXCEPT ![p] =
                                  [SettleReads(p, e.id, 0) EXCEPT !.todo = @ \ {e}]]
        BY <3>2 DEF SettleBegin
      <4>2. [SettleReads(p, e.id, 0) EXCEPT !.todo = @ \ {e}].pc = exec[p].pc
        BY <1>1, <2>2 DEF SettleReads, Threads
      <4> QED BY <4>1, <4>2
    <3>3. CASE SettleAgain(p)
      BY <2>2, <3>3 DEF SettleAgain
    <3>4. CASE SettleWrite(p)
      <4>1. PICK sub : exec' = [exec EXCEPT ![p] = [exec[p] EXCEPT !.sub = sub]]
        BY <1>1, <3>4 DEF SettleWrite
      <4>2. [exec[p] EXCEPT !.sub = sub].pc = exec[p].pc BY <1>1 DEF Threads
      <4> QED BY <4>1, <4>2
    <3>5. CASE SettleClose(p)
      <4> DEFINE new == [exec[p] EXCEPT !.cur = NoTask, !.sub = "read",
                                        !.seen = BlankRow, !.tries = 0]
      <4>1. exec' = [exec EXCEPT ![p] = new] BY <1>1, <3>5 DEF SettleClose
      <4>2. new.pc = exec[p].pc BY <1>1 DEF Threads
      <4> QED BY <4>1, <4>2
    <3> QED BY <1>6, <3>1, <3>2, <3>3, <3>4, <3>5 DEF Settle
  <2> QED BY <1>4, <2>1, <2>3
<1>7. ASSUME NEW p \in Procs, Round(p)
      PROVE  Kept
  <2>1. lock' = lock
    BY <1>7
       DEF Round, ListStale, ListDueFailed, CountRunning, CountPausing, ListQueued,
           RequeueFailed, PassOver, SkipStep, Claim, ClaimBeyondBound
  <2>2. CASE \/ ListStale(p) \/ ListDueFailed(p) \/ CountRunning(p) \/ CountPausing(p)
             \/ ListQueued(p)
    BY <1>1, <1>3, <2>1, <2>2
       DEF ListStale, ListDueFailed, CountRunning, CountPausing, ListQueued, BetweenRounds,
           ListDone, Thread, Serving, Looping
  <2>3. ASSUME NEW e, \/ RequeueFailed(p, e) \/ PassOver(p, e) \/ SkipStep(p, e)
                      \/ Claim(p, e) \/ ClaimBeyondBound(p, e)
        PROVE  Kept
    <3>1. Drop(p, e) = [exec EXCEPT ![p] = [exec[p] EXCEPT !.todo = @ \ {e}]]
      BY <1>1 DEF Drop
    <3>2. CASE exec' = Drop(p, e)
      <4>1. [exec[p] EXCEPT !.todo = @ \ {e}].pc = exec[p].pc BY <1>1 DEF Threads
      <4> QED BY <1>4, <2>1, <3>1, <3>2, <4>1
    <3>3. CASE exec' = [Drop(p, e) EXCEPT ![p].load[e.row.step] = @ + 1]
      <4> DEFINE new == [exec[p] EXCEPT !.todo = @ \ {e},
                                        !.load = [exec[p].load EXCEPT ![e.row.step] = @ + 1]]
      <4>1. exec' = [exec EXCEPT ![p] = new] BY <1>1, <3>1, <3>3 DEF Threads
      <4>2. new.pc = exec[p].pc BY <1>1 DEF Threads
      <4> QED BY <1>4, <2>1, <4>1, <4>2
    <3> QED BY <2>3, <3>2, <3>3
            DEF RequeueFailed, PassOver, SkipStep, Claim, ClaimBeyondBound
  <2> QED BY <1>7, <2>2, <2>3 DEF Round
<1>8. CASE Next
  <2>1. ASSUME NEW k \in Tokens, Work(k) \/ Heartbeat(k) \/ JobRaises(k)
        PROVE  Kept
    <3>1. lock' = lock /\ exec' = exec
      BY <2>1
         DEF Work, JobStart, JobAdmit, JobRecord, JobReturn, FinishRead, FinishWrite, Heartbeat,
             JobRaises
    <3> QED BY <1>2, <3>1
  <2>2. ASSUME (\E u \in Users : Command(u)) \/ Clock
        PROVE  Kept
    <3>1. lock' = lock /\ exec' = exec
      BY <2>2 DEF Command, UserReads, UserWrites, Clock, DelayEnds, HeartbeatAges
    <3> QED BY <1>2, <3>1
  <2> QED BY <1>5, <1>6, <1>7, <1>8, <2>1, <2>2 DEF Next, Schedule, Upset
<1> QED BY <1>2, <1>8 DEF vars

\* Whoever runs holds the lock, after every step.
LEMMA OnlyHolderRunsNext ==
    ASSUME TypeOK, Supports, OnlyHolderRuns, [Next]_vars
    PROVE  OnlyHolderRuns'
<1>1. exec \in [Procs -> Threads] BY DEF TypeOK
<1>2. ASSUME NEW p \in Procs, AcquireLock(p) PROVE OnlyHolderRuns'
  <2>1. \A q \in Procs : exec[q].pc = "off"
    BY <1>2, NoProcAssumption DEF AcquireLock, OnlyHolderRuns
  <2> QED BY <1>1, <1>2, <2>1 DEF AcquireLock, OnlyHolderRuns
<1>3. ASSUME NEW p \in Procs, ReleaseLock(p) \/ Crash(p) \/ RecoveryFails(p)
      PROVE  OnlyHolderRuns'
  <2>1. exec[p].pc # "off" /\ exec' = [exec EXCEPT ![p] = Off]
    BY <1>3 DEF ReleaseLock, Crash, RecoveryFails
  <2>2. \A q \in Procs : q # p => exec[q].pc = "off"
    BY <2>1 DEF OnlyHolderRuns
  <2> QED BY <1>1, <2>1, <2>2 DEF OnlyHolderRuns, Off, Thread
<1> QED BY <1>2, <1>3, LockSteps DEF OnlyHolderRuns

---------------------------------------------------------------------------
(* The jobs.                                                                *)

\* A claim starts at most the job of its own token, for a row that is now held by it.
LEMMA ClaimedJobs ==
    ASSUME TypeOK, NEW p \in Procs, NEW e \in exec[p].todo, Claim(p, e), NEW k \in Tokens
    PROVE  \/ JobKept(k)
           \/ /\ job'[k].proc = p /\ exec[p].pc \in Serving
              /\ task'[job'[k].task].status \in Executing /\ task'[job'[k].task].token = k
<1>1. /\ task \in [Tasks -> Rows] /\ exec \in [Procs -> Threads]
      /\ job \in [Tokens -> Jobs] /\ claims \in Nat
  BY DEF TypeOK
<1>2. e.id \in Tasks BY <1>1 DEF Threads
<1>3. CASE job' = job BY <1>3 DEF JobKept
<1>4. CASE job' # job /\ k # claims + 1
  <2>1. job'[k] = job[k] BY <1>1, <1>4 DEF Claim
  <2> QED BY <2>1 DEF JobKept
<1>5. CASE job' # job /\ k = claims + 1
  <2>1. /\ task[e.id].status = "queued" /\ ~task[e.id].term
        /\ job' = [job EXCEPT ![k] = Job("queued", p, e.id)]
        /\ task' = [task EXCEPT ![e.id] = Claimed(task[e.id], k)]
        /\ exec[p].pc = "schedule"
    BY <1>5 DEF Claim
  <2>2. job'[k].task = e.id /\ job'[k].proc = p BY <1>1, <2>1 DEF Job
  <2>3. task'[e.id].status \in Executing /\ task'[e.id].token = k
    BY <1>1, <1>2, <2>1 DEF Claimed, Rows, Executing
  <2> QED BY <2>1, <2>2, <2>3 DEF Serving, Looping
<1> QED BY <1>3, <1>4, <1>5

\* Live jobs belong to a process that serves, after every step: a process goes only
\* when its jobs are over, or takes them along.
LEMMA JobsAreServedNext ==
    ASSUME TypeOK, Supports, JobsAreServed, [Next]_vars
    PROVE  JobsAreServed'
<1>1. /\ exec \in [Procs -> Threads] /\ job \in [Tokens -> Jobs]
  BY DEF TypeOK
<1>2. ASSUME NEW p \in Procs, AcquireLock(p) \/ RecoveryFails(p) PROVE JobsAreServed'
  <2>1. job' = job /\ exec[p].pc \notin Serving
    BY <1>2 DEF AcquireLock, RecoveryFails, Serving, Looping
  <2>2. \A q \in Procs : q # p => exec'[q] = exec[q]
    BY <1>1, <1>2 DEF AcquireLock, RecoveryFails
  <2> QED BY <2>1, <2>2 DEF JobsAreServed
<1>3. ASSUME NEW p \in Procs, ReleaseLock(p) \/ Crash(p) PROVE JobsAreServed'
  <2>1. \A k \in Tokens : job'[k].pc \in Live => job'[k] = job[k] /\ job[k].proc # p
    BY <1>1, <1>3 DEF ReleaseLock, Crash, Orphaned, Job, Live, Working
  <2>2. \A q \in Procs : q # p => exec'[q] = exec[q]
    BY <1>1, <1>3 DEF ReleaseLock, Crash
  <2> QED BY <2>1, <2>2 DEF JobsAreServed
<1>4. CASE \A q \in Procs : exec[q].pc \in Serving => exec'[q].pc \in Serving
  <2>1. ASSUME NEW p \in Procs, NEW e \in exec[p].todo, Claim(p, e), NEW k \in Tokens,
               job'[k].pc \in Live
        PROVE  job'[k].proc \in Procs /\ exec'[job'[k].proc].pc \in Serving
    BY <1>4, <2>1, ClaimedJobs DEF JobsAreServed, JobKept
  <2>2. ASSUME \A k \in Tokens : JobKept(k) PROVE JobsAreServed'
    BY <1>4, <2>2 DEF JobsAreServed, JobKept
  <2> QED BY <2>1, <2>2, JobSteps DEF JobsAreServed
<1> QED BY <1>2, <1>3, <1>4, LockSteps

\* Only its own boundary, recovery and reclaim take a task out of execution.
LEMMA ExecutionSteps ==
    ASSUME TypeOK, Supports, [Next]_vars, NEW t \in Tasks, task[t].status \in Executing
    PROVE  \/ \E p \in Procs : exec[p].cur = t /\ SettleWrite(p)
           \/ \E k \in Tokens : task[t].token = k /\ job'[k].pc = "done"
           \/ task'[t].status \in Executing /\ task'[t].token = task[t].token
<1>1. /\ task \in [Tasks -> Rows] /\ exec \in [Procs -> Threads]
      /\ job \in [Tokens -> Jobs]
  BY DEF TypeOK
<1> DEFINE Same == task'[t].status \in Executing /\ task'[t].token = task[t].token
<1>2. ASSUME task' = task PROVE Same
  BY <1>2
<1>3. ASSUME NEW p \in Procs, Settle(p)
      PROVE  Same \/ (exec[p].cur = t /\ SettleWrite(p))
  <2>1. CASE SettleWrite(p) /\ task' # task
    <3>1. task' = [task EXCEPT ![exec[p].cur] = Settled(task[exec[p].cur], exec[p].seen)]
      BY <2>1 DEF SettleWrite
    <3> QED BY <1>1, <2>1, <3>1
  <2>2. CASE SettleAgain(p) \/ SettleClose(p) \/ \E e : ReclaimSkip(p, e) \/ SettleBegin(p, e)
    <3>1. task' = task
      BY <2>2 DEF ReclaimSkip, SettleBegin, SettleAgain, SettleClose, tables
    <3> QED BY <1>2, <3>1
  <2> QED BY <1>2, <1>3, <2>1, <2>2 DEF Settle
<1>4. ASSUME NEW p \in Procs, NEW e, RequeueFailed(p, e) \/ SkipStep(p, e) \/ Claim(p, e)
      PROVE  Same
  <2>1. PICK row : /\ task' = [task EXCEPT ![e.id] = row]
                   /\ task[e.id].status \in Executing => row = task[e.id]
    BY <1>4 DEF RequeueFailed, SkipStep, Claim, Executing
  <2> QED BY <1>1, <2>1
<1>5. ASSUME NEW k \in Tokens, FinishWrite(k), task' # task
      PROVE  Same \/ (task[t].token = k /\ job'[k].pc = "done")
  <2>1. PICK row : task' = [task EXCEPT ![job[k].task] = row]
    BY <1>5 DEF FinishWrite
  <2>2. task[job[k].task].token = k /\ job'[k].pc = "done"
    BY <1>1, <1>5 DEF FinishWrite, FinishMatches, Ended, Job
  <2> QED BY <1>1, <2>1, <2>2
<1>6. ASSUME NEW k \in Tokens, Heartbeat(k)
      PROVE  Same
  BY <1>1, <1>6 DEF Heartbeat, Rows
<1>7. ASSUME NEW u \in Users, NEW r \in request[u], UserWrites(u, r.task, r.decision)
      PROVE  Same
  <2>1. r.task \in Tasks /\ r.decision \in Allowed
    BY DEF Supports, RequestsAllowed
  <2>2. CASE StillAsRead(task[r.task], r.decision)
    <3>1. task' = [task EXCEPT ![r.task] = Decided(task[r.task], r.decision)]
      BY <1>7, <2>2 DEF UserWrites
    <3>2. CASE r.task = t
      BY <1>1, <2>1, <2>2, <3>1, <3>2, DecidedKeepsExecution
    <3> QED BY <1>1, <3>1, <3>2
  <2>3. CASE ~StillAsRead(task[r.task], r.decision)
    <3>1. task' = task BY <1>7, <2>3 DEF UserWrites
    <3> QED BY <1>2, <3>1
  <2> QED BY <2>2, <2>3
<1>8. ASSUME Clock PROVE Same
  BY <1>1, <1>8 DEF Clock, DelayEnds, HeartbeatAges, Rows
<1>9. CASE Next
  <2>1. ASSUME NEW p \in Procs, AcquireLock(p) \/ Recovery(p) \/ ReleaseLock(p) \/ Upset(p)
        PROVE  Same
    BY <1>2, <2>1
       DEF AcquireLock, Recovery, ListRunning, ListPausing, ReleaseLock, Upset, RequestStop,
           Crash, RoundFails, RecoveryFails, tables
  <2>2. ASSUME NEW p \in Procs, Round(p)
        PROVE  Same
    BY <1>2, <1>4, <2>2
       DEF Round, ListStale, ListDueFailed, CountRunning, CountPausing, ListQueued,
           PassOver, ClaimBeyondBound, tables
  <2>3. ASSUME NEW k \in Tokens, Work(k) \/ Heartbeat(k) \/ JobRaises(k)
        PROVE  Same \/ (task[t].token = k /\ job'[k].pc = "done")
    BY <1>2, <1>5, <1>6, <2>3
       DEF Work, JobStart, JobAdmit, JobRecord, JobReturn, FinishRead, JobRaises, tables
  <2>4. ASSUME NEW u \in Users, Command(u)
        PROVE  Same
    BY <1>2, <1>7, <2>4 DEF Command, UserReads, tables
  <2> QED BY <1>3, <1>8, <1>9, <2>1, <2>2, <2>3, <2>4 DEF Next, Schedule
<1> QED BY <1>2, <1>9 DEF vars

---------------------------------------------------------------------------
(* The threads.                                                             *)

\* The thread goes on with its list.
GoesOn(p) ==
    /\ exec'[p].pc = exec[p].pc
    /\ exec'[p].todo \subseteq exec[p].todo
    /\ \/ exec'[p].cur \in {exec[p].cur, NoTask}
       \/ \E e \in exec[p].todo : SettleBegin(p, e) /\ exec'[p].cur = e.id

\* A thread starts a new list, with no task being settled, or goes on with its list;
\* the reclaim phase starts with the listing of the stale rows.
LEMMA ThreadSteps ==
    ASSUME TypeOK, [Next]_vars, NEW p \in Procs
    PROVE  \/ exec'[p].cur = NoTask /\ (exec'[p].pc = "reclaim" => ListStale(p))
           \/ GoesOn(p)
<1>1. exec \in [Procs -> Threads] BY DEF TypeOK
<1> DEFINE Goal == \/ exec'[p].cur = NoTask /\ (exec'[p].pc = "reclaim" => ListStale(p))
                   \/ GoesOn(p)
<1>2. ASSUME exec'[p] = exec[p] PROVE Goal
  BY <1>2 DEF GoesOn
<1>3. ASSUME NEW q, q # p, NEW thread, exec' = [exec EXCEPT ![q] = thread] PROVE Goal
  <2>1. exec'[p] = exec[p] BY <1>1, <1>3
  <2> QED BY <1>2, <2>1
<1>4. ASSUME NEW pc, NEW todo, NEW load, exec'[p] = Thread(pc, todo, load), pc # "reclaim"
      PROVE  Goal
  BY <1>4 DEF Thread
<1>5. ASSUME NEW e, exec'[p] = [exec[p] EXCEPT !.todo = @ \ {e}]
      PROVE  Goal
  BY <1>1, <1>5 DEF GoesOn, Threads
<1>6. ASSUME Settle(p) PROVE Goal
  <2>1. CASE \E e \in exec[p].todo : ReclaimSkip(p, e)
    <3>1. PICK e \in exec[p].todo : exec'[p] = [exec[p] EXCEPT !.todo = @ \ {e}]
      BY <1>1, <2>1 DEF ReclaimSkip, Drop
    <3> QED BY <1>5, <3>1
  <2>2. CASE \E e \in exec[p].todo : SettleBegin(p, e)
    <3>1. PICK e \in exec[p].todo : SettleBegin(p, e) BY <2>2
    <3>2. exec'[p] = [SettleReads(p, e.id, 0) EXCEPT !.todo = @ \ {e}]
      BY <1>1, <3>1 DEF SettleBegin
    <3>3. /\ exec'[p].pc = exec[p].pc
          /\ exec'[p].todo = exec[p].todo \ {e}
          /\ exec'[p].cur \in {e.id, NoTask}
      BY <1>1, <3>2 DEF SettleReads, Threads
    <3> QED BY <3>1, <3>3 DEF GoesOn
  <2>3. CASE SettleAgain(p)
    <3>1. exec'[p] = SettleReads(p, exec[p].cur, exec[p].tries)
      BY <1>1, <2>3 DEF SettleAgain
    <3>2. /\ exec'[p].pc = exec[p].pc
          /\ exec'[p].todo = exec[p].todo
          /\ exec'[p].cur \in {exec[p].cur, NoTask}
      BY <1>1, <3>1 DEF SettleReads, Threads
    <3> QED BY <3>2 DEF GoesOn
  <2>4. CASE SettleWrite(p)
    <3>1. PICK sub : exec' = [exec EXCEPT ![p] = [exec[p] EXCEPT !.sub = sub]]
      BY <1>1, <2>4 DEF SettleWrite
    <3> QED BY <1>1, <3>1 DEF GoesOn, Threads
  <2>5. CASE SettleClose(p)
    <3> DEFINE new == [exec[p] EXCEPT !.cur = NoTask, !.sub = "read",
                                      !.seen = BlankRow, !.tries = 0]
    <3>1. exec' = [exec EXCEPT ![p] = new] BY <1>1, <2>5 DEF SettleClose
    <3>2. new.pc = exec[p].pc /\ new.todo = exec[p].todo /\ new.cur = NoTask
      BY <1>1 DEF Threads
    <3> QED BY <1>1, <3>1, <3>2 DEF GoesOn
  <2> QED BY <1>6, <2>1, <2>2, <2>3, <2>4, <2>5 DEF Settle
<1>7. ASSUME Round(p) PROVE Goal
  <2>1. CASE ListStale(p)
    BY <1>1, <2>1 DEF ListStale, Thread
  <2>2. CASE ListDueFailed(p) \/ CountRunning(p) \/ CountPausing(p) \/ ListQueued(p)
    BY <1>1, <1>4, <2>2 DEF ListDueFailed, CountRunning, CountPausing, ListQueued
  <2>3. ASSUME NEW e, \/ RequeueFailed(p, e) \/ PassOver(p, e) \/ SkipStep(p, e)
                      \/ Claim(p, e) \/ ClaimBeyondBound(p, e)
        PROVE  Goal
    <3>1. Drop(p, e) = [exec EXCEPT ![p] = [exec[p] EXCEPT !.todo = @ \ {e}]]
      BY <1>1 DEF Drop
    <3>2. CASE exec' = Drop(p, e)
      BY <1>1, <1>5, <3>1, <3>2
    <3>3. CASE exec' = [Drop(p, e) EXCEPT ![p].load[e.row.step] = @ + 1]
      <4> DEFINE new == [exec[p] EXCEPT !.todo = @ \ {e},
                                        !.load = [exec[p].load EXCEPT ![e.row.step] = @ + 1]]
      <4>1. exec'[p] = new BY <1>1, <3>1, <3>3 DEF Threads
      <4>2. new.pc = exec[p].pc /\ new.todo \subseteq exec[p].todo /\ new.cur = exec[p].cur
        BY <1>1 DEF Threads
      <4> QED BY <4>1, <4>2 DEF GoesOn
    <3> QED BY <2>3, <3>2, <3>3
            DEF RequeueFailed, PassOver, SkipStep, Claim, ClaimBeyondBound
  <2> QED BY <1>7, <2>1, <2>2, <2>3 DEF Round
<1>8. ASSUME AcquireLock(p) \/ Recovery(p) \/ ReleaseLock(p) \/ Upset(p) PROVE Goal
  BY <1>1, <1>4, <1>8
     DEF AcquireLock, Recovery, ListRunning, ListPausing, ReleaseLock, Upset, RequestStop, Crash,
         RoundFails, RecoveryFails, Off
<1>9. ASSUME NEW q \in Procs, q # p,
             AcquireLock(q) \/ Recovery(q) \/ Settle(q) \/ ReleaseLock(q) \/ Upset(q) \/ Round(q)
      PROVE  Goal
  <2>1. CASE AcquireLock(q) \/ Recovery(q) \/ ReleaseLock(q) \/ Upset(q)
    BY <1>3, <1>9, <2>1
       DEF AcquireLock, Recovery, ListRunning, ListPausing, ReleaseLock, Upset, RequestStop,
           Crash, RoundFails, RecoveryFails
  <2>2. CASE Settle(q)
    BY <1>1, <1>2, <1>9, <2>2
       DEF Settle, ReclaimSkip, SettleBegin, SettleAgain, SettleWrite, SettleClose, Drop
  <2>3. CASE Round(q)
    BY <1>1, <1>2, <1>9, <2>3
       DEF Round, ListStale, ListDueFailed, CountRunning, CountPausing, ListQueued,
           RequeueFailed, PassOver, SkipStep, Claim, ClaimBeyondBound, Drop
  <2> QED BY <1>9, <2>1, <2>2, <2>3
<1>10. CASE Next
  <2>1. ASSUME NEW k \in Tokens, Work(k) \/ Heartbeat(k) \/ JobRaises(k)
        PROVE  Goal
    BY <1>2, <2>1
       DEF Work, JobStart, JobAdmit, JobRecord, JobReturn, FinishRead, FinishWrite, Heartbeat,
           JobRaises
  <2>2. ASSUME (\E u \in Users : Command(u)) \/ Clock
        PROVE  Goal
    BY <1>2, <2>2 DEF Command, UserReads, UserWrites, Clock, DelayEnds, HeartbeatAges
  <2> QED BY <1>6, <1>7, <1>8, <1>9, <1>10, <2>1, <2>2 DEF Next, Schedule
<1> QED BY <1>2, <1>10 DEF vars

\* A task is being settled only in the phases that settle, after every step.
LEMMA SettlesInPhaseNext ==
    ASSUME TypeOK, SettlesInPhase, [Next]_vars
    PROVE  SettlesInPhase'
<1>1. ASSUME NEW p \in Procs, exec'[p].cur # NoTask
      PROVE  exec'[p].pc \in {"settle_running", "settle_pausing", "reclaim"}
  <2>1. GoesOn(p) BY <1>1, ThreadSteps
  <2> QED BY <1>1, <2>1 DEF GoesOn, SettlesInPhase, Settling, SettleBegin
<1> QED BY <1>1 DEF SettlesInPhase, Settling

---------------------------------------------------------------------------
(* The invariant.                                                           *)

\* All live jobs belong to the one process that runs at all.
LEMMA OneServer ==
    ASSUME OnlyHolderRuns, JobsAreServed, NEW k \in Tokens, job[k].pc \in Live,
           NEW p \in Procs, exec[p].pc # "off"
    PROVE  job[k].proc = p /\ exec[p].pc \in Serving
<1>1. job[k].proc \in Procs /\ exec[job[k].proc].pc \in Serving BY DEF JobsAreServed
<1>2. exec[job[k].proc].pc # "off" BY <1>1 DEF Serving, Looping
<1> QED BY <1>1, <1>2 DEF OnlyHolderRuns

\* Live jobs hold their claims, after every step: recovery runs beside no live job, and
\* reclaim settles no task that has one.
LEMMA JobsHoldClaimsNext ==
    ASSUME TypeOK, Supports, ExecInv, [Next]_vars
    PROVE  JobsHoldClaims'
<1>1. job \in [Tokens -> Jobs] BY DEF TypeOK
<1> DEFINE Held(k) == task'[job'[k].task].status \in Executing /\ task'[job'[k].task].token = k
<1>2. ASSUME NEW k \in Tokens, job'[k].pc \in Live, JobKept(k)
      PROVE  Held(k)
  <2>1. job[k].pc \in Live /\ job'[k].task = job[k].task BY <1>2 DEF JobKept
  <2>2. job[k].task \in Tasks
    BY <2>1 DEF Supports, JobsHaveTasks, Live, Working
  <2>3. task[job[k].task].status \in Executing /\ task[job[k].task].token = k
    BY <2>1 DEF ExecInv, JobsHoldClaims
  <2>4. ASSUME NEW p \in Procs, exec[p].cur = job[k].task PROVE FALSE
    <3>1. Settling(p) BY <2>2, <2>4, NoTaskAssumption DEF ExecInv, SettlesInPhase
    <3>2. exec[p].pc \in Serving BY <2>1, <3>1, OneServer DEF Settling, ExecInv
    <3>3. exec[p].pc = "reclaim" BY <3>1, <3>2 DEF Settling, Serving, Looping
    <3> QED BY <2>1, <2>4, <3>3 DEF ExecInv, ReclaimSpares
  <2>5. job'[k].pc # "done" BY <1>2 DEF Live, Working
  <2>6. task'[job[k].task].status \in Executing
        /\ task'[job[k].task].token = task[job[k].task].token
    BY <2>2, <2>3, <2>4, <2>5, ExecutionSteps
  <2> QED BY <2>1, <2>3, <2>6
<1>3. ASSUME NEW k \in Tokens, job'[k].pc \in Live
      PROVE  Held(k)
  <2>1. CASE JobKept(k) BY <1>2, <1>3, <2>1
  <2>2. CASE \E p \in Procs : \E e \in exec[p].todo : Claim(p, e)
    BY <1>2, <1>3, <2>2, ClaimedJobs
  <2> QED BY <2>1, <2>2, JobSteps
<1> QED BY <1>3 DEF JobsHoldClaims

\* The list of reclaim_stale stays right while it is worked on, and the next task to be
\* settled has no live job: a job of this process would have been found in flight.
LEMMA ReclaimSparesNext ==
    ASSUME TypeOK, Supports, ExecInv, [Next]_vars
    PROVE  ReclaimSpares'
<1>1. /\ task \in [Tasks -> Rows] /\ exec \in [Procs -> Threads] /\ job \in [Tokens -> Jobs]
  BY DEF TypeOK
<1> DEFINE ListGood(p) == \A e \in exec'[p].todo :
               task'[e.id].status \in Executing => task'[e.id].token = e.row.token
           CurGood(p) == \A k \in Tokens : job'[k].pc \in Live => job'[k].task # exec'[p].cur
<1>2. \A k \in Tokens : job[k].pc \in Live => job[k].task \in Tasks
  BY DEF Supports, JobsHaveTasks, Live, Working
<1>3. ASSUME NEW p \in Procs, ListStale(p)
      PROVE  ListGood(p) /\ CurGood(p)
  <2>1. task' = task /\ job' = job /\ exec'[p].cur = NoTask
    BY <1>1, <1>3 DEF ListStale, Thread, tables
  <2>2. \A e \in exec'[p].todo : e.row = task[e.id]
    BY <1>1, <1>3 DEF ListStale, Thread, Listed
  <2> QED BY <1>2, <2>1, <2>2, NoTaskAssumption
<1>4. ASSUME NEW p \in Procs, GoesOn(p), exec'[p].pc = "reclaim"
      PROVE  ListGood(p) /\ CurGood(p)
  <2>1. exec[p].pc = "reclaim" /\ exec'[p].todo \subseteq exec[p].todo
    BY <1>4 DEF GoesOn
  <2>2. ASSUME NEW q \in Procs, NEW e, Claim(q, e) PROVE FALSE
    <3>1. exec[q].pc = "schedule" BY <2>2 DEF Claim
    <3> QED BY <2>1, <3>1 DEF ExecInv, OnlyHolderRuns
  <2>3. \A t \in Tasks : ClaimKept(task[t], task'[t]) BY <2>2, ClaimSteps
  <2>4. \A k \in Tokens : JobKept(k) BY <2>2, JobSteps
  <2>5. \A e \in exec[p].todo : /\ e.id \in Tasks
                                /\ task[e.id].status \in Executing
                                     => task[e.id].token = e.row.token
    BY <1>1, <2>1 DEF Threads, ExecInv, ReclaimSpares
  <2>6. ListGood(p) BY <2>1, <2>3, <2>5 DEF ClaimKept
  <2>7. CASE exec'[p].cur \in {exec[p].cur, NoTask}
    <3>1. \A k \in Tokens : job[k].pc \in Live => job[k].task \notin {exec[p].cur, NoTask}
      BY <1>2, <2>1, NoTaskAssumption DEF ExecInv, ReclaimSpares
    <3>2. CurGood(p) BY <2>4, <2>7, <3>1 DEF JobKept
    <3> QED BY <2>6, <3>2
  <2>8. ASSUME NEW e \in exec[p].todo, SettleBegin(p, e), NEW k \in Tokens,
               job[k].pc \in Live, job[k].task = e.id
        PROVE  FALSE
    <3>1. e.row.token = k BY <2>5, <2>8 DEF ExecInv, JobsHoldClaims
    <3>2. k \in JobsOf(p) BY <2>1, <2>8, OneServer DEF JobsOf, ExecInv
    <3>3. RunningHere(p, e.id, e.row.token) BY <2>8, <3>1, <3>2 DEF RunningHere
    <3> QED BY <2>1, <2>8, <3>3 DEF SettleBegin, CheckAlive
  <2>9. CASE \E e \in exec[p].todo : SettleBegin(p, e) /\ exec'[p].cur = e.id
    <3>1. CurGood(p) BY <2>4, <2>8, <2>9 DEF JobKept
    <3> QED BY <2>6, <3>1
  <2> QED BY <1>4, <2>7, <2>9 DEF GoesOn
<1> QED BY <1>3, <1>4, ThreadSteps DEF ReclaimSpares

\* The whole argument as one inductive step.
LEMMA ExecNext ==
    ASSUME IInv, ExecInv, [Next]_vars
    PROVE  ExecInv'
BY OnlyHolderRunsNext, JobsAreServedNext, JobsHoldClaimsNext, ReclaimSparesNext,
   SettlesInPhaseNext DEF IInv, ExecInv

\* At the start nobody runs and there is no job.
LEMMA ExecInit == Init => ExecInv
<1> SUFFICES ASSUME Init PROVE ExecInv OBVIOUS
<1>1. /\ \A p \in Procs : exec[p].pc = "off" /\ exec[p].cur = NoTask
      /\ \A k \in Tokens : job[k].pc = "none"
  BY DEF Init, Off, Thread, Job
<1> QED BY <1>1
        DEF ExecInv, OnlyHolderRuns, JobsAreServed, JobsHoldClaims, ReclaimSpares,
            SettlesInPhase, Live, Working

\* A claimed step never runs twice: no two jobs, of any processes, hold the same task,
\* whatever crashes, hangs or is reclaimed.
THEOREM ExecutionCorrect == Spec => []SingleExecution
<1>1. ExecInv => SingleExecution
  BY DEF ExecInv, JobsHoldClaims, SingleExecution
<1> QED BY <1>1, ExecInit, ExecNext, InvAlways, PTL DEF Spec

---------------------------------------------------------------------------
(* The refinement: the strengthening.                                       *)

\* No job has a claim that was not handed out yet.
FreshTokens == \A k \in Tokens : k > claims => job[k].pc = "none"

\* A step run names the claim of a job that came as far as recording one.
RunsAreUsed ==
    \A t \in Tasks : \A i \in DOMAIN runs[t] :
        /\ runs[t][i].token \in Tokens
        /\ job[runs[t][i].token].pc \notin {"none", "queued", "admit", "start"}

\* A claim has at most one run.
OneRunEach ==
    \A t \in Tasks : \A i, j \in DOMAIN runs[t] :
        runs[t][i].token = runs[t][j].token => i = j

\* The last run of the log is the one this job recorded.
LastRun(log, k, status) ==
    /\ log # << >>
    /\ log[Len(log)].token = k
    /\ log[Len(log)].step = job[k].step
    /\ log[Len(log)].status = status

\* The step that runs is the last recorded, and says so.
RunningIsLast ==
    \A k \in Tokens : job[k].pc = "run" =>
        job[k].run = Len(runs[job[k].task]) /\ LastRun(runs[job[k].task], k, "running")

\* A success about to be reported is the last run, closed as one.
SuccessIsLast ==
    \A k \in Tokens : job[k].pc \in {"finish", "commit"} /\ Succeeds(job[k].out) =>
        LastRun(runs[job[k].task], k, job[k].out.kind)

\* A job nobody took up yet has no outcome to report.
NoEarlyOutcome == \A k \in Tokens : job[k].pc = "queued" => job[k].out = NoOutcome

\* A job works on the step its task stands at.
StepHeld ==
    \A k \in Tokens :
        /\ job[k].pc \in Working => job[k].step = task[job[k].task].step
        /\ job[k].pc = "commit" => job[k].seen.step = task[job[k].task].step

\* A task whose runs are being closed was released before.
ClosingReleased ==
    \A p \in Procs : exec[p].cur # NoTask /\ exec[p].sub = "close" =>
        task[exec[p].cur].status \notin Executing

RunsInv ==
    /\ FreshTokens /\ RunsAreUsed /\ OneRunEach
    /\ RunningIsLast /\ SuccessIsLast /\ NoEarlyOutcome /\ StepHeld /\ ClosingReleased

---------------------------------------------------------------------------
(* What a step does to a job, to the step runs and to a closing thread.     *)

Returned(k) == \E kind \in Returns(job[k].step) : JobReturn(k, kind)

JobWork(k) ==
    \/ JobStart(k) \/ JobAdmit(k) \/ JobRecord(k) \/ Returned(k)
    \/ FinishRead(k) \/ FinishWrite(k)

\* The task was queued, and now runs under the claim.
QueuedIsClaimed(t, k) ==
    /\ t \in Tasks /\ task[t].status = "queued" /\ ~task[t].term
    /\ task'[t] = Claimed(task[t], k)
    /\ UNCHANGED <<runs, history>>

\* A job changes only by its own claim, its own work, or its end.
JobChange(k) ==
    \/ job'[k] = job[k]
    \/ job[k].pc # "none" /\ job'[k].pc \in {"done", "dead"}
    \/ /\ k = claims + 1 /\ k = claims' /\ job'[k].pc = "queued"
       /\ job'[k].out = NoOutcome /\ QueuedIsClaimed(job'[k].task, k)
    \/ JobWork(k)

\* No step changes a job in another way, and claims are handed out one after another.
LEMMA JobChanges ==
    ASSUME TypeOK, [Next]_vars, NEW k \in Tokens
    PROVE  JobChange(k) /\ claims' >= claims
<1>1. /\ job \in [Tokens -> Jobs] /\ exec \in [Procs -> Threads] /\ claims \in Nat
      /\ k \in Nat
  BY BoundAssumption DEF TypeOK, Tokens
<1> DEFINE Goal == JobChange(k) /\ claims' >= claims
<1>2. ASSUME job' = job, claims' = claims PROVE Goal
  BY <1>1, <1>2 DEF JobChange
<1>3. ASSUME NEW p \in Procs, ReleaseLock(p) \/ Crash(p)
      PROVE  Goal
  BY <1>1, <1>3 DEF ReleaseLock, Crash, Orphaned, Job, JobChange
<1>4. ASSUME NEW p \in Procs, NEW e \in exec[p].todo, Claim(p, e)
      PROVE  Goal
  <2>1. CASE job' = job /\ claims' = claims BY <1>2, <2>1
  <2>2. CASE /\ job' = [job EXCEPT ![claims + 1] = Job("queued", p, e.id)]
             /\ claims' = claims + 1
             /\ task[e.id].status = "queued" /\ ~task[e.id].term
    <3>1. CASE k = claims + 1
      <4>1. e.id \in Tasks /\ task \in [Tasks -> Rows] BY <1>1 DEF Threads, TypeOK
      <4>2. QueuedIsClaimed(e.id, k)
        BY <1>4, <2>2, <3>1, <4>1 DEF QueuedIsClaimed, Claim
      <4>3. job'[k] = Job("queued", p, e.id) BY <1>1, <2>2, <3>1
      <4> QED BY <1>1, <2>2, <3>1, <4>2, <4>3 DEF JobChange, Job
    <3>2. CASE k # claims + 1
      BY <1>1, <2>2, <3>2 DEF JobChange
    <3> QED BY <3>1, <3>2
  <2> QED BY <1>4, <2>1, <2>2 DEF Claim
<1>5. ASSUME NEW x \in Tokens, JobWork(x)
      PROVE  Goal
  <2>1. claims' = claims
    BY <1>5
       DEF JobWork, JobStart, JobAdmit, JobRecord, Returned, JobReturn, FinishRead, FinishWrite
  <2>2. CASE k = x BY <1>1, <1>5, <2>1, <2>2 DEF JobChange
  <2>3. CASE k # x
    <3>1. PICK new : job' = [job EXCEPT ![x] = new]
      <4>1. CASE JobStart(x) \/ JobAdmit(x) \/ FinishRead(x) \/ FinishWrite(x)
        BY <1>1, <4>1 DEF JobStart, JobAdmit, FinishRead, FinishWrite, Ended
      <4>2. CASE JobRecord(x) \/ Returned(x)
        BY <1>1, <4>2 DEF JobRecord, Returned, JobReturn
      <4> QED BY <1>5, <4>1, <4>2 DEF JobWork
    <3>2. job'[k] = job[k] BY <1>1, <2>3, <3>1
    <3> QED BY <1>1, <2>1, <3>2 DEF JobChange
  <2> QED BY <2>2, <2>3
<1>6. ASSUME NEW x \in Tokens, JobRaises(x)
      PROVE  Goal
  <2>1. job[x].pc # "none" /\ job' = [job EXCEPT ![x] = Job("done", job[x].proc, job[x].task)]
    BY <1>6 DEF JobRaises, Working, Ended
  <2> QED BY <1>1, <1>6, <2>1 DEF JobRaises, Job, JobChange
<1>7. CASE Next
  <2>1. CASE \E p \in Procs : AcquireLock(p) \/ Recovery(p) \/ Settle(p) \/ ReleaseLock(p) \/ Upset(p)
    BY <1>2, <1>3, <2>1
       DEF AcquireLock, Recovery, ListRunning, ListPausing, Settle, ReclaimSkip, SettleBegin,
           SettleAgain, SettleWrite, SettleClose, Upset, RequestStop, RoundFails, RecoveryFails
  <2>2. CASE \E p \in Procs : Round(p)
    BY <1>2, <1>4, <2>2
       DEF Round, ListStale, ListDueFailed, CountRunning, CountPausing, ListQueued,
           RequeueFailed, PassOver, SkipStep, ClaimBeyondBound
  <2>3. CASE \E x \in Tokens : Heartbeat(x)
    BY <1>2, <2>3 DEF Heartbeat
  <2>4. CASE (\E u \in Users : Command(u)) \/ Clock
    BY <1>2, <2>4 DEF Command, UserReads, UserWrites, Clock, DelayEnds, HeartbeatAges
  <2>5. ASSUME NEW x \in Tokens, Work(x) PROVE Goal
    BY <1>5, <2>5 DEF Work, JobWork, Returned
  <2> QED BY <1>3, <1>6, <1>7, <2>1, <2>2, <2>3, <2>4, <2>5 DEF Next, Schedule
<1> QED BY <1>2, <1>7 DEF vars

\* The step runs change only when a job records or closes its own, and when a settle
\* closes those of a task it has released.
LEMMA RunChanges ==
    ASSUME [Next]_vars
    PROVE  \/ runs' = runs
           \/ \E k \in Tokens : JobRecord(k) \/ Returned(k)
           \/ \E p \in Procs : SettleClose(p)
<1>1. CASE Next
  <2>1. CASE \E p \in Procs : AcquireLock(p) \/ Recovery(p) \/ ReleaseLock(p) \/ Upset(p)
    BY <2>1
       DEF AcquireLock, Recovery, ListRunning, ListPausing, ReleaseLock, Upset, RequestStop,
           Crash, RoundFails, RecoveryFails, tables
  <2>2. CASE \E p \in Procs : Settle(p)
    BY <2>2 DEF Settle, ReclaimSkip, SettleBegin, SettleAgain, SettleWrite, tables
  <2>3. CASE \E p \in Procs : Round(p)
    BY SMTT(30), <2>3
       DEF Round, ListStale, ListDueFailed, CountRunning, CountPausing, ListQueued,
           RequeueFailed, PassOver, SkipStep, Claim, ClaimBeyondBound, tables
  <2>4. CASE \E k \in Tokens : Work(k) \/ Heartbeat(k) \/ JobRaises(k)
    BY <2>4
       DEF Work, JobStart, JobAdmit, FinishRead, FinishWrite, Heartbeat, JobRaises, tables,
           Returned
  <2>5. CASE (\E u \in Users : Command(u)) \/ Clock
    BY <2>5
       DEF Command, UserReads, UserWrites, Clock, DelayEnds, HeartbeatAges, tables
  <2> QED BY <1>1, <2>1, <2>2, <2>3, <2>4, <2>5 DEF Next, Schedule
<1> QED BY <1>1 DEF vars, tables

\* No step moves a task that executes before and after it.
LEMMA ExecutingKeepsStep ==
    ASSUME TypeOK, Supports, [Next]_vars, NEW t \in Tasks,
           task[t].status \in Executing, task'[t].status \in Executing
    PROVE  task'[t].step = task[t].step
<1>1. /\ task \in [Tasks -> Rows] /\ RowStep(t) BY RowSteps DEF TypeOK
<1>2. CASE BySettle(t) BY <1>1, <1>2, SettledReleases DEF BySettle
<1>3. CASE ByBoundary(t)
  BY <1>1, <1>3, BoundaryReleases DEF ByBoundary, Outcomes, OutcomeKinds
<1>4. CASE ByScheduler(t) BY <1>4 DEF ByScheduler, Executing
<1>5. CASE ByUser(t)
  <2>1. PICK d \in Allowed : StillAsRead(task[t], d) /\ task'[t] = Decided(task[t], d)
    BY <1>5 DEF ByUser
  <2>2. PICK read \in Rows : Decides(d, read) BY DEF Allowed
  <2>3. d.expect \in Executing BY <2>1 DEF StillAsRead
  <2>4. d.act \notin {"set_step", "force_step"}
    BY <2>2, <2>3 DEF Decides, Executing
  <2> QED BY <1>1, <2>1, <2>4 DEF Decided, Requeued, Rows
<1>6. CASE ByClock(t) \/ task'[t] = task[t]
  BY <1>1, <1>6 DEF ByClock, Rows
<1> QED BY <1>1, <1>2, <1>3, <1>4, <1>5, <1>6 DEF RowStep

\* A thread closes step runs because it did already, or has just released their task.
LEMMA CloseSteps ==
    ASSUME TypeOK, [Next]_vars, NEW p \in Procs,
           exec'[p].cur # NoTask, exec'[p].sub = "close"
    PROVE  /\ exec'[p].cur = exec[p].cur
           /\ \/ exec[p].sub = "close"
              \/ SettleWrite(p) /\ task' = [task EXCEPT ![exec[p].cur] = Settled(@, exec[p].seen)]
<1>1. exec \in [Procs -> Threads] BY DEF TypeOK
<1> DEFINE Same == exec'[p].cur = exec[p].cur /\ exec'[p].sub = exec[p].sub
           Goal == /\ exec'[p].cur = exec[p].cur
                   /\ \/ exec[p].sub = "close"
                      \/ /\ SettleWrite(p)
                         /\ task' = [task EXCEPT ![exec[p].cur] = Settled(@, exec[p].seen)]
<1>2. ASSUME Same PROVE Goal BY <1>2
<1>3. ASSUME NEW pc, NEW todo, NEW load, exec'[p] = Thread(pc, todo, load) PROVE FALSE
  BY <1>3 DEF Thread
<1>4. ASSUME NEW q, q # p, NEW thread, exec' = [exec EXCEPT ![q] = thread] PROVE Goal
  BY <1>1, <1>2, <1>4
<1>5. ASSUME NEW q \in Procs, Settle(q) PROVE Goal
  <2>1. CASE \E e \in exec[q].todo : ReclaimSkip(q, e)
    <3>1. PICK e : exec' = [exec EXCEPT ![q] = [exec[q] EXCEPT !.todo = @ \ {e}]]
      BY <1>1, <2>1 DEF ReclaimSkip, Drop
    <3>2. CASE q = p BY <1>1, <1>2, <3>1, <3>2 DEF Threads
    <3> QED BY <1>4, <3>1, <3>2
  <2>2. CASE \E e \in exec[q].todo : SettleBegin(q, e)
    <3>1. PICK e : exec' = [exec EXCEPT ![q] = [SettleReads(q, e.id, 0) EXCEPT !.todo = @ \ {e}]]
      BY <2>2 DEF SettleBegin
    <3>2. CASE q = p
      <4>1. exec'[p].sub \in {"read", "write"} BY <1>1, <3>1, <3>2 DEF SettleReads, Threads
      <4> QED BY <4>1
    <3> QED BY <1>4, <3>1, <3>2
  <2>3. CASE SettleAgain(q)
    <3>1. exec' = [exec EXCEPT ![q] = SettleReads(q, exec[q].cur, exec[q].tries)]
      BY <2>3 DEF SettleAgain
    <3>2. CASE q = p
      <4>1. exec'[p].sub \in {"read", "write"} BY <1>1, <3>1, <3>2 DEF SettleReads, Threads
      <4> QED BY <4>1
    <3> QED BY <1>4, <3>1, <3>2
  <2>4. CASE SettleWrite(q)
    <3>1. PICK sub : /\ exec' = [exec EXCEPT ![q] = [exec[q] EXCEPT !.sub = sub]]
                     /\ sub = "close" => task' = [task EXCEPT ![exec[q].cur] =
                                                     Settled(@, exec[q].seen)]
      BY <1>1, <2>4 DEF SettleWrite
    <3>2. CASE q = p
      <4>1. exec'[p] = [exec[p] EXCEPT !.sub = sub] BY <1>1, <3>1, <3>2
      <4>2. exec'[p].cur = exec[p].cur /\ exec'[p].sub = sub BY <1>1, <4>1 DEF Threads
      <4> QED BY <2>4, <3>1, <3>2, <4>2
    <3> QED BY <1>4, <3>1, <3>2
  <2>5. CASE SettleClose(q)
    <3> DEFINE new == [exec[q] EXCEPT !.cur = NoTask, !.sub = "read",
                                      !.seen = BlankRow, !.tries = 0]
    <3>1. exec' = [exec EXCEPT ![q] = new] BY <1>1, <2>5 DEF SettleClose
    <3>2. new.cur = NoTask BY <1>1 DEF Threads
    <3>3. CASE q = p BY <1>1, <3>1, <3>2, <3>3
    <3> QED BY <1>4, <3>1, <3>3
  <2> QED BY <1>5, <2>1, <2>2, <2>3, <2>4, <2>5 DEF Settle
<1>6. ASSUME NEW q \in Procs, Round(q) PROVE Goal
  <2>1. CASE \/ ListStale(q) \/ ListDueFailed(q) \/ CountRunning(q) \/ CountPausing(q)
             \/ ListQueued(q)
    <3>1. PICK pc, todo, load : exec' = [exec EXCEPT ![q] = Thread(pc, todo, load)]
      BY <2>1 DEF ListStale, ListDueFailed, CountRunning, CountPausing, ListQueued
    <3> QED BY <1>1, <1>3, <1>4, <3>1
  <2>2. ASSUME NEW e, \/ RequeueFailed(q, e) \/ PassOver(q, e) \/ SkipStep(q, e)
                      \/ Claim(q, e) \/ ClaimBeyondBound(q, e)
        PROVE  Goal
    <3>1. Drop(q, e) = [exec EXCEPT ![q] = [exec[q] EXCEPT !.todo = @ \ {e}]]
      BY <1>1 DEF Drop
    <3>2. CASE exec' = Drop(q, e)
      <4>1. CASE q = p BY <1>1, <1>2, <3>1, <3>2, <4>1 DEF Threads
      <4> QED BY <1>4, <3>1, <3>2, <4>1
    <3>3. CASE exec' = [Drop(q, e) EXCEPT ![q].load[e.row.step] = @ + 1]
      <4> DEFINE new == [exec[q] EXCEPT !.todo = @ \ {e},
                                        !.load = [exec[q].load EXCEPT ![e.row.step] = @ + 1]]
      <4>1. exec' = [exec EXCEPT ![q] = new] BY ZenonT(30), <1>1, <3>1, <3>3 DEF Threads
      <4>2. new.cur = exec[q].cur /\ new.sub = exec[q].sub BY <1>1 DEF Threads
      <4>3. CASE q = p BY <1>1, <1>2, <4>1, <4>2, <4>3
      <4> QED BY <1>4, <4>1, <4>3
    <3> QED BY <2>2, <3>2, <3>3
            DEF RequeueFailed, PassOver, SkipStep, Claim, ClaimBeyondBound
  <2> QED BY <1>6, <2>1, <2>2 DEF Round
<1>7. ASSUME NEW q \in Procs, AcquireLock(q) \/ Recovery(q) \/ ReleaseLock(q) \/ Upset(q)
      PROVE  Goal
  <2>1. PICK pc, todo, load : exec' = [exec EXCEPT ![q] = Thread(pc, todo, load)]
    BY <1>7
       DEF AcquireLock, Recovery, ListRunning, ListPausing, ReleaseLock, Upset, RequestStop, Crash,
           RoundFails, RecoveryFails, Off
  <2> QED BY <1>1, <1>3, <1>4, <2>1
<1>8. ASSUME exec' = exec PROVE Goal BY <1>2, <1>8
<1>9. CASE Next
  <2>1. CASE \E k \in Tokens : Work(k) \/ Heartbeat(k) \/ JobRaises(k)
    BY <1>8, <2>1
       DEF Work, JobStart, JobAdmit, JobRecord, JobReturn, FinishRead, FinishWrite, Heartbeat,
           JobRaises
  <2>2. CASE (\E u \in Users : Command(u)) \/ Clock
    BY <1>8, <2>2 DEF Command, UserReads, UserWrites, Clock, DelayEnds, HeartbeatAges
  <2> QED BY <1>5, <1>6, <1>7, <1>9, <2>1, <2>2 DEF Next, Schedule
<1> QED BY <1>8, <1>9 DEF vars

---------------------------------------------------------------------------
(* The strengthening is preserved.                                          *)

\* Claims are handed out in order.
LEMMA FreshTokensNext ==
    ASSUME TypeOK, FreshTokens, [Next]_vars
    PROVE  FreshTokens'
<1> SUFFICES ASSUME NEW k \in Tokens, k > claims' PROVE job'[k].pc = "none"
  BY DEF FreshTokens
<1>1. claims' >= claims /\ JobChange(k) BY JobChanges
<1>2. k \in Nat /\ claims \in Nat /\ claims' \in Nat
  BY SMTT(30), LockType, BoundAssumption DEF Tokens, TypeOK
<1>3. k > claims BY <1>1, <1>2
<1>4. job[k].pc = "none" BY <1>3 DEF FreshTokens
<1>5. ~JobWork(k)
  BY <1>4 DEF JobWork, JobStart, JobAdmit, JobRecord, Returned, JobReturn, FinishRead, FinishWrite
<1> QED BY <1>1, <1>2, <1>4, <1>5 DEF JobChange

\* Reporting an outcome keeps it, and reads the row anew before every try.
LEMMA FinishSteps ==
    ASSUME TypeOK, NEW k \in Tokens, FinishRead(k) \/ FinishWrite(k)
    PROVE  /\ job[k].pc \in {"finish", "commit"}
           /\ \/ job'[k].pc = "done"
              \/ /\ job'[k].pc \in {"finish", "commit"}
                 /\ job'[k].pc = "commit" => job'[k].seen = task[job[k].task]
                 /\ job'[k].out = job[k].out /\ job'[k].step = job[k].step
                 /\ job'[k].task = job[k].task
<1>1. job \in [Tokens -> Jobs] BY DEF TypeOK
<1>2. CASE job' = Ended(k)
  BY <1>1, <1>2 DEF Ended, Job, FinishRead, FinishWrite
<1>3. CASE FinishRead(k) /\ job' # Ended(k)
  <2>1. job' = [job EXCEPT ![k] = [job[k] EXCEPT !.pc = "commit", !.seen = task[job[k].task],
                                                 !.tries = @ + 1]]
    BY <1>3 DEF FinishRead
  <2> QED BY <1>1, <1>3, <2>1 DEF FinishRead, Jobs
<1>4. CASE FinishWrite(k) /\ job' # Ended(k)
  <2>1. job' = [job EXCEPT ![k] = [job[k] EXCEPT !.pc = "finish", !.seen = BlankRow]]
    BY <1>4 DEF FinishWrite
  <2> QED BY <1>1, <1>4, <2>1 DEF FinishWrite, Jobs
<1> QED BY <1>2, <1>3, <1>4

\* The phases a job is in before it records its run.
Early == {"none", "queued", "admit", "start"}

\* A job does not go back to them.
LEMMA EarlyIsOver ==
    ASSUME TypeOK, NEW k \in Tokens, JobChange(k), FreshTokens, job[k].pc \notin Early
    PROVE  job'[k].pc \notin Early
<1>1. job \in [Tokens -> Jobs] /\ claims \in Nat /\ k \in Nat
  BY BoundAssumption DEF TypeOK, Tokens
<1>2. k # claims + 1 BY <1>1 DEF FreshTokens, Early
<1>3. CASE JobWork(k)
  <2>1. CASE JobStart(k) \/ JobAdmit(k) \/ JobRecord(k)
    BY <2>1 DEF JobStart, JobAdmit, JobRecord, Early
  <2>2. CASE Returned(k) BY <1>1, <2>2 DEF Returned, JobReturn, Early
  <2>3. CASE FinishRead(k) \/ FinishWrite(k) BY <2>3, FinishSteps DEF Early
  <2> QED BY <1>3, <2>1, <2>2, <2>3 DEF JobWork
<1> QED BY <1>2, <1>3 DEF JobChange, Early

\* A log keeps its runs, each with its step, its attempt and its claim.
LogKept(t) ==
    /\ DOMAIN runs'[t] = DOMAIN runs[t]
    /\ \A i \in DOMAIN runs[t] :
          /\ runs'[t][i].token = runs[t][i].token
          /\ runs'[t][i].step = runs[t][i].step /\ runs'[t][i].attempt = runs[t][i].attempt

NewRun(k) == [step |-> job[k].step, attempt |-> job[k].attempt, token |-> k,
              status |-> "running"]

\* No step forgets a run or changes what it was of.
LEMMA LogSteps ==
    ASSUME TypeOK, [Next]_vars
    PROVE  \/ \E k \in Tokens :
                 /\ JobRecord(k)
                 /\ runs' = [runs EXCEPT ![job[k].task] = Append(@, NewRun(k))]
           \/ \A t \in Tasks : LogKept(t)
<1>1. runs \in [Tasks -> Seq(Runs)] BY DEF TypeOK
<1>2. CASE runs' = runs BY <1>2 DEF LogKept
<1>3. ASSUME NEW k \in Tokens, Returned(k) PROVE \A t \in Tasks : LogKept(t)
  <2>1. PICK status : runs' = [runs EXCEPT ![job[k].task][job[k].run].status = status]
    BY <1>3 DEF Returned, JobReturn
  <2>2. \A t \in Tasks : \A i \in DOMAIN runs[t] : runs[t][i] \in Runs
    BY <1>1
  <2> QED BY SMTT(30), <1>1, <2>1, <2>2 DEF LogKept, Runs
<1>4. ASSUME NEW p \in Procs, SettleClose(p) PROVE \A t \in Tasks : LogKept(t)
  <2>1. \A t \in Tasks : \A i \in DOMAIN runs[t] : runs[t][i] \in Runs
    BY <1>1
  <2> QED BY <1>1, <1>4, <2>1 DEF SettleClose, LogKept, Runs
<1>5. ASSUME NEW k \in Tokens, JobRecord(k)
      PROVE  runs' = [runs EXCEPT ![job[k].task] = Append(@, NewRun(k))]
  BY <1>5 DEF JobRecord, NewRun
<1> QED BY <1>2, <1>3, <1>4, <1>5, RunChanges

\* A recorded run is of a claim whose job came that far.
LEMMA RunsAreUsedNext ==
    ASSUME TypeOK, Supports, FreshTokens, RunsAreUsed, [Next]_vars
    PROVE  RunsAreUsed'
<1>1. /\ runs \in [Tasks -> Seq(Runs)] /\ job \in [Tokens -> Jobs]
  BY DEF TypeOK
<1>2. \A k \in Tokens : job[k].pc \notin Early => job'[k].pc \notin Early
  BY JobChanges, EarlyIsOver
<1> SUFFICES ASSUME NEW t \in Tasks, NEW i \in DOMAIN runs'[t]
             PROVE  /\ runs'[t][i].token \in Tokens
                    /\ job'[runs'[t][i].token].pc \notin Early
  BY DEF RunsAreUsed, Early
<1>3. ASSUME i \in DOMAIN runs[t], runs'[t][i].token = runs[t][i].token
      PROVE  /\ runs'[t][i].token \in Tokens
             /\ job'[runs'[t][i].token].pc \notin Early
  <2>1. runs[t][i].token \in Tokens /\ job[runs[t][i].token].pc \notin Early
    BY <1>3 DEF RunsAreUsed, Early
  <2> QED BY <1>2, <1>3, <2>1
<1>4. CASE \A x \in Tasks : LogKept(x) BY <1>3, <1>4 DEF LogKept
<1>5. ASSUME NEW k \in Tokens, JobRecord(k),
             runs' = [runs EXCEPT ![job[k].task] = Append(@, NewRun(k))]
      PROVE  /\ runs'[t][i].token \in Tokens
             /\ job'[runs'[t][i].token].pc \notin Early
  <2>1. CASE t # job[k].task
    <3>1. runs'[t] = runs[t] BY <1>1, <1>5, <2>1
    <3> QED BY <1>3, <3>1
  <2>2. CASE t = job[k].task
    <3>1. runs'[t] = Append(runs[t], NewRun(k)) /\ runs[t] \in Seq(Runs)
      BY <1>1, <1>5, <2>2
    <3>2. CASE i \in DOMAIN runs[t]
      <4>1. runs'[t][i] = runs[t][i] BY <3>1, <3>2
      <4> QED BY <1>3, <3>2, <4>1
    <3>3. CASE i \notin DOMAIN runs[t]
      <4>1. runs'[t][i] = NewRun(k) BY <3>1, <3>3
      <4>2. runs'[t][i].token = k BY <4>1 DEF NewRun
      <4>3. job'[k].pc = "run" BY <1>1, <1>5 DEF JobRecord, Jobs
      <4> QED BY <4>2, <4>3 DEF Early
    <3> QED BY <3>2, <3>3
  <2> QED BY <2>1, <2>2
<1> QED BY <1>4, <1>5, LogSteps

\* A claim has one run at most: a job records its run once.
LEMMA OneRunEachNext ==
    ASSUME TypeOK, Supports, RunsAreUsed, OneRunEach, [Next]_vars
    PROVE  OneRunEach'
<1>1. runs \in [Tasks -> Seq(Runs)] BY DEF TypeOK
<1> SUFFICES ASSUME NEW t \in Tasks, NEW i \in DOMAIN runs'[t], NEW j \in DOMAIN runs'[t],
                    runs'[t][i].token = runs'[t][j].token
             PROVE  i = j
  BY DEF OneRunEach
<1>2. CASE \A x \in Tasks : LogKept(x)
  <2>1. /\ i \in DOMAIN runs[t] /\ j \in DOMAIN runs[t]
        /\ runs[t][i].token = runs[t][j].token
    BY <1>2 DEF LogKept
  <2> QED BY <2>1 DEF OneRunEach
<1>3. ASSUME NEW k \in Tokens, JobRecord(k),
             runs' = [runs EXCEPT ![job[k].task] = Append(@, NewRun(k))]
      PROVE  i = j
  <2>1. CASE t # job[k].task
    <3>1. runs'[t] = runs[t] BY <1>1, <1>3, <2>1
    <3> QED BY <3>1 DEF OneRunEach
  <2>2. CASE t = job[k].task
    <3>1. runs'[t] = Append(runs[t], NewRun(k)) /\ runs[t] \in Seq(Runs)
      BY <1>1, <1>3, <2>2
    <3>2. job[k].pc = "start" BY <1>3 DEF JobRecord
    <3>3. \A x \in DOMAIN runs[t] : runs[t][x].token # k BY <3>2 DEF RunsAreUsed
    <3>4. \A x \in DOMAIN runs[t] : runs'[t][x] = runs[t][x] BY <3>1
    <3>5. DOMAIN runs'[t] = DOMAIN runs[t] \cup {Len(runs[t]) + 1}
          /\ Len(runs[t]) + 1 \notin DOMAIN runs[t]
      BY <3>1
    <3>6. runs'[t][Len(runs[t]) + 1].token = k BY <3>1 DEF NewRun
    <3> QED BY <3>3, <3>4, <3>5, <3>6 DEF OneRunEach
  <2> QED BY <2>1, <2>2
<1> QED BY <1>2, <1>3, LogSteps

\* While a job lives, only the job itself touches the runs of its task.
LEMMA OwnLog ==
    ASSUME IInv, ExecInv, RunsInv, [Next]_vars, NEW k \in Tokens, job[k].pc \in Live,
           ~JobRecord(k), ~Returned(k)
    PROVE  runs'[job[k].task] = runs[job[k].task]
<1>1. runs \in [Tasks -> Seq(Runs)] /\ job \in [Tokens -> Jobs] /\ exec \in [Procs -> Threads]
  BY DEF IInv, TypeOK
<1>2. /\ job[k].task \in Tasks
      /\ task[job[k].task].status \in Executing /\ task[job[k].task].token = k
  BY DEF IInv, Supports, JobsHaveTasks, ExecInv, JobsHoldClaims, Live, Working
<1>3. ASSUME NEW x \in Tasks, x # job[k].task, NEW log, runs' = [runs EXCEPT ![x] = log]
      PROVE  runs'[job[k].task] = runs[job[k].task]
  BY <1>1, <1>2, <1>3
<1>4. ASSUME NEW j \in Tokens, JobRecord(j) \/ Returned(j)
      PROVE  runs'[job[k].task] = runs[job[k].task]
  <2>1. job[j].pc \in Live /\ j # k
    BY <1>4 DEF JobRecord, Returned, JobReturn, Live, Working
  <2>2. job[j].task \in Tasks /\ task[job[j].task].token = j
    BY <2>1 DEF IInv, Supports, JobsHaveTasks, ExecInv, JobsHoldClaims, Live, Working
  <2>3. job[j].task # job[k].task BY <1>2, <2>1, <2>2
  <2>4. PICK log : runs' = [runs EXCEPT ![job[j].task] = log]
    BY <1>4 DEF JobRecord, Returned, JobReturn
  <2> QED BY <1>3, <2>2, <2>3, <2>4
<1>5. ASSUME NEW p \in Procs, SettleClose(p)
      PROVE  runs'[job[k].task] = runs[job[k].task]
  <2>1. exec[p].cur \in Tasks /\ task[exec[p].cur].status \notin Executing
    BY <1>1, <1>5 DEF SettleClose, RunsInv, ClosingReleased, Threads
  <2>2. PICK log : runs' = [runs EXCEPT ![exec[p].cur] = log]
    BY <1>5 DEF SettleClose
  <2> QED BY <1>2, <1>3, <2>1, <2>2
<1> QED BY <1>4, <1>5, RunChanges

\* The step that runs is the last recorded.
LEMMA RunningIsLastNext ==
    ASSUME IInv, ExecInv, RunsInv, [Next]_vars
    PROVE  RunningIsLast'
<1>1. /\ runs \in [Tasks -> Seq(Runs)] /\ job \in [Tokens -> Jobs] /\ TypeOK /\ Supports
  BY DEF IInv, TypeOK
<1> SUFFICES ASSUME NEW k \in Tokens, job'[k].pc = "run"
             PROVE  /\ job'[k].run = Len(runs'[job'[k].task])
                    /\ runs'[job'[k].task] # << >>
                    /\ runs'[job'[k].task][Len(runs'[job'[k].task])].token = k
                    /\ runs'[job'[k].task][Len(runs'[job'[k].task])].step = job'[k].step
                    /\ runs'[job'[k].task][Len(runs'[job'[k].task])].status = "running"
  BY DEF RunningIsLast, LastRun
<1>2. JobChange(k) BY <1>1, JobChanges
<1>3. CASE job'[k] = job[k]
  <2>1. ~JobRecord(k) /\ ~Returned(k)
    <3>1. ~JobRecord(k) BY <1>3 DEF JobRecord
    <3>2. Returned(k) => job'[k].pc = "finish" BY <1>1 DEF Returned, JobReturn, Jobs
    <3> QED BY <3>1, <3>2
  <2>2. runs'[job[k].task] = runs[job[k].task]
    BY <1>3, <2>1, OwnLog DEF Live, Working
  <2> QED BY <1>3, <2>2 DEF RunsInv, RunningIsLast, LastRun
<1>4. CASE JobRecord(k)
  <2>1. job[k].task \in Tasks BY <1>1, <1>4 DEF JobRecord, Supports, JobsHaveTasks
  <2> DEFINE log == runs[job[k].task]
  <2>2. /\ log \in Seq(Runs)
        /\ runs'[job[k].task] = Append(log, NewRun(k))
    BY <1>1, <1>4, <2>1 DEF JobRecord, NewRun
  <2>3. /\ job'[k].run = Len(log) + 1 /\ job'[k].task = job[k].task
        /\ job'[k].step = job[k].step
    BY <1>1, <1>4 DEF JobRecord, Jobs
  <2>4. /\ Len(runs'[job[k].task]) = Len(log) + 1
        /\ runs'[job[k].task] # << >>
        /\ runs'[job[k].task][Len(log) + 1] = NewRun(k)
    BY <2>2
  <2> QED BY <2>3, <2>4 DEF NewRun
<1>5. CASE JobStart(k) \/ JobAdmit(k) \/ Returned(k)
  <2>1. job'[k].pc # "run"
    <3>1. CASE JobStart(k) BY <1>1, <3>1 DEF JobStart, Ended, Job, Jobs
    <3>2. CASE JobAdmit(k) BY <1>1, <3>2 DEF JobAdmit, Jobs
    <3>3. CASE Returned(k) BY <1>1, <3>3 DEF Returned, JobReturn, Jobs
    <3> QED BY <1>5, <3>1, <3>2, <3>3
  <2> QED BY <2>1
<1>6. CASE FinishRead(k) \/ FinishWrite(k) BY <1>1, <1>6, FinishSteps
<1> QED BY <1>2, <1>3, <1>4, <1>5, <1>6 DEF JobChange, JobWork

\* A job in the pool has nothing to report yet.
LEMMA NoEarlyOutcomeNext ==
    ASSUME IInv, RunsInv, [Next]_vars
    PROVE  NoEarlyOutcome'
<1>1. job \in [Tokens -> Jobs] /\ TypeOK BY DEF IInv, TypeOK
<1> SUFFICES ASSUME NEW k \in Tokens, job'[k].pc = "queued"
             PROVE  job'[k].out = NoOutcome
  BY DEF NoEarlyOutcome
<1>2. JobChange(k) BY <1>1, JobChanges
<1>3. ~JobWork(k)
  <2>1. CASE JobStart(k) BY <1>1, <2>1 DEF JobStart, Ended, Job, Jobs
  <2>2. CASE JobAdmit(k) BY <1>1, <2>2 DEF JobAdmit, Jobs
  <2>3. CASE JobRecord(k) BY <1>1, <2>3 DEF JobRecord, Jobs
  <2>4. CASE Returned(k) BY <1>1, <2>4 DEF Returned, JobReturn, Jobs
  <2>5. CASE FinishRead(k) \/ FinishWrite(k) BY <1>1, <2>5, FinishSteps
  <2> QED BY <2>1, <2>2, <2>3, <2>4, <2>5 DEF JobWork
<1> QED BY <1>2, <1>3 DEF JobChange, RunsInv, NoEarlyOutcome

\* A success is reported only by the job whose run was just closed as one.
LEMMA SuccessIsLastNext ==
    ASSUME IInv, ExecInv, RunsInv, [Next]_vars
    PROVE  SuccessIsLast'
<1>1. /\ runs \in [Tasks -> Seq(Runs)] /\ job \in [Tokens -> Jobs] /\ TypeOK /\ Supports
  BY DEF IInv, TypeOK
<1> SUFFICES ASSUME NEW k \in Tokens, job'[k].pc \in {"finish", "commit"}, Succeeds(job'[k].out)
             PROVE  /\ runs'[job'[k].task] # << >>
                    /\ runs'[job'[k].task][Len(runs'[job'[k].task])].token = k
                    /\ runs'[job'[k].task][Len(runs'[job'[k].task])].step = job'[k].step
                    /\ runs'[job'[k].task][Len(runs'[job'[k].task])].status = job'[k].out.kind
  BY DEF SuccessIsLast, LastRun, Succeeds
<1>2. JobChange(k) BY <1>1, JobChanges
<1>3. ASSUME /\ job[k].pc \in {"finish", "commit"}
             /\ job'[k].out = job[k].out /\ job'[k].step = job[k].step
             /\ job'[k].task = job[k].task
      PROVE  /\ runs'[job'[k].task] # << >>
             /\ runs'[job'[k].task][Len(runs'[job'[k].task])].token = k
             /\ runs'[job'[k].task][Len(runs'[job'[k].task])].step = job'[k].step
             /\ runs'[job'[k].task][Len(runs'[job'[k].task])].status = job'[k].out.kind
  <2>1. ~JobRecord(k) /\ ~Returned(k)
    BY <1>3 DEF JobRecord, Returned, JobReturn
  <2>2. runs'[job[k].task] = runs[job[k].task]
    BY <1>3, <2>1, OwnLog DEF Live, Working
  <2> QED BY <1>3, <2>2 DEF RunsInv, SuccessIsLast, LastRun
<1>4. CASE job'[k] = job[k] BY <1>3, <1>4
<1>5. CASE FinishRead(k) \/ FinishWrite(k) BY <1>1, <1>3, <1>5, FinishSteps
<1>6. CASE Returned(k)
  <2>1. PICK kind \in Returns(job[k].step) : JobReturn(k, kind) BY <1>6 DEF Returned
  <2>2. job[k].task \in Tasks BY <1>1, <2>1 DEF JobReturn, Supports, JobsHaveTasks
  <2> DEFINE log == runs[job[k].task]
  <2>3. /\ log \in Seq(Runs) /\ log # << >> /\ job[k].run = Len(log)
        /\ log[Len(log)].token = k /\ log[Len(log)].step = job[k].step
    BY <1>1, <2>1, <2>2 DEF JobReturn, RunsInv, RunningIsLast, LastRun
  <2>4. /\ job'[k].out.kind = kind /\ job'[k].step = job[k].step /\ job'[k].task = job[k].task
    BY <1>1, <2>1 DEF JobReturn, Jobs
  <2>5. RunResult(kind) = kind BY <2>4 DEF Succeeds, RunResult
  <2>6. Len(log) \in DOMAIN log /\ log[Len(log)] \in Runs BY <2>3
  <2>7. runs'[job[k].task] = [log EXCEPT ![Len(log)] = [log[Len(log)] EXCEPT !.status = kind]]
    BY <1>1, <2>1, <2>2, <2>3, <2>5 DEF JobReturn
  <2>8. [log[Len(log)] EXCEPT !.status = kind] =
          [step |-> log[Len(log)].step, attempt |-> log[Len(log)].attempt,
           token |-> log[Len(log)].token, status |-> kind]
    BY <2>6 DEF Runs
  <2>9. /\ Len(runs'[job[k].task]) = Len(log) /\ runs'[job[k].task] # << >>
        /\ runs'[job[k].task][Len(log)] = [log[Len(log)] EXCEPT !.status = kind]
    BY SMTT(30), <2>3, <2>6, <2>7
  <2> QED BY SMTT(30), <2>3, <2>4, <2>8, <2>9
<1>7. CASE JobStart(k)
  <2>1. job[k].pc = "queued" /\ job'[k].out = job[k].out
    BY <1>1, <1>7 DEF JobStart, Ended, Job, Jobs
  <2> QED BY <2>1 DEF RunsInv, NoEarlyOutcome, NoOutcome, Succeeds
<1>8. CASE JobAdmit(k)
  <2>1. job'[k].out.kind \in {"denied", "ask", "notready", "later"}
    BY <1>1, <1>8 DEF JobAdmit, Jobs, Refusals
  <2> QED BY <2>1 DEF Succeeds
<1>9. CASE JobRecord(k) BY <1>1, <1>9 DEF JobRecord, Jobs
<1> QED BY <1>2, <1>4, <1>5, <1>6, <1>7, <1>8, <1>9 DEF JobChange, JobWork

\* A job keeps working on the step its task stands at: nobody moves an executing task.
LEMMA StepHeldNext ==
    ASSUME IInv, ExecInv, RunsInv, [Next]_vars
    PROVE  StepHeld'
<1>1. /\ task \in [Tasks -> Rows] /\ job \in [Tokens -> Jobs] /\ TypeOK /\ Supports
  BY DEF IInv, TypeOK
<1> SUFFICES ASSUME NEW k \in Tokens, job'[k].pc \in Working
             PROVE  /\ job'[k].step = task'[job'[k].task].step
                    /\ job'[k].pc = "commit" => job'[k].seen.step = task'[job'[k].task].step
  BY DEF StepHeld, Working
<1>2. JobChange(k) BY <1>1, JobChanges
<1>3. job'[k].pc \in Live /\ job'[k].pc \notin {"queued", "done", "dead"}
  BY DEF Live, Working
<1>4. ASSUME job[k].pc \in Live, job'[k].task = job[k].task
      PROVE  task'[job[k].task].step = task[job[k].task].step
  <2>1. /\ job[k].task \in Tasks
        /\ task[job[k].task].status \in Executing
    BY <1>4 DEF IInv, Supports, JobsHaveTasks, ExecInv, JobsHoldClaims, Live, Working
  <2>2. task'[job[k].task].status \in Executing
    BY <1>3, <1>4, ExecNext DEF ExecInv, JobsHoldClaims
  <2> QED BY <1>1, <2>1, <2>2, ExecutingKeepsStep
<1>5. CASE job'[k] = job[k]
  BY <1>3, <1>4, <1>5 DEF RunsInv, StepHeld
<1>6. CASE JobStart(k)
  <2>1. /\ job[k].pc \in Live /\ job'[k].task = job[k].task
        /\ job'[k].step = task[job[k].task].step /\ job'[k].pc # "commit"
    BY <1>1, <1>3, <1>6 DEF JobStart, Ended, Job, Jobs, Live
  <2> QED BY <1>4, <2>1
<1>7. CASE JobAdmit(k) \/ JobRecord(k) \/ Returned(k)
  <2>1. /\ job[k].pc \in Working /\ job'[k].task = job[k].task
        /\ job'[k].step = job[k].step /\ job'[k].pc # "commit"
    <3>1. CASE JobAdmit(k) BY <1>1, <3>1 DEF JobAdmit, Jobs, Working
    <3>2. CASE JobRecord(k) BY <1>1, <3>2 DEF JobRecord, Jobs, Working
    <3>3. CASE Returned(k) BY <1>1, <3>3 DEF Returned, JobReturn, Jobs, Working
    <3> QED BY <1>7, <3>1, <3>2, <3>3
  <2> QED BY <1>4, <2>1 DEF RunsInv, StepHeld, Live
<1>8. CASE FinishRead(k) \/ FinishWrite(k)
  <2>1. /\ job[k].pc \in Working /\ job'[k].task = job[k].task
        /\ job'[k].step = job[k].step
        /\ job'[k].pc = "commit" => job'[k].seen = task[job[k].task]
    BY <1>1, <1>3, <1>8, FinishSteps DEF Working
  <2> QED BY <1>4, <2>1 DEF RunsInv, StepHeld, Live
<1> QED BY <1>2, <1>3, <1>5, <1>6, <1>7, <1>8 DEF JobChange, JobWork

\* The task whose runs a settle closes stays released: the thread that could claim it is
\* the one that settles it.
LEMMA ClosingReleasedNext ==
    ASSUME IInv, ExecInv, RunsInv, [Next]_vars
    PROVE  ClosingReleased'
<1>1. /\ task \in [Tasks -> Rows] /\ exec \in [Procs -> Threads] /\ TypeOK /\ Supports
  BY DEF IInv, TypeOK
<1> SUFFICES ASSUME NEW p \in Procs, exec'[p].cur # NoTask, exec'[p].sub = "close"
             PROVE  task'[exec'[p].cur].status \notin Executing
  BY DEF ClosingReleased
<1>2. exec'[p].cur = exec[p].cur /\ exec[p].cur \in Tasks
  BY <1>1, CloseSteps DEF Threads
<1>3. CASE task' = [task EXCEPT ![exec[p].cur] = Settled(@, exec[p].seen)]
  <2>1. task'[exec[p].cur] = Settled(task[exec[p].cur], exec[p].seen) BY <1>1, <1>2, <1>3
  <2> QED BY <1>1, <1>2, <2>1, SettledReleases DEF Threads
<1>4. CASE exec[p].sub = "close"
  <2>1. task[exec[p].cur].status \notin Executing
    BY <1>2, <1>4 DEF RunsInv, ClosingReleased
  <2>2. ASSUME NEW q \in Procs, NEW e, Claim(q, e) PROVE FALSE
    <3>1. exec[q].pc = "schedule" BY <2>2 DEF Claim
    <3>2. Settling(p) BY <1>2 DEF ExecInv, SettlesInPhase
    <3>3. p = q BY <3>1, <3>2 DEF ExecInv, OnlyHolderRuns, Settling
    <3> QED BY <3>1, <3>2, <3>3 DEF Settling
  <2> QED BY <1>1, <1>2, <2>1, <2>2, ClaimSteps DEF ClaimKept
<1> QED BY <1>1, <1>3, <1>4, CloseSteps

\* All of it together.
LEMMA RunsInvNext ==
    ASSUME IInv, ExecInv, RunsInv, [Next]_vars
    PROVE  RunsInv'
<1>1. TypeOK /\ Supports /\ FreshTokens /\ RunsAreUsed /\ OneRunEach BY DEF IInv, RunsInv
<1> QED BY <1>1, FreshTokensNext, RunsAreUsedNext, OneRunEachNext, RunningIsLastNext,
           SuccessIsLastNext, NoEarlyOutcomeNext, StepHeldNext, ClosingReleasedNext
        DEF RunsInv

\* There are no runs, jobs or threads at the start.
LEMMA RunsInvInit == Init => RunsInv
<1> SUFFICES ASSUME Init PROVE RunsInv OBVIOUS
<1>1. /\ \A k \in Tokens : job[k].pc = "none"
      /\ \A p \in Procs : exec[p].cur = NoTask
      /\ \A t \in Tasks : runs[t] = << >>
  BY DEF Init, Off, Thread, Job
<1> QED BY <1>1
        DEF RunsInv, FreshTokens, RunsAreUsed, OneRunEach, RunningIsLast, SuccessIsLast,
            NoEarlyOutcome, StepHeld, ClosingReleased, Working

\* The invariants always hold.
LEMMA RunsAlways == Spec => [](IInv /\ ExecInv /\ RunsInv)
BY InvAlways, ExecInit, ExecNext, RunsInvInit, RunsInvNext, PTL DEF Spec

---------------------------------------------------------------------------
(* Progress is earned.                                                      *)

ByFinish(t) ==
    \E k \in Tokens :
        /\ job[k].pc = "commit" /\ job[k].task = t
        /\ FinishMatches(task[t], job[k].seen, k)
        /\ task'[t] = Boundary(task[t], job[k].seen, job[k].out, LatestIsDegraded(runs[t]))

ByClaim(t) ==
    /\ task[t].status = "queued" /\ ~task[t].term
    /\ task'[t] = Claimed(task[t], claims + 1)
    /\ claims + 1 \in Tokens /\ claims' = claims + 1

ByRound(t) ==
    \/ task[t].status = "queued" /\ task'[t] = Skipped(task[t], LatestIsDegraded(runs[t]))
    \/ task[t].status = "failed" /\ task'[t] = Requeued(task[t])

\* A settle decides from the row its thread read.
SettledAsRead(x) ==
    \E p \in Procs :
        /\ SettleWrite(p) /\ exec[p].cur = x
        /\ SettleMatches(task[x], exec[p].seen, CheckAlive(p))
        /\ task'[x] = Settled(task[x], exec[p].seen)

\* The user actions after which a task may run again.
PutsToWork == {"resume", "retry", "approve", "set_step", "force_step"}

\* The history knows when a user puts a task to work.
OnRecord(x) ==
    \E d \in Allowed :
        /\ StillAsRead(task[x], d) /\ task'[x] = Decided(task[x], d)
        /\ d.act \in PutsToWork => person'[x]

OneRow(x) ==
    /\ runs' = runs
    /\ \A t \in Tasks : t # x => task'[t] = task[t]
    /\ \/ /\ claims' = claims
          /\ \/ BySettle(x) /\ SettledAsRead(x)
             \/ ByFinish(x) \/ ByRound(x) \/ ByClock(x)
             \/ ByUser(x) /\ OnRecord(x)
       \/ ByClaim(x)

\* A step changes one row at most, by one rule, and no step run with it.
LEMMA OneRowSteps ==
    ASSUME IInv, [Next]_vars
    PROVE  \/ task' = task /\ claims' = claims
           \/ \E x \in Tasks : OneRow(x)
<1>1. /\ task \in [Tasks -> Rows] /\ exec \in [Procs -> Threads]
      /\ job \in [Tokens -> Jobs] /\ claims \in Nat /\ TypeOK /\ Supports
  BY BoundAssumption DEF IInv, TypeOK
<1> DEFINE Goal == \/ task' = task /\ claims' = claims
                   \/ \E x \in Tasks : OneRow(x)
<1>2. ASSUME task' = task, claims' = claims PROVE Goal
  BY <1>2
<1>3. ASSUME NEW p \in Procs, SettleWrite(p), task' # task
      PROVE  Goal
  <2> DEFINE x == exec[p].cur
  <2>1. /\ x \in Tasks /\ exec[p].seen \in Rows /\ exec[p].seen.status \in Executing
    BY <1>1, <1>3 DEF SettleWrite, Threads, Supports, SettlesExecuting
  <2>2. /\ SettleMatches(task[x], exec[p].seen, CheckAlive(p))
        /\ task' = [task EXCEPT ![x] = Settled(@, exec[p].seen)]
        /\ runs' = runs /\ claims' = claims
    BY <1>3 DEF SettleWrite
  <2>3. CheckAlive(p) \in BOOLEAN BY DEF CheckAlive
  <2>4. task'[x] = Settled(task[x], exec[p].seen) BY <1>1, <2>1, <2>2
  <2>5. BySettle(x) BY <2>1, <2>2, <2>3, <2>4 DEF BySettle
  <2>6. \A t \in Tasks : t # x => task'[t] = task[t] BY <1>1, <2>2
  <2>7. SettledAsRead(x) BY <1>3, <2>2, <2>4 DEF SettledAsRead
  <2> QED BY <2>1, <2>2, <2>5, <2>6, <2>7 DEF OneRow
<1>4. ASSUME NEW p \in Procs, NEW e \in exec[p].todo, RequeueFailed(p, e) \/ SkipStep(p, e)
      PROVE  Goal
  <2>1. e.id \in Tasks BY <1>1 DEF Threads
  <2>2. runs' = runs /\ claims' = claims BY <1>4 DEF RequeueFailed, SkipStep
  <2>3. CASE task' = task BY <1>2, <2>2, <2>3
  <2>4. CASE task' # task
    <3>1. PICK row : /\ task' = [task EXCEPT ![e.id] = row]
                     /\ \/ row = task[e.id]
                        \/ task[e.id].status = "failed" /\ row = Requeued(task[e.id])
                        \/ /\ task[e.id].status = "queued"
                           /\ row = Skipped(task[e.id], LatestIsDegraded(runs[e.id]))
      BY <1>4 DEF RequeueFailed, SkipStep
    <3>2. task'[e.id] = row /\ \A t \in Tasks : t # e.id => task'[t] = task[t]
      BY <1>1, <2>1, <3>1
    <3>3. row # task[e.id] BY <1>1, <2>1, <2>4, <3>1
    <3>4. ByRound(e.id) BY <3>1, <3>2, <3>3 DEF ByRound
    <3> QED BY <2>1, <2>2, <3>2, <3>4 DEF OneRow
  <2> QED BY <2>3, <2>4
<1>5. ASSUME NEW p \in Procs, NEW e \in exec[p].todo, Claim(p, e)
      PROVE  Goal
  <2>1. e.id \in Tasks BY <1>1 DEF Threads
  <2>2. FlagsMatch(task[e.id]) BY <2>1 DEF IInv, FlagsMatchStatus
  <2>3. CASE task[e.id].status # "queued"
    <3>1. task' = task /\ claims' = claims BY <1>1, <1>5, <2>1, <2>3 DEF Claim
    <3> QED BY <1>2, <3>1
  <2>4. CASE task[e.id].status = "queued"
    <3>1. ~task[e.id].term BY <2>2, <2>4 DEF FlagsMatch, Executing
    <3>2. /\ task' = [task EXCEPT ![e.id] = Claimed(task[e.id], claims + 1)]
          /\ claims' = claims + 1 /\ runs' = runs /\ claims < MaxClaims
      BY <1>5, <2>4, <3>1 DEF Claim
    <3>3. claims + 1 \in Tokens BY <1>1, <3>2, BoundAssumption DEF Tokens
    <3>4. /\ task'[e.id] = Claimed(task[e.id], claims + 1)
          /\ \A t \in Tasks : t # e.id => task'[t] = task[t]
      BY <1>1, <2>1, <3>2
    <3> QED BY <2>1, <2>4, <3>1, <3>2, <3>3, <3>4 DEF OneRow, ByClaim
  <2> QED BY <2>3, <2>4
<1>6. ASSUME NEW k \in Tokens, FinishWrite(k), task' # task
      PROVE  Goal
  <2> DEFINE x == job[k].task
  <2>1. x \in Tasks /\ job[k].pc = "commit"
    BY <1>1, <1>6 DEF FinishWrite, Supports, JobsHaveTasks
  <2>2. /\ FinishMatches(task[x], job[k].seen, k)
        /\ task' = [task EXCEPT ![x] = Boundary(@, job[k].seen, job[k].out,
                                                LatestIsDegraded(runs[x]))]
        /\ runs' = runs /\ claims' = claims
    BY <1>6 DEF FinishWrite
  <2>3. task'[x] = Boundary(task[x], job[k].seen, job[k].out, LatestIsDegraded(runs[x]))
    BY <1>1, <2>1, <2>2
  <2>4. ByFinish(x) BY <2>1, <2>2, <2>3 DEF ByFinish
  <2>5. \A t \in Tasks : t # x => task'[t] = task[t] BY <1>1, <2>2
  <2> QED BY <2>1, <2>2, <2>4, <2>5 DEF OneRow
<1>7. ASSUME NEW k \in Tokens, Heartbeat(k)
      PROVE  Goal
  <2>1. job[k].task \in Tasks BY <1>1, <1>7 DEF Heartbeat, Supports, JobsHaveTasks
  <2>2. /\ task' = [task EXCEPT ![job[k].task] = [task[job[k].task] EXCEPT !.beat = "new"]]
        /\ runs' = runs /\ claims' = claims
    BY <1>7 DEF Heartbeat
  <2>3. ByClock(job[k].task) BY <1>1, <2>1, <2>2 DEF ByClock
  <2>4. \A t \in Tasks : t # job[k].task => task'[t] = task[t] BY <1>1, <2>2
  <2> QED BY <2>1, <2>2, <2>3, <2>4 DEF OneRow
<1>8. ASSUME NEW u \in Users, NEW r \in request[u], UserWrites(u, r.task, r.decision)
      PROVE  Goal
  <2>1. r.task \in Tasks /\ r.decision \in Allowed /\ r.decision \in Decisions
    BY <1>1 DEF Supports, RequestsAllowed, Allowed
  <2>2. runs' = runs /\ claims' = claims BY <1>8 DEF UserWrites
  <2>3. CASE StillAsRead(task[r.task], r.decision)
    <3>1. task' = [task EXCEPT ![r.task] = Decided(task[r.task], r.decision)]
      BY <1>8, <2>3 DEF UserWrites
    <3>2. /\ task'[r.task] = Decided(task[r.task], r.decision)
          /\ \A t \in Tasks : t # r.task => task'[t] = task[t]
      BY <1>1, <2>1, <3>1
    <3>3. ByUser(r.task) BY <2>1, <2>3, <3>2 DEF ByUser
    <3>4. r.decision.act \in PutsToWork => person'[r.task]
      <4>1. person \in [Tasks -> BOOLEAN] BY <1>1 DEF TypeOK
      <4>2. CASE r.decision.act \in PutsToWork
        <5>1. person' = [person EXCEPT ![r.task] = TRUE]
          BY <1>8, <2>3, <4>2 DEF UserWrites, PutsToWork
        <5> QED BY <2>1, <4>1, <5>1
      <4> QED BY <4>2
    <3>5. OnRecord(r.task) BY <2>1, <2>3, <3>2, <3>4 DEF OnRecord
    <3> QED BY <2>1, <2>2, <3>2, <3>3, <3>5 DEF OneRow
  <2>4. CASE ~StillAsRead(task[r.task], r.decision)
    <3>1. task' = task BY <1>8, <2>4 DEF UserWrites
    <3> QED BY <1>2, <2>2, <3>1
  <2> QED BY <2>3, <2>4
<1>9. ASSUME NEW x \in Tasks, DelayEnds(x) \/ HeartbeatAges(x)
      PROVE  Goal
  <2>1. runs' = runs /\ claims' = claims BY <1>9 DEF DelayEnds, HeartbeatAges
  <2>2. \/ /\ task' = [task EXCEPT ![x] = [task[x] EXCEPT !.due = "past"]]
           /\ task[x].due = "future"
        \/ task' = [task EXCEPT ![x] = [task[x] EXCEPT !.beat = "old"]]
    BY <1>9 DEF DelayEnds, HeartbeatAges
  <2>3. ByClock(x) BY <1>1, <2>2 DEF ByClock
  <2>4. \A t \in Tasks : t # x => task'[t] = task[t] BY <1>1, <2>2
  <2> QED BY <2>1, <2>3, <2>4 DEF OneRow
<1> HIDE DEF Goal
<1>10. ASSUME Next PROVE Goal
  <2>1. CASE \E p \in Procs : AcquireLock(p) \/ Recovery(p) \/ ReleaseLock(p) \/ Upset(p)
    BY <1>2, <2>1
       DEF AcquireLock, Recovery, ListRunning, ListPausing, ReleaseLock, Upset, RequestStop,
           Crash, RoundFails, RecoveryFails, tables
  <2>2. CASE \E p \in Procs : Settle(p)
    <3>1. ASSUME NEW p \in Procs, NEW e,
                 \/ SettleAgain(p) \/ SettleClose(p) \/ ReclaimSkip(p, e) \/ SettleBegin(p, e)
                 \/ SettleWrite(p) /\ task' = task
          PROVE  Goal
      BY <1>2, <3>1
         DEF ReclaimSkip, SettleBegin, SettleAgain, SettleWrite, SettleClose, tables
    <3> QED BY <1>3, <2>2, <3>1 DEF Settle
  <2>3. CASE \E p \in Procs : Round(p)
    <3>1. ASSUME NEW p \in Procs, NEW e,
                 \/ ListStale(p) \/ ListDueFailed(p) \/ CountRunning(p) \/ CountPausing(p)
                 \/ ListQueued(p) \/ PassOver(p, e) \/ ClaimBeyondBound(p, e)
          PROVE  Goal
      BY <1>2, <3>1
         DEF ListStale, ListDueFailed, CountRunning, CountPausing, ListQueued,
             PassOver, ClaimBeyondBound, tables
    <3> QED BY <1>4, <1>5, <2>3, <3>1 DEF Round
  <2>4. CASE \E k \in Tokens : Work(k) \/ Heartbeat(k) \/ JobRaises(k)
    <3>1. ASSUME NEW k \in Tokens,
                 \/ JobStart(k) \/ JobAdmit(k) \/ JobRecord(k) \/ Returned(k) \/ FinishRead(k)
                 \/ FinishWrite(k) /\ task' = task
          PROVE  Goal
      BY <1>2, <3>1
         DEF JobStart, JobAdmit, JobRecord, JobReturn, FinishRead, FinishWrite, tables, Returned
    <3>2. ASSUME NEW k \in Tokens, Work(k) PROVE Goal
      BY <1>6, <3>1, <3>2 DEF Work, Returned
    <3>3. ASSUME NEW k \in Tokens, JobRaises(k) PROVE Goal
      BY <1>2, <3>3 DEF JobRaises, tables
    <3> QED BY <1>7, <2>4, <3>2, <3>3
  <2>5. CASE \E u \in Users : Command(u)
    <3>1. ASSUME NEW u \in Users, NEW t, UserReads(u, t) PROVE Goal
      BY <1>2, <3>1 DEF UserReads, tables
    <3> QED BY <1>8, <2>5, <3>1 DEF Command
  <2>6. CASE Clock BY <1>9, <2>6 DEF Clock
  <2> QED BY <1>10, <2>1, <2>2, <2>3, <2>4, <2>5, <2>6 DEF Next, Schedule
<1> QED BY <1>2, <1>10 DEF vars, Goal

\* A boundary that moves the task, or ends it as completed, reports a success.
LEMMA BoundaryMoves ==
    ASSUME NEW row \in Rows, NEW seen \in Rows, NEW degraded, NEW out \in Outcomes
    PROVE  LET new == Boundary(row, seen, out, degraded)
           IN  \/ new.step = row.step /\ EndOf(new) = "open"
               \/ seen.term /\ new.step = row.step /\ EndOf(new) = "terminated"
               \/ /\ ~seen.term /\ Succeeds(out)
                  /\ \/ ~IsLast(seen.step) /\ new.step = seen.step + 1 /\ EndOf(new) = "open"
                     \/ IsLast(seen.step) /\ new.step = row.step /\ EndOf(new) = "finished"
<1> USE DEF Rows, Released, Unlock, EndOf
<1>1. CASE seen.term BY <1>1 DEF Boundary
<1>2. CASE ~seen.term /\ Succeeds(out)
  <2> DEFINE new == BoundarySucceeded(row, seen, out, degraded)
  <2>1. Boundary(row, seen, out, degraded) = new BY <1>2 DEF Boundary, Succeeds
  <2>2. CASE IsLast(seen.step)
    <3>1. new.step = row.step /\ new.status \in {"completed", "partially_completed"}
      BY <2>2 DEF BoundarySucceeded, FinalStatus
    <3> QED BY <1>2, <2>1, <2>2, <3>1
  <2>3. CASE ~IsLast(seen.step)
    <3>1. new.step = seen.step + 1 /\ new.status \in {"paused", "queued"}
      BY <2>3 DEF BoundarySucceeded, PausedOr
    <3> QED BY <1>2, <2>1, <2>3, <3>1
  <2> QED BY <2>2, <2>3
<1>3. CASE ~seen.term /\ out.kind = "denied"
  <2> DEFINE new == [Released(row, "manual_required") EXCEPT !.due = "null"]
  <2>1. new.step = row.step /\ new.status = "manual_required" OBVIOUS
  <2>2. Boundary(row, seen, out, degraded) = new BY <1>3 DEF Boundary, Succeeds
  <2> QED BY <2>1, <2>2
<1>4. CASE ~seen.term /\ out.kind = "ask"
  <2> DEFINE new == BoundaryAsked(row, seen, out)
  <2>1. new.step = row.step /\ new.status \in {"paused", "awaiting_approval"}
    BY DEF BoundaryAsked
  <2>2. Boundary(row, seen, out, degraded) = new BY <1>4 DEF Boundary, Succeeds
  <2> QED BY <2>1, <2>2
<1>5. CASE ~seen.term /\ out.kind \in {"notready", "later"}
  <2> DEFINE new == BoundaryDeferred(row, seen, out)
  <2>1. new.step = row.step /\ new.status \in {"paused", "queued"} BY DEF BoundaryDeferred
  <2>2. Boundary(row, seen, out, degraded) = new BY <1>5 DEF Boundary, Succeeds
  <2> QED BY <2>1, <2>2
<1>6. CASE ~seen.term /\ out.kind \in {"failed", "fatal"}
  <2> DEFINE new == BoundaryFailed(row, seen, out)
  <2>1. new.step = row.step /\ new.status \in {"manual_required", "paused", "failed"}
    BY DEF BoundaryFailed
  <2>2. Boundary(row, seen, out, degraded) = new BY <1>6 DEF Boundary, Succeeds
  <2> QED BY <2>1, <2>2
<1> QED BY <1>1, <1>2, <1>3, <1>4, <1>5, <1>6 DEF Outcomes, Succeeds

\* So does recovery or reclaim never: it ends a task as terminated or not at all.
LEMMA SettledMoves ==
    ASSUME NEW row \in Rows, NEW seen \in Rows
    PROVE  /\ Settled(row, seen).step = row.step
           /\ EndOf(Settled(row, seen)) \in {"open", "terminated"}
BY DEF Settled, Rows, Released, Unlock, EndOf

\* A user action moves or ends no executing task, and puts a free one elsewhere, ends it as
\* terminated, or leaves it where it is.
LEMMA DecidedMoves ==
    ASSUME NEW row \in Rows, NEW d \in Allowed, StillAsRead(row, d), FlagsMatch(row)
    PROVE  LET new == Decided(row, d)
           IN  /\ Holder(new) = Holder(row)
               /\ row.status \in Executing <=> new.status \in Executing
               /\ \/ new.step = row.step /\ EndOf(new) = EndOf(row)
                  \/ /\ row.status \notin Executing /\ EndOf(row) = "open"
                     /\ new.step = row.step /\ EndOf(new) = "terminated"
                  \/ /\ row.status \notin Executing /\ EndOf(row) = "open"
                     /\ new.step \in Steps /\ EndOf(new) = "open"
<1> USE DEF Rows, StillAsRead
<1> DEFINE new == Decided(row, d)
<1>1. PICK read \in Rows : Decides(d, read) BY DEF Allowed
<1>2. d \in Decisions BY DEF Allowed
<1>3. d.expect = read.status BY <1>1 DEF Decides
<1>4. CASE d.act = "pause" /\ d.expect = "running"
  <2>1. /\ new.status = "pause_pending" /\ new.step = row.step /\ new.token = row.token
    BY <1>4 DEF Decided
  <2> QED BY <1>4, <2>1 DEF Holder, EndOf, Executing
<1>5. CASE d.act = "pause" /\ d.expect # "running"
  <2>1. d.expect = "queued" BY <1>1, <1>3, <1>5 DEF Decides
  <2>2. /\ new.status = "paused" /\ new.step = row.step
    BY <1>5 DEF Decided
  <2> QED BY <2>1, <2>2 DEF Holder, EndOf, Executing
<1>6. CASE d.act = "terminate" /\ d.expect \in Executing
  <2>1. /\ new.status = row.status /\ new.step = row.step /\ new.token = row.token
    BY <1>6 DEF Decided
  <2> QED BY <2>1 DEF Holder, EndOf
<1>7. CASE d.act = "terminate" /\ d.expect \notin Executing
  <2>1. row.status \notin Terminal BY <1>1, <1>3, <1>7 DEF Decides
  <2>2. /\ new.status = "terminated" /\ new.step = row.step
    BY <1>7 DEF Decided
  <2> QED BY <1>7, <2>1, <2>2 DEF Holder, EndOf, Executing, Terminal
<1>8. CASE d.act \in {"resume", "retry", "approve", "reject", "wake"}
  <2>1. row.status \in {"paused", "failed", "manual_required", "awaiting_approval", "queued"}
    BY <1>1, <1>3, <1>8 DEF Decides
  <2>2. /\ new.status \in {"queued", "manual_required"} /\ new.step = row.step
    <3>1. CASE d.act \in {"resume", "retry"} BY <3>1 DEF Decided, Requeued
    <3>2. CASE d.act \in {"approve", "reject"} BY <3>2 DEF Decided
    <3>3. CASE d.act = "wake"
      <4>1. row.status = "queued" BY <1>1, <1>3, <3>3 DEF Decides
      <4> QED BY <3>3, <4>1 DEF Decided
    <3> QED BY <1>8, <3>1, <3>2, <3>3
  <2> QED BY <2>1, <2>2 DEF Holder, EndOf, Executing
<1>9. CASE d.act \in {"set_step", "force_step"}
  <2>1. /\ row.status \in {"paused", "failed", "manual_required", "queued"}
        /\ d.arg \in Steps
    BY <1>1, <1>3, <1>9 DEF Decides
  <2>2. /\ new.status = row.status /\ new.step = d.arg
    BY <1>9 DEF Decided
  <2> QED BY <2>1, <2>2 DEF Holder, EndOf, Executing
<1>10. CASE d.act = "set_retries"
  <2>1. /\ new.status = row.status /\ new.step = row.step /\ new.token = row.token
    BY <1>10 DEF Decided
  <2> QED BY <2>1 DEF Holder, EndOf
<1> QED BY <1>2, <1>4, <1>5, <1>6, <1>7, <1>8, <1>9, <1>10 DEF Decisions, UserActions

\* The clock touches neither place nor claim nor status.
LEMMA ClockMoves ==
    ASSUME NEW t \in Tasks, task[t] \in Rows, ByClock(t)
    PROVE  /\ task'[t].step = task[t].step /\ task'[t].status = task[t].status
           /\ task'[t].token = task[t].token
BY DEF ByClock, Rows

\* A worker's success is the last run of the log, recorded under the claim of the row.
LEMMA SuccessEarned ==
    ASSUME IInv, ExecInv, RunsInv, NEW t \in Tasks, NEW k \in Tokens,
           job[k].pc = "commit", job[k].task = t, FinishMatches(task[t], job[k].seen, k)
    PROVE  /\ task[t].token = k /\ task[t].status \in Executing
           /\ job[k].seen.step = task[t].step
           /\ Succeeds(job[k].out) =>
                /\ runs[t] # << >> /\ runs[t][Len(runs[t])].token = k
                /\ runs[t][Len(runs[t])].step = task[t].step
                /\ runs[t][Len(runs[t])].status \in {"ok", "degraded"}
<1>1. task[t].token = k BY DEF FinishMatches
<1>2. task[t].status \in Executing
  BY DEF ExecInv, JobsHoldClaims, Live, Working
<1>3. job[k].seen.step = task[t].step /\ job[k].step = task[t].step
  BY DEF RunsInv, StepHeld, Working
<1>4. Succeeds(job[k].out) => LastRun(runs[t], k, job[k].out.kind)
  BY DEF RunsInv, SuccessIsLast
<1> QED BY <1>1, <1>2, <1>3, <1>4 DEF LastRun, Succeeds

\* An executing task moves on, or is completed, only through a success of its step that
\* was the last run of the task, under the claim that held it: no reclaim, stale worker,
\* user or crash earns progress.
THEOREM AdvanceCorrect == Spec => AdvanceIsEarned
<1> DEFINE Earned(t) ==
          LET old == task[t]  new == task'[t]  log == runs[t]
          IN  /\ old.status \in Executing
              /\ new.step # old.step \/ new.status \in {"completed", "partially_completed"}
              => /\ new.step \in {old.step, old.step + 1}
                 /\ log # << >>
                 /\ log[Len(log)].step = old.step
                 /\ log[Len(log)].token = old.token
                 /\ log[Len(log)].status \in {"ok", "degraded"}
<1>1. ASSUME IInv, ExecInv, RunsInv, [Next]_vars, NEW t \in Tasks PROVE Earned(t)
  <2>1. /\ task \in [Tasks -> Rows] /\ job \in [Tokens -> Jobs] /\ FlagsMatch(task[t])
    BY <1>1 DEF IInv, TypeOK, FlagsMatchStatus
  <2> SUFFICES ASSUME task[t].status \in Executing,
                      \/ task'[t].step # task[t].step
                      \/ task'[t].status \in {"completed", "partially_completed"}
               PROVE  Earned(t)
    OBVIOUS
  <2>2. task'[t].step # task[t].step \/ EndOf(task'[t]) = "finished" BY DEF EndOf
  <2>3. EndOf(task[t]) = "open" BY DEF EndOf, Executing
  <2>4. OneRow(t)
    <3>1. PICK x \in Tasks : OneRow(x) BY <1>1, <2>2, <2>3, OneRowSteps
    <3> QED BY <2>2, <2>3, <3>1 DEF OneRow
  <2>5. CASE BySettle(t)
    <3>1. PICK seen \in Rows : task'[t] = Settled(task[t], seen) BY <2>5 DEF BySettle
    <3> QED BY <2>1, <2>2, <3>1, SettledMoves
  <2>6. CASE ByFinish(t)
    <3>1. PICK k \in Tokens :
             /\ job[k].pc = "commit" /\ job[k].task = t
             /\ FinishMatches(task[t], job[k].seen, k)
             /\ task'[t] = Boundary(task[t], job[k].seen, job[k].out, LatestIsDegraded(runs[t]))
      BY <2>6 DEF ByFinish
    <3>2. job[k].seen \in Rows /\ job[k].out \in Outcomes BY <2>1 DEF Jobs
    <3>3. Succeeds(job[k].out)
      BY <2>1, <2>2, <3>1, <3>2, BoundaryMoves
    <3>4. task'[t].step \in {task[t].step, task[t].step + 1}
      BY <1>1, <2>1, <3>1, <3>2, BoundaryMoves, SuccessEarned
    <3> QED BY <1>1, <3>1, <3>3, <3>4, SuccessEarned
  <2>7. CASE ByRound(t) \/ ByClaim(t)
    BY <2>7 DEF ByRound, ByClaim, Executing
  <2>8. CASE ByUser(t)
    <3>1. PICK d \in Allowed : StillAsRead(task[t], d) /\ task'[t] = Decided(task[t], d)
      BY <2>8 DEF ByUser
    <3> QED BY <2>1, <2>2, <2>3, <3>1, DecidedMoves
  <2>9. CASE ByClock(t)
    <3>1. task'[t].step = task[t].step /\ task'[t].status = task[t].status
      BY <2>1, <2>9, ClockMoves
    <3> QED BY <2>2, <2>3, <3>1 DEF EndOf
  <2> QED BY <2>4, <2>5, <2>6, <2>7, <2>8, <2>9 DEF OneRow
<1>2. IInv /\ ExecInv /\ RunsInv /\ [Next]_vars => [\A t \in Tasks : Earned(t)]_vars
  BY <1>1
<1> QED BY <1>2, RunsAlways, PTL DEF Spec, AdvanceIsEarned

---------------------------------------------------------------------------
(* The refinement.                                                          *)

\* The mapped variables after a step that changes what is mapped of one task.
LEMMA OthersStay ==
    ASSUME NEW x \in Tasks,
           \A t \in Tasks : t # x =>
               /\ task'[t].step = task[t].step /\ Holder(task'[t]) = Holder(task[t])
               /\ Worked(task'[t], runs'[t]) = Worked(task[t], runs[t])
               /\ EndOf(task'[t]) = EndOf(task[t])
    PROVE  /\ PlaceOfTasks' = [PlaceOfTasks EXCEPT ![x] = task'[x].step]
           /\ HolderOfTasks' = [HolderOfTasks EXCEPT ![x] = Holder(task'[x])]
           /\ WorkOnTasks' = [WorkOnTasks EXCEPT ![x] = Worked(task'[x], runs'[x])]
           /\ EndOfTasks' = [EndOfTasks EXCEPT ![x] = EndOf(task'[x])]
BY DEF PlaceOfTasks, HolderOfTasks, WorkOnTasks, EndOfTasks

\* A step that changes nothing of what is mapped is no step of the promise.
LEMMA Stutter ==
    ASSUME claims' = claims,
           \A t \in Tasks :
               /\ task'[t].step = task[t].step /\ Holder(task'[t]) = Holder(task[t])
               /\ Worked(task'[t], runs'[t]) = Worked(task[t], runs[t])
               /\ EndOf(task'[t]) = EndOf(task[t])
    PROVE  UNCHANGED Promise!vars
BY DEF PlaceOfTasks, HolderOfTasks, WorkOnTasks, EndOfTasks, Promise!vars

\* Under a claim that has no run, none began; its run tells what became of the work.
LEMMA WorkedBy ==
    ASSUME NEW row \in Rows, row.status \in Executing, NEW log \in Seq(Runs),
           \A i, j \in DOMAIN log : log[i].token = log[j].token => i = j
    PROVE  /\ (\A i \in DOMAIN log : log[i].token # row.token) => Worked(row, log) = "none"
           /\ \A i \in DOMAIN log : log[i].token = row.token =>
                 /\ log[i].status \in {"ok", "degraded"} => Worked(row, log) = "success"
                 /\ log[i].status = "running" => Worked(row, log) = "begun"
                 /\ log[i].status \notin {"ok", "degraded", "running"} => Worked(row, log) = "else"
<1>1. ASSUME \A i \in DOMAIN log : log[i].token # row.token
      PROVE  Worked(row, log) = "none"
  BY <1>1 DEF Worked, Recorded
<1>2. ASSUME NEW i \in DOMAIN log, log[i].token = row.token
      PROVE  /\ log[i].status \in {"ok", "degraded"} => Worked(row, log) = "success"
             /\ log[i].status = "running" => Worked(row, log) = "begun"
             /\ log[i].status \notin {"ok", "degraded", "running"} => Worked(row, log) = "else"
  <2>1. \A kinds : Recorded(log, row.token, kinds) <=> log[i].status \in kinds
    BY <1>2 DEF Recorded
  <2>2. log[i] \in Runs OBVIOUS
  <2>3. log[i].status \in RunStatus BY <2>2 DEF Runs
  <2> QED BY <2>1, <2>3 DEF Worked
<1> QED BY <1>1, <1>2

\* A claim lends a free task under a number nobody had, and nothing was done under it yet.
LEMMA ClaimTakes ==
    ASSUME IInv, RunsInv, IInv', RunsInv', NEW x \in Tasks, ByClaim(x), runs' = runs,
           \A t \in Tasks : t # x => task'[t] = task[t]
    PROVE  Promise!Take(x)
<1>1. /\ task[x] \in Rows /\ task'[x] \in Rows /\ runs[x] \in Seq(Runs) /\ claims \in Nat
  BY BoundAssumption DEF IInv, TypeOK
<1>2. /\ task'[x].status = "running" /\ task'[x].token = claims + 1
      /\ task'[x].step = task[x].step
  BY <1>1 DEF ByClaim, Claimed, Rows
<1>3. \A i \in DOMAIN runs[x] : runs[x][i].token # claims + 1
  <2>1. job[claims + 1].pc = "none"
    BY <1>1 DEF ByClaim, RunsInv, FreshTokens, Tokens
  <2> QED BY <2>1 DEF RunsInv, RunsAreUsed
<1>4. /\ Worked(task[x], runs[x]) = "none"
      /\ Worked(task'[x], runs'[x]) = "none"
  <2>1. Worked(task[x], runs[x]) = "none" BY DEF ByClaim, Worked, Executing
  <2>2. \A i, j \in DOMAIN runs[x] : runs[x][i].token = runs[x][j].token => i = j
    BY DEF RunsInv, OneRunEach
  <2>3. task'[x].status \in Executing BY <1>2 DEF Executing
  <2> QED BY <1>1, <1>2, <1>3, <2>1, <2>2, <2>3, WorkedBy
<1>5. Holder(task[x]) = 0 /\ EndOf(task[x]) = "open"
  BY DEF ByClaim, Holder, EndOf, Executing, NoToken
<1>6. Holder(task'[x]) = claims + 1 /\ EndOf(task'[x]) = "open"
  BY <1>2 DEF Holder, EndOf, Executing
<1>7. /\ PlaceOfTasks' = [PlaceOfTasks EXCEPT ![x] = task'[x].step]
      /\ HolderOfTasks' = [HolderOfTasks EXCEPT ![x] = Holder(task'[x])]
      /\ WorkOnTasks' = [WorkOnTasks EXCEPT ![x] = Worked(task'[x], runs'[x])]
      /\ EndOfTasks' = [EndOfTasks EXCEPT ![x] = EndOf(task'[x])]
  BY OthersStay
<1>8. /\ PlaceOfTasks[x] = task[x].step /\ HolderOfTasks[x] = Holder(task[x])
      /\ WorkOnTasks[x] = Worked(task[x], runs[x]) /\ EndOfTasks[x] = EndOf(task[x])
  BY DEF PlaceOfTasks, HolderOfTasks, WorkOnTasks, EndOfTasks
<1>9. /\ PlaceOfTasks' = PlaceOfTasks /\ WorkOnTasks' = WorkOnTasks
      /\ EndOfTasks' = EndOfTasks
  BY <1>2, <1>4, <1>5, <1>6, <1>7, <1>8
     DEF PlaceOfTasks, WorkOnTasks, EndOfTasks
<1>10. claims' = claims + 1 BY DEF ByClaim
<1> QED BY <1>5, <1>6, <1>7, <1>8, <1>9, <1>10 DEF Promise!Take, Promise!Free

\* A released task was held, and is held by nobody with no work under way.
LEMMA Release ==
    ASSUME NEW x \in Tasks, FlagsMatch(task[x]), task[x].status \in Executing,
           task'[x].status \notin Executing, claims' = claims,
           \A t \in Tasks : t # x => task'[t] = task[t] /\ runs'[t] = runs[t]
    PROVE  Promise!Return(x)
<1>1. Holder(task[x]) # 0 /\ Holder(task'[x]) = 0
  BY DEF Holder, FlagsMatch, NoToken
<1>2. Worked(task'[x], runs'[x]) = "none" BY DEF Worked
<1>3. HolderOfTasks[x] = Holder(task[x]) BY DEF HolderOfTasks
<1> QED BY <1>1, <1>2, <1>3, OthersStay DEF Promise!Return

\* A boundary ends the claim's tenure: by a success, or by giving the task back.
LEMMA FinishPromised ==
    ASSUME IInv, ExecInv, RunsInv, NEW x \in Tasks, ByFinish(x), runs' = runs, claims' = claims,
           \A t \in Tasks : t # x => task'[t] = task[t]
    PROVE  Promise!Advance(x) \/ Promise!GiveBack(x)
<1>1. /\ task[x] \in Rows /\ job \in [Tokens -> Jobs] /\ runs[x] \in Seq(Runs)
      /\ FlagsMatch(task[x])
  BY DEF IInv, TypeOK, FlagsMatchStatus
<1>2. PICK k \in Tokens :
         /\ job[k].pc = "commit" /\ job[k].task = x
         /\ FinishMatches(task[x], job[k].seen, k)
         /\ task'[x] = Boundary(task[x], job[k].seen, job[k].out, LatestIsDegraded(runs[x]))
  BY DEF ByFinish
<1> DEFINE seen == job[k].seen
           out == job[k].out
<1>3. seen \in Rows /\ out \in Outcomes BY <1>1 DEF Jobs
<1>4. /\ task[x].token = k /\ task[x].status \in Executing /\ seen.step = task[x].step
  BY <1>2, SuccessEarned
<1>5. task'[x].status \notin Executing
  BY <1>1, <1>2, <1>3, BoundaryReleases DEF Outcomes, OutcomeKinds
<1>6. Promise!Return(x) BY <1>1, <1>4, <1>5, Release
<1>7. /\ PlaceOfTasks' = [PlaceOfTasks EXCEPT ![x] = task'[x].step]
      /\ EndOfTasks' = [EndOfTasks EXCEPT ![x] = EndOf(task'[x])]
  BY OthersStay
<1>8. /\ PlaceOfTasks[x] = task[x].step /\ EndOfTasks[x] = EndOf(task[x])
      /\ WorkOnTasks[x] = Worked(task[x], runs[x])
  BY DEF PlaceOfTasks, EndOfTasks, WorkOnTasks
<1>9. EndOf(task[x]) = "open" BY <1>4 DEF EndOf, Executing
<1>10. task'[x].step = task[x].step => PlaceOfTasks' = PlaceOfTasks
  BY <1>7, <1>8 DEF PlaceOfTasks
<1>11. EndOf(task'[x]) = "open" => EndOfTasks' = EndOfTasks
  BY <1>7, <1>8, <1>9 DEF EndOfTasks
<1>12. CASE task'[x].step = task[x].step /\ EndOf(task'[x]) \in {"open", "terminated"}
  BY <1>6, <1>7, <1>10, <1>11, <1>12 DEF Promise!GiveBack
<1>13. ASSUME Succeeds(out),
              \/ ~IsLast(seen.step) /\ task'[x].step = seen.step + 1 /\ EndOf(task'[x]) = "open"
              \/ /\ IsLast(seen.step) /\ task'[x].step = task[x].step
                 /\ EndOf(task'[x]) = "finished"
       PROVE  Promise!Advance(x)
  <2>1. /\ runs[x] # << >> /\ runs[x][Len(runs[x])].token = k
        /\ runs[x][Len(runs[x])].status \in {"ok", "degraded"}
    BY <1>2, <1>13, SuccessEarned
  <2>2. Len(runs[x]) \in DOMAIN runs[x] BY <1>1, <2>1
  <2>3. \A i, j \in DOMAIN runs[x] : runs[x][i].token = runs[x][j].token => i = j
    BY DEF RunsInv, OneRunEach
  <2>4. Worked(task[x], runs[x]) = "success"
    BY <1>1, <1>4, <2>1, <2>2, <2>3, WorkedBy
  <2>5. Promise!Onward(x)
    BY <1>4, <1>7, <1>8, <1>10, <1>11, <1>13 DEF Promise!Onward, IsLast
  <2> QED BY <1>6, <1>8, <2>4, <2>5 DEF Promise!Advance
<1> QED BY <1>1, <1>2, <1>3, <1>12, <1>13, BoundaryMoves

\* Recovery and reclaim give the task back.
LEMMA SettlePromised ==
    ASSUME IInv, NEW x \in Tasks, BySettle(x), runs' = runs, claims' = claims,
           \A t \in Tasks : t # x => task'[t] = task[t]
    PROVE  Promise!GiveBack(x)
<1>1. task[x] \in Rows /\ FlagsMatch(task[x]) BY DEF IInv, TypeOK, FlagsMatchStatus
<1>2. PICK seen \in Rows : /\ seen.status \in Executing /\ seen.status = task[x].status
                           /\ task'[x] = Settled(task[x], seen)
  BY DEF BySettle, SettleMatches
<1>3. task'[x].status \notin Executing BY <1>1, <1>2, SettledReleases
<1>4. Promise!Return(x) BY <1>1, <1>2, <1>3, Release
<1>5. /\ task'[x].step = task[x].step /\ EndOf(task'[x]) \in {"open", "terminated"}
  BY <1>1, <1>2, SettledMoves
<1>6. EndOf(task[x]) = "open" BY <1>2 DEF EndOf, Executing
<1>7. /\ PlaceOfTasks' = [PlaceOfTasks EXCEPT ![x] = task'[x].step]
      /\ EndOfTasks' = [EndOfTasks EXCEPT ![x] = EndOf(task'[x])]
  BY OthersStay
<1>8. PlaceOfTasks' = PlaceOfTasks BY <1>5, <1>7 DEF PlaceOfTasks
<1>9. EndOf(task'[x]) = "open" => EndOfTasks' = EndOfTasks BY <1>6, <1>7 DEF EndOfTasks
<1> QED BY <1>4, <1>5, <1>7, <1>8, <1>9 DEF Promise!GiveBack

\* What changes a row without a claim moves, ends or re-places a free task, or nothing that
\* is promised about.
LEMMA FreePromised ==
    ASSUME IInv, NEW x \in Tasks, ByRound(x) \/ ByUser(x) \/ ByClock(x),
           runs' = runs, claims' = claims,
           \A t \in Tasks : t # x => task'[t] = task[t]
    PROVE  \/ UNCHANGED Promise!vars
           \/ Promise!Skip(x) \/ Promise!Terminate(x)
           \/ \E s \in Promise!Places : Promise!Place(x, s)
<1>1. task[x] \in Rows /\ FlagsMatch(task[x]) BY DEF IInv, TypeOK, FlagsMatchStatus
<1>2. /\ PlaceOfTasks' = [PlaceOfTasks EXCEPT ![x] = task'[x].step]
      /\ HolderOfTasks' = [HolderOfTasks EXCEPT ![x] = Holder(task'[x])]
      /\ WorkOnTasks' = [WorkOnTasks EXCEPT ![x] = Worked(task'[x], runs'[x])]
      /\ EndOfTasks' = [EndOfTasks EXCEPT ![x] = EndOf(task'[x])]
  BY OthersStay
<1>3. /\ PlaceOfTasks[x] = task[x].step /\ HolderOfTasks[x] = Holder(task[x])
      /\ WorkOnTasks[x] = Worked(task[x], runs[x]) /\ EndOfTasks[x] = EndOf(task[x])
  BY DEF PlaceOfTasks, HolderOfTasks, WorkOnTasks, EndOfTasks
<1>4. ASSUME Holder(task'[x]) = Holder(task[x]),
             Worked(task'[x], runs[x]) = Worked(task[x], runs[x]),
             task'[x].step = task[x].step, EndOf(task'[x]) = EndOf(task[x])
      PROVE  UNCHANGED Promise!vars
  BY <1>4, Stutter
<1>5. ASSUME task[x].status \notin Executing, task'[x].status \notin Executing
      PROVE  /\ Holder(task[x]) = 0 /\ HolderOfTasks' = HolderOfTasks
             /\ WorkOnTasks' = WorkOnTasks
             /\ Holder(task'[x]) = Holder(task[x])
             /\ Worked(task'[x], runs[x]) = Worked(task[x], runs[x])
  BY <1>2, <1>5 DEF Holder, Worked, NoToken, HolderOfTasks, WorkOnTasks
<1>6. task'[x].step = task[x].step => PlaceOfTasks' = PlaceOfTasks
  BY <1>2 DEF PlaceOfTasks
<1>7. EndOf(task'[x]) = EndOf(task[x]) => EndOfTasks' = EndOfTasks
  BY <1>2 DEF EndOfTasks
<1>8. CASE task[x].status = "queued" /\ task'[x] = Skipped(task[x], LatestIsDegraded(runs[x]))
  <2>1. \/ /\ IsLast(task[x].step) /\ task'[x].step = task[x].step
           /\ task'[x].status \in {"completed", "partially_completed"}
        \/ /\ ~IsLast(task[x].step) /\ task'[x].step = task[x].step + 1
           /\ task'[x].status = "queued"
    BY <1>1, <1>8 DEF Skipped, FinalStatus, Rows
  <2>2. /\ task[x].status \notin Executing /\ task'[x].status \notin Executing
        /\ EndOf(task[x]) = "open"
    BY <1>8, <2>1 DEF Executing, EndOf
  <2>3. Promise!Free(x) BY <1>3, <1>5, <2>2 DEF Promise!Free
  <2>4. Promise!Onward(x)
    <3>1. CASE IsLast(task[x].step) /\ task'[x].step = task[x].step
               /\ task'[x].status \in {"completed", "partially_completed"}
      <4>1. EndOf(task'[x]) = "finished" BY <3>1 DEF EndOf
      <4> QED BY <1>2, <1>3, <1>6, <3>1, <4>1 DEF Promise!Onward, IsLast
    <3>2. CASE ~IsLast(task[x].step) /\ task'[x].step = task[x].step + 1
               /\ task'[x].status = "queued"
      <4>1. EndOf(task'[x]) = "open" BY <3>2 DEF EndOf
      <4> QED BY <1>2, <1>3, <1>7, <2>2, <3>2, <4>1 DEF Promise!Onward, IsLast
    <3> QED BY <2>1, <3>1, <3>2
  <2> QED BY <1>5, <2>2, <2>3, <2>4 DEF Promise!Skip
<1>9. CASE task[x].status = "failed" /\ task'[x] = Requeued(task[x])
  <2>1. task'[x].status = "queued" /\ task'[x].step = task[x].step
    BY <1>1, <1>9 DEF Requeued, Rows
  <2> QED BY <1>4, <1>5, <1>9, <2>1 DEF Executing, EndOf
<1>10. CASE ByUser(x)
  <2>1. PICK d \in Allowed : StillAsRead(task[x], d) /\ task'[x] = Decided(task[x], d)
    BY <1>10 DEF ByUser
  <2>2. /\ Holder(task'[x]) = Holder(task[x])
        /\ task[x].status \in Executing <=> task'[x].status \in Executing
    BY <1>1, <2>1, DecidedMoves
  <2>3. Worked(task'[x], runs[x]) = Worked(task[x], runs[x])
    BY <2>2 DEF Worked, Holder
  <2>4. CASE task'[x].step = task[x].step /\ EndOf(task'[x]) = EndOf(task[x])
    BY <1>4, <2>2, <2>3, <2>4
  <2>5. CASE /\ task[x].status \notin Executing /\ EndOf(task[x]) = "open"
             /\ task'[x].step = task[x].step /\ EndOf(task'[x]) = "terminated"
    BY <1>2, <1>3, <1>5, <1>6, <2>2, <2>5 DEF Promise!Terminate, Promise!Free
  <2>6. CASE /\ task[x].status \notin Executing /\ EndOf(task[x]) = "open"
             /\ task'[x].step \in Steps /\ EndOf(task'[x]) = "open"
    <3>1. Promise!Place(x, task'[x].step)
      BY <1>2, <1>3, <1>5, <1>7, <2>2, <2>6 DEF Promise!Place, Promise!Free
    <3> QED BY <2>6, <3>1 DEF Promise!Places, Steps
  <2> QED BY <1>1, <2>1, <2>4, <2>5, <2>6, DecidedMoves
<1>11. CASE ByClock(x)
  <2>1. /\ task'[x].step = task[x].step /\ task'[x].status = task[x].status
        /\ task'[x].token = task[x].token
    BY <1>1, <1>11, ClockMoves
  <2> QED BY <1>4, <2>1 DEF Holder, Worked, EndOf
<1> QED BY <1>8, <1>9, <1>10, <1>11 DEF ByRound

\* A run is begun once under a claim, by the job that holds it.
LEMMA RecordPromised ==
    ASSUME IInv, ExecInv, RunsInv, IInv', RunsInv', NEW k \in Tokens, JobRecord(k)
    PROVE  \E t \in Tasks : Promise!Begin(t)
<1> DEFINE x == job[k].task
<1>1. /\ x \in Tasks /\ task[x] \in Rows /\ runs \in [Tasks -> Seq(Runs)]
      /\ runs'[x] \in Seq(Runs)
  BY DEF IInv, TypeOK, JobRecord, Supports, JobsHaveTasks
<1>2. /\ task[x].status \in Executing /\ task[x].token = k
  BY DEF JobRecord, ExecInv, JobsHoldClaims, Live, Working
<1>3. /\ task' = task /\ claims' = claims
      /\ runs' = [runs EXCEPT ![x] = Append(runs[x], NewRun(k))]
  BY DEF JobRecord, NewRun
<1>4. \A i \in DOMAIN runs[x] : runs[x][i].token # k
  BY <1>1 DEF JobRecord, RunsInv, RunsAreUsed
<1>5. Worked(task[x], runs[x]) = "none"
  BY <1>2, <1>4 DEF Worked, Recorded
<1>6. Worked(task'[x], runs'[x]) = "begun"
  <2>1. runs'[x] = Append(runs[x], NewRun(k)) BY <1>1, <1>3
  <2>2. /\ Len(runs[x]) + 1 \in DOMAIN runs'[x]
        /\ runs'[x][Len(runs[x]) + 1] = NewRun(k)
    BY <1>1, <2>1
  <2>3. \A i, j \in DOMAIN runs'[x] : runs'[x][i].token = runs'[x][j].token => i = j
    BY <1>1 DEF RunsInv, OneRunEach
  <2>4. NewRun(k).token = k /\ NewRun(k).status = "running" BY DEF NewRun
  <2> DEFINE after == runs'[x]
             last == Len(runs[x]) + 1
  <2>5. /\ after \in Seq(Runs) /\ last \in DOMAIN after
        /\ after[last].token = task[x].token /\ after[last].status = "running"
        /\ \A i, j \in DOMAIN after : after[i].token = after[j].token => i = j
    BY <1>1, <1>2, <2>2, <2>3, <2>4
  <2> HIDE DEF after, last
  <2>6. Worked(task[x], after) = "begun"
    BY <1>1, <1>2, <2>5, WorkedBy
  <2> QED BY <1>3, <2>6 DEF after
<1>7. \A t \in Tasks : t # x => task'[t] = task[t] /\ runs'[t] = runs[t]
  BY <1>1, <1>3
<1>8. /\ PlaceOfTasks' = [PlaceOfTasks EXCEPT ![x] = task'[x].step]
      /\ HolderOfTasks' = [HolderOfTasks EXCEPT ![x] = Holder(task'[x])]
      /\ WorkOnTasks' = [WorkOnTasks EXCEPT ![x] = Worked(task'[x], runs'[x])]
      /\ EndOfTasks' = [EndOfTasks EXCEPT ![x] = EndOf(task'[x])]
  BY <1>1, <1>7, OthersStay
<1>9. PlaceOfTasks' = PlaceOfTasks /\ HolderOfTasks' = HolderOfTasks /\ EndOfTasks' = EndOfTasks
  BY <1>3 DEF PlaceOfTasks, HolderOfTasks, EndOfTasks
<1>10. HolderOfTasks[x] # 0 /\ WorkOnTasks[x] = "none"
  BY <1>1, <1>2, <1>5 DEF HolderOfTasks, WorkOnTasks, Holder, Tokens
<1>11. Promise!Begin(x)
  BY <1>3, <1>6, <1>8, <1>9, <1>10 DEF Promise!Begin
<1> QED BY <1>1, <1>11

\* It ends once, as a success or not.
LEMMA ReturnPromised ==
    ASSUME IInv, ExecInv, RunsInv, IInv', RunsInv', NEW k \in Tokens, Returned(k)
    PROVE  \E t \in Tasks : Promise!End(t)
<1> DEFINE x == job[k].task
           log == runs[x]
<1>1. PICK kind \in Returns(job[k].step) : JobReturn(k, kind) BY DEF Returned
<1>2. /\ x \in Tasks /\ task[x] \in Rows /\ runs \in [Tasks -> Seq(Runs)]
      /\ runs'[x] \in Seq(Runs)
  BY <1>1 DEF IInv, TypeOK, JobReturn, Supports, JobsHaveTasks
<1>3. /\ task[x].status \in Executing /\ task[x].token = k
  BY <1>1 DEF JobReturn, ExecInv, JobsHoldClaims, Live, Working
<1>4. /\ log # << >> /\ job[k].run = Len(log) /\ log[Len(log)].token = k
      /\ log[Len(log)].status = "running"
  BY <1>1 DEF JobReturn, RunsInv, RunningIsLast, LastRun
<1>5. Len(log) \in DOMAIN log /\ log[Len(log)] \in Runs BY <1>2, <1>4
<1>6. /\ task' = task /\ claims' = claims
      /\ runs' = [runs EXCEPT ![x] = [log EXCEPT ![Len(log)] =
                                        [log[Len(log)] EXCEPT !.status = RunResult(kind)]]]
  BY <1>1, <1>2, <1>4 DEF JobReturn
<1>7. /\ Len(log) \in DOMAIN runs'[x]
      /\ runs'[x][Len(log)] = [log[Len(log)] EXCEPT !.status = RunResult(kind)]
  BY <1>2, <1>5, <1>6
<1>8. /\ runs'[x][Len(log)].token = k /\ runs'[x][Len(log)].status = RunResult(kind)
  BY <1>4, <1>5, <1>7 DEF Runs
<1>9. RunResult(kind) # "running" BY DEF RunResult
<1>10. Worked(task[x], log) = "begun"
  <2>1. \A i, j \in DOMAIN log : log[i].token = log[j].token => i = j
    BY <1>2 DEF RunsInv, OneRunEach
  <2> QED BY <1>2, <1>3, <1>4, <1>5, <2>1, WorkedBy
<1>11. Worked(task'[x], runs'[x]) \in {"success", "else"}
  <2>1. \A i, j \in DOMAIN runs'[x] : runs'[x][i].token = runs'[x][j].token => i = j
    BY <1>2 DEF RunsInv, OneRunEach
  <2> DEFINE after == runs'[x]
             last == Len(log)
  <2>2. /\ after \in Seq(Runs) /\ last \in DOMAIN after
        /\ after[last].token = task[x].token /\ after[last].status # "running"
        /\ \A i, j \in DOMAIN after : after[i].token = after[j].token => i = j
    BY <1>2, <1>3, <1>7, <1>8, <1>9, <2>1
  <2> HIDE DEF after, last
  <2>3. Worked(task[x], after) \in {"success", "else"}
    BY <1>2, <1>3, <2>2, WorkedBy
  <2> QED BY <1>6, <2>3 DEF after
<1>12. \A t \in Tasks : t # x => task'[t] = task[t] /\ runs'[t] = runs[t]
  BY <1>2, <1>6
<1>13. WorkOnTasks' = [WorkOnTasks EXCEPT ![x] = Worked(task'[x], runs'[x])]
  BY <1>2, <1>12, OthersStay
<1>14. PlaceOfTasks' = PlaceOfTasks /\ HolderOfTasks' = HolderOfTasks /\ EndOfTasks' = EndOfTasks
  BY <1>6 DEF PlaceOfTasks, HolderOfTasks, EndOfTasks
<1>15. WorkOnTasks[x] = "begun" BY <1>2, <1>10 DEF WorkOnTasks
<1>16. Promise!End(x) BY <1>6, <1>11, <1>13, <1>14, <1>15 DEF Promise!End
<1> QED BY <1>2, <1>16

\* Closing the runs of a task nobody holds is not seen.
LEMMA ClosePromised ==
    ASSUME IInv, RunsInv, NEW p \in Procs, SettleClose(p)
    PROVE  UNCHANGED Promise!vars
<1>1. exec \in [Procs -> Threads] /\ runs \in [Tasks -> Seq(Runs)] BY DEF IInv, TypeOK
<1>2. /\ exec[p].cur \in Tasks /\ task[exec[p].cur].status \notin Executing
      /\ task' = task /\ claims' = claims
  BY <1>1 DEF SettleClose, RunsInv, ClosingReleased, Threads
<1>3. PICK log : runs' = [runs EXCEPT ![exec[p].cur] = log] BY DEF SettleClose
<1>4. \A t \in Tasks : t # exec[p].cur => runs'[t] = runs[t] BY <1>1, <1>3
<1>5. \A t \in Tasks : Worked(task'[t], runs'[t]) = Worked(task[t], runs[t])
  BY <1>2, <1>4 DEF Worked
<1> QED BY <1>2, <1>5, Stutter

\* Every step of the engine is a step of the promise, or none.
LEMMA StepPromised ==
    ASSUME IInv, ExecInv, RunsInv, IInv', RunsInv', [Next]_vars
    PROVE  [Promise!Next]_(Promise!vars)
<1>1. CASE runs' = runs /\ task' = task /\ claims' = claims
  BY <1>1, Stutter
<1>2. ASSUME NEW x \in Tasks, OneRow(x)
      PROVE  [Promise!Next]_(Promise!vars)
  <2>1. runs' = runs /\ \A t \in Tasks : t # x => task'[t] = task[t] BY <1>2 DEF OneRow
  <2>2. CASE ByClaim(x) BY <2>1, <2>2, ClaimTakes DEF Promise!Next, Promise!Step
  <2>3. CASE claims' = claims /\ BySettle(x)
    BY <2>1, <2>3, SettlePromised DEF Promise!Next, Promise!Step
  <2>4. CASE claims' = claims /\ ByFinish(x)
    BY <2>1, <2>4, FinishPromised DEF Promise!Next, Promise!Step
  <2>5. CASE claims' = claims /\ (ByRound(x) \/ ByUser(x) \/ ByClock(x))
    BY <2>1, <2>5, FreePromised DEF Promise!Next, Promise!Step
  <2> QED BY <1>2, <2>2, <2>3, <2>4, <2>5 DEF OneRow
<1>3. ASSUME NEW k \in Tokens, JobRecord(k) PROVE [Promise!Next]_(Promise!vars)
  BY <1>3, RecordPromised DEF Promise!Next, Promise!Step
<1>4. ASSUME NEW k \in Tokens, Returned(k) PROVE [Promise!Next]_(Promise!vars)
  BY <1>4, ReturnPromised DEF Promise!Next, Promise!Step
<1>5. ASSUME NEW p \in Procs, SettleClose(p) PROVE [Promise!Next]_(Promise!vars)
  BY <1>5, ClosePromised
<1> QED BY <1>1, <1>2, <1>3, <1>4, <1>5, OneRowSteps, RunChanges

\* New tasks are free, at the first step, with nothing done.
LEMMA InitPromised == Init => Promise!Init
<1> SUFFICES ASSUME Init PROVE Promise!Init OBVIOUS
<1>1. \A t \in Tasks : /\ task[t].step = 1 /\ task[t].status = "queued" /\ runs[t] = << >>
  BY DEF Init, NewRow
<1> QED BY <1>1
        DEF Init, Promise!Init, PlaceOfTasks, HolderOfTasks, WorkOnTasks, EndOfTasks, Holder,
            Worked, EndOf, Executing, NoToken

\* The engine keeps its promise, whatever the tasks, processes, users, workflow and bounds,
\* and whatever crashes, hangs, retries or races there are.
THEOREM PromiseKept == Spec => KeepsPromise
<1>1. Init => Promise!Init BY InitPromised
<1>2. /\ IInv /\ ExecInv /\ RunsInv
      /\ (IInv /\ ExecInv /\ RunsInv)'
      /\ [Next]_vars
      => [Promise!Next]_(Promise!vars)
  BY StepPromised
<1> QED BY <1>1, <1>2, RunsAlways, PTL DEF Spec, KeepsPromise, Promise!Spec
=============================================================================

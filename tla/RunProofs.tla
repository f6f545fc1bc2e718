----------------------------- MODULE RunProofs -----------------------------
(***************************************************************************)
(* Approvals, final statuses, repeated steps, what callers are offered and *)
(* what the scheduling thread guarantees, for any tasks, processes, users, *)
(* workflow and bounds.                                                    *)
(*                                                                         *)
(* Approvals.  The gate reads the grant in the row and counts the runs     *)
(* before it asks, and both are still what they were when the run is       *)
(* recorded or the ask is written, because a live job holds the claim of   *)
(* its task and only a job with the claim records runs of it.              *)
(*                                                                         *)
(* Repetition.  A step that opted out of retries is repeated only on a     *)
(* person's word.  The argument follows the word from the user's write to  *)
(* the next run: what stands between the last run of a task and its        *)
(* repetition is a row that rests for a person, a person's word, or a job  *)
(* that got the task by that word.                                         *)
(*                                                                         *)
(* Offers.  What a view offers for a row is what the row's rules accept,   *)
(* and a task that is not finished always has a way on.                    *)
(*                                                                         *)
(* Startup recovery leaves no task to a claim whose process is gone, if a  *)
(* settle has three tries.  The argument: recovery runs alone beside       *)
(* users, who can change what a settle compares twice at most; every task  *)
(* that executes is still on a list or being settled; and the list of the  *)
(* tasks to be paused is made when no task runs any more.                  *)
(*                                                                         *)
(* The rounds respect the quotas, if nobody forces a task to another step. *)
(* The argument: the load is counted in two queries, running tasks first,  *)
(* and a task can only leave the first for the second, so the sum is never *)
(* below the slots in use; a listed row still names the step of its task   *)
(* when it is claimed; and every claim adds to the load it takes.          *)
(***************************************************************************)
EXTENDS EngineProofs, UserView

---------------------------------------------------------------------------
(* The strengthening for the approvals.                                     *)

\* A grant, if it is one, is an approval of that step and attempt of that task.
Given(t, grant) ==
    grant.kind = "granted" => <<t, grant.step, grant.attempt>> \in approved

\* The grant in a row, and the one a job read from it, was given by a person.
GrantsGiven ==
    /\ \A t \in Tasks : Given(t, task[t].grant)
    /\ \A k \in Tokens : job[k].pc = "admit" => Given(job[k].task, job[k].grant)

\* The attempt that comes next for the step a job works on.
NextAttempt(k) == RunCount(job[k].task, job[k].step) + 1

\* What a job is about to record or to ask for is the attempt that comes next.
AttemptIsNext ==
    \A k \in Tokens :
        /\ job[k].pc = "start" => job[k].attempt = NextAttempt(k)
        /\ job[k].pc \in {"finish", "commit"} /\ job[k].out.kind = "ask" =>
              job[k].out.attempt = NextAttempt(k)

\* A step with side effects that is about to run was approved.
StartIsApproved ==
    \A k \in Tokens : job[k].pc = "start" /\ job[k].step \in SideEffects =>
        <<job[k].task, job[k].step, job[k].attempt>> \in approved

\* No recorded attempt is beyond the number of runs.
AttemptsBounded ==
    \A t \in Tasks : \A i \in DOMAIN runs[t] :
        runs[t][i].attempt <= RunCount(t, runs[t][i].step)

ApprovalInv ==
    /\ GrantsGiven /\ AttemptIsNext /\ StartIsApproved /\ AttemptsBounded
    /\ AskIsCurrent /\ EachRunApproved

---------------------------------------------------------------------------
(* Counting the runs of a step.                                             *)

\* What RunCount says of the log of a task.
CountIn(log, step) == Cardinality({i \in DOMAIN log : log[i].step = step})

\* It is what RunCount returns.
LEMMA CountIsRunCount ==
    ASSUME NEW t, NEW step
    PROVE  RunCount(t, step) = CountIn(runs[t], step)
BY DEF RunCount, CountIn

\* A log that keeps its runs keeps their number.
LEMMA CountKept ==
    ASSUME NEW t, NEW step, LogKept(t)
    PROVE  CountIn(runs'[t], step) = CountIn(runs[t], step)
<1>1. {i \in DOMAIN runs'[t] : runs'[t][i].step = step} =
        {i \in DOMAIN runs[t] : runs[t][i].step = step}
  BY DEF LogKept
<1> QED BY <1>1 DEF CountIn

\* A recorded run adds one to the runs of its step.
LEMMA CountRecorded ==
    ASSUME runs \in [Tasks -> Seq(Runs)], NEW t \in Tasks, NEW step, NEW run,
           runs'[t] = Append(runs[t], run)
    PROVE  CountIn(runs'[t], step) = CountIn(runs[t], step) + (IF run.step = step THEN 1 ELSE 0)
<1> DEFINE Old == {i \in DOMAIN runs[t] : runs[t][i].step = step}
           New == {i \in DOMAIN runs'[t] : runs'[t][i].step = step}
           n == Len(runs[t]) + 1
<1>1. runs[t] \in Seq(Runs) /\ Len(runs[t]) \in Nat OBVIOUS
<1>2. /\ DOMAIN runs[t] = 1 .. Len(runs[t]) /\ DOMAIN runs'[t] = 1 .. n
      /\ \A i \in 1 .. Len(runs[t]) : runs'[t][i] = runs[t][i]
      /\ runs'[t][n] = run
  BY <1>1
<1>3. 1 .. n = (1 .. Len(runs[t])) \cup {n} /\ n \notin 1 .. Len(runs[t]) BY <1>1
<1>4. IsFiniteSet(Old)
  <2>1. Old \subseteq 1 .. Len(runs[t]) BY <1>2
  <2>2. IsFiniteSet(1 .. Len(runs[t])) BY <1>1, FS_Interval
  <2> QED BY <2>1, <2>2, FS_Subset
<1>5. Cardinality(Old) \in Nat BY <1>4, FS_CardinalityType
<1>6. CountIn(runs[t], step) = Cardinality(Old) /\ CountIn(runs'[t], step) = Cardinality(New)
  BY DEF CountIn
<1>7. CASE run.step = step
  <2>1. New = Old \cup {n} BY <1>2, <1>3, <1>7
  <2>2. n \notin Old BY <1>2, <1>3
  <2>3. Cardinality(New) = Cardinality(Old) + 1 BY <1>4, <2>1, <2>2, FS_AddElement
  <2> QED BY <1>6, <1>7, <2>3
<1>8. CASE run.step # step
  <2>1. New = Old BY <1>2, <1>3, <1>8
  <2>2. Cardinality(New) = Cardinality(Old) BY <2>1
  <2> HIDE DEF Old, New
  <2> QED BY <1>5, <1>6, <1>8, <2>2
<1> QED BY <1>7, <1>8

\* Nobody records a run of a task that rests.
LEMMA RestingLog ==
    ASSUME IInv, ExecInv, [Next]_vars, NEW t \in Tasks, task[t].status \notin Executing
    PROVE  LogKept(t)
<1>1. TypeOK /\ runs \in [Tasks -> Seq(Runs)] BY DEF IInv, TypeOK
<1>2. CASE \A x \in Tasks : LogKept(x) BY <1>2
<1>3. ASSUME NEW k \in Tokens, JobRecord(k),
             runs' = [runs EXCEPT ![job[k].task] = Append(@, NewRun(k))]
      PROVE  LogKept(t)
  <2>1. job[k].pc \in Live BY <1>3 DEF JobRecord, Live, Working
  <2>2. job[k].task # t BY <2>1 DEF ExecInv, JobsHoldClaims
  <2>3. runs'[t] = runs[t] BY <1>1, <1>3, <2>2
  <2> QED BY <2>3 DEF LogKept
<1> QED BY <1>1, <1>2, <1>3, LogSteps

\* A step adds to the runs of a task only what the job that holds it records.
LEMMA LogGrows ==
    ASSUME IInv, [Next]_vars, NEW t \in Tasks
    PROVE  \/ LogKept(t)
           \/ \E k \in Tokens : /\ JobRecord(k) /\ job[k].task = t
                                /\ runs'[t] = Append(runs[t], NewRun(k))
<1>1. TypeOK /\ runs \in [Tasks -> Seq(Runs)] BY DEF IInv, TypeOK
<1>2. CASE \A x \in Tasks : LogKept(x) BY <1>2
<1>3. ASSUME NEW k \in Tokens, JobRecord(k),
             runs' = [runs EXCEPT ![job[k].task] = Append(@, NewRun(k))]
      PROVE  \/ LogKept(t)
             \/ /\ JobRecord(k) /\ job[k].task = t
                /\ runs'[t] = Append(runs[t], NewRun(k))
  <2>1. CASE job[k].task = t BY <1>1, <1>3, <2>1
  <2>2. CASE job[k].task # t
    <3>1. runs'[t] = runs[t] BY <1>1, <1>3, <2>2
    <3> QED BY <3>1 DEF LogKept
  <2> QED BY <2>1, <2>2
<1> QED BY <1>1, <1>2, <1>3, LogSteps

---------------------------------------------------------------------------
(* What the rules do to the grant of a row.                                 *)

\* A boundary leaves the grant or replaces it by an ask; it leaves a row awaiting
\* approval only with the ask it was given, on the step it decided for.
LEMMA BoundaryGrant ==
    ASSUME NEW row \in Rows, NEW seen \in Rows, NEW degraded,
           NEW out \in [kind : OutcomeKinds, attempt : Nat],
           NEW new, new = Boundary(row, seen, out, degraded)
    PROVE  /\ new.grant = row.grant \/ new.grant.kind = "asked"
           /\ new.status = "awaiting_approval" =>
                 /\ out.kind = "ask" /\ new.step = row.step
                 /\ new.grant = AskedValue(seen.step, out.attempt)
<1> USE DEF Rows, Released, Unlock
<1>1. CASE seen.term BY <1>1 DEF Boundary
<1>2. CASE ~seen.term /\ Succeeds(out)
  <2>1. new = BoundarySucceeded(row, seen, out, degraded) BY <1>2 DEF Boundary, Succeeds
  <2> QED BY <2>1 DEF BoundarySucceeded, PausedOr, FinalStatus
<1>3. CASE ~seen.term /\ out.kind = "denied" BY <1>3 DEF Boundary, Succeeds
<1>4. CASE ~seen.term /\ out.kind = "ask"
  BY <1>4 DEF Boundary, BoundaryAsked, Succeeds, AskedValue
<1>5. CASE ~seen.term /\ out.kind \in {"notready", "later"}
  BY <1>5 DEF Boundary, BoundaryDeferred, Succeeds
<1>6. CASE ~seen.term /\ out.kind \in {"failed", "fatal"}
  BY <1>6 DEF Boundary, BoundaryFailed, Succeeds
<1> QED BY <1>1, <1>2, <1>3, <1>4, <1>5, <1>6 DEF OutcomeKinds, Succeeds

\* Recovery, reclaim and rounds leave the grant.
LEMMA OthersKeepGrant ==
    ASSUME NEW row \in Rows, NEW seen \in Rows, NEW degraded, NEW token
    PROVE  /\ Settled(row, seen).grant = row.grant
           /\ Claimed(row, token).grant = row.grant
           /\ Skipped(row, degraded).grant = row.grant
           /\ Requeued(row).grant = row.grant
BY DEF Rows, Settled, Released, Unlock, Claimed, Skipped, Requeued

\* They leave no row awaiting approval.
LEMMA OthersAskNothing ==
    ASSUME NEW row \in Rows, NEW seen \in Rows, NEW degraded, NEW token
    PROVE  /\ Settled(row, seen).status # "awaiting_approval"
           /\ Claimed(row, token).status # "awaiting_approval"
           /\ row.status = "queued" => Skipped(row, degraded).status # "awaiting_approval"
           /\ Requeued(row).status # "awaiting_approval"
BY DEF Rows, Settled, Released, Unlock, Claimed, Skipped, Requeued, FinalStatus

\* A user action leaves the grant, withdraws it, or approves; and what awaits approval
\* after it did before, for the same ask.
LEMMA DecidedGrant ==
    ASSUME NEW row \in Rows, NEW d \in Allowed, StillAsRead(row, d),
           NEW new, new = Decided(row, d)
    PROVE  /\ \/ new.grant = row.grant
              \/ new.grant = NoGrant
              \/ d.act = "approve" /\ new.grant = GrantValue(d.step, d.arg)
           /\ new.status = "awaiting_approval" =>
                 /\ row.status = "awaiting_approval"
                 /\ new.step = row.step /\ new.grant = row.grant
<1> USE DEF Rows, StillAsRead, Decided
<1>1. PICK read \in Rows : Decides(d, read) BY DEF Allowed
<1>2. d \in Decisions BY DEF Allowed
<1>3. d.expect = read.status BY <1>1 DEF Decides
<1>4. CASE d.act \in {"pause", "terminate"} BY <1>4 DEF Executing
<1>5. CASE d.act \in {"resume", "retry", "approve", "reject"} BY <1>5 DEF Requeued
<1>6. CASE d.act \in {"wake", "set_step", "force_step"}
  <2>1. d.expect \in {"paused", "failed", "manual_required", "queued"}
    BY <1>1, <1>3, <1>6 DEF Decides
  <2> QED BY <1>6, <2>1
<1>7. CASE d.act = "set_retries" BY <1>7
<1> QED BY <1>2, <1>4, <1>5, <1>6, <1>7 DEF Decisions, UserActions

---------------------------------------------------------------------------
(* The strengthening is preserved.                                          *)

\* What a user does to the grant of a task is in the history.
LEMMA UserGrants ==
    ASSUME IInv, NEW u \in Users, NEW r \in request[u],
           UserWrites(u, r.task, r.decision), NEW t \in Tasks,
           task'[t].grant.kind = "granted"
    PROVE  \/ task'[t].grant = task[t].grant
           \/ <<t, task'[t].grant.step, task'[t].grant.attempt>> \in approved'
<1> DEFINE d == r.decision
<1>1. task \in [Tasks -> Rows] /\ r.task \in Tasks /\ d \in Allowed
  BY DEF IInv, TypeOK, Supports, RequestsAllowed
<1>2. CASE t # r.task \/ ~StillAsRead(task[t], d)
  <2>1. task'[t] = task[t] BY <1>1, <1>2 DEF UserWrites
  <2> QED BY <2>1
<1>3. CASE t = r.task /\ StillAsRead(task[t], d)
  <2>1. task'[t] = Decided(task[t], d) /\ task[t] \in Rows
    BY <1>1, <1>3 DEF UserWrites
  <2>2. CASE d.act = "approve" /\ task'[t].grant = GrantValue(d.step, d.arg)
    <3>1. <<t, d.step, d.arg>> \in approved' BY <1>3, <2>2 DEF UserWrites
    <3> QED BY <2>2, <3>1 DEF GrantValue
  <2>3. task'[t].grant # NoGrant BY DEF NoGrant
  <2> QED BY <1>1, <1>3, <2>1, <2>2, <2>3, DecidedGrant
<1> QED BY <1>2, <1>3

\* An approval stays one, and a task gets no grant but by an approval.
LEMMA GrantSteps ==
    ASSUME IInv, [Next]_vars
    PROVE  /\ approved \subseteq approved'
           /\ \A t \in Tasks : task'[t].grant.kind = "granted" =>
                 \/ task'[t].grant = task[t].grant
                 \/ <<t, task'[t].grant.step, task'[t].grant.attempt>> \in approved'
<1> DEFINE Kept(t) == task'[t].grant.kind = "granted" => task'[t].grant = task[t].grant
           Goal == /\ approved \subseteq approved'
                   /\ \A t \in Tasks : task'[t].grant.kind = "granted" =>
                         \/ task'[t].grant = task[t].grant
                         \/ <<t, task'[t].grant.step, task'[t].grant.attempt>> \in approved'
<1>1. /\ task \in [Tasks -> Rows] /\ exec \in [Procs -> Threads] /\ job \in [Tokens -> Jobs]
      /\ Supports
  BY DEF IInv, TypeOK
<1>2. ASSUME approved' = approved, task' = task PROVE Goal
  BY <1>2
<1>3. ASSUME NEW x \in Tasks, NEW row, task' = [task EXCEPT ![x] = row], approved' = approved,
             row.grant = task[x].grant \/ row.grant.kind # "granted"
      PROVE  Goal
  <2>1. \A t \in Tasks : Kept(t) BY <1>1, <1>3
  <2> QED BY <1>3, <2>1
<1>4. ASSUME NEW p \in Procs, SettleWrite(p), task' # task PROVE Goal
  <2>1. exec[p].cur \in Tasks /\ exec[p].seen \in Rows /\ approved' = approved
    BY <1>1, <1>4 DEF SettleWrite, Threads, history
  <2>2. task' = [task EXCEPT ![exec[p].cur] = Settled(task[exec[p].cur], exec[p].seen)]
    BY <1>4 DEF SettleWrite
  <2> QED BY <1>1, <1>3, <2>1, <2>2, OthersKeepGrant
<1>5. ASSUME NEW p \in Procs, NEW e \in exec[p].todo,
             RequeueFailed(p, e) \/ SkipStep(p, e) \/ Claim(p, e)
      PROVE  Goal
  <2>1. e.id \in Tasks /\ task[e.id] \in Rows /\ approved' = approved
    BY <1>1, <1>5 DEF Threads, RequeueFailed, SkipStep, Claim, history
  <2>2. PICK row : /\ task' = [task EXCEPT ![e.id] = row]
                   /\ \/ row = task[e.id] \/ row = Requeued(task[e.id])
                      \/ row = Skipped(task[e.id], LatestIsDegraded(runs[e.id]))
                      \/ row = Claimed(task[e.id], claims + 1)
    BY <1>5 DEF RequeueFailed, SkipStep, Claim
  <2>3. row.grant = task[e.id].grant BY SMTT(30), <2>1, <2>2, OthersKeepGrant
  <2> QED BY <1>3, <2>1, <2>2, <2>3
<1>6. ASSUME NEW k \in Tokens, FinishWrite(k), task' # task PROVE Goal
  <2> DEFINE x == job[k].task
  <2>1. x \in Tasks /\ job[k].seen \in Rows /\ job[k].out \in Outcomes /\ approved' = approved
    BY <1>1, <1>6 DEF FinishWrite, Supports, JobsHaveTasks, Jobs
  <2>2. task' = [task EXCEPT ![x] = Boundary(task[x], job[k].seen, job[k].out,
                                             LatestIsDegraded(runs[x]))]
    BY <1>6 DEF FinishWrite
  <2> DEFINE row == Boundary(task[x], job[k].seen, job[k].out, LatestIsDegraded(runs[x]))
  <2>3. row.grant = task[x].grant \/ row.grant.kind = "asked"
    BY <1>1, <2>1, BoundaryGrant DEF Outcomes, OutcomeKinds
  <2> HIDE DEF row
  <2>4. task' = [task EXCEPT ![x] = row] BY <2>2 DEF row
  <2> QED BY <1>3, <2>1, <2>3, <2>4
<1>7. ASSUME NEW k \in Tokens, Heartbeat(k) PROVE Goal
  <2>1. job[k].task \in Tasks /\ approved' = approved
    BY <1>7 DEF Heartbeat, Supports, IInv, JobsHaveTasks, history
  <2>2. task' = [task EXCEPT ![job[k].task] = [task[job[k].task] EXCEPT !.beat = "new"]]
    BY <1>1, <1>7 DEF Heartbeat
  <2> QED BY <1>1, <1>3, <2>1, <2>2 DEF Rows
<1>8. ASSUME NEW x \in Tasks, DelayEnds(x) \/ HeartbeatAges(x) PROVE Goal
  <2>1. PICK row : /\ task' = [task EXCEPT ![x] = row] /\ approved' = approved
                   /\ \/ row = [task[x] EXCEPT !.due = "past"]
                      \/ row = [task[x] EXCEPT !.beat = "old"]
    BY <1>1, <1>8 DEF DelayEnds, HeartbeatAges, history
  <2>2. row.grant = task[x].grant BY <1>1, <2>1 DEF Rows
  <2> QED BY <1>3, <2>1, <2>2
<1>9. ASSUME NEW u \in Users, Command(u) PROVE Goal
  <2>1. CASE \E t \in Tasks : UserReads(u, t)
    BY <1>2, <2>1 DEF UserReads, tables, history
  <2>2. ASSUME NEW r \in request[u], UserWrites(u, r.task, r.decision) PROVE Goal
    <3>1. approved \subseteq approved' BY <2>2 DEF UserWrites
    <3> QED BY <2>2, <3>1, UserGrants
  <2> QED BY <1>9, <2>1, <2>2 DEF Command
<1>10. CASE Next
  <2>1. CASE \E p \in Procs : AcquireLock(p) \/ Recovery(p) \/ ReleaseLock(p) \/ Upset(p)
    BY <1>2, <2>1
       DEF AcquireLock, Recovery, ListRunning, ListPausing, ReleaseLock, Upset, RequestStop,
           Crash, RoundFails, RecoveryFails, tables, history
  <2>2. CASE \E p \in Procs : Settle(p)
    BY <1>2, <1>4, <2>2
       DEF Settle, ReclaimSkip, SettleBegin, SettleAgain, SettleWrite, SettleClose, tables,
           history
  <2>3. CASE \E p \in Procs : Round(p)
    BY <1>2, <1>5, <2>3
       DEF Round, ListStale, ListDueFailed, CountRunning, CountPausing, ListQueued, PassOver,
           ClaimBeyondBound, tables, history
  <2>4. ASSUME NEW k \in Tokens, Work(k) \/ Heartbeat(k) \/ JobRaises(k) PROVE Goal
    <3>1. CASE JobStart(k) \/ JobAdmit(k) \/ FinishRead(k) \/ JobRaises(k)
      BY <1>2, <3>1 DEF JobStart, JobAdmit, FinishRead, JobRaises, tables, history
    <3>2. CASE JobRecord(k) \/ \E kind \in Returns(job[k].step) : JobReturn(k, kind)
      BY <1>2, <3>2 DEF JobRecord, JobReturn, history
    <3>3. CASE FinishWrite(k) BY <1>2, <1>6, <3>3 DEF FinishWrite
    <3> QED BY <1>7, <2>4, <3>1, <3>2, <3>3 DEF Work
  <2> QED BY <1>8, <1>9, <1>10, <2>1, <2>2, <2>3, <2>4 DEF Next, Schedule, Clock
<1> QED BY <1>2, <1>10 DEF vars

\* Grants in rows and in jobs remain approvals.
LEMMA GrantsGivenNext ==
    ASSUME IInv, GrantsGiven, [Next]_vars
    PROVE  GrantsGiven'
<1>1. /\ task \in [Tasks -> Rows] /\ job \in [Tokens -> Jobs] /\ TypeOK /\ Supports
  BY DEF IInv, TypeOK
<1>2. approved \subseteq approved' BY GrantSteps
<1>3. ASSUME NEW t \in Tasks PROVE Given(t, task[t].grant)'
  BY <1>2, GrantSteps DEF GrantsGiven, Given
<1>4. ASSUME NEW k \in Tokens, job'[k].pc = "admit"
      PROVE  Given(job[k].task, job[k].grant)'
  <2>1. JobChange(k) BY <1>1, JobChanges
  <2>2. CASE job'[k] = job[k]
    BY <1>2, <1>4, <2>2 DEF GrantsGiven, Given
  <2>3. CASE JobStart(k)
    <3>1. job'[k].task = job[k].task /\ job'[k].grant = task[job[k].task].grant
      BY <1>1, <1>4, <2>3 DEF JobStart, Ended, Job, Jobs
    <3>2. job[k].task \in Tasks BY <1>1, <2>3 DEF JobStart, Supports, JobsHaveTasks
    <3> QED BY <1>2, <3>1, <3>2 DEF GrantsGiven, Given
  <2>4. CASE JobAdmit(k) BY <1>1, <1>4, <2>4 DEF JobAdmit, Jobs
  <2>5. CASE JobRecord(k) BY <1>1, <1>4, <2>5 DEF JobRecord, Jobs
  <2>6. CASE Returned(k) BY <1>1, <1>4, <2>6 DEF Returned, JobReturn, Jobs
  <2>7. CASE FinishRead(k) \/ FinishWrite(k) BY <1>1, <1>4, <2>7, FinishSteps
  <2> QED BY <1>4, <2>1, <2>2, <2>3, <2>4, <2>5, <2>6, <2>7 DEF JobChange, JobWork
<1> QED BY <1>3, <1>4 DEF GrantsGiven

\* The number of runs a job counted is the number there is, until the job itself records.
LEMMA AttemptIsNextNext ==
    ASSUME IInv, ExecInv, RunsInv, AttemptIsNext, [Next]_vars
    PROVE  AttemptIsNext'
<1>1. job \in [Tokens -> Jobs] /\ runs \in [Tasks -> Seq(Runs)] /\ TypeOK
  BY DEF IInv, TypeOK
<1> SUFFICES ASSUME NEW k \in Tokens
             PROVE  /\ job'[k].pc = "start" => job'[k].attempt = NextAttempt(k)'
                    /\ job'[k].pc \in {"finish", "commit"} /\ job'[k].out.kind = "ask" =>
                          job'[k].out.attempt = NextAttempt(k)'
  BY DEF AttemptIsNext
<1>2. JobChange(k) BY <1>1, JobChanges
<1>3. ASSUME job[k].pc \in Live, ~JobRecord(k), ~Returned(k),
             job'[k].task = job[k].task, job'[k].step = job[k].step
      PROVE  NextAttempt(k)' = NextAttempt(k)
  <2>1. runs'[job[k].task] = runs[job[k].task] BY <1>3, OwnLog
  <2> QED BY <1>3, <2>1 DEF NextAttempt, RunCount
<1>4. CASE job'[k] = job[k]
  <2>1. CASE job[k].pc \in {"start", "finish", "commit"}
    <3>1. ~JobRecord(k) /\ ~Returned(k)
      <4>1. CASE JobRecord(k)
        <5>1. job'[k].pc = "run" /\ job[k].pc = "start" BY <1>1, <4>1 DEF JobRecord, Jobs
        <5> QED BY <1>4, <5>1
      <4>2. CASE Returned(k) BY <2>1, <4>2 DEF Returned, JobReturn
      <4> QED BY <4>1, <4>2
    <3> QED BY <1>3, <1>4, <2>1, <3>1 DEF AttemptIsNext, Live, Working
  <2> QED BY <1>4, <2>1
<1>5. CASE JobStart(k)
  <2>1. job[k].pc = "queued" /\ job'[k].pc \in {"done", "finish", "admit"}
    BY <1>1, <1>5 DEF JobStart, Ended, Job, Jobs
  <2>2. job'[k].out.kind = "notready"
    BY <1>1, <1>5, <2>1 DEF JobStart, Ended, Job, Jobs, RunsInv, NoEarlyOutcome, NoOutcome
  <2> QED BY <2>1, <2>2
<1>6. CASE JobAdmit(k)
  <2>1. /\ job[k].pc \in Live /\ job'[k].task = job[k].task /\ job'[k].step = job[k].step
        /\ \/ job'[k].pc = "start" /\ job'[k].attempt = NextAttempt(k)
           \/ job'[k].pc = "finish" /\ job'[k].out.attempt = NextAttempt(k)
    BY <1>1, <1>6 DEF JobAdmit, Jobs, Live, Working, NextAttempt
  <2>2. ~JobRecord(k) /\ ~Returned(k) BY <1>6 DEF JobAdmit, JobRecord, Returned, JobReturn
  <2> QED BY <1>3, <2>1, <2>2
<1>7. CASE JobRecord(k) BY <1>1, <1>7 DEF JobRecord, Jobs
<1>8. CASE Returned(k)
  <2>1. job'[k].pc = "finish" /\ job'[k].out.kind # "ask"
    BY <1>1, <1>8 DEF Returned, JobReturn, Jobs, Returns
  <2> QED BY <2>1
<1>9. CASE FinishRead(k) \/ FinishWrite(k)
  <2>1. ~JobRecord(k) /\ ~Returned(k) /\ job[k].pc \in Live
    BY <1>9 DEF FinishRead, FinishWrite, JobRecord, Returned, JobReturn, Live, Working
  <2> QED BY <1>1, <1>3, <1>9, <2>1, FinishSteps DEF AttemptIsNext
<1> QED BY <1>2, <1>4, <1>5, <1>6, <1>7, <1>8, <1>9 DEF JobChange, JobWork

\* A job is admitted to a step with side effects only with the grant of that attempt.
LEMMA StartIsApprovedNext ==
    ASSUME IInv, GrantsGiven, StartIsApproved, [Next]_vars
    PROVE  StartIsApproved'
<1>1. job \in [Tokens -> Jobs] /\ TypeOK BY DEF IInv, TypeOK
<1>2. approved \subseteq approved' BY GrantSteps
<1> SUFFICES ASSUME NEW k \in Tokens, job'[k].pc = "start", job'[k].step \in SideEffects
             PROVE  <<job'[k].task, job'[k].step, job'[k].attempt>> \in approved'
  BY DEF StartIsApproved
<1>3. JobChange(k) BY <1>1, JobChanges
<1>4. CASE job'[k] = job[k] BY <1>2, <1>4 DEF StartIsApproved
<1>5. CASE JobAdmit(k)
  <2> DEFINE attempt == RunCount(job[k].task, job[k].step) + 1
             granted == job[k].grant = GrantValue(job[k].step, attempt)
  <2>1. /\ job'[k].task = job[k].task /\ job'[k].step = job[k].step
        /\ job'[k].attempt = attempt /\ job[k].pc = "admit"
        /\ "allow" \in GateAnswers(job[k].step, granted)
    BY <1>1, <1>5 DEF JobAdmit, Jobs
  <2>2. granted BY <2>1 DEF GateAnswers
  <2>3. <<job[k].task, job[k].step, attempt>> \in approved
    BY <2>1, <2>2 DEF GrantsGiven, Given, GrantValue
  <2> QED BY <1>2, <2>1, <2>3
<1>6. CASE JobStart(k) BY SMTT(30), <1>1, <1>6 DEF JobStart, Ended, Job, Jobs
<1>7. CASE JobRecord(k) BY <1>1, <1>7 DEF JobRecord, Jobs
<1>8. CASE Returned(k) BY <1>1, <1>8 DEF Returned, JobReturn, Jobs
<1>9. CASE FinishRead(k) \/ FinishWrite(k) BY <1>1, <1>9, FinishSteps
<1> QED BY <1>3, <1>4, <1>5, <1>6, <1>7, <1>8, <1>9 DEF JobChange, JobWork

\* The run a step adds, if any, is of the next attempt.
LEMMA AttemptsBoundedNext ==
    ASSUME IInv, AttemptIsNext, AttemptsBounded, [Next]_vars
    PROVE  AttemptsBounded'
<1>1. /\ runs \in [Tasks -> Seq(Runs)] /\ runs' \in [Tasks -> Seq(Runs)]
      /\ job \in [Tokens -> Jobs]
  BY InvNext DEF IInv, TypeOK
<1> SUFFICES ASSUME NEW t \in Tasks, NEW i \in DOMAIN runs'[t]
             PROVE  runs'[t][i].attempt <= CountIn(runs'[t], runs'[t][i].step)
  BY DEF AttemptsBounded, RunCount, CountIn
<1>2. CASE LogKept(t)
  <2>1. /\ i \in DOMAIN runs[t] /\ runs'[t][i].step = runs[t][i].step
        /\ runs'[t][i].attempt = runs[t][i].attempt
    BY <1>2 DEF LogKept
  <2>2. CountIn(runs'[t], runs[t][i].step) = RunCount(t, runs[t][i].step)
    BY <1>2, CountKept, CountIsRunCount
  <2> QED BY <2>1, <2>2 DEF AttemptsBounded
<1>3. ASSUME NEW k \in Tokens, JobRecord(k), job[k].task = t,
             runs'[t] = Append(runs[t], NewRun(k))
      PROVE  runs'[t][i].attempt <= CountIn(runs'[t], runs'[t][i].step)
  <2>1. \A s : /\ CountIn(runs'[t], s) = CountIn(runs[t], s)
                                           + (IF NewRun(k).step = s THEN 1 ELSE 0)
               /\ CountIn(runs[t], s) = RunCount(t, s) /\ RunCount(t, s) \in Nat
    BY ZenonT(30), <1>1, <1>3, CountRecorded, RunCountType, CountIsRunCount
  <2>2. CASE i \in DOMAIN runs[t]
    <3>1. runs'[t][i] = runs[t][i] BY <1>1, <1>3, <2>2
    <3>2. runs[t][i].attempt <= RunCount(t, runs[t][i].step) BY <2>2 DEF AttemptsBounded
    <3>3. runs[t][i] \in Runs BY <1>1, <2>2
    <3>4. runs[t][i].attempt \in Nat BY <3>3 DEF Runs
    <3> QED BY <2>1, <3>1, <3>2, <3>4
  <2>3. CASE i \notin DOMAIN runs[t]
    <3>1. runs'[t][i] = NewRun(k) BY <1>1, <1>3, <2>3
    <3>2. NewRun(k).attempt = RunCount(t, NewRun(k).step) + 1
      BY <1>3 DEF NewRun, JobRecord, AttemptIsNext, NextAttempt
    <3> QED BY <2>1, <3>1, <3>2
  <2> QED BY <2>2, <2>3
<1> QED BY <1>2, <1>3, LogGrows

\* A run of a step with side effects is added only for an approved attempt, and no run
\* before it was of that attempt.
LEMMA EachRunApprovedNext ==
    ASSUME IInv, AttemptIsNext, StartIsApproved, AttemptsBounded, EachRunApproved, [Next]_vars
    PROVE  EachRunApproved'
<1>1. runs \in [Tasks -> Seq(Runs)] /\ job \in [Tokens -> Jobs] BY DEF IInv, TypeOK
<1>2. approved \subseteq approved' BY GrantSteps
<1> SUFFICES ASSUME NEW t \in Tasks, NEW i \in DOMAIN runs'[t],
                    runs'[t][i].step \in SideEffects
             PROVE  /\ <<t, runs'[t][i].step, runs'[t][i].attempt>> \in approved'
                    /\ \A j \in DOMAIN runs'[t] :
                          /\ runs'[t][j].step = runs'[t][i].step
                          /\ runs'[t][j].attempt = runs'[t][i].attempt
                          => i = j
  BY DEF EachRunApproved
<1>3. CASE LogKept(t) BY <1>2, <1>3 DEF LogKept, EachRunApproved
<1>4. ASSUME NEW k \in Tokens, JobRecord(k), job[k].task = t,
             runs'[t] = Append(runs[t], NewRun(k))
      PROVE  /\ <<t, runs'[t][i].step, runs'[t][i].attempt>> \in approved'
             /\ \A j \in DOMAIN runs'[t] :
                   /\ runs'[t][j].step = runs'[t][i].step
                   /\ runs'[t][j].attempt = runs'[t][i].attempt
                   => i = j
  <2> DEFINE n == Len(runs[t]) + 1
             run == NewRun(k)
  <2>1. /\ runs[t] \in Seq(Runs) /\ DOMAIN runs'[t] = DOMAIN runs[t] \cup {n}
        /\ runs'[t][n] = run
        /\ \A j \in DOMAIN runs[t] : runs'[t][j] = runs[t][j] /\ runs[t][j].attempt \in Nat
    <3>1. runs[t] \in Seq(Runs) BY <1>1
    <3>2. \A j \in DOMAIN runs[t] : runs[t][j] \in Runs BY <3>1
    <3>3. \A j \in DOMAIN runs[t] : runs[t][j].attempt \in Nat BY <3>2 DEF Runs
    <3> QED BY <1>4, <3>1, <3>3
  <2>2. run.attempt = RunCount(t, run.step) + 1 /\ RunCount(t, run.step) \in Nat
    BY <1>1, <1>4, RunCountType DEF NewRun, JobRecord, AttemptIsNext, NextAttempt
  <2>3. \A j \in DOMAIN runs[t] : runs[t][j].step = run.step => runs[t][j].attempt # run.attempt
    <3> SUFFICES ASSUME NEW j \in DOMAIN runs[t], runs[t][j].step = run.step
                 PROVE  runs[t][j].attempt # run.attempt
      OBVIOUS
    <3>1. runs[t][j].attempt <= RunCount(t, run.step) BY DEF AttemptsBounded
    <3> QED BY <2>1, <2>2, <3>1
  <2>4. CASE i \in DOMAIN runs[t]
    <3>1. runs[t][i].step \in SideEffects BY <2>1, <2>4
    <3> QED BY <1>2, <2>1, <2>3, <2>4, <3>1 DEF EachRunApproved
  <2>5. CASE i = n
    <3>1. <<t, run.step, run.attempt>> \in approved
      BY <1>4, <2>1, <2>5 DEF NewRun, JobRecord, StartIsApproved
    <3> QED BY <1>2, <2>1, <2>3, <2>5, <3>1
  <2> QED BY <2>1, <2>4, <2>5
<1> QED BY <1>3, <1>4, LogGrows

\* A task comes to await approval only with the ask of the attempt that comes next, and
\* while it does nothing runs.
LEMMA AskIsCurrentNext ==
    ASSUME IInv, ExecInv, RunsInv, AttemptIsNext, AskIsCurrent, [Next]_vars
    PROVE  AskIsCurrent'
<1>1. task \in [Tasks -> Rows] /\ job \in [Tokens -> Jobs] BY DEF IInv, TypeOK
<1> SUFFICES ASSUME NEW t \in Tasks, task'[t].status = "awaiting_approval"
             PROVE  task'[t].grant =
                      AskedValue(task'[t].step, CountIn(runs'[t], task'[t].step) + 1)
  BY DEF AskIsCurrent, RunCount, CountIn
<1>2. ASSUME task[t].status = "awaiting_approval", task'[t].step = task[t].step,
             task'[t].grant = task[t].grant
      PROVE  task'[t].grant = AskedValue(task'[t].step, CountIn(runs'[t], task'[t].step) + 1)
  <2>1. LogKept(t) BY <1>2, RestingLog DEF Executing
  <2>2. CountIn(runs'[t], task[t].step) = RunCount(t, task[t].step)
    BY <2>1, CountKept, CountIsRunCount
  <2> QED BY <1>2, <2>2 DEF AskIsCurrent
<1>3. CASE task'[t] = task[t] BY <1>2, <1>3
<1>4. ASSUME OneRow(t)
      PROVE  task'[t].grant = AskedValue(task'[t].step, CountIn(runs'[t], task'[t].step) + 1)
  <2>1. CASE BySettle(t) BY <1>1, <2>1, OthersAskNothing DEF BySettle
  <2>2. CASE ByFinish(t)
    <3>1. PICK k \in Tokens :
            /\ job[k].pc = "commit" /\ job[k].task = t
            /\ task'[t] = Boundary(task[t], job[k].seen, job[k].out, LatestIsDegraded(runs[t]))
      BY <2>2 DEF ByFinish
    <3>2. job[k].seen \in Rows /\ job[k].out \in [kind : OutcomeKinds, attempt : Nat]
      BY <1>1 DEF Jobs, Outcomes, OutcomeKinds
    <3>3. /\ job[k].out.kind = "ask" /\ task'[t].step = task[t].step
          /\ task'[t].grant = AskedValue(job[k].seen.step, job[k].out.attempt)
      BY <1>1, <3>1, <3>2, BoundaryGrant
    <3>4. job[k].seen.step = task[t].step /\ job[k].step = task[t].step
      BY <3>1 DEF RunsInv, StepHeld, Working
    <3>5. job[k].out.attempt = RunCount(t, task[t].step) + 1
      BY <3>1, <3>3, <3>4 DEF AttemptIsNext, NextAttempt
    <3>6. CountIn(runs'[t], task[t].step) = RunCount(t, task[t].step)
      BY <1>4, CountIsRunCount DEF OneRow
    <3> QED BY <3>3, <3>4, <3>5, <3>6
  <2>3. CASE ByRound(t) BY <1>1, <2>3, OthersAskNothing DEF ByRound
  <2>4. CASE ByClaim(t) BY <1>1, <2>4, OthersAskNothing DEF ByClaim
  <2>5. CASE ByUser(t)
    <3>1. PICK d \in Allowed : StillAsRead(task[t], d) /\ task'[t] = Decided(task[t], d)
      BY <2>5 DEF ByUser
    <3> QED BY <1>1, <1>2, <3>1, DecidedGrant
  <2>6. CASE ByClock(t) BY <1>1, <1>2, <2>6 DEF ByClock, Rows
  <2> QED BY <1>4, <2>1, <2>2, <2>3, <2>4, <2>5, <2>6 DEF OneRow
<1>5. task' = task \/ \E x \in Tasks : OneRow(x) BY OneRowSteps
<1>6. ASSUME NEW x \in Tasks, x # t, OneRow(x) PROVE task'[t] = task[t]
  BY <1>6 DEF OneRow
<1> QED BY <1>3, <1>4, <1>5, <1>6

---------------------------------------------------------------------------
(* The theorems.                                                            *)

\* There is nothing to approve at the start.
LEMMA ApprovalInit == Init => ApprovalInv
<1> SUFFICES ASSUME Init PROVE ApprovalInv OBVIOUS
<1>1. /\ \A k \in Tokens : job[k].pc = "none"
      /\ \A t \in Tasks : runs[t] = << >>
      /\ \A t \in Tasks : task[t].status = "queued" /\ task[t].grant.kind = "null"
  BY DEF Init, Job, NewRow, NoGrant
<1> QED BY <1>1
        DEF ApprovalInv, GrantsGiven, Given, AttemptIsNext, StartIsApproved, AttemptsBounded,
            AskIsCurrent, EachRunApproved

\* The invariants always hold.
LEMMA ApprovalAlways == Spec => []ApprovalInv
<1>1. IInv /\ ExecInv /\ RunsInv /\ ApprovalInv /\ [Next]_vars => ApprovalInv'
  BY GrantsGivenNext, AttemptIsNextNext, StartIsApprovedNext, AttemptsBoundedNext,
     EachRunApprovedNext, AskIsCurrentNext DEF ApprovalInv
<1> QED BY <1>1, ApprovalInit, RunsAlways, PTL DEF Spec

\* A step with side effects never runs in an attempt no person approved, whatever users
\* force and processes die between the ask, the approval and the run.
THEOREM ApprovalCorrect == Spec => []EachRunApproved
<1>1. ApprovalInv => EachRunApproved BY DEF ApprovalInv
<1> QED BY <1>1, ApprovalAlways, PTL

\* An ask is never out of date: who approves a task approves what would run next.
THEOREM AskCorrect == Spec => []AskIsCurrent
<1>1. ApprovalInv => AskIsCurrent BY DEF ApprovalInv
<1> QED BY <1>1, ApprovalAlways, PTL

---------------------------------------------------------------------------
(* Final statuses.                                                          *)

\* A boundary ends a task as completed or not by the runs so far and the one reported.
LEMMA BoundaryEnds ==
    ASSUME NEW row \in Rows, NEW seen \in Rows, NEW degraded \in BOOLEAN,
           NEW out \in [kind : OutcomeKinds, attempt : Nat],
           NEW new, new = Boundary(row, seen, out, degraded)
    PROVE  /\ new.status = "completed" =>
                 Succeeds(out) /\ out.kind # "degraded" /\ ~degraded
           /\ new.status = "partially_completed" =>
                 Succeeds(out) /\ (out.kind = "degraded" \/ degraded)
<1> USE DEF Rows, Released, Unlock
<1>1. CASE seen.term BY <1>1 DEF Boundary
<1>2. CASE ~seen.term /\ Succeeds(out)
  <2>1. new = BoundarySucceeded(row, seen, out, degraded) BY <1>2 DEF Boundary, Succeeds
  <2> QED BY <1>2, <2>1 DEF BoundarySucceeded, PausedOr, FinalStatus
<1>3. CASE ~seen.term /\ out.kind = "denied" BY <1>3 DEF Boundary, Succeeds
<1>4. CASE ~seen.term /\ out.kind = "ask"
  BY <1>4 DEF Boundary, BoundaryAsked, Succeeds
<1>5. CASE ~seen.term /\ out.kind \in {"notready", "later"}
  BY <1>5 DEF Boundary, BoundaryDeferred, Succeeds
<1>6. CASE ~seen.term /\ out.kind \in {"failed", "fatal"}
  BY <1>6 DEF Boundary, BoundaryFailed, Succeeds
<1> QED BY <1>1, <1>2, <1>3, <1>4, <1>5, <1>6 DEF OutcomeKinds, Succeeds

\* A skip ends one by the runs so far; nobody else ends one so.
LEMMA OthersEnd ==
    ASSUME NEW row \in Rows, NEW seen \in Rows, NEW degraded \in BOOLEAN, NEW token
    PROVE  /\ Settled(row, seen).status \notin {"completed", "partially_completed"}
           /\ Claimed(row, token).status \notin {"completed", "partially_completed"}
           /\ Requeued(row).status \notin {"completed", "partially_completed"}
           /\ row.status = "queued" =>
                 /\ Skipped(row, degraded).status = "completed" => ~degraded
                 /\ Skipped(row, degraded).status = "partially_completed" => degraded
BY DEF Rows, Settled, Released, Unlock, Claimed, Skipped, Requeued, FinalStatus

\* A user ends no task as completed, and reopens none.
LEMMA DecidedEnds ==
    ASSUME NEW row \in Rows, NEW d \in Allowed, StillAsRead(row, d),
           Decided(row, d).status \in {"completed", "partially_completed"}
    PROVE  Decided(row, d).status = row.status
<1> USE DEF Rows, StillAsRead, Decided
<1>1. d \in Decisions BY DEF Allowed
<1>2. CASE d.act \in {"pause", "terminate"} BY <1>2
<1>3. CASE d.act \in {"resume", "retry", "approve", "reject"} BY <1>3 DEF Requeued
<1>4. CASE d.act \in {"wake", "set_step", "force_step"} BY <1>4
<1>5. CASE d.act = "set_retries" BY <1>5
<1> QED BY <1>1, <1>2, <1>3, <1>4, <1>5 DEF Decisions, UserActions

\* Closing the runs that hang makes none of them degraded.
LEMMA ClosedKeepsDegraded ==
    ASSUME NEW log \in Seq(Runs), NEW closed,
           closed = [i \in DOMAIN log |-> IF log[i].status = "running"
                                          THEN [log[i] EXCEPT !.status = "interrupted"] ELSE log[i]]
    PROVE  LatestIsDegraded(closed) = LatestIsDegraded(log)
<1>1. DOMAIN closed = DOMAIN log OBVIOUS
<1>2. \A i \in DOMAIN log : /\ closed[i].step = log[i].step
                            /\ closed[i].status = "degraded" <=> log[i].status = "degraded"
  <2> SUFFICES ASSUME NEW i \in DOMAIN log
               PROVE  /\ closed[i].step = log[i].step
                      /\ closed[i].status = "degraded" <=> log[i].status = "degraded"
    OBVIOUS
  <2>1. log[i] \in Runs OBVIOUS
  <2> QED BY <2>1 DEF Runs
<1> QED BY <1>1, <1>2 DEF LatestIsDegraded

\* While a task rests, whether the latest run of some step was degraded does not change.
LEMMA RestingDegraded ==
    ASSUME IInv, ExecInv, [Next]_vars, NEW t \in Tasks, task[t].status \notin Executing
    PROVE  LatestIsDegraded(runs'[t]) = LatestIsDegraded(runs[t])
<1>1. runs \in [Tasks -> Seq(Runs)] /\ exec \in [Procs -> Threads] BY DEF IInv, TypeOK
<1>2. CASE runs' = runs BY <1>2
<1>3. ASSUME NEW k \in Tokens, JobRecord(k) \/ Returned(k)
      PROVE  LatestIsDegraded(runs'[t]) = LatestIsDegraded(runs[t])
  <2>1. job[k].pc \in Live BY <1>3 DEF JobRecord, Returned, JobReturn, Live, Working
  <2>2. job[k].task # t BY <2>1 DEF ExecInv, JobsHoldClaims
  <2>3. PICK log : runs' = [runs EXCEPT ![job[k].task] = log]
    BY <1>3 DEF JobRecord, Returned, JobReturn
  <2>4. runs'[t] = runs[t] BY <1>1, <2>2, <2>3
  <2> QED BY <2>4
<1>4. ASSUME NEW p \in Procs, SettleClose(p)
      PROVE  LatestIsDegraded(runs'[t]) = LatestIsDegraded(runs[t])
  <2>1. CASE exec[p].cur = t
    <3> DEFINE closed == [i \in DOMAIN runs[t] |->
                            IF runs[t][i].status = "running"
                            THEN [runs[t][i] EXCEPT !.status = "interrupted"] ELSE runs[t][i]]
    <3>1. runs'[t] = closed BY <1>1, <1>4, <2>1 DEF SettleClose
    <3>2. runs[t] \in Seq(Runs) BY <1>1
    <3> HIDE DEF closed
    <3>3. LatestIsDegraded(closed) = LatestIsDegraded(runs[t])
      BY <3>2, ClosedKeepsDegraded DEF closed
    <3> QED BY <3>1, <3>3
  <2>2. CASE exec[p].cur # t
    <3>1. runs'[t] = runs[t] BY <1>1, <1>4, <2>2 DEF SettleClose
    <3> QED BY <3>1
  <2> QED BY <2>1, <2>2
<1> QED BY <1>2, <1>3, <1>4, RunChanges

\* How a task ended agrees with its runs when it ends, and stays so.
LEMMA FinalStatusNext ==
    ASSUME IInv, ExecInv, RunsInv, FinalStatusTells, [Next]_vars
    PROVE  FinalStatusTells'
<1>1. /\ task \in [Tasks -> Rows] /\ job \in [Tokens -> Jobs]
      /\ runs \in [Tasks -> Seq(Runs)]
  BY DEF IInv, TypeOK
<1> DEFINE Tells(status, log) == /\ status = "completed" => ~LatestIsDegraded(log)
                                 /\ status = "partially_completed" => LatestIsDegraded(log)
<1> SUFFICES ASSUME NEW t \in Tasks,
                    task'[t].status \in {"completed", "partially_completed"}
             PROVE  Tells(task'[t].status, runs'[t])
  BY DEF FinalStatusTells
<1>2. Tells(task[t].status, runs[t]) BY DEF FinalStatusTells
<1>3. LatestIsDegraded(runs[t]) \in BOOLEAN BY DEF LatestIsDegraded
<1>4. ASSUME task'[t].status = task[t].status PROVE Tells(task'[t].status, runs'[t])
  <2>1. LatestIsDegraded(runs'[t]) = LatestIsDegraded(runs[t])
    BY <1>4, RestingDegraded DEF Executing
  <2> QED BY <1>2, <1>4, <2>1
<1>5. ASSUME OneRow(t) PROVE Tells(task'[t].status, runs'[t])
  <2>1. runs'[t] = runs[t] BY <1>5 DEF OneRow
  <2>2. CASE BySettle(t) BY <1>1, <1>3, <2>2, OthersEnd DEF BySettle
  <2>3. CASE ByFinish(t)
    <3>1. PICK k \in Tokens :
            /\ job[k].pc = "commit" /\ job[k].task = t
            /\ task'[t] = Boundary(task[t], job[k].seen, job[k].out, LatestIsDegraded(runs[t]))
      BY <2>3 DEF ByFinish
    <3>2. job[k].seen \in Rows /\ job[k].out \in [kind : OutcomeKinds, attempt : Nat]
      BY <1>1 DEF Jobs, Outcomes, OutcomeKinds
    <3>3. /\ Succeeds(job[k].out)
          /\ task'[t].status = "completed" => ~LatestIsDegraded(runs[t])
          /\ task'[t].status = "partially_completed" =>
                job[k].out.kind = "degraded" \/ LatestIsDegraded(runs[t])
      BY <1>1, <1>3, <3>1, <3>2, BoundaryEnds
    <3>4. job[k].out.kind = "degraded" => LatestIsDegraded(runs[t])
      <4> SUFFICES ASSUME job[k].out.kind = "degraded" PROVE LatestIsDegraded(runs[t])
        OBVIOUS
      <4>1. runs[t] # << >> /\ runs[t][Len(runs[t])].status = "degraded"
        BY <3>1, <3>3 DEF RunsInv, SuccessIsLast, LastRun
      <4>2. /\ runs[t] \in Seq(Runs) /\ DOMAIN runs[t] = 1 .. Len(runs[t])
            /\ Len(runs[t]) \in Nat
        BY <1>1
      <4>3. Len(runs[t]) \in DOMAIN runs[t] /\ \A j \in DOMAIN runs[t] : ~(j > Len(runs[t]))
        BY <4>1, <4>2
      <4> QED BY <4>1, <4>3 DEF LatestIsDegraded
    <3> QED BY <2>1, <3>3, <3>4
  <2>4. CASE ByRound(t) BY <1>1, <1>3, <2>1, <2>4, OthersEnd DEF ByRound
  <2>5. CASE ByClaim(t) BY <1>1, <1>3, <2>5, OthersEnd DEF ByClaim
  <2>6. CASE ByUser(t)
    <3>1. PICK d \in Allowed : StillAsRead(task[t], d) /\ task'[t] = Decided(task[t], d)
      BY <2>6 DEF ByUser
    <3>2. task'[t].status = task[t].status BY <1>1, <3>1, DecidedEnds
    <3> QED BY <1>4, <3>2
  <2>7. CASE ByClock(t)
    <3>1. task'[t].status = task[t].status BY <1>1, <2>7 DEF ByClock, Rows
    <3> QED BY <1>4, <3>1
  <2> QED BY <1>5, <2>2, <2>3, <2>4, <2>5, <2>6, <2>7 DEF OneRow
<1>6. task' = task \/ \E x \in Tasks : OneRow(x) BY OneRowSteps
<1>7. ASSUME NEW x \in Tasks, x # t, OneRow(x) PROVE task'[t] = task[t]
  BY <1>7 DEF OneRow
<1> QED BY <1>4, <1>5, <1>6, <1>7

\* Completed or partially completed tells the truth about the runs, however often steps
\* were re-run, skipped, interrupted or closed late.
THEOREM FinalStatusCorrect == Spec => []FinalStatusTells
<1>1. Init => FinalStatusTells BY DEF Init, FinalStatusTells, NewRow
<1>2. IInv /\ ExecInv /\ RunsInv /\ FinalStatusTells /\ [Next]_vars => FinalStatusTells'
  BY FinalStatusNext
<1> QED BY <1>1, <1>2, RunsAlways, PTL DEF Spec

---------------------------------------------------------------------------
(* The strengthening for the repetitions.                                   *)

\* The last run of a task.
Last(t) == runs[t][Len(runs[t])]

\* Running the step of a task again would repeat a run that was not deferred, of a step
\* that opted out of retries.
Repeats(t) ==
    /\ runs[t] # << >>
    /\ Last(t).step = task[t].step
    /\ Last(t).step \in NoRetry /\ Last(t).status # "deferred"

\* Only a person puts a task back to an earlier step.
PutBack == \A t \in Tasks : runs[t] # << >> /\ Last(t).step > task[t].step => person[t]

\* What would repeat a step waits for the machine only if a person asked for it.
WaitsForPerson ==
    \A t \in Tasks : task[t].status \in {"queued", "failed"} /\ Repeats(t) => person[t]

\* The job runs the step of its task, or gives the task back to be run.
WillRun(k) ==
    \/ job[k].pc \in {"queued", "admit", "start"}
    \/ job[k].pc \in {"finish", "commit"} /\ job[k].out.kind \in {"notready", "later"}

JobForPerson ==
    \A k \in Tokens : WillRun(k) /\ Repeats(job[k].task) => person[job[k].task]

\* A failure that may be retried is of the last run, of a step that allows it.
FailureIsLast ==
    \A k \in Tokens : job[k].pc \in {"finish", "commit"} /\ job[k].out.kind = "failed" =>
        /\ runs[job[k].task] # << >> /\ Last(job[k].task).step = job[k].step
        /\ job[k].step \notin NoRetry

\* A settle that may still write decides for the step the task stands at.
SettlesStep ==
    \A p \in Procs : exec[p].cur # NoTask /\ exec[p].sub = "write" =>
        LET row == task[exec[p].cur]
        IN  row.status \in Executing /\ row.token = exec[p].seen.token =>
                row.step = exec[p].seen.step

RetryInv == PutBack /\ WaitsForPerson /\ JobForPerson /\ FailureIsLast /\ SettlesStep

---------------------------------------------------------------------------
(* What the rules do to the step of a row, and which rows they give back.   *)

Waiting == {"queued", "failed"}

\* A boundary gives a row back to be run after a success, one step further, or on its
\* step after a deferral or a failure that may be retried.
LEMMA BoundaryReruns ==
    ASSUME NEW row \in Rows, NEW seen \in Rows, NEW degraded,
           NEW out \in [kind : OutcomeKinds, attempt : Nat],
           NEW new, new = Boundary(row, seen, out, degraded)
    PROVE  /\ new.step = row.step \/ new.step = seen.step + 1
           /\ new.status \in Waiting =>
                 \/ Succeeds(out) /\ new.step = seen.step + 1
                 \/ out.kind \in {"notready", "later", "failed"} /\ new.step = row.step
<1> USE DEF Rows, Released, Unlock, Waiting
<1>1. CASE seen.term BY <1>1 DEF Boundary
<1>2. CASE ~seen.term /\ Succeeds(out)
  <2>1. new = BoundarySucceeded(row, seen, out, degraded) BY <1>2 DEF Boundary, Succeeds
  <2> QED BY <1>2, <2>1 DEF BoundarySucceeded, PausedOr, FinalStatus
<1>3. CASE ~seen.term /\ out.kind = "denied" BY <1>3 DEF Boundary, Succeeds
<1>4. CASE ~seen.term /\ out.kind = "ask"
  BY <1>4 DEF Boundary, BoundaryAsked, Succeeds
<1>5. CASE ~seen.term /\ out.kind \in {"notready", "later"}
  BY <1>5 DEF Boundary, BoundaryDeferred, Succeeds
<1>6. CASE ~seen.term /\ out.kind \in {"failed", "fatal"}
  BY <1>6 DEF Boundary, BoundaryFailed, Succeeds
<1> QED BY <1>1, <1>2, <1>3, <1>4, <1>5, <1>6 DEF OutcomeKinds, Succeeds

\* Recovery and reclaim give it back only if its step may be retried.
LEMMA SettledReruns ==
    ASSUME NEW row \in Rows, NEW seen \in Rows
    PROVE  /\ Settled(row, seen).step = row.step
           /\ Settled(row, seen).status \in Waiting => seen.step \notin NoRetry
BY DEF Rows, Settled, Released, Unlock, NeedsPerson, Waiting

\* Rounds run a row, requeue it on its step, or move it on.
LEMMA ClaimedRuns ==
    ASSUME NEW row \in Rows, NEW token
    PROVE  Claimed(row, token).step = row.step /\ Claimed(row, token).status \notin Waiting
BY DEF Rows, Claimed, Unlock, Waiting

LEMMA RequeuedReruns ==
    ASSUME NEW row \in Rows
    PROVE  Requeued(row).step = row.step
BY DEF Rows, Requeued

LEMMA SkippedMovesOn ==
    ASSUME NEW row \in Rows, NEW degraded
    PROVE  /\ Skipped(row, degraded).step \in {row.step, row.step + 1}
           /\ Skipped(row, degraded).status \in Waiting =>
                 Skipped(row, degraded).step = row.step + 1
BY DEF Rows, Skipped, FinalStatus, Waiting

\* A user who does not put the task to work moves it nowhere, and makes no row wait.
LEMMA DecidedReruns ==
    ASSUME NEW row \in Rows, NEW d \in Allowed, StillAsRead(row, d), d.act \notin PutsToWork
    PROVE  /\ Decided(row, d).step = row.step
           /\ Decided(row, d).status \in Waiting => row.status = Decided(row, d).status
<1> USE DEF Rows, StillAsRead, Decided, Waiting
<1>1. d \in Decisions BY DEF Allowed
<1>2. CASE d.act \in {"pause", "terminate"} BY <1>2
<1>3. CASE d.act \in {"reject", "wake"} BY <1>3
<1>4. CASE d.act = "set_retries" BY <1>4
<1> QED BY <1>1, <1>2, <1>3, <1>4 DEF Decisions, UserActions, PutsToWork

---------------------------------------------------------------------------
(* What a step does to a person's word and to the last run.                 *)

\* A person's word holds until the next run is recorded.
LEMMA WordHolds ==
    ASSUME TypeOK, [Next]_vars, NEW t \in Tasks, person[t],
           \A k \in Tokens : JobRecord(k) => job[k].task # t
    PROVE  person'[t]
<1>1. person \in [Tasks -> BOOLEAN] BY DEF TypeOK
<1>2. CASE person' = person BY <1>2
<1>3. ASSUME NEW k \in Tokens, JobRecord(k) PROVE person'[t]
  BY <1>1, <1>3 DEF JobRecord
<1>4. ASSUME NEW u \in Users, NEW r, UserWrites(u, r.task, r.decision) PROVE person'[t]
  BY <1>1, <1>4 DEF UserWrites
<1>5. CASE Next
  <2>1. CASE \E p \in Procs : AcquireLock(p) \/ Recovery(p) \/ ReleaseLock(p) \/ Upset(p)
    BY <1>2, <2>1
       DEF AcquireLock, Recovery, ListRunning, ListPausing, ReleaseLock, Upset, RequestStop,
           Crash, RoundFails, RecoveryFails, history
  <2>2. CASE \E p \in Procs : Settle(p)
    BY <1>2, <2>2
       DEF Settle, ReclaimSkip, SettleBegin, SettleAgain, SettleWrite, SettleClose, history
  <2>3. CASE \E p \in Procs : Round(p)
    BY SMTT(30), <1>2, <2>3
       DEF Round, ListStale, ListDueFailed, CountRunning, CountPausing, ListQueued,
           RequeueFailed, PassOver, SkipStep, Claim, ClaimBeyondBound, history
  <2>4. ASSUME NEW k \in Tokens, Work(k) \/ Heartbeat(k) \/ JobRaises(k) PROVE person'[t]
    BY <1>2, <1>3, <2>4
       DEF Work, JobStart, JobAdmit, JobReturn, FinishRead, FinishWrite, Heartbeat, JobRaises,
           history
  <2>5. CASE (\E u \in Users : Command(u)) \/ Clock
    BY <1>2, <1>4, <2>5 DEF Command, UserReads, Clock, DelayEnds, HeartbeatAges, history
  <2> QED BY <1>5, <2>1, <2>2, <2>3, <2>4, <2>5 DEF Next, Schedule
<1> QED BY <1>2, <1>5 DEF vars, history

\* A task goes back to an earlier step only on a person's word.
LEMMA StepsBack ==
    ASSUME IInv, ExecInv, RunsInv, [Next]_vars, NEW t \in Tasks
    PROVE  task'[t].step >= task[t].step \/ person'[t]
<1>1. /\ task \in [Tasks -> Rows] /\ job \in [Tokens -> Jobs] /\ exec \in [Procs -> Threads]
  BY DEF IInv, TypeOK
<1>2. task[t] \in Rows /\ task[t].step \in Nat BY <1>1 DEF Rows, Steps
<1>3. CASE task'[t] = task[t] BY <1>2, <1>3
<1>4. ASSUME OneRow(t) PROVE task'[t].step >= task[t].step \/ person'[t]
  <2>1. CASE SettledAsRead(t)
    <3>1. PICK p \in Procs : task'[t] = Settled(task[t], exec[p].seen)
      BY <2>1 DEF SettledAsRead
    <3>2. task'[t].step = task[t].step BY <1>1, <1>2, <3>1, SettledReruns DEF Threads
    <3> QED BY <1>2, <3>2
  <2>2. CASE ByFinish(t)
    <3>1. PICK k \in Tokens :
            /\ job[k].pc = "commit" /\ job[k].task = t
            /\ task'[t] = Boundary(task[t], job[k].seen, job[k].out, LatestIsDegraded(runs[t]))
      BY <2>2 DEF ByFinish
    <3>2. /\ job[k].seen \in Rows /\ job[k].out \in [kind : OutcomeKinds, attempt : Nat]
          /\ job[k].seen.step = task[t].step
      BY <1>1, <3>1 DEF Jobs, Outcomes, OutcomeKinds, RunsInv, StepHeld
    <3>3. task'[t].step \in {task[t].step, task[t].step + 1}
      BY <1>2, <3>1, <3>2, BoundaryReruns
    <3> QED BY <1>2, <3>3
  <2>3. CASE ByRound(t) \/ ByClaim(t)
    <3>1. task'[t].step \in {task[t].step, task[t].step + 1}
      BY <1>2, <2>3, ClaimedRuns, RequeuedReruns, SkippedMovesOn DEF ByRound, ByClaim
    <3> QED BY <1>2, <3>1
  <2>4. CASE ByClock(t)
    <3>1. task'[t].step = task[t].step BY <1>2, <2>4 DEF ByClock, Rows
    <3> QED BY <1>2, <3>1
  <2>5. CASE OnRecord(t)
    <3>1. PICK d \in Allowed : /\ StillAsRead(task[t], d) /\ task'[t] = Decided(task[t], d)
                               /\ d.act \in PutsToWork => person'[t]
      BY <2>5 DEF OnRecord
    <3>2. d.act \notin PutsToWork => task'[t].step = task[t].step
      BY <1>2, <3>1, DecidedReruns
    <3> QED BY <1>2, <3>1, <3>2
  <2> QED BY <1>4, <2>1, <2>2, <2>3, <2>4, <2>5 DEF OneRow
<1>5. task' = task \/ \E x \in Tasks : OneRow(x) BY OneRowSteps
<1>6. ASSUME NEW x \in Tasks, x # t, OneRow(x) PROVE task'[t] = task[t]
  BY <1>6 DEF OneRow
<1> QED BY <1>3, <1>4, <1>5, <1>6

\* A job that returns closes the last run of its task, as what the step returned.
LEMMA ReturnClosesLast ==
    ASSUME IInv, RunsInv, NEW k \in Tokens, NEW kind \in Returns(job[k].step), JobReturn(k, kind)
    PROVE  LET old == runs[job[k].task]  new == runs'[job[k].task]
           IN  /\ old # << >> /\ new # << >>
               /\ old[Len(old)].step = job[k].step /\ new[Len(new)].step = job[k].step
               /\ new[Len(new)].status = RunResult(kind)
<1> DEFINE log == runs[job[k].task]
<1>1. runs \in [Tasks -> Seq(Runs)] /\ job[k].task \in Tasks /\ job[k].pc = "run"
  BY DEF IInv, TypeOK, Supports, JobsHaveTasks, JobReturn
<1>2. /\ log \in Seq(Runs) /\ log # << >> /\ job[k].run = Len(log)
      /\ log[Len(log)].step = job[k].step
  BY <1>1 DEF RunsInv, RunningIsLast, LastRun
<1>3. Len(log) \in DOMAIN log /\ log[Len(log)] \in Runs BY <1>2
<1>4. runs'[job[k].task] =
        [log EXCEPT ![Len(log)] = [log[Len(log)] EXCEPT !.status = RunResult(kind)]]
  BY <1>1, <1>2 DEF JobReturn
<1>5. /\ [log[Len(log)] EXCEPT !.status = RunResult(kind)].step = log[Len(log)].step
      /\ [log[Len(log)] EXCEPT !.status = RunResult(kind)].status = RunResult(kind)
  BY <1>3 DEF Runs
<1>6. /\ Len(runs'[job[k].task]) = Len(log) /\ runs'[job[k].task] # << >>
      /\ runs'[job[k].task][Len(log)] = [log[Len(log)] EXCEPT !.status = RunResult(kind)]
  BY SMTT(30), <1>2, <1>3, <1>4
<1> QED BY <1>2, <1>5, <1>6

\* The last run of a task that rests stays of its step, and deferred or not.
LEMMA RestingLast ==
    ASSUME IInv, ExecInv, [Next]_vars, NEW t \in Tasks, task[t].status \notin Executing
    PROVE  LET old == runs[t]  new == runs'[t]
           IN  /\ new = << >> <=> old = << >>
               /\ old # << >> =>
                     /\ new[Len(new)].step = old[Len(old)].step
                     /\ new[Len(new)].status = "deferred" <=> old[Len(old)].status = "deferred"
<1> DEFINE log == runs[t]
           Goal == /\ runs'[t] = << >> <=> log = << >>
                   /\ log # << >> =>
                         /\ runs'[t][Len(runs'[t])].step = log[Len(log)].step
                         /\ runs'[t][Len(runs'[t])].status = "deferred" <=>
                               log[Len(log)].status = "deferred"
<1>1. runs \in [Tasks -> Seq(Runs)] /\ exec \in [Procs -> Threads] BY DEF IInv, TypeOK
<1>2. CASE runs'[t] = runs[t] BY <1>2
<1>3. ASSUME NEW k \in Tokens, JobRecord(k) \/ Returned(k) PROVE Goal
  <2>1. job[k].pc \in Live BY <1>3 DEF JobRecord, Returned, JobReturn, Live, Working
  <2>2. job[k].task # t BY <2>1 DEF ExecInv, JobsHoldClaims
  <2>3. PICK new : runs' = [runs EXCEPT ![job[k].task] = new]
    BY <1>3 DEF JobRecord, Returned, JobReturn
  <2>4. runs'[t] = runs[t] BY <1>1, <2>2, <2>3
  <2> QED BY <1>2, <2>4
<1>4. ASSUME NEW p \in Procs, SettleClose(p) PROVE Goal
  <2>1. CASE exec[p].cur # t
    <3>1. runs'[t] = runs[t] BY <1>1, <1>4, <2>1 DEF SettleClose
    <3> QED BY <1>2, <3>1
  <2>2. CASE exec[p].cur = t
    <3> DEFINE closed == [i \in DOMAIN log |->
                            IF log[i].status = "running"
                            THEN [log[i] EXCEPT !.status = "interrupted"] ELSE log[i]]
    <3>1. runs'[t] = closed BY <1>1, <1>4, <2>2 DEF SettleClose
    <3>2. log \in Seq(Runs) /\ DOMAIN log = 1 .. Len(log) /\ Len(log) \in Nat BY <1>1
    <3>3. Len(closed) = Len(log) /\ (closed = << >> <=> log = << >>)
      <4>1. closed \in Seq(Runs) BY <3>2, ClosedRunsType
      <4>2. DOMAIN closed = DOMAIN log OBVIOUS
      <4> HIDE DEF closed
      <4>3. Len(closed) = Len(log) BY <3>2, <4>1, <4>2
      <4>4. \A seq \in Seq(Runs) : seq = << >> <=> Len(seq) = 0 OBVIOUS
      <4> QED BY <3>2, <4>1, <4>3, <4>4
    <3>4. CASE log # << >>
      <4>1. Len(log) \in DOMAIN log BY <3>2, <3>4
      <4>2. log[Len(log)] \in Runs BY <3>2, <4>1
      <4>3. closed[Len(log)] = IF log[Len(log)].status = "running"
                               THEN [log[Len(log)] EXCEPT !.status = "interrupted"]
                               ELSE log[Len(log)]
        BY <4>1
      <4>4. /\ closed[Len(log)].step = log[Len(log)].step
            /\ closed[Len(log)].status = "deferred" <=> log[Len(log)].status = "deferred"
        BY <4>2, <4>3 DEF Runs
      <4> QED BY <3>1, <3>3, <4>4
    <3> QED BY <3>1, <3>3, <3>4
  <2> QED BY <2>1, <2>2
<1>5. CASE runs' = runs BY <1>2, <1>5
<1> QED BY <1>3, <1>4, <1>5, RunChanges

---------------------------------------------------------------------------
(* The strengthening is preserved.                                          *)

\* A task stands before its last run only on a person's word.
LEMMA PutBackNext ==
    ASSUME IInv, ExecInv, RunsInv, PutBack, [Next]_vars
    PROVE  PutBack'
<1>1. /\ runs \in [Tasks -> Seq(Runs)] /\ task \in [Tasks -> Rows] /\ TypeOK /\ Supports
      /\ task' \in [Tasks -> Rows] /\ runs' \in [Tasks -> Seq(Runs)] /\ job \in [Tokens -> Jobs]
  BY InvNext DEF IInv, TypeOK
<1> SUFFICES ASSUME NEW t \in Tasks, runs'[t] # << >>,
                    runs'[t][Len(runs'[t])].step > task'[t].step
             PROVE  person'[t]
  BY DEF PutBack, Last
<1>2. /\ Len(runs[t]) \in Nat /\ Len(runs'[t]) \in Nat
      /\ DOMAIN runs[t] = 1 .. Len(runs[t]) /\ DOMAIN runs'[t] = 1 .. Len(runs'[t])
  BY <1>1
<1>3. task[t].step \in Nat /\ task'[t].step \in Nat BY <1>1 DEF Rows, Steps
<1>4. CASE LogKept(t)
  <2>1. Len(runs'[t]) = Len(runs[t]) BY <1>2, <1>4 DEF LogKept
  <2>2. Len(runs[t]) \in DOMAIN runs[t] /\ runs[t] # << >> BY <1>1, <1>2, <2>1
  <2>3. runs'[t][Len(runs'[t])].step = runs[t][Len(runs[t])].step
    BY <1>4, <2>1, <2>2 DEF LogKept
  <2>4. CASE task'[t].step >= task[t].step
    <3>1. runs[t][Len(runs[t])] \in Runs BY <1>1, <2>2
    <3>2. runs[t][Len(runs[t])].step \in Nat BY <3>1 DEF Runs, Steps
    <3>3. person[t] BY <1>3, <2>2, <2>3, <2>4, <3>2 DEF PutBack, Last
    <3>4. ASSUME NEW k \in Tokens, JobRecord(k), job[k].task = t PROVE FALSE
      <4>1. runs'[t] = Append(runs[t], NewRun(k)) BY <1>1, <3>4 DEF JobRecord, NewRun
      <4>2. runs[t] \in Seq(Runs) /\ runs'[t] \in Seq(Runs) BY <1>1
      <4>3. Len(runs'[t]) = Len(runs[t]) + 1 BY <4>1, <4>2
      <4> QED BY <1>2, <2>1, <4>3
    <3> QED BY <1>1, <3>3, <3>4, WordHolds
  <2> QED BY <2>4, StepsBack
<1>5. ASSUME NEW k \in Tokens, JobRecord(k), job[k].task = t,
             runs'[t] = Append(runs[t], NewRun(k))
      PROVE  FALSE
  <2>1. runs'[t][Len(runs'[t])] = NewRun(k) BY <1>1, <1>5
  <2>2. task' = task /\ job[k].step = task[t].step
    BY <1>5 DEF JobRecord, RunsInv, StepHeld, Working
  <2> QED BY <1>3, <2>1, <2>2 DEF NewRun
<1> QED BY <1>4, <1>5, LogGrows

\* What gives a row back to be run would repeat a step only on a person's word.
LEMMA WaitsForPersonNext ==
    ASSUME IInv, ExecInv, RunsInv, RetryInv, [Next]_vars
    PROVE  WaitsForPerson'
<1>1. /\ task \in [Tasks -> Rows] /\ job \in [Tokens -> Jobs] /\ exec \in [Procs -> Threads]
      /\ TypeOK /\ Supports
  BY DEF IInv, TypeOK
<1> DEFINE Again(log, row) == /\ log # << >>
                              /\ log[Len(log)].step = row.step
                              /\ log[Len(log)].step \in NoRetry
                              /\ log[Len(log)].status # "deferred"
<1> SUFFICES ASSUME NEW t \in Tasks, task'[t].status \in Waiting, Again(runs'[t], task'[t])
             PROVE  person'[t]
  BY DEF WaitsForPerson, Repeats, Last, Waiting
<1>2. task[t] \in Rows /\ task[t].step \in Nat BY <1>1 DEF Rows, Steps
<1>3. Again(runs[t], task[t]) /\ task[t].status \in Waiting => person[t]
  BY DEF RetryInv, WaitsForPerson, Repeats, Last, Waiting
<1>4. ASSUME task[t].status \in Waiting, task'[t].step = task[t].step PROVE person'[t]
  <2>1. task[t].status \notin Executing BY <1>4 DEF Waiting, Executing
  <2>2. Again(runs[t], task[t]) BY <1>4, <2>1, RestingLast
  <2>3. ASSUME NEW k \in Tokens, JobRecord(k) PROVE job[k].task # t
    <3>1. job[k].pc \in Live BY <2>3 DEF JobRecord, Live, Working
    <3> QED BY <2>1, <3>1 DEF ExecInv, JobsHoldClaims
  <2> QED BY <1>1, <1>3, <1>4, <2>2, <2>3, WordHolds
<1>5. ASSUME OneRow(t) PROVE person'[t]
  <2>1. runs'[t] = runs[t] /\ runs' = runs BY <1>5 DEF OneRow
  <2>2. ASSUME person[t] PROVE person'[t]
    <3>1. ASSUME NEW k \in Tokens, JobRecord(k), job[k].task = t PROVE FALSE
      <4>1. task' = task BY <3>1 DEF JobRecord
      <4>2. t \in Tasks /\ task[t].status \in Executing
        BY <3>1 DEF JobRecord, ExecInv, JobsHoldClaims, Live, Working
      <4> QED BY <4>1, <4>2 DEF Waiting, Executing
    <3> QED BY <1>1, <2>2, <3>1, WordHolds
  <2>3. CASE SettledAsRead(t)
    <3>1. PICK p \in Procs : /\ SettleWrite(p) /\ exec[p].cur = t
                             /\ SettleMatches(task[t], exec[p].seen, CheckAlive(p))
                             /\ task'[t] = Settled(task[t], exec[p].seen)
      BY <2>3 DEF SettledAsRead
    <3>2. /\ exec[p].seen \in Rows /\ exec[p].sub = "write" /\ exec[p].cur # NoTask
          /\ exec[p].seen.status \in Executing
      BY <1>1, <3>1 DEF Threads, SettleWrite, Supports, SettlesExecuting
    <3>3. task[t].step = exec[p].seen.step
      BY <3>1, <3>2 DEF SettleMatches, RetryInv, SettlesStep
    <3>4. task'[t].step = task[t].step /\ exec[p].seen.step \notin NoRetry
      BY <1>2, <3>1, <3>2, SettledReruns
    <3> QED BY <3>3, <3>4
  <2>4. CASE ByFinish(t)
    <3>1. PICK k \in Tokens :
            /\ job[k].pc = "commit" /\ job[k].task = t
            /\ task'[t] = Boundary(task[t], job[k].seen, job[k].out, LatestIsDegraded(runs[t]))
      BY <2>4 DEF ByFinish
    <3>2. /\ job[k].seen \in Rows /\ job[k].out \in [kind : OutcomeKinds, attempt : Nat]
          /\ job[k].seen.step = task[t].step /\ job[k].step = task[t].step
      BY <1>1, <3>1 DEF Jobs, Outcomes, OutcomeKinds, RunsInv, StepHeld, Working
    <3>3. \/ Succeeds(job[k].out) /\ task'[t].step = task[t].step + 1
          \/ job[k].out.kind \in {"notready", "later", "failed"} /\ task'[t].step = task[t].step
      BY <1>2, <3>1, <3>2, BoundaryReruns
    <3>4. CASE Succeeds(job[k].out) /\ task'[t].step = task[t].step + 1
      <4>1. runs[t][Len(runs[t])].step = task[t].step
        BY <3>1, <3>2, <3>4 DEF RunsInv, SuccessIsLast, LastRun
      <4> QED BY <1>2, <2>1, <3>4, <4>1
    <3>5. CASE job[k].out.kind \in {"notready", "later"} /\ task'[t].step = task[t].step
      <4>1. WillRun(k) /\ Repeats(t) BY <2>1, <3>1, <3>5 DEF WillRun, Repeats, Last
      <4> QED BY <2>2, <3>1, <4>1 DEF RetryInv, JobForPerson
    <3>6. CASE job[k].out.kind = "failed" /\ task'[t].step = task[t].step
      BY <2>1, <3>1, <3>2, <3>6 DEF RetryInv, FailureIsLast, Last
    <3> QED BY <3>3, <3>4, <3>5, <3>6
  <2>5. CASE ByRound(t)
    <3>1. CASE task[t].status = "failed" /\ task'[t] = Requeued(task[t])
      BY <1>2, <1>4, <3>1, RequeuedReruns DEF Waiting
    <3>2. CASE task[t].status = "queued" /\ task'[t] = Skipped(task[t], LatestIsDegraded(runs[t]))
      <4>1. task'[t].step = task[t].step + 1 BY <1>2, <3>2, SkippedMovesOn
      <4>2. Last(t).step > task[t].step /\ runs[t] # << >> BY <1>2, <2>1, <4>1 DEF Last
      <4> QED BY <2>2, <4>2 DEF RetryInv, PutBack
    <3> QED BY <2>5, <3>1, <3>2 DEF ByRound
  <2>6. CASE ByClaim(t) BY <1>2, <2>6, ClaimedRuns DEF ByClaim
  <2>7. CASE ByClock(t)
    <3>1. task'[t].step = task[t].step /\ task'[t].status = task[t].status
      BY <1>2, <2>7 DEF ByClock, Rows
    <3> QED BY <1>4, <3>1
  <2>8. CASE OnRecord(t)
    <3>1. PICK d \in Allowed : /\ StillAsRead(task[t], d) /\ task'[t] = Decided(task[t], d)
                               /\ d.act \in PutsToWork => person'[t]
      BY <2>8 DEF OnRecord
    <3>2. d.act \notin PutsToWork =>
            task'[t].step = task[t].step /\ task[t].status = task'[t].status
      BY <1>2, <3>1, DecidedReruns
    <3> QED BY <1>4, <3>1, <3>2
  <2> QED BY <1>5, <2>3, <2>4, <2>5, <2>6, <2>7, <2>8 DEF OneRow
<1>6. task' = task \/ \E x \in Tasks : OneRow(x) BY OneRowSteps
<1>7. ASSUME NEW x \in Tasks, x # t, OneRow(x) PROVE task'[t] = task[t]
  BY <1>7 DEF OneRow
<1> QED BY <1>4, <1>5, <1>6, <1>7

\* A job gets, keeps and gives back what would repeat a step only on a person's word.
LEMMA JobForPersonNext ==
    ASSUME IInv, ExecInv, RunsInv, RetryInv, [Next]_vars
    PROVE  JobForPerson'
<1>1. /\ task \in [Tasks -> Rows] /\ job \in [Tokens -> Jobs] /\ TypeOK /\ Supports
  BY DEF IInv, TypeOK
<1> DEFINE Again(log, row) == /\ log # << >>
                              /\ log[Len(log)].step = row.step
                              /\ log[Len(log)].step \in NoRetry
                              /\ log[Len(log)].status # "deferred"
<1> SUFFICES ASSUME NEW k \in Tokens,
                    \/ job'[k].pc \in {"queued", "admit", "start"}
                    \/ /\ job'[k].pc \in {"finish", "commit"}
                       /\ job'[k].out.kind \in {"notready", "later"},
                    Again(runs'[job'[k].task], task'[job'[k].task])
             PROVE  person'[job'[k].task]
  BY DEF JobForPerson, WillRun, Repeats, Last
<1>2. JobChange(k) BY <1>1, JobChanges
<1>3. job'[k].pc \in Live BY DEF Live, Working
<1>4. ASSUME WillRun(k), job'[k].task = job[k].task, ~JobRecord(k), ~Returned(k)
      PROVE  person'[job'[k].task]
  <2> DEFINE x == job[k].task
  <2>1. job[k].pc \in Live BY <1>4 DEF WillRun, Live, Working
  <2>2. x \in Tasks /\ task[x].status \in Executing /\ task[x].token = k
    BY <2>1 DEF IInv, Supports, JobsHaveTasks, ExecInv, JobsHoldClaims, Live, Working
  <2>3. task'[x].status \in Executing
    BY <1>3, <1>4, ExecNext DEF ExecInv, JobsHoldClaims
  <2>4. task'[x].step = task[x].step BY <1>1, <2>2, <2>3, ExecutingKeepsStep
  <2>5. runs'[x] = runs[x] BY <1>4, <2>1, OwnLog
  <2>6. Repeats(x) BY <1>4, <2>4, <2>5 DEF Repeats, Last
  <2>7. person[x] BY <1>4, <2>6 DEF RetryInv, JobForPerson
  <2>8. ASSUME NEW j \in Tokens, JobRecord(j) PROVE job[j].task # x
    <3>1. job[j].pc \in Live /\ j # k BY <1>4, <2>8 DEF JobRecord, Live, Working
    <3> QED BY <2>2, <3>1 DEF ExecInv, JobsHoldClaims
  <2> QED BY <1>1, <1>4, <2>2, <2>7, <2>8, WordHolds
<1>5. CASE job'[k] = job[k]
  <2>1. ~JobRecord(k)
    <3>1. JobRecord(k) => job'[k].pc = "run" BY <1>1 DEF JobRecord, Jobs
    <3> QED BY <3>1
  <2>2. ~Returned(k) BY <1>5 DEF Returned, JobReturn
  <2> QED BY <1>4, <1>5, <2>1, <2>2 DEF WillRun
<1>6. CASE QueuedIsClaimed(job'[k].task, k)
  <2> DEFINE x == job'[k].task
  <2>1. /\ x \in Tasks /\ task[x].status = "queued" /\ task'[x] = Claimed(task[x], k)
        /\ runs' = runs /\ person' = person
    BY <1>6 DEF QueuedIsClaimed, history
  <2>2. task'[x].step = task[x].step BY <1>1, <2>1, ClaimedRuns
  <2>3. Repeats(x) BY <2>1, <2>2 DEF Repeats, Last
  <2> QED BY <2>1, <2>3 DEF RetryInv, WaitsForPerson
<1>7. CASE JobStart(k)
  <2>1. job[k].pc = "queued" /\ job'[k].task = job[k].task
    BY <1>1, <1>3, <1>7 DEF JobStart, Ended, Job, Jobs, Live, Working
  <2>2. ~JobRecord(k) /\ ~Returned(k) BY <2>1 DEF JobRecord, Returned, JobReturn
  <2> QED BY <1>4, <2>1, <2>2 DEF WillRun
<1>8. CASE JobAdmit(k)
  <2>1. job[k].pc = "admit" /\ job'[k].task = job[k].task
    BY <1>1, <1>8 DEF JobAdmit, Jobs
  <2>2. ~JobRecord(k) /\ ~Returned(k) BY <2>1 DEF JobRecord, Returned, JobReturn
  <2> QED BY <1>4, <2>1, <2>2 DEF WillRun
<1>9. CASE JobRecord(k) BY <1>1, <1>9 DEF JobRecord, Jobs
<1>10. CASE Returned(k)
  <2>1. PICK kind \in Returns(job[k].step) : JobReturn(k, kind) BY <1>10 DEF Returned
  <2>2. job'[k].pc = "finish" /\ job'[k].out.kind = kind /\ job'[k].task = job[k].task
    BY <1>1, <2>1 DEF JobReturn, Jobs
  <2>3. RunResult(kind) = "deferred" BY <2>2 DEF RunResult
  <2> QED BY <2>1, <2>2, <2>3, ReturnClosesLast
<1>11. CASE FinishRead(k) \/ FinishWrite(k)
  <2>1. /\ job[k].pc \in {"finish", "commit"} /\ job'[k].pc \in {"finish", "commit"}
        /\ job'[k].out = job[k].out /\ job'[k].task = job[k].task
    BY <1>1, <1>3, <1>11, FinishSteps DEF Live, Working
  <2>2. ~JobRecord(k) /\ ~Returned(k) BY <2>1 DEF JobRecord, Returned, JobReturn
  <2> QED BY <1>4, <2>1, <2>2 DEF WillRun
<1> QED BY <1>2, <1>3, <1>5, <1>6, <1>7, <1>8, <1>9, <1>10, <1>11
        DEF JobChange, JobWork, Live, Working

\* A failure that may be retried is reported only by the job whose run just failed.
LEMMA FailureIsLastNext ==
    ASSUME IInv, ExecInv, RunsInv, FailureIsLast, [Next]_vars
    PROVE  FailureIsLast'
<1>1. job \in [Tokens -> Jobs] /\ TypeOK BY DEF IInv, TypeOK
<1> DEFINE Failed(log, step) ==
             log # << >> /\ log[Len(log)].step = step /\ step \notin NoRetry
<1> SUFFICES ASSUME NEW k \in Tokens, job'[k].pc \in {"finish", "commit"},
                    job'[k].out.kind = "failed"
             PROVE  Failed(runs'[job'[k].task], job'[k].step)
  BY DEF FailureIsLast, Last
<1>2. JobChange(k) BY <1>1, JobChanges
<1>3. ASSUME /\ job[k].pc \in {"finish", "commit"}
             /\ job'[k].out = job[k].out /\ job'[k].step = job[k].step
             /\ job'[k].task = job[k].task
      PROVE  Failed(runs'[job'[k].task], job'[k].step)
  <2>1. ~JobRecord(k) /\ ~Returned(k)
    BY <1>3 DEF JobRecord, Returned, JobReturn
  <2>2. runs'[job[k].task] = runs[job[k].task]
    BY <1>3, <2>1, OwnLog DEF Live, Working
  <2> QED BY <1>3, <2>2 DEF FailureIsLast, Last
<1>4. CASE job'[k] = job[k] BY <1>3, <1>4
<1>5. CASE FinishRead(k) \/ FinishWrite(k) BY <1>1, <1>3, <1>5, FinishSteps
<1>6. CASE Returned(k)
  <2>1. PICK kind \in Returns(job[k].step) : JobReturn(k, kind) BY <1>6 DEF Returned
  <2>2. job'[k].out.kind = kind /\ job'[k].step = job[k].step /\ job'[k].task = job[k].task
    BY <1>1, <2>1 DEF JobReturn, Jobs
  <2>3. job[k].step \notin NoRetry BY <2>1, <2>2 DEF Returns
  <2> QED BY <2>1, <2>2, <2>3, ReturnClosesLast
<1>7. CASE JobStart(k)
  <2>1. job[k].pc = "queued" /\ job'[k].out = job[k].out
    BY <1>1, <1>7 DEF JobStart, Ended, Job, Jobs
  <2> QED BY <2>1 DEF RunsInv, NoEarlyOutcome, NoOutcome
<1>8. CASE JobAdmit(k)
  <2>1. job'[k].out.kind \in {"denied", "ask", "notready", "later"}
    BY <1>1, <1>8 DEF JobAdmit, Jobs, Refusals
  <2> QED BY <2>1
<1>9. CASE JobRecord(k) BY <1>1, <1>9 DEF JobRecord, Jobs
<1> QED BY <1>2, <1>4, <1>5, <1>6, <1>7, <1>8, <1>9 DEF JobChange, JobWork

\* A thread is about to write because it was before, or has just read the row.
LEMMA WriteSteps ==
    ASSUME TypeOK, [Next]_vars, NEW p \in Procs,
           exec'[p].cur # NoTask, exec'[p].sub = "write"
    PROVE  \/ /\ exec'[p].cur = exec[p].cur /\ exec[p].sub = "write"
              /\ exec'[p].seen = exec[p].seen
           \/ task' = task /\ exec'[p].seen = task[exec'[p].cur]
<1>1. exec \in [Procs -> Threads] BY DEF TypeOK
<1> DEFINE Goal == \/ /\ exec'[p].cur = exec[p].cur /\ exec[p].sub = "write"
                      /\ exec'[p].seen = exec[p].seen
                   \/ task' = task /\ exec'[p].seen = task[exec'[p].cur]
<1>2. ASSUME exec'[p].cur = exec[p].cur, exec'[p].sub = exec[p].sub, exec'[p].seen = exec[p].seen
      PROVE  Goal
  BY <1>2
<1>3. ASSUME NEW pc, NEW todo, NEW load, exec'[p] = Thread(pc, todo, load) PROVE FALSE
  BY <1>3 DEF Thread
<1>4. ASSUME NEW q, q # p, NEW thread, exec' = [exec EXCEPT ![q] = thread] PROVE Goal
  BY <1>1, <1>2, <1>4
<1>5. ASSUME NEW q \in Procs, Settle(q) PROVE Goal
  <2>1. CASE \E e \in exec[q].todo : ReclaimSkip(q, e)
    <3>1. PICK e : exec' = [exec EXCEPT ![q] = [exec[q] EXCEPT !.todo = @ \ {e}]]
      BY <1>1, <2>1 DEF ReclaimSkip, Drop
    <3>2. CASE q = p BY <1>1, <1>2, <3>1, <3>2 DEF Threads
    <3> QED BY <1>4, <3>1, <3>2
  <2>2. CASE \E e \in exec[q].todo : SettleBegin(q, e)
    <3>1. PICK e : /\ exec' = [exec EXCEPT ![q] =
                                 [SettleReads(q, e.id, 0) EXCEPT !.todo = @ \ {e}]]
                   /\ task' = task
      BY <2>2 DEF SettleBegin, tables
    <3>2. CASE q = p
      <4>1. exec'[p].sub = "write" => exec'[p].seen = task[exec'[p].cur]
        BY <1>1, <3>1, <3>2 DEF SettleReads, Threads
      <4> QED BY <3>1, <4>1
    <3> QED BY <1>4, <3>1, <3>2
  <2>3. CASE SettleAgain(q)
    <3>1. /\ exec' = [exec EXCEPT ![q] = SettleReads(q, exec[q].cur, exec[q].tries)]
          /\ task' = task
      BY <2>3 DEF SettleAgain, tables
    <3>2. CASE q = p
      <4>1. exec'[p].sub = "write" => exec'[p].seen = task[exec'[p].cur]
        BY <1>1, <3>1, <3>2 DEF SettleReads, Threads
      <4> QED BY <3>1, <4>1
    <3> QED BY <1>4, <3>1, <3>2
  <2>4. CASE SettleWrite(q)
    <3>1. PICK sub \in {"close", "read"} : exec' = [exec EXCEPT ![q] = [exec[q] EXCEPT !.sub = sub]]
      BY <1>1, <2>4 DEF SettleWrite
    <3>2. CASE q = p
      <4>1. exec'[p].sub = sub BY <1>1, <3>1, <3>2 DEF Threads
      <4> QED BY <4>1
    <3> QED BY <1>4, <3>1, <3>2
  <2>5. CASE SettleClose(q)
    <3> DEFINE new == [exec[q] EXCEPT !.cur = NoTask, !.sub = "read",
                                      !.seen = BlankRow, !.tries = 0]
    <3>1. exec' = [exec EXCEPT ![q] = new] BY <1>1, <2>5 DEF SettleClose
    <3>2. new.cur = NoTask BY <1>1 DEF Threads
    <3>3. CASE q = p BY <1>1, <3>1, <3>2, <3>3
    <3> QED BY <1>4, <3>1, <3>3
  <2> QED BY <1>5, <2>1, <2>2, <2>3, <2>4, <2>5 DEF Settle
<1>6. ASSUME NEW q \in Procs, Round(q) PROVE Goal
  <2>1. CASE \/ ListStale(q) \/ ListDueFailed(q) \/ CountRunning(q) \/ CountPausing(q)
             \/ ListQueued(q)
    <3>1. PICK pc, todo, load : exec' = [exec EXCEPT ![q] = Thread(pc, todo, load)]
      BY <2>1 DEF ListStale, ListDueFailed, CountRunning, CountPausing, ListQueued
    <3> QED BY <1>1, <1>3, <1>4, <3>1
  <2>2. ASSUME NEW e, \/ RequeueFailed(q, e) \/ PassOver(q, e) \/ SkipStep(q, e)
                      \/ Claim(q, e) \/ ClaimBeyondBound(q, e)
        PROVE  Goal
    <3>1. Drop(q, e) = [exec EXCEPT ![q] = [exec[q] EXCEPT !.todo = @ \ {e}]]
      BY <1>1 DEF Drop
    <3>2. CASE exec' = Drop(q, e)
      <4>1. CASE q = p BY <1>1, <1>2, <3>1, <3>2, <4>1 DEF Threads
      <4> QED BY <1>4, <3>1, <3>2, <4>1
    <3>3. CASE exec' = [Drop(q, e) EXCEPT ![q].load[e.row.step] = @ + 1]
      <4> DEFINE new == [exec[q] EXCEPT !.todo = @ \ {e},
                                        !.load = [exec[q].load EXCEPT ![e.row.step] = @ + 1]]
      <4>1. exec' = [exec EXCEPT ![q] = new] BY ZenonT(30), <1>1, <3>1, <3>3 DEF Threads
      <4>2. new.cur = exec[q].cur /\ new.sub = exec[q].sub /\ new.seen = exec[q].seen
        BY <1>1 DEF Threads
      <4>3. CASE q = p BY <1>1, <1>2, <4>1, <4>2, <4>3
      <4> QED BY <1>4, <4>1, <4>3
    <3> QED BY <2>2, <3>2, <3>3
            DEF RequeueFailed, PassOver, SkipStep, Claim, ClaimBeyondBound
  <2> QED BY <1>6, <2>1, <2>2 DEF Round
<1>7. ASSUME NEW q \in Procs, AcquireLock(q) \/ Recovery(q) \/ ReleaseLock(q) \/ Upset(q)
      PROVE  Goal
  <2>1. PICK pc, todo, load : exec' = [exec EXCEPT ![q] = Thread(pc, todo, load)]
    BY <1>7
       DEF AcquireLock, Recovery, ListRunning, ListPausing, ReleaseLock, Upset, RequestStop, Crash,
           RoundFails, RecoveryFails, Off
  <2> QED BY <1>1, <1>3, <1>4, <2>1
<1>8. ASSUME exec' = exec PROVE Goal BY <1>2, <1>8
<1>9. CASE Next
  <2>1. CASE \E k \in Tokens : Work(k) \/ Heartbeat(k) \/ JobRaises(k)
    BY ZenonT(30), <1>8, <2>1
       DEF Work, JobStart, JobAdmit, JobRecord, JobReturn, FinishRead, FinishWrite, Heartbeat,
           JobRaises
  <2>2. CASE (\E u \in Users : Command(u)) \/ Clock
    BY <1>8, <2>2 DEF Command, UserReads, UserWrites, Clock, DelayEnds, HeartbeatAges
  <2> QED BY <1>5, <1>6, <1>7, <1>9, <2>1, <2>2 DEF Next, Schedule
<1> QED BY <1>8, <1>9 DEF vars

\* The task a settle is about to write is not claimed anew, so as long as it runs under
\* the claim that was read it stands at the step that was read.
LEMMA SettlesStepNext ==
    ASSUME IInv, ExecInv, RetryInv, [Next]_vars
    PROVE  SettlesStep'
<1>1. /\ task \in [Tasks -> Rows] /\ exec \in [Procs -> Threads] /\ exec' \in [Procs -> Threads]
      /\ TypeOK /\ Supports
  BY InvNext DEF IInv, TypeOK
<1> SUFFICES ASSUME NEW p \in Procs, exec'[p].cur # NoTask, exec'[p].sub = "write",
                    task'[exec'[p].cur].status \in Executing,
                    task'[exec'[p].cur].token = exec'[p].seen.token
             PROVE  task'[exec'[p].cur].step = exec'[p].seen.step
  BY DEF SettlesStep
<1>2. CASE task' = task /\ exec'[p].seen = task[exec'[p].cur] BY <1>2
<1>3. CASE /\ exec'[p].cur = exec[p].cur /\ exec[p].sub = "write"
           /\ exec'[p].seen = exec[p].seen
  <2> DEFINE x == exec[p].cur
  <2>1. x # NoTask /\ x \in Tasks BY <1>1, <1>3 DEF Threads
  <2>2. ASSUME NEW q \in Procs, NEW e, Claim(q, e) PROVE FALSE
    <3>1. exec[q].pc = "schedule" BY <2>2 DEF Claim
    <3>2. Settling(p) BY <2>1 DEF ExecInv, SettlesInPhase
    <3>3. p = q BY <3>1, <3>2 DEF ExecInv, OnlyHolderRuns, Settling
    <3> QED BY <3>1, <3>2, <3>3 DEF Settling
  <2>3. task[x].status \in Executing /\ task'[x].token = task[x].token
    BY <1>1, <1>3, <2>1, <2>2, ClaimSteps DEF ClaimKept
  <2>4. task'[x].step = task[x].step BY <1>1, <1>3, <2>1, <2>3, ExecutingKeepsStep
  <2>5. task[x].step = exec[p].seen.step
    BY <1>3, <2>1, <2>3 DEF RetryInv, SettlesStep
  <2> QED BY <1>3, <2>4, <2>5
<1> QED BY <1>1, <1>2, <1>3, WriteSteps

\* There are no runs, jobs or threads at the start.
LEMMA RetryInit == Init => RetryInv
<1> SUFFICES ASSUME Init PROVE RetryInv OBVIOUS
<1>1. /\ \A k \in Tokens : job[k].pc = "none"
      /\ \A p \in Procs : exec[p].cur = NoTask
      /\ \A t \in Tasks : runs[t] = << >>
  BY DEF Init, Off, Thread, Job
<1>2. \A t \in Tasks : ~Repeats(t) BY <1>1 DEF Repeats
<1>3. \A k \in Tokens : ~WillRun(k) BY <1>1 DEF WillRun
<1> QED BY <1>1, <1>2, <1>3
        DEF RetryInv, PutBack, WaitsForPerson, JobForPerson, FailureIsLast, SettlesStep

\* The invariants always hold.
LEMMA RetryAlways == Spec => [](IInv /\ ExecInv /\ RunsInv /\ RetryInv)
<1>1. IInv /\ ExecInv /\ RunsInv /\ RetryInv /\ [Next]_vars => RetryInv'
  BY PutBackNext, WaitsForPersonNext, JobForPersonNext, FailureIsLastNext, SettlesStepNext
  DEF RetryInv
<1> QED BY <1>1, RetryInit, RunsAlways, PTL DEF Spec

\* A step that opted out of retries runs again after a failure, an interruption or a
\* crash only if a person put the task to work since (I5).
THEOREM NoRetryCorrect == Spec => NoRetryNeedsPerson
<1> DEFINE Asked(t) ==
          LET log == runs[t]  new == runs'[t]
          IN  /\ Len(new) > Len(log) /\ log # << >>
              /\ new[Len(new)].step = log[Len(log)].step
              /\ new[Len(new)].step \in NoRetry
              => person[t] \/ log[Len(log)].status = "deferred"
<1>1. ASSUME IInv, ExecInv, RunsInv, RetryInv, [Next]_vars, NEW t \in Tasks
      PROVE  Asked(t)
  <2>1. runs \in [Tasks -> Seq(Runs)] /\ runs' \in [Tasks -> Seq(Runs)]
    BY <1>1, InvNext DEF IInv, TypeOK
  <2>2. CASE LogKept(t)
    <3>1. /\ DOMAIN runs[t] = 1 .. Len(runs[t]) /\ DOMAIN runs'[t] = 1 .. Len(runs'[t])
          /\ Len(runs[t]) \in Nat /\ Len(runs'[t]) \in Nat
      BY <2>1
    <3>2. Len(runs'[t]) = Len(runs[t]) BY <2>2, <3>1 DEF LogKept
    <3> QED BY <3>1, <3>2
  <2>3. ASSUME NEW k \in Tokens, JobRecord(k), job[k].task = t,
               runs'[t] = Append(runs[t], NewRun(k))
        PROVE  Asked(t)
    <3>1. runs'[t][Len(runs'[t])] = NewRun(k) BY <2>1, <2>3
    <3>2. job[k].pc = "start" /\ job[k].step = task[t].step
      BY <1>1, <2>3 DEF JobRecord, RunsInv, StepHeld, Working
    <3>3. runs'[t][Len(runs'[t])].step = task[t].step BY <3>1, <3>2 DEF NewRun
    <3>4. WillRun(k) BY <3>2 DEF WillRun
    <3>5. Repeats(t) => person[t] BY <1>1, <2>3, <3>4 DEF RetryInv, JobForPerson
    <3> QED BY <3>3, <3>5 DEF Repeats, Last
  <2> QED BY <1>1, <2>2, <2>3, LogGrows
<1>2. IInv /\ ExecInv /\ RunsInv /\ RetryInv /\ [Next]_vars => [\A t \in Tasks : Asked(t)]_vars
  BY <1>1
<1> QED BY <1>2, RetryAlways, PTL DEF Spec, NoRetryNeedsPerson

---------------------------------------------------------------------------
(* What callers are offered.                                                *)

\* No delay is set on a task that executes or awaits approval.
NoDelay == \A t \in Tasks : task[t].status \in Executing \cup {"awaiting_approval"} =>
               task[t].due = "null"

\* Only a claim sets a task to execute, and it clears the delay; an ask clears it too.
LEMMA NoDelayNext ==
    ASSUME IInv, NoDelay, [Next]_vars
    PROVE  NoDelay'
<1>1. task \in [Tasks -> Rows] /\ TypeOK /\ Supports BY DEF IInv, TypeOK
<1> DEFINE Waits(row) == row.status \in Executing \cup {"awaiting_approval"} => row.due = "null"
<1>2. SUFFICES ASSUME NEW t \in Tasks PROVE Waits(task'[t])
  BY DEF NoDelay
<1>3. task[t] \in Rows /\ Waits(task[t]) BY <1>1 DEF NoDelay
<1>4. CASE BySettle(t)
  BY <1>3, <1>4 DEF BySettle, Settled, Released, Unlock, Rows, Executing
<1>5. CASE ByBoundary(t)
  <2>1. PICK seen \in Rows, out \in Outcomes :
          task'[t] = Boundary(task[t], seen, out, LatestIsDegraded(runs[t]))
    BY <1>5 DEF ByBoundary
  <2> DEFINE row == task[t]
             degraded == LatestIsDegraded(runs[t])
  <2>2. task'[t] = Boundary(row, seen, out, degraded) BY <2>1
  <2> HIDE DEF row, degraded
  <2>3. row \in Rows BY <1>3 DEF row
  <2>4. task'[t].status \notin Executing /\ (task'[t].status = "awaiting_approval" => task'[t].due = "null")
    BY <2>2, <2>3
       DEF Boundary, BoundarySucceeded, BoundaryDeferred, BoundaryAsked, BoundaryFailed,
           PausedOr, Released, Unlock, FinalStatus, Succeeds, Rows, Executing
  <2> QED BY <2>4
<1>6. CASE ByScheduler(t)
  BY ZenonT(30), <1>3, <1>6 DEF ByScheduler, Claimed, Skipped, Requeued, Unlock, FinalStatus, Rows, Executing
<1>7. CASE ByUser(t)
  BY <1>3, <1>7 DEF ByUser, Decided, Requeued, StillAsRead, Allowed, Decides, Rows, Executing
<1>8. CASE ByClock(t)
  BY <1>3, <1>8 DEF ByClock, Rows
<1> QED BY <1>1, <1>2, <1>3, <1>4, <1>5, <1>6, <1>7, <1>8, RowSteps DEF RowStep

LEMMA NoDelayAlways == Spec => []NoDelay
<1>1. Init => NoDelay BY DEF Init, NewRow, NoDelay, Executing
<1>2. IInv /\ NoDelay /\ [Next]_vars => NoDelay' BY NoDelayNext
<1> QED BY <1>1, <1>2, RunsAlways, PTL DEF Spec

\* What a decision that Decides admits is made of.
LEMMA TakenIs ==
    ASSUME NEW row, NEW act, NEW arg \in Steps \cup RetryCaps \cup {row.grant.attempt, 0},
           Decides([act |-> act, expect |-> row.status, step |-> row.step, arg |-> arg], row)
    PROVE  Taken(row, act) # {}
BY DEF Taken

\* An action that is offered can be taken, from any task that is as invariants say.
LEMMA OfferTaken ==
    ASSUME NEW row \in Rows,
           row.status = "awaiting_approval" => row.grant.kind = "asked" /\ row.grant.step = row.step,
           NEW act \in AvailableActions(row)
    PROVE  Taken(row, act) # {}
<1>1. row.step \in Steps /\ row.status \in Status BY DEF Rows
<1> DEFINE Taking(arg) == [act |-> act, expect |-> row.status, step |-> row.step, arg |-> arg]
<1>2. CASE act \in {"pause", "terminate", "resume", "retry", "reject", "wake"}
  <2>1. Decides(Taking(0), row)
    BY <1>1, <1>2 DEF Decides, AvailableActions, Actions, Terminal
  <2> QED BY <2>1, TakenIs
<1>3. CASE act = "approve"
  <2>1. Decides(Taking(row.grant.attempt), row)
    BY <1>1, <1>3 DEF Decides, AvailableActions, Actions
  <2> QED BY <2>1, TakenIs
<1>4. CASE act = "set_step"
  <2>1. Decides(Taking(row.step), row)
    BY <1>1, <1>4 DEF Decides, AvailableActions, Actions
  <2> QED BY <1>1, <2>1, TakenIs
<1>5. CASE act = "set_retries"
  <2>1. PICK cap : cap \in RetryCaps BY RetryCapsAssumption
  <2>2. Decides(Taking(cap), row) BY <1>5, <2>1 DEF Decides
  <2> QED BY <2>1, <2>2, TakenIs
<1>6. act \in {"pause", "terminate", "resume", "retry", "reject", "wake", "approve",
               "set_step", "set_retries"}
  BY <1>1 DEF AvailableActions, Actions
<1> QED BY <1>2, <1>3, <1>4, <1>5, <1>6

\* Who takes an action that was offered for the task as it is, is not refused.
THEOREM OfferCorrect == Spec => []OfferedIsAccepted
<1>1. IInv /\ AskIsCurrent => OfferedIsAccepted
  <2> SUFFICES ASSUME IInv, AskIsCurrent, NEW t \in Tasks, NEW act \in AvailableActions(task[t])
               PROVE  Taken(task[t], act) # {}
    BY DEF OfferedIsAccepted
  <2>1. task[t] \in Rows BY DEF IInv, TypeOK
  <2>2. task[t].status = "awaiting_approval" =>
          task[t].grant.kind = "asked" /\ task[t].grant.step = task[t].step
    <3>1. \A n : AskedValue(task[t].step, n).kind = "asked"
                 /\ AskedValue(task[t].step, n).step = task[t].step
      BY DEF AskedValue
    <3> QED BY <3>1 DEF AskIsCurrent
  <2> QED BY <2>1, <2>2, OfferTaken
<1> QED BY <1>1, AskCorrect, RunsAlways, PTL

\* A task that waits for a person is never at a dead end: the action the guidance names is
\* accepted, and makes the task runnable at once.
THEOREM WayOnCorrect == Spec => []AlwaysAWayOn
<1>1. IInv /\ NoDelay /\ OfferedIsAccepted => AlwaysAWayOn
  <2> SUFFICES ASSUME IInv, NoDelay, OfferedIsAccepted, NEW t \in Tasks,
                      task[t].status \in {"paused", "failed", "manual_required",
                                          "awaiting_approval"}
               PROVE  /\ Suggested(task[t]) \in AvailableActions(task[t])
                      /\ Taken(task[t], Suggested(task[t])) # {}
                      /\ \A d \in Taken(task[t], Suggested(task[t])) :
                            LET row == Decided(task[t], d)
                            IN  /\ row.status = "queued" /\ row.due = "null"
                                /\ ~row.pause /\ ~row.term
    BY DEF AlwaysAWayOn
  <2>1. task[t] \in Rows /\ FlagsMatch(task[t]) BY DEF IInv, TypeOK, FlagsMatchStatus
  <2>2. Suggested(task[t]) \in AvailableActions(task[t])
    BY DEF Suggested, AvailableActions, Actions
  <2>3. Taken(task[t], Suggested(task[t])) # {} BY <2>2 DEF OfferedIsAccepted
  <2>4. task[t].pause = FALSE /\ task[t].term = FALSE
    BY <2>1 DEF FlagsMatch, Executing, Rows
  <2>5. ASSUME NEW d \in Taken(task[t], Suggested(task[t])), NEW row, row = Decided(task[t], d)
        PROVE  row.status = "queued" /\ row.due = "null" /\ ~row.pause /\ ~row.term
    <3>1. d.act = Suggested(task[t]) BY <2>5 DEF Taken
    <3>2. CASE task[t].status = "paused"
      BY <2>1, <2>4, <2>5, <3>1, <3>2 DEF Suggested, Decided, Rows
    <3>3. CASE task[t].status \in {"failed", "manual_required"}
      BY <2>1, <2>4, <2>5, <3>1, <3>3 DEF Suggested, Decided, Requeued, Rows
    <3>4. CASE task[t].status = "awaiting_approval"
      <4>1. task[t].due = "null" BY <3>4 DEF NoDelay
      <4> QED BY <2>1, <2>4, <2>5, <3>1, <3>4, <4>1 DEF Suggested, Decided, Rows
    <3> QED BY <3>2, <3>3, <3>4
  <2> QED BY <2>2, <2>3, <2>5
<1> QED BY <1>1, NoDelayAlways, OfferCorrect, RunsAlways, PTL

---------------------------------------------------------------------------
(* What the scheduling thread guarantees.                                  *)
---------------------------------------------------------------------------
(* The strengthening.                                                       *)

Recovering == {"settle_running", "settle_pausing"}

\* An executing row names a claim that was handed out.
ClaimsKnown == \A t \in Tasks : task[t].status \in Executing => task[t].token \in Tokens

\* The thread still has the task to settle.
Due(p, t) == t = exec[p].cur \/ \E e \in exec[p].todo : e.id = t

\* Recovery has every task still before it that it must settle in its phase.
Swept ==
    \A p \in Procs, t \in Tasks :
        /\ exec[p].pc = "settle_running" /\ task[t].status = "running" => Due(p, t)
        /\ exec[p].pc = "settle_pausing" /\ task[t].status \in Executing => Due(p, t)

\* How many of its two requests a row carries.
Score(row) == (IF row.pause THEN 1 ELSE 0) + (IF row.term THEN 1 ELSE 0)

\* The requests and the claim a settle read are still there.
ReadsStand(seen, row) ==
    /\ seen.pause => row.pause
    /\ seen.term => row.term
    /\ seen.token = row.token /\ seen.status \in Executing /\ FlagsMatch(seen)

\* Every try of recovery that failed was due to one more request.
TriesCount ==
    \A p \in Procs :
        exec[p].pc \in Recovering /\ exec[p].cur # NoTask
        /\ task[exec[p].cur].status \in Executing =>
              /\ exec[p].sub = "read" => exec[p].tries <= Score(task[exec[p].cur])
              /\ exec[p].sub = "write" =>
                    /\ exec[p].tries <= Score(exec[p].seen) + 1
                    /\ ReadsStand(exec[p].seen, task[exec[p].cur])

RecoveryInv == ClaimsKnown /\ Swept /\ TriesCount /\ RecoveryComplete

---------------------------------------------------------------------------
(* What a step does to a thread in recovery, to claims and to requests.     *)

\* A thread in recovery has just listed tasks, works on its list, or does nothing.
LEMMA RecoverySteps ==
    ASSUME TypeOK, [Next]_vars, NEW p \in Procs, exec'[p].pc \in Recovering
    PROVE  \/ ListRunning(p) \/ ListPausing(p)
           \/ /\ exec'[p].pc = exec[p].pc
              /\ \/ exec'[p] = exec[p]
                 \/ \E e \in exec[p].todo : SettleBegin(p, e)
                 \/ SettleAgain(p) \/ SettleWrite(p) \/ SettleClose(p)
<1>1. exec \in [Procs -> Threads] BY DEF TypeOK
<1> DEFINE Goal == \/ ListRunning(p) \/ ListPausing(p)
                   \/ /\ exec'[p].pc = exec[p].pc
                      /\ \/ exec'[p] = exec[p]
                         \/ \E e \in exec[p].todo : SettleBegin(p, e)
                         \/ SettleAgain(p) \/ SettleWrite(p) \/ SettleClose(p)
<1>2. ASSUME exec'[p] = exec[p] PROVE Goal
  BY <1>2
<1>3. ASSUME NEW q, q # p, NEW thread, exec' = [exec EXCEPT ![q] = thread] PROVE Goal
  BY <1>1, <1>2, <1>3
<1>4. ASSUME NEW pc, NEW todo, NEW load, exec'[p] = Thread(pc, todo, load), pc \notin Recovering
      PROVE  FALSE
  BY <1>4 DEF Thread
<1>5. ASSUME Settle(p) PROVE Goal
  <2>1. ASSUME NEW e \in exec[p].todo, ReclaimSkip(p, e) PROVE FALSE
    <3>1. exec'[p].pc = "reclaim" BY <1>1, <2>1 DEF ReclaimSkip, Drop, Threads
    <3> QED BY <3>1 DEF Recovering
  <2>2. CASE \E e \in exec[p].todo : SettleBegin(p, e)
    <3>1. PICK e \in exec[p].todo : SettleBegin(p, e) BY <2>2
    <3>2. exec'[p] = [SettleReads(p, e.id, 0) EXCEPT !.todo = @ \ {e}]
      BY <1>1, <3>1 DEF SettleBegin
    <3>3. exec'[p].pc = exec[p].pc BY <1>1, <3>2 DEF SettleReads, Threads
    <3> QED BY <2>2, <3>3
  <2>3. CASE SettleAgain(p)
    <3>1. exec'[p] = SettleReads(p, exec[p].cur, exec[p].tries) BY <1>1, <2>3 DEF SettleAgain
    <3>2. exec'[p].pc = exec[p].pc BY <1>1, <3>1 DEF SettleReads, Threads
    <3> QED BY <2>3, <3>2
  <2>4. CASE SettleWrite(p)
    <3>1. PICK sub : exec' = [exec EXCEPT ![p] = [exec[p] EXCEPT !.sub = sub]]
      BY <1>1, <2>4 DEF SettleWrite
    <3>2. exec'[p].pc = exec[p].pc BY <1>1, <3>1 DEF Threads
    <3> QED BY <2>4, <3>2
  <2>5. CASE SettleClose(p)
    <3> DEFINE new == [exec[p] EXCEPT !.cur = NoTask, !.sub = "read",
                                      !.seen = BlankRow, !.tries = 0]
    <3>1. exec' = [exec EXCEPT ![p] = new] BY <1>1, <2>5 DEF SettleClose
    <3>2. new.pc = exec[p].pc BY <1>1 DEF Threads
    <3>3. exec'[p].pc = exec[p].pc BY <1>1, <3>1, <3>2
    <3> QED BY <2>5, <3>3
  <2> QED BY <1>5, <2>1, <2>2, <2>3, <2>4, <2>5 DEF Settle
<1>6. ASSUME Round(p) PROVE Goal
  <2>1. CASE \/ ListStale(p) \/ ListDueFailed(p) \/ CountRunning(p) \/ CountPausing(p)
             \/ ListQueued(p)
    <3>1. PICK pc, todo, load :
            exec' = [exec EXCEPT ![p] = Thread(pc, todo, load)] /\ pc \notin Recovering
      BY <2>1 DEF ListStale, ListDueFailed, CountRunning, CountPausing, ListQueued, Recovering
    <3> QED BY <1>1, <1>4, <3>1
  <2>2. ASSUME NEW e, \/ RequeueFailed(p, e) \/ PassOver(p, e) \/ SkipStep(p, e)
                      \/ Claim(p, e) \/ ClaimBeyondBound(p, e)
        PROVE  FALSE
    <3>1. exec[p].pc \in {"requeue", "schedule"}
      BY <2>2 DEF RequeueFailed, PassOver, SkipStep, Claim, ClaimBeyondBound
    <3>2. Drop(p, e) = [exec EXCEPT ![p] = [exec[p] EXCEPT !.todo = @ \ {e}]]
      BY <1>1 DEF Drop
    <3>3. CASE exec' = Drop(p, e)
      <4>1. exec'[p].pc = exec[p].pc BY <1>1, <3>2, <3>3 DEF Threads
      <4> QED BY <3>1, <4>1 DEF Recovering
    <3>4. CASE exec' = [Drop(p, e) EXCEPT ![p].load[e.row.step] = @ + 1]
      <4> DEFINE new == [exec[p] EXCEPT !.todo = @ \ {e},
                                        !.load = [exec[p].load EXCEPT ![e.row.step] = @ + 1]]
      <4>1. exec'[p] = new BY <1>1, <3>2, <3>4 DEF Threads
      <4>2. new.pc = exec[p].pc BY <1>1 DEF Threads
      <4> QED BY <3>1, <4>1, <4>2 DEF Recovering
    <3> QED BY <2>2, <3>3, <3>4
            DEF RequeueFailed, PassOver, SkipStep, Claim, ClaimBeyondBound
  <2> QED BY <1>6, <2>1, <2>2 DEF Round
<1>7. ASSUME AcquireLock(p) \/ ReleaseLock(p) \/ Upset(p) PROVE FALSE
  <2>1. PICK pc, todo, load :
          exec' = [exec EXCEPT ![p] = Thread(pc, todo, load)] /\ pc \notin Recovering
    BY <1>7
       DEF AcquireLock, ReleaseLock, Upset, RequestStop, Crash, RoundFails, RecoveryFails, Off,
           Recovering
  <2> QED BY <1>1, <1>4, <2>1
<1>8. ASSUME NEW q \in Procs, q # p,
             AcquireLock(q) \/ Recovery(q) \/ Settle(q) \/ ReleaseLock(q) \/ Upset(q) \/ Round(q)
      PROVE  Goal
  <2>1. CASE AcquireLock(q) \/ Recovery(q) \/ ReleaseLock(q) \/ Upset(q)
    BY <1>3, <1>8, <2>1
       DEF AcquireLock, Recovery, ListRunning, ListPausing, ReleaseLock, Upset, RequestStop,
           Crash, RoundFails, RecoveryFails
  <2>2. CASE Settle(q)
    <3>1. exec'[p] = exec[p]
      BY <1>1, <1>8, <2>2
         DEF Settle, ReclaimSkip, SettleBegin, SettleAgain, SettleWrite, SettleClose, Drop
    <3> QED BY <1>2, <3>1
  <2>3. CASE Round(q)
    <3>1. exec'[p] = exec[p]
      BY <1>1, <1>8, <2>3
         DEF Round, ListStale, ListDueFailed, CountRunning, CountPausing, ListQueued,
             RequeueFailed, PassOver, SkipStep, Claim, ClaimBeyondBound, Drop
    <3> QED BY <1>2, <3>1
  <2> QED BY <1>8, <2>1, <2>2, <2>3
<1>9. ASSUME Next PROVE Goal
  <2>1. ASSUME NEW k \in Tokens, Work(k) \/ Heartbeat(k) \/ JobRaises(k) PROVE Goal
    BY <1>2, <2>1
       DEF Work, JobStart, JobAdmit, JobRecord, JobReturn, FinishRead, FinishWrite, Heartbeat,
           JobRaises
  <2>2. ASSUME (\E u \in Users : Command(u)) \/ Clock PROVE Goal
    BY <1>2, <2>2 DEF Command, UserReads, UserWrites, Clock, DelayEnds, HeartbeatAges
  <2>3. ASSUME Recovery(p) PROVE Goal BY <2>3 DEF Recovery
  <2>4. ASSUME NEW q \in Procs, AcquireLock(q) \/ Schedule(q) \/ Upset(q) PROVE Goal
    <3>1. AcquireLock(q) \/ Recovery(q) \/ Settle(q) \/ Round(q) \/ ReleaseLock(q) \/ Upset(q)
      BY <2>4 DEF Schedule
    <3> HIDE DEF Goal
    <3>2. CASE q # p BY <1>8, <3>1, <3>2
    <3>3. CASE q = p BY <1>5, <1>6, <1>7, <2>3, <3>1, <3>3
    <3> QED BY <3>2, <3>3
  <2> HIDE DEF Goal
  <2> QED BY <1>9, <2>1, <2>2, <2>4 DEF Next
<1> QED BY <1>2, <1>9 DEF vars

\* Settling changes a thread, and not its phase.
LEMMA SettlePhase ==
    ASSUME TypeOK, NEW p \in Procs, Settle(p)
    PROVE  \E thread : exec' = [exec EXCEPT ![p] = thread] /\ thread.pc = exec[p].pc
<1>1. exec \in [Procs -> Threads] BY DEF TypeOK
<1>2. \A t, tries : SettleReads(p, t, tries).pc = exec[p].pc
  BY <1>1 DEF SettleReads, Threads
<1>3. CASE \E e : ReclaimSkip(p, e)
  <2>1. PICK e : exec' = [exec EXCEPT ![p] = [exec[p] EXCEPT !.todo = @ \ {e}]]
    BY <1>1, <1>3 DEF ReclaimSkip, Drop
  <2>2. [exec[p] EXCEPT !.todo = @ \ {e}].pc = exec[p].pc BY <1>1 DEF Threads
  <2> QED BY <2>1, <2>2
<1>4. CASE \E e : SettleBegin(p, e)
  <2>1. PICK e : exec' = [exec EXCEPT ![p] =
                              [SettleReads(p, e.id, 0) EXCEPT !.todo = @ \ {e}]]
    BY <1>4 DEF SettleBegin
  <2>2. [SettleReads(p, e.id, 0) EXCEPT !.todo = @ \ {e}].pc = exec[p].pc
    BY <1>1, <1>2 DEF SettleReads, Threads
  <2> QED BY <2>1, <2>2
<1>5. CASE SettleAgain(p)
  BY <1>2, <1>5 DEF SettleAgain
<1>6. CASE SettleWrite(p)
  <2>1. PICK sub : exec' = [exec EXCEPT ![p] = [exec[p] EXCEPT !.sub = sub]]
    BY <1>1, <1>6 DEF SettleWrite
  <2>2. [exec[p] EXCEPT !.sub = sub].pc = exec[p].pc BY <1>1 DEF Threads
  <2> QED BY <2>1, <2>2
<1>7. CASE SettleClose(p)
  <2> DEFINE new == [exec[p] EXCEPT !.cur = NoTask, !.sub = "read",
                                    !.seen = BlankRow, !.tries = 0]
  <2>1. exec' = [exec EXCEPT ![p] = new] BY <1>1, <1>7 DEF SettleClose
  <2>2. new.pc = exec[p].pc BY <1>1 DEF Threads
  <2> QED BY <2>1, <2>2
<1> QED BY <1>3, <1>4, <1>5, <1>6, <1>7 DEF Settle

\* A thread whose rounds have just begun comes from recovery or from another round.
LEMMA LoopSteps ==
    ASSUME TypeOK, [Next]_vars, NEW p \in Procs, exec'[p].pc \in Looping
    PROVE  \/ exec[p].pc \in Looping
           \/ ListStale(p) /\ ListDone(p, "settle_pausing")
<1>1. exec \in [Procs -> Threads] BY DEF TypeOK
<1> DEFINE Goal == \/ exec[p].pc \in Looping
                   \/ ListStale(p) /\ ListDone(p, "settle_pausing")
<1>2. ASSUME Settle(p) PROVE Goal
  BY <1>1, <1>2, SettlePhase
<1>3. ASSUME exec'[p] = exec[p] PROVE Goal
  BY <1>3
<1>4. ASSUME NEW q \in Procs, q # p,
             AcquireLock(q) \/ Recovery(q) \/ Settle(q) \/ Round(q) \/ ReleaseLock(q) \/ Upset(q)
      PROVE  exec'[p] = exec[p]
  <2>1. CASE Settle(q) BY <1>1, <1>4, <2>1, SettlePhase
  <2>2. CASE Round(q)
    BY <1>1, <1>4, <2>2
       DEF Round, ListStale, ListDueFailed, CountRunning, CountPausing, ListQueued,
           RequeueFailed, PassOver, SkipStep, Claim, ClaimBeyondBound, Drop
  <2>3. CASE AcquireLock(q) \/ Recovery(q) \/ ReleaseLock(q) \/ Upset(q)
    BY <1>1, <1>4, <2>3
       DEF AcquireLock, Recovery, ListRunning, ListPausing, ReleaseLock, Upset, RequestStop,
           Crash, RoundFails, RecoveryFails
  <2> QED BY <1>4, <2>1, <2>2, <2>3
<1>5. ASSUME AcquireLock(p) \/ ListRunning(p) \/ ListPausing(p) \/ ReleaseLock(p)
             \/ RequestStop(p) \/ Crash(p) \/ RecoveryFails(p)
      PROVE  FALSE
  <2>1. PICK pc, todo, load :
          exec' = [exec EXCEPT ![p] = Thread(pc, todo, load)] /\ pc \notin Looping
    BY <1>5
       DEF AcquireLock, ListRunning, ListPausing, ReleaseLock, RequestStop, Crash,
           RecoveryFails, Off, Looping
  <2>2. exec'[p].pc = pc BY <1>1, <2>1 DEF Thread
  <2> QED BY <2>1, <2>2
<1>6. ASSUME Round(p) \/ RoundFails(p) PROVE Goal
  <2>1. CASE ListStale(p)
    BY <2>1 DEF ListStale, BetweenRounds, ListDone, Looping
  <2>2. CASE ~ListStale(p)
    BY <1>6, <2>2
       DEF Round, RoundFails, ListDueFailed, CountRunning, CountPausing, ListQueued,
           RequeueFailed, PassOver, SkipStep, Claim, ClaimBeyondBound, ListDone, Looping
  <2> QED BY <2>1, <2>2
<1>7. ASSUME NEW q \in Procs, AcquireLock(q) \/ Schedule(q) \/ Upset(q) PROVE Goal
  <2>1. AcquireLock(q) \/ Recovery(q) \/ Settle(q) \/ Round(q) \/ ReleaseLock(q) \/ Upset(q)
    BY <1>7 DEF Schedule
  <2> HIDE DEF Goal
  <2>2. CASE q # p BY <1>3, <1>4, <2>1, <2>2
  <2>3. CASE q = p BY <1>2, <1>5, <1>6, <2>1, <2>3 DEF Recovery, Upset
  <2> QED BY <2>2, <2>3
<1>8. ASSUME NEW k \in Tokens, Work(k) \/ Heartbeat(k) \/ JobRaises(k) PROVE Goal
  BY <1>3, <1>8
     DEF Work, JobStart, JobAdmit, JobRecord, JobReturn, FinishRead, FinishWrite, Heartbeat,
         JobRaises
<1>9. ASSUME (\E u \in Users : Command(u)) \/ Clock PROVE Goal
  BY <1>3, <1>9 DEF Command, UserReads, UserWrites, Clock, DelayEnds, HeartbeatAges
<1>10. ASSUME UNCHANGED vars PROVE Goal
  BY <1>3, <1>10 DEF vars
<1> HIDE DEF Goal
<1>11. Goal BY <1>7, <1>8, <1>9, <1>10 DEF Next
<1> QED BY <1>11 DEF Goal

---------------------------------------------------------------------------
(* Recovery runs without claims beside it; requests only grow.              *)

\* While a process recovers, nobody claims a task.
LEMMA NoClaims ==
    ASSUME TypeOK, Supports, OnlyHolderRuns, [Next]_vars, NEW p \in Procs,
           exec'[p].pc \in Recovering
    PROVE  \A t \in Tasks : ClaimKept(task[t], task'[t])
<1>1. exec[p].pc \in {"locked"} \cup Recovering
  BY RecoverySteps DEF ListRunning, ListPausing, ListDone, Recovering
<1>2. ASSUME NEW q \in Procs, NEW e \in exec[q].todo, Claim(q, e) PROVE FALSE
  <2>1. exec[q].pc = "schedule" BY <1>2 DEF Claim
  <2>2. lock = q /\ lock = p BY <1>1, <2>1 DEF OnlyHolderRuns, Recovering
  <2> QED BY <1>1, <2>1, <2>2 DEF Recovering
<1> QED BY <1>2, ClaimSteps

\* A task that goes on executing under its claim keeps every request it carries, and does
\* not return from a pause that was requested.
LEMMA RequestsGrow ==
    ASSUME IInv, IInv', [Next]_vars, NEW t \in Tasks, ClaimKept(task[t], task'[t]),
           task'[t].status \in Executing
    PROVE  /\ task[t].status \in Executing
           /\ task'[t].token = task[t].token
           /\ task'[t].status = "running" => task[t].status = "running"
           /\ task[t].pause => task'[t].pause
           /\ task[t].term => task'[t].term
<1>1. FlagsMatch(task[t]) /\ FlagsMatch(task'[t])
  BY DEF IInv, FlagsMatchStatus
<1>2. RequestsKept(task[t], task'[t])
  BY StepKeeps
<1>3. task[t].status \in Executing /\ task'[t].token = task[t].token
  BY DEF ClaimKept
<1>4. task[t].status = "pause_pending" => task'[t].status = "pause_pending"
  BY <1>2 DEF RequestsKept, PauseKept, Executing, Terminal
<1>5. task[t].term => task'[t].term
  BY <1>2 DEF RequestsKept, TerminateKept, Executing
<1> QED BY <1>1, <1>3, <1>4, <1>5 DEF FlagsMatch, Executing

\* So what a settle read stays true of the task, and its requests do not get fewer.
LEMMA ReadsGrow ==
    ASSUME IInv, IInv', [Next]_vars, NEW t \in Tasks, ClaimKept(task[t], task'[t]),
           task'[t].status \in Executing
    PROVE  /\ Score(task[t]) <= Score(task'[t])
           /\ \A seen : ReadsStand(seen, task[t]) => ReadsStand(seen, task'[t])
<1>1. /\ task'[t].token = task[t].token
      /\ task[t].pause => task'[t].pause
      /\ task[t].term => task'[t].term
  BY RequestsGrow
<1> QED BY <1>1 DEF Score, ReadsStand

\* A settle of recovery that may not write has one more request to honour.
LEMMA RefusedForRequest ==
    ASSUME NEW seen \in Rows, NEW row \in Rows, ReadsStand(seen, row), FlagsMatch(row),
           row.status \in Executing, ~SettleMatches(row, seen, FALSE)
    PROVE  Score(seen) + 1 <= Score(row)
<1>1. /\ seen.pause \in BOOLEAN /\ seen.term \in BOOLEAN
      /\ row.pause \in BOOLEAN /\ row.term \in BOOLEAN
  BY DEF Rows
<1>2. /\ seen.pause => row.pause
      /\ seen.term => row.term
      /\ seen.token = row.token
  BY DEF ReadsStand
<1>3. seen.pause <=> seen.status = "pause_pending"
  BY DEF ReadsStand, FlagsMatch
<1>4. row.pause <=> row.status = "pause_pending"
  BY DEF FlagsMatch
<1>5. seen.status \in Executing
  BY DEF ReadsStand
<1>6. (~seen.pause /\ row.pause) \/ (~seen.term /\ row.term)
  <2> SUFFICES ASSUME seen.pause <=> row.pause, seen.term <=> row.term PROVE FALSE
    BY <1>2
  <2>1. seen.status = row.status BY <1>3, <1>4, <1>5 DEF Executing
  <2>2. seen.pause = row.pause /\ seen.term = row.term BY <1>1
  <2> QED BY <1>2, <2>1, <2>2 DEF SettleMatches
<1> QED BY <1>1, <1>2, <1>6 DEF Score

---------------------------------------------------------------------------
(* The parts of the invariant are kept.                                     *)

\* Only a claim makes a row name another claim, and it names one handed out.
LEMMA ClaimsKnownNext ==
    ASSUME TypeOK, Supports, ClaimsKnown, [Next]_vars
    PROVE  ClaimsKnown'
<1>1. /\ exec \in [Procs -> Threads] /\ task \in [Tasks -> Rows] /\ claims \in Nat
      /\ MaxClaims \in Nat
  BY BoundAssumption DEF TypeOK
<1>2. SUFFICES ASSUME NEW t \in Tasks, task'[t].status \in Executing
               PROVE  task'[t].token \in Tokens
  BY DEF ClaimsKnown
<1>3. ASSUME NEW p \in Procs, NEW e \in exec[p].todo, Claim(p, e), t = e.id,
             task[t].status = "queued", ~task[t].term
      PROVE  task'[t].token \in Tokens
  <2>1. task'[t] = Claimed(task[t], claims + 1) BY <1>1, <1>3 DEF Claim
  <2>2. task'[t].token = claims + 1 BY <1>1, <1>3, <2>1 DEF Claimed, Rows
  <2>3. claims < MaxClaims BY <1>3 DEF Claim
  <2> QED BY <1>1, <2>2, <2>3 DEF Tokens
<1>4. ASSUME ClaimKept(task[t], task'[t]) PROVE task'[t].token \in Tokens
  BY <1>2, <1>4 DEF ClaimsKnown, ClaimKept
<1>5. ASSUME NEW p \in Procs, NEW e \in exec[p].todo, Claim(p, e),
             ~(t = e.id /\ task[t].status = "queued" /\ ~task[t].term)
      PROVE  ClaimKept(task[t], task'[t])
  <2>1. e.id \in Tasks BY <1>1 DEF Threads
  <2>2. CASE t # e.id \/ task[t].status # "queued"
    <3>1. task'[t] = task[t] BY <1>1, <1>5, <2>1, <2>2 DEF Claim
    <3> QED BY <3>1 DEF ClaimKept
  <2>3. CASE t = e.id /\ task[t].status = "queued" /\ task[t].term
    <3>1. task'[t] = Claimed(task[t], claims + 1) BY <1>1, <1>5, <2>1, <2>3 DEF Claim
    <3>2. task'[t].status = "terminated" BY <1>1, <2>3, <3>1 DEF Claimed, Unlock, Rows
    <3> QED BY <3>2 DEF ClaimKept, Executing
  <2> QED BY <1>5, <2>2, <2>3
<1> QED BY <1>3, <1>4, <1>5, ClaimSteps

\* What a try of recovery's settle does to its thread.
LEMMA RecoveryReads ==
    ASSUME TypeOK, NEW p \in Procs, exec[p].pc \in Recovering, NEW t \in Tasks, NEW tries \in Nat
    PROVE  LET new == SettleReads(p, t, tries)
           IN  /\ new.todo = exec[p].todo
               /\ \/ /\ new.cur = NoTask
                     /\ task[t].status \in Executing => tries = Attempts
                  \/ /\ new.cur = t /\ new.sub = "write"
                     /\ new.seen = task[t] /\ new.tries = tries + 1
                     /\ task[t].status \in Executing
<1>1. exec[p] \in Threads BY DEF TypeOK
<1>2. ~CheckAlive(p) BY DEF CheckAlive, Recovering
<1> QED BY <1>1, <1>2 DEF SettleReads, Threads

\* Recovery keeps every task on its list that it must settle; the list of the pausing
\* tasks is made when no task runs.
LEMMA SweptNext ==
    ASSUME IInv, ExecInv, RunsInv, IInv', Swept, TriesCount, Attempts >= 3, [Next]_vars
    PROVE  Swept'
<1>1. /\ TypeOK /\ Supports /\ OnlyHolderRuns /\ ClosingReleased
      /\ exec \in [Procs -> Threads] /\ task \in [Tasks -> Rows]
  BY DEF IInv, ExecInv, RunsInv, TypeOK
<1>2. SUFFICES ASSUME NEW p \in Procs, NEW t \in Tasks, exec'[p].pc \in Recovering,
                      task'[t].status \in Executing,
                      exec'[p].pc = "settle_running" => task'[t].status = "running"
               PROVE  t = exec'[p].cur \/ \E e \in exec'[p].todo : e.id = t
  BY DEF Swept, Due, Recovering, Executing
<1>3. ClaimKept(task[t], task'[t]) BY <1>1, <1>2, NoClaims
<1>4. /\ task[t].status \in Executing
      /\ task'[t].status = "running" => task[t].status = "running"
  BY <1>2, <1>3, RequestsGrow
<1> DEFINE Goal == t = exec'[p].cur \/ \E e \in exec'[p].todo : e.id = t
<1>5. ASSUME exec[p].pc = exec'[p].pc PROVE Due(p, t)
  BY <1>2, <1>4, <1>5 DEF Swept, Recovering
<1>6. ASSUME ListRunning(p) PROVE Goal
  <2>1. exec'[p].pc = "settle_running" /\ exec'[p].todo = Listed(InStatus("running"))
    BY <1>1, <1>6 DEF ListRunning, Thread, RecoveryOrder
  <2>2. task' = task BY <1>6 DEF ListRunning, tables
  <2>3. t \in InStatus("running") BY <1>2, <2>1, <2>2 DEF InStatus
  <2>4. [id |-> t, row |-> task[t]] \in exec'[p].todo BY <2>1, <2>3 DEF Listed
  <2> QED BY <2>4
<1>7. ASSUME ListPausing(p) PROVE Goal
  <2>1. exec'[p].todo = Listed(InStatus("pause_pending"))
    BY <1>1, <1>7 DEF ListPausing, Thread, RecoveryOrder
  <2>2. exec[p].pc = "settle_running" /\ exec[p].todo = {} /\ exec[p].cur = NoTask
    BY <1>7 DEF ListPausing, ListDone
  <2>3. task[t].status # "running"
    BY <2>2, NoTaskAssumption DEF Swept, Due
  <2>4. t \in InStatus("pause_pending") BY <1>4, <2>3 DEF InStatus, Executing
  <2>5. [id |-> t, row |-> task[t]] \in exec'[p].todo BY <2>1, <2>4 DEF Listed
  <2> QED BY <2>5
<1>8. ASSUME exec'[p] = exec[p] PROVE Goal
  BY <1>5, <1>8 DEF Due
<1>9. ASSUME NEW e \in exec[p].todo, SettleBegin(p, e), exec'[p].pc = exec[p].pc PROVE Goal
  <2> DEFINE new == SettleReads(p, e.id, 0)
  <2>1. e.id \in Tasks /\ exec[p] \in Threads BY <1>1 DEF Threads
  <2>2. exec'[p] = [new EXCEPT !.todo = @ \ {e}] BY <1>1, <1>9 DEF SettleBegin
  <2>3. new \in Threads BY <1>1, <2>1, SettleReadsType
  <2>4. /\ new.todo = exec[p].todo
        /\ \/ task[e.id].status \in Executing => 0 = Attempts
           \/ new.cur = e.id
    BY <1>1, <1>2, <1>9, <2>1, RecoveryReads
  <2>5. exec'[p].todo = exec[p].todo \ {e} /\ exec'[p].cur = new.cur
    BY <2>2, <2>3, <2>4 DEF Threads
  <2>6. exec[p].cur = NoTask BY <1>9 DEF SettleBegin
  <2>7. PICK f \in exec[p].todo : f.id = t
    BY <1>5, <1>9, <2>6, NoTaskAssumption DEF Due
  <2>8. CASE f = e
    BY <1>4, <2>4, <2>5, <2>7, <2>8
  <2>9. CASE f # e
    BY <2>5, <2>7, <2>9
  <2> QED BY <2>8, <2>9
<1>10. ASSUME SettleAgain(p), exec'[p].pc = exec[p].pc PROVE Goal
  <2> DEFINE new == SettleReads(p, exec[p].cur, exec[p].tries)
  <2>1. exec[p] \in Threads /\ exec[p].cur \in Tasks /\ exec[p].tries \in Nat
        /\ exec[p].sub = "read"
    BY <1>1, <1>10 DEF Threads, SettleAgain
  <2>2. exec'[p] = new BY <1>1, <1>10 DEF SettleAgain
  <2>3. /\ new.todo = exec[p].todo
        /\ \/ task[exec[p].cur].status \in Executing => exec[p].tries = Attempts
           \/ new.cur = exec[p].cur
    BY <1>1, <1>2, <1>10, <2>1, RecoveryReads
  <2>4. task[exec[p].cur].status \in Executing => exec[p].tries # Attempts
    <3>1. task[exec[p].cur].status \in Executing => exec[p].tries <= Score(task[exec[p].cur])
      BY <1>2, <1>10, <2>1, NoTaskAssumption DEF TriesCount
    <3>2. Score(task[exec[p].cur]) \in {0, 1, 2} BY DEF Score
    <3>3. Attempts \in Nat BY BoundAssumption
    <3> QED BY <2>1, <3>1, <3>2, <3>3
  <2>5. Due(p, t) BY <1>5, <1>10
  <2> QED BY <1>4, <2>2, <2>3, <2>4, <2>5 DEF Due
<1>11. ASSUME SettleWrite(p), exec'[p].pc = exec[p].pc PROVE Goal
  <2>1. exec'[p].todo = exec[p].todo /\ exec'[p].cur = exec[p].cur
    <3>1. PICK sub : exec' = [exec EXCEPT ![p] = [exec[p] EXCEPT !.sub = sub]]
      BY <1>1, <1>11 DEF SettleWrite
    <3> QED BY <1>1, <3>1 DEF Threads
  <2> QED BY <1>5, <1>11, <2>1 DEF Due
<1>12. ASSUME SettleClose(p), exec'[p].pc = exec[p].pc PROVE Goal
  <2>1. exec'[p].todo = exec[p].todo BY <1>1, <1>12 DEF SettleClose, Threads
  <2>2. exec[p].cur # NoTask /\ exec[p].sub = "close" BY <1>12 DEF SettleClose
  <2>3. task[exec[p].cur].status \notin Executing BY <1>1, <2>2 DEF ClosingReleased
  <2> QED BY <1>4, <1>5, <1>12, <2>1, <2>3 DEF Due
<1> HIDE DEF Goal
<1>13. Goal
  BY <1>1, <1>2, <1>6, <1>7, <1>8, <1>9, <1>10, <1>11, <1>12, RecoverySteps
<1> QED BY <1>13 DEF Goal

\* Each further try of recovery is due to a request made since the one before.
LEMMA TriesCountNext ==
    ASSUME IInv, ExecInv, RunsInv, IInv', TriesCount, [Next]_vars
    PROVE  TriesCount'
<1>1. /\ TypeOK /\ Supports /\ OnlyHolderRuns
      /\ exec \in [Procs -> Threads] /\ task \in [Tasks -> Rows] /\ exec' \in [Procs -> Threads]
  BY DEF IInv, ExecInv, RunsInv, TypeOK
<1> DEFINE Counts(thread, row) ==
              /\ thread.sub = "read" => thread.tries <= Score(row)
              /\ thread.sub = "write" => /\ thread.tries <= Score(thread.seen) + 1
                                         /\ ReadsStand(thread.seen, row)
<1>2. SUFFICES ASSUME NEW p \in Procs, exec'[p].pc \in Recovering, exec'[p].cur # NoTask,
                      task'[exec'[p].cur].status \in Executing
               PROVE  Counts(exec'[p], task'[exec'[p].cur])
  BY DEF TriesCount
<1> DEFINE t == exec'[p].cur
<1>3. t \in Tasks BY <1>1, <1>2 DEF Threads
<1>4. ClaimKept(task[t], task'[t]) BY <1>1, <1>2, <1>3, NoClaims
<1>5. task[t].status \in Executing BY <1>2, <1>4 DEF ClaimKept
<1> DEFINE Goal == Counts(exec'[p], task'[t])
<1>6. ASSUME ListRunning(p) \/ ListPausing(p) PROVE FALSE
  <2>1. PICK pc, todo, load : exec' = [exec EXCEPT ![p] = Thread(pc, todo, load)]
    BY <1>6 DEF ListRunning, ListPausing
  <2>2. exec'[p].cur = NoTask BY <1>1, <2>1 DEF Thread
  <2> QED BY <1>2, <2>2
<1>7. ASSUME exec'[p] = exec[p] PROVE Goal
  <2>1. Counts(exec[p], task[t]) BY <1>2, <1>5, <1>7 DEF TriesCount
  <2>2. /\ Score(task[t]) <= Score(task'[t])
        /\ \A seen : ReadsStand(seen, task[t]) => ReadsStand(seen, task'[t])
    BY <1>1, <1>2, <1>3, <1>4, ReadsGrow
  <2>3. exec[p].tries \in Nat BY <1>1 DEF Threads
  <2>4. Score(task[t]) \in Nat /\ Score(task'[t]) \in Nat BY DEF Score
  <2> QED BY <1>7, <2>1, <2>2, <2>3, <2>4
<1>8. ASSUME NEW tries \in Nat, exec[p].pc \in Recovering, task' = task, exec'[p].sub = "write",
             exec'[p].seen = task[t], exec'[p].tries = tries + 1,
             tries <= Score(task[t])
      PROVE  Goal
  <2>1. FlagsMatch(task[t]) BY <1>3 DEF IInv, FlagsMatchStatus
  <2>2. ReadsStand(task[t], task[t]) BY <1>5, <2>1 DEF ReadsStand
  <2>3. Score(task[t]) \in Nat BY DEF Score
  <2> QED BY <1>8, <2>2, <2>3
<1>9. ASSUME NEW e \in exec[p].todo, SettleBegin(p, e), exec'[p].pc = exec[p].pc PROVE Goal
  <2> DEFINE new == SettleReads(p, e.id, 0)
  <2>1. e.id \in Tasks /\ exec[p] \in Threads BY <1>1 DEF Threads
  <2>2. exec'[p] = [new EXCEPT !.todo = @ \ {e}] BY <1>1, <1>9 DEF SettleBegin
  <2>3. new \in Threads BY <1>1, <2>1, SettleReadsType
  <2>4. \/ new.cur = NoTask
        \/ /\ new.cur = e.id /\ new.sub = "write" /\ new.seen = task[e.id] /\ new.tries = 0 + 1
    BY <1>1, <1>2, <1>9, <2>1, RecoveryReads
  <2>5. /\ exec'[p].cur = new.cur /\ exec'[p].sub = new.sub
        /\ exec'[p].seen = new.seen /\ exec'[p].tries = new.tries
    BY <2>2, <2>3 DEF Threads
  <2>6. task' = task BY <1>9 DEF SettleBegin, tables
  <2>7. 0 <= Score(task[t]) BY DEF Score
  <2> HIDE DEF new, Goal
  <2> QED BY <1>2, <1>8, <1>9, <2>4, <2>5, <2>6, <2>7
<1>10. ASSUME SettleAgain(p), exec'[p].pc = exec[p].pc PROVE Goal
  <2> DEFINE new == SettleReads(p, exec[p].cur, exec[p].tries)
  <2>1. exec[p] \in Threads /\ exec[p].cur \in Tasks /\ exec[p].tries \in Nat
        /\ exec[p].sub = "read"
    BY <1>1, <1>10 DEF Threads, SettleAgain
  <2>2. exec'[p] = new BY <1>1, <1>10 DEF SettleAgain
  <2>3. \/ new.cur = NoTask
        \/ /\ new.cur = exec[p].cur /\ new.sub = "write" /\ new.seen = task[exec[p].cur]
           /\ new.tries = exec[p].tries + 1
    BY <1>1, <1>2, <1>10, <2>1, RecoveryReads
  <2>4. task' = task BY <1>10 DEF SettleAgain, tables
  <2>5. t = exec[p].cur BY <1>2, <2>2, <2>3
  <2>6. exec[p].tries <= Score(task[t])
    BY <1>2, <1>5, <1>10, <2>1, <2>5, NoTaskAssumption DEF TriesCount
  <2> HIDE DEF new, Goal
  <2> QED BY <1>2, <1>8, <1>10, <2>1, <2>2, <2>3, <2>4, <2>5, <2>6
<1>11. ASSUME SettleWrite(p), exec'[p].pc = exec[p].pc PROVE Goal
  <2>1. exec[p] \in Threads /\ exec[p].cur \in Tasks /\ exec[p].sub = "write"
    BY <1>1, <1>11 DEF Threads, SettleWrite
  <2>2. exec[p].seen \in Rows /\ exec[p].tries \in Nat BY <2>1 DEF Threads
  <2>3. PICK sub : exec' = [exec EXCEPT ![p] = [exec[p] EXCEPT !.sub = sub]]
                   /\ (sub = "close" \/ /\ ~SettleMatches(task[exec[p].cur], exec[p].seen, CheckAlive(p))
                                        /\ sub = "read" /\ task' = task)
    BY <1>1, <1>11 DEF SettleWrite
  <2>4. /\ exec'[p].cur = exec[p].cur /\ exec'[p].sub = sub /\ exec'[p].tries = exec[p].tries
    BY <1>1, <2>1, <2>3 DEF Threads
  <2>5. CASE sub = "close" BY <2>4, <2>5
  <2>6. CASE sub = "read"
    <3>1. /\ ~SettleMatches(task[t], exec[p].seen, FALSE) /\ task' = task
      BY <1>2, <1>11, <2>3, <2>4, <2>6 DEF CheckAlive, Recovering
    <3>2. /\ exec[p].tries <= Score(exec[p].seen) + 1
          /\ ReadsStand(exec[p].seen, task[t])
      BY <1>2, <1>5, <1>11, <2>1, <2>4 DEF TriesCount
    <3>3. FlagsMatch(task[t]) BY <1>3 DEF IInv, FlagsMatchStatus
    <3>4. Score(exec[p].seen) + 1 <= Score(task[t])
      BY <1>1, <1>3, <1>5, <2>2, <3>1, <3>2, <3>3, RefusedForRequest
    <3>5. Score(exec[p].seen) \in Nat /\ Score(task[t]) \in Nat BY DEF Score
    <3>6. exec'[p].tries <= Score(task'[t]) BY <2>2, <2>4, <3>1, <3>2, <3>4, <3>5
    <3> QED BY <2>4, <2>6, <3>6
  <2> QED BY <2>3, <2>5, <2>6
<1>12. ASSUME SettleClose(p) PROVE FALSE
  <2>1. exec'[p].cur = NoTask BY <1>1, <1>12 DEF SettleClose, Threads
  <2> QED BY <1>2, <2>1
<1> HIDE DEF Goal
<1>13. Goal
  BY <1>1, <1>2, <1>6, <1>7, <1>9, <1>10, <1>11, <1>12, RecoverySteps
<1> QED BY <1>13 DEF Goal

\* A job whose process goes away leaves no thread of that process behind.
LEMMA DeadSteps ==
    ASSUME TypeOK, [Next]_vars, NEW k \in Tokens, job[k].pc # "dead", job'[k].pc = "dead"
    PROVE  \E q \in Procs : exec[q].pc # "off" /\ exec' = [exec EXCEPT ![q] = Off]
<1>1. /\ job \in [Tokens -> Jobs] /\ exec \in [Procs -> Threads] /\ claims \in Nat
      /\ Tokens \subseteq Nat
  BY BoundAssumption DEF TypeOK, Tokens
<1>2. ASSUME NEW q \in Procs, ReleaseLock(q) \/ Crash(q)
      PROVE  exec[q].pc # "off" /\ exec' = [exec EXCEPT ![q] = Off]
  BY <1>2 DEF ReleaseLock, Crash
<1>3. ASSUME job' = job PROVE FALSE
  BY <1>3
<1>4. ASSUME NEW q \in Procs, AcquireLock(q) \/ Recovery(q) \/ Settle(q)
      PROVE  FALSE
  BY <1>3, <1>4
     DEF AcquireLock, Recovery, ListRunning, ListPausing, Settle, ReclaimSkip, SettleBegin,
         SettleAgain, SettleWrite, SettleClose
<1>5. ASSUME NEW q \in Procs, Round(q)
      PROVE  FALSE
  <2>1. ASSUME NEW e \in exec[q].todo, Claim(q, e) PROVE FALSE
    <3>1. job' = job \/ job' = [job EXCEPT ![claims + 1] = Job("queued", q, e.id)]
      BY <2>1 DEF Claim
    <3> QED BY <1>1, <1>3, <3>1 DEF Job
  <2> QED BY <1>3, <1>5, <2>1
          DEF Round, ListStale, ListDueFailed, CountRunning, CountPausing, ListQueued,
              RequeueFailed, PassOver, SkipStep, ClaimBeyondBound
<1>6. ASSUME NEW q \in Procs, RequestStop(q) \/ RoundFails(q) \/ RecoveryFails(q)
      PROVE  FALSE
  BY <1>3, <1>6 DEF RequestStop, RoundFails, RecoveryFails
<1>7. ASSUME NEW j \in Tokens, Work(j) \/ Heartbeat(j) \/ JobRaises(j) PROVE FALSE
  <2>1. ASSUME NEW x, x.pc # "dead", job' = [job EXCEPT ![j] = x] PROVE FALSE
    BY <1>1, <2>1
  <2>2. Job("done", job[j].proc, job[j].task).pc # "dead" BY DEF Job
  <2>3. CASE JobStart(j)
    <3> DEFINE to(pc) == [job[j] EXCEPT !.pc = pc, !.step = task[job[j].task].step,
                                        !.grant = task[job[j].task].grant]
    <3>1. to("finish").pc # "dead" /\ to("admit").pc # "dead" BY <1>1 DEF Jobs
    <3>2. \/ job' = [job EXCEPT ![j] = to("finish")] \/ job' = [job EXCEPT ![j] = to("admit")]
          \/ job' = Ended(j)
      BY <1>1, <2>3 DEF JobStart
    <3> QED BY <2>1, <2>2, <3>1, <3>2 DEF Ended
  <2>4. CASE JobAdmit(j) \/ JobRecord(j) \/ \E kind \in Returns(job[j].step) : JobReturn(j, kind)
    <3>1. job[j] \in Jobs BY <1>1
    <3>2. PICK x : job' = [job EXCEPT ![j] = x] /\ x.pc \in {"start", "finish", "run"}
      <4>1. CASE JobAdmit(j)
        <5> DEFINE attempt == RunCount(job[j].task, job[j].step) + 1
                   start == [job[j] EXCEPT !.pc = "start", !.attempt = attempt]
                   refused(kind) == [job[j] EXCEPT !.pc = "finish",
                                          !.out = [kind |-> kind, attempt |-> attempt]]
        <5>1. job' = [job EXCEPT ![j] = start] \/ \E kind : job' = [job EXCEPT ![j] = refused(kind)]
          BY <1>1, <4>1 DEF JobAdmit
        <5>2. start.pc = "start" /\ \A kind : refused(kind).pc = "finish" BY <3>1 DEF Jobs
        <5> QED BY ZenonT(30), <5>1, <5>2
      <4>2. CASE JobRecord(j)
        <5> DEFINE new == [job[j] EXCEPT !.pc = "run", !.run = Len(runs[job[j].task]) + 1]
        <5>1. job' = [job EXCEPT ![j] = new] BY <1>1, <4>2 DEF JobRecord
        <5>2. new.pc = "run" BY <3>1 DEF Jobs
        <5> QED BY <5>1, <5>2
      <4>3. ASSUME NEW kind, JobReturn(j, kind)
            PROVE  \E x : job' = [job EXCEPT ![j] = x] /\ x.pc \in {"start", "finish", "run"}
        <5> DEFINE new == [job[j] EXCEPT !.pc = "finish", !.out = [kind |-> kind, attempt |-> 0]]
        <5>1. job' = [job EXCEPT ![j] = new] BY <1>1, <4>3 DEF JobReturn
        <5>2. new.pc = "finish" BY <3>1 DEF Jobs
        <5> QED BY <5>1, <5>2
      <4> QED BY <2>4, <4>1, <4>2, <4>3
    <3> QED BY <2>1, <3>2
  <2>5. CASE FinishRead(j) \/ FinishWrite(j)
    <3>1. job'[j].pc # "dead" BY <1>1, <2>5, FinishSteps
    <3>2. \A i \in Tokens : i # j => job'[i] = job[i]
      BY <1>1, <2>5 DEF FinishRead, FinishWrite, Ended
    <3> QED BY <3>1, <3>2
  <2>6. CASE Heartbeat(j) BY <1>3, <2>6 DEF Heartbeat
  <2>7. CASE JobRaises(j) BY <2>1, <2>2, <2>7 DEF JobRaises, Ended
  <2> QED BY <1>7, <2>3, <2>4, <2>5, <2>6, <2>7 DEF Work
<1>8. ASSUME (\E u \in Users : Command(u)) \/ Clock \/ UNCHANGED vars PROVE FALSE
  BY <1>3, <1>8 DEF Command, UserReads, UserWrites, Clock, DelayEnds, HeartbeatAges, vars
<1> QED BY <1>2, <1>4, <1>5, <1>6, <1>7, <1>8 DEF Next, Schedule, Upset

\* Once rounds begin nothing executes under a dead claim, and while they go on no claim
\* of theirs dies.
LEMMA RecoveryCompleteNext ==
    ASSUME IInv, ExecInv, RunsInv, ClaimsKnown, Swept, RecoveryComplete, [Next]_vars
    PROVE  RecoveryComplete'
<1>1. /\ TypeOK /\ Supports /\ OnlyHolderRuns /\ FreshTokens
      /\ exec \in [Procs -> Threads] /\ task \in [Tasks -> Rows] /\ job \in [Tokens -> Jobs]
      /\ claims \in Nat /\ MaxClaims \in Nat
  BY SMTT(30), BoundAssumption DEF IInv, ExecInv, RunsInv, TypeOK
<1>2. SUFFICES ASSUME NEW p \in Procs, exec'[p].pc \in Looping,
                      NEW t \in Tasks, task'[t].status \in Executing,
                      job'[task'[t].token].pc = "dead"
               PROVE  FALSE
  BY DEF RecoveryComplete
<1>3. CASE exec[p].pc \notin Looping
  <2>1. ListStale(p) /\ ListDone(p, "settle_pausing") BY <1>1, <1>2, <1>3, LoopSteps
  <2>2. task'[t] = task[t] BY <2>1 DEF ListStale, tables
  <2>3. exec[p].pc = "settle_pausing" /\ exec[p].todo = {} /\ exec[p].cur = NoTask
    BY <2>1 DEF ListDone
  <2> QED BY <1>2, <2>2, <2>3, NoTaskAssumption DEF Swept, Due
<1>4. CASE exec[p].pc \in Looping
  <2>1. ASSUME ClaimKept(task[t], task'[t]) PROVE FALSE
    <3> DEFINE k == task[t].token
    <3>1. task[t].status \in Executing /\ task'[t].token = k
      BY <1>2, <2>1 DEF ClaimKept
    <3>2. k \in Tokens /\ job[k].pc # "dead"
      BY <1>4, <3>1 DEF ClaimsKnown, RecoveryComplete
    <3>3. job'[k].pc = "dead" BY <1>2, <3>1
    <3> HIDE DEF k
    <3>4. PICK q \in Procs : exec[q].pc # "off" /\ exec' = [exec EXCEPT ![q] = Off]
      BY <1>1, <3>2, <3>3, DeadSteps
    <3>5. q = p BY <1>4, <3>4 DEF OnlyHolderRuns, Looping, ExecInv
    <3>6. exec'[p].pc = "off" BY <1>1, <3>4, <3>5 DEF Off, Thread
    <3> QED BY <1>2, <3>6 DEF Looping
  <2>2. ASSUME NEW q \in Procs, NEW e \in exec[q].todo, Claim(q, e) PROVE FALSE
    <3>1. e.id \in Tasks BY <1>1 DEF Threads
    <3>2. CASE task'[t] = task[t] BY <2>1, <3>2 DEF ClaimKept
    <3>3. CASE t = e.id /\ task[t].status = "queued" /\ task[t].term
      <4>1. task'[t] = Claimed(task[t], claims + 1) BY <1>1, <2>2, <3>1, <3>3 DEF Claim
      <4>2. task'[t].status = "terminated" BY <1>1, <3>3, <4>1 DEF Claimed, Unlock, Rows
      <4> QED BY <1>2, <4>2 DEF Executing
    <3>4. CASE t = e.id /\ task[t].status = "queued" /\ ~task[t].term
      <4>1. task'[t] = Claimed(task[t], claims + 1) /\ claims < MaxClaims
        BY <1>1, <2>2, <3>1, <3>4 DEF Claim
      <4>2. task'[t].token = claims + 1 BY <1>1, <3>4, <4>1 DEF Claimed, Rows
      <4>3. claims + 1 \in Tokens BY <1>1, <4>1 DEF Tokens
      <4>4. job' = [job EXCEPT ![claims + 1] = Job("queued", q, e.id)]
        BY <2>2, <3>4 DEF Claim
      <4>5. job'[claims + 1].pc = "queued" BY <1>1, <4>3, <4>4 DEF Job
      <4> QED BY <1>2, <4>2, <4>5
    <3>5. t # e.id \/ task[t].status # "queued" => task'[t] = task[t]
      BY <1>1, <2>2, <3>1 DEF Claim
    <3> QED BY <3>2, <3>3, <3>4, <3>5
  <2> QED BY <1>1, <2>1, <2>2, ClaimSteps
<1> QED BY <1>3, <1>4

---------------------------------------------------------------------------
\* The invariant holds when a settle has three tries.
LEMMA RecoveryInit == Init => RecoveryInv
BY DEF Init, RecoveryInv, ClaimsKnown, Swept, TriesCount, RecoveryComplete, Off, Thread, NewRow,
       Executing, Looping, Recovering

\* Every step keeps the strengthening.
LEMMA RecoveryInvNext ==
    ASSUME IInv, ExecInv, RunsInv, IInv', RecoveryInv, Attempts >= 3, [Next]_vars
    PROVE  RecoveryInv'
BY ClaimsKnownNext, SweptNext, TriesCountNext, RecoveryCompleteNext DEF RecoveryInv, IInv

\* Startup recovery is complete if a settle has three tries (_ATTEMPTS is 5): whatever users do
\* while a process recovers, its rounds begin with no task left to a claim whose process is
\* gone, and never meet one.
THEOREM RecoveryCorrect ==
    ASSUME Attempts >= 3
    PROVE  Spec => []RecoveryComplete
<1>1. IInv /\ ExecInv /\ RunsInv /\ IInv' /\ RecoveryInv /\ [Next]_vars => RecoveryInv'
  BY RecoveryInvNext
<1>2. RecoveryInv => RecoveryComplete
  BY DEF RecoveryInv
<1> QED BY <1>1, <1>2, RecoveryInit, RunsAlways, PTL DEF Spec

---------------------------------------------------------------------------
(* The quotas: the strengthening.                                           *)

\* Every pending decision is one of an action users take here.
RequestsFromActs == \A u \in Users : \A r \in request[u] : r.decision.act \in UserActs

\* What a task does that was queued when it was listed, until it is claimed: it may rest
\* and be queued again.
Resting == {"queued", "paused"} \cup Terminal

\* A row the scheduler listed has its task still on the listed step, not executing.
ListedStays ==
    \A p \in Procs : exec[p].pc = "schedule" =>
        \A e \in exec[p].todo :
            /\ task[e.id].status \in Resting /\ task[e.id].step = e.row.step
            /\ \A f \in exec[p].todo : f.id = e.id => f = e

\* The tasks that hold a slot of a step, and those of them that still run.
Held(s) == {t \in Tasks : task[t].status \in Executing /\ task[t].step = s}
RunningAt(s) == {t \in Tasks : task[t].status = "running" /\ task[t].step = s}

\* The load the scheduler counted is no less than the slots in use.
LoadCounts ==
    \A p \in Procs, s \in Steps :
        /\ exec[p].pc = "count" => Cardinality(RunningAt(s)) <= exec[p].load[s]
        /\ exec[p].pc = "counted" \/ (exec[p].pc = "schedule" /\ exec[p].todo # {}) =>
              Cardinality(Held(s)) <= exec[p].load[s]

QuotaInv == RequestsFromActs /\ ListedStays /\ LoadCounts /\ QuotaRespected

---------------------------------------------------------------------------
(* What a step does to the scheduler and to the slots.                      *)

\* Nobody but its process changes a scheduling thread.
LEMMA OwnSteps ==
    ASSUME TypeOK, [Next]_vars, NEW p \in Procs, exec'[p] # exec[p]
    PROVE  \/ AcquireLock(p) \/ Recovery(p) \/ Settle(p) \/ Round(p) \/ ReleaseLock(p)
           \/ Upset(p)
<1>1. exec \in [Procs -> Threads] BY DEF TypeOK
<1>2. exec' # exec BY <1>1
<1>3. ASSUME NEW q \in Procs, q # p,
             AcquireLock(q) \/ Recovery(q) \/ Settle(q) \/ Round(q) \/ ReleaseLock(q) \/ Upset(q)
      PROVE  FALSE
  <2>1. CASE Settle(q) BY <1>1, <1>3, <2>1, SettlePhase
  <2>2. CASE Round(q)
    BY <1>1, <1>3, <2>2
       DEF Round, ListStale, ListDueFailed, CountRunning, CountPausing, ListQueued,
           RequeueFailed, PassOver, SkipStep, Claim, ClaimBeyondBound, Drop
  <2>3. CASE AcquireLock(q) \/ Recovery(q) \/ ReleaseLock(q) \/ Upset(q)
    BY <1>1, <1>3, <2>3
       DEF AcquireLock, Recovery, ListRunning, ListPausing, ReleaseLock, Upset, RequestStop,
           Crash, RoundFails, RecoveryFails
  <2> QED BY <1>3, <2>1, <2>2, <2>3
<1>4. ASSUME NEW k \in Tokens, Work(k) \/ Heartbeat(k) \/ JobRaises(k) PROVE FALSE
  BY <1>2, <1>4
     DEF Work, JobStart, JobAdmit, JobRecord, JobReturn, FinishRead, FinishWrite, Heartbeat,
         JobRaises
<1>5. ASSUME (\E u \in Users : Command(u)) \/ Clock \/ UNCHANGED vars PROVE FALSE
  BY <1>2, <1>5 DEF Command, UserReads, UserWrites, Clock, DelayEnds, HeartbeatAges, vars
<1>6. PICK q \in Procs : AcquireLock(q) \/ Schedule(q) \/ Upset(q)
  BY <1>4, <1>5 DEF Next
<1>7. AcquireLock(q) \/ Recovery(q) \/ Settle(q) \/ Round(q) \/ ReleaseLock(q) \/ Upset(q)
  BY <1>6 DEF Schedule
<1>8. q = p BY <1>3, <1>7
<1> QED BY <1>7, <1>8

\* Where a tick counts and schedules.
Filling == {"count", "counted", "schedule"}

\* Dealing with one listed row.
Handles(p, e) == PassOver(p, e) \/ SkipStep(p, e) \/ Claim(p, e) \/ ClaimBeyondBound(p, e)

\* A thread that counts and schedules does so step by step, or has failed its round.
LEMMA TickSteps ==
    ASSUME TypeOK, SettlesInPhase, [Next]_vars, NEW p \in Procs, exec'[p].pc \in Filling
    PROVE  \/ exec'[p] = exec[p]
           \/ CountRunning(p) \/ CountPausing(p) \/ ListQueued(p)
           \/ \E e \in exec[p].todo : Handles(p, e)
           \/ RoundFails(p)
<1>1. exec \in [Procs -> Threads] BY DEF TypeOK
<1>2. ASSUME Settle(p) PROVE FALSE
  <2>1. exec'[p].pc = exec[p].pc BY <1>1, <1>2, SettlePhase
  <2>2. Settling(p)
    BY <1>2 DEF Settle, ReclaimSkip, SettleBegin, SettleAgain, SettleWrite, SettleClose,
                SettlesInPhase, Settling
  <2> QED BY <2>1, <2>2 DEF Settling, Filling
<1>3. ASSUME AcquireLock(p) \/ ListRunning(p) \/ ListPausing(p) \/ ListStale(p)
             \/ ListDueFailed(p) \/ ReleaseLock(p) \/ RequestStop(p) \/ Crash(p)
             \/ RecoveryFails(p)
      PROVE  FALSE
  <2>1. PICK pc, todo, load :
          exec' = [exec EXCEPT ![p] = Thread(pc, todo, load)] /\ pc \notin Filling
    BY <1>3
       DEF AcquireLock, ListRunning, ListPausing, ListStale, ListDueFailed, ReleaseLock,
           RequestStop, Crash, RecoveryFails, Off, Filling
  <2>2. exec'[p].pc = pc BY <1>1, <2>1 DEF Thread
  <2> QED BY <2>1, <2>2
<1>4. ASSUME NEW e \in exec[p].todo, RequeueFailed(p, e) PROVE FALSE
  <2>1. exec'[p].pc = "requeue" BY <1>1, <1>4 DEF RequeueFailed, Drop, Threads
  <2> QED BY <2>1 DEF Filling
<1> QED BY <1>2, <1>3, <1>4, OwnSteps DEF Recovery, Round, Upset, Handles

\* A row that rests goes on resting on its step, unless the scheduler deals with it.
LEMMA RestingStays ==
    ASSUME IInv, RequestsFromActs, "force_step" \notin UserActs, [Next]_vars,
           NEW t \in Tasks, task[t].status \in Resting,
           \A p \in Procs : \A e \in exec[p].todo : Handles(p, e) => e.id # t
    PROVE  task'[t].status \in Resting /\ task'[t].step = task[t].step
<1>1. /\ TypeOK /\ Supports /\ task \in [Tasks -> Rows] /\ exec \in [Procs -> Threads]
      /\ task[t] \in Rows /\ FlagsMatch(task[t])
  BY DEF IInv, TypeOK, FlagsMatchStatus
<1>2. task[t].token = 0 /\ task[t].status \notin Executing \cup {"failed"}
  BY <1>1 DEF FlagsMatch, NoToken, Resting, Executing, Terminal
<1> DEFINE Goal == task'[t].status \in Resting /\ task'[t].step = task[t].step
<1>3. ASSUME task'[t] = task[t] PROVE Goal
  BY <1>3
<1>4. ASSUME NEW p \in Procs, SettleWrite(p) PROVE Goal
  <2>1. task[exec[p].cur] = task[t] => ~SettleMatches(task[t], exec[p].seen, CheckAlive(p))
    BY <1>2, <1>4 DEF SettleWrite, Supports, SettlesExecuting, SettleMatches, IInv
  <2> QED BY <1>1, <1>3, <1>4, <2>1 DEF SettleWrite
<1>5. ASSUME NEW k \in Tokens, FinishWrite(k) \/ Heartbeat(k) PROVE Goal
  <2>1. k # 0 BY DEF Tokens
  <2>2. task[job[k].task] = task[t] => ~FinishMatches(task[t], job[k].seen, k)
    BY <1>2, <2>1 DEF FinishMatches
  <2> QED BY <1>1, <1>2, <1>3, <1>5, <2>1, <2>2 DEF FinishWrite, Heartbeat
<1>6. ASSUME NEW p \in Procs, NEW e \in exec[p].todo,
             RequeueFailed(p, e) \/ SkipStep(p, e) \/ Claim(p, e)
      PROVE  Goal
  <2>1. e.id \in Tasks BY <1>1 DEF Threads
  <2>2. CASE RequeueFailed(p, e)
    BY <1>1, <1>2, <1>3, <2>1, <2>2 DEF RequeueFailed
  <2>3. CASE SkipStep(p, e) \/ Claim(p, e)
    <3>1. e.id # t BY <2>3 DEF Handles
    <3> QED BY <1>1, <1>3, <2>1, <2>3, <3>1 DEF SkipStep, Claim
  <2> QED BY <1>6, <2>2, <2>3
<1>7. ASSUME NEW u \in Users, NEW r \in request[u], UserWrites(u, r.task, r.decision) PROVE Goal
  <2> DEFINE d == r.decision
  <2>1. d \in Allowed /\ d.act \in UserActs BY DEF IInv, Supports, RequestsAllowed, RequestsFromActs
  <2>2. PICK read \in Rows : Decides(d, read) BY <2>1 DEF Allowed
  <2>3. CASE r.task = t /\ StillAsRead(task[t], d)
    <3>1. task'[t] = Decided(task[t], d) BY <1>1, <1>7, <2>3 DEF UserWrites
    <3>2. d.expect = task[t].status /\ d.expect = read.status
      BY <2>2, <2>3 DEF StillAsRead, Decides
    <3>3. d.act \in {"pause", "terminate", "resume", "wake", "set_retries"}
      BY <1>2, <2>1, <2>2, <3>2 DEF Decides, Resting, Terminal
    <3>4. CASE d.act = "pause" \/ d.act = "terminate"
      BY <1>1, <1>2, <2>2, <3>1, <3>2, <3>4 DEF Decided, Decides, Rows, Resting, Terminal, Executing
    <3>5. CASE d.act \in {"resume", "wake", "set_retries"}
      BY <1>1, <1>2, <3>1, <3>5 DEF Decided, Rows, Resting
    <3> QED BY <3>3, <3>4, <3>5
  <2>4. CASE ~(r.task = t /\ StillAsRead(task[t], d))
    BY <1>1, <1>3, <1>7, <2>4 DEF UserWrites
  <2> QED BY <2>3, <2>4
<1>8. ASSUME NEW x \in Tasks, DelayEnds(x) \/ HeartbeatAges(x) PROVE Goal
  <2>1. PICK row : /\ task' = [task EXCEPT ![x] = row]
                   /\ \/ row = [task[x] EXCEPT !.due = "past"]
                      \/ row = [task[x] EXCEPT !.beat = "old"]
    BY <1>1, <1>8 DEF DelayEnds, HeartbeatAges
  <2>2. row.status = task[x].status /\ row.step = task[x].step BY <1>1, <2>1 DEF Rows
  <2> QED BY <1>1, <1>3, <2>1, <2>2
<1>9. ASSUME task' = task PROVE Goal
  BY <1>3, <1>9
<1> HIDE DEF Goal
<1>10. ASSUME Next PROVE Goal
  <2>1. CASE \E p \in Procs : AcquireLock(p) \/ Recovery(p) \/ ReleaseLock(p) \/ Upset(p)
    BY <1>9, <2>1
       DEF AcquireLock, Recovery, ListRunning, ListPausing, ReleaseLock, Upset, RequestStop,
           Crash, RoundFails, RecoveryFails, tables
  <2>2. CASE \E p \in Procs : Settle(p)
    BY <1>4, <1>9, <2>2
       DEF Settle, ReclaimSkip, SettleBegin, SettleAgain, SettleClose, tables
  <2>3. CASE \E p \in Procs : Round(p)
    BY <1>6, <1>9, <2>3
       DEF Round, ListStale, ListDueFailed, CountRunning, CountPausing, ListQueued,
           PassOver, ClaimBeyondBound, tables
  <2>4. CASE \E k \in Tokens : Work(k) \/ Heartbeat(k) \/ JobRaises(k)
    BY <1>5, <1>9, <2>4
       DEF Work, JobStart, JobAdmit, JobRecord, JobReturn, FinishRead, JobRaises, tables
  <2>5. CASE \E u \in Users : Command(u)
    BY <1>7, <1>9, <2>5 DEF Command, UserReads, tables
  <2>6. CASE Clock
    BY <1>8, <2>6 DEF Clock
  <2> QED BY <1>10, <2>1, <2>2, <2>3, <2>4, <2>5, <2>6 DEF Next, Schedule
<1>11. Goal BY <1>9, <1>10 DEF vars
<1> QED BY <1>11 DEF Goal

\* The slots in use are finitely many.
LEMMA SlotsFinite ==
    ASSUME NEW s
    PROVE  /\ IsFiniteSet(Held(s)) /\ Cardinality(Held(s)) \in Nat
           /\ IsFiniteSet(RunningAt(s)) /\ Cardinality(RunningAt(s)) \in Nat
           /\ IsFiniteSet(Held(s)') /\ Cardinality(Held(s)') \in Nat
           /\ IsFiniteSet(RunningAt(s)') /\ Cardinality(RunningAt(s)') \in Nat
<1>1. /\ Held(s) \subseteq Tasks /\ RunningAt(s) \subseteq Tasks
      /\ Held(s)' \subseteq Tasks /\ RunningAt(s)' \subseteq Tasks
  BY DEF Held, RunningAt
<1> QED BY <1>1, TasksAssumption, FS_Subset, FS_CardinalityType

\* Without a claim no slot is taken, and no task that pauses runs again.
LEMMA SlotsShrink ==
    ASSUME IInv, IInv', [Next]_vars, \A t \in Tasks : ClaimKept(task[t], task'[t]), NEW s \in Steps
    PROVE  /\ Held(s)' \subseteq Held(s) /\ RunningAt(s)' \subseteq RunningAt(s)
           /\ Cardinality(Held(s)') <= Cardinality(Held(s))
           /\ Cardinality(RunningAt(s)') <= Cardinality(RunningAt(s))
<1>1. TypeOK /\ Supports BY DEF IInv
<1>2. ASSUME NEW t \in Tasks, task'[t].status \in Executing
      PROVE  /\ task[t].status \in Executing /\ task'[t].step = task[t].step
             /\ task'[t].status = "running" => task[t].status = "running"
  <2>1. /\ task[t].status \in Executing
        /\ task'[t].status = "running" => task[t].status = "running"
    BY <1>2, RequestsGrow
  <2> QED BY <1>1, <1>2, <2>1, ExecutingKeepsStep
<1>3. Held(s)' \subseteq Held(s) BY <1>2 DEF Held
<1>4. RunningAt(s)' \subseteq RunningAt(s) BY <1>2 DEF RunningAt, Executing
<1> QED BY <1>3, <1>4, SlotsFinite, FS_Subset

\* A claim takes a slot of its task's step only, and only when it starts a run.
LEMMA ClaimSpares ==
    ASSUME IInv, NEW p \in Procs, NEW e \in exec[p].todo, Claim(p, e), NEW s \in Steps,
           exec' = Drop(p, e) \/ s # task[e.id].step
    PROVE  Held(s)' \subseteq Held(s)
<1>1. /\ task \in [Tasks -> Rows] /\ exec \in [Procs -> Threads] /\ claims \in Nat
      /\ e.id \in Tasks /\ task[e.id] \in Rows
  <2>1. TypeOK /\ claims \in Nat BY BoundAssumption DEF IInv, TypeOK
  <2>2. task \in [Tasks -> Rows] /\ exec \in [Procs -> Threads] BY <2>1 DEF TypeOK
  <2>3. e.id \in Tasks BY <2>2 DEF Threads
  <2> QED BY <2>1, <2>2, <2>3
<1> DEFINE row == task[e.id]
           wins == row.status = "queued" /\ ~row.term
<1>2. /\ \A t \in Tasks : t # e.id => task'[t] = task[t]
      /\ row.status = "queued" => task'[e.id] = Claimed(row, claims + 1)
      /\ row.status # "queued" => task'[e.id] = row
  BY <1>1 DEF Claim
<1>3. wins => exec' # Drop(p, e)
  <2> SUFFICES ASSUME wins PROVE exec' # Drop(p, e) OBVIOUS
  <2>1. exec' = [Drop(p, e) EXCEPT ![p].load[e.row.step] = @ + 1] BY DEF Claim
  <2>2. /\ Drop(p, e) \in [Procs -> Threads] /\ e.row.step \in Steps
    BY <1>1, DropType DEF Threads, Rows
  <2>3. Drop(p, e)[p].load \in [Steps -> Nat] BY <2>2 DEF Threads
  <2>4. exec'[p].load[e.row.step] = Drop(p, e)[p].load[e.row.step] + 1
    BY <2>1, <2>2, <2>3 DEF Threads
  <2> QED BY <2>2, <2>3, <2>4
<1>4. ~wins => (task'[e.id].status \in Executing => task'[e.id] = row)
  <2>1. CASE row.status # "queued" BY <1>2, <2>1
  <2>2. CASE row.status = "queued" /\ row.term
    BY <1>1, <1>2, <2>2 DEF Claimed, Unlock, Rows, Executing
  <2> QED BY <2>1, <2>2
<1>5. wins => task'[e.id].step = row.step
  BY <1>1, <1>2 DEF Claimed, Rows
<1> QED BY <1>1, <1>2, <1>3, <1>4, <1>5 DEF Held

\* Fewer slots, or one more, in numbers.
LEMMA SlotsBetween ==
    ASSUME NEW s, NEW t
    PROVE  /\ Held(s)' \subseteq Held(s) => Cardinality(Held(s)') <= Cardinality(Held(s))
           /\ (\A u \in Tasks : u # t => task'[u] = task[u]) =>
                 Cardinality(Held(s)') <= Cardinality(Held(s)) + 1
<1>1. /\ IsFiniteSet(Held(s) \cup {t})
      /\ Cardinality(Held(s) \cup {t}) <= Cardinality(Held(s)) + 1
      /\ Cardinality(Held(s) \cup {t}) \in Nat
  <2>1. IsFiniteSet(Held(s)) /\ Cardinality(Held(s)) \in Nat BY SlotsFinite
  <2>2. /\ IsFiniteSet(Held(s) \cup {t})
        /\ Cardinality(Held(s) \cup {t}) =
              IF t \in Held(s) THEN Cardinality(Held(s)) ELSE Cardinality(Held(s)) + 1
    BY <2>1, FS_AddElement
  <2> QED BY <2>1, <2>2
<1>2. ASSUME \A u \in Tasks : u # t => task'[u] = task[u]
      PROVE  Cardinality(Held(s)') <= Cardinality(Held(s) \cup {t})
  <2>1. Held(s)' \subseteq (Held(s) \cup {t}) BY <1>2 DEF Held
  <2> QED BY <1>1, <2>1, FS_Subset
<1>3. Held(s)' \subseteq Held(s) => Cardinality(Held(s)') <= Cardinality(Held(s))
  BY SlotsFinite, FS_Subset
<1> QED BY <1>1, <1>2, <1>3, SlotsFinite

---------------------------------------------------------------------------
(* The parts of the invariant are kept.                                     *)

\* What is pending was decided by an action users take here.
LEMMA RequestsFromActsNext ==
    ASSUME TypeOK, RequestsFromActs, [Next]_vars
    PROVE  RequestsFromActs'
<1>1. request \in [Users -> SUBSET [task : Tasks, decision : Decisions]] BY DEF TypeOK
<1>2. ASSUME request' = request PROVE RequestsFromActs' BY <1>2 DEF RequestsFromActs
<1>3. ASSUME NEW u \in Users, Command(u) PROVE RequestsFromActs'
  <2>1. ASSUME NEW t \in Tasks, UserReads(u, t) PROVE RequestsFromActs'
    <3>1. PICK d \in [act : UserActs, expect : {task[t].status}, step : {task[t].step},
                      arg : Steps \cup RetryCaps \cup {task[t].grant.attempt, 0}] :
            request' = [request EXCEPT ![u] = {[task |-> t, decision |-> d]}]
      BY <2>1 DEF UserReads
    <3> QED BY <1>1, <3>1 DEF RequestsFromActs
  <2>2. ASSUME NEW r \in request[u], UserWrites(u, r.task, r.decision) PROVE RequestsFromActs'
    BY <1>1, <2>2 DEF UserWrites, RequestsFromActs
  <2> QED BY <1>3, <2>1, <2>2 DEF Command
<1>4. ASSUME NEW p \in Procs, AcquireLock(p) \/ Schedule(p) \/ Upset(p) PROVE request' = request
  <2>1. CASE Settle(p)
    BY <2>1 DEF Settle, ReclaimSkip, SettleBegin, SettleAgain, SettleWrite, SettleClose
  <2>2. CASE Round(p)
    BY <2>2 DEF Round, ListStale, ListDueFailed, CountRunning, CountPausing, ListQueued,
                RequeueFailed, PassOver, SkipStep, Claim, ClaimBeyondBound
  <2>3. CASE AcquireLock(p) \/ Recovery(p) \/ ReleaseLock(p) \/ Upset(p)
    BY <2>3 DEF AcquireLock, Recovery, ListRunning, ListPausing, ReleaseLock, Upset,
                RequestStop, Crash, RoundFails, RecoveryFails
  <2> QED BY <1>4, <2>1, <2>2, <2>3 DEF Schedule
<1>5. ASSUME NEW k \in Tokens, Work(k) \/ Heartbeat(k) \/ JobRaises(k) PROVE request' = request
  BY <1>5 DEF Work, JobStart, JobAdmit, JobRecord, JobReturn, FinishRead, FinishWrite,
              Heartbeat, JobRaises
<1>6. ASSUME Clock \/ UNCHANGED vars PROVE request' = request
  BY <1>6 DEF Clock, DelayEnds, HeartbeatAges, vars
<1> QED BY <1>2, <1>3, <1>4, <1>5, <1>6 DEF Next

\* What dealing with a row, or counting, leaves to do and says of the load.
LEMMA ThreadEffects ==
    ASSUME TypeOK, NEW p \in Procs
    PROVE  /\ \A e : exec' = Drop(p, e) =>
                 /\ exec'[p].todo = exec[p].todo \ {e} /\ exec'[p].load = exec[p].load
                 /\ exec'[p].pc = exec[p].pc
           /\ \A e \in exec[p].todo : exec' = [Drop(p, e) EXCEPT ![p].load[e.row.step] = @ + 1] =>
                 /\ exec'[p].todo = exec[p].todo \ {e}
                 /\ exec'[p].load = [exec[p].load EXCEPT ![e.row.step] = @ + 1]
                 /\ exec'[p].pc = exec[p].pc
<1>1. exec \in [Procs -> Threads] /\ exec[p] \in Threads BY DEF TypeOK
<1>2. \A e : Drop(p, e) = [exec EXCEPT ![p] = [exec[p] EXCEPT !.todo = @ \ {e}]]
  BY <1>1 DEF Drop
<1>3. ASSUME NEW e, exec' = Drop(p, e)
      PROVE  /\ exec'[p].todo = exec[p].todo \ {e} /\ exec'[p].load = exec[p].load
             /\ exec'[p].pc = exec[p].pc
  BY <1>1, <1>2, <1>3 DEF Threads
<1>4. ASSUME NEW e \in exec[p].todo, exec' = [Drop(p, e) EXCEPT ![p].load[e.row.step] = @ + 1]
      PROVE  /\ exec'[p].todo = exec[p].todo \ {e}
             /\ exec'[p].load = [exec[p].load EXCEPT ![e.row.step] = @ + 1]
             /\ exec'[p].pc = exec[p].pc
  <2> DEFINE new == [exec[p] EXCEPT !.todo = @ \ {e},
                                    !.load = [exec[p].load EXCEPT ![e.row.step] = @ + 1]]
  <2>0. Drop(p, e) = [exec EXCEPT ![p] = [exec[p] EXCEPT !.todo = @ \ {e}]] BY <1>2
  <2>1. exec'[p] = new BY <1>1, <1>4, <2>0 DEF Threads
  <2>2. /\ new.todo = exec[p].todo \ {e} /\ new.pc = exec[p].pc
        /\ new.load = [exec[p].load EXCEPT ![e.row.step] = @ + 1]
    BY <1>1 DEF Threads
  <2> QED BY <2>1, <2>2
<1> QED BY <1>3, <1>4

\* Only the process at work handles listed rows.
LEMMA OneHandler ==
    ASSUME OnlyHolderRuns, NEW p \in Procs, exec[p].pc # "off", NEW q, q \in Procs,
           NEW e \in exec[q].todo, Handles(q, e)
    PROVE  q = p
BY DEF OnlyHolderRuns, Handles, PassOver, SkipStep, Claim, ClaimBeyondBound

\* Listed rows stay where they were until they are handled.
LEMMA ListedStaysNext ==
    ASSUME IInv, ExecInv, RequestsFromActs, ListedStays, "force_step" \notin UserActs, [Next]_vars
    PROVE  ListedStays'
<1>1. /\ TypeOK /\ OnlyHolderRuns /\ SettlesInPhase
      /\ exec \in [Procs -> Threads] /\ task \in [Tasks -> Rows]
  BY DEF IInv, ExecInv, TypeOK
<1> DEFINE Good(p) == \A e \in exec'[p].todo :
              /\ task'[e.id].status \in Resting /\ task'[e.id].step = e.row.step
              /\ \A f \in exec'[p].todo : f.id = e.id => f = e
<1>2. SUFFICES ASSUME NEW p \in Procs, exec'[p].pc = "schedule" PROVE Good(p)
  BY DEF ListedStays
<1>3. ASSUME exec[p].pc = "schedule", NEW gone, exec'[p].todo = exec[p].todo \ gone,
             \A q \in Procs : \A e \in exec[q].todo : Handles(q, e) => e \in gone /\ q = p
      PROVE  Good(p)
  <2>1. SUFFICES ASSUME NEW e \in exec'[p].todo
                 PROVE  /\ task'[e.id].status \in Resting /\ task'[e.id].step = e.row.step
                        /\ \A f \in exec'[p].todo : f.id = e.id => f = e
    OBVIOUS
  <2>2. e \in exec[p].todo /\ e \notin gone /\ e.id \in Tasks BY <1>1, <1>3 DEF Threads
  <2>3. /\ task[e.id].status \in Resting /\ task[e.id].step = e.row.step
        /\ \A f \in exec[p].todo : f.id = e.id => f = e
    BY <1>3, <2>2 DEF ListedStays
  <2>4. \A q \in Procs : \A f \in exec[q].todo : Handles(q, f) => f.id # e.id
    BY <1>3, <2>2, <2>3
  <2>5. task'[e.id].status \in Resting /\ task'[e.id].step = task[e.id].step
    BY <2>2, <2>3, <2>4, RestingStays
  <2> QED BY <1>3, <2>3, <2>5
<1>4. ASSUME exec'[p] = exec[p] PROVE Good(p)
  <2>1. \A q \in Procs : \A e \in exec[q].todo : ~Handles(q, e)
    <3> SUFFICES ASSUME NEW q \in Procs, NEW e \in exec[q].todo, Handles(q, e) PROVE FALSE
      OBVIOUS
    <3>1. q = p BY <1>1, <1>2, <1>4, OneHandler
    <3>2. exec'[p].todo = exec[p].todo \ {e}
      BY <1>1, <3>1, ThreadEffects DEF Handles, PassOver, SkipStep, Claim, ClaimBeyondBound
    <3> QED BY <1>4, <3>1, <3>2
  <2>2. exec'[p].todo = exec[p].todo \ {} BY <1>4
  <2> HIDE DEF Good
  <2> QED BY <1>2, <1>3, <1>4, <2>1, <2>2
<1>5. ASSUME CountRunning(p) \/ CountPausing(p) PROVE FALSE
  BY <1>1, <1>2, <1>5 DEF CountRunning, CountPausing, Thread
<1>6. ASSUME ListQueued(p) PROVE Good(p)
  <2>1. exec'[p].todo = Listed(InStatus("queued")) /\ task' = task
    BY <1>1, <1>6 DEF ListQueued, Thread, tables
  <2> QED BY <2>1 DEF Listed, InStatus, Resting
<1>7. ASSUME NEW e \in exec[p].todo, Handles(p, e) PROVE Good(p)
  <2>1. exec[p].pc = "schedule" /\ exec'[p].todo = exec[p].todo \ {e}
    BY <1>1, <1>7, ThreadEffects DEF Handles, PassOver, SkipStep, Claim, ClaimBeyondBound
  <2>2. ASSUME NEW q \in Procs, NEW f \in exec[q].todo, Handles(q, f) PROVE f \in {e} /\ q = p
    <3>1. q = p BY <1>1, <2>1, <2>2, OneHandler
    <3>2. exec'[p].todo = exec[p].todo \ {f}
      BY <1>1, <2>2, <3>1, ThreadEffects
         DEF Handles, PassOver, SkipStep, Claim, ClaimBeyondBound
    <3> QED BY <1>7, <2>1, <2>2, <3>1, <3>2
  <2> HIDE DEF Good
  <2> QED BY <1>3, <2>1, <2>2
<1>8. ASSUME RoundFails(p) PROVE Good(p)
  BY <1>1, <1>8 DEF RoundFails, Thread
<1> HIDE DEF Good
<1>9. Good(p) BY <1>1, <1>2, <1>4, <1>5, <1>6, <1>7, <1>8, TickSteps DEF Filling
<1> QED BY <1>9 DEF Good

\* The load a thread counted covers the slots in use.
LEMMA LoadCountsNext ==
    ASSUME IInv, ExecInv, IInv', ListedStays, LoadCounts, [Next]_vars
    PROVE  LoadCounts'
<1>1. /\ TypeOK /\ OnlyHolderRuns /\ SettlesInPhase /\ Supports
      /\ exec \in [Procs -> Threads] /\ task \in [Tasks -> Rows] /\ exec' \in [Procs -> Threads]
  BY DEF IInv, ExecInv, TypeOK
<1>2. SUFFICES ASSUME NEW p \in Procs, NEW s \in Steps
               PROVE  /\ exec'[p].pc = "count" =>
                            Cardinality(RunningAt(s)') <= exec'[p].load[s]
                      /\ exec'[p].pc = "counted" \/ (exec'[p].pc = "schedule" /\ exec'[p].todo # {})
                            => Cardinality(Held(s)') <= exec'[p].load[s]
  BY DEF LoadCounts
<1> DEFINE Scheduling(thread) == thread.pc = "counted" \/ (thread.pc = "schedule" /\ thread.todo # {})
           Goal == /\ exec'[p].pc = "count" =>
                            Cardinality(RunningAt(s)') <= exec'[p].load[s]
                   /\ Scheduling(exec'[p]) => Cardinality(Held(s)') <= exec'[p].load[s]
<1>3. /\ Cardinality(Held(s)) \in Nat /\ Cardinality(Held(s)') \in Nat
      /\ Cardinality(RunningAt(s)) \in Nat /\ Cardinality(RunningAt(s)') \in Nat
  BY SlotsFinite
<1>4. exec[p].load[s] \in Nat /\ exec'[p].load[s] \in Nat BY <1>1 DEF Threads
<1>5. ASSUME task' = task PROVE Held(s)' = Held(s) /\ RunningAt(s)' = RunningAt(s)
  BY <1>5 DEF Held, RunningAt
<1>6. ASSUME \A t \in Tasks : ClaimKept(task[t], task'[t]), exec'[p].load = exec[p].load,
             exec'[p].pc = exec[p].pc, exec[p].todo = {} => exec'[p].todo = {}
      PROVE  Goal
  <2>1. /\ Cardinality(Held(s)') <= Cardinality(Held(s))
        /\ Cardinality(RunningAt(s)') <= Cardinality(RunningAt(s))
    BY <1>6, SlotsShrink
  <2>2. /\ exec[p].pc = "count" => Cardinality(RunningAt(s)) <= exec[p].load[s]
        /\ Scheduling(exec[p]) => Cardinality(Held(s)) <= exec[p].load[s]
    BY DEF LoadCounts
  <2> QED BY <1>3, <1>4, <1>6, <2>1, <2>2
<1>7. ASSUME exec'[p] = exec[p], exec[p].pc \in Filling PROVE Goal
  <2>1. ASSUME NEW q \in Procs, NEW e \in exec[q].todo, Claim(q, e) PROVE FALSE
    <3>1. q = p BY <1>1, <1>7, <2>1, OneHandler DEF Handles, Filling
    <3>2. exec'[p].todo = exec[p].todo \ {e} BY <1>1, <2>1, <3>1, ThreadEffects DEF Claim
    <3> QED BY <1>7, <2>1, <3>1, <3>2
  <2>2. \A t \in Tasks : ClaimKept(task[t], task'[t]) BY <1>1, <2>1, ClaimSteps
  <2> HIDE DEF Goal
  <2> QED BY <1>6, <1>7, <2>2
<1>8. ASSUME CountRunning(p) PROVE Goal
  <2>1. exec'[p].pc = "count" /\ exec'[p].load = LoadIn("running") /\ task' = task
    BY <1>1, <1>8 DEF CountRunning, Thread, CountOrder, tables
  <2>2. exec'[p].load[s] = Cardinality(RunningAt(s))
    BY <2>1 DEF LoadIn, InStatus, RunningAt
  <2> QED BY <1>3, <1>5, <2>1, <2>2
<1>9. ASSUME CountPausing(p) PROVE Goal
  <2> DEFINE Pausing == {t \in InStatus("pause_pending") : task[t].step = s}
  <2>1. /\ exec[p].pc = "count" /\ exec'[p].pc = "counted" /\ task' = task
        /\ exec'[p].load[s] = exec[p].load[s] + Cardinality(Pausing)
    BY <1>1, <1>9 DEF CountPausing, Thread, CountOrder, LoadIn, tables
  <2>2. Cardinality(RunningAt(s)) <= exec[p].load[s] BY <2>1 DEF LoadCounts
  <2>3. Held(s) = RunningAt(s) \cup Pausing BY DEF Held, RunningAt, InStatus, Executing
  <2>4. IsFiniteSet(Pausing) /\ Cardinality(Pausing) \in Nat
    <3>1. Pausing \subseteq Tasks BY DEF InStatus
    <3> QED BY <3>1, TasksAssumption, FS_Subset, FS_CardinalityType
  <2>5. Cardinality(RunningAt(s) \cap Pausing) \in Nat
    BY <2>4, SlotsFinite, FS_Subset, FS_CardinalityType
  <2> HIDE DEF Pausing
  <2>6. Cardinality(Held(s)) <= Cardinality(RunningAt(s)) + Cardinality(Pausing)
    <3>1. IsFiniteSet(RunningAt(s)) BY SlotsFinite
    <3> QED BY <1>3, <2>3, <2>4, <2>5, <3>1, FS_Union
  <2> QED BY <1>3, <1>4, <1>5, <2>1, <2>2, <2>4, <2>6
<1>10. ASSUME ListQueued(p) PROVE Goal
  <2>1. exec[p].pc = "counted" /\ exec'[p].pc = "schedule" /\ task' = task
        /\ exec'[p].load = exec[p].load
    BY <1>1, <1>10 DEF ListQueued, Thread, tables
  <2>2. Cardinality(Held(s)) <= exec[p].load[s] BY <2>1 DEF LoadCounts
  <2> QED BY <1>5, <2>1, <2>2
<1>11. ASSUME NEW e \in exec[p].todo, Handles(p, e) PROVE Goal
  <2>1. CASE Claim(p, e)
    <3>1. exec[p].pc = "schedule" /\ exec'[p].pc = "schedule"
      BY <1>1, <2>1, ThreadEffects DEF Claim
    <3>2. Cardinality(Held(s)) <= exec[p].load[s] BY <1>11, <3>1 DEF LoadCounts
    <3>3. e.row.step = task[e.id].step BY <1>11, <3>1 DEF ListedStays
    <3>4. CASE exec' = Drop(p, e) \/ s # task[e.id].step
      <4>1. exec'[p].load[s] = exec[p].load[s]
        <5>1. exec[p].load \in [Steps -> Nat] BY <1>1 DEF Threads
        <5>2. CASE exec' = Drop(p, e) BY <1>1, <5>2, ThreadEffects
        <5>3. CASE exec' # Drop(p, e)
          <6>1. exec'[p].load = [exec[p].load EXCEPT ![e.row.step] = @ + 1]
            BY <1>1, <2>1, <5>3, ThreadEffects DEF Claim
          <6> QED BY <3>3, <3>4, <5>1, <5>3, <6>1
        <5> QED BY <5>2, <5>3
      <4>2. Held(s)' \subseteq Held(s) BY <1>11, <2>1, <3>4, ClaimSpares
      <4>3. Cardinality(Held(s)') <= Cardinality(Held(s)) BY <4>2, SlotsBetween
      <4> QED BY <1>3, <1>4, <3>1, <3>2, <4>1, <4>3
    <3>5. CASE exec' # Drop(p, e) /\ s = task[e.id].step
      <4>1. exec[p].load \in [Steps -> Nat] BY <1>1 DEF Threads
      <4>2. exec'[p].load = [exec[p].load EXCEPT ![e.row.step] = @ + 1]
        BY <1>1, <2>1, <3>5, ThreadEffects DEF Claim
      <4>3. exec'[p].load[s] = exec[p].load[s] + 1 BY <3>3, <3>5, <4>1, <4>2
      <4>4. \A t \in Tasks : t # e.id => task'[t] = task[t] BY <1>1, <2>1 DEF Claim
      <4>5. Cardinality(Held(s)') <= Cardinality(Held(s)) + 1 BY <4>4, SlotsBetween
      <4> QED BY <1>3, <1>4, <3>1, <3>2, <4>3, <4>5
    <3> QED BY <3>4, <3>5
  <2>2. CASE ~Claim(p, e)
    <3>1. /\ exec'[p].todo = exec[p].todo \ {e} /\ exec'[p].load = exec[p].load
          /\ exec'[p].pc = exec[p].pc /\ exec[p].pc = "schedule"
      BY <1>1, <1>11, <2>2, ThreadEffects DEF Handles, PassOver, SkipStep, ClaimBeyondBound
    <3>2. ASSUME NEW q \in Procs, NEW f \in exec[q].todo, Claim(q, f) PROVE FALSE
      <4>1. q = p BY <1>1, <3>1, <3>2, OneHandler DEF Handles
      <4>2. exec'[p].todo = exec[p].todo \ {f} BY <1>1, <3>2, <4>1, ThreadEffects DEF Claim
      <4>3. f = e BY <1>11, <3>1, <3>2, <4>1, <4>2
      <4> QED BY <2>2, <3>2, <4>1, <4>3
    <3>3. \A t \in Tasks : ClaimKept(task[t], task'[t]) BY <1>1, <3>2, ClaimSteps
    <3> HIDE DEF Goal
    <3> QED BY <1>6, <3>1, <3>3
  <2> HIDE DEF Goal
  <2> QED BY <1>11, <2>1, <2>2 DEF Handles
<1>12. ASSUME RoundFails(p) PROVE Goal
  <2>1. exec'[p].pc = "schedule" /\ exec'[p].todo = {} BY <1>1, <1>12 DEF RoundFails, Thread
  <2> QED BY <2>1
<1>13. ASSUME exec'[p].pc \notin Filling PROVE Goal
  BY <1>13 DEF Filling
<1> HIDE DEF Goal
<1>14. Goal
  BY <1>1, <1>7, <1>8, <1>9, <1>10, <1>11, <1>12, <1>13, TickSteps
<1> QED BY <1>14 DEF Goal

\* A slot is taken only where the scheduler counted a free one.
LEMMA QuotaRespectedNext ==
    ASSUME IInv, ExecInv, IInv', ListedStays, LoadCounts, QuotaRespected, [Next]_vars
    PROVE  QuotaRespected'
<1>1. /\ TypeOK /\ Supports /\ exec \in [Procs -> Threads] /\ task \in [Tasks -> Rows]
  BY DEF IInv, TypeOK
<1>2. SUFFICES ASSUME NEW s \in Steps PROVE Cardinality(Held(s)') <= Quota[s]
  BY DEF QuotaRespected, Held
<1>3. /\ Cardinality(Held(s)) \in Nat /\ Cardinality(Held(s)') \in Nat /\ Quota[s] \in Nat
  BY SlotsFinite, QuotaAssumption
<1>4. Cardinality(Held(s)) <= Quota[s] BY DEF QuotaRespected, Held
<1>5. CASE \A t \in Tasks : ClaimKept(task[t], task'[t])
  <2>1. Cardinality(Held(s)') <= Cardinality(Held(s)) BY <1>5, SlotsShrink
  <2> QED BY <1>3, <1>4, <2>1
<1>6. ASSUME NEW p \in Procs, NEW e \in exec[p].todo, Claim(p, e)
      PROVE  Cardinality(Held(s)') <= Quota[s]
  <2>1. /\ exec[p].pc = "schedule"
        /\ exec[p].load[e.row.step] < Quota[e.row.step]
    BY <1>6 DEF Claim, Schedulable
  <2>2. e.row.step = task[e.id].step BY <1>6, <2>1 DEF ListedStays
  <2>3. CASE s # task[e.id].step
    <3>1. Held(s)' \subseteq Held(s) BY <1>6, <2>3, ClaimSpares
    <3>2. Cardinality(Held(s)') <= Cardinality(Held(s)) BY <3>1, SlotsBetween
    <3> QED BY <1>3, <1>4, <3>2
  <2>4. CASE s = task[e.id].step
    <3>0. \A t \in Tasks : t # e.id => task'[t] = task[t] BY <1>1, <1>6 DEF Claim
    <3>1. Cardinality(Held(s)') <= Cardinality(Held(s)) + 1 BY <3>0, SlotsBetween
    <3>2. Cardinality(Held(s)) <= exec[p].load[s] BY <1>6, <2>1 DEF LoadCounts
    <3>3. exec[p].load[s] \in Nat BY <1>1 DEF Threads
    <3> QED BY <1>3, <2>1, <2>2, <2>4, <3>1, <3>2, <3>3
  <2> QED BY <2>3, <2>4
<1> QED BY <1>1, <1>5, <1>6, ClaimSteps

\* At the start nothing is pending, listed or counted, and no task executes.
LEMMA QuotaInit == Init => QuotaInv
<1> SUFFICES ASSUME Init PROVE QuotaInv OBVIOUS
<1>1. /\ \A p \in Procs : exec[p].pc = "off"
      /\ \A u \in Users : request[u] = {}
      /\ \A t \in Tasks : task[t].status = "queued"
  BY DEF Init, Off, Thread, NewRow
<1>2. ASSUME NEW s \in Steps PROVE Cardinality(Held(s)) <= Quota[s]
  <2>1. Held(s) = {} BY <1>1 DEF Held, Executing
  <2>2. Cardinality(Held(s)) = 0 /\ Quota[s] \in Nat BY <2>1, FS_EmptySet, QuotaAssumption
  <2> QED BY <2>2
<1>3. QuotaRespected BY <1>2 DEF QuotaRespected, Held
<1>4. RequestsFromActs BY <1>1 DEF RequestsFromActs
<1>5. ListedStays BY <1>1 DEF ListedStays
<1>6. LoadCounts BY <1>1 DEF LoadCounts
<1> QED BY <1>3, <1>4, <1>5, <1>6 DEF QuotaInv

\* Every step keeps the strengthening of the quotas.
LEMMA QuotaInvNext ==
    ASSUME IInv, ExecInv, IInv', QuotaInv, "force_step" \notin UserActs, [Next]_vars
    PROVE  QuotaInv'
BY RequestsFromActsNext, ListedStaysNext, LoadCountsNext, QuotaRespectedNext DEF QuotaInv, IInv

\* The quotas hold as long as nobody forces a task to another step: at no time do more tasks
\* of a step execute than its quota, although the load is counted in two queries and the
\* tasks are claimed one by one beside workers and users. With force_step among the user
\* actions the statement is false: run EngineQuotaForced shows a behaviour.
THEOREM QuotaCorrect ==
    ASSUME "force_step" \notin UserActs
    PROVE  Spec => []QuotaRespected
<1>1. IInv /\ ExecInv /\ IInv' /\ QuotaInv /\ [Next]_vars => QuotaInv'
  BY QuotaInvNext
<1>2. QuotaInv => QuotaRespected
  BY DEF QuotaInv
<1> QED BY <1>1, <1>2, QuotaInit, RunsAlways, PTL DEF Spec
=============================================================================

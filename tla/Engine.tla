------------------------------- MODULE Engine -------------------------------
(***************************************************************************)
(* The executor of a runspool database: processes that compete for the     *)
(* executor lock; in the holder a scheduling thread (startup recovery,     *)
(* then rounds of reclaim_stale and tick) and the jobs of its worker pool; *)
(* users who change the same rows from other processes at any moment.      *)
(*                                                                         *)
(* Every action is one read or one transaction of the database, so a row   *)
(* read by one action may have changed when a later action writes from it. *)
(* A process may be killed between any two actions.                        *)
(***************************************************************************)
EXTENDS TaskRow, Sequences, FiniteSets

CONSTANTS
    Tasks, Procs, Users,
    NoTask, NoProc,     \* "none" values
    SideEffects,        \* steps that act outside the machine
    Conditional,        \* steps whose when() may answer False
    Policies,           \* what the policy listeners of the gate may answer
    Quota,              \* concurrency quota per step
    PoolSize,           \* worker threads of a process
    Attempts,           \* _ATTEMPTS: tries of a compare-and-set
    UserActs,           \* the user actions of this instance
    Faults,             \* what may be ended by an exception: "round", "recovery", "job"
    MaxClaims,          \* bound: claims in a behaviour
    MaxCrashes          \* bound: processes killed in a behaviour

ASSUME TasksAssumption == IsFiniteSet(Tasks)
ASSUME NoTaskAssumption == NoTask \notin Tasks
ASSUME NoProcAssumption == NoProc \notin Procs
ASSUME QuotaAssumption == Quota \in [Steps -> Nat]
ASSUME BoundAssumption == {PoolSize, Attempts, MaxClaims, MaxCrashes} \subseteq Nat
ASSUME StepsAssumption == SideEffects \subseteq Steps /\ Conditional \subseteq Steps
ASSUME PolicyAssumption == Policies \subseteq {"allow", "ask", "deny", "defer"}
ASSUME UserActsAssumption == UserActs \subseteq UserActions
ASSUME FaultsAssumption == Faults \subseteq {"round", "recovery", "job"}

VARIABLES
    task,      \* table tasks
    runs,      \* table step_runs, per task in order of id
    lock,      \* holder of the executor lock
    exec,      \* the scheduling thread of each process
    job,       \* the pool job of each claim, by claim token
    claims,    \* claims made so far; the last token handed out
    crashes,   \* processes killed so far
    request,   \* each user's action between its read and its write
    approved,  \* history: (task, step, attempt) a user approved
    failures,  \* history: failures charged to a task since its last set-retries
    person     \* history: a user put the task to work since its last run began

tables == <<task, runs>>
history == <<approved, failures, person>>
vars == <<task, runs, lock, exec, job, claims, crashes, request, approved, failures, person>>

Tokens == 1 .. MaxClaims

RunStatus == {"running", "ok", "degraded", "deferred", "failed", "interrupted"}

Runs == [step : Steps, attempt : Nat, token : Nat, status : RunStatus]

Outcomes == [kind : {"ok", "degraded", "notready", "later", "failed", "fatal", "denied", "ask"},
             attempt : Nat]

NoOutcome == [kind |-> "notready", attempt |-> 0]

BlankRow == NewRow(CHOOSE c \in RetryCaps : TRUE)

---------------------------------------------------------------------------
(* Scheduling thread.  pc: off; locked; settle_running, settle_pausing      *)
(* (startup recovery); reclaim, requeue, count, counted, schedule (a round; *)
(* schedule with nothing left to do is its end); stopping.                  *)

Looping == {"reclaim", "requeue", "count", "counted", "schedule"}

Threads == [pc : {"off", "locked", "settle_running", "settle_pausing", "stopping"} \cup Looping,
            todo : SUBSET [id : Tasks, row : Rows],     \* rows listed, not handled yet
            load : [Steps -> Nat],
            cur : Tasks \cup {NoTask},                  \* task being settled
            sub : {"read", "write", "close"},
            seen : Rows, tries : Nat]

Thread(pc, todo, load) ==
    [pc |-> pc, todo |-> todo, load |-> load, cur |-> NoTask, sub |-> "read",
     seen |-> BlankRow, tries |-> 0]

NoLoad == [s \in Steps |-> 0]
Off == Thread("off", {}, NoLoad)

Listed(S) == {[id |-> t, row |-> task[t]] : t \in S}

InStatus(status) == {t \in Tasks : task[t].status = status}

\* The thread finished the list it was working on in phase pc.
ListDone(p, pc) == exec[p].pc = pc /\ exec[p].todo = {} /\ exec[p].cur = NoTask

\* The thread is done with a listed row.
Drop(p, e) == [exec EXCEPT ![p].todo = @ \ {e}]

---------------------------------------------------------------------------
(* Pool jobs.  pc: none; queued in the pool; admit (claim checked); start   *)
(* (admitted); run (the step runs); finish (outcome known); commit (row     *)
(* read, write to come); done; dead (its process is gone).                  *)

Jobs == [pc : {"none", "queued", "admit", "start", "run", "finish", "commit", "done", "dead"},
         proc : Procs \cup {NoProc}, task : Tasks \cup {NoTask},
         step : Steps, grant : Grants, attempt : Nat, run : Nat,
         out : Outcomes, seen : Rows, tries : Nat]

Job(pc, p, t) ==
    [pc |-> pc, proc |-> p, task |-> t, step |-> 1, grant |-> NoGrant, attempt |-> 0,
     run |-> 0, out |-> NoOutcome, seen |-> BlankRow, tries |-> 0]

Working == {"admit", "start", "run", "finish", "commit"}
Live == {"queued"} \cup Working

JobsOf(p) == {k \in Tokens : job[k].pc \in Live /\ job[k].proc = p}

\* Mutants of RunningHere: a job counts once a worker took it; a job is never removed.
StartedHere(p, t, token) ==
    token \in JobsOf(p) /\ job[token].task = t /\ job[token].pc \in Working

SubmittedHere(p, t, token) ==
    token \in Tokens /\ job[token].proc = p /\ job[token].task = t

\* Coordinator._running_here: the claim token of a listed row is in flight here.
RunningHere(p, t, token) ==
    token \in JobsOf(p) /\ job[token].task = t

Ended(k) == [job EXCEPT ![k] = Job("done", job[k].proc, job[k].task)]

\* All of a process's jobs once it is gone.
Orphaned(p) ==
    [k \in Tokens |->
        IF job[k].proc = p /\ job[k].pc # "none"
        THEN Job("dead", NoProc, NoTask) ELSE job[k]]

\* has_degraded: the latest run of some step is degraded.
LatestIsDegraded(log) ==
    \E i \in DOMAIN log : /\ log[i].status = "degraded"
                          /\ \A j \in DOMAIN log : j > i => log[j].step # log[i].step

\* Mutant of RunCount: interrupted runs do not count.
FinishedRunCount(t, step) ==
    Cardinality({i \in DOMAIN runs[t] :
        runs[t][i].step = step /\ runs[t][i].status # "interrupted"})

\* count_runs: every recorded run of the step, however it ended.
RunCount(t, step) == Cardinality({i \in DOMAIN runs[t] : runs[t][i].step = step})

---------------------------------------------------------------------------
Init ==
    /\ task \in [Tasks -> {NewRow(c) : c \in RetryCaps}]
    /\ runs = [t \in Tasks |-> << >>]
    /\ lock = NoProc
    /\ exec = [p \in Procs |-> Off]
    /\ job = [k \in Tokens |-> Job("none", NoProc, NoTask)]
    /\ claims = 0
    /\ crashes = 0
    /\ request = [u \in Users |-> {}]
    /\ approved = {}
    /\ failures = [t \in Tasks |-> 0]
    /\ person = [t \in Tasks |-> FALSE]

---------------------------------------------------------------------------
(* Executor lock and startup.                                               *)

\* Daemon.run / run_until_idle: without the lock a process does nothing.
AcquireLock(p) ==
    /\ exec[p].pc = "off"
    /\ lock = NoProc
    /\ lock' = p
    /\ exec' = [exec EXCEPT ![p] = Thread("locked", {}, NoLoad)]
    /\ UNCHANGED <<tables, job, claims, crashes, request, history>>

\* Mutant of RecoveryOrder: the other way round.
PausingFirst == <<"pause_pending", "running">>

\* _EXECUTING as a tuple: recovery settles the running tasks before the
\* pausing ones.
RecoveryOrder == <<"running", "pause_pending">>

\* recover_interrupted: list the tasks of the first status, settle them, then list
\* those of the second.
ListRunning(p) ==
    /\ exec[p].pc = "locked"
    /\ exec' = [exec EXCEPT ![p] =
                   Thread("settle_running", Listed(InStatus(RecoveryOrder[1])), NoLoad)]
    /\ UNCHANGED <<tables, lock, job, claims, crashes, request, history>>

ListPausing(p) ==
    /\ ListDone(p, "settle_running")
    /\ exec' = [exec EXCEPT ![p] =
                   Thread("settle_pausing", Listed(InStatus(RecoveryOrder[2])), NoLoad)]
    /\ UNCHANGED <<tables, lock, job, claims, crashes, request, history>>

---------------------------------------------------------------------------
(* _settle, for recovery and for reclaim_stale.                             *)

Settling(p) == exec[p].pc \in {"settle_running", "settle_pausing", "reclaim"}

CheckAlive(p) == exec[p].pc = "reclaim"

\* reclaim_stale leaves a job of this process alone.
ReclaimSkip(p, e) ==
    /\ exec[p].pc = "reclaim" /\ exec[p].cur = NoTask
    /\ e \in exec[p].todo
    /\ RunningHere(p, e.id, e.row.token)
    /\ exec' = Drop(p, e)
    /\ UNCHANGED <<tables, lock, job, claims, crashes, request, history>>

\* Leave the row alone if it is not executing, or if its heartbeat moved since the
\* first try's read; otherwise decide from it.
SettleReads(p, t, tries) ==
    LET row == task[t]
        gone == \/ row.status \notin Executing
                \/ tries = Attempts
                \/ CheckAlive(p) /\ tries > 0 /\ row.beat # exec[p].seen.beat
    IN  IF gone THEN [exec[p] EXCEPT !.cur = NoTask, !.sub = "read", !.seen = BlankRow, !.tries = 0]
        ELSE [exec[p] EXCEPT !.cur = t, !.sub = "write", !.seen = row, !.tries = tries + 1]

SettleBegin(p, e) ==
    /\ Settling(p) /\ exec[p].cur = NoTask
    /\ e \in exec[p].todo
    /\ CheckAlive(p) => ~RunningHere(p, e.id, e.row.token)
    /\ exec' = [exec EXCEPT ![p] = [SettleReads(p, e.id, 0) EXCEPT !.todo = @ \ {e}]]
    /\ UNCHANGED <<tables, lock, job, claims, crashes, request, history>>

SettleAgain(p) ==
    /\ exec[p].cur # NoTask /\ exec[p].sub = "read"
    /\ exec' = [exec EXCEPT ![p] = SettleReads(p, exec[p].cur, exec[p].tries)]
    /\ UNCHANGED <<tables, lock, job, claims, crashes, request, history>>

SettleWrite(p) ==
    LET t == exec[p].cur
        seen == exec[p].seen
    IN  /\ t # NoTask /\ exec[p].sub = "write"
        /\ \/ /\ SettleMatches(task[t], seen, CheckAlive(p))
              /\ task' = [task EXCEPT ![t] = Settled(@, seen)]
              /\ exec' = [exec EXCEPT ![p].sub = "close"]
           \/ /\ ~SettleMatches(task[t], seen, CheckAlive(p))
              /\ exec' = [exec EXCEPT ![p].sub = "read"]
              /\ UNCHANGED task
        /\ UNCHANGED <<runs, lock, job, claims, crashes, request, history>>

\* The transition is committed; the step runs are closed in a second transaction.
SettleClose(p) ==
    LET t == exec[p].cur
    IN  /\ t # NoTask /\ exec[p].sub = "close"
        /\ runs' = [runs EXCEPT ![t] = [i \in DOMAIN @ |->
                       IF @[i].status = "running"
                       THEN [@[i] EXCEPT !.status = "interrupted"] ELSE @[i]]]
        /\ exec' = [exec EXCEPT ![p].cur = NoTask, ![p].sub = "read", ![p].seen = BlankRow,
                                ![p].tries = 0]
        /\ UNCHANGED <<task, lock, job, claims, crashes, request, history>>

---------------------------------------------------------------------------
(* A round of Daemon.run_once: reclaim_stale, then Coordinator.tick.        *)

\* Between rounds (and before the first) the thread goes on or was told to stop.
BetweenRounds(p) == ListDone(p, "settle_pausing") \/ ListDone(p, "schedule")

ListStale(p) ==
    /\ BetweenRounds(p)
    /\ exec' = [exec EXCEPT ![p] =
                   Thread("reclaim",
                          Listed({t \in Tasks : /\ task[t].status \in Executing
                                                /\ task[t].beat = "old"}),
                          NoLoad)]
    /\ UNCHANGED <<tables, lock, job, claims, crashes, request, history>>

\* Mutant of RetryDue: the comparison is flipped.
RetryNotDue(row) == row.due # "past"

\* list_due_failed: next_retry_at is null or has come.
RetryDue(row) == row.due # "future"

ListDueFailed(p) ==
    /\ ListDone(p, "reclaim")
    /\ exec' = [exec EXCEPT ![p] =
                   Thread("requeue",
                          Listed({t \in InStatus("failed") : RetryDue(task[t])}),
                          NoLoad)]
    /\ UNCHANGED <<tables, lock, job, claims, crashes, request, history>>

\* requeue_failed decides nothing from the row it reads; its write needs FAILED.
RequeueFailed(p, e) ==
    /\ exec[p].pc = "requeue" /\ e \in exec[p].todo
    /\ task' = [task EXCEPT ![e.id] = IF @.status = "failed" THEN Requeued(@) ELSE @]
    /\ exec' = Drop(p, e)
    /\ UNCHANGED <<runs, lock, job, claims, crashes, request, history>>

\* Mutant of CountOrder: the other way round.
PausingCountedFirst == <<"pause_pending", "running">>

\* The load is read in two queries, running first.
CountOrder == <<"running", "pause_pending">>

LoadIn(status) ==
    [s \in Steps |-> Cardinality({t \in InStatus(status) : task[t].step = s})]

CountRunning(p) ==
    /\ ListDone(p, "requeue")
    /\ exec' = [exec EXCEPT ![p] = Thread("count", {}, LoadIn(CountOrder[1]))]
    /\ UNCHANGED <<tables, lock, job, claims, crashes, request, history>>

CountPausing(p) ==
    /\ exec[p].pc = "count"
    /\ exec' = [exec EXCEPT ![p] = Thread("counted", {},
                   [s \in Steps |-> exec[p].load[s] + LoadIn(CountOrder[2])[s]])]
    /\ UNCHANGED <<tables, lock, job, claims, crashes, request, history>>

ListQueued(p) ==
    /\ exec[p].pc = "counted"
    /\ exec' = [exec EXCEPT ![p] =
                   Thread("schedule", Listed(InStatus("queued")), exec[p].load)]
    /\ UNCHANGED <<tables, lock, job, claims, crashes, request, history>>

\* The listed row passes: not delayed, and its step has a free quota slot.
Schedulable(p, e) ==
    /\ e.row.due # "future"
    /\ exec[p].load[e.row.step] < Quota[e.row.step]

PassOver(p, e) ==
    /\ exec[p].pc = "schedule" /\ e \in exec[p].todo
    /\ ~Schedulable(p, e)
    /\ exec' = Drop(p, e)
    /\ UNCHANGED <<tables, lock, job, claims, crashes, request, history>>

\* when() answered False for the listed row: skip_step moves the row as it is now.
SkipStep(p, e) ==
    /\ exec[p].pc = "schedule" /\ e \in exec[p].todo
    /\ Schedulable(p, e)
    /\ e.row.step \in Conditional
    /\ task' = [task EXCEPT ![e.id] =
                   IF @.status = "queued" THEN Skipped(@, LatestIsDegraded(runs[e.id])) ELSE @]
    /\ exec' = Drop(p, e)
    /\ UNCHANGED <<runs, lock, job, claims, crashes, request, history>>

\* when() answered True: claim the row if it is still queued, whatever its step is
\* by now, and hand the claim to the pool.  The read before the claim decides
\* nothing the conditional update does not check again.
Claim(p, e) ==
    LET row == task[e.id]
        token == claims + 1
        wins == row.status = "queued" /\ ~row.term
    IN  /\ exec[p].pc = "schedule" /\ e \in exec[p].todo
        /\ Schedulable(p, e)
        /\ claims < MaxClaims
        /\ task' = [task EXCEPT ![e.id] =
                       IF row.status = "queued" THEN Claimed(row, token) ELSE row]
        /\ claims' = IF wins THEN token ELSE claims
        /\ job' = IF wins THEN [job EXCEPT ![token] = Job("queued", p, e.id)] ELSE job
        /\ exec' = IF wins THEN [Drop(p, e) EXCEPT ![p].load[e.row.step] = @ + 1] ELSE Drop(p, e)
        /\ UNCHANGED <<runs, lock, crashes, request, history>>

\* The bound on claims is reached: the row stays queued.
ClaimBeyondBound(p, e) ==
    /\ exec[p].pc = "schedule" /\ e \in exec[p].todo
    /\ Schedulable(p, e)
    /\ claims = MaxClaims
    /\ exec' = Drop(p, e)
    /\ UNCHANGED <<tables, lock, job, claims, crashes, request, history>>

---------------------------------------------------------------------------
(* The end of a process.                                                    *)

\* request_stop, seen between rounds; the pool is then shut down, waiting for its
\* jobs, and only then the lock is released.
RequestStop(p) ==
    /\ BetweenRounds(p)
    /\ exec' = [exec EXCEPT ![p] = Thread("stopping", {}, NoLoad)]
    /\ UNCHANGED <<tables, lock, job, claims, crashes, request, history>>

ReleaseLock(p) ==
    /\ exec[p].pc = "stopping"
    /\ JobsOf(p) = {}
    /\ lock' = NoProc
    /\ exec' = [exec EXCEPT ![p] = Off]
    /\ job' = Orphaned(p)
    /\ UNCHANGED <<tables, claims, crashes, request, history>>

\* Killed: the threads vanish and the operating system drops the file lock.
Crash(p) ==
    /\ exec[p].pc # "off"
    /\ crashes < MaxCrashes
    /\ crashes' = crashes + 1
    /\ lock' = IF lock = p THEN NoProc ELSE lock
    /\ exec' = [exec EXCEPT ![p] = Off]
    /\ job' = Orphaned(p)
    /\ UNCHANGED <<tables, claims, request, history>>

\* An exception ends the round; the daemon logs it and goes on with the next.
RoundFails(p) ==
    /\ "round" \in Faults
    /\ exec[p].pc \in Looping /\ ~ListDone(p, "schedule")
    /\ exec' = [exec EXCEPT ![p] = Thread("schedule", {}, NoLoad)]
    /\ UNCHANGED <<tables, lock, job, claims, crashes, request, history>>

\* An exception during startup recovery ends the process's run.
RecoveryFails(p) ==
    /\ "recovery" \in Faults
    /\ exec[p].pc \in {"locked", "settle_running", "settle_pausing"} /\ ~BetweenRounds(p)
    /\ lock' = NoProc
    /\ exec' = [exec EXCEPT ![p] = Off]
    /\ UNCHANGED <<tables, job, claims, crashes, request, history>>

---------------------------------------------------------------------------
(* A job of the pool: TaskRunner.execute.                                   *)

Busy(p) == Cardinality({k \in JobsOf(p) : job[k].pc \in Working}) >= PoolSize

\* A worker takes the job and reads the row.  A claim that is no longer current is
\* dropped; a stop requested meanwhile is honoured before the step starts.
JobStart(k) ==
    LET row == task[job[k].task]
        stale == row.status \notin Executing \/ row.token # k
        to(pc) == [job EXCEPT ![k].pc = pc, ![k].step = row.step, ![k].grant = row.grant]
    IN  /\ job[k].pc = "queued"
        /\ ~Busy(job[k].proc)
        /\ job' = IF stale THEN Ended(k)
                  ELSE IF row.term \/ row.pause THEN to("finish") ELSE to("admit")
        /\ UNCHANGED <<tables, lock, exec, claims, crashes, request, history>>

\* Gate.__call__: the answers the gate may give.  "ask" from a policy, or a step
\* with side effects, needs a grant of exactly this attempt.
GateAnswers(step, granted) ==
    {IF a \in {"deny", "defer"} THEN a
     ELSE IF (a = "ask" \/ step \in SideEffects) /\ ~granted THEN "ask" ELSE "allow"
        : a \in Policies}

\* The outcome a refusal is reported as; a deferral may carry a delay.
Refusals(answer) ==
    CASE answer = "deny" -> {"denied"}
      [] answer = "ask" -> {"ask"}
      [] OTHER -> {"notready", "later"}

\* count_runs, then _admit.
JobAdmit(k) ==
    LET attempt == RunCount(job[k].task, job[k].step) + 1
        granted == job[k].grant = GrantValue(job[k].step, attempt)
    IN  /\ job[k].pc = "admit"
        /\ \E answer \in GateAnswers(job[k].step, granted) :
              \/ /\ answer = "allow"
                 /\ job' = [job EXCEPT ![k].pc = "start", ![k].attempt = attempt]
              \/ /\ answer # "allow"
                 /\ \E kind \in Refusals(answer) :
                       job' = [job EXCEPT ![k].pc = "finish",
                                          ![k].out = [kind |-> kind, attempt |-> attempt]]
        /\ UNCHANGED <<tables, lock, exec, claims, crashes, request, history>>

\* step_runs.start: the row that says the step runs is inserted, and the step runs.
JobRecord(k) ==
    LET t == job[k].task
        new == [step |-> job[k].step, attempt |-> job[k].attempt, token |-> k,
                status |-> "running"]
    IN  /\ job[k].pc = "start"
        /\ runs' = [runs EXCEPT ![t] = Append(@, new)]
        /\ job' = [job EXCEPT ![k].pc = "run", ![k].run = Len(runs[t]) + 1]
        /\ person' = [person EXCEPT ![t] = FALSE]
        /\ UNCHANGED <<task, lock, exec, claims, crashes, request, approved, failures>>

\* repo.heartbeat, from the background thread or the step itself.
Heartbeat(k) ==
    LET t == job[k].task
    IN  /\ job[k].pc = "run"
        /\ task[t].status \in Executing /\ task[t].token = k
        /\ task' = [task EXCEPT ![t].beat = "new"]
        /\ UNCHANGED <<runs, lock, exec, job, claims, crashes, request, history>>

\* What a step may do, and how its run is recorded; a failure of a step that opted
\* out of retries is reported as such.
Returns(step) ==
    {"ok", "degraded", "notready", "later"}
        \cup (IF step \in NoRetry THEN {"fatal"} ELSE {"failed"})

RunResult(kind) ==
    CASE kind \in {"ok", "degraded"} -> kind
      [] kind \in {"notready", "later"} -> "deferred"
      [] OTHER -> "failed"

\* The step returned or raised; its run is closed before the task moves.
JobReturn(k, kind) ==
    /\ job[k].pc = "run"
    /\ kind \in Returns(job[k].step)
    /\ runs' = [runs EXCEPT ![job[k].task][job[k].run].status = RunResult(kind)]
    /\ job' = [job EXCEPT ![k].pc = "finish", ![k].out = [kind |-> kind, attempt |-> 0]]
    /\ UNCHANGED <<task, lock, exec, claims, crashes, request, history>>

\* finish_step, one try: read the row ...
FinishRead(k) ==
    LET row == task[job[k].task]
    IN  /\ job[k].pc = "finish"
        /\ job' = IF \/ row.status \notin Executing
                     \/ row.token # k
                     \/ job[k].tries = Attempts
                  THEN Ended(k)
                  ELSE [job EXCEPT ![k].pc = "commit", ![k].seen = row, ![k].tries = @ + 1]
        /\ UNCHANGED <<tables, lock, exec, claims, crashes, request, history>>

\* ... decide, and write if nothing the decision used has changed.
FinishWrite(k) ==
    LET t == job[k].task
        seen == job[k].seen
        out == job[k].out
        charged == ~seen.term /\ out.kind \in {"failed", "fatal"}
    IN  /\ job[k].pc = "commit"
        /\ \/ /\ FinishMatches(task[t], seen, k)
              /\ task' = [task EXCEPT ![t] = Boundary(@, seen, out, LatestIsDegraded(runs[t]))]
              /\ job' = Ended(k)
              /\ failures' = IF charged THEN [failures EXCEPT ![t] = @ + 1] ELSE failures
           \/ /\ ~FinishMatches(task[t], seen, k)
              /\ job' = [job EXCEPT ![k].pc = "finish", ![k].seen = BlankRow]
              /\ UNCHANGED <<task, failures>>
        /\ UNCHANGED <<runs, lock, exec, claims, crashes, request, approved, person>>

\* An exception leaves execute: the job ends where it was.
JobRaises(k) ==
    /\ "job" \in Faults
    /\ job[k].pc \in Working
    /\ job' = Ended(k)
    /\ UNCHANGED <<tables, lock, exec, claims, crashes, request, history>>

---------------------------------------------------------------------------
(* Users, in processes of their own.                                        *)

UserReads(u, t) ==
    /\ request[u] = {}
    /\ \E d \in [act : UserActs, expect : {task[t].status}, step : {task[t].step},
                 arg : Steps \cup RetryCaps \cup {task[t].grant.attempt, 0}] :
          /\ Decides(d, task[t])
          /\ request' = [request EXCEPT ![u] = {[task |-> t, decision |-> d]}]
    /\ UNCHANGED <<tables, lock, exec, job, claims, crashes, history>>

\* The write applies if the status is still the one read; otherwise the command
\* reads and decides anew, which is the user's next action here.
UserWrites(u, t, d) ==
    LET applies == StillAsRead(task[t], d)
    IN  /\ [task |-> t, decision |-> d] \in request[u]
        /\ request' = [request EXCEPT ![u] = {}]
        /\ task' = IF applies THEN [task EXCEPT ![t] = Decided(@, d)] ELSE task
        /\ approved' = IF applies /\ d.act = "approve"
                       THEN approved \cup {<<t, d.step, d.arg>>} ELSE approved
        /\ failures' = IF applies /\ d.act = "set_retries"
                       THEN [failures EXCEPT ![t] = 0] ELSE failures
        /\ person' = IF applies /\ d.act \in {"resume", "retry", "approve", "set_step", "force_step"}
                     THEN [person EXCEPT ![t] = TRUE] ELSE person
        /\ UNCHANGED <<runs, lock, exec, job, claims, crashes>>

---------------------------------------------------------------------------
(* Time: a delay is over; a heartbeat becomes older than the timeout.       *)

DelayEnds(t) ==
    /\ task[t].due = "future"
    /\ task' = [task EXCEPT ![t].due = "past"]
    /\ UNCHANGED <<runs, lock, exec, job, claims, crashes, request, history>>

HeartbeatAges(t) ==
    /\ task[t].beat = "new"
    /\ task' = [task EXCEPT ![t].beat = "old"]
    /\ UNCHANGED <<runs, lock, exec, job, claims, crashes, request, history>>

---------------------------------------------------------------------------
Recovery(p) == ListRunning(p) \/ ListPausing(p)

Settle(p) ==
    \/ \E e \in exec[p].todo : ReclaimSkip(p, e) \/ SettleBegin(p, e)
    \/ SettleAgain(p) \/ SettleWrite(p) \/ SettleClose(p)

Round(p) ==
    \/ ListStale(p) \/ ListDueFailed(p) \/ CountRunning(p) \/ CountPausing(p) \/ ListQueued(p)
    \/ \E e \in exec[p].todo :
          RequeueFailed(p, e) \/ PassOver(p, e) \/ SkipStep(p, e) \/ Claim(p, e)
              \/ ClaimBeyondBound(p, e)

\* What the scheduling thread does by itself, and what happens to it.
Schedule(p) == Recovery(p) \/ Settle(p) \/ Round(p) \/ ReleaseLock(p)

Upset(p) == RequestStop(p) \/ Crash(p) \/ RoundFails(p) \/ RecoveryFails(p)

Work(k) ==
    \/ JobStart(k) \/ JobAdmit(k) \/ JobRecord(k)
    \/ \E kind \in Returns(job[k].step) : JobReturn(k, kind)
    \/ FinishRead(k) \/ FinishWrite(k)

Command(u) ==
    \/ \E t \in Tasks : UserReads(u, t)
    \/ \E r \in request[u] : UserWrites(u, r.task, r.decision)

Clock == \E t \in Tasks : DelayEnds(t) \/ HeartbeatAges(t)

Next ==
    \/ \E p \in Procs : AcquireLock(p) \/ Schedule(p) \/ Upset(p)
    \/ \E k \in Tokens : Work(k) \/ Heartbeat(k) \/ JobRaises(k)
    \/ \E u \in Users : Command(u)
    \/ Clock

Spec == Init /\ [][Next]_vars

\* The threads of a living process run, steps return, time passes.  Nothing makes
\* anybody start a process, stop it, or use a command.
FairSpec ==
    /\ Spec
    /\ \A p \in Procs : WF_vars(Schedule(p))
    /\ \A k \in Tokens : WF_vars(Work(k))
    /\ \A t \in Tasks : WF_vars(DelayEnds(t)) /\ WF_vars(HeartbeatAges(t))

---------------------------------------------------------------------------
TypeOK ==
    /\ task \in [Tasks -> Rows]
    /\ runs \in [Tasks -> Seq(Runs)]
    /\ lock \in Procs \cup {NoProc}
    /\ exec \in [Procs -> Threads]
    /\ job \in [Tokens -> Jobs]
    /\ claims \in 0 .. MaxClaims
    /\ crashes \in 0 .. MaxCrashes
    /\ request \in [Users -> SUBSET [task : Tasks, decision : Decisions]]
    /\ approved \subseteq Tasks \X Steps \X Nat
    /\ failures \in [Tasks -> Nat]
    /\ person \in [Tasks -> BOOLEAN]

\* A stop request and a claim token exist only while a worker can honour them: a
\* lost update between finish_step, _settle and the users would leave a queued or
\* resting task with a flag nobody reads, or an executing task without an owner.
FlagsMatchStatus == \A t \in Tasks : FlagsMatch(task[t])

\* Terminate wins: from the request on, no outcome of the step, no pause, no
\* recovery and no user action takes the task anywhere but to terminated (or, still
\* executing, to pause_pending), and the request is not withdrawn (I4).
TerminateWins ==
    [][\A t \in Tasks : task[t].term =>
          \/ task'[t].term /\ task'[t].status \in Executing /\ task'[t].step = task[t].step
          \/ task'[t].status = "terminated"]_vars

\* A finished task is never scheduled, moved or changed in status again.
TerminalIsFinal ==
    [][\A t \in Tasks : task[t].status \in Terminal =>
          task'[t].status = task[t].status /\ task'[t].step = task[t].step]_vars

\* A requested pause is not lost: the task leaves pause_pending only to paused, to
\* an end, or to a person's attention; it is never put back to work by itself.
PauseIsHonoured ==
    [][\A t \in Tasks : task[t].status = "pause_pending" =>
          task'[t].status \in {"pause_pending", "paused", "manual_required"} \cup Terminal]_vars

\* retry_count is the number of failures charged since the last set-retries: a
\* concurrent set-retries is never overwritten by a failing worker.
RetriesCounted == \A t \in Tasks : task[t].retry = failures[t]

\* A claimed step never runs twice: at no time two jobs, of any processes, hold the
\* same task (I3).
SingleExecution ==
    \A j, k \in Tokens :
        job[j].pc \in Live /\ job[k].pc \in Live /\ job[j].task = job[k].task => j = k

\* Startup recovery is complete: once rounds begin, no task is left executing under
\* a claim whose process is gone, whatever users did while recovery ran.
RecoveryComplete ==
    \A p \in Procs : exec[p].pc \in Looping =>
        \A t \in Tasks : task[t].status \in Executing => job[task[t].token].pc # "dead"

\* Progress is earned: an executing task moves to the next step, or ends as
\* completed, only with the latest step run being a success of that step under the
\* claim that holds the task.
AdvanceIsEarned ==
    [][\A t \in Tasks :
          LET old == task[t]  new == task'[t]  log == runs[t]
          IN  /\ old.status \in Executing
              /\ new.step # old.step \/ new.status \in {"completed", "partially_completed"}
              => /\ new.step \in {old.step, old.step + 1}
                 /\ log # << >>
                 /\ log[Len(log)].step = old.step
                 /\ log[Len(log)].token = old.token
                 /\ log[Len(log)].status \in {"ok", "degraded"}]_vars

\* completed and partially_completed tell whether the latest run of some step was
\* degraded, however often steps were re-run.
FinalStatusTells ==
    \A t \in Tasks :
        /\ task[t].status = "completed" => ~LatestIsDegraded(runs[t])
        /\ task[t].status = "partially_completed" => LatestIsDegraded(runs[t])

\* A step with side effects runs only if a person approved exactly that attempt of
\* it, and no approval is used by two runs (I6, and I5 after a crash).
EachRunApproved ==
    \A t \in Tasks : \A i \in DOMAIN runs[t] :
        runs[t][i].step \in SideEffects =>
            /\ <<t, runs[t][i].step, runs[t][i].attempt>> \in approved
            /\ \A j \in DOMAIN runs[t] :
                  runs[t][j].step = runs[t][i].step /\ runs[t][j].attempt = runs[t][i].attempt
                      => i = j

\* A task awaiting approval can be approved: it asks for the step it is on, for the
\* attempt that would run next.
AskIsCurrent ==
    \A t \in Tasks : task[t].status = "awaiting_approval" =>
        task[t].grant = AskedValue(task[t].step, RunCount(t, task[t].step) + 1)

\* A step that opted out of retries is never repeated by the machine: when the last
\* run of a task was of that step and failed, was interrupted or still hangs, the step
\* runs again only after a person put the task to work; a deferral may be repeated.
NoRetryNeedsPerson ==
    [][\A t \in Tasks :
          LET log == runs[t]  new == runs'[t]
          IN  /\ Len(new) > Len(log) /\ log # << >>
              /\ new[Len(new)].step = log[Len(log)].step
              /\ new[Len(new)].step \in NoRetry
              => person[t] \/ log[Len(log)].status = "deferred"]_vars

\* The per-step quota: never more tasks of a step executing than its quota.
QuotaRespected ==
    \A s \in Steps :
        Cardinality({t \in Tasks : task[t].status \in Executing /\ task[t].step = s}) <= Quota[s]

\* Recovery and reclaim leave no step run stuck in "running": while it says so, its
\* task is executing (or is being settled right now).
NoHangingRun ==
    \A t \in Tasks :
        (\E i \in DOMAIN runs[t] : runs[t][i].status = "running") =>
            \/ task[t].status \in Executing
            \/ \E p \in Procs : exec[p].cur = t /\ exec[p].sub = "close"

\* A step is skipped only if its own when() answered False: a queued task moves on,
\* without a user moving it, from conditional steps alone.
SkipIsAsked ==
    [][\A t \in Tasks :
          /\ task[t].status = "queued" /\ request' = request
          /\ task'[t].step # task[t].step \/ task'[t].status \in Terminal
          => task[t].step \in Conditional]_vars

NoExecutor == \A p \in Procs : exec[p].pc = "off"

\* A stop request is honoured as long as an executor lives, also when the job that
\* should honour it died, gave up on its writes, or never started.
StopIsHonoured ==
    \A t \in Tasks :
        /\ task[t].term ~> (task[t].status = "terminated" \/ NoExecutor)
        /\ task[t].status = "pause_pending" ~> (task[t].status # "pause_pending" \/ NoExecutor)

\* A failed task does not stay failed: its automatic retry comes.
FailedIsRetried ==
    \A t \in Tasks : task[t].status = "failed" ~> (task[t].status # "failed" \/ NoExecutor)

\* No task stays executing, or queued, for ever (up to the bound on claims).
TasksMove ==
    \A t \in Tasks :
        /\ task[t].status \in Executing ~> (task[t].status \notin Executing \/ NoExecutor)
        /\ task[t].status = "queued" ~>
              (task[t].status # "queued" \/ claims = MaxClaims \/ NoExecutor)
=============================================================================

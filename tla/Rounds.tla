------------------------------- MODULE Rounds -------------------------------
(***************************************************************************)
(* Rounds of the scheduler: run_until_idle (core/runtime.py), which stops  *)
(* by itself, and the daemon's loop (daemon.py), which does not, over      *)
(* Coordinator.tick and the worker pool.  Engine asks how rows fare when   *)
(* many actors write them; here nobody else writes, and the questions are  *)
(* those of the loop: whether it goes on while there is work, whether it   *)
(* ends, and whether every job it submitted is run.                        *)
(***************************************************************************)
EXTENDS Integers, Sequences, FiniteSets

CONSTANTS Name,           \* step names
          Workflows,      \* workflow -> its sequence of step names
          Tasks,          \* the workflows of the tasks there are at first
          Spawns,         \* step -> the workflows of the children a success creates
          Skips,          \* steps whose when() answers False
          Quota,          \* step -> AppConfig.step_quota
          MaxRetries,     \* scheduler.max_retries
          Outcomes,       \* what running a step may come to in this instance
          Resident,       \* TRUE: the daemon; FALSE: run_until_idle
          Size,           \* WorkerPool.size
          Slack,          \* what run_until_idle adds to its cap (50 in the code)
          MaxRefusals,    \* bound: threads the operating system refuses to start
          MaxRaises       \* bound: jobs ended by an exception of the runner

RoundsAssumption ==
    /\ \A w \in DOMAIN Workflows : Workflows[w] \in Seq(Name) /\ Workflows[w] # << >>
    /\ \E w \in DOMAIN Workflows :
          \A v \in DOMAIN Workflows : Len(Workflows[v]) =< Len(Workflows[w])
    /\ Tasks \in Seq(DOMAIN Workflows)
    /\ Spawns \in [Name -> Seq(DOMAIN Workflows)] /\ Skips \subseteq Name
    /\ Quota \in [Name -> Nat \ {0}] /\ MaxRetries \in Nat
    /\ Outcomes \subseteq {"done", "defer", "delay", "fail", "failLater", "raise"}
    /\ Resident \in BOOLEAN /\ Size \in Nat \ {0}
    /\ Slack \in Nat \ {0} /\ MaxRefusals \in Nat /\ MaxRaises \in Nat

VARIABLES
    tasks,      \* the rows: [wf, step, status, retry: next_retry_at, count]
    old,        \* executing tasks whose heartbeat is past the timeout
    phase,      \* where the scheduling thread is
    listed,     \* rows of the tick not visited yet
    load,       \* step -> load counted by the tick
    progressed, \* what the tick counted
    rounds,     \* rounds done, up to the cap
    cap,        \* of run_until_idle
    ending,     \* why the loop ended; "" before
    inflight,   \* Coordinator._inflight
    queue,      \* the executor's work queue
    threads,    \* worker threads started
    running,    \* jobs in a worker thread
    pending,    \* WorkerPool._pending: submitted and not swept
    raised,     \* jobs whose future holds an exception and is still in pending
    refusals, raises, \* counters of the bounds
    again,      \* history: a run came to something else than success
    passed      \* history: per task, the steps it succeeded in or skipped

sched == <<phase, listed, load, progressed, rounds, cap, ending>>
pool == <<inflight, queue, threads, running, pending, raised>>
history == <<refusals, raises, again, passed>>
vars == <<tasks, old, sched, pool, history>>

Id == 1..Len(tasks)
Phases == {"start", "tick", "drain", "wait", "closing", "over"}
Row(w) == [wf |-> w, step |-> Workflows[w][1], status |-> "queued", retry |-> "none", count |-> 0]

(* WorkflowDef.next_step: the name after the first place the step has. *)
PlaceOff(w, s) == CHOOSE i \in 0..(Len(Workflows[w]) - 1) :
                  Workflows[w][i + 1] = s /\ \A j \in 1..i : Workflows[w][j] # s
Place(w, s) == CHOOSE i \in DOMAIN Workflows[w] :
                  Workflows[w][i] = s /\ \A j \in 1..(i - 1) : Workflows[w][j] # s
Advanced(row) ==
    LET i == Place(row.wf, row.step) IN
    IF i >= Len(Workflows[row.wf])
    THEN [row EXCEPT !.status = "completed", !.retry = "none"]
    ELSE [row EXCEPT !.step = Workflows[row.wf][i + 1], !.status = "queued",
                     !.retry = "none", !.count = 0]

CapOfTasks == Len(tasks) + Slack
Cap == Len(tasks) * (CHOOSE n \in {Len(Workflows[w]) : w \in DOMAIN Workflows} :
                        \A w \in DOMAIN Workflows : Len(Workflows[w]) =< n) + Slack
LoadNow == [s \in Name |-> Cardinality({t \in Id : tasks[t].status = "running" /\ tasks[t].step = s})]
Done(futures) == {t \in futures : t \notin running /\ \A i \in DOMAIN queue : queue[i] # t}

-----------------------------------------------------------------------------
Init ==
    /\ tasks = [i \in DOMAIN Tasks |-> Row(Tasks[i])]
    /\ phase = "start" /\ listed = {} /\ load = [s \in Name |-> 0] /\ progressed = 0
    /\ rounds = 0 /\ ending = "" /\ old = {}
    /\ cap = Cap
    /\ inflight = {} /\ queue = << >> /\ threads = 0 /\ running = {}
    /\ pending = {} /\ raised = {}
    /\ refusals = 0 /\ raises = 0 /\ again = FALSE
    /\ passed = [i \in DOMAIN Tasks |-> << >>]

End(why) == phase' = "closing" /\ ending' = why

(* The loop's condition; the daemon has none. *)
GoesOnForever == TRUE
MayGoOn == Resident \/ rounds < cap

(* The daemon's next round begins with reclaim_stale: what has an old heartbeat and *)
(* is not in flight here is settled (requeue_stale).                               *)
NextRound ==
    /\ Resident /\ phase = "wait"
    /\ tasks' = [t \in Id |-> IF t \in old \ inflight /\ tasks[t].status = "running"
                             THEN [tasks[t] EXCEPT !.status = "queued", !.retry = "none"]
                             ELSE tasks[t]]
    /\ old' = old \cap inflight
    /\ phase' = "start"
    /\ UNCHANGED <<listed, load, progressed, rounds, cap, ending, pool, history>>

Stop ==
    /\ Resident /\ phase = "wait"
    /\ End("stopped")
    /\ UNCHANGED <<tasks, old, listed, load, progressed, rounds, cap, pool, history>>

(* _requeue_due_failures, the load and the list.  The rows do not change between:  *)
(* the other writers are jobs, and what a round makes of a job that ends while it  *)
(* lists is Engine's question.                                                     *)
Due(row) == row.retry \in {"none", "now", "past"}
BeginTick ==
    /\ phase = "start" /\ MayGoOn
    /\ LET due == {t \in Id : tasks[t].status = "failed" /\ Due(tasks[t])}
           requeued == [t \in Id |-> IF t \in due
                                     THEN [tasks[t] EXCEPT !.status = "queued", !.retry = "none"]
                                     ELSE tasks[t]]
       IN /\ tasks' = requeued
          /\ progressed' = Cardinality(due)
          /\ listed' = {t \in Id : requeued[t].status = "queued" /\ Due(requeued[t])}
    /\ load' = LoadNow
    /\ phase' = "tick"
    /\ UNCHANGED <<old, rounds, cap, ending, pool, history>>

CapReached ==
    /\ phase = "start" /\ ~MayGoOn
    /\ End("capped")
    /\ UNCHANGED <<tasks, old, listed, load, progressed, rounds, cap, pool, history>>

Full(t) == load[tasks[t].step] >= Quota[tasks[t].step]
PassOver(t) ==
    /\ phase = "tick" /\ t \in listed /\ Full(t)
    /\ listed' = listed \ {t}
    /\ UNCHANGED <<tasks, old, phase, load, progressed, rounds, cap, ending, pool, history>>

(* A skip counts as progress: the task may have a next step to run. *)
SkipIsNothing == 0
SkipCounts == 1
Skip(t) ==
    /\ phase = "tick" /\ t \in listed /\ ~Full(t) /\ tasks[t].step \in Skips
    /\ tasks' = [tasks EXCEPT ![t] = Advanced(@)]
    /\ passed' = [passed EXCEPT ![t] = Append(@, tasks[t].step)]
    /\ progressed' = progressed + SkipCounts
    /\ listed' = listed \ {t}
    /\ UNCHANGED <<old, phase, load, rounds, cap, ending, pool, refusals, raises, again>>

(* ThreadPoolExecutor.submit: the job is in the queue before a thread for it is    *)
(* started, and stays there when none can be.                                      *)
Idle == threads > Cardinality(running)
Starts == threads' = IF Idle \/ threads = Size THEN threads ELSE threads + 1
Claims(t) ==
    /\ phase = "tick" /\ t \in listed /\ ~Full(t) /\ tasks[t].step \notin Skips
    /\ tasks' = [tasks EXCEPT ![t].status = "running", ![t].retry = "none"]
    /\ load' = [load EXCEPT ![tasks[t].step] = @ + 1]
    /\ inflight' = inflight \cup {t}
    /\ queue' = Append(queue, t)
    /\ old' = old \ {t}

(* WorkerPool.submit drops the futures that are done from its list. *)
Claim(t) ==
    /\ Claims(t) /\ Starts
    /\ pending' = (pending \ Done(pending)) \cup {t}
    /\ raised' = raised \cap pending'
    /\ progressed' = progressed + 1
    /\ listed' = listed \ {t}
    /\ UNCHANGED <<phase, rounds, cap, ending, running, history>>

(* No thread can be started: submit raises out of the tick. *)
ThreadRefused(t) ==
    /\ Claims(t) /\ ~Idle /\ threads < Size /\ refusals < MaxRefusals
    /\ refusals' = refusals + 1
    /\ listed' = {}
    /\ IF Resident THEN phase' = "wait" /\ UNCHANGED ending ELSE End("raised")
    /\ UNCHANGED <<progressed, rounds, cap, threads, running, pending, raised, raises, again, passed>>

EndTick ==
    /\ phase = "tick" /\ listed = {}
    /\ phase' = IF Resident THEN "wait" ELSE "drain"
    /\ progressed' = IF Resident THEN 0 ELSE progressed
    /\ load' = [s \in Name |-> 0]
    /\ UNCHANGED <<tasks, old, listed, rounds, cap, ending, pool, history>>

(* WorkerPool.drain waits for the futures it has and raises what one of them holds. *)
DrainRaises ==
    /\ phase = "drain" /\ raised # {}
    /\ pending' = {} /\ raised' = {}
    /\ End("raised")
    /\ UNCHANGED <<tasks, old, listed, load, progressed, rounds, cap,
                   inflight, queue, threads, running, history>>

Drained ==
    /\ phase = "drain" /\ raised = {} /\ Done(pending) = pending
    /\ pending' = {}
    /\ rounds' = IF rounds < cap THEN rounds + 1 ELSE rounds
    /\ IF progressed = 0 THEN End("idle") ELSE phase' = "start" /\ UNCHANGED ending
    /\ UNCHANGED <<tasks, old, listed, load, progressed, cap,
                   inflight, queue, threads, running, raised, history>>

(* shutdown(wait=True): the threads there are empty the queue; then the executor   *)
(* lock is released.                                                               *)
NotJoined == TRUE
JoinedAll == running = {} /\ (queue = << >> \/ threads = 0)
Release ==
    /\ phase = "closing" /\ JoinedAll
    /\ phase' = "over"
    /\ UNCHANGED <<tasks, old, listed, load, progressed, rounds, cap, ending, pool, history>>

-----------------------------------------------------------------------------
(* The worker threads. *)
JobStart ==
    /\ Idle /\ queue # << >>
    /\ running' = running \cup {Head(queue)}
    /\ queue' = Tail(queue)
    /\ UNCHANGED <<tasks, old, sched, inflight, threads, pending, raised, history>>

(* The finally of the job: its entry goes, whatever happened. *)
EntryKept(t, raises_) == IF raises_ THEN inflight ELSE inflight \ {t}
EntryAfter(t, raises_) == inflight \ {t}
JobOver(t, raises_) ==
    /\ t \in running
    /\ running' = running \ {t}
    /\ inflight' = EntryAfter(t, raises_)
    /\ UNCHANGED old
    /\ UNCHANGED <<sched, queue, threads, pending, refusals>>

JobDone(t) ==
    /\ JobOver(t, FALSE)
    /\ tasks' = [tasks EXCEPT ![t] = Advanced(@)]
                \o [i \in DOMAIN Spawns[tasks[t].step] |-> Row(Spawns[tasks[t].step][i])]
    /\ passed' = [passed EXCEPT ![t] = Append(@, tasks[t].step)]
                \o [i \in DOMAIN Spawns[tasks[t].step] |-> << >>]
    /\ UNCHANGED <<raised, raises, again>>

JobDefers(t) ==
    /\ JobOver(t, FALSE)
    /\ \E o \in Outcomes \cap {"defer", "delay"} :
          tasks' = [tasks EXCEPT ![t].status = "queued",
                                 ![t].retry = IF o = "delay" THEN "later" ELSE "none"]
    /\ again' = TRUE
    /\ UNCHANGED <<raised, raises, passed>>

Failed(row, o) ==
    IF row.count < MaxRetries
    THEN [row EXCEPT !.status = "failed", !.count = @ + 1,
                     !.retry = IF o = "failLater" THEN "later" ELSE "now"]
    ELSE [row EXCEPT !.status = "manual_required"]
JobFails(t) ==
    /\ JobOver(t, FALSE)
    /\ \E o \in Outcomes \cap {"fail", "failLater"} :
          tasks' = [tasks EXCEPT ![t] = Failed(@, o)]
    /\ again' = TRUE
    /\ UNCHANGED <<raised, raises, passed>>

(* The runner itself raises, for instance over the database: the row stays as it is. *)
JobRaises(t) ==
    /\ JobOver(t, TRUE)
    /\ "raise" \in Outcomes /\ raises < MaxRaises
    /\ raised' = raised \cup ({t} \cap pending)
    /\ raises' = raises + 1
    /\ again' = TRUE
    /\ UNCHANGED <<tasks, passed>>

DelayEnds(t) ==
    /\ tasks[t].retry = "later" /\ phase # "over"
    /\ tasks' = [tasks EXCEPT ![t].retry = "past"]
    /\ UNCHANGED <<old, sched, pool, history>>

HeartbeatAges(t) ==
    /\ tasks[t].status = "running" /\ t \notin old
    /\ old' = old \cup {t}
    /\ UNCHANGED <<tasks, sched, pool, history>>

Schedule == \/ BeginTick \/ CapReached \/ EndTick \/ DrainRaises \/ Drained
            \/ NextRound \/ Release
            \/ \E t \in Id : PassOver(t) \/ Skip(t) \/ Claim(t) \/ ThreadRefused(t)
JobEnds(t) == JobDone(t) \/ JobDefers(t) \/ JobFails(t) \/ JobRaises(t)
Next ==
    \/ Schedule \/ JobStart
    \/ Stop
    \/ \E t \in Id : JobEnds(t) \/ DelayEnds(t) \/ HeartbeatAges(t)
    \/ phase = "over" /\ UNCHANGED vars

Spec == Init /\ [][Next]_vars

MaxTask == 4
FairSpec == Spec /\ WF_vars(Schedule) /\ WF_vars(JobStart)
                 /\ \A t \in 1..MaxTask : WF_vars(t \in Id /\ HeartbeatAges(t)) /\ WF_vars(t \in Id /\ JobEnds(t))

-----------------------------------------------------------------------------
TypeOK ==
    /\ \A t \in Id : tasks[t] \in
         [wf : DOMAIN Workflows, step : Name, retry : {"none", "now", "later", "past"},
          status : {"queued", "running", "failed", "completed", "manual_required"},
          count : 0..MaxRetries]
    /\ old \subseteq Id /\ phase \in Phases /\ listed \subseteq Id
    /\ running \subseteq Id /\ pending \subseteq Id /\ raised \subseteq pending
    /\ inflight \subseteq Id /\ threads \in 0..Size /\ Cardinality(running) =< threads

(* run_until_idle that ended by itself left nothing it could have gone on with:     *)
(* each task that still has to run was told to wait by a step (docs/concepts.md,    *)
(* "performs ticks until no further progress is made").  A row a raising job left   *)
(* behind may hold a quota and is left out.                                         *)
IdleIsDone ==
    ending = "idle" /\ raises = 0 => \A t \in Id : tasks[t].status \in {"queued", "failed"}
                                        => tasks[t].retry \in {"later", "past"}

(* The cap of run_until_idle only ever stops steps that are run again and again     *)
(* ("A safety cap prevents an unbounded loop if steps keep deferring").             *)
CapIsForRepeats == ending = "capped" => again

(* A task goes through the steps of its workflow in order, and is completed when it *)
(* has gone through them all.                                                       *)
StepsInOrder ==
    \A t \in Id :
       LET steps == Workflows[tasks[t].wf] IN
       /\ Len(passed[t]) =< Len(steps)
       /\ \A i \in DOMAIN passed[t] : passed[t][i] = steps[i]
       /\ tasks[t].status = "completed" => passed[t] = steps

(* No job of this process runs once the executor lock is released.                  *)
NothingRunsUnlocked == phase = "over" => running = {}

(* What the order of the steps and the cap take for granted: no workflow repeats a  *)
(* name, and the steps of a run that ends by itself create no tasks (the cap counts *)
(* those there are when it begins).                                                 *)
NamedOnce ==
    \A w \in DOMAIN Workflows : \A i, j \in DOMAIN Workflows[w] :
        Workflows[w][i] = Workflows[w][j] => i = j
NoneJoin == Resident \/ \A s \in Name : Spawns[s] = << >>

(* A run ends by itself only when it is done, its cap is for repeated steps, tasks  *)
(* keep to their workflow, and no job outlives the lock.                            *)
RoundsHold ==
    TypeOK /\ IdleIsDone /\ CapIsForRepeats /\ StepsInOrder /\ NothingRunsUnlocked

Over == phase = "over"
Claimed(t) == t \in Id /\ tasks[t].status = "running"
=============================================================================

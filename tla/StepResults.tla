---------------------------- MODULE StepResults ----------------------------
(***************************************************************************)
(* What a step's result writes besides the row of its task: artifacts,     *)
(* updates of columns, the end of its step run, and child tasks.  A result *)
(* without children is written in separate transactions, one after the     *)
(* other; a result that spawns is written in the transaction that moves    *)
(* the task: updates, the closing of the run, the children and the move,   *)
(* all or nothing (runner.py, children.py, repository.py).                 *)
(*                                                                         *)
(* One parent task; its children are entries of table "task_spawns" (each  *)
(* is a queued task of its own from then on).  As in ExternalWork, a claim *)
(* has one worker, and the row is settled when that worker is gone.        *)
(***************************************************************************)
EXTENDS TaskRow, Sequences, FiniteSets

CONSTANTS
    Keys, NoKey,   \* names of children within their parent; NoKey: a child without
    Plans,         \* the sequences of children a step may return
    UserActs,      \* the user actions of this instance
    MaxClaims,     \* bound: executions in a behaviour
    MaxFaults      \* bound: kills and database errors in a behaviour

SpawnAssumption ==
    /\ NoKey \notin Keys /\ Plans \subseteq Seq(Keys \cup {NoKey}) /\ << >> \in Plans
    /\ UserActs \subseteq UserActions /\ MaxClaims \in Nat /\ MaxFaults \in Nat

VARIABLES
    row,        \* the parent task
    runs,       \* table step_runs; "plan" is what the run returned (history)
    artifacts,  \* table artifacts, in order of id: the run of each (one type)
    updates,    \* the run whose updates the columns of the task hold, 0 for none
    spawns,     \* table task_spawns: name, run and place in its result of each child
    worker,     \* the execution of each claim
    claims, faults,
    request     \* a user's action between its read and its write

vars == <<row, runs, artifacts, updates, spawns, worker, claims, faults, request>>
tables == <<row, runs, artifacts, updates, spawns>>

Tokens == 1 .. MaxClaims

RunStatus == {"running", "ok", "failed", "interrupted"}
Runs == [step : Steps, status : RunStatus, plan : Plans]
Spawns == [key : Keys \cup {NoKey}, run : Nat, place : Nat]

---------------------------------------------------------------------------
(* children.py: plan_children.                                              *)

\* A key names one child: used twice, the result is refused and nothing is written.
PlanValid(plan) ==
    \A i, j \in DOMAIN plan : plan[i] = plan[j] /\ plan[i] # NoKey => i = j

\* Mutant of ToCreate: what was spawned before is created again.
ToCreateAll(plan, spawned) == DOMAIN plan

\* spawner: a child whose key the parent already spawned is not created again.
ToCreate(plan, spawned) ==
    {n \in DOMAIN plan : plan[n] = NoKey \/ \A child \in spawned : child.key # plan[n]}

\* task_spawns with the children of a run, one entry each.
WithChildren(plan, run, spawned) ==
    spawned \cup {[key |-> plan[n], run |-> run, place |-> n] : n \in ToCreate(plan, spawned)}

---------------------------------------------------------------------------
BlankRow == NewRow(CHOOSE c \in RetryCaps : TRUE)

\* pc: start; run (the step runs); artifacts, columns, close (a result being written);
\* finish, commit (finish_step); reread (committed, to be read back); undone (the
\* transaction did not commit); gone.
Workers == [pc : {"none", "start", "run", "artifacts", "columns", "close", "finish",
                  "commit", "reread", "undone", "gone"},
            run : Nat, out : [kind : {"ok", "notready", "failed", "fatal"}],
            plan : Plans, seen : Rows]

Idle(pc) == [pc |-> pc, run |-> 0, out |-> [kind |-> "notready"], plan |-> << >>,
             seen |-> BlankRow]

Goes(k, pc) == [worker EXCEPT ![k].pc = pc]

Spawning(k) == worker[k].plan # << >> /\ worker[k].out.kind = "ok"

FailKind(step) == IF step \in NoRetry THEN "fatal" ELSE "failed"

Init ==
    /\ row \in {NewRow(c) : c \in RetryCaps}
    /\ runs = << >>
    /\ artifacts = << >>
    /\ updates = 0
    /\ spawns = {}
    /\ worker = [k \in Tokens |-> Idle("none")]
    /\ claims = 0 /\ faults = 0
    /\ request = {}

---------------------------------------------------------------------------
Claim ==
    /\ row.status = "queued" /\ row.due # "future"
    /\ claims < MaxClaims
    /\ claims' = claims + 1
    /\ row' = Claimed(row, claims + 1)
    /\ worker' = [worker EXCEPT ![claims + 1] = Idle("start")]
    /\ UNCHANGED <<runs, artifacts, updates, spawns, faults, request>>

\* A stop requested before the step started is honoured; else the run is recorded.
Start(k) ==
    /\ worker[k].pc = "start"
    /\ IF row.term \/ row.pause
       THEN worker' = Goes(k, "finish") /\ UNCHANGED runs
       ELSE /\ runs' = Append(runs, [step |-> row.step, status |-> "running", plan |-> << >>])
            /\ worker' = [worker EXCEPT ![k].pc = "run", ![k].run = Len(runs) + 1]
    /\ UNCHANGED <<row, artifacts, updates, spawns, claims, faults, request>>

\* The step failed, or its result does not validate: the run is closed as failed.
Fails(k) ==
    /\ runs' = [runs EXCEPT ![worker[k].run].status = "failed"]
    /\ worker' = [worker EXCEPT ![k].pc = "finish", ![k].plan = << >>,
                                ![k].out = [kind |-> FailKind(runs[worker[k].run].step)]]
    /\ UNCHANGED <<row, artifacts, updates, spawns, claims, faults, request>>

StepRaises(k) == worker[k].pc = "run" /\ Fails(k)

StepReturns(k, plan) ==
    /\ worker[k].pc = "run"
    /\ IF PlanValid(plan)
       THEN /\ worker' = [worker EXCEPT ![k].pc = "artifacts", ![k].plan = plan,
                                        ![k].out = [kind |-> "ok"]]
            /\ runs' = [runs EXCEPT ![worker[k].run].plan = plan]
            /\ UNCHANGED <<row, artifacts, updates, spawns, claims, faults, request>>
       ELSE Fails(k)

\* Mutant of AfterArtifacts: every result's updates are written ahead of its transition.
ColumnsAhead(k) == "columns"

AfterArtifacts(k) == IF Spawning(k) THEN "finish" ELSE "columns"

\* _record_artifacts: a transaction of its own, whatever the result is.
RecordArtifacts(k) ==
    /\ worker[k].pc = "artifacts"
    /\ artifacts' = Append(artifacts, worker[k].run)
    /\ worker' = Goes(k, AfterArtifacts(k))
    /\ UNCHANGED <<row, runs, updates, spawns, claims, faults, request>>

\* update_fields under the claim token, for a result that does not spawn ...
WriteColumns(k) ==
    /\ worker[k].pc = "columns"
    /\ updates' = IF row.token = k THEN worker[k].run ELSE updates
    /\ worker' = Goes(k, "close")
    /\ UNCHANGED <<row, runs, artifacts, spawns, claims, faults, request>>

\* ... whose run is closed next, before the task moves.
CloseRun(k) ==
    /\ worker[k].pc = "close"
    /\ runs' = [runs EXCEPT ![worker[k].run].status = "ok"]
    /\ worker' = Goes(k, "finish")
    /\ UNCHANGED <<row, artifacts, updates, spawns, claims, faults, request>>

\* An error while a result is written, before any transition: the step failed.
WriteRaises(k) ==
    /\ worker[k].pc \in {"artifacts", "columns"}
    /\ faults < MaxFaults
    /\ faults' = faults + 1
    /\ runs' = [runs EXCEPT ![worker[k].run].status = "failed"]
    /\ worker' = [worker EXCEPT ![k].pc = "finish", ![k].plan = << >>,
                                ![k].out = [kind |-> FailKind(runs[worker[k].run].step)]]
    /\ UNCHANGED <<row, artifacts, updates, spawns, claims, request>>

---------------------------------------------------------------------------
(* finish_step.                                                             *)

FinishRead(k) ==
    /\ worker[k].pc = "finish"
    /\ worker' = IF row.status \in Executing /\ row.token = k
                 THEN [worker EXCEPT ![k].pc = "commit", ![k].seen = row]
                 ELSE Goes(k, "gone")
    /\ UNCHANGED <<tables, claims, faults, request>>

\* _result_change: a spawning step's updates and run end go with its transition,
\* whatever it is.
ResultChange(k, new) == Spawning(k)

\* Mutant of SpawnChange: a terminate does not matter.
SpawnChangeAlways(k, new) == Spawning(k)

\* _spawn_change: no children if the boundary terminates the task instead.
SpawnChange(k, new) == Spawning(k) /\ new.status # "terminated"

FinishWrite(k) ==
    LET w == worker[k]
        new == Boundary(row, w.seen, w.out, FALSE)
    IN  /\ w.pc = "commit"
        /\ IF FinishMatches(row, w.seen, k)
           THEN /\ row' = new
                /\ worker' = Goes(k, "reread")
                /\ updates' = IF ResultChange(k, new) THEN w.run ELSE updates
                /\ runs' = IF ResultChange(k, new) /\ runs[w.run].status = "running"
                           THEN [runs EXCEPT ![w.run].status = "ok"] ELSE runs
                /\ spawns' = IF SpawnChange(k, new)
                             THEN WithChildren(w.plan, w.run, spawns) ELSE spawns
           ELSE /\ worker' = [Goes(k, "finish") EXCEPT ![k].seen = BlankRow]
                /\ UNCHANGED <<row, runs, updates, spawns>>
        /\ UNCHANGED <<artifacts, claims, faults, request>>

\* The transaction raises (an insert fails, the disk is full): rolled back as a whole.
WriteRollsBack(k) ==
    /\ worker[k].pc = "commit" /\ Spawning(k)
    /\ faults < MaxFaults
    /\ faults' = faults + 1
    /\ worker' = Goes(k, "undone")
    /\ UNCHANGED <<tables, claims, request>>

ReadBack(k) ==
    /\ worker[k].pc = "reread"
    /\ worker' = Goes(k, "gone")
    /\ UNCHANGED <<tables, claims, faults, request>>

\* Mutant of AfterLostRead: any exception of finish_step counts as a rollback.
AfterLostReadUndone(k) == IF Spawning(k) THEN "undone" ELSE "gone"

\* _read_back raises TransitionCommitted: nothing is rewritten.
AfterLostRead(k) == "gone"

ReadBackFails(k) ==
    /\ worker[k].pc = "reread"
    /\ faults < MaxFaults
    /\ faults' = faults + 1
    /\ worker' = Goes(k, AfterLostRead(k))
    /\ UNCHANGED <<tables, claims, request>>

\* The children could not be created: the step failed instead.
FailUndone(k) == worker[k].pc = "undone" /\ Fails(k)

---------------------------------------------------------------------------
WorkerDies(k) ==
    /\ worker[k].pc \notin {"none", "gone"}
    /\ faults < MaxFaults
    /\ faults' = faults + 1
    /\ worker' = Goes(k, "gone")
    /\ UNCHANGED <<tables, claims, request>>

\* Recovery or reclaim settles the row and closes its open runs.
Settle ==
    /\ row.status \in Executing
    /\ worker[row.token].pc = "gone"
    /\ row' = Settled(row, row)
    /\ runs' = [i \in DOMAIN runs |->
                   IF runs[i].status = "running"
                   THEN [runs[i] EXCEPT !.status = "interrupted"] ELSE runs[i]]
    /\ UNCHANGED <<artifacts, updates, spawns, worker, claims, faults, request>>

Requeue ==
    /\ row.status = "failed" /\ row.due # "future"
    /\ row' = Requeued(row)
    /\ UNCHANGED <<runs, artifacts, updates, spawns, worker, claims, faults, request>>

DelayEnds ==
    /\ row.due = "future"
    /\ row' = [row EXCEPT !.due = "past"]
    /\ UNCHANGED <<runs, artifacts, updates, spawns, worker, claims, faults, request>>

UserReads ==
    /\ request = {}
    /\ \E d \in [act : UserActs, expect : {row.status}, step : {row.step},
                 arg : Steps \cup RetryCaps \cup {0}] :
          Decides(d, row) /\ request' = {d}
    /\ UNCHANGED <<tables, worker, claims, faults>>

UserWrites(d) ==
    /\ d \in request
    /\ request' = {}
    /\ row' = IF StillAsRead(row, d) THEN Decided(row, d) ELSE row
    /\ UNCHANGED <<runs, artifacts, updates, spawns, worker, claims, faults>>

---------------------------------------------------------------------------
(* artifact_log.py: what readers of the artifacts see.                      *)

Finished(i) == runs[i].status = "ok"

\* Mutant of Visible: the run is not asked.
VisibleAtOnce == DOMAIN artifacts

\* list_for_task: the artifacts whose run finished.
Visible == {n \in DOMAIN artifacts : Finished(artifacts[n])}

---------------------------------------------------------------------------
Work(k) ==
    \/ Start(k) \/ StepRaises(k) \/ \E plan \in Plans : StepReturns(k, plan)
    \/ RecordArtifacts(k) \/ WriteColumns(k) \/ CloseRun(k) \/ WriteRaises(k)
    \/ FinishRead(k) \/ FinishWrite(k) \/ WriteRollsBack(k)
    \/ ReadBack(k) \/ ReadBackFails(k) \/ FailUndone(k)

Next ==
    \/ Claim \/ Settle \/ Requeue \/ DelayEnds
    \/ \E k \in Tokens : Work(k) \/ WorkerDies(k)
    \/ UserReads
    \/ \E d \in request : UserWrites(d)

Spec == Init /\ [][Next]_vars

---------------------------------------------------------------------------
TypeOK ==
    /\ row \in Rows
    /\ runs \in Seq(Runs)
    /\ artifacts \in Seq(Nat)
    /\ updates \in Nat
    /\ spawns \in SUBSET Spawns
    /\ worker \in [Tokens -> Workers]
    /\ claims \in 0 .. MaxClaims /\ faults \in 0 .. MaxFaults
    /\ request \in SUBSET Decisions

SpawnedBy(i) == {child \in spawns : child.run = i}

\* Children come with a success and with nothing else: every child was created by a run
\* that is recorded as finished, and a finished run that spawns has all its children,
\* unless its boundary terminated the task, which creates none.
AllOrNothing ==
    \A i \in DOMAIN runs :
        /\ SpawnedBy(i) # {} => Finished(i)
        /\ Finished(i) /\ runs[i].plan # << >> =>
              \/ \A n \in DOMAIN runs[i].plan :
                    \E child \in spawns :
                        /\ child.key = runs[i].plan[n]
                        /\ child.key = NoKey => child.run = i /\ child.place = n
              \/ SpawnedBy(i) = {} /\ row.status = "terminated" /\ i = Len(runs)

\* A keyed child exists once, however often its step is run, rolled back or repeated, and
\* a result whose children exist is not about to create them.
KeysOnce ==
    /\ \A c, d \in spawns : c.key = d.key /\ c.key # NoKey => c = d
    /\ \A k \in Tokens : worker[k].pc = "commit" /\ Spawning(k) => SpawnedBy(worker[k].run) = {}

\* Updates of a spawning result are never left behind by a transition that failed: the
\* run they came from is recorded as finished.  (Those of any other result are written
\* before its run ends.)
UpdatesWithRun ==
    updates # 0 /\ runs[updates].plan # << >> => Finished(updates)

\* A run that spawned is never charged as a failure afterwards, and a parent that moved
\* on has a finished run behind it: when the step of an executing task changes forwards,
\* the children of the run that did it appear in the same transaction.
MovesWithChildren ==
    /\ \A i \in DOMAIN runs : SpawnedBy(i) # {} => runs'[i] = runs[i]
    /\ spawns' # spawns =>
          \/ row'.step = row.step + 1
          \/ row'.status \in {"completed", "partially_completed"}

\* The artifact readers take for the newest is that of the newest finished run: neither
\* a repeated step nor one that failed after writing files puts another in front.
NewestArtifact ==
    \A n \in Visible : (\A m \in Visible : m <= n) =>
        /\ Finished(artifacts[n])
        /\ \A i \in DOMAIN runs : Finished(i) => i <= artifacts[n]

\* repository.py:105: what a result brings, its children, its updates and its move, is
\* written together and once.
ResultsAreAtomic ==
    [][TypeOK' /\ AllOrNothing' /\ KeysOnce' /\ UpdatesWithRun' /\ MovesWithChildren]_vars
============================================================================

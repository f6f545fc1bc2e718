# A verification of runspool

runspool runs *tasks* through *workflows*, ordered lists of *steps*, on one
machine, from one SQLite database. One process at a time executes; any number of
others (the command line, plugins, a user's scripts) change the same rows
meanwhile. This directory holds TLA+ models of that system, configurations that
model-check them with TLC, and proofs checked by TLAPS.

    tlc -workers 2 -config EngineFlags.cfg MCEngine    # one run
    tlapm EngineProofs.tla                             # one proof module

`PROJECT.json` lists the components, the runs, the map from definitions to
source lines, the hazards and the theorems. Paths below are under
`src/src/runspool/`.

## 1. The system

| Component | State it keeps | Operations | What makes it correct |
| --- | --- | --- | --- |
| Task lifecycle (`persistence/state_machine.py`, `models.py`) | none of its own; the lifecycle columns of `tasks` | `finish_step`, `skip_step`, `requeue_failed`, `recover_interrupted`, `requeue_stale`, user actions | no request is lost, no finished task moves, no decision is taken from a row that changed since |
| Task table (`persistence/repository.py`) | `tasks` | create, list, `claim_queued`, `transition` (compare-and-set), `heartbeat` | a claim has one winner |
| Step run log (`persistence/step_run_log.py`) | `step_runs` | start, finish, `count_runs`, `has_degraded`, `close_running_for_task` | attempts are counted once; no run stays `running` |
| Scheduler (`engine/coordinator.py`, `engine/worker_pool.py`) | in-flight claims; the pool's queue | `tick`, `reclaim_stale`, `_submit` | quotas; a live job is not reclaimed; everything queued is tried |
| Daemon and one-shot run (`daemon.py`, `core/runtime.py`) | stop flag | startup recovery, rounds, stop | recovery before rounds; the lock outlives the jobs |
| Runner (`engine/runner.py`) | one job's claim | stale-claim guard, admission, record, heartbeat, outcome | no step without its claim or its approval |
| Gate and approval (`engine/gate.py`, `core/approval.py`, `core/runtime.py`) | `approval_grant` | ask, approve, reject, decide | each run of a step with side effects has its own approval |
| Executor lock (`executor_lock.py`) | a file lock | acquire, release | one executing process; released when it dies |
| Step registry (`engine/registry.py`, `registry_builder.py`) | steps by name | register, `no_retry`, quotas | conflicts are refused |
| Work items (`persistence/work_items.py`, `engine/external.py`) | `work_items` | claim with a lease, submit, release, reject, reuse | one result per item, of the right attempt; a task waits only for an item somebody can answer |
| Child tasks (`engine/children.py`) | children in `tasks` | keyed creation in the parent's transaction | all or none, once |
| Artifacts (`engine/artifacts.py`, `persistence/artifact_log.py`) | `artifacts`, files of a run | contract check of a workflow, record, latest | a checked chain has every input; the newest is that of a finished run |
| Plugin kernel (`kernel/fiber.py`, `kernel/events.py`) | fibers, services, effects, listeners | load, dispose, restart, provide, dispatch | a fiber is active exactly while what it injects is there; nothing is leaked; a dispatch is orderly |
| Composition (`kernel/compose.py`, `kernel/loader.py`, `core/boot.py`) | entries | layers, patches, audit | the last layer wins; the core stays; every seam has a provider |
| Startup (`core/bundles.py`, `app.py`, `runtime.py`) | mounted plugins, lazy steps | boot, readiness, fixing the set | no executor without its required services |
| Commands and views (`commands.py`, `views.py`) | none | add, `available_actions`, suggested action | an offered action is one the state machine takes |
| Schema and connection (`persistence/schema.py`, `persistence/connection.py`) | the database file, its version | transactions, upgrade | an upgrade is applied once, whole, and under nobody's feet |
| Event log (`persistence/event_log.py`) | `events` | insert, `since` | a follower misses nothing |
| Credentials (`core/credentials.py`) | problems found | lookup, check | answers are those of the sources now |
| Command line (`cli.py`) | the pid file | daemon, daemon-stop, daemon-status | the file names the daemon at work |
| WeChat plugin (`src/plugins/runspool-wechat`) | article files, upload cache | render, guard, draft | what is drafted was approved |
| Configuration, doctor, built-in steps, store contract, thin services | | | see section 8 |

How they interact. The daemon takes the executor lock, lets the state machine
recover what an earlier process left, and then calls the coordinator in rounds.
The coordinator reads lists of rows, claims rows one at a time, and submits a
job per claim to the pool. A job reads its row, counts the runs, asks the gate,
inserts a step run, runs the step, closes the run and reports the outcome to the
state machine, which reads the row again, decides, and writes with a
compare-and-set. Users go through the state machine too, from other processes.
Nothing is shared but the database, the lock file, and inside a process the
table of in-flight claims.

What is hard. Every read and every transaction is atomic and nothing larger is:
between a read and the write decided from it any other actor may act, and any
process may be killed. Requests to pause or terminate an executing task are only
flags, honoured by a worker that may be gone. A heartbeat can be old while its
worker is fine. `PROJECT.json` lists each hazard at the line where it bites with
the properties that would catch it.

## 2. The modules

| Module | What it is | Runs, proofs |
| --- | --- | --- |
| `TaskRow` | the lifecycle columns of one row, and each rule that rewrites them as an operator from rows to rows, with its compare-and-set | |
| `Engine` | the processes, their scheduling threads and pool jobs, the users and time: who reads which row when, and which write still applies | `Engine*` |
| `UserView` | what a caller is told it can do, beside the engine that accepts it | `EngineFlags`, `EngineApproval` |
| `TaskPromise`, `EngineRefinement` | the abstract life of tasks, and the mapping that shows `Engine` to implement it | `EngineCrash` |
| `MCEngine` | constants of the `Engine*` runs | |
| `ExternalWork` | steps done outside: work items, clients, runs, users | `Work`, `Processes` |
| `StepResults` | the writes of a result: children, updates, artifacts, transition | `Work` |
| `GateDecision` | the decision before one attempt of a step | `Work` |
| `TaskIntake` | `add_task`, and the numbering an opening store continues | `Work` |
| `Contracts` | `check_chain` and the check of recorded artifacts | `Work` |
| `Credentials` | lookup through the sources, their problems | `Work` |
| `FiberKernel` | fibers and services as frames of a call stack | `Kernel` |
| `EventBus` | dispatches re-entered by their listeners | `Kernel` |
| `Composition` | layers, patches, merging, the audit | `Kernel` |
| `ConfigValues`, `ConfigMerge` | configuration values; `deep_merge` on them | `Kernel` |
| `Startup` | mount, lazy steps, readiness, the fixed plugin set | `Kernel` |
| `Rounds` | `run_until_idle` and the daemon's loop over the pool | `Processes` |
| `DaemonProcess` | daemons and runs: pid file, lock, signals | `Processes` |
| `Upgrade` | `Database.init` of several processes and versions | `Processes` |
| `EventFeed` | writers of events and followers with cursors | `Processes` |
| `WeChatDraft` | the attempts to draft an article | `Processes` |
| `Work` | `StepResults`, `GateDecision`, `TaskIntake`, `Contracts` and `Credentials` side by side, with the promise of each | `Work` |
| `Processes` | `ExternalWork`, `EventFeed`, `Rounds`, `DaemonProcess`, `Upgrade` and `WeChatDraft` side by side, with the promise of each | `Processes` |
| `MCWork`, `MCProcesses` | the two above with constants, the same components with other constants, fairness and what must happen in the end | `Work`, `Processes` |
| `Kernel` | `FiberKernel`, `EventBus`, `Composition` and `Startup` side by side, with the promise of each | `Kernel` |
| `MCKernel` | that with constants, `deep_merge` for the merge, and fibers and starts with other constants | `Kernel` |
| `TaskRowProofs` | lemmas about rows, one per rule | section 7 |
| `EngineProofs` | types, lifecycle, retries, single execution; that the engine implements `TaskPromise` | section 7 |
| `RunProofs` | approvals, final statuses, repetitions, views, startup recovery, quotas | section 7 |
| `ExternalProofs` | `ExternalWork` | section 7 |
| `FiberProofs` | `FiberKernel` | section 7 |
| `WorkProofs`, `ProcessProofs`, `KernelProofs` | the components of `Work`, `Processes` and `Kernel`, and the compositions | section 7 |

### TaskRow

A row is a record of the lifecycle columns. Data is reduced to what the code
distinguishes: a step is its position in the workflow (names in a workflow are
taken to be distinct here; `Rounds` looks them up as the code does), `next_retry_at` is null, to come or past, `heartbeat_at`
is older than the reclaim timeout (null counts as old) or not, `claim_token` is
a number fresh for each claim, `approval_grant` is null, an ask or a grant for a
step and an attempt. `last_error`, messages and events are left out.

`Boundary(row, seen, out, degraded)` is `StateMachine._boundary`. It takes two rows because
the code does: the decision comes from `seen`, read earlier, and is written onto
`row`, the row of the moment. `FinishMatches` is the compare-and-set that makes
them agree in the columns the decision used. `Settled`/`SettleMatches` are the
same pair for `_settle`, `Decided`/`StillAsRead` for the user actions. `Decides`
holds the decisions an action may take on a row it read.

### Engine

| Variable | Code |
| --- | --- |
| `task`, `runs` | tables `tasks` and `step_runs` |
| `lock` | the executor lock's holder |
| `exec[p]` | the scheduling thread of process p: its phase, the listed rows not handled yet, the load it counted, the row it is settling |
| `job[k]` | the job submitted for claim k: its phase and the values its worker holds (step, grant, attempt, outcome, row read, tries) |
| `request[u]` | a user action between its read and its write |
| `claims`, `crashes` | counters for the bounds; `claims` is also the last token |
| `approved`, `failures`, `person` | history, read by properties only |

| Actions | Code |
| --- | --- |
| `AcquireLock`, `ListRunning`, `ListPausing` | `Daemon.run`, `recover_interrupted` (one list per status) |
| `SettleBegin`, `SettleAgain`, `SettleWrite`, `SettleClose`, `ReclaimSkip` | `_settle`: read, compare-and-set, then close the step runs in a second transaction; `reclaim_stale` leaves its own jobs alone |
| `ListStale`, `ListDueFailed`, `RequeueFailed`, `CountRunning`, `CountPausing`, `ListQueued`, `PassOver`, `SkipStep`, `Claim` | `run_once` and `tick`, one action per query and per listed row |
| `RequestStop`, `ReleaseLock` | stop: the pool is drained, then the lock released |
| `Crash`, `RoundFails`, `RecoveryFails`, `JobRaises` | a kill, and exceptions where the code lets one through |
| `JobStart`, `JobAdmit`, `JobRecord`, `JobReturn`, `FinishRead`, `FinishWrite`, `Heartbeat` | `TaskRunner.execute` and `finish_step` |
| `UserReads`, `UserWrites` | `_user_action` of every user action |
| `DelayEnds`, `HeartbeatAges` | time |

Three reads are merged with the write that follows, because that write checks
again everything they decided: those of `claim_queued`, `requeue_failed` and
`skip_step`. `skip_step` reads the row and requires that
status and step still hold; when it loses that race the row is simply listed
again next round. A user command that finds its row changed reads and decides
again in the code; here that is the user's next action.

The round is the daemon's. `run_until_idle` does less: no `reclaim_stale`, a
draining round whose exception ends the run, and an end when nothing is left to
do. Its steps are those of the daemon's round; its loop is module `Rounds`.

### TaskPromise and the refinement

What a caller may rely on, without rows, processes or claims: each task is at a
place (a step and where its life stands: waiting, working, resting or ended),
at most one holder works on it, and what became of the work done under the
present holder. A holder takes a waiting task, begins, ends well or not, and
then hands the task on, back, or to a person; only work that ended well moves it
on. `EngineRefinement` computes this from the engine's state: the place from the
row, the holder from its claim token, the work from the step runs of that claim.
`KeepsPromise` is `Promise!Spec` under that mapping.

### The surrounding modules

Each translates one component; the variables and actions carry the source's
names and `PROJECT.json` maps them to lines. Where they begin and end:

- `ExternalWork` uses the rows of `TaskRow` and adds the status
  `awaiting_external`, the table `work_items` and clients that claim, release
  and submit. A validator may accept, reject, ask for later or fail.
- `StepResults` takes a result apart into the writes of its transactions; an
  exception or a kill may come between any two, and the read after a commit may
  fail. What children were created is a set of keys with the run and the place
  in its plan that each comes from, so that a repetition is seen as such.
- `FiberKernel` keeps the kernel's call stack as frames, so that a plugin's
  apply and teardown may call back into it at any depth, and raise.
- `Rounds` has the executor of `concurrent.futures` with its queue and threads
  as an external part, and jobs that defer, fail, are retried or raise.
- `Upgrade` has openers of two program versions; threads of one process share
  its lock file, and an opener that waits too long for the database gives up.
- `DaemonProcess` tells process ids from processes: an id may be used again, and
  a signal reaches whatever has the id.
- `TaskIntake` has each statement by which an opening store continues the
  numbering as a step of its own, and `sqlite_sequence` as a sequence of rows, of
  which AUTOINCREMENT reads and writes the first.
- `WeChatDraft` has the author's edits, deletions in the back end, failures,
  lost answers and crashes; the back end is external. The draft's id is recorded
  in a transaction of its own before the step ends. So an attempt may start with
  an id on record after a kill between the two, and with one given when the task
  was added; and after a later step failed and a person moved the task back, in a
  workflow that has a later step (`StepsAfter`; the shipped one has none, and
  `set_step` refuses a finished task).
- `Composition` takes the merge of two configurations as a constant operator, of
  which it assumes the equation by which `deep_merge` recurs (`MergesByKey`): the
  keys of both, merged where both have one, and the upper value unless both are
  mappings. `MCKernel` puts the recursive `DeepMerge` of `ConfigMerge` there, and
  TLC evaluates the assumption for it. So the proofs reach no recursive operator.

## 3. The runs

Six runs ask questions of the engine, each with the smallest instance in which
its question can go wrong (module `MCEngine`):

| Run | Question | Instance |
| --- | --- | --- |
| `EngineFlags` | Do pause, terminate and resume reach the task past workers, recovery and reclaim, and is what a view offers accepted? | one task of two steps, two processes, a kill, three tries, two claims |
| `EngineApproval` | Does each run have its own approval, can every ask be granted, are failures counted, is there always a way on? | a step with side effects, a user with six actions, a kill, four claims |
| `EngineCrash` | Is a step ever executed twice at once, or a no-retry step repeated by the machine? Does the task live as `TaskPromise` says? | two processes, a kill, every exception, two steps of which one opted out of retries and is conditional, three claims |
| `EngineRerun` | Is the final status right after steps were re-run, and is progress earned? | two steps, the second conditional, `set-step --force`, three claims |
| `EngineQuota` | Is the quota kept when tasks are paused while the load is counted? | two tasks, quota one, two worker threads |
| `EngineLive` | Are requests honoured and does work go on? | one task, fair threads |
| `EngineQuotaForced`, `EngineHangingRun`, `EngineSkipForced` | the disagreements of section 5 | |

Three runs check the surrounding modules. `Work` and `Processes` compose the
components that are checked and proved about; `MCWork` and `MCProcesses` give
them constants and add *other cases*, the same components with other constants;
`Kernel` and `MCKernel` do the same for the plugin kernel. A behaviour is of one *part*, which
its initial state chooses; the variables of the other parts stay `Unused`, and
each promise is guarded by its part. So a run is the disjoint union of small
models, no part sees another, and a counterexample names its part.

| Run | Part | Instance |
| --- | --- | --- |
| `Kernel` | `fibers`, `packs` | a provider, a dependent and its dependent; a plugin with a child and a service of its own, a rival, a broken one; no calls from inside |
| | `nested`, `restarting`, `raising` | the same kinds of plugins calling back from apply and teardown; with restarts; with exceptions, fair |
| | `bus` | listeners that register, remove, dispatch, raise, call next or not, two deep |
| | `compose` | every sequence of three patches over the bundles and two profiles |
| | `start`, `loaders` | plugins that load, wait and fail; step loaders that change plugins during the readiness check |
| `Work` | `spawns` | plans of children with and without keys, a fault, three claims |
| | `gate` | every policy, two guards, three attempts |
| | `intake` | three callers one at a time |
| | `chain` | every workflow of two steps over two kinds |
| | `secrets` | two edits and two calls for one name |
| | other cases | `items`, `paused`: two external steps with retry and forced moves, one with pause, resume and terminate; `lazyGate`; `together`: two calls at once, of `add_task` or of opening the store; `recorded`: results of two artifacts; `several`: a check of two names |
| `Processes` | `waiting` | an ordinary and an external step, two clients, five claims, fair |
| | `feed` | two writers, two followers of one task or all, four ids, a limit of one |
| | `rounds` | two tasks of two steps, one skipped, every outcome, a thread that cannot be started |
| | `daemons` | daemons, runs, forced runs and strangers one after another, a stop, two kills |
| | `openers` | an old and two new programs on an old database |
| | `draft` | two edits, two deletions, two failures, a draft known when the task is added or none, a later step |
| | other cases | `resident`: the daemon's loop; `family`: a task that spawns; `overlapping`: two processes at once on reused pids; `fresh`: a fresh database, two openers being threads of one process; `edited`: edits during an attempt, the shipped workflow |

Deadlock is not checked in these three: their bounds (calls, edits, claims,
attempts, ids) end a behaviour.

Bounds. `MaxClaims` (2 to 5) bounds claims and so the length of a behaviour: two
are enough for a claim to be lost and taken again, three for a repetition of
that, four for the approval cycle of ask, grant, run and a re-ask after a crash.
A row the bound keeps from being claimed stays queued (`ClaimBeyondBound`).
`MaxCrashes` is one where a kill can matter, two where the second must hit
recovery itself. `Attempts` is the code's `_ATTEMPTS` (5), here 1 or 2, or 3 where
the last try must succeed: `RecoveryComplete` needs three, because between two
tries of one settle the columns it compares can change at most twice (running
to pause_pending, then a terminate request). With two tries TLC shows recovery
give up; the code's five leave room. One task suffices where actors only meet on a
row; quotas need two tasks. Symmetry is used on the processes, in a run without
temporal formulas under fairness. In `Rounds`, `Slack` is the code's 50 extra
rounds of the cap, here 1, with as few tasks in proportion; `IdleIsDone` leaves
out runs in which a job raised, because the row such a job leaves behind may
hold a quota. In `FiberKernel` fibers and calls from outside are counted; calls
from inside are those of the plugins' scripts. The other bounds count the edits,
failures, ids and attempts named above; each case the code distinguishes is
reached, which the coverage of the runs shows for every action.

Fairness. `FairSpec` of `Engine` assumes that the threads of a living process run, that
steps return, and that time passes: weak fairness of each process's
`Schedule`, each job's `Work` and each clock. It assumes nothing of starting a process, of
stopping one, of users or of heartbeats, and every liveness property allows that
no executor runs. `TasksMove` also allows the bound on claims. `Kernel` assumes
that Python goes on with the frame on top of its stack. `Processes` assumes the
same of threads, jobs, validators and time; that a follower polls, that a call
of `init()` goes on (it has no wait without a bound) and that a stop request
that was begun is sent; in `draft`, that the engine runs what may run and a
person approves. It assumes nothing of clients, users, authors and starts.

## 4. The properties

- `FlagsMatchStatus`, `TerminateWins`, `PauseIsHonoured`, `TerminalIsFinal`: I4
  and the meaning of the two request flags.
- `RetriesCounted`: `retry_count` against a history of the failures charged.
- `SingleExecution`: I3. `AdvanceIsEarned`: progress comes from a success of the
  step under the claim that holds the task.
- `RecoveryComplete`: after startup recovery no task executes under a dead
  process's claim, whatever users did meanwhile.
- `EachRunApproved`, `AskIsCurrent`: I6, and I5's "an approval does not carry
  over" to the attempt after a crash.
- `NoRetryNeedsPerson`: a step that opted out of retries is repeated only after
  a person put its task to work.
- `FinalStatusTells`: completed or partially_completed, by the latest run of
  each step.
- `QuotaRespected`: the concurrency quota, as long as nobody forces a step.
- `StopIsHonoured`, `FailedIsRetried`, `TasksMove`: progress.
- `OfferedIsAccepted`, `AlwaysAWayOn`: what views tell a caller is what the state
  machine does, and no resting task is a dead end.
- `KeepsPromise`: all reads, writes, crashes and users together still look like
  one task moved by one holder at a time.

In the three bundled runs a property gathers what one component promises; each
conjunct is defined and explained where it is used.

- `Kernel`: `CasesHold` (at rest a plugin is loaded exactly if it can be,
  against present registrations, and nothing leaks; loads are against the
  present, dependents unload first; and `StartsComplete` with step loaders that
  change plugins), `ComesToRest`, `DispatchIsOrderly`, `ComposedAsWritten` (the
  last layer wins, nothing is defined twice or dropped in silence, the core stays
  and every seam has a provider), `StartsComplete`.
- `Work`: `ResultsAreAtomic`, `GateHolds`, `IntakeHolds`, `ArtifactsAsPromised`,
  `CredentialsAreCurrent`.
- `Processes`: `ItemsAreAnswered`, `AcceptedAdvances` (an external step is passed
  only with an accepted submission, spent once), `NothingMissed`, `RoundsHold`,
  `DaemonsHold`, `UpgradesHold`, `DraftsHold`, and the liveness property
  `WorkEnds`.
- `OtherCasesHold`, in `Work` and `Processes`: the same promises in the other cases.

Every one is broken by a plausible mistake in the code: `PROJECT.json` names at
least one mutant for each, and for the bundled ones one for nearly every conjunct: a
variant of one definition that stands beside it in the module
(`FinishMatchesButTerm` drops the terminate flag from a compare-and-set,
`PausingFirst` swaps the order of recovery, `NextPassesOne` lets a waterfall
skip a listener, and so on).

## 5. Where code and documentation disagree

Each is a run that TLC ends with a counterexample.

1. *Quota and forced steps* (`EngineQuotaForced`). A round checks the quota of
   the step in the row it listed; `claim_queued` compares the status only. If
   `set-step --force` moves the queued task in between, it is claimed on a step
   whose quota nobody looked at. README.md:315 says the quota "caps how many of a
   given step run at once".
2. *Hanging runs* (`EngineHangingRun`). `_settle` commits the transition and
   closes the step run in a second transaction. Killed in between, the run says
   `running` although its task is not executing, and no later recovery looks at
   it. CHANGELOG.md:384 says recovery closes the row "instead of leaving it
   stuck in `running`".
3. *Skips and forced steps* (`EngineSkipForced`). `when()` is asked about the
   listed row, `skip_step` skips the step the row is on by then.
   docs/writing-steps.md:172 says `when()` is there "to skip a step based on the
   task or config".

## 6. Further disagreements, without a run

The models show these too, when the constants named here are put into a
configuration of the module; the runs of section 3 use others. All source lines
are those of the commit modelled.

Plugin kernel (`FiberKernel`, `Reentrant` TRUE):

- A dependent in the middle of its own reconcile is only marked dirty when its
  provider unloads (`kernel/fiber.py:278`), so the provider withdraws its
  services under it: `DependentsGoFirst` fails for `base`, `front`, `leaf` with
  calls that mount and dispose.
- `reconcile` computes the wanted epoch, unloads, and loads against that epoch
  (`kernel/fiber.py:303`). When the unloading made a service go, the lookup
  raises outside `_load`'s handler, the fiber stays LOADING, and a dispose of it
  is put off for ever, though `kernel/fiber.py:24` says "never lost". Calls that
  mount, dispose and restart show it.

Composition: only the ids of enabled entries are looked at (`core/boot.py:170`).
A bundle that defines the core's ids with plugins of its own boots in its place,
though `core/boot.py:166` says the core "cannot be disabled or replaced".

Gate (`GateDecision`, `Lazy` TRUE): the flag of a lazy step is recorded when the
gate first asks (`core/steps.py:121`), not when it is resolved as
`core/steps.py:114` says; an object changed in between goes without approval
(`SideEffectsAreApproved`).

Schema (`Upgrade`):

- The version that decides whether the lock is needed is read before the
  transaction (`persistence/connection.py:38`): a database that was fresh then
  and has an executor by now is upgraded without the lock (`Versions` {0}:
  `StillUnderExecutor`).
- The pid in the lock file decides whether the lock is one's own
  (`persistence/connection.py:43`). Two pid namespaces can have the same pid, and
  a lock file that still holds it (`Twins` two openers, `OneProcess` FALSE:
  `UpgradeHoldsLock`); `executor_lock.py:12` says "the pid never decides who
  holds the lock".
- The schema is not checked again when the executor lock is taken
  (`core/runtime.py:271`): an older program that opened before an upgrade
  executes on the newer layout.

Commands (`TaskIntake`, `Together` 2):

- Two `add_task` without `--force` look for an active task before either creates
  its own (`commands.py:56`; `SecondIsBlocked`).
- An opening store reads whether there is a row of `sqlite_sequence`, outside a
  transaction, and inserts one if there was none
  (`persistence/repository.py:184`). If another process creates the very first
  task in between, there are two rows, AUTOINCREMENT goes on from the first, and
  tasks get numbers below `first_task_id`, until the next opening updates both
  rows; docs/workflows.md:87 says "make new task ids start at this number".
  `NumbersContinue` therefore counts an opening (`opened`) only if the row it
  found, or missed, was still so when it wrote (`StillSo`); without that
  conjunct in `RaiseSequence` TLC finds the two rows. That each new number is
  above all others holds in any case.

Rounds (`Rounds`):

- The cap of `run_until_idle` is computed before the first round
  (`core/runtime.py:279`). More children than the 50 extra rounds, on a quota of
  one, are left behind (`CapIsForRepeats` with spawned children).
- A workflow with a repeated step name never completes (`models.py:95`;
  `StepsInOrder` with a, b, a), and nothing refuses one.
- A job that raised is dropped from the list `drain` looks at when a later
  submit of the same tick sweeps it (`engine/worker_pool.py:22`), so whether the
  exception is seen depends on timing.
- When no thread can be started the in-flight entry is already set
  (`engine/coordinator.py:103`) and reclaim leaves the task alone for ever
  (`MaxRefusals` 1, `Resident` TRUE: `ClaimedIsRun`).

Daemon (`DaemonProcess`):

- A daemon releases the lock and then unlinks the pid file, also when another
  daemon has written it by then (`cli.py:769`; two at once: `FileNamesDaemon`).
- The pid in the file of a killed daemon may be another program's by now, and
  `daemon-stop` signals that (`core/runtime.py:312`).

WeChat (`WeChatDraft`):

- The article is read again after its digest was checked (`steps.py:192`): an
  edit in between is drafted (`AuthorWaits` FALSE: `DraftIsTheRendering`, and
  for images `CacheTruthful`).
- A draft whose id was not recorded, because the answer was lost or the process
  died, is added again (`steps.py:251`).

## 7. What is proved

The first group of theorems is about `Spec` of `Engine`, for every number of
tasks, processes, users, steps and tries, every quota, set of faults and bound.
The others are about `Spec` of `ExternalWork`, of `StepResults` and of
`FiberKernel`, and the compositions `WorkSpec`, `ProcessSpec` and `KernelSpec`, for all values of their constants.
They assume what the modules declare of their constants (kinds, that a missing
value is not one of the others), under the names `...Assumption`; TLC evaluates
them in the runs. Three theorems assume more:

- `RecoveryCorrect`: three tries of a settle; the code has five.
- `QuotaCorrect`: nobody forces a task to another step. Without that the
  statement is false, as `EngineQuotaForced` shows.
- `RoundsStand`: no workflow repeats a step name (`NamedOnce`), and the steps of
  a run that ends by itself create no tasks (`NoneJoin`). The code checks
  neither; section 6 says what happens otherwise. `MCProcesses` has TLC evaluate
  both (`RoundsHypotheses`).

| Theorem | Property |
| --- | --- |
| `TypeCorrect` | `TypeOK` |
| `FlagsCorrect` | `FlagsMatchStatus` |
| `TerminateCorrect`, `TerminalCorrect`, `PauseCorrect` | `TerminateWins`, `TerminalIsFinal`, `PauseIsHonoured` |
| `RetriesCorrect` | `RetriesCounted` |
| `ExecutionCorrect` | `SingleExecution` |
| `AdvanceCorrect` | `AdvanceIsEarned` |
| `PromiseKept` | `KeepsPromise` |
| `ApprovalCorrect`, `AskCorrect` | `EachRunApproved`, `AskIsCurrent` |
| `FinalStatusCorrect` | `FinalStatusTells` |
| `NoRetryCorrect` | `NoRetryNeedsPerson` |
| `OfferCorrect`, `WayOnCorrect` | `OfferedIsAccepted`, `AlwaysAWayOn` |
| `RecoveryCorrect`, `QuotaCorrect` | `RecoveryComplete`, `QuotaRespected` |
| `ItemsCorrect`, `AcceptancesAdvance` | `ItemsAreAnswered`, `AcceptedAdvances` |
| `ResultsCorrect` | `ResultsAreAtomic` |
| `GateStands`, `IntakeStands` | `GateHolds`, `IntakeHolds` |
| `ArtifactsStand`, `CredentialsStand` | `ArtifactsAsPromised`, `CredentialsAreCurrent` |
| `FeedStands`, `RoundsStand` | `NothingMissed`, `RoundsHold` |
| `DaemonsStand`, `UpgradesStand`, `DraftsStand` | `DaemonsHold`, `UpgradesHold`, `DraftsHold` |
| `StartsStand`, `DispatchesStand` | `StartsComplete`, `DispatchIsOrderly` |
| `CompositionStands` | `ComposedAsWritten` |
| `FibersCorrect`, `FibersStand` | `NothingIsOrphaned` |

*Lifecycle.* `TypeOK` alone is not inductive: what is written from a stored
decision must be known to have been a legal decision. `IInv` adds `Supports`,
that every live job has a task, that a pending user action was allowed by some
row, and that a settle about to write read an executing row, and
`FlagsMatchStatus`. The lemma `RowSteps` then says, for any step of the system,
that a row is unchanged or was rewritten by exactly one rule of `TaskRow` under that rule's
compare-and-set. The theorems follow from one lemma per rule in
`TaskRowProofs`, about rows only. So the interleavings are dealt with once and
the compare-and-sets are where they enter: drop a column from one and a lemma of
`TaskRowProofs` fails.

*Retries.* `ChargeSteps` relates each step's effect on `retry_count` to its
effect on the history `failures`.

*Single execution.* `SingleExecution` is strengthened to `ExecInv`: whoever runs
holds the lock; a live job's process is past its recovery; a live job holds the
claim in its row; the rows `reclaim_stale` listed still name the claim they were
listed with, and the task it settles has no live job; settling happens in its
phases only. The third part gives the property, since a row names one claim. It
is kept because recovery runs while its process has no job (and no other process
can), and because reclaim first finds its own jobs in the in-flight table. This
is where the table's exact contents matter: an entry must exist from the
submission, not from the start of the job.

*Refinement.* That the engine implements `TaskPromise` needs to know what the
step runs say of a task's present claim. `RunsInv` strengthens the invariants
above by: tokens handed out are fresh and a run's token was handed out; a claim
has at most one open run; the open run and a success are the last of their
claim; no job that has not returned has a success; while a live job holds its
claim the task is on the step the job works on; and a task whose run is being
closed has been released. `OneRow` then says of every step that the mapped state
of each other task is unchanged and that of the task concerned makes one step of
the promise or none, with one lemma for each kind of step: boundary, claim,
round, settle and user. `AdvanceIsEarned` follows from the same invariant.

*Approvals.* The gate compares the grant a job was claimed with to the number of
runs it counts, and writes the run, or the ask, steps later. `ApprovalInv` says
why that is safe: a grant in a row was given by a person; while a live job holds
its claim the runs of its step that it counted stay as many (`LogGrows`), so the
attempt it works on is still the next one when it writes; and no recorded
attempt is beyond the number of runs. A run that needs approval therefore carries
an attempt that was approved, and an ask names the one that comes next.

*Final statuses.* A task is completed by a success that is the last entry of its
log, and in the log of a resting task closing a run late makes none degraded. So
the status written at completion stays true.

*Repetitions.* `RetryInv` follows a task from the last run of a step that opted
out of retries to its repetition. In between stands a row that rests for a
person, a person's word since the run began (`person`), or a job that got the
task by that word. A run that failed is the last one of its log while its job
reports it, and a settle that may still write decides for the step at which the
task stands, so neither a boundary nor a recovery puts the task back to work by
itself.

*Recovery.* `RecoveryInv` is about a thread in startup recovery. Nobody claims a
task beside it, as only the holder of the lock runs anything. Each task it must
settle in its phase is on its list or in its hands (`Swept`): running tasks
first, and when the pausing ones are listed none runs any more, so a pause
requested between the two lists is not missed. A try of a settle fails only if a
user changed what it compares; while the task executes, requests to pause and to
terminate are added and never withdrawn, so two tries fail at most
(`TriesCount`) and the third writes. Afterwards a claim can die only with the
process itself. `TriesCount` is also why three tries are needed: with two, a
pause and a termination that arrive one after the other leave the task as it
was.

*Views.* A view reads a row, and the action it offers is judged by the same
rules on the same row. `OfferedIsAccepted` therefore follows from `IInv`, and for
the approval of an ask from `AskIsCurrent`: a task that waits for approval has
an ask for the step it is on. `AlwaysAWayOn` needs one fact more, that a task
that executes or waits for approval has no delay pending (`NoDelay`).

*Quotas.* The load is counted in two queries, running tasks first, then the
queued tasks are claimed one by one. `QuotaInv` says that what was counted, with
what was claimed since, bounds what executes now (`LoadCounts`): nobody else
claims, a running task that is asked to pause meanwhile is counted twice rather
than not at all, and users and workers only take tasks away. A listed task still
has the step it was listed with and does not execute (`ListedStays`), since
whatever a user decided is an action users have (`RequestsFromActs`) and none but
the forced one moves a queued task to another step. This is where the hypothesis
is used.

*The compositions.* A step of `Work`, `Processes` or `Kernel` is a step of the part the
behaviour is of, and leaves the other variables alone (`WorkSteps`,
`ProcessSteps`). So `part = ... => invariant of the component` is inductive if
the component's invariant is, and each `...Stand` theorem needs only the latter.

*External steps.* `ItemsInv` relates the row, the items, the workers and what
clients hold. A live worker holds the claim of an executing task (`Held`); the
task waits exactly when an item is open or claimed, and an active item is of the
task's step and the last one (`Answers`); a token that an item still carries is
that of the client who claimed it (`Tickets`); the attempt of an item is one more
than that of a rejected item before it, or one (`Counted`); and what a worker has
found out about items is still so when it reports (`Informed`). That a boundary
never fails for its items follows from its compare-and-set.

*Results.* `ResultsInv`: a live worker has the claim of an executing task
(`Held`); what it carries to its boundary is what its run returned and what the
tables hold of that run (`Carries`); and a finished run has all children of its
plan, or none if the task was terminated, a key is used once, and artifacts are
in the order of their runs (`Tables`). A fault between two writes leaves a worker
that carries nothing, so a repetition starts with a run of its own.

*Gate.* `GateInv`: a grant is for an attempt a person approved; what the gate
took before plugins ran is what was on record; and no guard asked so far
refused. So a listener that changes the step's object changes nothing.

*Tasks and contracts.* The first row of the sequence is the number of a task or
what an opener put there, no row goes away, what an opener read is not above the
highest number, which is not below `first_task_id - 1` once `opened`, and, while
calls do not overlap, a caller about to create a task found none that is active
for its input (`IntakeInv`). For the report of `check_chain` the
invariant (`ReportInv`) says of the steps looked at so far what is available,
which requirements cannot be met, and which of these are only unverified because
a step before says nothing; the property follows with all steps looked at. The
highest number and the last item are a greatest element of a set of naturals,
which exists by the library's well-founded induction.

*Credentials.* `SecretsInv`: if no source changed since a lookup began, the
sources it has passed do not hold the name, and what it found of earlier names is
what is configured; likewise a look at the files has on record those it passed.

*Rounds.* `LoopInv` has five parts besides the types. The loop is in its phases
and holds what belongs to them (`LoopPhases`); a job is in the pool once, its
task executes and has its in-flight entry, and a listed task is queued
(`JobsOnce`); a task is on the step after those it passed (`StepsKept`, with
`NamedOnce`); when a round found nothing the pool is empty and every task rests,
waits or is listed, so a run that ends by itself is done (`LoopIdle`); and as long
as nothing had to be repeated, each round but the last passed a step, of which
there are fewer than the cap (`LoopCap`, with `NoneJoin`).

*Daemons, upgrades, followers, drafts.* `DaemonInv`: whoever recovers or executes
has the lock; if processes do not overlap there is one daemon, and the file names
it from the time its pid was written. `UpgradeInv`: the layout inside a
transaction is that of the migrations applied so far, a committed one is that of
its version, whoever is between lock and unlock has the lock, and so has who
upgrades an existing database, if no two openers share a pid and none found the
database fresh. `FeedInv`: only the holder of the write lock has events that are
not committed, and these are newer than all committed ones, so nothing appears
below a cursor. `DraftsInv`: a draft is added only if there is none or it, or its
cover, is gone; and if the author waits (`AuthorWaits`, the hypothesis of the
second half of `DraftsHold`), an attempt holds what is in the files.

*The start.* Only a call of `ensure_ready()` lies beneath a call of
`ensure_ready()`, because it refuses while plugins change (`ReadyBeneath`); so
no change is under way when one ends and fixes the plugins. Without loaders that
call back, a call is alone, and each lazy step is imported, on its list, in its
hands, or a noted failure (`Looked`): a call that ends without a failure leaves
none to import.

*The event bus.* A dispatch is re-entered by its listeners, and a waterfall may
lie on the stack several times, once for each `next()`. `OneCaller`: all these
frames except the last have used their `next()` and only wait. `Recorded`, of a
frame that may still call: it has called nobody beyond its position, everybody
before it who is still registered was called, and its default has not run. A
listener it passed over stays inactive, because registrations are made once;
hence each is called at most once, in order, and by an `emit` without fail.

*The composition.* `ComposeInv` says of every entry, and of the sequence of
patches reached so far, that the entry was defined by the first patch that
inserts its id and by no other (`Origin`), that its flag is the one the last
patch to speak of it set, and that at each path of its configuration stands the
value of the last patch that touches that path (`Told`); and that a patch
without effect was warned about (`AloudAt`). The step is the law of merging
(`MergeLaw`): at the end of a path stands what the upper configuration has
there, or, if it does not touch the path, what the lower one had. It follows
from the equation `MergesByKey` by induction over the length of the path.

*Fibers.* `NothingIsOrphaned` says at every step of every call that a service is
listed as an effect by its owner, and that only a plugin that is loaded or in
transition has effects; and between calls that no plugin is left reconciling, and
that one which is not half way is listed with its parent and has no dispose
pending. `NothingLeaks` asks more, and only between calls, but needs a kernel in
which nothing is left half way, which section 6 shows to be false in general; what
is proved holds whatever raises, with `Reentrant` calls of any kind. The
difficulty is the call stack: a plugin's apply or teardown may enter the kernel
again, so a call that was half done finds its fiber changed when it goes on.
`FiberInv` therefore speaks of the whole stack, of any depth. `FrameHolds` is what
each suspended call still relies on: a round of reconciling has its flag set, a
load its phase, an unload its phase and something loaded. `Fits` says which call
may stand on which, so that only the disposers stand on a call that needs empty
effects; `Once` that a fiber is in one round and one unload at a time.
`FiberHolds` ties each fiber to the stack: a flag that is set has the call that
will clear it, and a fiber its parent no longer lists is disposed of, about to be,
or was left unloading by an exception. Each of the 29 actions replaces the top of
the stack and changes one fiber; lemmas on stacks (`Stacked`, `Replaced`,
`Entered`, `Unwound`) say what becomes of the calls below. The property is a part
of `CasesHold`, where TLC checks it for four sets of constants.

The inductive invariants were checked by TLC on the instances of the runs before
they were proved. Excepted are the parts that quantify over all rows, all naturals
or without a bound, which TLC cannot evaluate: `RequestsAllowed` in `IInv`,
`Bounded` in `IntakeInv` and the equivalences of `ReportInv`. `RecoveryInv` was
checked on the instance of `EngineFlags`, `RetryInv` on one with a conditional
step that opted out of retries and jobs that die.

Only model-checked: the rest of `CasesHold` (that plugins settle, load against
what is there and go before their providers, which sections 3 and 6 show to
depend on who calls, and a start whose loaders call back), `OtherCasesHold` (the theorems hold for these constants
too; the run is to see the behaviours), and all liveness: `StopIsHonoured`,
`FailedIsRetried`, `TasksMove`, `ComesToRest`, `WorkEnds`. Liveness under fairness
and `ENABLED` are out of the prover's reach, and so are inductions over data.

## 8. What is not modelled

In the modelled components: rows whose workflow or step is unknown, the test and
script entry points through `_force`, the helpers a step uses (progress, notes,
logs), the shape checks of children and results, the storage and serialization
of artifacts, the operating system's tools behind the keychain, discovery and
compatibility checks of packages, the queries of the user interface.

Components composed only in part: `ExternalWork` and `StepResults` have one
executor that may die, not `Engine`'s competing ones; what they rely on, a claim
with one holder, is `SingleExecution`.

Not modelled at all: configuration parsing, printing, the doctor (read-only),
built-in steps (to the engine a step is what it returns), the thin services of
`core/`, the store contract (a test suite whose demands are the atomicity
assumed here), the layout of articles and the HTTP client of the WeChat plugin,
the examples.

## 9. Plan

1. That plugins settle (`Settled`) where no plugin calls back into the kernel, from
   `FiberInv` and an invariant on the rounds in progress; `DependentsGoFirst` under
   the same hypothesis.
2. `ExternalWork` under `Engine`'s competing executors, as far as TLC reaches.

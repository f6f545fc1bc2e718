----------------------------- MODULE DaemonProcess -----------------------------
(***************************************************************************)
(* The executing processes of one database as the operating system sees    *)
(* them: the daemon and one-shot runs starting, being stopped and dying,   *)
(* with the executor lock, the pid file and the stop command (cli.py,      *)
(* daemon.py, core/runtime.py).                                            *)
(***************************************************************************)
EXTENDS Naturals, FiniteSets

CONSTANTS
  Pids,         \* process ids
  Clients,      \* those who ask the daemon to stop
  Kinds,        \* the programs that are started: "daemon", "run", "forced", "stranger"
  PidsReused,   \* whether the system gives a dead process's id to a new one
  AtOnce,       \* bound: daemons alive at the same time
  MaxCrashes    \* bound: processes killed

Nobody == "nobody"     \* no pid in the file, or no holder
Torn == "torn"         \* the file is truncated, its pid not written yet

DaemonAssumption ==
  /\ IsFiniteSet(Pids) /\ Nobody \notin Pids /\ Torn \notin Pids
  /\ Kinds \subseteq {"daemon", "run", "forced", "stranger"}
  /\ PidsReused \in BOOLEAN /\ AtOnce \in Nat /\ MaxCrashes \in Nat

VARIABLES
  stage,      \* [pid |-> where the process is, "none" when there is no such process]
  used,       \* the pids that named a process already
  stopping,   \* the daemons whose stop event is set
  lock,       \* the pid that holds the executor lock
  pidFile,    \* what the pid file holds
  asked,      \* [client |-> the pid it is about to signal]
  crashes

vars == <<stage, used, stopping, lock, pidFile, asked, crashes>>

StartingDaemon == {"checking", "building", "locked", "writing", "written"}
ServingDaemon == {"recovering", "looping", "draining", "released"}
DaemonStages == StartingDaemon \cup ServingDaemon
RunStages == {"run-checking", "run-building", "run-executing"}
Executing == {"recovering", "looping", "draining", "run-executing"}

Alive(p) == p \in Pids /\ stage[p] # "none"
Daemons == {p \in Pids : stage[p] \in DaemonStages}

\* What daemon_status answers: the pid in the file, if such a process exists.
Status == IF Alive(pidFile) THEN pidFile ELSE Nobody

--------------------------------------------------------------------------------
Init ==
  /\ stage = [p \in Pids |-> "none"]
  /\ used = {} /\ stopping = {}
  /\ lock = Nobody /\ pidFile = Nobody
  /\ asked = [c \in Clients |-> Nobody]
  /\ crashes = 0

FirstStage == [daemon |-> "checking", run |-> "run-checking",
               forced |-> "run-building", stranger |-> "stranger"]

\* Someone starts a program; with --force a run does not look at the pid file.
StartProcess(p, kind) ==
  /\ stage[p] = "none" /\ (p \in used => PidsReused)
  /\ kind = "daemon" => Cardinality(Daemons) < AtOnce
  /\ stage' = [stage EXCEPT ![p] = FirstStage[kind]]
  /\ used' = IF PidsReused THEN {} ELSE used \cup {p}
  /\ UNCHANGED <<stopping, lock, pidFile, asked, crashes>>

Goes(p, from, to) ==
  /\ stage[p] = from
  /\ stage' = [stage EXCEPT ![p] = to]
  /\ UNCHANGED <<used, asked, crashes>>

\* daemon and run look at the pid file first, then load every step.
CheckStatus(p) ==
  /\ \/ Goes(p, "checking", IF Status # Nobody THEN "none" ELSE "building")
     \/ Goes(p, "run-checking", IF Status # Nobody THEN "none" ELSE "run-building")
  /\ UNCHANGED <<stopping, lock, pidFile>>

\* Building fails when a plugin is not active or a step does not load.
BuildFails(p) ==
  /\ Goes(p, "building", "none") \/ Goes(p, "run-building", "none")
  /\ UNCHANGED <<stopping, lock, pidFile>>

\* Mutant: a process that finds the lock taken carries on.
LockIgnored == TRUE
LockFree == lock = Nobody

\* Mutant: the pid file is claimed before the lock.
ClaimsFirst(p) ==
  /\ \/ /\ LockFree /\ lock' = p
        /\ Goes(p, "building", "locked") \/ Goes(p, "run-building", "run-executing")
     \/ /\ ~LockFree /\ UNCHANGED lock
        /\ Goes(p, "building", "none") \/ Goes(p, "run-building", "none")
  /\ pidFile' = p
  /\ UNCHANGED stopping

\* A lock that is taken is reported, and the process ends.
TakeLock(p) ==
  /\ \/ /\ LockFree /\ lock' = p
        /\ Goes(p, "building", "locked") \/ Goes(p, "run-building", "run-executing")
     \/ /\ ~LockFree /\ UNCHANGED lock
        /\ Goes(p, "building", "none") \/ Goes(p, "run-building", "none")
  /\ UNCHANGED <<stopping, pidFile>>

\* Mutant: a pid file that is there is left as it is.
KeepsOldFile(p) ==
  /\ Goes(p, "locked", "written")
  /\ pidFile' = IF pidFile = Nobody THEN p ELSE pidFile
  /\ UNCHANGED <<stopping, lock>>

\* The file is truncated and then written.
WritePid(p) ==
  /\ \/ Goes(p, "locked", "writing") /\ pidFile' = Torn
     \/ Goes(p, "writing", "written") /\ pidFile' = p
  /\ UNCHANGED <<stopping, lock>>

\* The signal handlers are in place; run() finds the lock its own and recovers.
Serve(p) ==
  /\ Goes(p, "written", "recovering")
  /\ UNCHANGED <<stopping, lock, pidFile>>

\* Recovery under the lock, then rounds; when it raises the daemon ends.
Recover(p) ==
  /\ \/ Goes(p, "recovering", "looping") /\ UNCHANGED lock
     \/ Goes(p, "recovering", "released") /\ lock' = Nobody
  /\ UNCHANGED <<stopping, pidFile>>

\* Mutant: the loop does not look at the stop event.
NeverStops(p) == FALSE
StopSet(p) == p \in stopping

LeaveLoop(p) ==
  /\ StopSet(p)
  /\ Goes(p, "looping", "draining")
  /\ UNCHANGED <<stopping, lock, pidFile>>

\* pool.shutdown waits for the jobs under way; then the lock is free.
Drained(p) ==
  /\ Goes(p, "draining", "released")
  /\ lock' = Nobody
  /\ UNCHANGED <<stopping, pidFile>>

\* The pid file is removed whatever it holds by now.
Leave(p) ==
  /\ Goes(p, "released", "none")
  /\ pidFile' = Nobody
  /\ stopping' = stopping \ {p}
  /\ UNCHANGED lock

RunEnds(p) ==
  /\ Goes(p, "run-executing", "none")
  /\ lock' = Nobody
  /\ UNCHANGED <<stopping, pidFile>>

\* The system drops what a dead process held; the pid file stays.
Dies(p) ==
  /\ stage' = [stage EXCEPT ![p] = "none"]
  /\ lock' = IF lock = p THEN Nobody ELSE lock
  /\ stopping' = stopping \ {p}

Crash(p) ==
  /\ Alive(p) /\ crashes < MaxCrashes
  /\ Dies(p)
  /\ crashes' = crashes + 1
  /\ UNCHANGED <<used, pidFile, asked>>

StrangerEnds(p) ==
  /\ Goes(p, "stranger", "none")
  /\ UNCHANGED <<stopping, lock, pidFile>>

--------------------------------------------------------------------------------
(* daemon-stop: look for the daemon, then signal the pid found.            *)

AskToStop(c) ==
  /\ asked[c] = Nobody /\ Status # Nobody
  /\ asked' = [asked EXCEPT ![c] = Status]
  /\ UNCHANGED <<stage, used, stopping, lock, pidFile, crashes>>

\* Mutant: the handler is installed when the program starts.
HandledEarly(p) == Alive(p)
Handled(p) == stage[p] \in ServingDaemon

\* SIGTERM sets the stop event where the handler is installed, and kills elsewhere.
Signal(c) ==
  /\ asked[c] # Nobody
  /\ asked' = [asked EXCEPT ![c] = Nobody]
  /\ \/ ~Alive(asked[c]) /\ UNCHANGED <<stage, stopping, lock>>
     \/ Handled(asked[c]) /\ stopping' = stopping \cup {asked[c]} /\ UNCHANGED <<stage, lock>>
     \/ Alive(asked[c]) /\ ~Handled(asked[c]) /\ Dies(asked[c])
  /\ UNCHANGED <<used, pidFile, crashes>>

--------------------------------------------------------------------------------
ProcessStep(p) ==
  \/ CheckStatus(p) \/ TakeLock(p) \/ WritePid(p) \/ Serve(p) \/ Recover(p)
  \/ LeaveLoop(p) \/ Drained(p) \/ Leave(p) \/ RunEnds(p)

Next ==
  \/ \E p \in Pids : ProcessStep(p) \/ BuildFails(p) \/ Crash(p) \/ StrangerEnds(p)
  \/ \E p \in Pids, kind \in Kinds : StartProcess(p, kind)
  \/ \E c \in Clients : AskToStop(c) \/ Signal(c)

Spec == Init /\ [][Next]_vars

\* A process runs, its jobs end, and a stop request that was begun is sent.
Fairness ==
  /\ \A p \in Pids : WF_vars(ProcessStep(p))
  /\ \A c \in Clients : WF_vars(Signal(c))
FairSpec == Spec /\ Fairness

--------------------------------------------------------------------------------
TypeOK ==
  /\ stage \in [Pids -> {"none", "stranger"} \cup DaemonStages \cup RunStages]
  /\ used \subseteq Pids
  /\ stopping \subseteq {p \in Pids : stage[p] \in ServingDaemon}
  /\ lock \in Pids \cup {Nobody}
  /\ pidFile \in Pids \cup {Nobody, Torn}
  /\ asked \in [Clients -> Pids \cup {Nobody}]

\* Of the daemons and runs started together, forced or not, and over the deaths of some,
\* at most one recovers and executes; the daemon holds the lock until the last job of its
\* pool has ended (cli.py daemon, daemon.py _run, runtime.py run_until_idle).
OneExecutor ==
  \A p, q \in Pids :
    (stage[p] \in Executing /\ stage[q] \in Executing) => p = q

\* Only a process that got the lock, or that had it and ends, changes the pid file: a
\* daemon that is refused leaves the file of the one at work (cli.py "Take the executor
\* lock before claiming the pid file").
RefusedLeavesFile ==
  \A p \in Pids :
    (stage[p] \in {"checking", "building"} \cup RunStages /\ stage'[p] # stage[p])
      => pidFile' = pidFile

\* While a daemon works, the pid file names it, so that status and daemon-stop find it.
\* It holds when daemons do not overlap, whatever stale file a killed one left.
FileNamesDaemon ==
  \A p \in Pids : stage[p] \in {"recovering", "looping", "draining"} => pidFile = p

\* One process executes, and the pid file is that of the daemon at work, if daemons do
\* not overlap.
DaemonsHold ==
  /\ OneExecutor' /\ RefusedLeavesFile
  /\ AtOnce <= 1 => FileNamesDaemon'

================================================================================

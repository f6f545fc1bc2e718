---------------------------- MODULE ProcessProofs ----------------------------
(***************************************************************************)
(* What the programs around the engine promise, for any processes, files   *)
(* and bounds: the daemon and the runs that compete for the executor lock, *)
(* the openers that upgrade the database, the followers of the event log,  *)
(* and the plugin that publishes an article.                               *)
(***************************************************************************)
EXTENDS Processes, ExternalProofs

---------------------------------------------------------------------------
(* The executing processes.                                                 *)

\* The stages of a process between taking the executor lock and giving it back.
Holding == {"locked", "writing", "written"} \cup Daemon!Executing

\* A process at such a stage has the lock.
HoldersHaveLock == \A p \in Pids : stage[p] \in Holding => lock = p

\* Every variable keeps its type.
LEMMA DaemonTypes ==
    ASSUME Daemon!DaemonAssumption, Daemon!TypeOK, [Daemon!Next]_Daemon!vars
    PROVE  Daemon!TypeOK'
<1> USE DEF Daemon!TypeOK, Daemon!Goes, Daemon!StartingDaemon, Daemon!ServingDaemon,
            Daemon!DaemonStages, Daemon!RunStages, Daemon!Torn
<1>1. ASSUME NEW p \in Pids, Daemon!ProcessStep(p) PROVE Daemon!TypeOK'
  <2>1. CASE Daemon!CheckStatus(p) BY <2>1 DEF Daemon!CheckStatus
  <2>2. CASE Daemon!TakeLock(p) BY <2>2 DEF Daemon!TakeLock
  <2>3. CASE Daemon!WritePid(p) BY <2>3 DEF Daemon!WritePid
  <2>4. CASE Daemon!Serve(p) BY <2>4 DEF Daemon!Serve
  <2>5. CASE Daemon!Recover(p) BY <2>5 DEF Daemon!Recover
  <2>6. CASE Daemon!LeaveLoop(p) BY <2>6 DEF Daemon!LeaveLoop
  <2>7. CASE Daemon!Drained(p) BY <2>7 DEF Daemon!Drained
  <2>8. CASE Daemon!Leave(p) BY <2>8 DEF Daemon!Leave
  <2>9. CASE Daemon!RunEnds(p) BY <2>9 DEF Daemon!RunEnds
  <2> QED BY <1>1, <2>1, <2>2, <2>3, <2>4, <2>5, <2>6, <2>7, <2>8, <2>9
          DEF Daemon!ProcessStep
<1>2. ASSUME NEW p \in Pids, Daemon!BuildFails(p) \/ Daemon!StrangerEnds(p)
      PROVE  Daemon!TypeOK'
  BY <1>2 DEF Daemon!BuildFails, Daemon!StrangerEnds
<1>3. ASSUME NEW p \in Pids, Daemon!Crash(p) PROVE Daemon!TypeOK'
  BY <1>3 DEF Daemon!Crash, Daemon!Dies
<1>4. ASSUME NEW p \in Pids, NEW kind \in Kinds, Daemon!StartProcess(p, kind)
      PROVE  Daemon!TypeOK'
  <2>1. Daemon!FirstStage[kind] \in {"checking", "run-checking", "run-building", "stranger"}
    BY DEF Daemon!DaemonAssumption, Daemon!FirstStage
  <2> QED BY <1>4, <2>1 DEF Daemon!StartProcess
<1>5. ASSUME NEW c \in Askers, Daemon!AskToStop(c) PROVE Daemon!TypeOK'
  BY <1>5 DEF Daemon!AskToStop, Daemon!Status, Daemon!Alive
<1>6. ASSUME NEW c \in Askers, Daemon!Signal(c) PROVE Daemon!TypeOK'
  <2>1. asked[c] \in Pids BY <1>6 DEF Daemon!Signal
  <2>2. CASE ~Daemon!Alive(asked[c]) /\ UNCHANGED <<stage, stopping, lock>>
    BY <1>6, <2>2 DEF Daemon!Signal
  <2>3. CASE Daemon!Handled(asked[c]) /\ stopping' = stopping \cup {asked[c]}
             /\ UNCHANGED <<stage, lock>>
    BY <1>6, <2>1, <2>3 DEF Daemon!Signal, Daemon!Handled
  <2>4. CASE Daemon!Dies(asked[c])
    BY <1>6, <2>1, <2>4 DEF Daemon!Signal, Daemon!Dies
  <2> QED BY <1>6, <2>2, <2>3, <2>4 DEF Daemon!Signal
<1>7. ASSUME UNCHANGED Daemon!vars PROVE Daemon!TypeOK'
  BY <1>7 DEF Daemon!vars
<1> QED BY <1>1, <1>2, <1>3, <1>4, <1>5, <1>6, <1>7 DEF Daemon!Next

\* The lock is taken when it is free, and given back by the process that holds it or when
\* that process ends.
LEMMA HoldersHaveLockNext ==
    ASSUME Daemon!DaemonAssumption, Daemon!TypeOK, HoldersHaveLock, [Daemon!Next]_Daemon!vars
    PROVE  HoldersHaveLock'
<1> USE DEF Holding, Daemon!Executing, Daemon!Goes, Daemon!Nobody
<1>1. stage \in [Pids -> {"none", "stranger"} \cup Daemon!DaemonStages \cup Daemon!RunStages]
  BY DEF Daemon!TypeOK
<1>2. \A p, q \in Pids : stage[p] \in Holding /\ stage[q] \in Holding => p = q
  BY DEF HoldersHaveLock
<1>3. Daemon!Nobody \notin Pids BY DEF Daemon!DaemonAssumption
<1>4. ASSUME NEW p \in Pids, \A q \in Pids \ {p} : stage'[q] = stage[q],
             stage'[p] \notin Holding,
             lock' = lock \/ lock = p \/ stage[p] \in Holding
      PROVE  HoldersHaveLock'
  <2>1. SUFFICES ASSUME NEW q \in Pids, stage'[q] \in Holding PROVE lock' = q
    BY DEF HoldersHaveLock
  <2>2. q # p /\ stage[q] \in Holding BY <1>1, <1>4, <2>1
  <2>3. lock = q BY <2>2 DEF HoldersHaveLock
  <2> QED BY <1>2, <1>4, <2>2, <2>3
<1>5. ASSUME NEW p \in Pids, NEW here, stage' = [stage EXCEPT ![p] = here],
             stage[p] \in Holding, lock' = lock
      PROVE  HoldersHaveLock'
  BY <1>1, <1>5 DEF HoldersHaveLock
<1>6. ASSUME stage' = stage, lock' = lock PROVE HoldersHaveLock'
  BY <1>6 DEF HoldersHaveLock
<1>7. ASSUME NEW p \in Pids, Daemon!Dies(p) PROVE HoldersHaveLock'
  <2>1. /\ \A q \in Pids \ {p} : stage'[q] = stage[q]
        /\ stage'[p] = "none" /\ (lock' = lock \/ lock = p)
    BY <1>1, <1>7 DEF Daemon!Dies
  <2> QED BY <1>4, <2>1
<1>8. ASSUME NEW p \in Pids, Daemon!ProcessStep(p) PROVE HoldersHaveLock'
  <2>1. CASE Daemon!CheckStatus(p) BY <1>1, <1>4, <2>1 DEF Daemon!CheckStatus
  <2>2. CASE Daemon!TakeLock(p)
    <3>1. CASE Daemon!LockFree
      <4>1. lock = Daemon!Nobody /\ lock' = p /\ \A q \in Pids \ {p} : stage'[q] = stage[q]
        BY <1>1, <1>3, <2>2, <3>1 DEF Daemon!TakeLock, Daemon!LockFree
      <4> QED BY <1>3, <4>1 DEF HoldersHaveLock
    <3>2. CASE ~Daemon!LockFree BY <1>1, <1>4, <2>2, <3>2 DEF Daemon!TakeLock
    <3> QED BY <3>1, <3>2
  <2>3. CASE Daemon!WritePid(p) BY <1>5, <2>3 DEF Daemon!WritePid
  <2>4. CASE Daemon!Serve(p) BY <1>5, <2>4 DEF Daemon!Serve
  <2>5. CASE Daemon!Recover(p) BY <1>1, <1>4, <1>5, <2>5 DEF Daemon!Recover
  <2>6. CASE Daemon!LeaveLoop(p) BY <1>5, <2>6 DEF Daemon!LeaveLoop
  <2>7. CASE Daemon!Drained(p) BY <1>1, <1>4, <2>7 DEF Daemon!Drained
  <2>8. CASE Daemon!Leave(p) BY <1>1, <1>4, <2>8 DEF Daemon!Leave
  <2>9. CASE Daemon!RunEnds(p) BY <1>1, <1>4, <2>9 DEF Daemon!RunEnds
  <2> QED BY <1>8, <2>1, <2>2, <2>3, <2>4, <2>5, <2>6, <2>7, <2>8, <2>9
          DEF Daemon!ProcessStep
<1>9. ASSUME NEW p \in Pids, Daemon!BuildFails(p) \/ Daemon!StrangerEnds(p)
      PROVE  HoldersHaveLock'
  BY <1>1, <1>4, <1>9 DEF Daemon!BuildFails, Daemon!StrangerEnds
<1>10. ASSUME NEW p \in Pids, Daemon!Crash(p) PROVE HoldersHaveLock'
  BY <1>7, <1>10 DEF Daemon!Crash
<1>11. ASSUME NEW p \in Pids, NEW kind \in Kinds, Daemon!StartProcess(p, kind)
       PROVE  HoldersHaveLock'
  <2>1. Daemon!FirstStage[kind] \notin Holding
    BY DEF Daemon!DaemonAssumption, Daemon!FirstStage
  <2> QED BY <1>1, <1>4, <1>11, <2>1 DEF Daemon!StartProcess
<1>12. ASSUME NEW c \in Askers, Daemon!AskToStop(c) \/ Daemon!Signal(c)
       PROVE  HoldersHaveLock'
  <2>1. CASE UNCHANGED <<stage, lock>> BY <1>6, <2>1
  <2>2. CASE asked[c] \in Pids /\ Daemon!Dies(asked[c]) BY <1>7, <2>2
  <2>3. Daemon!AskToStop(c) => UNCHANGED <<stage, lock>> BY DEF Daemon!AskToStop
  <2>4. Daemon!Signal(c) => asked[c] \in Pids BY DEF Daemon!Signal, Daemon!TypeOK
  <2>5. Daemon!Signal(c) => UNCHANGED <<stage, lock>> \/ Daemon!Dies(asked[c])
    BY DEF Daemon!Signal
  <2> QED BY <1>12, <2>1, <2>2, <2>3, <2>4, <2>5
<1>13. ASSUME UNCHANGED Daemon!vars PROVE HoldersHaveLock'
  BY <1>6, <1>13 DEF Daemon!vars
<1> QED BY <1>8, <1>9, <1>10, <1>11, <1>12, <1>13 DEF Daemon!Next

\* The stages at which the pid file is written, or about to be removed.
OnFile == {"locked", "writing", "released"}

\* Only a process at one of them changes the file, and it moves on with that.
LEMMA FileSteps ==
    ASSUME [Daemon!Next]_Daemon!vars, pidFile' # pidFile
    PROVE  \E p \in Pids : /\ stage[p] \in OnFile /\ stage'= [stage EXCEPT ![p] = stage'[p]]
                           /\ Daemon!WritePid(p) \/ Daemon!Leave(p)
<1> USE DEF Daemon!Goes, OnFile
<1>1. ASSUME NEW p \in Pids, Daemon!ProcessStep(p)
      PROVE  Daemon!WritePid(p) \/ Daemon!Leave(p)
  BY <1>1 DEF Daemon!ProcessStep, Daemon!CheckStatus, Daemon!TakeLock, Daemon!Serve,
              Daemon!Recover, Daemon!LeaveLoop, Daemon!Drained, Daemon!RunEnds
<1>2. ASSUME NEW p \in Pids, Daemon!BuildFails(p) \/ Daemon!StrangerEnds(p) \/ Daemon!Crash(p)
      PROVE  FALSE
  BY <1>2 DEF Daemon!BuildFails, Daemon!StrangerEnds, Daemon!Crash
<1>3. ASSUME \/ \E p \in Pids, kind \in Kinds : Daemon!StartProcess(p, kind)
             \/ \E c \in Askers : Daemon!AskToStop(c) \/ Daemon!Signal(c)
             \/ UNCHANGED Daemon!vars
      PROVE  FALSE
  BY <1>3 DEF Daemon!StartProcess, Daemon!AskToStop, Daemon!Signal, Daemon!vars
<1>4. PICK p \in Pids : Daemon!WritePid(p) \/ Daemon!Leave(p)
  BY <1>1, <1>2, <1>3 DEF Daemon!Next
<1> QED BY <1>4 DEF Daemon!WritePid, Daemon!Leave

\* A process that is refused, or that is no daemon, leaves the pid file as it is.
LEMMA RefusedLeaves ==
    ASSUME Daemon!TypeOK, [Daemon!Next]_Daemon!vars
    PROVE  Daemon!RefusedLeavesFile
<1> SUFFICES ASSUME NEW p \in Pids, stage[p] \in {"checking", "building"} \cup Daemon!RunStages,
                    stage'[p] # stage[p], pidFile' # pidFile
             PROVE  FALSE
  BY DEF Daemon!RefusedLeavesFile
<1>1. stage \in [Pids -> {"none", "stranger"} \cup Daemon!DaemonStages \cup Daemon!RunStages]
  BY DEF Daemon!TypeOK
<1>2. PICK q \in Pids : stage[q] \in OnFile /\ stage' = [stage EXCEPT ![q] = stage'[q]]
  BY FileSteps
<1>3. q = p BY <1>1, <1>2
<1> QED BY <1>2, <1>3 DEF OnFile, Daemon!RunStages


\* A process moves by a step of its own, unless it dies.
LEMMA StageSteps ==
    ASSUME Daemon!TypeOK, [Daemon!Next]_Daemon!vars, NEW p \in Pids, stage'[p] # stage[p]
    PROVE  \/ Daemon!ProcessStep(p) \/ stage'[p] = "none"
           \/ \E kind \in Kinds : Daemon!StartProcess(p, kind)
<1>1. stage \in [Pids -> {"none", "stranger"} \cup Daemon!DaemonStages \cup Daemon!RunStages]
  BY DEF Daemon!TypeOK
<1>2. ASSUME NEW q \in Pids, q # p,
             \/ Daemon!ProcessStep(q) \/ Daemon!BuildFails(q) \/ Daemon!StrangerEnds(q)
             \/ Daemon!Dies(q) \/ \E kind \in Kinds : Daemon!StartProcess(q, kind)
      PROVE  FALSE
  BY <1>1, <1>2
     DEF Daemon!ProcessStep, Daemon!CheckStatus, Daemon!TakeLock, Daemon!WritePid,
         Daemon!Serve, Daemon!Recover, Daemon!LeaveLoop, Daemon!Drained, Daemon!Leave,
         Daemon!RunEnds, Daemon!BuildFails, Daemon!StrangerEnds, Daemon!Dies,
         Daemon!StartProcess, Daemon!Goes
<1>3. ASSUME Daemon!BuildFails(p) \/ Daemon!StrangerEnds(p) \/ Daemon!Dies(p)
      PROVE  stage'[p] = "none"
  BY <1>1, <1>3 DEF Daemon!BuildFails, Daemon!StrangerEnds, Daemon!Dies, Daemon!Goes
<1>4. ASSUME NEW c \in Askers, Daemon!AskToStop(c) \/ Daemon!Signal(c)
      PROVE  asked[c] \in Pids /\ Daemon!Dies(asked[c])
  <2>1. Daemon!Signal(c)
    BY <1>4 DEF Daemon!AskToStop
  <2>2. asked[c] \in Pids BY <2>1 DEF Daemon!Signal, Daemon!TypeOK
  <2> QED BY <2>1, <2>2 DEF Daemon!Signal
<1>5. PICK q \in Pids :
        \/ Daemon!ProcessStep(q) \/ Daemon!BuildFails(q) \/ Daemon!StrangerEnds(q)
        \/ Daemon!Dies(q) \/ \E kind \in Kinds : Daemon!StartProcess(q, kind)
  BY <1>4 DEF Daemon!Next, Daemon!Crash, Daemon!vars
<1> QED BY <1>2, <1>3, <1>5

\* At most one process is a daemon, from its start to its end.
OneDaemon ==
    \A p, q \in Pids :
        stage[p] \in Daemon!DaemonStages /\ stage[q] \in Daemon!DaemonStages => p = q

\* From the moment its pid is written until it gives the lock back.
Named == {"written", "recovering", "looping", "draining"}

FileIsNamed == \A p \in Pids : stage[p] \in Named => pidFile = p

\* Finite sets are the same ones here and in the instance.
LEMMA DaemonSets ==
    ASSUME NEW S
    PROVE  Daemon!IsFiniteSet(S) = IsFiniteSet(S) /\ Daemon!Cardinality(S) = Cardinality(S)
BY DEF IsFiniteSet, Daemon!IsFiniteSet, Cardinality, Daemon!Cardinality

\* A daemon starts where there is none.
LEMMA OneDaemonNext ==
    ASSUME Daemon!DaemonAssumption, AtOnce <= 1, Daemon!TypeOK, OneDaemon,
           [Daemon!Next]_Daemon!vars
    PROVE  OneDaemon'
<1>1. stage \in [Pids -> {"none", "stranger"} \cup Daemon!DaemonStages \cup Daemon!RunStages]
  BY DEF Daemon!TypeOK
<1>2. ASSUME NEW p \in Pids, stage'[p] \in Daemon!DaemonStages,
             stage[p] \notin Daemon!DaemonStages
      PROVE  Daemon!StartProcess(p, "daemon")
  <2>1. ASSUME Daemon!ProcessStep(p) PROVE FALSE
    BY <1>1, <1>2, <2>1
       DEF Daemon!ProcessStep, Daemon!CheckStatus, Daemon!TakeLock, Daemon!WritePid,
           Daemon!Serve, Daemon!Recover, Daemon!LeaveLoop, Daemon!Drained, Daemon!Leave,
           Daemon!RunEnds, Daemon!Goes, Daemon!DaemonStages, Daemon!StartingDaemon,
           Daemon!ServingDaemon
  <2>2. PICK kind \in Kinds : Daemon!StartProcess(p, kind)
    BY <1>2, <2>1, StageSteps DEF Daemon!DaemonStages, Daemon!StartingDaemon,
                                  Daemon!ServingDaemon
  <2>3. kind = "daemon"
    BY <1>1, <1>2, <2>2
       DEF Daemon!StartProcess, Daemon!FirstStage, Daemon!DaemonAssumption,
           Daemon!DaemonStages, Daemon!StartingDaemon, Daemon!ServingDaemon
  <2> QED BY <2>2, <2>3
<1>3. ASSUME NEW p \in Pids, Daemon!StartProcess(p, "daemon")
      PROVE  \A q \in Pids : stage[q] \notin Daemon!DaemonStages
  <2>1. IsFiniteSet(Daemon!Daemons)
    <3>1. Daemon!Daemons \subseteq Pids BY DEF Daemon!Daemons
    <3>2. IsFiniteSet(Pids) BY DaemonSets DEF Daemon!DaemonAssumption
    <3> QED BY <3>1, <3>2, FS_Subset
  <2>2. Cardinality(Daemon!Daemons) < 1
    <3>1. Cardinality(Daemon!Daemons) < AtOnce BY <1>3, DaemonSets DEF Daemon!StartProcess
    <3>2. AtOnce \in Nat BY DEF Daemon!DaemonAssumption
    <3>3. Cardinality(Daemon!Daemons) \in Nat BY <2>1, FS_CardinalityType
    <3> QED BY <3>1, <3>2, <3>3
  <2>3. Daemon!Daemons = {} BY <2>1, <2>2, FS_CardinalityType, FS_EmptySet
  <2> QED BY <2>3 DEF Daemon!Daemons
<1>4. ASSUME NEW p \in Pids, NEW q \in Pids, Daemon!StartProcess(p, "daemon"),
             stage'[q] \in Daemon!DaemonStages
      PROVE  q = p
  <2>1. stage' = [stage EXCEPT ![p] = Daemon!FirstStage["daemon"]]
    BY <1>4 DEF Daemon!StartProcess
  <2> QED BY <1>1, <1>3, <1>4, <2>1
<1> QED BY <1>2, <1>4 DEF OneDaemon

\* The file names the one daemon when its pid was written, and nobody else writes it.
LEMMA FileIsNamedNext ==
    ASSUME Daemon!DaemonAssumption, Daemon!TypeOK, OneDaemon, FileIsNamed,
           [Daemon!Next]_Daemon!vars
    PROVE  FileIsNamed'
<1> USE DEF Daemon!DaemonStages, Daemon!StartingDaemon, Daemon!ServingDaemon
<1>1. stage \in [Pids -> {"none", "stranger"} \cup Daemon!DaemonStages \cup Daemon!RunStages]
  BY DEF Daemon!TypeOK
<1>2. SUFFICES ASSUME NEW p \in Pids, stage'[p] \in Named PROVE pidFile' = p
  BY DEF FileIsNamed
<1>3. CASE stage[p] \in Named
  <2>1. pidFile = p BY <1>3 DEF FileIsNamed
  <2>2. ASSUME pidFile' # pidFile PROVE FALSE
    <3>1. PICK q \in Pids : stage[q] \in OnFile BY <2>2, FileSteps
    <3>2. q = p BY <1>3, <3>1 DEF OneDaemon, OnFile, Named
    <3> QED BY <1>3, <3>1, <3>2 DEF OnFile, Named
  <2> QED BY <2>1, <2>2
<1>4. CASE stage[p] \notin Named
  <2>1. ASSUME NEW kind \in Kinds, Daemon!StartProcess(p, kind) PROVE FALSE
    BY <1>1, <1>2, <2>1
       DEF Daemon!StartProcess, Daemon!FirstStage, Daemon!DaemonAssumption, Named
  <2>2. Daemon!ProcessStep(p) BY <1>2, <1>4, <2>1, StageSteps DEF Named
  <2>3. Daemon!WritePid(p)
    BY <1>1, <1>2, <1>4, <2>2
       DEF Named, Daemon!ProcessStep, Daemon!CheckStatus, Daemon!TakeLock,
           Daemon!Serve, Daemon!Recover, Daemon!LeaveLoop, Daemon!Drained, Daemon!Leave,
           Daemon!RunEnds, Daemon!Goes
  <2> QED BY <1>1, <1>2, <2>3 DEF Daemon!WritePid, Daemon!Goes, Named
<1> QED BY <1>3, <1>4

\* What always holds of the executing processes.
DaemonInv ==
    /\ Daemon!TypeOK /\ HoldersHaveLock
    /\ AtOnce <= 1 => OneDaemon /\ FileIsNamed

\* No process runs at the start.
LEMMA DaemonInit == Daemon!Init => DaemonInv
<1> SUFFICES ASSUME Daemon!Init PROVE DaemonInv OBVIOUS
<1>1. \A p \in Pids : stage[p] = "none" BY DEF Daemon!Init
<1>2. Daemon!TypeOK BY DEF Daemon!Init, Daemon!TypeOK
<1>3. HoldersHaveLock BY <1>1 DEF HoldersHaveLock, Holding, Daemon!Executing
<1>4. OneDaemon
  BY <1>1 DEF OneDaemon, Daemon!DaemonStages, Daemon!StartingDaemon, Daemon!ServingDaemon
<1>5. FileIsNamed BY <1>1 DEF FileIsNamed, Named
<1> QED BY <1>2, <1>3, <1>4, <1>5 DEF DaemonInv

\* Every step of a daemon, a run or a client keeps what holds of them.
LEMMA DaemonStep ==
    Daemon!DaemonAssumption /\ DaemonInv /\ [Daemon!Next]_Daemon!vars =>
        DaemonInv' /\ [Daemon!DaemonsHold]_Daemon!vars
<1> SUFFICES ASSUME Daemon!DaemonAssumption
             PROVE  DaemonInv /\ [Daemon!Next]_Daemon!vars =>
                        DaemonInv' /\ [Daemon!DaemonsHold]_Daemon!vars
  OBVIOUS
<1>1. DaemonInv /\ [Daemon!Next]_Daemon!vars => DaemonInv'
  BY DaemonTypes, HoldersHaveLockNext, OneDaemonNext, FileIsNamedNext DEF DaemonInv
<1>2. DaemonInv => Daemon!OneExecutor /\ (AtOnce <= 1 => Daemon!FileNamesDaemon)
  BY DEF DaemonInv, HoldersHaveLock, Holding, FileIsNamed, Named, Daemon!OneExecutor,
         Daemon!FileNamesDaemon
<1>3. DaemonInv' => Daemon!OneExecutor' /\ (AtOnce <= 1 => Daemon!FileNamesDaemon')
  BY DEF DaemonInv, HoldersHaveLock, Holding, FileIsNamed, Named, Daemon!OneExecutor,
         Daemon!FileNamesDaemon
<1>4. DaemonInv /\ DaemonInv' /\ [Daemon!Next]_Daemon!vars => [Daemon!DaemonsHold]_Daemon!vars
  BY <1>3, RefusedLeaves DEF Daemon!DaemonsHold, DaemonInv
<1> QED BY <1>1, <1>4

\* Of the daemons and runs that are started, forced or not, whatever dies, is signalled or
\* reuses a pid, at most one executes; a process that is refused the lock leaves the pid
\* file of the daemon at work; and if daemons do not overlap the file names it.
THEOREM DaemonsCorrect ==
    ASSUME Daemon!DaemonAssumption
    PROVE  Daemon!Spec => [][Daemon!DaemonsHold]_Daemon!vars
<1>1. DaemonInv /\ [Daemon!Next]_Daemon!vars => DaemonInv' /\ [Daemon!DaemonsHold]_Daemon!vars
  BY DaemonStep
<1> QED BY <1>1, DaemonInit, PTL DEF Daemon!Spec

---------------------------------------------------------------------------
(* Opening and upgrading the database.                                      *)

\* The migrations up to a version, each applied once and in order.
Layout(v) == [i \in 1 .. v |-> i]

\* The transaction under way holds what its migrations leave, and starts from what is
\* committed.
Txns == [by : Opener \cup {Open!Nobody}, version : 0 .. 2, applied : Seq(Nat)]

TxnLayout ==
    /\ txn \in Txns
    /\ txn.applied = Layout(txn.version)
    /\ txn.by # Open!Nobody => txn.version >= version

\* An opener that took the lock still has it at these places.
LockPlaces == {"locked", "started", "executing"}
LockersHaveLock == \A p \in Opener : pc[p] \in LockPlaces => flock = p

\* Every opener that upgrades an existing database has the lock, unless its version is
\* there already; and no pid file can make it believe that the lock is its own.
UpgradersHaveLock ==
    /\ version >= 1
    /\ \A p \in Opener :
          /\ pc[p] \in {"begin", "migrating"} => flock = p \/ version >= Open!Code(p)
          /\ pc[p] \in {"start", "locking", "locked"} => pidfile # p

\* Applying the next migration to a layout gives the next one.
LEMMA NextLayout ==
    ASSUME NEW v \in Nat
    PROVE  Layout(v) \in Seq(Nat) /\ Append(Layout(v), v + 1) = Layout(v + 1)
<1>1. Layout(v) \in Seq(Nat) /\ Len(Layout(v)) = v /\ DOMAIN Layout(v) = 1 .. v
  BY DEF Layout
<1>2. /\ DOMAIN Append(Layout(v), v + 1) = 1 .. v + 1
      /\ \A i \in 1 .. v + 1 : Append(Layout(v), v + 1)[i] = i
  BY <1>1 DEF Layout
<1> QED BY <1>1, <1>2 DEF Layout

\* No migration, no layout.
LEMMA EmptyLayout == << >> = Layout(0) /\ Layout(0) \in Seq(Nat)
<1>1. Layout(0) \in Seq(Nat) /\ Len(Layout(0)) = 0 BY DEF Layout
<1> QED BY <1>1

\* Every variable keeps its type, and who took the lock has it.
LEMMA UpgradeTypes ==
    ASSUME Open!UpgradeAssumption, Open!TypeOK, LockersHaveLock, TxnLayout,
           [Open!Next]_Open!vars
    PROVE  Open!TypeOK' /\ LockersHaveLock'
<1> USE DEF Open!TypeOK, LockersHaveLock, LockPlaces, Open!At, Open!Goes
<1>1. Open!Nobody \notin Opener BY DEF Open!UpgradeAssumption
<1> DEFINE Goal == Open!TypeOK' /\ LockersHaveLock'
<1>2. ASSUME NEW p \in Opener, Open!ReadVersion(p) \/ Open!UpgradeBusy(p) PROVE Goal
  BY <1>2 DEF Open!ReadVersion, Open!UpgradeBusy
<1>3. ASSUME NEW p \in Opener, Open!Flock(p) PROVE Goal
  BY <1>1, <1>3 DEF Open!Flock
<1>4. ASSUME NEW p \in Opener, Open!WritePid(p) PROVE Goal
  BY <1>4 DEF Open!WritePid
<1>5. ASSUME NEW p \in Opener, Open!Begin(p) PROVE Goal
  BY <1>1, <1>5 DEF Open!Begin, Open!NoTxn
<1>6. ASSUME NEW p \in Opener, Open!TimesOut(p) PROVE Goal
  BY <1>1, <1>6 DEF Open!TimesOut, Open!Released, Open!PidAfter
<1>7. ASSUME NEW p \in Opener, Open!Migrate(p) PROVE Goal
  BY <1>7 DEF Open!Migrate, TxnLayout, Txns
<1>8. ASSUME NEW p \in Opener, Open!TooNew(p) PROVE Goal
  BY <1>1, <1>8 DEF Open!TooNew, Open!Released, Open!PidAfter, Open!NoTxn
<1>9. ASSUME NEW p \in Opener, Open!Commit(p) PROVE Goal
  BY <1>1, <1>9 DEF Open!Commit, Open!NoTxn, TxnLayout, Txns
<1>10. ASSUME NEW p \in Opener, Open!EndInit(p) PROVE Goal
  BY <1>1, <1>10 DEF Open!EndInit, Open!Released, Open!PidAfter
<1>11. ASSUME NEW p \in Opener, Open!StartExecuting(p) \/ Open!ExecutorBusy(p) PROVE Goal
  BY <1>11 DEF Open!StartExecuting, Open!ExecutorBusy
<1>12. ASSUME NEW p \in Opener, Open!StopExecuting(p) PROVE Goal
  BY <1>1, <1>12 DEF Open!StopExecuting
<1>13. ASSUME NEW p \in Opener, Open!Dies(p) PROVE Goal
  BY <1>1, <1>13 DEF Open!Dies, Open!NoTxn
<1>14. ASSUME UNCHANGED Open!vars PROVE Goal
  BY <1>14 DEF Open!vars
<1> QED BY <1>2, <1>3, <1>4, <1>5, <1>6, <1>7, <1>8, <1>9, <1>10, <1>11, <1>12, <1>13, <1>14
        DEF Open!Next, Open!Opens

\* The transaction holds a layout.
LEMMA TxnLayoutNext ==
    ASSUME Open!UpgradeAssumption, Open!TypeOK, TxnLayout, Open!LayoutMatches,
           [Open!Next]_Open!vars
    PROVE  TxnLayout' /\ Open!LayoutMatches'
<1> DEFINE Goal == TxnLayout' /\ Open!LayoutMatches'
<1>1. ASSUME txn' = Open!NoTxn, UNCHANGED <<version, applied>> PROVE Goal
  BY <1>1, EmptyLayout
     DEF TxnLayout, Txns, Open!NoTxn, Open!LayoutMatches
<1>2. ASSUME UNCHANGED <<txn, version, applied>> PROVE Goal
  BY <1>2 DEF TxnLayout, Open!LayoutMatches
<1>3. ASSUME NEW p \in Opener, Open!Begin(p) PROVE Goal
  <2>1. applied = Layout(version) /\ version \in 0 .. 2
    BY DEF Open!LayoutMatches, Open!TypeOK, Layout
  <2>2. applied \in Seq(Nat) BY <2>1, NextLayout
  <2> QED BY <1>3, <2>1, <2>2 DEF Open!Begin, TxnLayout, Txns, Open!LayoutMatches
<1>4. ASSUME NEW p \in Opener, Open!Migrate(p) PROVE Goal
  <2> DEFINE v == txn.version
  <2>1. /\ txn \in Txns /\ v \in 0 .. 1 /\ txn.applied = Layout(v)
        /\ txn.by # Open!Nobody => v >= version
    BY <1>4 DEF Open!Migrate, TxnLayout, Txns, Open!Code
  <2>2. txn' = [txn EXCEPT !.version = v + 1, !.applied = Layout(v + 1)]
    <3>1. v \in Nat BY <2>1
    <3>2. Append(Layout(v), v + 1) = Layout(v + 1) BY <3>1, NextLayout
    <3>3. txn' = [txn EXCEPT !.version = v + 1, !.applied = Append(txn.applied, v + 1)]
      BY <1>4, <2>1 DEF Open!Migrate, Txns
    <3> QED BY <2>1, <3>2, <3>3
  <2>3. Layout(v + 1) \in Seq(Nat)
    <3>1. v + 1 \in Nat BY <2>1
    <3> QED BY <3>1, NextLayout
  <2>4. version \in 0 .. 2 /\ version' = version /\ applied' = applied
    BY <1>4 DEF Open!Migrate, Open!TypeOK
  <2> HIDE DEF v
  <2>5. /\ txn'.version = v + 1 /\ txn'.applied = Layout(v + 1) /\ txn'.by = txn.by
        /\ txn' \in Txns
    <3>1. txn \in Txns /\ v + 1 \in 0 .. 2 BY <2>1
    <3> QED BY <2>2, <2>3, <3>1 DEF Txns
  <2> QED BY <2>1, <2>4, <2>5 DEF TxnLayout, Open!LayoutMatches
<1>5. ASSUME NEW p \in Opener, Open!Commit(p) PROVE Goal
  <2>1. version' = txn.version /\ applied' = Layout(txn.version) /\ txn' = Open!NoTxn
    BY <1>5 DEF Open!Commit, TxnLayout
  <2> QED BY <2>1, EmptyLayout
          DEF TxnLayout, Txns, Open!NoTxn, Open!LayoutMatches, Layout
<1>6. ASSUME NEW p \in Opener, Open!TooNew(p) \/ Open!Dies(p) PROVE Goal
  BY <1>1, <1>2, <1>6 DEF Open!TooNew, Open!Dies
<1>7. ASSUME NEW p \in Opener,
             \/ Open!ReadVersion(p) \/ Open!UpgradeBusy(p) \/ Open!Flock(p)
             \/ Open!WritePid(p) \/ Open!TimesOut(p) \/ Open!EndInit(p)
             \/ Open!StartExecuting(p) \/ Open!ExecutorBusy(p) \/ Open!StopExecuting(p)
      PROVE  Goal
  BY <1>2, <1>7
     DEF Open!ReadVersion, Open!UpgradeBusy, Open!Flock, Open!WritePid, Open!TimesOut,
         Open!EndInit, Open!StartExecuting, Open!ExecutorBusy, Open!StopExecuting
<1>8. ASSUME UNCHANGED Open!vars PROVE Goal
  BY <1>2, <1>8 DEF Open!vars
<1> HIDE DEF Goal
<1>9. Goal
  BY <1>3, <1>4, <1>5, <1>6, <1>7, <1>8 DEF Open!Next, Open!Opens
<1> QED BY <1>9 DEF Goal

\* Only a commit changes the version, to the newest its RunSpool knows.
LEMMA VersionSteps ==
    ASSUME [Open!Next]_Open!vars, version' # version
    PROVE  \E p \in Opener : Open!Commit(p)
BY DEF Open!Next, Open!Opens, Open!ReadVersion, Open!UpgradeBusy, Open!Flock, Open!WritePid,
       Open!Begin, Open!TimesOut, Open!Migrate, Open!TooNew, Open!EndInit,
       Open!StartExecuting, Open!ExecutorBusy, Open!StopExecuting, Open!Dies, Open!vars

\* Without twins the lock stays with the opener that upgrades.
LEMMA UpgradersHaveLockNext ==
    ASSUME Open!UpgradeAssumption, Twins = {}, Open!TypeOK, LockersHaveLock, TxnLayout,
           UpgradersHaveLock, [Open!Next]_Open!vars
    PROVE  UpgradersHaveLock'
<1> USE DEF UpgradersHaveLock, Open!At, Open!Goes, Open!Pid
<1>1. /\ pc \in [Opener -> {"start", "locking", "locked", "begin", "migrating", "unlocking",
                            "open", "starting", "started", "executing", "refused", "dead"}]
      /\ version \in 1 .. 2 /\ Open!Nobody \notin Opener /\ \A p \in Opener : Open!Code(p) \in 1 .. 2
  BY DEF Open!TypeOK, Open!UpgradeAssumption, Open!Code
<1>2. \A p \in Opener : Open!Process(p) = {p} BY DEF Open!Process
<1>3. ASSUME NEW p \in Opener, Open!Commit(p) PROVE UpgradersHaveLock'
  <2>1. version' = Open!Code(p) /\ version' >= version
    BY <1>1, <1>3 DEF Open!Commit, Open!TypeOK, TxnLayout, Txns
  <2> QED BY <1>1, <1>3, <2>1 DEF Open!Commit, Open!Code
<1>4. ASSUME NEW p \in Opener, Open!ReadVersion(p) PROVE UpgradersHaveLock'
  BY <1>1, <1>4 DEF Open!ReadVersion, Open!NeedsLock
<1>5. ASSUME NEW p \in Opener, Open!Flock(p) PROVE UpgradersHaveLock'
  BY <1>1, <1>5 DEF Open!Flock
<1>6. ASSUME NEW p \in Opener, Open!WritePid(p) PROVE UpgradersHaveLock'
  BY <1>1, <1>6 DEF Open!WritePid, LockersHaveLock, LockPlaces
<1>7. ASSUME NEW p \in Opener, Open!UpgradeBusy(p) PROVE UpgradersHaveLock'
  BY <1>1, <1>7 DEF Open!UpgradeBusy, Open!BusyIsMine
<1>8. ASSUME NEW p \in Opener, Open!TimesOut(p) \/ Open!EndInit(p) \/ Open!TooNew(p)
      PROVE  UpgradersHaveLock'
  BY <1>1, <1>8 DEF Open!TimesOut, Open!EndInit, Open!TooNew, Open!Released, Open!PidAfter
<1>9. ASSUME NEW p \in Opener,
             Open!Begin(p) \/ Open!Migrate(p) \/ Open!StartExecuting(p) \/ Open!ExecutorBusy(p)
      PROVE  UpgradersHaveLock'
  BY <1>1, <1>9 DEF Open!Begin, Open!Migrate, Open!StartExecuting, Open!ExecutorBusy
<1>10. ASSUME NEW p \in Opener, Open!StopExecuting(p) PROVE UpgradersHaveLock'
  BY <1>1, <1>10 DEF Open!StopExecuting, LockersHaveLock, LockPlaces
<1>11. ASSUME NEW p \in Opener, Open!Dies(p) PROVE UpgradersHaveLock'
  BY <1>1, <1>2, <1>11 DEF Open!Dies
<1>12. ASSUME UNCHANGED Open!vars PROVE UpgradersHaveLock'
  BY <1>12 DEF Open!vars, Open!Code
<1> QED BY <1>3, <1>4, <1>5, <1>6, <1>7, <1>8, <1>9, <1>10, <1>11, <1>12
        DEF Open!Next, Open!Opens

\* What always holds of the openers.
UpgradeInv ==
    /\ Open!TypeOK /\ LockersHaveLock /\ TxnLayout /\ Open!LayoutMatches
    /\ Twins = {} /\ 0 \notin Versions => UpgradersHaveLock

\* Nobody has begun.
LEMMA UpgradeInit == Open!UpgradeAssumption /\ Open!Init => UpgradeInv
<1> SUFFICES ASSUME Open!UpgradeAssumption, Open!Init PROVE UpgradeInv OBVIOUS
<1>1. /\ version \in {0, 1} /\ (0 \notin Versions => version = 1) /\ version \in 0 .. 2
      /\ \A p \in Opener : pc[p] = "start" /\ p # Open!Nobody
      /\ txn = Open!NoTxn /\ flock = Open!Nobody /\ pidfile = Open!Nobody
  BY DEF Open!Init, Open!UpgradeAssumption
<1>2. Open!TypeOK
  BY <1>1 DEF Open!Init, Open!TypeOK, Open!NoTxn, Open!At
<1>3. LockersHaveLock BY <1>1 DEF LockersHaveLock, LockPlaces
<1>4. TxnLayout BY <1>1, EmptyLayout DEF TxnLayout, Txns, Open!NoTxn
<1>5. Open!LayoutMatches BY DEF Open!Init, Open!LayoutMatches
<1>6. 0 \notin Versions => UpgradersHaveLock BY <1>1 DEF UpgradersHaveLock
<1> QED BY <1>2, <1>3, <1>4, <1>5, <1>6 DEF UpgradeInv

\* An upgrade of an existing database is committed under the lock, while nobody executes.
LEMMA UpgradeIsLocked ==
    ASSUME Open!UpgradeAssumption, UpgradeInv, Twins = {}, 0 \notin Versions,
           [Open!Next]_Open!vars
    PROVE  Open!UpgradeHoldsLock /\ Open!StillUnderExecutor
<1> SUFFICES ASSUME version' # version
             PROVE  /\ \E p \in Opener : txn.by \in Open!Process(p) /\ flock \in Open!Process(p)
                    /\ \A p \in Opener : ~Open!At(p, "executing")
  BY DEF Open!UpgradeHoldsLock, Open!StillUnderExecutor
<1>1. PICK p \in Opener : Open!Commit(p) BY VersionSteps
<1>2. /\ txn.by = p /\ pc[p] = "migrating" /\ version' = Open!Code(p) /\ version' >= version
      /\ version \in 0 .. 2 /\ Open!Code(p) \in 1 .. 2
  BY <1>1 DEF Open!Commit, UpgradeInv, Open!TypeOK, TxnLayout, Txns, Open!At, Open!Code,
              Open!UpgradeAssumption
<1>3. flock = p BY <1>2 DEF UpgradeInv, UpgradersHaveLock
<1>4. p \in Open!Process(p) BY DEF Open!Process
<1>5. \A q \in Opener : ~Open!At(q, "executing")
  BY <1>2, <1>3 DEF UpgradeInv, Open!TypeOK, Open!At
<1> QED BY <1>2, <1>3, <1>4, <1>5

\* Every step of a process that opens the database keeps what holds of it.
LEMMA UpgradeStep ==
    Open!UpgradeAssumption /\ UpgradeInv /\ [Open!Next]_Open!vars =>
        UpgradeInv' /\ [Open!UpgradesHold]_Open!vars
<1> SUFFICES ASSUME Open!UpgradeAssumption
             PROVE  UpgradeInv /\ [Open!Next]_Open!vars =>
                        UpgradeInv' /\ [Open!UpgradesHold]_Open!vars
  OBVIOUS
<1>1. UpgradeInv /\ [Open!Next]_Open!vars => UpgradeInv'
  BY UpgradeTypes, TxnLayoutNext, UpgradersHaveLockNext DEF UpgradeInv
<1>2. UpgradeInv /\ UpgradeInv' /\ [Open!Next]_Open!vars => [Open!UpgradesHold]_Open!vars
  BY UpgradeIsLocked DEF Open!UpgradesHold, UpgradeInv
<1> QED BY <1>1, <1>2

\* Whoever opens, executes, is refused or dies half way through: what is committed is
\* always the layout of the recorded version, and an existing database is upgraded only
\* under the executor lock and while nobody executes, if no two openers share a pid.
THEOREM UpgradesCorrect ==
    ASSUME Open!UpgradeAssumption
    PROVE  Open!Spec => [][Open!UpgradesHold]_Open!vars
<1>1. UpgradeInv /\ [Open!Next]_Open!vars => UpgradeInv' /\ [Open!UpgradesHold]_Open!vars
  BY UpgradeStep
<1> QED BY <1>1, UpgradeInit, PTL DEF Open!Spec

---------------------------------------------------------------------------
(* Following the events.                                                    *)

Events == [id : Nat \ {0}, task : Followed]

\* Only the holder of the write lock has events that are not committed, and they are newer
\* than those that are; a cursor is the id of a committed event.
FeedInv ==
    /\ last \in Nat
    /\ open \in [Writers -> SUBSET Events]
    /\ log \in SUBSET Events /\ IsFiniteSet(log)
    /\ cursor \in [Followers -> Nat]
    /\ \A w \in Writers : IsFiniteSet(open[w])
    /\ \A e \in log : e.id <= last
    /\ \A w \in Writers : \A e \in open[w] : e.id <= last
    /\ \A w \in Writers : open[w] # {} => writer = w
    /\ \A w \in Writers : \A e \in log, d \in open[w] : e.id < d.id
    /\ \A f \in Followers : cursor[f] = 0 \/ \E e \in log : e.id = cursor[f]
    /\ got \in [Followers -> SUBSET Nat]
    /\ Feed!NothingMissed

LEMMA FeedInit == Feed!FeedAssumption /\ Feed!Init => FeedInv
<1> SUFFICES ASSUME Feed!Init PROVE FeedInv OBVIOUS
<1>1. IsFiniteSet({}) BY FS_EmptySet
<1>2. Feed!NothingMissed BY DEF Feed!Init, Feed!NothingMissed
<1> QED BY <1>1, <1>2 DEF Feed!Init, FeedInv

\* An event gets a new id, under the write lock.
LEMMA InsertKeeps ==
    ASSUME Feed!FeedAssumption, FeedInv, NEW w \in Writers, Feed!Insert(w)
    PROVE  FeedInv'
<1>1. PICK t \in Followed :
        open' = [open EXCEPT ![w] = @ \cup {[id |-> last + 1, task |-> t]}]
  BY DEF Feed!Insert
<1> DEFINE new == [id |-> last + 1, task |-> t]
<1>2. /\ last' = last + 1 /\ last \in Nat /\ writer' = w
      /\ UNCHANGED <<log, follows, cursor, got>>
  BY DEF Feed!Insert, FeedInv
<1>3. new \in Events /\ new.id = last + 1 BY <1>2 DEF Events
<1>4. /\ open' \in [Writers -> SUBSET Events]
      /\ open'[w] = open[w] \cup {new}
      /\ \A v \in Writers : v # w => open'[v] = open[v]
  BY <1>1, <1>3 DEF FeedInv
<1> HIDE DEF new
<1>5. \A v \in Writers : v # w => open[v] = {}
  BY DEF Feed!Insert, Feed!MayWrite, Feed!Nobody, Feed!FeedAssumption, FeedInv
<1>6. IsFiniteSet(open'[w])
  BY <1>4, FS_AddElement DEF FeedInv
<1>7. \A v \in Writers : IsFiniteSet(open'[v])
  BY <1>4, <1>6 DEF FeedInv
<1>8. \A v \in Writers : \A e \in open'[v] : e.id <= last'
  <2> SUFFICES ASSUME NEW v \in Writers, NEW e \in open'[v] PROVE e.id <= last'
    OBVIOUS
  <2>1. v = w BY <1>4, <1>5
  <2>2. CASE e = new BY <1>2, <1>3, <2>2
  <2>3. CASE e \in open[w]
    <3>1. e.id \in Nat /\ e.id <= last BY <2>3 DEF FeedInv, Events
    <3> QED BY <1>2, <3>1
  <2> QED BY <1>4, <2>1, <2>2, <2>3
<1>9. \A v \in Writers : open'[v] # {} => writer' = v BY <1>2, <1>4, <1>5
<1>10. \A v \in Writers : \A e \in log', d \in open'[v] : e.id < d.id
  <2> SUFFICES ASSUME NEW v \in Writers, NEW e \in log, NEW d \in open'[v]
               PROVE  e.id < d.id
    BY <1>2
  <2>1. v = w BY <1>4, <1>5
  <2>2. CASE d = new
    <3>1. e.id \in Nat /\ e.id <= last BY DEF FeedInv, Events
    <3> QED BY <1>2, <1>3, <2>2, <3>1
  <2>3. CASE d \in open[w] BY <2>3 DEF FeedInv
  <2> QED BY <1>4, <2>1, <2>2, <2>3
<1>11. \A e \in log' : e.id <= last'
  <2>1. \A e \in log : e.id \in Nat /\ e.id <= last BY DEF FeedInv, Events
  <2> QED BY <1>2, <2>1
<1>12. Feed!NothingMissed'
  BY <1>2 DEF FeedInv, Feed!NothingMissed, Feed!Follows
<1> QED BY <1>2, <1>4, <1>7, <1>8, <1>9, <1>10, <1>11, <1>12 DEF FeedInv

\* A committed event is newer than every cursor.
LEMMA CommitKeeps ==
    ASSUME Feed!FeedAssumption, FeedInv, NEW w \in Writers, Feed!Commit(w)
    PROVE  FeedInv'
<1>1. /\ open[w] # {} /\ log' = log \cup open[w]
      /\ open' = [open EXCEPT ![w] = {}]
      /\ UNCHANGED <<last, follows, cursor, got>>
  BY DEF Feed!Commit
<1>2. \A v \in Writers : open'[v] = {}
  BY <1>1 DEF FeedInv
<1>3. open' \in [Writers -> SUBSET Events] BY <1>1 DEF FeedInv
<1>4. log' \in SUBSET Events /\ IsFiniteSet(log')
  BY <1>1, FS_Union DEF FeedInv
<1>5. \A e \in log' : e.id <= last' BY <1>1 DEF FeedInv
<1>6. \A v \in Writers : IsFiniteSet(open'[v]) BY <1>2, FS_EmptySet
<1>7. \A f \in Followers : cursor'[f] = 0 \/ \E e \in log' : e.id = cursor'[f]
  BY <1>1 DEF FeedInv
<1>8. \A f \in Followers, d \in open[w] : ~(d.id <= cursor[f])
  <2> SUFFICES ASSUME NEW f \in Followers, NEW d \in open[w] PROVE ~(d.id <= cursor[f])
    OBVIOUS
  <2>1. d.id \in Nat \ {0} BY DEF FeedInv, Events
  <2>2. CASE cursor[f] = 0 BY <2>1, <2>2
  <2>3. CASE cursor[f] # 0
    <3>1. PICK e \in log : e.id = cursor[f] BY <2>3 DEF FeedInv
    <3>2. e.id \in Nat /\ e.id < d.id BY DEF FeedInv, Events
    <3> QED BY <2>1, <3>1, <3>2
  <2> QED BY <2>2, <2>3
<1>9. Feed!NothingMissed'
  <2> SUFFICES ASSUME NEW f \in Followers
               PROVE  got[f] = {e.id : e \in {d \in log' : d.id <= cursor[f]
                                                           /\ Feed!Follows(f, d)'}}
    BY <1>1 DEF Feed!NothingMissed
  <2>1. \A d : Feed!Follows(f, d)' <=> Feed!Follows(f, d) BY <1>1 DEF Feed!Follows
  <2>2. {d \in log' : d.id <= cursor[f] /\ Feed!Follows(f, d)'}
          = {d \in log : d.id <= cursor[f] /\ Feed!Follows(f, d)}
    BY <1>1, <1>8, <2>1
  <2> QED BY <2>2 DEF FeedInv, Feed!NothingMissed
<1> QED BY <1>1, <1>2, <1>3, <1>4, <1>5, <1>6, <1>7, <1>9 DEF FeedInv

\* Ids that are given out again are newer than every committed event.
LEMMA RollbackKeeps ==
    ASSUME Feed!FeedAssumption, FeedInv, NEW w \in Writers, Feed!Rollback(w)
    PROVE  FeedInv'
<1> DEFINE first == Feed!First(open[w])
           T == {e.id : e \in open[w]}
<1>1. /\ open[w] # {} /\ last' = first.id - 1
      /\ open' = [open EXCEPT ![w] = {}]
      /\ UNCHANGED <<log, follows, cursor, got>>
  BY DEF Feed!Rollback
<1>2. \A v \in Writers : open'[v] = {} BY <1>1 DEF FeedInv
<1>3. open' \in [Writers -> SUBSET Events] BY <1>1 DEF FeedInv
<1>4. first \in open[w]
  <2>1. T \in SUBSET Nat /\ T # {} BY <1>1 DEF FeedInv, Events
  <2>2. PICK x \in T : \A y \in T : x <= y BY <2>1, Least
  <2>3. PICK e \in open[w] : e.id = x BY <2>2
  <2>4. \A d \in open[w] : e.id <= d.id BY <2>2, <2>3
  <2> QED BY <2>4 DEF Feed!First
<1> HIDE DEF first, T
<1>5. first.id \in Nat \ {0} /\ \A e \in log : e.id \in Nat /\ e.id < first.id
  BY <1>4 DEF FeedInv, Events
<1>6. last' \in Nat /\ \A e \in log : e.id <= last' BY <1>1, <1>5
<1>7. \A v \in Writers : IsFiniteSet(open'[v]) BY <1>2, FS_EmptySet
<1>8. Feed!NothingMissed'
  BY <1>1 DEF FeedInv, Feed!NothingMissed, Feed!Follows
<1> QED BY <1>1, <1>2, <1>3, <1>6, <1>7, <1>8 DEF FeedInv

\* A page leaves out nothing before its last event.
LEMMA PollKeeps ==
    ASSUME Feed!FeedAssumption, FeedInv, NEW f \in Followers, Feed!Poll(f)
    PROVE  FeedInv'
<1> DEFINE due == Feed!Since(f)
           page == Feed!FirstOf(due)
           before(e) == {d \in due : d.id < e.id}
<1>1. /\ cursor' = [cursor EXCEPT ![f] = Feed!NextCursor(f, page)]
      /\ got' = [got EXCEPT ![f] = @ \cup {e.id : e \in page}]
      /\ UNCHANGED <<writer, last, open, log, follows>>
  BY DEF Feed!Poll
<1>2. /\ due = {e \in log : e.id > cursor[f] /\ Feed!Follows(f, e)}
      /\ IsFiniteSet(due)
  BY FS_Subset DEF Feed!Since, FeedInv
<1>3. page = {e \in due : Cardinality(before(e)) < Limit}
  <2>1. \A S : Feed!Cardinality(S) = Cardinality(S)
    BY DEF Feed!Cardinality, Cardinality, Feed!IsFiniteSet, IsFiniteSet
  <2> QED BY <2>1 DEF Feed!FirstOf
<1>4. \A e \in due : IsFiniteSet(before(e)) /\ Cardinality(before(e)) \in Nat
  <2> SUFFICES ASSUME NEW e \in due
               PROVE  IsFiniteSet(before(e)) /\ Cardinality(before(e)) \in Nat
    OBVIOUS
  <2>1. before(e) \subseteq due OBVIOUS
  <2> HIDE DEF before, due
  <2> QED BY <1>2, <2>1, FS_Subset, FS_CardinalityType
<1>5. \A e \in log : e.id \in Nat BY DEF FeedInv, Events
<1>6. ASSUME NEW e \in due, NEW top \in page, e.id <= top.id PROVE e \in page
  <2>1. top \in due /\ Cardinality(before(top)) < Limit BY <1>3
  <2>2. before(e) \subseteq before(top) BY <1>2, <1>5, <1>6, <2>1
  <2>3. Cardinality(before(e)) <= Cardinality(before(top))
    <3> HIDE DEF before
    <3> QED BY <1>4, <2>1, <2>2, FS_Subset
  <2>4. Cardinality(before(e)) \in Nat /\ Cardinality(before(top)) \in Nat BY <1>4, <2>1
  <2>5. Limit \in Nat BY DEF Feed!FeedAssumption
  <2> HIDE DEF before
  <2> QED BY <1>3, <2>1, <2>3, <2>4, <2>5
<1> HIDE DEF before, page, due
<1>7. page \subseteq due /\ due \subseteq log BY <1>2, <1>3
<1>8. CASE page = {}
  <2>1. cursor' = cursor /\ got' = got
    BY <1>1, <1>8 DEF Feed!NextCursor, FeedInv
  <2>2. Feed!NothingMissed' BY <1>1, <2>1 DEF FeedInv, Feed!NothingMissed, Feed!Follows
  <2> QED BY <1>1, <2>1, <2>2 DEF FeedInv
<1>9. CASE page # {}
  <2> DEFINE top == Feed!Latest(page)
             T == {last - e.id : e \in page}
  <2>1. top \in page /\ \A d \in page : d.id <= top.id
    <3>1. last \in Nat /\ \A e \in page : e.id \in Nat /\ e.id <= last
      BY <1>5, <1>7 DEF FeedInv
    <3>2. T \in SUBSET Nat /\ T # {} BY <1>9, <3>1
    <3>3. PICK x \in T : \A y \in T : x <= y BY <3>2, Least
    <3>4. PICK e \in page : last - e.id = x BY <3>3
    <3>5. \A d \in page : d.id <= e.id
      <4> SUFFICES ASSUME NEW d \in page PROVE d.id <= e.id OBVIOUS
      <4>1. x <= last - d.id BY <3>3
      <4> QED BY <3>1, <3>4, <4>1
    <3> QED BY <3>5 DEF Feed!Latest
  <2> HIDE DEF top, T
  <2>2. Feed!NextCursor(f, page) = top.id BY <1>9 DEF Feed!NextCursor, top
  <2>3. top \in log /\ top.id \in Nat /\ top.id > cursor[f] BY <1>2, <1>5, <1>7, <2>1
  <2>4. /\ cursor' \in [Followers -> Nat] /\ cursor'[f] = top.id
        /\ \A g \in Followers : g # f => cursor'[g] = cursor[g]
    BY <1>1, <2>2, <2>3 DEF FeedInv
  <2>5. /\ got' \in [Followers -> SUBSET Nat] /\ got'[f] = got[f] \cup {e.id : e \in page}
        /\ \A g \in Followers : g # f => got'[g] = got[g]
    BY <1>1, <1>5, <1>7 DEF FeedInv
  <2>6. \A g \in Followers : cursor'[g] = 0 \/ \E e \in log' : e.id = cursor'[g]
    BY <1>1, <2>3, <2>4 DEF FeedInv
  <2>7. Feed!NothingMissed'
    <3> SUFFICES ASSUME NEW g \in Followers
                 PROVE  got'[g] = {e.id : e \in {d \in log : d.id <= cursor'[g]
                                                             /\ Feed!Follows(g, d)}}
      BY <1>1 DEF Feed!NothingMissed, Feed!Follows
    <3>1. got[g] = {e.id : e \in {d \in log : d.id <= cursor[g] /\ Feed!Follows(g, d)}}
      BY DEF FeedInv, Feed!NothingMissed
    <3>2. CASE g # f BY <2>4, <2>5, <3>1, <3>2
    <3>3. CASE g = f
      <4>1. {d \in log : d.id <= top.id /\ Feed!Follows(f, d)}
              = {d \in log : d.id <= cursor[f] /\ Feed!Follows(f, d)} \cup page
        <5>1. ASSUME NEW d \in log, d.id <= top.id, Feed!Follows(f, d)
              PROVE  d.id <= cursor[f] \/ d \in page
          <6>1. d.id \in Nat /\ cursor[f] \in Nat BY <1>5 DEF FeedInv
          <6>2. CASE d.id > cursor[f]
            <7>1. d \in due BY <1>2, <5>1, <6>2
            <7> QED BY <1>6, <2>1, <5>1, <7>1
          <6> QED BY <6>1, <6>2
        <5>2. ASSUME NEW d \in log, d.id <= cursor[f] PROVE d.id <= top.id
          <6>1. d.id \in Nat /\ cursor[f] \in Nat BY <1>5 DEF FeedInv
          <6> QED BY <2>3, <5>2, <6>1
        <5>3. \A d \in page : d \in log /\ d.id <= top.id /\ Feed!Follows(f, d)
          BY <1>2, <1>7, <2>1
        <5> QED BY <5>1, <5>2, <5>3
      <4> QED BY <2>4, <2>5, <3>1, <3>3, <4>1
    <3> QED BY <3>2, <3>3
  <2> QED BY <1>1, <2>4, <2>5, <2>6, <2>7 DEF FeedInv
<1> QED BY <1>8, <1>9

\* Every step of a writer or a follower keeps what holds of the log.
LEMMA FeedStep == Feed!FeedAssumption /\ FeedInv /\ [Feed!Next]_Feed!vars => FeedInv'
<1> SUFFICES ASSUME Feed!FeedAssumption, FeedInv, [Feed!Next]_Feed!vars PROVE FeedInv' OBVIOUS
<1>1. CASE \E w \in Writers : Feed!Insert(w) \/ Feed!Commit(w) \/ Feed!Rollback(w)
  BY <1>1, InsertKeeps, CommitKeeps, RollbackKeeps
<1>2. CASE \E f \in Followers : Feed!Poll(f) BY <1>2, PollKeeps
<1>3. CASE UNCHANGED Feed!vars
  BY <1>3 DEF Feed!vars, FeedInv, Feed!NothingMissed, Feed!Follows
<1> QED BY <1>1, <1>2, <1>3 DEF Feed!Next

\* For any writers, followers and pages: what follows the cursor is all that is new, over
\* open transactions, rollbacks and ids that are given out again.
THEOREM FeedCorrect ==
    ASSUME Feed!FeedAssumption
    PROVE  Feed!Spec => []Feed!NothingMissed
<1>1. Feed!Init => FeedInv BY FeedInit
<1>2. FeedInv /\ [Feed!Next]_Feed!vars => FeedInv' BY FeedStep
<1>3. FeedInv => Feed!NothingMissed BY DEF FeedInv
<1> QED BY <1>1, <1>2, <1>3, PTL DEF Feed!Spec

---------------------------------------------------------------------------
(* Publishing an article.                                                   *)

\* The attempt and the cache are records.
Shapes ==
    /\ run = [at |-> run.at, text |-> run.text, key |-> run.key, url |-> run.url,
              thumb |-> run.thumb, media |-> run.media]
    /\ cache = [images |-> cache.images, covers |-> cache.covers]

\* The places of an attempt after the check of the gate, after the article was read, and
\* after the image's address is known.
Imaged == {"cover", "material", "save", "add"}
Loaded == {"image", "upload"} \cup Imaged
Checked == {"load"} \cup Loaded

\* What an attempt holds is what the author's files are, while the author waits.
HoldsFiles ==
    /\ run.at \in Checked => summary = files["article"]
    /\ run.at \in Loaded => run.text = files["article"]
    /\ run.at = "upload" => run.key = files["image"]
    /\ run.at \in Imaged => run.url = files["image"]
    /\ Article!CacheTruthful

\* A draft is added for a task with a recorded one only if that, or the cover the attempt
\* would use, is gone.
AddsForGone ==
    /\ IsFiniteSet(drafts)
    /\ run.at = "add" => known \notin Article!DraftIds \/ run.thumb \notin covers

DraftsInv == Shapes /\ AddsForGone /\ (AuthorWaits => HoldsFiles)

\* A cardinality is the same one here and in the instance.
LEMMA ArticleSets == ASSUME NEW S PROVE Article!Cardinality(S) = Cardinality(S)
BY DEF Cardinality, Article!Cardinality

\* The two records keep their shape.
LEMMA ShapesNext ==
    ASSUME Shapes, [Article!Next]_Article!vars
    PROVE  Shapes'
<1> USE DEF Article!Goto, Article!Raise, Article!NoRun
<1>1. ASSUME UNCHANGED cache, \/ run' = Article!NoRun \/ UNCHANGED run
                              \/ \E there : run' = [run EXCEPT !.at = there]
      PROVE  Shapes'
  BY <1>1 DEF Shapes
<1>2. ASSUME Article!LoadArticle \/ Article!Image \/ Article!UploadImage \/ Article!Cover
             \/ Article!UploadCover \/ Article!SaveKnown \/ Article!Add
      PROVE  Shapes'
  <2>1. CASE Article!LoadArticle BY <2>1 DEF Shapes, Article!LoadArticle
  <2>2. CASE Article!Image BY <2>2 DEF Shapes, Article!Image
  <2>3. CASE Article!UploadImage BY <2>3 DEF Shapes, Article!UploadImage
  <2>4. CASE Article!Cover BY <2>4 DEF Shapes, Article!Cover
  <2>5. CASE Article!UploadCover BY <2>5 DEF Shapes, Article!UploadCover
  <2>6. CASE Article!SaveKnown BY <2>6 DEF Shapes, Article!SaveKnown
  <2>7. CASE Article!Add
    <3>1. CASE Article!CoverThere BY <2>7, <3>1 DEF Shapes, Article!Add
    <3>2. CASE ~Article!CoverThere BY <2>7, <3>2 DEF Shapes, Article!Add
    <3> QED BY <3>1, <3>2
  <2> QED BY <1>2, <2>1, <2>2, <2>3, <2>4, <2>5, <2>6, <2>7
<1>3. ASSUME \/ Article!Render \/ Article!Ask \/ Article!Approve \/ Article!GateAgain
             \/ Article!Check \/ Article!RecordId \/ Article!Edit \/ Article!DeleteRemote
             \/ Article!Fail \/ Article!MoveBack \/ Article!Finish \/ UNCHANGED Article!vars
      PROVE  Shapes'
  BY <1>1, <1>3 DEF Article!Render, Article!Ask, Article!Approve, Article!GateAgain,
                    Article!Check, Article!RecordId, Article!Edit, Article!DeleteRemote,
                    Article!Fail, Article!MoveBack, Article!Finish, Article!vars
<1> QED BY <1>2, <1>3 DEF Article!Next, Article!Step

\* The files are still while an attempt runs, so what it read stays as it is.
LEMMA HoldsFilesNext ==
    ASSUME Shapes, AuthorWaits, HoldsFiles, [Article!Next]_Article!vars
    PROVE  HoldsFiles'
<1> USE DEF Article!Goto, Article!Raise, Article!NoRun, Article!At, HoldsFiles, Checked, Loaded,
            Imaged, Shapes
<1>1. ASSUME Article!Edit PROVE HoldsFiles'
  BY <1>1 DEF Article!Edit, Article!Running, Article!CacheTruthful
<1>2. ASSUME Article!DeleteRemote \/ UNCHANGED Article!vars PROVE HoldsFiles'
  BY <1>2 DEF Article!DeleteRemote, Article!vars, Article!CacheTruthful
<1>3. ASSUME \/ Article!Fail \/ Article!MoveBack \/ Article!Finish \/ Article!Render
             \/ Article!Ask \/ Article!Approve
             \/ Article!GateAgain \/ Article!RecordId
      PROVE  HoldsFiles'
  BY <1>3 DEF Article!Fail, Article!MoveBack, Article!Finish, Article!Render, Article!Ask,
              Article!Approve, Article!GateAgain, Article!RecordId, Article!CacheTruthful
<1>4. ASSUME Article!Check PROVE HoldsFiles'
  BY <1>4 DEF Article!Check, Article!Refused, Article!CacheTruthful
<1>5. ASSUME Article!LoadArticle PROVE HoldsFiles'
  BY <1>5 DEF Article!LoadArticle, Article!CacheTruthful
<1>6. ASSUME Article!Image PROVE HoldsFiles'
  <2> DEFINE k == files["image"]
  <2>1. CASE k \in Article!ImageKeys
    <3>1. \E c \in cache.images : c.key = k BY <2>1 DEF Article!ImageKeys
    <3>2. Article!UrlOf(k) = k BY <3>1 DEF Article!UrlOf, Article!CacheTruthful
    <3>3. run' = [run EXCEPT !.at = "cover", !.url = k]
      BY <1>6, <2>1, <3>2 DEF Article!Image, Article!Digest
    <3> QED BY <1>6, <3>3 DEF Article!Image, Article!CacheTruthful
  <2>2. CASE k \notin Article!ImageKeys
    BY <1>6, <2>2 DEF Article!Image, Article!Digest, Article!CacheTruthful
  <2> QED BY <2>1, <2>2
<1>7. ASSUME Article!UploadImage PROVE HoldsFiles'
  BY <1>7 DEF Article!UploadImage, Article!CacheTruthful
<1>8. ASSUME Article!Cover PROVE HoldsFiles'
  BY <1>8 DEF Article!Cover, Article!CacheTruthful
<1>9. ASSUME Article!UploadCover PROVE HoldsFiles'
  BY <1>9 DEF Article!UploadCover, Article!CacheTruthful
<1>10. ASSUME Article!SaveKnown PROVE HoldsFiles'
  BY <1>10 DEF Article!SaveKnown, Article!CacheTruthful
<1>11. ASSUME Article!Add PROVE HoldsFiles'
  <2>1. UNCHANGED <<files, summary>> /\ cache'.images = cache.images
    <3>1. CASE Article!CoverThere BY <1>11, <3>1 DEF Article!Add
    <3>2. CASE ~Article!CoverThere BY <1>11, <3>2 DEF Article!Add
    <3> QED BY <3>1, <3>2
  <2>2. run'.at \in {"record", "idle"}
    <3>1. CASE Article!CoverThere BY <1>11, <3>1 DEF Article!Add
    <3>2. CASE ~Article!CoverThere BY <1>11, <3>2 DEF Article!Add
    <3> QED BY <3>1, <3>2
  <2> QED BY <2>1, <2>2 DEF Article!CacheTruthful
<1> QED BY <1>1, <1>2, <1>3, <1>4, <1>5, <1>6, <1>7, <1>8, <1>9, <1>10, <1>11
        DEF Article!Next, Article!Step

\* Only saving and adding put a draft into the back end, and only another upload a cover.
LEMMA DraftsOnlyKept ==
    ASSUME [Article!Next]_Article!vars,
           ~Article!SaveKnown, ~Article!Add, ~Article!UploadCover, ~Article!RecordId
    PROVE  drafts' \subseteq drafts /\ covers' \subseteq covers /\ known' = known
<1> USE DEF Article!remote
<1>1. CASE Article!Render \/ Article!Ask \/ Article!Approve \/ Article!GateAgain
  BY <1>1 DEF Article!Render, Article!Ask, Article!Approve, Article!GateAgain
<1>2. CASE Article!Check \/ Article!LoadArticle \/ Article!Image
  BY <1>2 DEF Article!Check, Article!LoadArticle, Article!Image
<1>3. CASE Article!UploadImage \/ Article!Cover
  BY <1>3 DEF Article!UploadImage, Article!Cover
<1>4. CASE Article!Edit \/ Article!Fail \/ Article!MoveBack \/ Article!Finish
  BY <1>4 DEF Article!Edit, Article!Fail, Article!MoveBack, Article!Finish
<1>5. CASE Article!DeleteRemote BY <1>5 DEF Article!DeleteRemote
<1>6. CASE UNCHANGED Article!vars BY <1>6 DEF Article!vars
<1> QED BY <1>1, <1>2, <1>3, <1>4, <1>5, <1>6 DEF Article!Next, Article!Step

\* The drafts a step saves are what the attempt holds.
LEMMA SavesWhatItHolds ==
    ASSUME Shapes, AuthorWaits, HoldsFiles, [Article!Next]_Article!vars
    PROVE  Article!DraftIsTheRendering
<1> SUFFICES ASSUME NEW d \in drafts' \ drafts
             PROVE  d.text = summary /\ d.image = files["image"]
  BY DEF Article!DraftIsTheRendering
<1>1. ASSUME NEW id, d = Article!Draft(id), run.at \in {"save", "add"}
      PROVE  d.text = summary /\ d.image = files["image"]
  BY <1>1 DEF Article!Draft, HoldsFiles, Checked, Loaded, Imaged
<1>2. Article!SaveKnown \/ Article!Add
  <2>1. CASE Article!UploadCover BY <2>1 DEF Article!UploadCover
  <2>2. CASE Article!RecordId BY <2>2 DEF Article!RecordId, Article!remote
  <2> QED BY <2>1, <2>2, DraftsOnlyKept
<1>3. CASE Article!SaveKnown
  BY <1>1, <1>3 DEF Article!SaveKnown, Article!At
<1>4. CASE Article!Add
  BY <1>1, <1>4 DEF Article!Add, Article!AddsDirectly, Article!At
<1> QED BY <1>2, <1>3, <1>4

\* An added draft is one more only for a recorded draft that is gone.
LEMMA AddsForGoneNext ==
    ASSUME Shapes, AddsForGone, [Article!Next]_Article!vars
    PROVE  AddsForGone' /\ Article!KnownIsUpdated
<1> USE DEF Article!Goto, Article!Raise, Article!NoRun, Article!At
<1> DEFINE Goal == AddsForGone' /\ Article!KnownIsUpdated
           Finite == IsFiniteSet(drafts') /\ Cardinality(drafts') \in Nat
                     /\ Cardinality(drafts) \in Nat
<1>1. IsFiniteSet(drafts) /\ Cardinality(drafts) \in Nat
  BY FS_CardinalityType DEF AddsForGone
<1>2. ASSUME drafts' \subseteq drafts, covers' \subseteq covers, known' = known,
             run' = run \/ run'.at # "add"
      PROVE  Goal
  <2>1. /\ IsFiniteSet(drafts') /\ Cardinality(drafts') <= Cardinality(drafts)
        /\ Cardinality(drafts') \in Nat
    BY <1>1, <1>2, FS_Subset, FS_CardinalityType
  <2>2. Article!KnownIsUpdated
    BY <1>1, <2>1, ArticleSets DEF Article!KnownIsUpdated
  <2>3. AddsForGone' BY <1>2, <2>1 DEF AddsForGone, Article!DraftIds
  <2> QED BY <2>2, <2>3
<1>3. ASSUME Article!SaveKnown PROVE Goal
  <2>1. CASE Article!UpdateFails
    <3>1. /\ run' = [run EXCEPT !.at = "add"]
          /\ UNCHANGED <<drafts, covers, known>>
      BY <1>3, <2>1 DEF Article!SaveKnown
    <3>2. known \notin Article!DraftIds \/ run.thumb \notin covers
      BY <2>1 DEF Article!UpdateFails, Article!DraftThere, Article!CoverThere
    <3>3. run'.thumb = run.thumb BY <3>1 DEF Shapes
    <3>4. AddsForGone' BY <1>1, <3>1, <3>2, <3>3 DEF AddsForGone, Article!DraftIds
    <3>5. Article!KnownIsUpdated BY <1>1, <3>1, ArticleSets DEF Article!KnownIsUpdated
    <3> QED BY <3>4, <3>5
  <2>2. CASE ~Article!UpdateFails
    <3> DEFINE kept == {d \in drafts : d.id # known}
    <3>1. /\ drafts' = kept \cup {Article!Draft(known)}
          /\ run' = [run EXCEPT !.at = "record", !.media = known]
      BY <1>3, <2>2 DEF Article!SaveKnown
    <3>2. PICK d \in drafts : d.id = known
      BY <2>2 DEF Article!UpdateFails, Article!DraftThere, Article!DraftIds
    <3>3. IsFiniteSet(drafts \ {d}) /\ Cardinality(drafts \ {d}) = Cardinality(drafts) - 1
      BY <1>1, <3>2, FS_RemoveElement
    <3>4. kept \subseteq drafts \ {d} BY <3>2
    <3>5. /\ IsFiniteSet(kept) /\ Cardinality(kept) <= Cardinality(drafts) - 1
          /\ Cardinality(kept) \in Nat
      BY <3>3, <3>4, FS_Subset, FS_CardinalityType
    <3> HIDE DEF kept
    <3>6. IsFiniteSet(drafts') /\ Cardinality(drafts') <= Cardinality(kept) + 1
          /\ Cardinality(drafts') \in Nat
      <4>1. /\ IsFiniteSet(kept \cup {Article!Draft(known)})
            /\ Cardinality(kept \cup {Article!Draft(known)}) =
                  IF Article!Draft(known) \in kept THEN Cardinality(kept)
                  ELSE Cardinality(kept) + 1
        BY <3>5, FS_AddElement
      <4> QED BY <3>1, <3>5, <4>1
    <3>7. Article!KnownIsUpdated
      BY <1>1, <3>5, <3>6, ArticleSets DEF Article!KnownIsUpdated
    <3>8. run'.at = "record" BY <3>1 DEF Shapes
    <3> QED BY <3>6, <3>7, <3>8 DEF AddsForGone
  <2> QED BY <2>1, <2>2
<1>4. ASSUME Article!Add PROVE Goal
  <2>1. CASE ~Article!CoverThere
    BY <1>2, <1>4, <2>1 DEF Article!Add
  <2>2. CASE Article!CoverThere
    <3>1. known # 0 => known \notin Article!DraftIds
      BY <1>4, <2>2 DEF Article!Add, Article!AddsDirectly, Article!CoverThere, AddsForGone
    <3>2. /\ drafts' = drafts \cup {Article!Draft(ids)}
          /\ run' = [run EXCEPT !.at = "record", !.media = ids]
          /\ known' = known
      BY <1>4, <2>2 DEF Article!Add
    <3>3. run'.at = "record" BY <3>2 DEF Shapes
    <3>4. IsFiniteSet(drafts') BY <1>1, <3>2, FS_AddElement
    <3> QED BY <3>1, <3>3, <3>4 DEF AddsForGone, Article!KnownIsUpdated
  <2> QED BY <2>1, <2>2
<1>5. ASSUME Article!UploadCover PROVE Goal
  <2>1. run'.at = "save" /\ drafts' = drafts /\ known' = known
    BY <1>5 DEF Article!UploadCover, Shapes
  <2>2. Article!KnownIsUpdated BY <1>1, <2>1, ArticleSets DEF Article!KnownIsUpdated
  <2> QED BY <1>1, <2>1, <2>2 DEF AddsForGone
<1>6. ASSUME Article!RecordId PROVE Goal
  <2>1. run'.at = "recorded" /\ drafts' = drafts
    BY <1>6 DEF Article!RecordId, Article!remote, Shapes
  <2>2. Article!KnownIsUpdated BY <1>1, <2>1, ArticleSets DEF Article!KnownIsUpdated
  <2> QED BY <1>1, <2>1, <2>2 DEF AddsForGone
<1>7. ASSUME \/ Article!Render \/ Article!Ask \/ Article!Approve \/ Article!GateAgain
             \/ Article!Check \/ Article!LoadArticle \/ Article!Image \/ Article!UploadImage
             \/ Article!Cover \/ Article!Edit \/ Article!DeleteRemote
             \/ Article!Fail \/ Article!MoveBack \/ Article!Finish \/ UNCHANGED Article!vars
      PROVE  Goal
  <2>1. ~Article!SaveKnown /\ ~Article!Add /\ ~Article!UploadCover /\ ~Article!RecordId =>
          drafts' \subseteq drafts /\ covers' \subseteq covers /\ known' = known
    BY DraftsOnlyKept
  <2>2. run' = run \/ run'.at # "add"
    <3>1. CASE Article!Render \/ Article!Ask \/ Article!Approve \/ Article!GateAgain
      BY <3>1 DEF Article!Render, Article!Ask, Article!Approve, Article!GateAgain, Shapes
    <3>2. CASE Article!Check BY <3>2 DEF Article!Check, Shapes
    <3>6. CASE Article!LoadArticle BY <3>6 DEF Article!LoadArticle, Shapes
    <3>7. CASE Article!UploadImage BY <3>7 DEF Article!UploadImage, Shapes
    <3>3. CASE Article!Image BY <3>3 DEF Article!Image, Shapes
    <3>4. CASE Article!Cover BY <3>4 DEF Article!Cover, Shapes
    <3>5. CASE \/ Article!Edit \/ Article!DeleteRemote \/ Article!Fail
               \/ Article!MoveBack \/ UNCHANGED Article!vars
      BY <3>5 DEF Article!Edit, Article!DeleteRemote, Article!Fail, Article!MoveBack,
                  Article!vars
    <3>8. CASE Article!Finish BY <3>8 DEF Article!Finish, Shapes
    <3> QED BY <1>7, <3>1, <3>2, <3>3, <3>4, <3>5, <3>6, <3>7, <3>8
  <2> HIDE DEF Goal
  <2>3. CASE Article!SaveKnown \/ Article!Add \/ Article!UploadCover \/ Article!RecordId
    BY <1>3, <1>4, <1>5, <1>6, <2>3
  <2> QED BY <1>2, <2>1, <2>2, <2>3
<1> HIDE DEF Goal
<1>8. Goal BY <1>3, <1>4, <1>5, <1>6, <1>7 DEF Article!Next, Article!Step
<1> QED BY <1>8 DEF Goal

\* At first no attempt is under way.
LEMMA DraftsInit == Article!Init => DraftsInv
<1> SUFFICES ASSUME Article!Init PROVE DraftsInv OBVIOUS
<1>1. Shapes BY DEF Article!Init, Article!NoRun, Shapes
<1>2. AddsForGone
  <2>1. IsFiniteSet({}) /\ IsFiniteSet({Article!Earlier}) BY FS_EmptySet, FS_Singleton
  <2>2. drafts = {} \/ drafts = {Article!Earlier} BY DEF Article!Init
  <2>3. run.at # "add" BY DEF Article!Init, Article!NoRun
  <2> QED BY <2>1, <2>2, <2>3 DEF AddsForGone
<1>3. HoldsFiles
  BY DEF Article!Init, Article!NoRun, HoldsFiles, Checked, Loaded, Imaged,
         Article!CacheTruthful
<1> QED BY <1>1, <1>2, <1>3 DEF DraftsInv

\* Every step of an attempt, the author or the service keeps what holds of the drafts.
LEMMA DraftsStep ==
    DraftsInv /\ [Article!Next]_Article!vars =>
        DraftsInv' /\ [Article!DraftsHold]_Article!vars
<1>2. DraftsInv /\ [Article!Next]_Article!vars => DraftsInv'
  BY ShapesNext, HoldsFilesNext, AddsForGoneNext DEF DraftsInv
<1>3. DraftsInv /\ DraftsInv' /\ [Article!Next]_Article!vars =>
        [Article!DraftsHold]_Article!vars
  BY AddsForGoneNext, SavesWhatItHolds DEF DraftsInv, HoldsFiles, Article!DraftsHold
<1> QED BY <1>2, <1>3

\* A recorded draft is updated, and a second one added only when the recorded one is gone,
\* whatever is edited, deleted or lost meanwhile; and what is saved is the text the person
\* was asked about and the current image, if the author leaves a running attempt alone.
THEOREM DraftsCorrect == Article!Spec => [][Article!DraftsHold]_Article!vars
<1>1. Article!Init => DraftsInv BY DraftsInit
<1>2. DraftsInv /\ [Article!Next]_Article!vars =>
        DraftsInv' /\ [Article!DraftsHold]_Article!vars
  BY DraftsStep
<1> QED BY <1>1, <1>2, PTL DEF Article!Spec

---------------------------------------------------------------------------
(* The rounds of a run and of a daemon.                                     *)

LoopRow == [wf : DOMAIN Workflows, step : Name, retry : {"none", "now", "later", "past"},
            status : {"queued", "running", "failed", "completed", "manual_required"},
            count : 0 .. MaxRetries]

\* The jobs the pool has: in its queue, or in one of its threads.
InQueue == {queue[i] : i \in DOMAIN queue}
InPool == InQueue \cup running

\* The variables have their types, and a phase what belongs to it.
RowsTyped ==
    tasks \in Seq(LoopRow) /\ passed \in Seq(Seq(Name)) /\ Len(passed) = Len(tasks)

LoopShapes ==
    /\ RowsTyped
    /\ old \subseteq Loop!Id /\ listed \subseteq Loop!Id /\ running \subseteq Loop!Id
    /\ pending \subseteq Loop!Id /\ raised \subseteq pending /\ inflight \subseteq Loop!Id
    /\ queue \in Seq(Loop!Id) /\ threads \in 0 .. Size /\ Cardinality(running) =< threads
    /\ load \in [Name -> Nat] /\ progressed \in Nat /\ rounds \in Nat
    /\ raises \in Nat /\ again \in BOOLEAN

LoopPhases ==
    /\ phase \in Loop!Phases
    /\ ending \in {"", "stopped", "capped", "raised", "idle"}
    /\ ending # "" <=> phase \in {"closing", "over"}
    /\ ending \in {"idle", "capped"} => ~Resident
    /\ Resident => phase # "drain"
    /\ ~Resident => phase # "wait"
    /\ phase # "tick" => listed = {}
    /\ phase = "over" => running = {} /\ (queue = << >> \/ threads = 0)

\* A job is in the pool once, its task is executing and its entry in flight; a listed task
\* is queued.
JobsOnce ==
    /\ \A i, j \in DOMAIN queue : queue[i] = queue[j] => i = j
    /\ InQueue \cap running = {}
    /\ \A t \in InPool : tasks[t].status = "running" /\ t \in inflight
    /\ \A t \in listed : tasks[t].status = "queued"

\* A row stands at the step after those it passed, and passed them in their order.
OnItsWay(r, done) ==
    LET steps == Workflows[r.wf] IN
    IF r.status = "completed"
    THEN done = steps
    ELSE /\ Len(done) < Len(steps) /\ r.step = steps[Len(done) + 1]
         /\ \A i \in 1 .. Len(done) : done[i] = steps[i]

StepsKept == \A t \in Loop!Id : OnItsWay(tasks[t], passed[t])

\* The set is the library's.
LEMMA LoopSets == ASSUME NEW S PROVE Loop!Cardinality(S) = Cardinality(S)
BY DEF Cardinality, Loop!Cardinality

\* The first numbers are finitely many.
LEMMA FirstNumbers ==
    ASSUME NEW n \in Nat
    PROVE  IsFiniteSet(1 .. n) /\ Cardinality(1 .. n) = n
<1>1. 1 \in Int /\ n \in Int OBVIOUS
<1>2. IsFiniteSet(1 .. n) /\ Cardinality(1 .. n) = IF 1 > n THEN 0 ELSE n - 1 + 1
  BY ONLY <1>1, FS_Interval
<1>3. (IF 1 > n THEN 0 ELSE n - 1 + 1) = n OBVIOUS
<1> QED BY <1>2, <1>3

\* A function on the first numbers is a sequence.
LEMMA FunctionIsSeq ==
    ASSUME NEW R, NEW n \in Nat, NEW f \in [1 .. n -> R]
    PROVE  f \in Seq(R) /\ Len(f) = n
OBVIOUS

\* The elements of two sequences joined.
LEMMA JoinIs ==
    ASSUME NEW S, NEW a \in Seq(S), NEW b \in Seq(S)
    PROVE  /\ a \o b \in Seq(S) /\ Len(a \o b) = Len(a) + Len(b)
           /\ \A u \in 1 .. Len(a) + Len(b) :
                 (a \o b)[u] = IF u <= Len(a) THEN a[u] ELSE b[u - Len(a)]
BY ConcatProperties

\* In a workflow without a repeated name the place of a step is where it stands.
LEMMA PlaceIs ==
    ASSUME Loop!RoundsAssumption, Loop!NamedOnce,
           NEW w \in DOMAIN Workflows, NEW i \in 1 .. Len(Workflows[w])
    PROVE  Loop!Place(w, Workflows[w][i]) = i
<1>1. Workflows[w] \in Seq(Name) /\ DOMAIN Workflows[w] = 1 .. Len(Workflows[w])
  BY DEF Loop!RoundsAssumption
<1>2. \A j \in DOMAIN Workflows[w] : Workflows[w][j] = Workflows[w][i] => j = i
  BY <1>1 DEF Loop!NamedOnce
<1>3. \A j \in 1 .. (i - 1) : j \in DOMAIN Workflows[w] /\ j # i BY <1>1
<1>4. \A j \in DOMAIN Workflows[w] :
        /\ Workflows[w][j] = Workflows[w][i]
        /\ \A k \in 1 .. (j - 1) : Workflows[w][k] # Workflows[w][i]
        <=> j = i
  BY <1>1, <1>2, <1>3
<1> QED BY <1>1, <1>4 DEF Loop!Place

\* To advance is to pass the step at hand.
LEMMA AdvanceKeeps ==
    ASSUME Loop!RoundsAssumption, Loop!NamedOnce, NEW r \in LoopRow, NEW done \in Seq(Name),
           OnItsWay(r, done), r.status # "completed"
    PROVE  LET next == Loop!Advanced(r)
           IN  /\ next \in LoopRow /\ OnItsWay(next, Append(done, r.step))
               /\ next.status \in {"queued", "completed"} /\ next.retry = "none"
<1> DEFINE steps == Workflows[r.wf]
           n == Len(done) + 1
<1>1. r.wf \in DOMAIN Workflows /\ steps \in Seq(Name) /\ MaxRetries \in Nat /\ r.step \in Name
  BY DEF Loop!RoundsAssumption, LoopRow
<1>2. n \in 1 .. Len(steps) /\ r.step = steps[n] /\ \A i \in 1 .. Len(done) : done[i] = steps[i]
  BY <1>1 DEF OnItsWay
<1>3. Loop!Place(r.wf, r.step) = n BY <1>1, <1>2, PlaceIs
<1>4. /\ Append(done, r.step) \in Seq(Name) /\ Len(Append(done, r.step)) = n
      /\ \A i \in 1 .. n : Append(done, r.step)[i] = steps[i]
  BY <1>1, <1>2, AppendProperties
<1> HIDE DEF steps
<1>5. CASE n >= Len(steps)
  <2>1. Loop!Advanced(r) = [r EXCEPT !.status = "completed", !.retry = "none"]
    BY <1>3, <1>5 DEF Loop!Advanced, steps
  <2>2. n = Len(steps) BY <1>1, <1>2, <1>5
  <2>3. Append(done, r.step) = steps BY <1>1, <1>4, <2>2, SeqEqual
  <2> QED BY <2>1, <2>3 DEF LoopRow, OnItsWay, steps
<1>6. CASE ~(n >= Len(steps))
  <2>1. Loop!Advanced(r) = [r EXCEPT !.step = steps[n + 1], !.status = "queued",
                                     !.retry = "none", !.count = 0]
    BY <1>3, <1>6 DEF Loop!Advanced, steps
  <2>2. n + 1 \in 1 .. Len(steps) /\ steps[n + 1] \in Name BY <1>1, <1>2, <1>6
  <2>3. [r EXCEPT !.step = steps[n + 1], !.status = "queued", !.retry = "none", !.count = 0]
          \in LoopRow
    <3>1. 0 \in 0 .. MaxRetries BY <1>1
    <3> QED BY <2>2, <3>1 DEF LoopRow
  <2>4. n < Len(steps) BY <1>1, <1>2, <1>6
  <2> QED BY <1>2, <1>4, <2>1, <2>3, <2>4 DEF OnItsWay, LoopRow, steps
<1> QED BY <1>5, <1>6

\* A task that is created stands at the first step of its workflow.
LEMMA NewRowKept ==
    ASSUME Loop!RoundsAssumption, NEW w \in DOMAIN Workflows
    PROVE  Loop!Row(w) \in LoopRow /\ OnItsWay(Loop!Row(w), << >>) /\ Loop!Row(w).status = "queued"
<1>1. Workflows[w] \in Seq(Name) /\ Workflows[w] # << >> /\ MaxRetries \in Nat
  BY DEF Loop!RoundsAssumption
<1>2. Len(Workflows[w]) > 0 /\ Workflows[w][1] \in Name BY <1>1, EmptySeq, ElementOfSeq
<1>3. 0 \in 0 .. MaxRetries BY <1>1
<1>4. Len(<< >>) = 0 OBVIOUS
<1> QED BY <1>2, <1>3, <1>4 DEF Loop!Row, LoopRow, OnItsWay

\* What the requeuing of some tasks, by a tick or a reclaim, makes of the rows.
RowsQueued(c) == [t \in Loop!Id |-> IF t \in c
                                  THEN [tasks[t] EXCEPT !.status = "queued", !.retry = "none"]
                                  ELSE tasks[t]]

\* They keep their types and their ways.
LEMMA RowsQueuedIs ==
    ASSUME LoopShapes, NEW c, \A t \in c : tasks[t].status # "completed"
    PROVE  /\ RowsQueued(c) \in Seq(LoopRow) /\ Len(RowsQueued(c)) = Len(tasks)
           /\ \A t \in Loop!Id : \A done :
                 OnItsWay(tasks[t], done) => OnItsWay(RowsQueued(c)[t], done)
<1>1. Len(tasks) \in Nat /\ \A t \in Loop!Id : tasks[t] \in LoopRow
  BY ElementOfSeq, LenProperties DEF LoopShapes, RowsTyped, Loop!Id
<1>2. \A t \in Loop!Id : [tasks[t] EXCEPT !.status = "queued", !.retry = "none"] \in LoopRow
  BY <1>1 DEF LoopRow
<1>3. RowsQueued(c) \in [1 .. Len(tasks) -> LoopRow]
  BY <1>1, <1>2 DEF RowsQueued, Loop!Id
<1>4. RowsQueued(c) \in Seq(LoopRow) /\ Len(RowsQueued(c)) = Len(tasks) BY <1>1, <1>3, FunctionIsSeq
<1>5. ASSUME NEW t \in Loop!Id, NEW done, OnItsWay(tasks[t], done)
      PROVE  OnItsWay(RowsQueued(c)[t], done)
  <2>1. tasks[t] \in LoopRow BY <1>1
  <2>2. t \in c => RowsQueued(c)[t] = [tasks[t] EXCEPT !.status = "queued", !.retry = "none"]
    BY DEF RowsQueued
  <2>3. t \notin c => RowsQueued(c)[t] = tasks[t] BY DEF RowsQueued
  <2>4. t \in c => /\ RowsQueued(c)[t].wf = tasks[t].wf /\ RowsQueued(c)[t].step = tasks[t].step
                   /\ RowsQueued(c)[t].status = "queued"
    BY <2>1, <2>2 DEF LoopRow
  <2> QED BY <1>5, <2>3, <2>4 DEF OnItsWay
<1> QED BY <1>4, <1>5

\* What writing one row makes of the rows.
LEMMA OneRowIs ==
    ASSUME LoopShapes, NEW t \in Loop!Id, NEW r \in LoopRow
    PROVE  LET rows == [tasks EXCEPT ![t] = r]
           IN  /\ rows \in Seq(LoopRow) /\ Len(rows) = Len(tasks)
               /\ \A u \in Loop!Id : rows[u] = IF u = t THEN r ELSE tasks[u]
BY ExceptSeq DEF LoopShapes, RowsTyped, Loop!Id

\* The rows that a claim, a job that did not succeed or a delay leaves in their place.
Stays(t) ==
    /\ passed' = passed
    /\ \E r \in LoopRow : /\ tasks' = [tasks EXCEPT ![t] = r]
                          /\ r.wf = tasks[t].wf /\ r.step = tasks[t].step
                          /\ r.status = "completed" <=> tasks[t].status = "completed"

\* A claim, a deferral, a failure and the end of a delay do.
LEMMA StayingSteps ==
    ASSUME Loop!RoundsAssumption, LoopShapes, JobsOnce, NEW t \in Loop!Id
    PROVE  /\ Loop!Claim(t) \/ Loop!ThreadRefused(t) \/ Loop!JobDefers(t) \/ Loop!JobFails(t)
                \/ Loop!DelayEnds(t) => Stays(t)
<1> DEFINE r == tasks[t]
<1>1. r \in LoopRow BY ElementOfSeq DEF LoopShapes, RowsTyped, Loop!Id
<1>2. r.status \in {"queued", "running", "failed", "completed", "manual_required"}
      /\ r.count \in 0 .. MaxRetries /\ MaxRetries \in Nat
  BY <1>1 DEF LoopRow, Loop!RoundsAssumption
<1>3. t \in listed => r.status = "queued" BY DEF JobsOnce
<1>4. t \in running => r.status = "running" BY DEF JobsOnce, InPool
<1>5. ASSUME Loop!Claim(t) \/ Loop!ThreadRefused(t) PROVE Stays(t)
  <2> DEFINE new == [r EXCEPT !.status = "running", !.retry = "none"]
  <2>1. new \in LoopRow /\ new.wf = r.wf /\ new.step = r.step /\ new.status = "running"
    BY <1>1 DEF LoopRow
  <2>2. tasks' = [tasks EXCEPT ![t] = new] /\ passed' = passed /\ t \in listed
    BY <1>5 DEF Loop!Claim, Loop!ThreadRefused, Loop!Claims, Loop!history
  <2> HIDE DEF new
  <2> QED BY <1>3, <2>1, <2>2 DEF Stays
<1>6. ASSUME Loop!JobDefers(t) PROVE Stays(t)
  <2>1. PICK o \in {"defer", "delay"} :
          tasks' = [tasks EXCEPT ![t].status = "queued",
                                 ![t].retry = IF o = "delay" THEN "later" ELSE "none"]
    BY <1>6 DEF Loop!JobDefers
  <2> DEFINE new == [r EXCEPT !.status = "queued",
                              !.retry = IF o = "delay" THEN "later" ELSE "none"]
  <2>2. new \in LoopRow /\ new.wf = r.wf /\ new.step = r.step /\ new.status = "queued"
    BY <1>1 DEF LoopRow
  <2>3. tasks' = [tasks EXCEPT ![t] = new] BY <2>1
  <2>4. passed' = passed /\ t \in running BY <1>6 DEF Loop!JobDefers, Loop!JobOver
  <2> HIDE DEF new
  <2> QED BY <1>4, <2>2, <2>3, <2>4 DEF Stays
<1>7. ASSUME Loop!JobFails(t) PROVE Stays(t)
  <2>1. PICK o \in {"fail", "failLater"} :
          tasks' = [tasks EXCEPT ![t] = Loop!Failed(tasks[t], o)]
    BY <1>7 DEF Loop!JobFails
  <2> DEFINE counted == [r EXCEPT !.status = "failed", !.count = @ + 1,
                                  !.retry = IF o = "failLater" THEN "later" ELSE "now"]
             manual == [r EXCEPT !.status = "manual_required"]
             new == IF r.count < MaxRetries THEN counted ELSE manual
  <2>2. /\ r.count < MaxRetries => counted \in LoopRow
        /\ counted.wf = r.wf /\ counted.step = r.step /\ counted.status = "failed"
    <3>1. r.count < MaxRetries => r.count + 1 \in 0 .. MaxRetries BY <1>2
    <3> QED BY <1>1, <3>1 DEF LoopRow
  <2>3. manual \in LoopRow /\ manual.wf = r.wf /\ manual.step = r.step
        /\ manual.status = "manual_required"
    BY <1>1 DEF LoopRow
  <2>4. tasks' = [tasks EXCEPT ![t] = new]
    BY <2>1 DEF Loop!Failed
  <2>5. passed' = passed /\ t \in running BY <1>7 DEF Loop!JobFails, Loop!JobOver
  <2> HIDE DEF counted, manual
  <2>6. new \in LoopRow /\ new.wf = r.wf /\ new.step = r.step /\ new.status # "completed"
    BY <2>2, <2>3
  <2> HIDE DEF new
  <2> QED BY <1>4, <2>4, <2>5, <2>6 DEF Stays
<1>8. ASSUME Loop!DelayEnds(t) PROVE Stays(t)
  <2> DEFINE new == [r EXCEPT !.retry = "past"]
  <2>1. new \in LoopRow /\ new.wf = r.wf /\ new.step = r.step /\ new.status = r.status
    BY <1>1 DEF LoopRow
  <2>2. tasks' = [tasks EXCEPT ![t] = new] /\ passed' = passed
    BY <1>8 DEF Loop!DelayEnds, Loop!history
  <2> HIDE DEF new
  <2> QED BY <2>1, <2>2 DEF Stays
<1> QED BY <1>5, <1>6, <1>7, <1>8

\* Every other step leaves the rows as they are, requeues some, passes one step or skips it.
LEMMA StepKinds ==
    ASSUME Loop!RoundsAssumption, LoopShapes, JobsOnce, [Loop!Next]_Loop!vars
    PROVE  \/ UNCHANGED <<tasks, passed>>
           \/ Loop!BeginTick \/ Loop!NextRound
           \/ \E t \in Loop!Id : Stays(t) \/ Loop!Skip(t) \/ Loop!JobDone(t)
<1> USE DEF Loop!history
<1>1. CASE Loop!CapReached \/ Loop!EndTick \/ Loop!DrainRaises \/ Loop!Drained \/ Loop!Release
  BY <1>1 DEF Loop!CapReached, Loop!EndTick, Loop!DrainRaises, Loop!Drained, Loop!Release
<1>2. CASE Loop!JobStart \/ Loop!Stop BY <1>2 DEF Loop!JobStart, Loop!Stop
<1>3. ASSUME NEW t \in Loop!Id, \/ Loop!PassOver(t) \/ Loop!HeartbeatAges(t) \/ Loop!JobRaises(t)
      PROVE  UNCHANGED <<tasks, passed>>
  BY <1>3 DEF Loop!PassOver, Loop!HeartbeatAges, Loop!JobRaises
<1>4. ASSUME NEW t \in Loop!Id,
             \/ Loop!Claim(t) \/ Loop!ThreadRefused(t) \/ Loop!JobDefers(t) \/ Loop!JobFails(t)
             \/ Loop!DelayEnds(t)
      PROVE  Stays(t)
  BY <1>4, StayingSteps
<1>5. CASE UNCHANGED Loop!vars BY <1>5 DEF Loop!vars
<1> QED BY <1>1, <1>2, <1>3, <1>4, <1>5 DEF Loop!Next, Loop!Schedule, Loop!JobEnds

\* What a success makes of the rows: its task advances, and its children are created.
LEMMA SuccessIs ==
    ASSUME Loop!RoundsAssumption, Loop!NamedOnce, LoopShapes, JobsOnce, StepsKept,
           NEW t \in Loop!Id, Loop!JobDone(t)
    PROVE  /\ tasks' \in Seq(LoopRow) /\ passed' \in Seq(Seq(Name))
           /\ Len(tasks') = Len(tasks) + Len(Spawns[tasks[t].step])
           /\ Len(passed') = Len(tasks')
           /\ \A u \in Loop!Id :
                 /\ tasks'[u] = IF u = t THEN Loop!Advanced(tasks[t]) ELSE tasks[u]
                 /\ passed'[u] = IF u = t THEN Append(passed[t], tasks[t].step) ELSE passed[u]
           /\ \A u \in 1 .. Len(tasks') : u > Len(tasks) =>
                 /\ passed'[u] = << >>
                 /\ \E w \in DOMAIN Workflows : tasks'[u] = Loop!Row(w)
<1> DEFINE r == tasks[t]
           born == Spawns[r.step]
           rows == [tasks EXCEPT ![t] = Loop!Advanced(r)]
           steps == [passed EXCEPT ![t] = Append(passed[t], r.step)]
           newRows == [i \in DOMAIN born |-> Loop!Row(born[i])]
           newSteps == [i \in DOMAIN born |-> << >>]
<1>1. tasks' = rows \o newRows /\ passed' = steps \o newSteps BY DEF Loop!JobDone
<1>2. /\ r \in LoopRow /\ passed[t] \in Seq(Name) /\ t \in 1 .. Len(passed)
      /\ Len(tasks) \in Nat /\ Loop!Id = 1 .. Len(tasks)
  BY ElementOfSeq, LenProperties DEF LoopShapes, RowsTyped, Loop!Id
<1>3. r.status # "completed" /\ OnItsWay(r, passed[t]) /\ r.step \in Name
  BY <1>2 DEF JobsOnce, InPool, StepsKept, Loop!JobDone, Loop!JobOver, LoopRow
<1>4. Loop!Advanced(r) \in LoopRow /\ Append(passed[t], r.step) \in Seq(Name)
  BY <1>2, <1>3, AdvanceKeeps, AppendProperties
<1>5. /\ rows \in Seq(LoopRow) /\ Len(rows) = Len(tasks)
      /\ \A u \in Loop!Id : rows[u] = IF u = t THEN Loop!Advanced(r) ELSE tasks[u]
  BY <1>4, OneRowIs
<1>6. /\ steps \in Seq(Seq(Name)) /\ Len(steps) = Len(tasks)
      /\ \A u \in Loop!Id : steps[u] = IF u = t THEN Append(passed[t], r.step) ELSE passed[u]
  BY <1>2, <1>4, ExceptSeq DEF LoopShapes, RowsTyped
<1>7. born \in Seq(DOMAIN Workflows) /\ Len(born) \in Nat /\ DOMAIN born = 1 .. Len(born)
  BY <1>3, LenProperties DEF Loop!RoundsAssumption
<1>8. \A i \in 1 .. Len(born) : born[i] \in DOMAIN Workflows BY <1>7, ElementOfSeq
<1>9. newRows \in Seq(LoopRow) /\ Len(newRows) = Len(born)
  <2>1. newRows \in [1 .. Len(born) -> LoopRow] BY <1>7, <1>8, NewRowKept
  <2> QED BY <1>7, <2>1, FunctionIsSeq
<1>10. newSteps \in Seq(Seq(Name)) /\ Len(newSteps) = Len(born)
  <2>1. newSteps \in [1 .. Len(born) -> Seq(Name)] BY <1>7, EmptySeq
  <2> QED BY <1>7, <2>1, FunctionIsSeq
<1>11. \A i \in 1 .. Len(born) : newRows[i] = Loop!Row(born[i]) /\ newSteps[i] = << >>
  BY <1>7
<1> HIDE DEF rows, steps, newRows, newSteps, born
<1>12. /\ rows \o newRows \in Seq(LoopRow) /\ Len(rows \o newRows) = Len(tasks) + Len(born)
       /\ \A u \in 1 .. Len(tasks) + Len(born) :
             (rows \o newRows)[u] = IF u <= Len(tasks) THEN rows[u] ELSE newRows[u - Len(tasks)]
  <2>1. /\ rows \o newRows \in Seq(LoopRow) /\ Len(rows \o newRows) = Len(rows) + Len(newRows)
        /\ \A u \in 1 .. Len(rows) + Len(newRows) :
              (rows \o newRows)[u] = IF u <= Len(rows) THEN rows[u] ELSE newRows[u - Len(rows)]
    <3>1. rows \in Seq(LoopRow) BY <1>5
    <3>2. newRows \in Seq(LoopRow) BY <1>9
    <3> QED BY ONLY <3>1, <3>2, JoinIs
  <2>2. Len(rows) = Len(tasks) /\ Len(newRows) = Len(born) BY <1>5, <1>9
  <2> QED BY ONLY <2>1, <2>2
<1>13. /\ steps \o newSteps \in Seq(Seq(Name)) /\ Len(steps \o newSteps) = Len(tasks) + Len(born)
       /\ \A u \in 1 .. Len(tasks) + Len(born) :
             (steps \o newSteps)[u] = IF u <= Len(tasks) THEN steps[u] ELSE newSteps[u - Len(tasks)]
  <2>1. /\ steps \o newSteps \in Seq(Seq(Name))
        /\ Len(steps \o newSteps) = Len(steps) + Len(newSteps)
        /\ \A u \in 1 .. Len(steps) + Len(newSteps) :
              (steps \o newSteps)[u] =
                  IF u <= Len(steps) THEN steps[u] ELSE newSteps[u - Len(steps)]
    <3>1. steps \in Seq(Seq(Name)) BY <1>6
    <3>2. newSteps \in Seq(Seq(Name)) BY <1>10
    <3> QED BY ONLY <3>1, <3>2, JoinIs
  <2>2. Len(steps) = Len(tasks) /\ Len(newSteps) = Len(born) BY <1>6, <1>10
  <2> QED BY ONLY <2>1, <2>2
<1>14. \A u \in Loop!Id : /\ tasks'[u] = rows[u] /\ passed'[u] = steps[u]
  <2>1. \A u \in Loop!Id : u \in 1 .. Len(tasks) + Len(born) /\ u <= Len(tasks)
    BY <1>2, <1>7
  <2> QED BY <1>1, <1>12, <1>13, <2>1
<1>15. ASSUME NEW u \in 1 .. Len(tasks'), u > Len(tasks)
       PROVE  passed'[u] = << >> /\ \E w \in DOMAIN Workflows : tasks'[u] = Loop!Row(w)
  <2>1. u - Len(tasks) \in 1 .. Len(born) /\ u \in 1 .. Len(tasks) + Len(born)
    BY <1>1, <1>2, <1>7, <1>12, <1>15
  <2>2. tasks'[u] = newRows[u - Len(tasks)] /\ passed'[u] = newSteps[u - Len(tasks)]
    BY SMTT(30), <1>1, <1>2, <1>12, <1>13, <1>15, <2>1
  <2> QED BY <1>8, <1>11, <2>1, <2>2
<1> QED BY <1>1, <1>5, <1>6, <1>12, <1>13, <1>14, <1>15 DEF born

\* A row goes through the steps of its workflow in their order.
LEMMA RowsNext ==
    ASSUME Loop!RoundsAssumption, Loop!NamedOnce, LoopShapes, JobsOnce, StepsKept,
           [Loop!Next]_Loop!vars
    PROVE  RowsTyped' /\ StepsKept' /\ Len(tasks) =< Len(tasks')
<1>1. /\ tasks \in Seq(LoopRow) /\ passed \in Seq(Seq(Name)) /\ Len(passed) = Len(tasks)
      /\ Len(tasks) \in Nat /\ Loop!Id = 1 .. Len(tasks)
      /\ \A t \in Loop!Id : tasks[t] \in LoopRow /\ passed[t] \in Seq(Name)
  BY ElementOfSeq, LenProperties DEF LoopShapes, RowsTyped, Loop!Id
<1>2. CASE UNCHANGED <<tasks, passed>>
  BY <1>1, <1>2 DEF RowsTyped, LoopShapes, StepsKept, Loop!Id
<1>3. ASSUME NEW c, \A t \in c : tasks[t].status # "completed",
             tasks' = RowsQueued(c), passed' = passed
      PROVE  RowsTyped' /\ StepsKept' /\ Len(tasks) =< Len(tasks')
  <2>1. RowsTyped' /\ Len(tasks') = Len(tasks) BY <1>1, <1>3, RowsQueuedIs DEF RowsTyped
  <2>2. StepsKept' BY <1>3, <2>1, RowsQueuedIs DEF StepsKept, Loop!Id
  <2> QED BY <1>1, <2>1, <2>2
<1>4. CASE Loop!BeginTick
  <2> DEFINE due == {t \in Loop!Id : tasks[t].status = "failed" /\ Loop!Due(tasks[t])}
  <2>1. tasks' = RowsQueued(due) /\ passed' = passed
    BY <1>4 DEF Loop!BeginTick, RowsQueued, Loop!history
  <2>2. \A t \in due : tasks[t].status # "completed" OBVIOUS
  <2> HIDE DEF due
  <2> QED BY <1>3, <2>1, <2>2
<1>5. CASE Loop!NextRound
  <2> DEFINE c == {t \in Loop!Id : t \in old \ inflight /\ tasks[t].status = "running"}
  <2>1. tasks' = RowsQueued(c) /\ passed' = passed
    BY <1>5 DEF Loop!NextRound, RowsQueued, Loop!history
  <2>2. \A t \in c : tasks[t].status # "completed" OBVIOUS
  <2> HIDE DEF c
  <2> QED BY <1>3, <2>1, <2>2
<1>6. ASSUME NEW t \in Loop!Id, Stays(t)
      PROVE  RowsTyped' /\ StepsKept' /\ Len(tasks) =< Len(tasks')
  <2>1. PICK r \in LoopRow : /\ tasks' = [tasks EXCEPT ![t] = r]
                             /\ r.wf = tasks[t].wf /\ r.step = tasks[t].step
                             /\ r.status = "completed" <=> tasks[t].status = "completed"
    BY <1>6 DEF Stays
  <2>2. passed' = passed BY <1>6 DEF Stays
  <2>3. /\ tasks' \in Seq(LoopRow) /\ Len(tasks') = Len(tasks)
        /\ \A u \in Loop!Id : tasks'[u] = IF u = t THEN r ELSE tasks[u]
    BY <2>1, OneRowIs
  <2>4. \A u \in Loop!Id : OnItsWay(tasks'[u], passed'[u])
    <3>1. OnItsWay(tasks[t], passed[t]) => OnItsWay(r, passed[t]) BY <2>1 DEF OnItsWay
    <3> QED BY <2>2, <2>3, <3>1 DEF StepsKept
  <2>5. Loop!Id' = Loop!Id BY <2>3 DEF Loop!Id
  <2> QED BY <1>1, <2>2, <2>3, <2>4, <2>5 DEF RowsTyped, StepsKept
<1>7. ASSUME NEW t \in Loop!Id, Loop!Skip(t)
      PROVE  RowsTyped' /\ StepsKept' /\ Len(tasks) =< Len(tasks')
  <2>1. /\ tasks' = [tasks EXCEPT ![t] = Loop!Advanced(tasks[t])] /\ t \in listed
        /\ passed' = [passed EXCEPT ![t] = Append(passed[t], tasks[t].step)]
    BY <1>7 DEF Loop!Skip
  <2>2. /\ tasks[t].status # "completed" /\ OnItsWay(tasks[t], passed[t])
        /\ tasks[t].step \in Name
    BY <1>1, <2>1 DEF JobsOnce, StepsKept, LoopRow
  <2>3. /\ Loop!Advanced(tasks[t]) \in LoopRow
        /\ OnItsWay(Loop!Advanced(tasks[t]), Append(passed[t], tasks[t].step))
        /\ Append(passed[t], tasks[t].step) \in Seq(Name)
    BY <1>1, <2>2, AdvanceKeeps, AppendProperties
  <2>4. /\ tasks' \in Seq(LoopRow) /\ Len(tasks') = Len(tasks)
        /\ \A u \in Loop!Id : tasks'[u] = IF u = t THEN Loop!Advanced(tasks[t]) ELSE tasks[u]
    BY <2>1, <2>3, OneRowIs
  <2>5. /\ passed' \in Seq(Seq(Name)) /\ Len(passed') = Len(passed)
        /\ \A u \in Loop!Id :
              passed'[u] = IF u = t THEN Append(passed[t], tasks[t].step) ELSE passed[u]
    BY <1>1, <2>1, <2>3, ExceptSeq
  <2>6. \A u \in Loop!Id : OnItsWay(tasks'[u], passed'[u])
    BY <2>3, <2>4, <2>5 DEF StepsKept
  <2>7. Loop!Id' = Loop!Id BY <2>4 DEF Loop!Id
  <2> QED BY <1>1, <2>4, <2>5, <2>6, <2>7 DEF RowsTyped, StepsKept
<1>8. ASSUME NEW t \in Loop!Id, Loop!JobDone(t)
      PROVE  RowsTyped' /\ StepsKept' /\ Len(tasks) =< Len(tasks')
  <2>1. /\ tasks' \in Seq(LoopRow) /\ passed' \in Seq(Seq(Name))
        /\ Len(tasks') = Len(tasks) + Len(Spawns[tasks[t].step])
        /\ Len(passed') = Len(tasks')
        /\ \A u \in Loop!Id :
              /\ tasks'[u] = IF u = t THEN Loop!Advanced(tasks[t]) ELSE tasks[u]
              /\ passed'[u] = IF u = t THEN Append(passed[t], tasks[t].step) ELSE passed[u]
        /\ \A u \in 1 .. Len(tasks') : u > Len(tasks) =>
              /\ passed'[u] = << >>
              /\ \E w \in DOMAIN Workflows : tasks'[u] = Loop!Row(w)
    BY <1>8, SuccessIs
  <2>2. /\ tasks[t].status # "completed" /\ OnItsWay(tasks[t], passed[t])
        /\ tasks[t].step \in Name
    BY <1>1, <1>8 DEF JobsOnce, InPool, StepsKept, LoopRow, Loop!JobDone, Loop!JobOver
  <2>3. OnItsWay(Loop!Advanced(tasks[t]), Append(passed[t], tasks[t].step))
    BY <1>1, <2>2, AdvanceKeeps
  <2>4. \A u \in Loop!Id : OnItsWay(tasks'[u], passed'[u])
    BY <2>1, <2>3 DEF StepsKept
  <2>5. ASSUME NEW u \in 1 .. Len(tasks'), u > Len(tasks) PROVE OnItsWay(tasks'[u], passed'[u])
    BY <2>1, <2>5, NewRowKept
  <2>6. Len(Spawns[tasks[t].step]) \in Nat
    BY <2>2, LenProperties DEF Loop!RoundsAssumption
  <2>7. \A u \in 1 .. Len(tasks') : u \in Loop!Id \/ u > Len(tasks) BY <1>1, <2>1, <2>6
  <2>8. Loop!Id' = 1 .. Len(tasks') BY DEF Loop!Id
  <2> QED BY <1>1, <2>1, <2>4, <2>5, <2>6, <2>7, <2>8 DEF RowsTyped, StepsKept
<1> QED BY <1>2, <1>4, <1>5, <1>6, <1>7, <1>8, StepKinds

\* A set of tasks is finite.
LEMMA SetsFinite ==
    ASSUME LoopShapes, NEW S, S \subseteq Loop!Id
    PROVE  IsFiniteSet(S) /\ Cardinality(S) \in Nat
<1>1. Len(tasks) \in Nat BY LenProperties DEF LoopShapes, RowsTyped
<1>2. IsFiniteSet(1 .. Len(tasks)) BY <1>1, FirstNumbers
<1> QED BY <1>2, FS_Subset, FS_CardinalityType DEF Loop!Id

\* What the pool has after a thread took the first job of the queue, after a job was submitted,
\* and after one ended.
LEMMA HeadTaken ==
    ASSUME NEW S, NEW q \in Seq(S), q # << >>
    PROVE  /\ Head(q) \in S /\ Tail(q) \in Seq(S) /\ 1 \in DOMAIN q /\ Head(q) = q[1]
           /\ DOMAIN q = 1 .. Len(q) /\ DOMAIN Tail(q) = 1 .. Len(q) - 1 /\ Len(q) \in Nat
           /\ \A i \in DOMAIN Tail(q) : i + 1 \in DOMAIN q /\ Tail(q)[i] = q[i + 1]
<1>1. Len(q) \in Nat /\ Len(q) > 0 /\ DOMAIN q = 1 .. Len(q)
  BY EmptySeq, LenProperties
<1>2. Head(q) \in S /\ Tail(q) \in Seq(S) /\ Len(Tail(q)) = Len(q) - 1 /\ Head(q) = q[1]
      /\ \A i \in 1 .. Len(Tail(q)) : Tail(q)[i] = q[i + 1]
  BY <1>1, HeadTailProperties
<1>3. DOMAIN Tail(q) = 1 .. Len(Tail(q)) BY <1>2, LenProperties
<1> QED BY <1>1, <1>2, <1>3

\* The types of the pool's variables, over the tasks there are.
PoolShapes ==
    /\ old \subseteq Loop!Id /\ listed \subseteq Loop!Id /\ running \subseteq Loop!Id
    /\ pending \subseteq Loop!Id /\ raised \subseteq pending /\ inflight \subseteq Loop!Id
    /\ queue \in Seq(Loop!Id) /\ threads \in 0 .. Size /\ Cardinality(running) =< threads
    /\ load \in [Name -> Nat] /\ progressed \in Nat /\ rounds \in Nat
    /\ raises \in Nat /\ again \in BOOLEAN

\* A queue of some tasks is a queue of more tasks.
LEMMA SeqWidens == ASSUME NEW S, NEW T, S \subseteq T, NEW q \in Seq(S) PROVE q \in Seq(T)
<1>1. Len(q) \in Nat /\ q \in [1 .. Len(q) -> S] BY LenProperties
<1>2. q \in [1 .. Len(q) -> T] BY <1>1
<1> QED BY <1>1, <1>2, FunctionIsSeq

\* One element more, one less.
LEMMA OneMore ==
    ASSUME NEW S, NEW x, IsFiniteSet(S)
    PROVE  Cardinality(S \cup {x}) =< Cardinality(S) + 1
<1>1. Cardinality(S) \in Nat BY FS_CardinalityType
<1>2. Cardinality(S \cup {x}) = IF x \in S THEN Cardinality(S) ELSE Cardinality(S) + 1
  BY FS_AddElement
<1> QED BY ONLY <1>1, <1>2

LEMMA OneLess ==
    ASSUME NEW S, NEW x, IsFiniteSet(S)
    PROVE  Cardinality(S \ {x}) =< Cardinality(S)
<1>1. Cardinality(S) \in Nat BY FS_CardinalityType
<1>2. Cardinality(S \ {x}) = IF x \in S THEN Cardinality(S) - 1 ELSE Cardinality(S)
  BY FS_RemoveElement
<1> QED BY ONLY <1>1, <1>2

\* What a step of the scheduler makes of the types of the pool's variables.
LEMMA ScheduleShapes ==
    ASSUME Loop!RoundsAssumption, LoopShapes, NEW Ids, Loop!Id \subseteq Ids,
           \/ Loop!Schedule \/ Loop!JobStart \/ Loop!Stop
    PROVE  /\ old' \subseteq Ids /\ listed' \subseteq Ids /\ running' \subseteq Ids
           /\ pending' \subseteq Ids /\ raised' \subseteq pending' /\ inflight' \subseteq Ids
           /\ queue' \in Seq(Ids) /\ threads' \in 0 .. Size /\ Cardinality(running') =< threads'
           /\ load' \in [Name -> Nat] /\ progressed' \in Nat /\ rounds' \in Nat
           /\ raises' \in Nat /\ again' \in BOOLEAN
<1> USE DEF LoopShapes, Loop!pool, Loop!history
<1>1. queue \in Seq(Ids) BY SeqWidens
<1>2. Cardinality(running) \in Nat /\ IsFiniteSet(running) /\ Size \in Nat
  BY SetsFinite DEF Loop!RoundsAssumption
<1>3. Loop!Idle <=> threads > Cardinality(running) BY LoopSets DEF Loop!Idle
<1>4. CASE Loop!BeginTick
  <2>1. progressed' \in Nat
    <3> DEFINE due == {t \in Loop!Id : tasks[t].status = "failed" /\ Loop!Due(tasks[t])}
    <3>1. Cardinality(due) \in Nat BY SetsFinite
    <3> QED BY <1>4, <3>1, LoopSets DEF Loop!BeginTick
  <2>2. load' \in [Name -> Nat]
    <3>1. \A x \in Name : Loop!Cardinality({t \in Loop!Id : tasks[t].status = "running"
                                                            /\ tasks[t].step = x}) \in Nat
      BY SetsFinite, LoopSets
    <3> QED BY <1>4, <3>1 DEF Loop!BeginTick, Loop!LoadNow
  <2>3. listed' \subseteq Loop!Id BY <1>4 DEF Loop!BeginTick
  <2> QED BY <1>1, <1>4, <2>1, <2>2, <2>3 DEF Loop!BeginTick
<1>5. CASE Loop!CapReached \/ Loop!EndTick \/ Loop!DrainRaises \/ Loop!Drained
           \/ Loop!NextRound \/ Loop!Release \/ Loop!Stop
  <2>1. /\ UNCHANGED <<running, inflight, queue, threads, raises, again>>
        /\ old' \subseteq old /\ listed' = listed /\ raised' \subseteq raised
        /\ (pending' = pending \/ (pending' = {} /\ raised' = {}))
        /\ (load' = load \/ load' = [s \in Name |-> 0])
        /\ (progressed' = progressed \/ progressed' = 0)
        /\ (rounds' = rounds \/ rounds' = rounds + 1)
    <3>1. CASE Loop!CapReached \/ Loop!Release \/ Loop!Stop
      BY <3>1 DEF Loop!CapReached, Loop!Release, Loop!Stop
    <3>2. CASE Loop!EndTick BY <3>2 DEF Loop!EndTick
    <3>3. CASE Loop!DrainRaises BY <3>3 DEF Loop!DrainRaises
    <3>4. CASE Loop!Drained BY <3>4 DEF Loop!Drained
    <3>5. CASE Loop!NextRound BY <3>5 DEF Loop!NextRound
    <3> QED BY <1>5, <3>1, <3>2, <3>3, <3>4, <3>5
  <2>2. load' \in [Name -> Nat]
    <3>1. load \in [Name -> Nat] /\ [s \in Name |-> 0] \in [Name -> Nat] OBVIOUS
    <3> QED BY ONLY <2>1, <3>1
  <2>3. progressed' \in Nat /\ rounds' \in Nat
    <3>1. progressed \in Nat /\ rounds \in Nat OBVIOUS
    <3> QED BY ONLY <2>1, <3>1
  <2>4. pending' \subseteq Ids /\ raised' \subseteq pending'
    <3>1. pending \subseteq Ids /\ raised \subseteq pending OBVIOUS
    <3> QED BY ONLY <2>1, <3>1
  <2> QED BY <1>1, <2>1, <2>2, <2>3, <2>4
<1>6. ASSUME NEW t \in Loop!Id, Loop!PassOver(t) \/ Loop!Skip(t)
      PROVE  /\ old' = old /\ listed' \subseteq listed /\ running' = running /\ pending' = pending
             /\ raised' = raised /\ inflight' = inflight /\ queue' = queue /\ threads' = threads
             /\ load' = load /\ progressed' \in Nat /\ rounds' = rounds
             /\ raises' = raises /\ again' = again
  BY <1>6 DEF Loop!PassOver, Loop!Skip, Loop!SkipCounts
<1>7. ASSUME NEW t \in Loop!Id, Loop!Claims(t)
      PROVE  /\ queue' \in Seq(Ids) /\ inflight' \subseteq Ids /\ old' \subseteq Ids
             /\ load' \in [Name -> Nat]
  <2>1. queue' \in Seq(Ids) BY <1>1, <1>7, AppendProperties DEF Loop!Claims
  <2>2. inflight' \subseteq Ids /\ old' \subseteq Ids BY <1>7 DEF Loop!Claims
  <2>3. load' \in [Name -> Nat]
    <3>1. tasks[t].step \in Name
      <4>1. tasks[t] \in LoopRow BY ElementOfSeq DEF RowsTyped, Loop!Id
      <4> QED BY <4>1 DEF LoopRow
    <3>2. load[tasks[t].step] + 1 \in Nat BY <3>1
    <3>3. load' = [load EXCEPT ![tasks[t].step] = load[tasks[t].step] + 1]
      BY <1>7 DEF Loop!Claims
    <3> QED BY <3>1, <3>2, <3>3
  <2> QED BY <2>1, <2>2, <2>3
<1>8. ASSUME NEW t \in Loop!Id, Loop!Claim(t)
      PROVE  /\ running' = running /\ pending' \subseteq Loop!Id /\ raised' \subseteq pending'
             /\ threads' \in 0 .. Size /\ Cardinality(running') =< threads'
             /\ listed' \subseteq Loop!Id /\ progressed' \in Nat /\ rounds' = rounds
             /\ raises' = raises /\ again' = again /\ Loop!Claims(t)
  BY <1>2, <1>8 DEF Loop!Claim, Loop!Starts
<1>9. ASSUME NEW t \in Loop!Id, Loop!ThreadRefused(t)
      PROVE  /\ running' = running /\ pending' = pending /\ raised' = raised
             /\ threads' = threads /\ listed' = {} /\ progressed' = progressed /\ rounds' = rounds
             /\ raises' = raises /\ again' = again /\ Loop!Claims(t)
  BY <1>9 DEF Loop!ThreadRefused
<1>10. CASE Loop!JobStart
  <2>1. queue # << >> /\ Loop!Idle /\ running' = running \cup {Head(queue)} /\ queue' = Tail(queue)
    BY <1>10 DEF Loop!JobStart
  <2>2. Head(queue) \in Loop!Id /\ Tail(queue) \in Seq(Loop!Id) BY <2>1, HeadTaken
  <2>3. running' \subseteq Ids /\ queue' \in Seq(Ids) BY <2>1, <2>2, SeqWidens
  <2>4. Cardinality(running') =< threads
    <3>1. Cardinality(running') =< Cardinality(running) + 1 BY <1>2, <2>1, OneMore
    <3>2. threads > Cardinality(running) /\ threads \in Nat BY <1>2, <1>3, <2>1
    <3>3. Cardinality(running') \in Nat BY <1>2, <2>1, FS_AddElement, FS_CardinalityType
    <3> QED BY ONLY <1>2, <3>1, <3>2, <3>3
  <2> QED BY <1>10, <2>3, <2>4 DEF Loop!JobStart, Loop!sched
<1> QED BY <1>1, <1>2, <1>4, <1>5, <1>6, <1>7, <1>8, <1>9, <1>10 DEF Loop!Schedule

\* What the end of a job, a delay and a heartbeat make of them.
LEMMA JobShapes ==
    ASSUME Loop!RoundsAssumption, LoopShapes, NEW Ids, Loop!Id \subseteq Ids, NEW t \in Loop!Id,
           \/ Loop!JobEnds(t) \/ Loop!DelayEnds(t) \/ Loop!HeartbeatAges(t)
    PROVE  /\ old' \subseteq Ids /\ listed' \subseteq Ids /\ running' \subseteq Ids
           /\ pending' \subseteq Ids /\ raised' \subseteq pending' /\ inflight' \subseteq Ids
           /\ queue' \in Seq(Ids) /\ threads' \in 0 .. Size /\ Cardinality(running') =< threads'
           /\ load' \in [Name -> Nat] /\ progressed' \in Nat /\ rounds' \in Nat
           /\ raises' \in Nat /\ again' \in BOOLEAN
<1> USE DEF LoopShapes, Loop!pool, Loop!history, Loop!sched
<1>1. queue \in Seq(Ids) BY SeqWidens
<1>2. Cardinality(running) \in Nat /\ IsFiniteSet(running) BY SetsFinite
<1>3. ASSUME NEW kept, Loop!JobOver(t, kept)
      PROVE  /\ running' \subseteq Loop!Id /\ Cardinality(running') =< threads
             /\ inflight' \subseteq Loop!Id /\ old' = old /\ listed' = listed
             /\ load' = load /\ progressed' = progressed /\ rounds' = rounds /\ queue' = queue
             /\ threads' = threads /\ pending' = pending
  <2>1. running' = running \ {t} /\ t \in running BY <1>3 DEF Loop!JobOver
  <2>2. Cardinality(running') =< Cardinality(running) BY <1>2, <2>1, OneLess
  <2>3. inflight' \subseteq Loop!Id BY <1>3 DEF Loop!JobOver, Loop!EntryAfter
  <2>4. running' \subseteq Loop!Id BY <2>1
  <2>5. Cardinality(running') \in Nat BY <2>4, SetsFinite
  <2>6. Cardinality(running') =< threads
    <3>1. threads \in Nat /\ Cardinality(running) =< threads OBVIOUS
    <3> QED BY ONLY <1>2, <2>2, <2>5, <3>1
  <2> QED BY <1>3, <2>3, <2>4, <2>6 DEF Loop!JobOver
<1>4. CASE Loop!JobDone(t) \/ Loop!JobDefers(t) \/ Loop!JobFails(t)
  <2>1. Loop!JobOver(t, FALSE) /\ raised' = raised /\ raises' = raises /\ again' \in BOOLEAN
    BY <1>4 DEF Loop!JobDone, Loop!JobDefers, Loop!JobFails
  <2>2. /\ running' \subseteq Loop!Id /\ Cardinality(running') =< threads
        /\ inflight' \subseteq Loop!Id /\ old' = old /\ listed' = listed
        /\ load' = load /\ progressed' = progressed /\ rounds' = rounds /\ queue' = queue
        /\ threads' = threads /\ pending' = pending
    BY <1>3, <2>1
  <2> QED BY <1>1, <2>1, <2>2
<1>5. CASE Loop!JobRaises(t)
  <2>1. Loop!JobOver(t, TRUE) /\ raised' \subseteq pending /\ raises' \in Nat /\ again' \in BOOLEAN
    <3>1. raised' = raised \cup ({t} \cap pending) /\ raises' = raises + 1 /\ again' = TRUE
      BY <1>5 DEF Loop!JobRaises
    <3>2. Loop!JobOver(t, TRUE) BY <1>5 DEF Loop!JobRaises
    <3>3. raised \subseteq pending /\ raises \in Nat OBVIOUS
    <3>4. raised' \subseteq pending BY ONLY <3>1, <3>3
    <3>5. raises' \in Nat BY ONLY <3>1, <3>3
    <3> QED BY <3>1, <3>2, <3>4, <3>5, Zenon
  <2>2. /\ running' \subseteq Loop!Id /\ Cardinality(running') =< threads
        /\ inflight' \subseteq Loop!Id /\ old' = old /\ listed' = listed
        /\ load' = load /\ progressed' = progressed /\ rounds' = rounds /\ queue' = queue
        /\ threads' = threads /\ pending' = pending
    BY <1>3, <2>1
  <2> QED BY <1>1, <2>1, <2>2
<1>6. CASE Loop!DelayEnds(t) \/ Loop!HeartbeatAges(t)
  BY <1>1, <1>6 DEF Loop!DelayEnds, Loop!HeartbeatAges
<1> QED BY <1>4, <1>5, <1>6 DEF Loop!JobEnds

\* Every variable keeps its type.
LEMMA LoopShapesNext ==
    ASSUME Loop!RoundsAssumption, Loop!NamedOnce, LoopShapes, JobsOnce, StepsKept,
           [Loop!Next]_Loop!vars
    PROVE  LoopShapes' /\ StepsKept'
<1>1. RowsTyped' /\ StepsKept' /\ Len(tasks) =< Len(tasks') BY RowsNext
<1>2. Loop!Id \subseteq 1 .. Len(tasks')
  <2>1. Len(tasks) \in Nat /\ Len(tasks') \in Nat
    BY <1>1, LenProperties DEF LoopShapes, RowsTyped
  <2> QED BY <1>1, <2>1 DEF Loop!Id
<1>3. CASE Loop!Schedule \/ Loop!JobStart \/ Loop!Stop
  <2>1. PoolShapes' BY <1>2, <1>3, ScheduleShapes DEF PoolShapes, Loop!Id
  <2> QED BY <1>1, <2>1 DEF PoolShapes, LoopShapes
<1>4. ASSUME NEW t \in Loop!Id, Loop!JobEnds(t) \/ Loop!DelayEnds(t) \/ Loop!HeartbeatAges(t)
      PROVE  LoopShapes'
  <2>1. PoolShapes' BY <1>2, <1>4, JobShapes DEF PoolShapes, Loop!Id
  <2> QED BY <1>1, <2>1 DEF PoolShapes, LoopShapes
<1>5. CASE UNCHANGED Loop!vars
  BY <1>1, <1>5 DEF LoopShapes, Loop!vars, Loop!pool, Loop!history, Loop!sched, Loop!Id
<1> QED BY <1>1, <1>3, <1>4, <1>5 DEF Loop!Next

\* The threads of the pool and the jobs they run are counted.
LEMMA PoolSizes ==
    ASSUME Loop!RoundsAssumption, LoopShapes
    PROVE  /\ Cardinality(running) \in Nat /\ threads \in Nat
           /\ running = {} => Cardinality(running) = 0
<1>1. threads \in Nat /\ running \subseteq Loop!Id BY DEF LoopShapes, Loop!RoundsAssumption
<1>2. Cardinality(running) \in Nat BY <1>1, SetsFinite
<1>3. running = {} => Cardinality(running) = 0 BY FS_EmptySet, Zenon
<1> QED BY <1>1, <1>2, <1>3

\* The phases and the reasons to end follow each other as written.
LEMMA LoopPhasesNext ==
    ASSUME Loop!RoundsAssumption, LoopShapes, LoopPhases, [Loop!Next]_Loop!vars
    PROVE  LoopPhases'
<1> USE DEF LoopPhases, Loop!Phases, Loop!pool, Loop!history, Loop!End
<1>1. Cardinality(running) \in Nat /\ threads \in Nat /\ (running = {} => Cardinality(running) = 0)
  BY PoolSizes
<1>2. Loop!Idle <=> threads > Cardinality(running) BY LoopSets DEF Loop!Idle
<1>3. CASE Loop!BeginTick \/ Loop!CapReached \/ Loop!EndTick
  BY <1>3 DEF Loop!BeginTick, Loop!CapReached, Loop!EndTick, Loop!MayGoOn
<1>4. CASE Loop!DrainRaises \/ Loop!Drained \/ Loop!NextRound \/ Loop!Stop
  BY <1>4 DEF Loop!DrainRaises, Loop!Drained, Loop!NextRound, Loop!Stop
<1>5. CASE Loop!Release BY <1>5 DEF Loop!Release, Loop!JoinedAll
<1>6. ASSUME NEW t \in Loop!Id,
             Loop!PassOver(t) \/ Loop!Skip(t) \/ Loop!Claim(t) \/ Loop!ThreadRefused(t)
      PROVE  LoopPhases'
  BY <1>6 DEF Loop!PassOver, Loop!Skip, Loop!Claim, Loop!ThreadRefused, Loop!Claims
<1>7. CASE Loop!JobStart
  <2>1. phase # "over"
    <3>1. Loop!Idle /\ queue # << >> BY <1>7 DEF Loop!JobStart
    <3>2. threads > Cardinality(running) BY <1>2, <3>1
    <3>3. Cardinality(running) = 0 => threads # 0 BY ONLY <1>1, <3>2
    <3>4. running = {} => threads # 0 BY <1>1, <3>3, Zenon
    <3> QED BY <3>1, <3>4
  <2> QED BY <1>7, <2>1 DEF Loop!JobStart, Loop!sched
<1>8. ASSUME NEW t \in Loop!Id, Loop!JobEnds(t)
      PROVE  LoopPhases'
  <2>1. t \in running /\ UNCHANGED Loop!sched /\ UNCHANGED <<queue, threads>>
    BY <1>8 DEF Loop!JobEnds, Loop!JobDone, Loop!JobDefers, Loop!JobFails, Loop!JobRaises,
       Loop!JobOver
  <2> QED BY <2>1 DEF Loop!sched
<1>9. ASSUME NEW t \in Loop!Id, Loop!DelayEnds(t) \/ Loop!HeartbeatAges(t)
      PROVE  LoopPhases'
  BY <1>9 DEF Loop!DelayEnds, Loop!HeartbeatAges, Loop!sched
<1>10. CASE UNCHANGED Loop!vars BY <1>10 DEF Loop!vars, Loop!sched
<1> QED BY <1>3, <1>4, <1>5, <1>6, <1>7, <1>8, <1>9, <1>10 DEF Loop!Next, Loop!Schedule

\* The queue has each job once, and none that runs.
QueuedOnce(q, r) ==
    /\ \A i, j \in DOMAIN q : q[i] = q[j] => i = j
    /\ {q[i] : i \in DOMAIN q} \cap r = {}

\* What a submitted job makes of the pool.
LEMMA JobSubmitted ==
    ASSUME LoopShapes, JobsOnce, NEW t \in Loop!Id, tasks[t].status = "queued",
           queue' = Append(queue, t), running' = running
    PROVE  QueuedOnce(queue', running') /\ InPool' = InPool \cup {t}
<1>1. /\ queue \in Seq(Loop!Id) /\ Len(queue) \in Nat /\ DOMAIN queue = 1 .. Len(queue)
  BY LenProperties DEF LoopShapes
<1>2. /\ Append(queue, t) \in Seq(Loop!Id) /\ Len(Append(queue, t)) = Len(queue) + 1
      /\ \A i \in 1 .. Len(queue) : Append(queue, t)[i] = queue[i]
      /\ Append(queue, t)[Len(queue) + 1] = t
  BY <1>1, AppendProperties
<1>3. DOMAIN queue' = 1 .. Len(queue) + 1 BY <1>2, LenProperties
<1>4. t \notin InPool BY DEF JobsOnce
<1>5. InQueue' = InQueue \cup {t} BY <1>1, <1>2, <1>3 DEF InQueue
<1>6. \A i \in 1 .. Len(queue) : queue[i] # t BY <1>1, <1>4 DEF InPool, InQueue
<1>7. \A i, j \in DOMAIN queue' : queue'[i] = queue'[j] => i = j
  <2>1. \A i, j \in 1 .. Len(queue) : queue[i] = queue[j] => i = j BY <1>1 DEF JobsOnce
  <2>2. \A i \in DOMAIN queue' : i \in 1 .. Len(queue) \/ i = Len(queue) + 1 BY <1>1, <1>3
  <2> QED BY <1>2, <1>6, <2>1, <2>2
<1> QED BY <1>4, <1>5, <1>7 DEF QueuedOnce, InPool, InQueue, JobsOnce

\* What a thread that takes a job makes of the pool.
LEMMA JobTaken ==
    ASSUME LoopShapes, JobsOnce, Loop!JobStart
    PROVE  QueuedOnce(queue', running') /\ InPool' = InPool
<1>1. queue # << >> /\ running' = running \cup {Head(queue)} /\ queue' = Tail(queue)
  BY DEF Loop!JobStart
<1>2. /\ 1 \in DOMAIN queue /\ Head(queue) = queue[1]
      /\ DOMAIN queue = 1 .. Len(queue) /\ DOMAIN Tail(queue) = 1 .. Len(queue) - 1
      /\ Len(queue) \in Nat
      /\ \A i \in DOMAIN Tail(queue) : i + 1 \in DOMAIN queue /\ Tail(queue)[i] = queue[i + 1]
  BY <1>1, HeadTaken DEF LoopShapes
<1>3. \A i, j \in DOMAIN queue : queue[i] = queue[j] => i = j BY DEF JobsOnce
<1>4. \A i, j \in DOMAIN queue' : queue'[i] = queue'[j] => i = j
  <2> SUFFICES ASSUME NEW i \in DOMAIN queue', NEW j \in DOMAIN queue', queue'[i] = queue'[j]
               PROVE  i = j
    OBVIOUS
  <2>1. i + 1 = j + 1 BY <1>1, <1>2, <1>3
  <2>2. i \in Int /\ j \in Int BY <1>1, <1>2
  <2> QED BY <2>1, <2>2
<1>5. \A i \in DOMAIN queue' : queue'[i] # Head(queue)
  <2> SUFFICES ASSUME NEW i \in DOMAIN queue', queue'[i] = Head(queue) PROVE FALSE OBVIOUS
  <2>1. i + 1 = 1 BY <1>1, <1>2, <1>3
  <2> QED BY <1>1, <1>2, <2>1
<1>6. InQueue = InQueue' \cup {Head(queue)}
  <2>1. \A i \in DOMAIN queue : i = 1 \/ (i - 1 \in DOMAIN queue' /\ queue'[i - 1] = queue[i])
    <3> SUFFICES ASSUME NEW i \in DOMAIN queue, i # 1
                 PROVE  i - 1 \in DOMAIN queue' /\ queue'[i - 1] = queue[i]
      OBVIOUS
    <3>1. i - 1 \in DOMAIN queue' /\ (i - 1) + 1 = i BY <1>1, <1>2
    <3> QED BY <1>1, <1>2, <3>1
  <2>2. \A i \in DOMAIN queue' : queue'[i] \in InQueue BY <1>1, <1>2 DEF InQueue
  <2>3. Head(queue) \in InQueue BY <1>2 DEF InQueue
  <2>4. \A i \in DOMAIN queue : queue[i] \in InQueue' \cup {Head(queue)}
    BY <1>2, <2>1 DEF InQueue
  <2> QED BY <2>2, <2>3, <2>4 DEF InQueue
<1>7. InQueue' \cap running' = {} BY <1>1, <1>5, <1>6 DEF JobsOnce, InQueue
<1> QED BY <1>1, <1>4, <1>6, <1>7 DEF QueuedOnce, InPool, InQueue

\* What the end of a job makes of the pool.
LEMMA JobEnded ==
    ASSUME LoopShapes, JobsOnce, NEW t \in Loop!Id, NEW kept, Loop!JobOver(t, kept)
    PROVE  /\ QueuedOnce(queue', running') /\ InPool' = InPool \ {t} /\ t \in InPool
           /\ tasks[t].status = "running" /\ t \notin listed /\ listed' = listed
           /\ inflight' = inflight \ {t}
<1>1. t \in running /\ running' = running \ {t} /\ queue' = queue
      /\ inflight' = inflight \ {t} /\ listed' = listed
  BY DEF Loop!JobOver, Loop!EntryAfter, Loop!sched
<1> QED BY <1>1 DEF QueuedOnce, JobsOnce, InPool, InQueue

\* Every job is in the pool once, with its task executing.
LEMMA JobsOnceNext ==
    ASSUME Loop!RoundsAssumption, Loop!NamedOnce, LoopShapes, LoopPhases, JobsOnce, StepsKept,
           [Loop!Next]_Loop!vars
    PROVE  JobsOnce'
<1>1. /\ InPool \subseteq Loop!Id /\ listed \subseteq Loop!Id
      /\ \A t \in Loop!Id : tasks[t] \in LoopRow
  <2>1. \A i \in DOMAIN queue : queue[i] \in Loop!Id
    BY ElementOfSeq, LenProperties DEF LoopShapes
  <2> QED BY <2>1, ElementOfSeq DEF LoopShapes, RowsTyped, InPool, InQueue, Loop!Id
<1>2. JobsOnce' <=> /\ QueuedOnce(queue', running')
                    /\ \A t \in InPool' : tasks'[t].status = "running" /\ t \in inflight'
                    /\ \A t \in listed' : tasks'[t].status = "queued"
  BY DEF JobsOnce, QueuedOnce, InQueue
<1>3. QueuedOnce(queue, running) BY DEF JobsOnce, QueuedOnce, InQueue
<1>4. ASSUME UNCHANGED <<queue, running>>
      PROVE  QueuedOnce(queue', running') /\ InPool' = InPool
  BY <1>3, <1>4 DEF InPool, InQueue
<1> USE DEF Loop!pool, Loop!history
<1>5. CASE Loop!CapReached \/ Loop!EndTick \/ Loop!DrainRaises \/ Loop!Drained \/ Loop!Release
           \/ Loop!Stop \/ UNCHANGED Loop!vars
  <2>1. UNCHANGED <<tasks, queue, running, inflight, listed>>
    BY <1>5 DEF Loop!CapReached, Loop!EndTick, Loop!DrainRaises, Loop!Drained, Loop!Release,
       Loop!Stop, Loop!vars, Loop!sched
  <2> QED BY <1>2, <1>4, <2>1 DEF JobsOnce
<1>6. CASE Loop!BeginTick
  <2> DEFINE due == {t \in Loop!Id : tasks[t].status = "failed" /\ Loop!Due(tasks[t])}
  <2>1. /\ tasks' = RowsQueued(due) /\ UNCHANGED <<queue, running, inflight>>
        /\ listed' = {t \in Loop!Id : RowsQueued(due)[t].status = "queued"
                                      /\ Loop!Due(RowsQueued(due)[t])}
    BY <1>6 DEF Loop!BeginTick, RowsQueued
  <2>2. \A t \in InPool : RowsQueued(due)[t] = tasks[t]
    BY <1>1 DEF RowsQueued, JobsOnce
  <2> QED BY <1>2, <1>4, <2>1, <2>2 DEF JobsOnce
<1>7. CASE Loop!NextRound
  <2>1. UNCHANGED <<queue, running, inflight, listed>> /\ phase = "wait"
    BY <1>7 DEF Loop!NextRound
  <2>2. listed = {} BY <2>1 DEF LoopPhases
  <2>3. \A t \in InPool : tasks'[t] = tasks[t]
    BY <1>1, <1>7 DEF Loop!NextRound, JobsOnce
  <2> QED BY <1>2, <1>4, <2>1, <2>2, <2>3 DEF JobsOnce
<1>8. ASSUME NEW t \in Loop!Id, Loop!PassOver(t)
      PROVE  JobsOnce'
  <2>1. UNCHANGED <<tasks, queue, running, inflight>> /\ listed' \subseteq listed
    BY <1>8 DEF Loop!PassOver
  <2> QED BY <1>2, <1>4, <2>1 DEF JobsOnce
<1>9. ASSUME NEW t \in Loop!Id, Loop!Skip(t)
      PROVE  JobsOnce'
  <2>1. /\ UNCHANGED <<queue, running, inflight>> /\ listed' = listed \ {t} /\ t \in listed
        /\ tasks' = [tasks EXCEPT ![t] = Loop!Advanced(tasks[t])]
    BY <1>9 DEF Loop!Skip
  <2>2. t \notin InPool /\ \A u \in Loop!Id \ {t} : tasks'[u] = tasks[u]
    <3>1. Loop!Id = DOMAIN tasks BY LenProperties DEF LoopShapes, RowsTyped, Loop!Id
    <3>2. t \notin InPool BY <2>1 DEF JobsOnce
    <3> QED BY <2>1, <3>1, <3>2
  <2> QED BY <1>1, <1>2, <1>4, <2>1, <2>2 DEF JobsOnce
<1>10. ASSUME NEW t \in Loop!Id, Loop!Claim(t) \/ Loop!ThreadRefused(t)
       PROVE  JobsOnce'
  <2>1. /\ queue' = Append(queue, t) /\ UNCHANGED running /\ inflight' = inflight \cup {t}
        /\ t \in listed /\ listed' \subseteq listed \ {t}
        /\ tasks' = [tasks EXCEPT ![t] = [tasks[t] EXCEPT !.status = "running", !.retry = "none"]]
    BY <1>10 DEF Loop!Claim, Loop!ThreadRefused, Loop!Claims
  <2> DEFINE new == [tasks[t] EXCEPT !.status = "running", !.retry = "none"]
  <2>2. new \in LoopRow /\ new.status = "running" BY <1>1 DEF LoopRow
  <2> HIDE DEF new
  <2>3. \A u \in Loop!Id : tasks'[u] = IF u = t THEN new ELSE tasks[u]
    BY <2>1, <2>2, OneRowIs DEF new
  <2>4. QueuedOnce(queue', running') /\ InPool' = InPool \cup {t}
    BY <2>1, JobSubmitted DEF JobsOnce
  <2> QED BY <1>1, <1>2, <2>1, <2>2, <2>3, <2>4 DEF JobsOnce
<1>11. CASE Loop!JobStart
  <2>1. UNCHANGED <<tasks, inflight, listed>> BY <1>11 DEF Loop!JobStart, Loop!sched
  <2> QED BY <1>2, <1>11, <2>1, JobTaken DEF JobsOnce
<1>12. ASSUME NEW t \in Loop!Id, NEW kept, Loop!JobOver(t, kept),
              \A u \in Loop!Id \ {t} : tasks'[u] = tasks[u]
       PROVE  JobsOnce'
  <2>1. /\ QueuedOnce(queue', running') /\ InPool' = InPool \ {t}
        /\ t \notin listed /\ listed' = listed /\ inflight' = inflight \ {t}
    BY <1>12, JobEnded
  <2> QED BY <1>1, <1>2, <1>12, <2>1 DEF JobsOnce
<1>13. ASSUME NEW t \in Loop!Id, Loop!JobDone(t)
       PROVE  JobsOnce'
  <2>1. \A u \in Loop!Id \ {t} : tasks'[u] = tasks[u] BY <1>13, SuccessIs
  <2>2. Loop!JobOver(t, FALSE) BY <1>13 DEF Loop!JobDone
  <2> QED BY <1>12, <2>1, <2>2
<1>14. ASSUME NEW t \in Loop!Id, Loop!JobDefers(t) \/ Loop!JobFails(t)
       PROVE  JobsOnce'
  <2>1. Stays(t) BY <1>14, StayingSteps
  <2>2. \A u \in Loop!Id \ {t} : tasks'[u] = tasks[u] BY <2>1, OneRowIs DEF Stays
  <2>3. Loop!JobOver(t, FALSE) BY <1>14 DEF Loop!JobDefers, Loop!JobFails
  <2> QED BY <1>12, <2>2, <2>3
<1>15. ASSUME NEW t \in Loop!Id, Loop!JobRaises(t)
       PROVE  JobsOnce'
  <2>1. Loop!JobOver(t, TRUE) /\ tasks' = tasks BY <1>15 DEF Loop!JobRaises
  <2> QED BY <1>12, <2>1
<1>16. ASSUME NEW t \in Loop!Id, Loop!DelayEnds(t)
       PROVE  JobsOnce'
  <2> DEFINE new == [tasks[t] EXCEPT !.retry = "past"]
  <2>1. tasks' = [tasks EXCEPT ![t] = new] /\ UNCHANGED <<queue, running, inflight, listed>>
    BY <1>16 DEF Loop!DelayEnds, Loop!sched
  <2>2. new \in LoopRow /\ new.status = tasks[t].status BY <1>1 DEF LoopRow
  <2> HIDE DEF new
  <2>3. \A u \in Loop!Id : tasks'[u] = IF u = t THEN new ELSE tasks[u] BY <2>1, <2>2, OneRowIs
  <2> QED BY <1>1, <1>2, <1>4, <2>1, <2>2, <2>3 DEF JobsOnce
<1>17. ASSUME NEW t \in Loop!Id, Loop!HeartbeatAges(t)
       PROVE  JobsOnce'
  <2>1. UNCHANGED <<tasks, queue, running, inflight, listed>>
    BY <1>17 DEF Loop!HeartbeatAges, Loop!sched
  <2> QED BY <1>2, <1>4, <2>1 DEF JobsOnce
<1> QED BY <1>5, <1>6, <1>7, <1>8, <1>9, <1>10, <1>11, <1>13, <1>14, <1>15, <1>16, <1>17
        DEF Loop!Next, Loop!Schedule, Loop!JobEnds

---------------------------------------------------------------------------
(* A run that ends by itself is done, and its cap is for repeated steps.    *)

\* A row nothing is to be done about before its delay is over.
Waits(r) == r.status \in {"queued", "failed"} => r.retry \in {"later", "past"}

\* A run that found nothing to do, in the round at hand or in its last one.
Stands == ending = "idle" \/ (~Resident /\ phase \in {"tick", "drain"} /\ progressed = 0)

\* An executing task has a job, the jobs of a run are among its futures, and when the run
\* found nothing to do there is nothing to do.
LoopIdle ==
    /\ raises = 0 => \A t \in Loop!Id : tasks[t].status = "running" => t \in InPool
    /\ ~Resident /\ phase \in {"start", "tick", "drain"} => InPool \subseteq pending
    /\ ~Resident /\ phase = "start" => pending = {}
    /\ raises = 0 /\ Stands => /\ InPool = {}
                               /\ phase = "tick" => \A s \in Name : load[s] = 0
                               /\ \A t \in Loop!Id : Waits(tasks[t]) \/ t \in listed

\* What a phase says of the end.
LEMMA PhaseFacts ==
    ASSUME LoopPhases
    PROVE  /\ phase \notin {"closing", "over"} => ending \notin {"idle", "capped"}
           /\ phase # "tick" => listed = {}
           /\ Resident => phase # "drain" /\ ending # "idle"
           /\ ~Resident => phase # "wait"
BY DEF LoopPhases, Loop!Phases

\* A future is done when its job left the pool.
LEMMA DoneIs == ASSUME NEW S PROVE Loop!Done(S) = S \ InPool
BY DEF Loop!Done, InPool, InQueue

\* What a job that is deferred or failed makes of its row.
LEMMA SetBack ==
    ASSUME Loop!RoundsAssumption, LoopShapes, JobsOnce, NEW t \in Loop!Id,
           Loop!JobDefers(t) \/ Loop!JobFails(t)
    PROVE  /\ tasks'[t].status # "running" /\ Loop!Id' = Loop!Id
           /\ \A u \in Loop!Id \ {t} : tasks'[u] = tasks[u]
<1>1. Stays(t) BY StayingSteps
<1>2. Loop!Id' = Loop!Id /\ \A u \in Loop!Id \ {t} : tasks'[u] = tasks[u]
  BY <1>1, OneRowIs DEF Stays, Loop!Id
<1>3. t \in DOMAIN tasks /\ tasks[t] \in LoopRow
  BY ElementOfSeq, LenProperties DEF LoopShapes, RowsTyped, Loop!Id
<1>4. CASE Loop!JobDefers(t)
  <2>1. PICK o \in {"defer", "delay"} :
          tasks' = [tasks EXCEPT ![t].status = "queued",
                                 ![t].retry = IF o = "delay" THEN "later" ELSE "none"]
    BY <1>4 DEF Loop!JobDefers
  <2>2. tasks'[t] = [tasks[t] EXCEPT !.status = "queued",
                                     !.retry = IF o = "delay" THEN "later" ELSE "none"]
    BY <1>3, <2>1
  <2> QED BY <1>2, <1>3, <2>2 DEF LoopRow
<1>5. CASE Loop!JobFails(t)
  <2>1. PICK o \in {"fail", "failLater"} :
          tasks' = [tasks EXCEPT ![t] = Loop!Failed(tasks[t], o)]
    BY <1>5 DEF Loop!JobFails
  <2>2. tasks'[t] = Loop!Failed(tasks[t], o) BY <1>3, <2>1
  <2> QED BY <1>2, <1>3, <2>2 DEF LoopRow, Loop!Failed
<1> QED BY <1>4, <1>5

\* When a run found nothing to do there is nothing to do.
LEMMA LoopIdleNext ==
    ASSUME Loop!RoundsAssumption, Loop!NamedOnce, LoopShapes, LoopPhases, JobsOnce, StepsKept,
           LoopIdle, [Loop!Next]_Loop!vars
    PROVE  LoopIdle'
<1>1. \A t \in Loop!Id : tasks[t] \in LoopRow
  BY ElementOfSeq DEF LoopShapes, RowsTyped, Loop!Id
<1>2. /\ phase \notin {"closing", "over"} => ending \notin {"idle", "capped"}
      /\ phase # "tick" => listed = {}
      /\ Resident => phase # "drain" /\ ending # "idle"
      /\ ~Resident => phase # "wait"
  BY PhaseFacts
<1>3. raises \in Nat BY DEF LoopShapes
<1>4. ASSUME UNCHANGED <<queue, running>> PROVE InPool' = InPool
  BY <1>4 DEF InPool, InQueue
<1>5. ASSUME UNCHANGED tasks PROVE Loop!Id' = Loop!Id
  BY <1>5 DEF Loop!Id
<1> USE DEF Loop!pool, Loop!history, Loop!End
<1>6. CASE \/ UNCHANGED Loop!vars \/ Loop!CapReached \/ Loop!Release \/ Loop!EndTick
           \/ Loop!DrainRaises \/ Loop!Stop
  <2>1. UNCHANGED <<tasks, raises>> /\ InPool' = InPool /\ Loop!Id' = Loop!Id
    BY <1>4, <1>5, <1>6 DEF Loop!vars, Loop!CapReached, Loop!Release, Loop!EndTick,
       Loop!DrainRaises, Loop!Stop
  <2>2. CASE UNCHANGED Loop!vars
    BY <2>1, <2>2 DEF Loop!vars, Loop!sched, LoopIdle, Stands
  <2>3. CASE Loop!CapReached \/ Loop!DrainRaises \/ Loop!Stop
    BY <2>1, <2>3 DEF Loop!CapReached, Loop!DrainRaises, Loop!Stop, LoopIdle, Stands
  <2>4. CASE Loop!Release
    BY <1>2, <2>1, <2>4 DEF Loop!Release, LoopIdle, Stands
  <2>5. CASE Loop!EndTick
    BY <1>2, <2>1, <2>5 DEF Loop!EndTick, LoopIdle, Stands
  <2> QED BY <1>6, <2>2, <2>3, <2>4, <2>5
<1>7. CASE Loop!Drained
  <2>1. /\ UNCHANGED <<tasks, raises, listed>> /\ InPool' = InPool /\ Loop!Id' = Loop!Id
        /\ phase = "drain" /\ ~Resident /\ Loop!Done(pending) = pending /\ pending' = {}
    BY <1>2, <1>4, <1>5, <1>7 DEF Loop!Drained
  <2>2. InPool = {} BY <2>1, DoneIs DEF LoopIdle
  <2>3. CASE progressed = 0
    <3>1. phase' = "closing" /\ Stands BY <1>7, <2>1, <2>3 DEF Loop!Drained, Stands
    <3> QED BY <2>1, <2>2, <3>1 DEF LoopIdle
  <2>4. CASE progressed # 0
    <3>1. phase' = "start" /\ ending' = ending BY <1>7, <2>4 DEF Loop!Drained
    <3>2. ~Stands' BY <1>2, <2>1, <3>1 DEF Stands
    <3> QED BY <2>1, <2>2, <3>1, <3>2 DEF LoopIdle
  <2> QED BY <2>3, <2>4
<1>8. CASE Loop!NextRound
  <2> DEFINE c == {t \in Loop!Id : t \in old \ inflight /\ tasks[t].status = "running"}
  <2>1. /\ UNCHANGED <<raises, ending>> /\ InPool' = InPool /\ Resident
        /\ tasks' = RowsQueued(c)
    BY <1>4, <1>8 DEF Loop!NextRound, RowsQueued
  <2>2. Loop!Id' = Loop!Id BY <2>1, RowsQueuedIs DEF Loop!Id
  <2>3. \A t \in Loop!Id : tasks'[t].status = "running" => tasks[t].status = "running"
    BY <1>1, <2>1 DEF RowsQueued, LoopRow
  <2>4. ~Stands' BY <1>2, <2>1 DEF Stands
  <2> QED BY <2>1, <2>2, <2>3, <2>4 DEF LoopIdle
<1>9. CASE Loop!BeginTick
  <2> DEFINE due == {t \in Loop!Id : tasks[t].status = "failed" /\ Loop!Due(tasks[t])}
  <2>1. /\ UNCHANGED <<raises, ending, pending>> /\ InPool' = InPool
        /\ tasks' = RowsQueued(due) /\ phase = "start" /\ phase' = "tick"
        /\ progressed' = Loop!Cardinality(due) /\ load' = Loop!LoadNow
        /\ listed' = {t \in Loop!Id : tasks'[t].status = "queued" /\ Loop!Due(tasks'[t])}
    BY <1>4, <1>9 DEF Loop!BeginTick, RowsQueued
  <2>2. \A t \in due : tasks[t].status # "completed" OBVIOUS
  <2>3. Loop!Id' = Loop!Id BY <2>1, <2>2, RowsQueuedIs DEF Loop!Id
  <2>4. \A t \in Loop!Id : tasks'[t].status = "running" => tasks[t].status = "running"
    BY <1>1, <2>1 DEF RowsQueued, LoopRow
  <2>5. ASSUME raises' = 0, Stands'
        PROVE  /\ InPool' = {} /\ \A s \in Name : load'[s] = 0
               /\ \A t \in Loop!Id : Waits(tasks'[t]) \/ t \in listed'
    <3>1. ~Resident /\ progressed' = 0 BY <1>2, <2>1, <2>5 DEF Stands
    <3>2. InPool = {} BY <2>1, <3>1 DEF LoopIdle
    <3>3. \A t \in Loop!Id : tasks[t].status # "running" BY <2>1, <2>5, <3>2 DEF LoopIdle
    <3>4. \A s \in Name : load'[s] = 0
      <4>1. \A s \in Name : {t \in Loop!Id : tasks[t].status = "running" /\ tasks[t].step = s} = {}
        BY <3>3
      <4>2. Loop!Cardinality({}) = 0 BY LoopSets, FS_EmptySet
      <4> QED BY <2>1, <4>1, <4>2 DEF Loop!LoadNow
    <3>5. due = {}
      <4>1. IsFiniteSet(due) /\ Cardinality(due) = 0 BY <2>1, <3>1, SetsFinite, LoopSets
      <4> QED BY <4>1, FS_EmptySet
    <3>6. ASSUME NEW t \in Loop!Id PROVE Waits(tasks'[t]) \/ t \in listed'
      <4>1. tasks'[t] = tasks[t] BY <2>1, <3>5 DEF RowsQueued
      <4>2. tasks[t].retry \in {"none", "now", "later", "past"} BY <1>1 DEF LoopRow
      <4>3. tasks[t].status = "failed" => tasks[t].retry = "later"
        BY <3>5, <4>2 DEF Loop!Due
      <4>4. tasks[t].status = "queued" => tasks[t].retry = "later" \/ t \in listed'
        BY <2>1, <4>1, <4>2 DEF Loop!Due
      <4> QED BY <4>1, <4>3, <4>4 DEF Waits
    <3> QED BY <2>1, <3>2, <3>4, <3>6
  <2> QED BY <2>1, <2>3, <2>4, <2>5 DEF LoopIdle
<1>10. ASSUME NEW t \in Loop!Id, Loop!PassOver(t)
       PROVE  LoopIdle'
  <2>1. /\ UNCHANGED <<tasks, raises, phase, ending, progressed, pending, load>>
        /\ InPool' = InPool /\ Loop!Id' = Loop!Id /\ phase = "tick" /\ Loop!Full(t)
    BY <1>4, <1>5, <1>10 DEF Loop!PassOver
  <2>2. ~(raises = 0 /\ Stands)
    <3> SUFFICES ASSUME raises = 0, Stands PROVE FALSE OBVIOUS
    <3>1. tasks[t].step \in Name BY <1>1 DEF LoopRow
    <3>2. load[tasks[t].step] = 0 BY <2>1, <3>1 DEF LoopIdle
    <3> QED BY <2>1, <3>1, <3>2 DEF Loop!Full, Loop!RoundsAssumption
  <2> QED BY <2>1, <2>2 DEF LoopIdle, Stands
<1>11. ASSUME NEW t \in Loop!Id, Loop!Skip(t)
       PROVE  LoopIdle'
  <2>1. /\ tasks' = [tasks EXCEPT ![t] = Loop!Advanced(tasks[t])] /\ InPool' = InPool
        /\ t \in listed /\ UNCHANGED <<raises, phase, ending, pending>> /\ phase = "tick"
        /\ progressed' = progressed + 1
    BY <1>4, <1>11 DEF Loop!Skip, Loop!SkipCounts
  <2>2. Loop!Advanced(tasks[t]) \in LoopRow /\ Loop!Advanced(tasks[t]).status # "running"
    <3>1. tasks[t].status # "completed" /\ OnItsWay(tasks[t], passed[t]) /\ passed[t] \in Seq(Name)
      BY <2>1, ElementOfSeq DEF JobsOnce, StepsKept, LoopShapes, RowsTyped, Loop!Id
    <3> QED BY <1>1, <3>1, AdvanceKeeps
  <2>3. /\ Loop!Id' = Loop!Id
        /\ \A u \in Loop!Id : tasks'[u].status = "running" => tasks[u].status = "running"
    BY <2>1, <2>2, OneRowIs DEF Loop!Id
  <2>4. ~Stands' BY <1>2, <2>1 DEF Stands, LoopShapes
  <2> QED BY <2>1, <2>3, <2>4 DEF LoopIdle
<1>12. ASSUME NEW t \in Loop!Id, Loop!Claim(t) \/ Loop!ThreadRefused(t)
       PROVE  LoopIdle'
  <2>1. /\ queue' = Append(queue, t) /\ UNCHANGED <<running, raises>> /\ tasks[t].status = "queued"
        /\ tasks' = [tasks EXCEPT ![t] = [tasks[t] EXCEPT !.status = "running", !.retry = "none"]]
        /\ phase = "tick"
    BY <1>12 DEF Loop!Claim, Loop!ThreadRefused, Loop!Claims, JobsOnce
  <2>2. InPool' = InPool \cup {t} BY <2>1, JobSubmitted
  <2>3. [tasks[t] EXCEPT !.status = "running", !.retry = "none"] \in LoopRow
    BY <1>1 DEF LoopRow
  <2>4. Loop!Id' = Loop!Id /\ \A u \in Loop!Id \ {t} : tasks'[u] = tasks[u]
    BY <2>1, <2>3, OneRowIs DEF Loop!Id
  <2>5. raises' = 0 => \A u \in Loop!Id' : tasks'[u].status = "running" => u \in InPool'
    BY <2>1, <2>2, <2>4 DEF LoopIdle
  <2>6. CASE Loop!Claim(t)
    <3>1. /\ UNCHANGED <<phase, ending>> /\ progressed' = progressed + 1
          /\ pending' = (pending \ Loop!Done(pending)) \cup {t}
      BY <2>6 DEF Loop!Claim
    <3>2. ~Stands' BY <1>2, <2>1, <3>1 DEF Stands, LoopShapes
    <3>3. InPool \subseteq pending => InPool' \subseteq pending' BY <2>2, <3>1, DoneIs
    <3> QED BY <2>1, <2>5, <3>1, <3>2, <3>3 DEF LoopIdle
  <2>7. CASE Loop!ThreadRefused(t)
    <3>1. IF Resident THEN phase' = "wait" /\ ending' = ending
                      ELSE phase' = "closing" /\ ending' = "raised"
      BY <2>7 DEF Loop!ThreadRefused
    <3>2. ~Stands' /\ phase' \notin {"start", "tick", "drain"} BY <1>2, <2>1, <3>1 DEF Stands
    <3> QED BY <2>5, <3>1, <3>2 DEF LoopIdle
  <2> QED BY <1>12, <2>6, <2>7
<1>13. CASE Loop!JobStart
  <2>1. UNCHANGED <<tasks, raises, phase, ending, progressed, pending, load, listed>>
        /\ InPool' = InPool /\ Loop!Id' = Loop!Id
    BY <1>5, <1>13, JobTaken DEF Loop!JobStart, Loop!sched
  <2> QED BY <2>1 DEF LoopIdle, Stands
<1>14. ASSUME NEW t \in Loop!Id, NEW kept, Loop!JobOver(t, kept), raises \in Nat,
              \/ raises' = raises /\ \A u \in Loop!Id' : tasks'[u].status = "running" =>
                                          u \in Loop!Id \ {t} /\ tasks[u].status = "running"
              \/ raises' = raises + 1
       PROVE  LoopIdle'
  <2>1. InPool' = InPool \ {t} /\ t \in InPool BY <1>14, JobEnded
  <2>2. UNCHANGED <<phase, ending, progressed, pending>> BY <1>14 DEF Loop!JobOver, Loop!sched
  <2>3. ~(raises' = 0 /\ Stands') BY <1>14, <2>1, <2>2 DEF LoopIdle, Stands
  <2> QED BY <1>14, <2>1, <2>2, <2>3 DEF LoopIdle
<1>15. ASSUME NEW t \in Loop!Id, Loop!JobDone(t)
       PROVE  LoopIdle'
  <2>1. /\ \A u \in Loop!Id : tasks'[u] = IF u = t THEN Loop!Advanced(tasks[t]) ELSE tasks[u]
        /\ \A u \in 1 .. Len(tasks') : u > Len(tasks) =>
              \E w \in DOMAIN Workflows : tasks'[u] = Loop!Row(w)
        /\ Len(tasks) \in Nat
    BY <1>15, SuccessIs, LenProperties DEF LoopShapes, RowsTyped
  <2>2. Loop!Advanced(tasks[t]).status # "running"
    <3>1. tasks[t].status # "completed" /\ OnItsWay(tasks[t], passed[t]) /\ passed[t] \in Seq(Name)
      BY <1>15, ElementOfSeq DEF JobsOnce, InPool, StepsKept, LoopShapes, RowsTyped, Loop!Id,
         Loop!JobDone, Loop!JobOver
    <3> QED BY <1>1, <3>1, AdvanceKeeps
  <2>3. \A u \in 1 .. Len(tasks') : u \in Loop!Id \/ u > Len(tasks) BY <2>1 DEF Loop!Id
  <2>4. \A u \in 1 .. Len(tasks') : tasks'[u].status = "running" =>
            u \in Loop!Id \ {t} /\ tasks[u].status = "running"
    BY <2>1, <2>2, <2>3, NewRowKept
  <2>5. Loop!JobOver(t, FALSE) /\ raises' = raises BY <1>15 DEF Loop!JobDone
  <2> QED BY <1>3, <1>14, <2>4, <2>5 DEF Loop!Id
<1>16. ASSUME NEW t \in Loop!Id, Loop!JobDefers(t) \/ Loop!JobFails(t)
       PROVE  LoopIdle'
  <2>1. Loop!JobOver(t, FALSE) /\ raises' = raises BY <1>16 DEF Loop!JobDefers, Loop!JobFails
  <2> QED BY <1>3, <1>14, <1>16, <2>1, SetBack
<1>17. ASSUME NEW t \in Loop!Id, Loop!JobRaises(t)
       PROVE  LoopIdle'
  BY <1>3, <1>14, <1>17 DEF Loop!JobRaises
<1>18. ASSUME NEW t \in Loop!Id, Loop!DelayEnds(t)
       PROVE  LoopIdle'
  <2> DEFINE new == [tasks[t] EXCEPT !.retry = "past"]
  <2>1. /\ tasks' = [tasks EXCEPT ![t] = new] /\ InPool' = InPool
        /\ UNCHANGED <<raises, phase, ending, progressed, pending, load, listed>>
    BY <1>4, <1>18 DEF Loop!DelayEnds, Loop!sched
  <2>2. new \in LoopRow /\ new.status = tasks[t].status /\ new.retry = "past"
    BY <1>1 DEF LoopRow
  <2> HIDE DEF new
  <2>3. Loop!Id' = Loop!Id /\ \A u \in Loop!Id : tasks'[u] = IF u = t THEN new ELSE tasks[u]
    BY <2>1, <2>2, OneRowIs DEF Loop!Id
  <2> QED BY <2>1, <2>2, <2>3 DEF LoopIdle, Stands, Waits
<1>19. ASSUME NEW t \in Loop!Id, Loop!HeartbeatAges(t)
       PROVE  LoopIdle'
  <2>1. /\ UNCHANGED <<tasks, raises, phase, ending, progressed, pending, load, listed>>
        /\ InPool' = InPool /\ Loop!Id' = Loop!Id
    BY <1>4, <1>5, <1>19 DEF Loop!HeartbeatAges, Loop!sched
  <2> QED BY <2>1 DEF LoopIdle, Stands
<1> QED BY <1>6, <1>7, <1>8, <1>9, <1>10, <1>11, <1>12, <1>13, <1>15, <1>16, <1>17, <1>18, <1>19
        DEF Loop!Next, Loop!Schedule, Loop!JobEnds

\* The longest workflow, and the steps tasks passed, each once.
Longest == CHOOSE n \in {Len(Workflows[w]) : w \in DOMAIN Workflows} :
              \A w \in DOMAIN Workflows : Len(Workflows[w]) =< n

PassedSteps == {p \in Loop!Id \X (1 .. Longest) : p[2] <= Len(passed[p[1]])}

\* The cap is more than all the steps there are, and until one is run again every round but
\* the last passes a step.
LoopCap ==
    /\ cap = Len(tasks) * Longest + Slack
    /\ ~again =>
         /\ raises = 0
         /\ \A t \in Loop!Id : tasks[t].status \in {"queued", "running", "completed"}
         /\ ending # "idle" => rounds <= Cardinality(PassedSteps)
         /\ phase \in {"tick", "drain"} /\ progressed # 0 =>
               rounds < Cardinality(PassedSteps) \/ InPool # {}
    /\ ending = "capped" => again

\* No workflow is longer.
LEMMA LongestIs ==
    ASSUME Loop!RoundsAssumption
    PROVE  Longest \in Nat /\ \A w \in DOMAIN Workflows : Len(Workflows[w]) =< Longest
<1>1. \A w \in DOMAIN Workflows : Len(Workflows[w]) \in Nat
  BY LenProperties DEF Loop!RoundsAssumption
<1>2. PICK w \in DOMAIN Workflows :
        \A v \in DOMAIN Workflows : Len(Workflows[v]) =< Len(Workflows[w])
  BY DEF Loop!RoundsAssumption
<1> DEFINE lengths == {Len(Workflows[v]) : v \in DOMAIN Workflows}
           Bounds(n) == \A v \in DOMAIN Workflows : Len(Workflows[v]) =< n
<1>3. \E n \in lengths : Bounds(n) BY <1>2
<1>4. Longest = CHOOSE n \in lengths : Bounds(n) BY DEF Longest
<1>5. \A n \in lengths : n \in Nat BY <1>1
<1> HIDE DEF lengths
<1>6. Longest \in lengths /\ Bounds(Longest) BY <1>3, <1>4
<1> QED BY <1>5, <1>6

\* There are at most as many steps to pass as tasks times the longest workflow.
LEMMA PassedIsBounded ==
    ASSUME Loop!RoundsAssumption, LoopShapes
    PROVE  /\ IsFiniteSet(PassedSteps) /\ Cardinality(PassedSteps) \in Nat
           /\ Cardinality(PassedSteps) <= Len(tasks) * Longest
<1>1. Len(tasks) \in Nat /\ Longest \in Nat
  BY LongestIs, LenProperties DEF LoopShapes, RowsTyped
<1>2. IsFiniteSet(Loop!Id) /\ Cardinality(Loop!Id) = Len(tasks)
  BY <1>1, FirstNumbers DEF Loop!Id
<1>3. IsFiniteSet(1 .. Longest) /\ Cardinality(1 .. Longest) = Longest BY <1>1, FirstNumbers
<1>4. /\ IsFiniteSet(Loop!Id \X (1 .. Longest))
      /\ Cardinality(Loop!Id \X (1 .. Longest)) = Len(tasks) * Longest
  BY ZenonT(30), <1>2, <1>3, FS_Product
<1>5. PassedSteps \subseteq Loop!Id \X (1 .. Longest) BY DEF PassedSteps
<1> QED BY <1>4, <1>5, FS_Subset, FS_CardinalityType

\* To pass a step is to add one to them.
LEMMA PassedGrows ==
    ASSUME Loop!RoundsAssumption, LoopShapes, StepsKept, NEW t \in Loop!Id,
           tasks[t].status # "completed", NEW s \in Name, Loop!Id' = Loop!Id,
           \A u \in Loop!Id : passed'[u] = IF u = t THEN Append(passed[t], s) ELSE passed[u]
    PROVE  Cardinality(PassedSteps') = Cardinality(PassedSteps) + 1
<1> DEFINE n == Len(passed[t]) + 1
<1>1. tasks[t] \in LoopRow /\ \A u \in Loop!Id : passed[u] \in Seq(Name)
  BY ElementOfSeq DEF LoopShapes, RowsTyped, Loop!Id
<1>2. \A u \in Loop!Id : Len(passed[u]) \in Nat BY <1>1, LenProperties
<1>3. n \in 1 .. Longest
  <2>1. tasks[t].wf \in DOMAIN Workflows BY <1>1 DEF LoopRow
  <2>2. Len(Workflows[tasks[t].wf]) \in Nat /\ Longest \in Nat
        /\ Len(Workflows[tasks[t].wf]) =< Longest
    BY <2>1, LongestIs, LenProperties DEF Loop!RoundsAssumption
  <2>3. Len(passed[t]) < Len(Workflows[tasks[t].wf]) BY DEF StepsKept, OnItsWay
  <2> QED BY <1>2, <2>2, <2>3
<1>4. Len(passed'[t]) = n /\ \A u \in Loop!Id \ {t} : passed'[u] = passed[u]
  <2>1. passed'[t] = Append(passed[t], s) /\ \A u \in Loop!Id \ {t} : passed'[u] = passed[u]
    OBVIOUS
  <2>2. Len(Append(passed[t], s)) = n BY <1>1, AppendProperties
  <2> QED BY <2>1, <2>2
<1>5. PassedSteps' = {p \in Loop!Id \X (1 .. Longest) : p[2] <= Len(passed'[p[1]])}
  BY DEF PassedSteps
<1>6. <<t, n>> \notin PassedSteps BY <1>2 DEF PassedSteps
<1>7. PassedSteps' = PassedSteps \cup {<<t, n>>}
  <2>1. ASSUME NEW u \in Loop!Id, NEW i \in 1 .. Longest
        PROVE  <<u, i>> \in PassedSteps' <=> <<u, i>> \in PassedSteps \/ <<u, i>> = <<t, n>>
    <3>1. CASE u = t
      <4>1. i <= n <=> i <= Len(passed[t]) \/ i = n BY <1>2
      <4> QED BY <1>4, <1>5, <3>1, <4>1 DEF PassedSteps
    <3>2. CASE u # t BY <1>4, <1>5, <3>2 DEF PassedSteps
    <3> QED BY <3>1, <3>2
  <2>2. PassedSteps \subseteq Loop!Id \X (1 .. Longest) BY DEF PassedSteps
  <2>3. PassedSteps' \subseteq Loop!Id \X (1 .. Longest) BY <1>5
  <2>4. <<t, n>> \in Loop!Id \X (1 .. Longest) BY <1>3
  <2> HIDE DEF n
  <2> QED BY <2>1, <2>2, <2>3, <2>4
<1>8. IsFiniteSet(PassedSteps) BY PassedIsBounded
<1> HIDE DEF n
<1> QED BY <1>6, <1>7, <1>8, FS_AddElement

\* Until a step is run again every round but the last passes a step.
LEMMA LoopCapNext ==
    ASSUME Loop!RoundsAssumption, Loop!NamedOnce, Loop!NoneJoin, LoopShapes, LoopPhases,
           JobsOnce, StepsKept, LoopIdle, LoopCap, ~Resident, [Loop!Next]_Loop!vars
    PROVE  LoopCap'
<1> DEFINE passedNow == Cardinality(PassedSteps)
<1>1. /\ \A t \in Loop!Id : tasks[t] \in LoopRow /\ passed[t] \in Seq(Name)
      /\ Len(tasks) \in Nat
  BY ElementOfSeq, LenProperties DEF LoopShapes, RowsTyped, Loop!Id
<1>2. /\ phase \notin {"closing", "over"} => ending \notin {"idle", "capped"}
      /\ phase # "wait"
  BY PhaseFacts
<1>3. passedNow \in Nat /\ passedNow <= Len(tasks) * Longest BY PassedIsBounded
<1>4. ASSUME UNCHANGED <<queue, running>> PROVE InPool' = InPool
  BY <1>4 DEF InPool, InQueue
<1>5. ASSUME Len(tasks') = Len(tasks), UNCHANGED passed PROVE PassedSteps' = PassedSteps
  BY <1>5 DEF PassedSteps, Loop!Id
<1>6. ASSUME Len(tasks') = Len(tasks) PROVE Loop!Id' = Loop!Id
  BY <1>6 DEF Loop!Id
<1> USE DEF Loop!pool, Loop!history, Loop!End
<1>7. CASE UNCHANGED Loop!vars \/ Loop!Release \/ Loop!EndTick \/ Loop!DrainRaises
  <2>1. /\ UNCHANGED <<tasks, passed, cap, again, raises, rounds>> /\ InPool' = InPool
        /\ Loop!Id' = Loop!Id /\ PassedSteps' = PassedSteps
    BY <1>4, <1>5, <1>6, <1>7 DEF Loop!vars, Loop!Release, Loop!EndTick, Loop!DrainRaises,
       Loop!sched
  <2>2. CASE UNCHANGED Loop!vars
    BY <2>1, <2>2 DEF Loop!vars, Loop!sched, LoopCap
  <2>3. CASE Loop!Release BY <2>1, <2>3 DEF Loop!Release, LoopCap
  <2>4. CASE Loop!EndTick BY <2>1, <2>4 DEF Loop!EndTick, LoopCap
  <2>5. CASE Loop!DrainRaises BY <1>2, <2>1, <2>5 DEF Loop!DrainRaises, LoopCap
  <2> QED BY <1>7, <2>2, <2>3, <2>4, <2>5
<1>8. CASE Loop!CapReached
  <2>1. /\ UNCHANGED <<tasks, passed, cap, again, raises, rounds>>
        /\ Loop!Id' = Loop!Id /\ PassedSteps' = PassedSteps
        /\ phase = "start" /\ phase' = "closing" /\ ending' = "capped" /\ ~(rounds < cap)
    BY <1>5, <1>6, <1>8 DEF Loop!CapReached, Loop!MayGoOn
  <2>2. again
    <3>1. SUFFICES ASSUME ~again PROVE FALSE BY DEF LoopShapes
    <3>2. rounds <= passedNow /\ rounds \in Nat BY <1>2, <2>1, <3>1 DEF LoopCap, LoopShapes
    <3>3. Len(tasks) * Longest \in Nat BY <1>1, LongestIs
    <3>4. cap = Len(tasks) * Longest + Slack /\ Slack \in Nat /\ Slack > 0
      BY DEF LoopCap, Loop!RoundsAssumption
    <3> HIDE DEF passedNow
    <3> QED BY <1>3, <2>1, <3>2, <3>3, <3>4
  <2> QED BY <2>1, <2>2 DEF LoopCap
<1>9. CASE Loop!Drained
  <2>1. /\ UNCHANGED <<tasks, passed, cap, again, raises, progressed>> /\ InPool' = InPool
        /\ Loop!Id' = Loop!Id /\ PassedSteps' = PassedSteps
        /\ phase = "drain" /\ Loop!Done(pending) = pending
        /\ rounds' = IF rounds < cap THEN rounds + 1 ELSE rounds
    BY <1>4, <1>5, <1>6, <1>9 DEF Loop!Drained
  <2>2. InPool = {} BY <2>1, DoneIs DEF LoopIdle
  <2>3. CASE progressed = 0
    <3>1. phase' = "closing" /\ ending' = "idle" BY <1>9, <2>3 DEF Loop!Drained
    <3> QED BY <2>1, <3>1 DEF LoopCap
  <2>4. CASE progressed # 0
    <3>1. phase' = "start" /\ ending' = ending BY <1>9, <2>4 DEF Loop!Drained
    <3>2. ~again => rounds < passedNow BY <2>1, <2>2, <2>4 DEF LoopCap
    <3>3. ~again => rounds' <= passedNow BY <1>3, <2>1, <3>2 DEF LoopShapes
    <3> QED BY <2>1, <3>1, <3>3 DEF LoopCap
  <2> QED BY <2>3, <2>4
<1>10. CASE Loop!BeginTick
  <2> DEFINE due == {t \in Loop!Id : tasks[t].status = "failed" /\ Loop!Due(tasks[t])}
  <2>1. /\ UNCHANGED <<passed, cap, again, raises, rounds, ending>> /\ tasks' = RowsQueued(due)
        /\ progressed' = Loop!Cardinality(due)
    BY <1>10 DEF Loop!BeginTick, RowsQueued
  <2>2. \A t \in due : tasks[t].status # "completed" OBVIOUS
  <2>3. Len(tasks') = Len(tasks) BY <2>1, <2>2, RowsQueuedIs
  <2>4. ~again => /\ progressed' = 0 /\ \A t \in Loop!Id : tasks'[t] = tasks[t]
    <3>1. SUFFICES ASSUME ~again PROVE progressed' = 0 /\ \A t \in Loop!Id : tasks'[t] = tasks[t]
      OBVIOUS
    <3>2. due = {} BY <3>1 DEF LoopCap
    <3>3. progressed' = 0 BY <2>1, <3>2, LoopSets, FS_EmptySet
    <3>4. \A t \in Loop!Id : RowsQueued(due)[t] = tasks[t] BY <3>2 DEF RowsQueued
    <3> QED BY <2>1, <3>3, <3>4
  <2> QED BY <1>5, <1>6, <2>1, <2>3, <2>4 DEF LoopCap
<1>11. ASSUME NEW t \in Loop!Id, Loop!PassOver(t)
       PROVE  LoopCap'
  <2>1. /\ UNCHANGED <<tasks, passed, cap, again, raises, rounds, phase, ending, progressed>>
        /\ InPool' = InPool /\ Loop!Id' = Loop!Id /\ PassedSteps' = PassedSteps
    BY <1>4, <1>5, <1>6, <1>11 DEF Loop!PassOver
  <2> QED BY <2>1 DEF LoopCap
<1>12. ASSUME NEW t \in Loop!Id, tasks[t].status # "completed", UNCHANGED <<cap, again, raises, rounds, ending>>,
              Len(tasks') = Len(tasks),
              \A u \in Loop!Id :
                 /\ tasks'[u] = IF u = t THEN Loop!Advanced(tasks[t]) ELSE tasks[u]
                 /\ passed'[u] = IF u = t THEN Append(passed[t], tasks[t].step) ELSE passed[u],
              ~again => ending # "idle"
       PROVE  LoopCap'
  <2>1. tasks[t].step \in Name BY <1>1 DEF LoopRow
  <2>2. OnItsWay(tasks[t], passed[t]) BY DEF StepsKept
  <2>3. Loop!Advanced(tasks[t]).status \in {"queued", "completed"}
    BY <1>1, <1>12, <2>2, AdvanceKeeps
  <2>4. Loop!Id' = Loop!Id BY <1>6, <1>12
  <2>5. Cardinality(PassedSteps') = passedNow + 1 BY <1>12, <2>1, <2>4, PassedGrows
  <2>6. ~again => rounds' < Cardinality(PassedSteps') /\ rounds' <= Cardinality(PassedSteps')
    <3>1. ~again => rounds <= passedNow BY <1>12 DEF LoopCap
    <3> HIDE DEF passedNow
    <3> QED BY <1>3, <1>12, <2>5, <3>1 DEF LoopShapes
  <2> QED BY <1>12, <2>3, <2>4, <2>6 DEF LoopCap
<1>13. ASSUME NEW t \in Loop!Id, Loop!Skip(t)
       PROVE  LoopCap'
  <2>1. /\ tasks' = [tasks EXCEPT ![t] = Loop!Advanced(tasks[t])] /\ t \in listed
        /\ passed' = [passed EXCEPT ![t] = Append(passed[t], tasks[t].step)]
        /\ phase = "tick" /\ UNCHANGED <<cap, again, raises, rounds, ending>>
    BY <1>13 DEF Loop!Skip
  <2>2. tasks[t].status # "completed" /\ OnItsWay(tasks[t], passed[t])
    BY <2>1 DEF JobsOnce, StepsKept
  <2>3. Loop!Advanced(tasks[t]) \in LoopRow BY <1>1, <2>2, AdvanceKeeps
  <2>4. /\ Len(tasks') = Len(tasks)
        /\ \A u \in Loop!Id : tasks'[u] = IF u = t THEN Loop!Advanced(tasks[t]) ELSE tasks[u]
    BY <2>1, <2>3, OneRowIs
  <2>5. \A u \in Loop!Id :
           passed'[u] = IF u = t THEN Append(passed[t], tasks[t].step) ELSE passed[u]
    BY <2>1 DEF LoopShapes, RowsTyped, Loop!Id
  <2> QED BY <1>2, <1>12, <2>1, <2>2, <2>4, <2>5
<1>14. ASSUME NEW t \in Loop!Id, Loop!JobDone(t)
       PROVE  LoopCap'
  <2>1. t \in running /\ UNCHANGED <<cap, again, raises, rounds, ending>>
    BY <1>14 DEF Loop!JobDone, Loop!JobOver, Loop!sched
  <2>2. tasks[t].status # "completed" /\ tasks[t].step \in Name
    BY <1>1, <2>1 DEF JobsOnce, InPool, LoopRow
  <2>3. Len(Spawns[tasks[t].step]) = 0 BY <2>2, EmptySeq DEF Loop!NoneJoin
  <2>4. /\ Len(tasks') = Len(tasks)
        /\ \A u \in Loop!Id :
              /\ tasks'[u] = IF u = t THEN Loop!Advanced(tasks[t]) ELSE tasks[u]
              /\ passed'[u] = IF u = t THEN Append(passed[t], tasks[t].step) ELSE passed[u]
    BY <1>1, <1>14, <2>3, SuccessIs
  <2>5. ~again => ending # "idle" BY <2>1 DEF LoopCap, LoopIdle, Stands, InPool
  <2> QED BY <1>12, <2>1, <2>2, <2>4, <2>5
<1>15. ASSUME NEW t \in Loop!Id, Loop!Claim(t) \/ Loop!ThreadRefused(t)
       PROVE  LoopCap'
  <2> DEFINE new == [tasks[t] EXCEPT !.status = "running", !.retry = "none"]
  <2>1. /\ queue' = Append(queue, t) /\ UNCHANGED <<running, cap, again, raises, rounds, passed>>
        /\ tasks[t].status = "queued" /\ tasks' = [tasks EXCEPT ![t] = new]
        /\ phase = "tick"
    BY <1>15 DEF Loop!Claim, Loop!ThreadRefused, Loop!Claims, JobsOnce
  <2>2. InPool' = InPool \cup {t} BY <2>1, JobSubmitted
  <2>3. new \in LoopRow /\ new.status = "running" BY <1>1 DEF LoopRow
  <2> HIDE DEF new
  <2>4. /\ Len(tasks') = Len(tasks) /\ Loop!Id' = Loop!Id /\ PassedSteps' = PassedSteps
        /\ \A u \in Loop!Id : tasks'[u] = IF u = t THEN new ELSE tasks[u]
    BY <1>5, <1>6, <2>1, <2>3, OneRowIs
  <2>5. ending' = ending \/ ending' = "raised" \/ phase' = "wait"
    BY <1>15 DEF Loop!Claim, Loop!ThreadRefused
  <2>6. ending # "idle" /\ ending' # "capped"
    BY <1>2, <1>15, <2>1 DEF Loop!Claim, Loop!ThreadRefused
  <2> QED BY <2>1, <2>2, <2>3, <2>4, <2>6 DEF LoopCap
<1>16. CASE Loop!JobStart
  <2>1. /\ UNCHANGED <<tasks, passed, cap, again, raises, rounds, phase, ending, progressed>>
        /\ InPool' = InPool /\ Loop!Id' = Loop!Id /\ PassedSteps' = PassedSteps
    BY <1>5, <1>6, <1>16, JobTaken DEF Loop!JobStart, Loop!sched
  <2> QED BY <2>1 DEF LoopCap
<1>17. ASSUME NEW t \in Loop!Id, Loop!JobDefers(t) \/ Loop!JobFails(t) \/ Loop!JobRaises(t)
       PROVE  LoopCap'
  <2>1. again' = TRUE /\ cap' = cap
    BY <1>17 DEF Loop!JobDefers, Loop!JobFails, Loop!JobRaises, Loop!JobOver, Loop!sched
  <2>2. Stays(t) \/ tasks' = tasks BY <1>17, StayingSteps DEF Loop!JobRaises
  <2>3. Len(tasks') = Len(tasks) BY <2>2, OneRowIs DEF Stays
  <2> QED BY <2>1, <2>3 DEF LoopCap
<1>18. ASSUME NEW t \in Loop!Id, Loop!DelayEnds(t)
       PROVE  LoopCap'
  <2> DEFINE new == [tasks[t] EXCEPT !.retry = "past"]
  <2>1. /\ tasks' = [tasks EXCEPT ![t] = new] /\ InPool' = InPool
        /\ UNCHANGED <<passed, cap, again, raises, rounds, phase, ending, progressed>>
    BY <1>4, <1>18 DEF Loop!DelayEnds, Loop!sched
  <2>2. new \in LoopRow /\ new.status = tasks[t].status BY <1>1 DEF LoopRow
  <2> HIDE DEF new
  <2>3. /\ Len(tasks') = Len(tasks) /\ Loop!Id' = Loop!Id /\ PassedSteps' = PassedSteps
        /\ \A u \in Loop!Id : tasks'[u] = IF u = t THEN new ELSE tasks[u]
    BY <1>5, <1>6, <2>1, <2>2, OneRowIs
  <2> QED BY <2>1, <2>2, <2>3 DEF LoopCap
<1>19. ASSUME NEW t \in Loop!Id, Loop!HeartbeatAges(t)
       PROVE  LoopCap'
  <2>1. /\ UNCHANGED <<tasks, passed, cap, again, raises, rounds, phase, ending, progressed>>
        /\ InPool' = InPool /\ Loop!Id' = Loop!Id /\ PassedSteps' = PassedSteps
    BY <1>4, <1>5, <1>6, <1>19 DEF Loop!HeartbeatAges, Loop!sched
  <2> QED BY <2>1 DEF LoopCap
<1>20. ~Loop!NextRound /\ ~Loop!Stop BY DEF Loop!NextRound, Loop!Stop
<1> QED BY <1>7, <1>8, <1>9, <1>10, <1>11, <1>13, <1>14, <1>15, <1>16, <1>17, <1>18, <1>19, <1>20
        DEF Loop!Next, Loop!Schedule, Loop!JobEnds

\* The inductive invariant of the rounds.
LoopInv ==
    LoopShapes /\ LoopPhases /\ JobsOnce /\ StepsKept /\ LoopIdle /\ (Resident \/ LoopCap)

\* Every step of the rounds keeps it.
LEMMA LoopStep ==
    ASSUME Loop!RoundsAssumption, Loop!NamedOnce, Loop!NoneJoin
    PROVE  LoopInv /\ [Loop!Next]_Loop!vars => LoopInv'
BY LoopShapesNext, LoopPhasesNext, JobsOnceNext, LoopIdleNext, LoopCapNext DEF LoopInv

\* It holds at first.
LEMMA LoopInit ==
    ASSUME Loop!RoundsAssumption
    PROVE  Loop!Init => LoopInv
<1> SUFFICES ASSUME Loop!Init PROVE LoopInv OBVIOUS
<1>1. /\ TasksGiven \in Seq(DOMAIN Workflows) /\ Len(TasksGiven) \in Nat
      /\ DOMAIN TasksGiven = 1 .. Len(TasksGiven)
      /\ \A i \in 1 .. Len(TasksGiven) : TasksGiven[i] \in DOMAIN Workflows
  BY LenProperties, ElementOfSeq DEF Loop!RoundsAssumption
<1>2. tasks \in Seq(LoopRow) /\ Len(tasks) = Len(TasksGiven)
  <2>1. tasks \in [1 .. Len(TasksGiven) -> LoopRow] BY <1>1, NewRowKept DEF Loop!Init
  <2> QED BY <1>1, <2>1, FunctionIsSeq
<1>3. passed \in Seq(Seq(Name)) /\ Len(passed) = Len(TasksGiven)
  <2>1. passed \in [1 .. Len(TasksGiven) -> Seq(Name)] BY <1>1, EmptySeq DEF Loop!Init
  <2> QED BY <1>1, <2>1, FunctionIsSeq
<1>4. \A t \in Loop!Id : /\ OnItsWay(tasks[t], passed[t]) /\ tasks[t].status = "queued"
  BY <1>1, <1>2, NewRowKept DEF Loop!Id, Loop!Init
<1>5. /\ queue = << >> /\ running = {} /\ listed = {} /\ pending = {} /\ raised = {}
      /\ inflight = {} /\ old = {} /\ threads = 0 /\ progressed = 0 /\ rounds = 0 /\ raises = 0
      /\ again = FALSE /\ phase = "start" /\ load = [s \in Name |-> 0]
      /\ ending \notin {"idle", "capped"}
  BY DEF Loop!Init
<1>6. DOMAIN queue = {} BY <1>5
<1>7. InPool = {} BY <1>5, <1>6 DEF InPool, InQueue
<1>8. LoopShapes
  <2>1. Cardinality(running) = 0 BY <1>5, FS_EmptySet
  <2>2. Size \in Nat BY DEF Loop!RoundsAssumption
  <2>3. queue \in Seq(Loop!Id) BY <1>5, EmptySeq
  <2>4. load \in [Name -> Nat] BY <1>5
  <2>5. threads \in 0 .. Size /\ Cardinality(running) =< threads BY <1>5, <2>1, <2>2
  <2>6. RowsTyped BY <1>2, <1>3 DEF RowsTyped
  <2> QED BY <1>5, <2>3, <2>4, <2>5, <2>6 DEF LoopShapes
<1>9. LoopPhases BY <1>5 DEF Loop!Init, LoopPhases, Loop!Phases
<1>10. JobsOnce BY <1>5, <1>6, <1>7 DEF JobsOnce, InPool, InQueue
<1>11. StepsKept BY <1>4 DEF StepsKept
<1>12. LoopIdle BY <1>4, <1>5, <1>7 DEF LoopIdle, Stands
<1>13. LoopCap
  <2>1. cap = Len(tasks) * Longest + Slack
    BY DEF Loop!Init, Loop!Cap, Longest
  <2>2. Cardinality(PassedSteps) \in Nat BY <1>8, PassedIsBounded
  <2> QED BY <1>4, <1>5, <2>1, <2>2 DEF LoopCap
<1> QED BY <1>8, <1>9, <1>10, <1>11, <1>12, <1>13 DEF LoopInv

\* What it is for.
LEMMA LoopHolds ==
    ASSUME Loop!RoundsAssumption, LoopInv
    PROVE  Loop!RoundsHold
<1> USE DEF LoopInv
<1>1. \A t \in Loop!Id : /\ tasks[t] \in LoopRow /\ passed[t] \in Seq(Name)
                         /\ Len(passed[t]) \in Nat /\ Workflows[tasks[t].wf] \in Seq(Name)
  <2> SUFFICES ASSUME NEW t \in Loop!Id
               PROVE  /\ tasks[t] \in LoopRow /\ passed[t] \in Seq(Name)
                      /\ Len(passed[t]) \in Nat /\ Workflows[tasks[t].wf] \in Seq(Name)
    OBVIOUS
  <2>1. tasks[t] \in LoopRow /\ passed[t] \in Seq(Name)
    BY ElementOfSeq DEF LoopShapes, RowsTyped, Loop!Id
  <2>2. tasks[t].wf \in DOMAIN Workflows BY <2>1 DEF LoopRow
  <2> QED BY <2>1, <2>2, LenProperties DEF Loop!RoundsAssumption
<1>2. Loop!TypeOK
  <2>1. Loop!Cardinality(running) = Cardinality(running) BY LoopSets
  <2>2. phase \in Loop!Phases BY DEF LoopPhases
  <2>3. \A t \in Loop!Id : tasks[t] \in LoopRow BY <1>1
  <2> QED BY <2>1, <2>2, <2>3 DEF LoopShapes, Loop!TypeOK, LoopRow
<1>3. Loop!IdleIsDone
  <2>1. ending = "idle" => listed = {} BY DEF LoopPhases
  <2> QED BY <2>1 DEF LoopIdle, Stands, Waits, Loop!IdleIsDone
<1>4. Loop!CapIsForRepeats BY DEF LoopPhases, LoopCap, Loop!CapIsForRepeats
<1>5. Loop!StepsInOrder
  <2> SUFFICES ASSUME NEW t \in Loop!Id
               PROVE  LET steps == Workflows[tasks[t].wf] IN
                      /\ Len(passed[t]) =< Len(steps)
                      /\ \A i \in DOMAIN passed[t] : passed[t][i] = steps[i]
                      /\ tasks[t].status = "completed" => passed[t] = steps
    BY DEF Loop!StepsInOrder
  <2>1. OnItsWay(tasks[t], passed[t]) BY DEF StepsKept
  <2>2. DOMAIN passed[t] = 1 .. Len(passed[t]) /\ Len(Workflows[tasks[t].wf]) \in Nat
    BY <1>1, LenProperties
  <2> QED BY <1>1, <2>1, <2>2 DEF OnItsWay
<1>6. Loop!NothingRunsUnlocked BY DEF LoopPhases, Loop!NothingRunsUnlocked
<1> QED BY <1>2, <1>3, <1>4, <1>5, <1>6 DEF Loop!RoundsHold

\* runtime.py, coordinator.py: a run ends by itself only when it is done, its cap is for
\* repeated steps, tasks keep to their workflow, and no job outlives the lock; if no workflow
\* repeats a name, and the steps of a run that is to end by itself create no tasks.
THEOREM RoundsCorrect ==
    ASSUME Loop!RoundsAssumption, Loop!NamedOnce, Loop!NoneJoin
    PROVE  Loop!Spec => []Loop!RoundsHold
<1>1. Loop!Init => LoopInv BY LoopInit
<1>2. LoopInv /\ [Loop!Next]_Loop!vars => LoopInv' BY LoopStep
<1>3. LoopInv => Loop!RoundsHold BY LoopHolds
<1> QED BY <1>1, <1>2, <1>3, PTL DEF Loop!Spec

---------------------------------------------------------------------------
(* All of it: what a component promises it promises in every behaviour of   *)
(* the module Processes.                                                    *)

\* A behaviour keeps to its part: a step is one of that part.
LEMMA ProcessSteps ==
    [ProcessNext]_processVars =>
        /\ part' = part
        /\ part = "feed" => [Feed!Next]_Feed!vars
        /\ part = "rounds" => [Loop!Next]_Loop!vars
        /\ part = "daemons" => [Daemon!Next]_Daemon!vars /\ OnlyDaemons
        /\ part = "openers" => [Open!Next]_Open!vars /\ OnlyOpeners
        /\ part = "draft" => [Article!Next]_Article!vars /\ OnlyDraft
<1> SUFFICES ASSUME [ProcessNext]_processVars
             PROVE  /\ part' = part
                    /\ part = "feed" => [Feed!Next]_Feed!vars
                    /\ part = "rounds" => [Loop!Next]_Loop!vars
                    /\ part = "daemons" => [Daemon!Next]_Daemon!vars /\ OnlyDaemons
                    /\ part = "openers" => [Open!Next]_Open!vars /\ OnlyOpeners
                    /\ part = "draft" => [Article!Next]_Article!vars /\ OnlyDraft
  OBVIOUS
<1>1. CASE part = "waiting" /\ Next /\ OnlyItems BY <1>1 DEF OnlyItems
<1>2. CASE part = "feed" /\ Feed!Next /\ OnlyFeed BY <1>2 DEF OnlyFeed
<1>3. CASE part = "rounds" /\ Loop!Next /\ OnlyRounds BY <1>3 DEF OnlyRounds
<1>4. CASE part = "daemons" /\ Daemon!Next /\ OnlyDaemons BY <1>4 DEF OnlyDaemons
<1>5. CASE part = "openers" /\ Open!Next /\ OnlyOpeners BY <1>5 DEF OnlyOpeners
<1>6. CASE part = "draft" /\ Article!Next /\ OnlyDraft BY <1>6 DEF OnlyDraft
<1>7. CASE UNCHANGED processVars
  <2>1. UNCHANGED <<part, vars, feedVars, roundVars, daemonVars, openVars, draftVars>>
    BY <1>7 DEF processVars
  <2>2. OnlyDaemons /\ OnlyOpeners /\ OnlyDraft
    BY <2>1 DEF OnlyDaemons, OnlyOpeners, OnlyDraft
  <2>3. UNCHANGED Feed!vars BY <2>1 DEF feedVars, Feed!vars
  <2>4. UNCHANGED Loop!vars
    BY <2>1 DEF roundVars, Loop!vars, Loop!sched, Loop!pool, Loop!history
  <2>5. UNCHANGED Daemon!vars BY <2>1 DEF daemonVars, Daemon!vars
  <2>6. UNCHANGED Open!vars BY <2>1 DEF openVars, Open!vars
  <2>7. UNCHANGED Article!vars
    BY <2>1 DEF draftVars, Article!vars, Article!remote, Article!budget
  <2> QED BY <2>1, <2>2, <2>3, <2>4, <2>5, <2>6, <2>7
<1> QED BY <1>1, <1>2, <1>3, <1>4, <1>5, <1>6, <1>7 DEF ProcessNext

\* event_log.py: a client that remembers the last id it saw is given every committed event
\* it follows, once and in order, while transactions commit and roll back.
THEOREM FeedStands ==
    ASSUME ProcessesAssumption
    PROVE  ProcessSpec => []NothingMissed
<1> DEFINE Inv == part = "feed" => FeedInv
<1>1. ProcessInit => Inv BY FeedInit DEF ProcessInit, ProcessesAssumption
<1>2. Inv /\ [ProcessNext]_processVars => Inv' BY ProcessSteps, FeedStep DEF ProcessesAssumption
<1>3. Inv => NothingMissed BY DEF NothingMissed, FeedInv
<1> HIDE DEF Inv
<1> QED BY <1>1, <1>2, <1>3, PTL DEF ProcessSpec

\* runtime.py, coordinator.py: a run ends by itself only when it is done, its cap is for
\* repeated steps, tasks keep to their workflow, and no job outlives the lock; if no workflow
\* repeats a name, and the steps of a run that is to end by itself create no tasks.
THEOREM RoundsStand ==
    ASSUME ProcessesAssumption, Loop!NamedOnce, Loop!NoneJoin
    PROVE  ProcessSpec => []RoundsHold
<1> DEFINE Inv == part = "rounds" => LoopInv
<1>1. ProcessInit => Inv BY LoopInit DEF ProcessInit, ProcessesAssumption
<1>2. Inv /\ [ProcessNext]_processVars => Inv' BY ProcessSteps, LoopStep DEF ProcessesAssumption
<1>3. Inv => RoundsHold BY LoopHolds DEF RoundsHold, ProcessesAssumption
<1> HIDE DEF Inv
<1> QED BY <1>1, <1>2, <1>3, PTL DEF ProcessSpec

\* executor_lock.py, cli.py: at most one of the daemons and runs executes, one that is
\* refused leaves the pid file as it is, and the file names the daemon at work.
THEOREM DaemonsStand ==
    ASSUME ProcessesAssumption
    PROVE  ProcessSpec => DaemonsHold
<1> DEFINE Inv == part = "daemons" => DaemonInv
           Kept == part = "daemons" => Daemon!DaemonsHold
<1>1. ProcessInit => Inv BY DaemonInit DEF ProcessInit, ProcessesAssumption
<1>2. Inv /\ [ProcessNext]_processVars => Inv' /\ [Kept]_processVars
  BY ProcessSteps, DaemonStep DEF ProcessesAssumption, OnlyDaemons, processVars, daemonVars, Daemon!vars
<1> HIDE DEF Inv
<1> QED BY <1>1, <1>2, PTL DEF ProcessSpec, DaemonsHold

\* schema.py, connection.py: a committed layout is the one of its version, and it changes
\* under the lock and while nobody executes.
THEOREM UpgradesStand ==
    ASSUME ProcessesAssumption
    PROVE  ProcessSpec => UpgradesHold
<1> DEFINE Inv == part = "openers" => UpgradeInv
           Kept == part = "openers" => Open!UpgradesHold
<1>1. ProcessInit => Inv BY UpgradeInit DEF ProcessInit, ProcessesAssumption
<1>2. Inv /\ [ProcessNext]_processVars => Inv' /\ [Kept]_processVars
  BY ProcessSteps, UpgradeStep DEF ProcessesAssumption, OnlyOpeners, processVars, openVars, Open!vars
<1> HIDE DEF Inv
<1> QED BY <1>1, <1>2, PTL DEF ProcessSpec, UpgradesHold

\* steps.py of runspool-wechat: an attempt that finds a draft's id on record updates that
\* draft and adds none while it exists; and if the author leaves a running attempt alone
\* (AuthorWaits), what is saved is what a person was asked about.
THEOREM DraftsStand ==
    ASSUME ProcessesAssumption
    PROVE  ProcessSpec => DraftsHold
<1> DEFINE Inv == part = "draft" => DraftsInv
           Kept == part = "draft" => Article!DraftsHold
<1>1. ProcessInit => Inv BY DraftsInit DEF ProcessInit, ProcessesAssumption
<1>2. Inv /\ [ProcessNext]_processVars => Inv' /\ [Kept]_processVars
  <2>1. UNCHANGED Article!vars => UNCHANGED draftVars
    BY DEF draftVars, Article!vars, Article!remote, Article!budget
  <2>2. OnlyDraft /\ UNCHANGED draftVars => UNCHANGED processVars
    BY DEF OnlyDraft, processVars
  <2> QED BY ProcessSteps, DraftsStep, <2>1, <2>2
<1> HIDE DEF Inv
<1> QED BY <1>1, <1>2, PTL DEF ProcessSpec, DraftsHold
=============================================================================

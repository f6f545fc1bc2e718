--------------------------------- MODULE Work ---------------------------------
(***************************************************************************)
(* What surrounds the work on a task: the results that spawn children      *)
(* (StepResults, whose task is the one here), the gate before a step,      *)
(* add_task, the contract check and the credentials.  A behaviour is of    *)
(* one part, which its initial state chooses; the results wait in their    *)
(* initial state, and the variables of the other parts are Unused.         *)
(***************************************************************************)
EXTENDS StepResults

CONSTANTS
    Lazy, Policies, Guards, MaxAttempts,         \* the gate
    Caller, Together, First,                     \* add_task
    Kind, Value, ChainSteps, ResultArtifacts,    \* contracts
    Names, Values, MaxEdits, MaxCalls            \* credentials

VARIABLES
    part,
    declared, object, known, policy, status, grant, attempt, asking, decision, guard,
    approvals, opinions,
    tasks, seq, disk, pc, input, force, seen, opened,
    inputs, lenient, chain, available, silent, errors, unverified, result, recorded,
    refused,
    on, holds, broken, problems, call, answer, edits, calls, quiet

Gate == INSTANCE GateDecision WITH request <- asking

Intake == INSTANCE TaskIntake

Report == INSTANCE Contracts WITH Steps <- ChainSteps, Artifacts <- ResultArtifacts

Secrets == INSTANCE Credentials

ASSUME WorkAssumption ==
    /\ SpawnAssumption /\ Gate!GateAssumption /\ Intake!IntakeAssumption
    /\ Report!ContractsAssumption /\ Secrets!CredentialsAssumption

----------------------------------------------------------------------------
(* One part at a time.                                                      *)

Unused == 0

gateVars == <<declared, object, known, policy, status, grant, attempt, asking, decision,
              guard, approvals, opinions>>
intakeVars == <<tasks, seq, disk, pc, input, force, seen, opened>>
chainVars == <<inputs, lenient, chain, available, silent, errors, unverified, result,
               recorded, refused>>
secretVars == <<on, holds, broken, problems, call, answer, edits, calls, quiet>>
workVars == <<part, vars, gateVars, intakeVars, chainVars, secretVars>>

NoGate ==
    /\ declared = Unused /\ object = Unused /\ known = Unused /\ policy = Unused
    /\ status = Unused /\ grant = Unused /\ attempt = Unused /\ asking = Unused
    /\ decision = Unused /\ guard = Unused /\ approvals = Unused /\ opinions = Unused
NoIntake ==
    /\ tasks = Unused /\ seq = Unused /\ disk = Unused /\ pc = Unused
    /\ input = Unused /\ force = Unused /\ seen = Unused /\ opened = Unused
NoChain ==
    /\ inputs = Unused /\ lenient = Unused /\ chain = Unused /\ available = Unused
    /\ silent = Unused /\ errors = Unused /\ unverified = Unused /\ result = Unused
    /\ recorded = Unused /\ refused = Unused
NoSecrets ==
    /\ on = Unused /\ holds = Unused /\ broken = Unused /\ problems = Unused
    /\ call = Unused /\ answer = Unused /\ edits = Unused /\ calls = Unused /\ quiet = Unused

OnlyResults == UNCHANGED <<part, gateVars, intakeVars, chainVars, secretVars>>
OnlyGate == UNCHANGED <<part, vars, intakeVars, chainVars, secretVars>>
OnlyIntake == UNCHANGED <<part, vars, gateVars, chainVars, secretVars>>
OnlyChain == UNCHANGED <<part, vars, gateVars, intakeVars, secretVars>>
OnlySecrets == UNCHANGED <<part, vars, gateVars, intakeVars, chainVars>>

WorkInit ==
    /\ Init
    /\ \/ part = "spawns" /\ NoGate /\ NoIntake /\ NoChain /\ NoSecrets
       \/ part = "gate" /\ Gate!Init /\ NoIntake /\ NoChain /\ NoSecrets
       \/ part = "intake" /\ Intake!Init /\ NoGate /\ NoChain /\ NoSecrets
       \/ part = "chain" /\ Report!Init /\ NoGate /\ NoIntake /\ NoSecrets
       \/ part = "secrets" /\ Secrets!Init /\ NoGate /\ NoIntake /\ NoChain

WorkNext ==
    \/ part = "spawns" /\ Next /\ OnlyResults
    \/ part = "gate" /\ Gate!Next /\ OnlyGate
    \/ part = "intake" /\ Intake!Next /\ OnlyIntake
    \/ part = "chain" /\ Report!Next /\ OnlyChain
    \/ part = "secrets" /\ Secrets!Next /\ OnlySecrets

WorkSpec == WorkInit /\ [][WorkNext]_workVars

----------------------------------------------------------------------------
(* A property for each promise of a component: of what is always so, and of *)
(* every step (StepResults has its own, ResultsAreAtomic).                  *)

\* artifacts.py: what a step finds is what the check of its workflow promised it, and
\* (artifact_log.py:46) the newest that was finished.
ArtifactsAsPromised ==
    NewestArtifact /\ (part = "chain" => Report!ReportIsExact /\ Report!RecordedIsDeclared)

\* runtime.py, Gate: no side effect without the approval of that attempt, no refusal
\* overruled, and no ask that nobody can answer.
GateHolds == [][part = "gate" => Gate!GateHolds]_workVars

\* commands.py:56, repository.py:183: one active task for an input, where calls do not
\* overlap; higher and higher numbers, and none below first_task_id after an opening that
\* no first task overtook.
IntakeHolds == [][part = "intake" => Intake!IntakeHolds]_workVars

\* credentials.py: answers and problems are those of the sources as they are now.
CredentialsAreCurrent == part = "secrets" => Secrets!CredentialsAreCurrent
=============================================================================

-------------------------------- MODULE MCWork --------------------------------
(***************************************************************************)
(* Module Work on a small instance, and beside its parts the same           *)
(* components with other constants: a lazy step at the gate (lazyGate),     *)
(* two calls of add_task at once (together), a result checked against its   *)
(* contract (recorded), several secrets (several).  External steps are      *)
(* here twice, with users who move the task (items) or pause it (paused);   *)
(* module Processes has them a third time, beside a fair executor.          *)
(***************************************************************************)
EXTENDS Work

VARIABLES waiting, items, worked, claimed, client, tickets, wanted

Items == INSTANCE ExternalWork
    WITH row <- waiting, worker <- worked, claims <- claimed, request <- wanted,
         NumSteps <- 2, NoRetry <- {}, RetryCaps <- {1}, External <- {1, 2},
         Skippable <- {2}, MaxAttempts <- 2, Clients <- {"c1", "c2"}, NoClient <- "none",
         UserActs <- {"retry", "force_step"},
         MaxClaims <- 4, MaxItems <- 3, MaxTickets <- 3

Paused == INSTANCE ExternalWork
    WITH row <- waiting, worker <- worked, claims <- claimed, request <- wanted,
         NumSteps <- 1, NoRetry <- {}, RetryCaps <- {1}, External <- {1},
         Skippable <- {}, MaxAttempts <- 2, Clients <- {"c1", "c2"}, NoClient <- "none",
         UserActs <- {"pause", "resume", "terminate"},
         MaxClaims <- 5, MaxItems <- 3, MaxTickets <- 3

\* No child, two named ones and one without a name, a repeated name.
ThreePlans == {<< >>, <<"b", "none", "a">>, <<"a", "a">>}

LazyGate == INSTANCE GateDecision WITH request <- asking, Lazy <- TRUE

TwoAtOnce == INSTANCE TaskIntake WITH Together <- 2

Recording == INSTANCE Contracts WITH Steps <- 1, Artifacts <- 2

Several == INSTANCE Credentials WITH Names <- {"n1", "n2"}, MaxCalls <- 1

ASSUME OtherCasesAssumption ==
    /\ Items!ExternalAssumption /\ Paused!ExternalAssumption /\ LazyGate!GateAssumption
    /\ TwoAtOnce!IntakeAssumption /\ Recording!ContractsAssumption
    /\ Several!CredentialsAssumption

itemVars == <<waiting, items, worked, claimed, client, tickets, wanted>>
caseVars == <<workVars, itemVars>>

NoItems ==
    /\ waiting = Unused /\ items = Unused /\ worked = Unused /\ claimed = Unused
    /\ client = Unused /\ tickets = Unused /\ wanted = Unused

CaseInit ==
    \/ WorkInit /\ NoItems
    \/ /\ Init
       /\ \/ /\ \/ part = "items" /\ Items!Init
                \/ part = "paused" /\ Paused!Init
             /\ NoGate /\ NoIntake /\ NoChain /\ NoSecrets
          \/ /\ NoItems
             /\ \/ part = "lazyGate" /\ LazyGate!Init /\ NoIntake /\ NoChain /\ NoSecrets
                \/ part = "together" /\ TwoAtOnce!Init /\ NoGate /\ NoChain /\ NoSecrets
                \/ part = "recorded" /\ Recording!Init /\ NoGate /\ NoIntake /\ NoSecrets
                \/ part = "several" /\ Several!Init /\ NoGate /\ NoIntake /\ NoChain

CaseNext ==
    \/ /\ \/ WorkNext
          \/ part = "lazyGate" /\ LazyGate!Next /\ OnlyGate
          \/ part = "together" /\ TwoAtOnce!Next /\ OnlyIntake
          \/ part = "recorded" /\ Recording!Next /\ OnlyChain
          \/ part = "several" /\ Several!Next /\ OnlySecrets
       /\ UNCHANGED itemVars
    \/ /\ \/ part = "items" /\ Items!Next
          \/ part = "paused" /\ Paused!Next
       /\ UNCHANGED workVars

CaseSpec == CaseInit /\ [][CaseNext]_caseVars

\* The other instances keep the same promises as those of module Work, and tasks wait for
\* items that can be answered (work_items.py, state_machine.py:913).
OtherCasesHold ==
    [][/\ part = "items" => Items!ItemsAreAnswered' /\ Items!Advances
       /\ part = "paused" => Paused!ItemsAreAnswered' /\ Paused!Advances
       /\ part = "lazyGate" => LazyGate!GateHolds
       /\ part = "together" => TwoAtOnce!IntakeHolds
       /\ part = "recorded" => (Recording!ReportIsExact /\ Recording!RecordedIsDeclared)'
       /\ part = "several" => Several!CredentialsAreCurrent']_caseVars
=============================================================================

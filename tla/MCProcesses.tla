----------------------------- MODULE MCProcesses -----------------------------
(***************************************************************************)
(* Module Processes on a small instance, beside its parts the same          *)
(* components with other constants, and what must happen in the end.  The   *)
(* other instances: the rounds of a daemon (resident), of a task that       *)
(* spawns too (family), daemons that overlap on pids that are reused        *)
(* (overlapping), openers of one process on a fresh database (fresh), and   *)
(* an author who edits while the article is drafted (edited).               *)
(***************************************************************************)
EXTENDS Processes

TwoWorkflows == [main |-> <<"a", "b">>, side |-> <<"c">>]
TwoTasks == <<"main", "main">>
OneEach == [s \in {"a", "b", "c"} |-> 1]
NoChildren == [s \in {"a", "b", "c"} |-> << >>]
OneChild == [NoChildren EXCEPT !.a = <<"side">>]

Serving == INSTANCE Rounds
    WITH Tasks <- TasksGiven, Skips <- {}, Outcomes <- {"done", "delay", "raise"},
         Resident <- TRUE, MaxRefusals <- 0

Family == INSTANCE Rounds
    WITH Tasks <- <<"main">>, Spawns <- OneChild, Skips <- {},
         Outcomes <- {"done", "raise"}, Resident <- TRUE, MaxRefusals <- 0

Overlapping == INSTANCE DaemonProcess
    WITH Pids <- {"p1", "p2"}, Clients <- Askers,
         PidsReused <- TRUE, AtOnce <- 2, MaxCrashes <- 1

Fresh == INSTANCE Upgrade
    WITH lock <- flock, Twins <- {"b", "c"}, Versions <- {0, 1}

Edited == INSTANCE WeChatDraft
    WITH MaxFailures <- 1, StepsAfter <- FALSE, AuthorWaits <- FALSE

ASSUME OtherCasesAssumption ==
    /\ Serving!RoundsAssumption /\ Family!RoundsAssumption
    /\ Overlapping!DaemonAssumption /\ Fresh!UpgradeAssumption /\ Edited!WeChatAssumption

(* What the theorem about the rounds takes for granted. *)
ASSUME RoundsHypotheses == Loop!NamedOnce /\ Loop!NoneJoin

----------------------------------------------------------------------------
CaseInit ==
    \/ ProcessInit
    \/ /\ Init
       /\ \/ /\ \/ part = "resident" /\ Serving!Init
                \/ part = "family" /\ Family!Init
             /\ NoFeed /\ NoDaemons /\ NoOpeners /\ NoDraft
          \/ /\ part = "overlapping" /\ Overlapping!Init
             /\ NoFeed /\ NoRounds /\ NoOpeners /\ NoDraft
          \/ part = "fresh" /\ Fresh!Init /\ NoFeed /\ NoRounds /\ NoDaemons /\ NoDraft
          \/ part = "edited" /\ Edited!Init /\ NoFeed /\ NoRounds /\ NoDaemons /\ NoOpeners

CaseNext ==
    \/ ProcessNext
    \/ part = "resident" /\ Serving!Next /\ OnlyRounds
    \/ part = "family" /\ Family!Next /\ OnlyRounds
    \/ part = "overlapping" /\ Overlapping!Next /\ OnlyDaemons
    \/ part = "fresh" /\ Fresh!Next /\ OnlyOpeners
    \/ part = "edited" /\ Edited!Next /\ OnlyDraft

\* An executor's threads run, validators return, jobs end and time passes; a follower
\* polls; a call of init() goes on; the engine runs what may run; a stop request that was
\* begun is sent.  No client, user, author or child has to do anything.  As a behaviour
\* stays in its part, one fair action serves them all.
Main ==
    \/ part = "waiting" /\ Executor /\ OnlyItems
    \/ part = "rounds" /\ Loop!Schedule /\ OnlyRounds
    \/ part = "resident" /\ Serving!Schedule /\ OnlyRounds
    \/ part = "family" /\ Family!Schedule /\ OnlyRounds
    \/ part = "overlapping" /\ Overlapping!Signal("c1") /\ OnlyDaemons
    \/ part = "draft" /\ Article!Step /\ OnlyDraft

Each(i) ==
    \/ part = "waiting" /\ Work(i) /\ OnlyItems
    \/ part = "feed" /\ i =< 2 /\ Feed!Poll(<<"f1", "f2">>[i]) /\ OnlyFeed
    \/ part = "rounds" /\ i \in Loop!Id /\ Loop!JobEnds(i) /\ OnlyRounds
    \/ part = "resident" /\ i \in Serving!Id /\ Serving!JobEnds(i) /\ OnlyRounds
    \/ part = "family" /\ i \in Family!Id /\ Family!JobEnds(i) /\ OnlyRounds
    \/ part = "overlapping" /\ i =< 2 /\ Overlapping!ProcessStep(<<"p1", "p2">>[i]) /\ OnlyDaemons
    \/ part = "fresh" /\ i =< 3 /\ Fresh!Opens(<<"a", "b", "c">>[i]) /\ OnlyOpeners

JobStarts ==
    \/ part = "rounds" /\ Loop!JobStart /\ OnlyRounds
    \/ part = "resident" /\ Serving!JobStart /\ OnlyRounds
    \/ part = "family" /\ Family!JobStart /\ OnlyRounds

Ages(t) ==
    \/ part = "rounds" /\ t \in Loop!Id /\ Loop!HeartbeatAges(t) /\ OnlyRounds
    \/ part = "resident" /\ t \in Serving!Id /\ Serving!HeartbeatAges(t) /\ OnlyRounds
    \/ part = "family" /\ t \in Family!Id /\ Family!HeartbeatAges(t) /\ OnlyRounds

Fairness ==
    /\ WF_processVars(Main) /\ WF_processVars(JobStarts)
    /\ \A i \in 1..5 : WF_processVars(Each(i))
    /\ \A t \in 1..2 : WF_processVars(Ages(t))

CaseSpec == CaseInit /\ [][CaseNext]_processVars /\ Fairness

----------------------------------------------------------------------------
\* The other instances keep the same promises as those of module Processes.
OtherCasesHold ==
    [][/\ part = "resident" => Serving!RoundsHold'
       /\ part = "family" => Family!RoundsHold'
       /\ part = "overlapping" => Overlapping!DaemonsHold
       /\ part = "fresh" => Fresh!UpgradesHold
       /\ part = "edited" => Edited!DraftsHold]_processVars

\* state_machine.py, start_validating_claimed: a submission is decided, unless somebody
\* has to act first; the executor's fairness alone brings it there, over deaths.
SubmissionDecided == []<>(part = "waiting" => SubmissionOver)

\* event_log.py: every committed event reaches the clients that follow its task.
EverythingArrives == []<>(part = "feed" =>
    \A f \in {"f1", "f2"}, n \in 1..4 : Feed!Due(f, n) => Feed!Given(f, n))

\* runtime.py, run_until_idle: every run ends, though steps defer, fail and raise.
RunEnds == []<>(part = "rounds" => Loop!Over)

\* coordinator.py, _dispatch_claimed: what the daemon claimed is run, though the entry of
\* an earlier job that raised was left in flight, or the daemon is told to stop first.
ClaimedIsRun ==
    \A t \in 1..2 :
        /\ []<>(part = "resident" => ~Serving!Claimed(t) \/ Serving!Over)
        /\ []<>(part = "family" => ~Family!Claimed(t) \/ Family!Over)

\* daemon.py, the signal handler: a daemon whose stop event is set ends.
StopIsServed ==
    \A p \in {"p1", "p2"} : []<>(part = "overlapping" => p \notin stopping)

\* connection.py, Database.init: every call of init() comes to an end.
OpenersSettle ==
    \A p \in {"a", "b", "c"} : []<>(part = "fresh" => ~Fresh!Initialising(p))

\* steps.py of runspool-wechat: in the end the article is drafted and the task has the
\* draft's id, over deletions in the back end, failures and crashes.
Drafted == <>[](part = "draft" => Article!Drafted)

\* Whatever was begun comes to its end: a submission is decided, a run and a stopped
\* daemon end, a claimed task is run, a database is opened, an article drafted, and every
\* event reaches its followers.
WorkEnds ==
    /\ SubmissionDecided /\ RunEnds /\ ClaimedIsRun
    /\ StopIsServed /\ OpenersSettle /\ Drafted /\ EverythingArrives
=============================================================================

------------------------------ MODULE Processes ------------------------------
(***************************************************************************)
(* Programs that run beside each other: an executor and the clients of its *)
(* work items (ExternalWork, whose task is the one here), the rounds of a  *)
(* scheduler, daemons and runs that are started and stopped, processes     *)
(* that open the database, the followers of the event log, and the         *)
(* attempts to publish an article.  A behaviour is of one part, which its  *)
(* initial state chooses; the work items wait in their initial state, and  *)
(* the variables of the other parts are Unused.                            *)
(***************************************************************************)
EXTENDS ExternalWork

CONSTANTS
    Writers, Followers, Followed, Limit, MaxEvents,                   \* the event log
    Name, Workflows, TasksGiven, Spawns, Skips, Quota, MaxRetries, Results,
    Resident, Size, Slack, MaxRefusals, MaxRaises,                    \* rounds
    Pids, Askers, Kinds, PidsReused, AtOnce, MaxCrashes,              \* daemons and runs
    Opener, New, Twins, OneProcess, Versions,                         \* the database
    MaxEdits, MaxDeletes, MaxFailures, StepsAfter, AuthorWaits        \* the article

VARIABLES
    part,
    writer, last, open, log, follows, cursor, got,
    tasks, old, phase, listed, load, progressed, rounds, cap, ending, inflight, queue,
    threads, running, pending, raised, refusals, raises, again, passed,
    stage, used, stopping, lock, pidFile, asked, crashes,
    version, applied, txn, flock, pidfile, pc,
    files, summary, cache, drafts, covers, ids, known, run, edits, deletes, failures

Feed == INSTANCE EventFeed WITH Tasks <- Followed

Loop == INSTANCE Rounds WITH Tasks <- TasksGiven, Outcomes <- Results

Daemon == INSTANCE DaemonProcess WITH Clients <- Askers

Open == INSTANCE Upgrade WITH lock <- flock

Article == INSTANCE WeChatDraft

ASSUME ProcessesAssumption ==
    /\ ExternalAssumption /\ Feed!FeedAssumption /\ Loop!RoundsAssumption
    /\ Daemon!DaemonAssumption /\ Open!UpgradeAssumption /\ Article!WeChatAssumption

----------------------------------------------------------------------------
(* One part at a time.                                                      *)

Unused == 0

feedVars == <<writer, last, open, log, follows, cursor, got>>
roundVars == <<tasks, old, phase, listed, load, progressed, rounds, cap, ending,
      inflight, queue, threads, running, pending, raised, refusals, raises, again,
      passed>>
daemonVars == <<stage, used, stopping, lock, pidFile, asked, crashes>>
openVars == <<version, applied, txn, flock, pidfile, pc>>
draftVars == <<files, summary, cache, drafts, covers, ids, known, run, edits, deletes,
      failures>>
processVars == <<part, vars, feedVars, roundVars, daemonVars, openVars, draftVars>>

NoFeed ==
    /\ writer = Unused /\ last = Unused /\ open = Unused /\ log = Unused
    /\ follows = Unused /\ cursor = Unused /\ got = Unused
NoRounds ==
    /\ tasks = Unused /\ old = Unused /\ phase = Unused /\ listed = Unused
    /\ load = Unused /\ progressed = Unused /\ rounds = Unused /\ cap = Unused
    /\ ending = Unused /\ inflight = Unused /\ queue = Unused /\ threads = Unused
    /\ running = Unused /\ pending = Unused /\ raised = Unused /\ refusals = Unused
    /\ raises = Unused /\ again = Unused /\ passed = Unused
NoDaemons ==
    /\ stage = Unused /\ used = Unused /\ stopping = Unused /\ lock = Unused
    /\ pidFile = Unused /\ asked = Unused /\ crashes = Unused
NoOpeners ==
    /\ version = Unused /\ applied = Unused /\ txn = Unused /\ flock = Unused
    /\ pidfile = Unused /\ pc = Unused
NoDraft ==
    /\ files = Unused /\ summary = Unused /\ cache = Unused /\ drafts = Unused
    /\ covers = Unused /\ ids = Unused /\ known = Unused /\ run = Unused
    /\ edits = Unused /\ deletes = Unused /\ failures = Unused

OnlyItems == UNCHANGED <<part, feedVars, roundVars, daemonVars, openVars, draftVars>>
OnlyFeed == UNCHANGED <<part, vars, roundVars, daemonVars, openVars, draftVars>>
OnlyRounds == UNCHANGED <<part, vars, feedVars, daemonVars, openVars, draftVars>>
OnlyDaemons == UNCHANGED <<part, vars, feedVars, roundVars, openVars, draftVars>>
OnlyOpeners == UNCHANGED <<part, vars, feedVars, roundVars, daemonVars, draftVars>>
OnlyDraft == UNCHANGED <<part, vars, feedVars, roundVars, daemonVars, openVars>>

ProcessInit ==
    /\ Init
    /\ \/ part = "waiting" /\ NoFeed /\ NoRounds /\ NoDaemons /\ NoOpeners /\ NoDraft
       \/ part = "feed" /\ Feed!Init /\ NoRounds /\ NoDaemons /\ NoOpeners /\ NoDraft
       \/ part = "rounds" /\ Loop!Init /\ NoFeed /\ NoDaemons /\ NoOpeners /\ NoDraft
       \/ part = "daemons" /\ Daemon!Init /\ NoFeed /\ NoRounds /\ NoOpeners /\ NoDraft
       \/ part = "openers" /\ Open!Init /\ NoFeed /\ NoRounds /\ NoDaemons /\ NoDraft
       \/ part = "draft" /\ Article!Init /\ NoFeed /\ NoRounds /\ NoDaemons /\ NoOpeners

ProcessNext ==
    \/ part = "waiting" /\ Next /\ OnlyItems
    \/ part = "feed" /\ Feed!Next /\ OnlyFeed
    \/ part = "rounds" /\ Loop!Next /\ OnlyRounds
    \/ part = "daemons" /\ Daemon!Next /\ OnlyDaemons
    \/ part = "openers" /\ Open!Next /\ OnlyOpeners
    \/ part = "draft" /\ Article!Next /\ OnlyDraft

ProcessSpec == ProcessInit /\ [][ProcessNext]_processVars

----------------------------------------------------------------------------
(* A property for each promise of a component: of what is always so, and of *)
(* every step (ExternalWork has its own, ItemsAreAnswered and               *)
(* AcceptedAdvances).                                                       *)

\* event_log.py: a client that remembers the last id it saw is given every committed event
\* it follows, once and in order, while transactions commit and roll back.
NothingMissed == part = "feed" => Feed!NothingMissed

\* runtime.py, coordinator.py: a run ends by itself only when it is done, its cap is for
\* repeated steps, tasks keep to their workflow, and no job outlives the lock.
RoundsHold == part = "rounds" => Loop!RoundsHold

\* executor_lock.py, cli.py: of the daemons and runs started together, forced or not, and
\* over the deaths of some, at most one recovers and executes; one that is refused leaves
\* the pid file as it is, and the file names the daemon where daemons do not overlap.
DaemonsHold == [][part = "daemons" => Daemon!DaemonsHold]_processVars

\* schema.py, connection.py: every committed layout is the one of its version, whoever died
\* half way through, and it changes under the lock and under nobody's feet, if no two of
\* the processes share a pid.
UpgradesHold == [][part = "openers" => Open!UpgradesHold]_processVars

\* steps.py of runspool-wechat: a recorded draft is updated, never duplicated; what is saved
\* is what a person was asked about, if the author leaves a running attempt alone.
DraftsHold == [][part = "draft" => Article!DraftsHold]_processVars
=============================================================================

------------------------------ MODULE Upgrade ------------------------------
(***************************************************************************)
(* Opening the database (persistence/connection.py, schema.py): several    *)
(* processes, some of an older RunSpool, open one database, upgrade its    *)
(* schema, and execute tasks under the executor lock; each may be killed   *)
(* between any two steps.  Two openers may be threads of one process.      *)
(***************************************************************************)
EXTENDS Integers, Sequences, FiniteSets

CONSTANTS Opener,     \* the calls of Database.init() of the behaviour
          New,        \* those whose RunSpool knows the newest schema, 2; the others know 1
          Twins,      \* those that have the same pid
          OneProcess, \* TRUE: because they are one process; FALSE: pids of two containers
          Versions    \* the versions the database may have at first: 0, fresh; 1

Nobody == "nobody"

UpgradeAssumption ==
    New \subseteq Opener /\ Twins \subseteq Opener /\ OneProcess \in BOOLEAN
    /\ Versions \subseteq {0, 1} /\ Nobody \notin Opener

VARIABLES
    version,    \* committed in schema_meta
    applied,    \* the committed migrations, in the order they were applied
    txn,        \* the write transaction of the database
    lock,       \* the opener whose file holds the flock
    pidfile,    \* the pid in the lock file
    pc          \* where each opener is

vars == <<version, applied, txn, lock, pidfile, pc>>

Code(p) == IF p \in New THEN 2 ELSE 1             \* SCHEMA_VERSION of its RunSpool
Pid(p) == IF p \in Twins THEN "twin" ELSE p
Process(p) == IF p \in Twins /\ OneProcess THEN Twins ELSE {p}
NoTxn == [by |-> Nobody, version |-> 0, applied |-> <<>>]

Init ==
    /\ version \in Versions
    /\ applied = [i \in 1..version |-> i]
    /\ txn = NoTxn /\ lock = Nobody /\ pidfile = Nobody
    /\ pc = [p \in Opener |-> "start"]

At(p, here) == pc[p] = here
Goes(p, there) == pc' = [pc EXCEPT ![p] = there]

-----------------------------------------------------------------------------
(* Database.init().                                                        *)

\* stored_version(), outside any transaction: only an existing older database needs
\* the executor lock.
NeverLocks(p) == FALSE
NeedsLock(p) == 0 < version /\ version < Code(p)

ReadVersion(p) ==
    /\ At(p, "start")
    /\ Goes(p, IF NeedsLock(p) THEN "locking" ELSE "begin")
    /\ UNCHANGED <<version, applied, txn, lock, pidfile>>

\* ExecutorLock.acquire(): the flock, then the pid into the file.
Flock(p) ==
    /\ At(p, "locking") \/ At(p, "starting")
    /\ lock = Nobody
    /\ lock' = p
    /\ Goes(p, IF At(p, "locking") THEN "locked" ELSE "started")
    /\ UNCHANGED <<version, applied, txn, pidfile>>

WritePid(p) ==
    /\ At(p, "locked") \/ At(p, "started")
    /\ pidfile' = Pid(p)
    /\ Goes(p, IF At(p, "locked") THEN "begin" ELSE "executing")
    /\ UNCHANGED <<version, applied, txn, lock>>

\* The lock is taken: busy, unless the pid in its file is this process's.
BusyIsNothing(p) == TRUE
BusyIsMine(p) == pidfile = Pid(p)

UpgradeBusy(p) ==
    /\ At(p, "locking") /\ lock # Nobody
    /\ Goes(p, IF BusyIsMine(p) THEN "begin" ELSE "refused")
    /\ UNCHANGED <<version, applied, txn, lock, pidfile>>

\* begin immediate: one writer at a time; waiting longer than busy_timeout fails.
Begin(p) ==
    /\ At(p, "begin") /\ txn = NoTxn
    /\ txn' = [by |-> p, version |-> version, applied |-> applied]
    /\ Goes(p, "migrating")
    /\ UNCHANGED <<version, applied, lock, pidfile>>

Released(p) == IF lock = p THEN Nobody ELSE lock
PidAfter(p) == IF lock = p THEN Nobody ELSE pidfile

TimesOut(p) ==
    /\ At(p, "begin") /\ txn # NoTxn
    /\ lock' = Released(p) /\ pidfile' = PidAfter(p)
    /\ Goes(p, "refused")
    /\ UNCHANGED <<version, applied, txn>>

\* migrate(): the version is read again inside the transaction, each migration it has
\* not seen is applied and recorded.
Migrate(p) ==
    /\ At(p, "migrating") /\ txn.version < Code(p)
    /\ txn' = [txn EXCEPT !.version = @ + 1, !.applied = Append(@, txn.version + 1)]
    /\ UNCHANGED <<version, applied, lock, pidfile, pc>>

\* A database newer than this RunSpool: rolled back, refused.
TooNewHangs(p) == FALSE

TooNew(p) ==
    /\ At(p, "migrating") /\ txn.version > Code(p)
    /\ txn' = NoTxn
    /\ Goes(p, "refused")
    /\ lock' = Released(p) /\ pidfile' = PidAfter(p)
    /\ UNCHANGED <<version, applied>>

Commit(p) ==
    /\ At(p, "migrating") /\ txn.version = Code(p)
    /\ version' = txn.version /\ applied' = txn.applied
    /\ txn' = NoTxn
    /\ Goes(p, "unlocking")
    /\ UNCHANGED <<lock, pidfile>>

\* The `finally` of init(): the lock is released if this call took it.
EndInit(p) ==
    /\ At(p, "unlocking")
    /\ lock' = Released(p) /\ pidfile' = PidAfter(p)
    /\ Goes(p, "open")
    /\ UNCHANGED <<version, applied, txn>>

-----------------------------------------------------------------------------
(* Executing, and dying.                                                   *)

StartExecuting(p) ==
    /\ At(p, "open")
    /\ Goes(p, "starting")
    /\ UNCHANGED <<version, applied, txn, lock, pidfile>>

ExecutorBusy(p) ==
    /\ At(p, "starting") /\ lock # Nobody
    /\ Goes(p, "open")
    /\ UNCHANGED <<version, applied, txn, lock, pidfile>>

StopExecuting(p) ==
    /\ At(p, "executing")
    /\ lock' = Nobody /\ pidfile' = Nobody
    /\ Goes(p, "open")
    /\ UNCHANGED <<version, applied, txn>>

\* The process is killed: its transaction is rolled back, the OS drops its lock; the
\* pid stays in the file.
DiesHalfCommitted(p) ==
    /\ pc[p] # "dead"
    /\ pc' = [q \in Opener |-> IF q \in Process(p) THEN "dead" ELSE pc[q]]
    /\ txn' = IF txn.by \in Process(p) THEN NoTxn ELSE txn
    /\ applied' = IF txn.by \in Process(p) THEN txn.applied ELSE applied
    /\ lock' = IF lock \in Process(p) THEN Nobody ELSE lock
    /\ UNCHANGED <<version, pidfile>>

Dies(p) ==
    /\ pc[p] # "dead"
    /\ pc' = [q \in Opener |-> IF q \in Process(p) THEN "dead" ELSE pc[q]]
    /\ txn' = IF txn.by \in Process(p) THEN NoTxn ELSE txn
    /\ lock' = IF lock \in Process(p) THEN Nobody ELSE lock
    /\ UNCHANGED <<version, applied, pidfile>>

Opens(p) ==
    ReadVersion(p) \/ Flock(p) \/ WritePid(p) \/ UpgradeBusy(p) \/ Begin(p) \/ TimesOut(p)
    \/ Migrate(p) \/ TooNew(p) \/ Commit(p) \/ EndInit(p) \/ ExecutorBusy(p)

Next == \E p \in Opener : Opens(p) \/ StartExecuting(p) \/ StopExecuting(p) \/ Dies(p)

Spec == Init /\ [][Next]_vars

\* A call in progress goes on: init() contains no wait without a bound.
FairSpec == Spec /\ \A p \in Opener : WF_vars(Opens(p))

-----------------------------------------------------------------------------
(* Properties.                                                             *)

\* Every variable keeps its type; a migrating opener owns the transaction, and a
\* process that executes holds the lock.
TypeOK ==
    /\ version \in 0..2 /\ txn.by \in Opener \cup {Nobody}
    /\ lock \in Opener \cup {Nobody} /\ pidfile \in {Pid(p) : p \in Opener} \cup {Nobody}
    /\ pc \in [Opener -> {"start", "locking", "locked", "begin", "migrating", "unlocking",
                          "open", "starting", "started", "executing", "refused", "dead"}]
    /\ \A p \in Opener : (At(p, "migrating") <=> txn.by = p)
                         /\ (At(p, "executing") => lock = p)

\* The layout is the version's, whoever died half way through: what is committed is
\* every migration up to the recorded version, each applied once (the whole upgrade
\* is one transaction; connection.py, Database.init).
LayoutMatches == applied = [i \in 1..version |-> i]

\* An existing database is only upgraded while the upgrading process holds the
\* executor lock (connection.py:27; executor_lock.py:5).
UpgradeHoldsLock ==
    version' # version /\ version > 0
        => \E p \in Opener : txn.by \in Process(p) /\ lock \in Process(p)

\* The schema stays as it is under a process that is executing tasks.
StillUnderExecutor ==
    version' # version => \A p \in Opener : ~At(p, "executing")

\* Every committed layout is that of a version; an existing database changes under the
\* lock and under nobody's feet, as long as no two openers have the same pid.
UpgradesHold ==
    /\ LayoutMatches'
    /\ Twins = {} /\ 0 \notin Versions => UpgradeHoldsLock /\ StillUnderExecutor

\* A call of init() is in progress; the database is open, or the caller was told why not,
\* when it is over.
Initialising(p) == pc[p] \in {"start", "locking", "locked", "begin", "migrating", "unlocking"}
=============================================================================

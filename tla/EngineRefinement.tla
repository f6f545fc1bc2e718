-------------------------- MODULE EngineRefinement --------------------------
(***************************************************************************)
(* The engine keeps the promise of module TaskPromise.  A row is lent to   *)
(* the claim it names while it executes; what the claim's run came to is   *)
(* read from the step runs, where every row carries the claim it was       *)
(* recorded under.                                                         *)
(***************************************************************************)
EXTENDS Engine

Holder(row) == IF row.status \in Executing THEN row.token ELSE NoToken

\* A step run recorded under a claim, with a status of that kind.
Recorded(log, token, kinds) ==
    \E i \in DOMAIN log : log[i].token = token /\ log[i].status \in kinds

Worked(row, log) ==
    IF row.status \notin Executing THEN "none"
    ELSE IF Recorded(log, row.token, {"ok", "degraded"}) THEN "success"
    ELSE IF Recorded(log, row.token, {"running"}) THEN "begun"
    ELSE IF Recorded(log, row.token, RunStatus) THEN "else"
    ELSE "none"

EndOf(row) ==
    IF row.status \in {"completed", "partially_completed"} THEN "finished"
    ELSE IF row.status = "terminated" THEN "terminated"
    ELSE "open"

PlaceOfTasks == [t \in Tasks |-> task[t].step]
HolderOfTasks == [t \in Tasks |-> Holder(task[t])]
WorkOnTasks == [t \in Tasks |-> Worked(task[t], runs[t])]
EndOfTasks == [t \in Tasks |-> EndOf(task[t])]

Promise == INSTANCE TaskPromise WITH
    place <- PlaceOfTasks, owner <- HolderOfTasks, work <- WorkOnTasks, ending <- EndOfTasks,
    given <- claims

\* Whatever processes, users, crashes and faults do to the rows, the engine keeps the
\* promise: a claim is given once, holds its task alone, is worked under at most once, and
\* only the success of its own run moves the task on (coordinator, runner, state machine).
KeepsPromise == Promise!Spec
=============================================================================

------------------------------ MODULE TaskRow ------------------------------
(***************************************************************************)
(* The lifecycle columns of one row of the table "tasks" and every rule    *)
(* that rewrites them: the decisions of StateMachine                       *)
(* (persistence/state_machine.py) as functions from rows to rows.  Who     *)
(* reads a row, when, and whether the compare-and-set of the write still   *)
(* matches is the business of module Engine.                               *)
(*                                                                         *)
(* A workflow is an ordered tuple of distinct step names; a step is named  *)
(* here by its position in that tuple.  Timestamps keep only what the code *)
(* asks of them: next_retry_at is null, still to come or past; a heartbeat *)
(* is older than the reclaim timeout (null counts as old) or not.          *)
(***************************************************************************)
EXTENDS Integers

CONSTANTS
    NumSteps,   \* length of the workflow
    NoRetry,    \* the steps that opted out of automatic retries (retry = False)
    RetryCaps   \* the values max_retries takes: the default and what users set

Steps == 1 .. NumSteps

ASSUME NumStepsAssumption == NumSteps \in Nat \ {0}
ASSUME NoRetryAssumption == NoRetry \subseteq Steps
ASSUME RetryCapsAssumption == RetryCaps \subseteq Nat /\ RetryCaps # {}

---------------------------------------------------------------------------
(* models.py: TaskStatus, TERMINAL_STATUSES; state_machine.py: _EXECUTING. *)

Terminal == {"completed", "partially_completed", "terminated"}

Executing == {"running", "pause_pending"}

Status == Terminal \cup Executing \cup
    {"queued", "paused", "failed", "manual_required", "awaiting_approval"}

\* The column approval_grant: null, asked_value(..) or grant_value(..).
Grants == [kind : {"null", "asked", "granted"}, step : Nat, attempt : Nat]

NoGrant == [kind |-> "null", step |-> 0, attempt |-> 0]

AskedValue(step, attempt) ==
    [kind |-> "asked", step |-> step, attempt |-> attempt]

GrantValue(step, attempt) ==
    [kind |-> "granted", step |-> step, attempt |-> attempt]

\* claim_token: a fresh number per claim, 0 for null.
NoToken == 0

Rows == [status : Status, step : Steps,
         pause : BOOLEAN,           \* pause_requested
         term : BOOLEAN,            \* terminate_requested
         retry : Nat, cap : Nat,    \* retry_count, max_retries
         due : {"null", "future", "past"},   \* next_retry_at
         beat : {"old", "new"},              \* heartbeat_at
         token : Nat, grant : Grants]

\* A task as create_task inserts it.
NewRow(cap) ==
    [status |-> "queued", step |-> 1, pause |-> FALSE, term |-> FALSE,
     retry |-> 0, cap |-> cap, due |-> "null", beat |-> "old",
     token |-> NoToken, grant |-> NoGrant]

\* Mutant of IsLast: off by one.
IsLastLate(step) == step > NumSteps

IsLast(step) == step = NumSteps

\* What a boundary, a settle or a claim-time terminate does to the lock columns.
Unlock(row) == [row EXCEPT !.token = NoToken, !.beat = "old"]

\* A row released in the given status; every caller also settles the pause flag.
Released(row, status) ==
    [Unlock(row) EXCEPT !.status = status, !.pause = FALSE]

\* Mutant of FinalStatus: asks the last step only.
FinalStatusOfLastStep(degraded, hasDegraded) ==
    IF degraded THEN "partially_completed" ELSE "completed"

\* Terminal status of a workflow that ran to its end.
FinalStatus(degraded, hasDegraded) ==
    IF degraded \/ hasDegraded THEN "partially_completed" ELSE "completed"

---------------------------------------------------------------------------
(* Step boundary: StateMachine._boundary.  "row" is the row the write hits, *)
(* "seen" the row the decision was taken from.  Outcomes: ok, degraded      *)
(* (Succeeded), notready and later (Deferred without and with a delay),     *)
(* failed, fatal (Failed, the latter with no_retry), denied (Denied), ask   *)
(* (NeedsApproval for that attempt).                                        *)

\* Mutant of Succeeds: whatever is not a failure is a success.
DoesNotFail(out) == out.kind \notin {"failed", "fatal"}

Succeeds(out) == out.kind \in {"ok", "degraded"}

\* A task released in place: paused if a pause was requested, else as given.
PausedOr(row, seen, status) ==
    IF seen.pause THEN Released(row, "paused")
                  ELSE [Unlock(row) EXCEPT !.status = status]

BoundarySucceeded(row, seen, out, hasDegraded) ==
    IF IsLast(seen.step)
    THEN Released(row, FinalStatus(out.kind = "degraded", hasDegraded))
    ELSE [PausedOr(row, seen, "queued") EXCEPT !.step = seen.step + 1]

\* Mutant of BoundaryDeferred: the pause request is forgotten.
BoundaryDeferredOnly(row, seen, out) ==
    [Unlock(row) EXCEPT !.status = "queued", !.pause = FALSE,
                        !.due = IF out.kind = "later" THEN "future" ELSE "null"]

BoundaryDeferred(row, seen, out) ==
    IF seen.pause
    THEN Released(row, "paused")
    ELSE [Unlock(row) EXCEPT !.status = "queued",
                             !.due = IF out.kind = "later" THEN "future" ELSE "null"]

\* Mutant of BoundaryAsked: an earlier ask or grant is kept.
BoundaryAskedOnce(row, seen, out) ==
    IF seen.pause
    THEN Released(row, "paused")
    ELSE [Unlock(row) EXCEPT !.status = "awaiting_approval", !.due = "null",
                             !.grant = IF @ = NoGrant
                                       THEN AskedValue(seen.step, out.attempt) ELSE @]

BoundaryAsked(row, seen, out) ==
    IF seen.pause
    THEN Released(row, "paused")
    ELSE [Unlock(row) EXCEPT !.status = "awaiting_approval", !.due = "null",
                             !.grant = AskedValue(seen.step, out.attempt)]

BoundaryFailed(row, seen, out) ==
    LET counted == [row EXCEPT !.retry = seen.retry + 1, !.due = "null"]
    IN  IF seen.retry + 1 > seen.cap \/ out.kind = "fatal"
        THEN Released(counted, "manual_required")
        ELSE IF seen.pause
             THEN Released(counted, "paused")
             ELSE [Unlock(counted) EXCEPT !.status = "failed", !.due = "future"]

Boundary(row, seen, out, hasDegraded) ==
    CASE seen.term ->
           [Released(row, "terminated") EXCEPT !.term = FALSE, !.due = "null"]
      [] ~seen.term /\ Succeeds(out) -> BoundarySucceeded(row, seen, out, hasDegraded)
      [] ~seen.term /\ out.kind = "denied" ->
           [Released(row, "manual_required") EXCEPT !.due = "null"]
      [] ~seen.term /\ out.kind = "ask" -> BoundaryAsked(row, seen, out)
      [] ~seen.term /\ out.kind \in {"notready", "later"} -> BoundaryDeferred(row, seen, out)
      [] OTHER -> BoundaryFailed(row, seen, out)

\* Mutants of FinishMatches: a column the decision used is not compared.
FinishMatchesButTerm(row, seen, token) ==
    /\ row.status = seen.status
    /\ row.pause = seen.pause
    /\ row.retry = seen.retry
    /\ row.cap = seen.cap
    /\ row.token = token

FinishMatchesButRetries(row, seen, token) ==
    /\ row.status = seen.status
    /\ row.pause = seen.pause
    /\ row.term = seen.term
    /\ row.token = token

\* finish_step's compare-and-set: the status and the columns the decision used.
FinishMatches(row, seen, token) ==
    /\ row.status = seen.status
    /\ row.pause = seen.pause
    /\ row.term = seen.term
    /\ row.retry = seen.retry
    /\ row.cap = seen.cap
    /\ row.token = token

---------------------------------------------------------------------------
(* Recovery and reclaim: StateMachine._settle.                              *)

\* Mutant of NeedsPerson: every step is requeued.
NeverNeedsPerson(step) == FALSE

\* registry.no_retry: an interrupted run of the step is not repeated automatically.
NeedsPerson(step) == step \in NoRetry

Settled(row, seen) ==
    CASE seen.term -> [Released(row, "terminated") EXCEPT !.term = FALSE]
      [] ~seen.term /\ (seen.pause \/ seen.status = "pause_pending") ->
           Released(row, "paused")
      [] ~seen.term /\ ~seen.pause /\ seen.status # "pause_pending"
         /\ NeedsPerson(seen.step) ->
           [Unlock(row) EXCEPT !.status = "manual_required", !.due = "null"]
      [] OTHER -> [Unlock(row) EXCEPT !.status = "queued"]

\* Mutant of SettleMatches: the requests of the user are not compared.
SettleMatchesClaim(row, seen, checkAlive) ==
    /\ row.status = seen.status
    /\ row.token = seen.token
    /\ checkAlive => row.beat = seen.beat

\* Its compare-and-set; the heartbeat counts only for reclaim (checkAlive).
SettleMatches(row, seen, checkAlive) ==
    /\ row.status = seen.status
    /\ row.pause = seen.pause
    /\ row.term = seen.term
    /\ row.token = seen.token
    /\ checkAlive => row.beat = seen.beat

---------------------------------------------------------------------------
(* Scheduler paths: claim, skip_step, requeue_failed.                       *)

\* claim: only a queued row changes; a terminate request is never outlived.
Claimed(row, token) ==
    IF row.term
    THEN [Unlock(row) EXCEPT !.status = "terminated", !.term = FALSE]
    ELSE [row EXCEPT !.status = "running", !.token = token,
                     !.beat = "new", !.due = "null"]

Skipped(row, hasDegraded) ==
    IF IsLast(row.step)
    THEN [row EXCEPT !.status = FinalStatus(FALSE, hasDegraded)]
    ELSE [row EXCEPT !.step = row.step + 1]

Requeued(row) == [row EXCEPT !.status = "queued", !.due = "null"]

---------------------------------------------------------------------------
(* User actions.  Each reads the row, decides, and writes if the status is *)
(* still the one it read.  A decision keeps what its write needs from the  *)
(* row it read: the status, the step and, in "arg", the approved attempt,  *)
(* the target step of set_step or the new max_retries.                     *)

UserActions == {"pause", "terminate", "resume", "retry", "approve", "reject",
                "wake", "set_step", "force_step", "set_retries"}

Decisions == [act : UserActions, expect : Status, step : Steps, arg : Nat]

\* The decisions an action can take on a row it has just read.
Decides(d, row) ==
    /\ d.expect = row.status
    /\ d.step = row.step
    /\ \/ d.act = "pause" /\ row.status \in {"queued", "running"} /\ d.arg = 0
       \/ d.act = "terminate" /\ row.status \notin Terminal /\ d.arg = 0
       \/ d.act = "resume" /\ row.status = "paused" /\ d.arg = 0
       \/ d.act = "retry" /\ row.status \in {"failed", "manual_required"} /\ d.arg = 0
       \/ /\ d.act = "approve"
          /\ row.status = "awaiting_approval"
          /\ row.grant.kind = "asked" /\ row.grant.step = row.step
          /\ d.arg = row.grant.attempt
       \/ d.act = "reject" /\ row.status = "awaiting_approval" /\ d.arg = 0
       \/ d.act = "wake" /\ row.status = "queued" /\ row.due # "null" /\ d.arg = 0
       \/ d.act = "set_step" /\ row.status \in {"failed", "manual_required"} /\ d.arg \in Steps
       \/ /\ d.act = "force_step"
          /\ row.status \in {"failed", "manual_required", "queued", "paused"}
          /\ d.arg \in Steps
       \/ d.act = "set_retries" /\ d.arg \in RetryCaps

\* Mutant of StillAsRead: the write does not look.
Whatever(row, d) == TRUE

\* The compare-and-set of a user action: the status is the one it decided from.
StillAsRead(row, d) == row.status = d.expect

\* What the write of a decision does to the row.
Decided(row, d) ==
    CASE d.act = "pause" ->
           IF d.expect = "running"
           THEN [row EXCEPT !.status = "pause_pending", !.pause = TRUE]
           ELSE [row EXCEPT !.status = "paused", !.due = "null"]
      [] d.act = "terminate" ->
           IF d.expect \in Executing
           THEN [row EXCEPT !.term = TRUE]
           ELSE [row EXCEPT !.status = "terminated", !.due = "null"]
      [] d.act = "resume" ->
           [row EXCEPT !.status = "queued", !.pause = FALSE, !.due = "null"]
      [] d.act = "retry" -> Requeued(row)
      [] d.act = "approve" ->
           [row EXCEPT !.status = "queued", !.grant = GrantValue(d.step, d.arg)]
      [] d.act = "reject" ->
           [row EXCEPT !.status = "manual_required", !.grant = NoGrant]
      [] d.act = "wake" -> [row EXCEPT !.due = "null"]
      [] d.act \in {"set_step", "force_step"} ->
           [row EXCEPT !.step = d.arg, !.grant = NoGrant]
      [] OTHER -> [row EXCEPT !.cap = d.arg, !.retry = 0]

---------------------------------------------------------------------------
\* The flags and the lock of a row agree with its status: only a worker answers a
\* stop request, and only a worker holds a claim token.
FlagsMatch(row) ==
    /\ row.term => row.status \in Executing
    /\ row.pause <=> row.status = "pause_pending"
    /\ row.token # NoToken <=> row.status \in Executing
============================================================================

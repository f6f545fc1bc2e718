--------------------------- MODULE TaskRowProofs ---------------------------
(***************************************************************************)
(* What the rules of module TaskRow keep of a row, for every workflow and  *)
(* every retry policy.  Module EngineProofs lifts these facts to the       *)
(* executor.                                                               *)
(***************************************************************************)
EXTENDS TaskRow, TLAPS

\* What a boundary may be given as an outcome.
OutcomeKinds == {"ok", "degraded", "notready", "later", "failed", "fatal", "denied", "ask"}

\* A blank row and a new task are rows.
LEMMA NewRowType ==
    ASSUME NEW cap \in RetryCaps
    PROVE  NewRow(cap) \in Rows
BY NumStepsAssumption, RetryCapsAssumption
   DEF NewRow, Rows, Status, Terminal, Executing, Steps, NoToken, NoGrant, Grants

\* Releasing the lock columns of a row leaves a row.
LEMMA UnlockType ==
    ASSUME NEW row \in Rows
    PROVE  Unlock(row) \in Rows
BY DEF Unlock, Rows, NoToken

\* A row released in any status is a row.
LEMMA ReleasedType ==
    ASSUME NEW row \in Rows, NEW status \in Status
    PROVE  Released(row, status) \in Rows
BY UnlockType DEF Released, Rows

\* The transition of a step boundary yields a row.
LEMMA BoundaryType ==
    ASSUME NEW row \in Rows, NEW seen \in Rows, NEW degraded,
           NEW out \in [kind : OutcomeKinds, attempt : Nat]
    PROVE  Boundary(row, seen, out, degraded) \in Rows
<1>1. Unlock(row) \in Rows BY UnlockType
<1>2. \A status \in Status : Released(row, status) \in Rows BY ReleasedType
<1>3. BoundarySucceeded(row, seen, out, degraded) \in Rows
  <2>1. CASE IsLast(seen.step)
    BY <1>2, <2>1 DEF BoundarySucceeded, FinalStatus, Status, Terminal
  <2>2. CASE ~IsLast(seen.step)
    <3>1. seen.step + 1 \in Steps
      BY <2>2, NumStepsAssumption DEF IsLast, Steps, Rows
    <3>2. PausedOr(row, seen, "queued") \in Rows
      BY <1>1, <1>2 DEF PausedOr, Rows, Status
    <3> QED BY <2>2, <3>1, <3>2 DEF BoundarySucceeded, Rows
  <2> QED BY <2>1, <2>2
<1>4. BoundaryDeferred(row, seen, out) \in Rows
  BY ZenonT(30), <1>1, <1>2 DEF BoundaryDeferred, Rows, Status
<1>5. BoundaryAsked(row, seen, out) \in Rows
  <2>1. AskedValue(seen.step, out.attempt) \in Grants
    BY NumStepsAssumption DEF AskedValue, Grants, Rows, Steps
  <2> QED BY <1>1, <1>2, <2>1 DEF BoundaryAsked, Rows, Status
<1>6. BoundaryFailed(row, seen, out) \in Rows
  <2> DEFINE counted == [row EXCEPT !.retry = seen.retry + 1, !.due = "null"]
  <2>1. counted \in Rows
    <3>1. seen.retry + 1 \in Nat BY DEF Rows
    <3> QED BY <3>1 DEF Rows
  <2>2. /\ \A status \in Status : Released(counted, status) \in Rows
        /\ Unlock(counted) \in Rows
    BY <2>1, ReleasedType, UnlockType
  <2> QED BY <2>2 DEF BoundaryFailed, Rows, Status
<1>7. [Released(row, "terminated") EXCEPT !.term = FALSE, !.due = "null"] \in Rows
  BY ZenonT(30), <1>2 DEF Rows, Status, Terminal
<1>8. [Released(row, "manual_required") EXCEPT !.due = "null"] \in Rows
  BY <1>2 DEF Rows, Status
<1> QED BY <1>3, <1>4, <1>5, <1>6, <1>7, <1>8 DEF Boundary

\* What recovery or reclaim writes is a row.
LEMMA SettledType ==
    ASSUME NEW row \in Rows, NEW seen \in Rows
    PROVE  Settled(row, seen) \in Rows
<1>1. Unlock(row) \in Rows BY UnlockType
<1>2. \A status \in Status : Released(row, status) \in Rows BY ReleasedType
<1>3. [Released(row, "terminated") EXCEPT !.term = FALSE] \in Rows
  BY ZenonT(30), <1>2 DEF Rows, Status, Terminal
<1>4. Released(row, "paused") \in Rows BY <1>2 DEF Status
<1>5. [Unlock(row) EXCEPT !.status = "manual_required", !.due = "null"] \in Rows
  BY <1>1 DEF Rows, Status
<1>6. [Unlock(row) EXCEPT !.status = "queued"] \in Rows
  BY <1>1 DEF Rows, Status
<1> QED BY <1>3, <1>4, <1>5, <1>6 DEF Settled, NeedsPerson

\* A claim leaves a row, whether it wins or answers a terminate request.
LEMMA ClaimedType ==
    ASSUME NEW row \in Rows, NEW token \in Nat
    PROVE  Claimed(row, token) \in Rows
<1>1. Unlock(row) \in Rows BY UnlockType
<1> QED BY <1>1 DEF Claimed, Rows, Status, Terminal, Executing

\* A skipped step leaves a row: the next step is a step of the workflow.
LEMMA SkippedType ==
    ASSUME NEW row \in Rows, NEW degraded
    PROVE  Skipped(row, degraded) \in Rows
<1>1. CASE IsLast(row.step)
  BY <1>1 DEF Skipped, FinalStatus, Rows, Status, Terminal
<1>2. CASE ~IsLast(row.step)
  <2>1. row.step + 1 \in Steps
    BY <1>2, NumStepsAssumption DEF IsLast, Steps, Rows
  <2> QED BY <1>2, <2>1 DEF Skipped, Rows
<1> QED BY <1>1, <1>2

\* The automatic or requested requeue of a task leaves a row.
LEMMA RequeuedType ==
    ASSUME NEW row \in Rows
    PROVE  Requeued(row) \in Rows
BY DEF Requeued, Rows, Status

\* The decisions that some row allows.
Allowed == {d \in Decisions : \E row \in Rows : Decides(d, row)}

\* Every user action leaves a row.
LEMMA DecidedType ==
    ASSUME NEW row \in Rows, NEW d \in Allowed
    PROVE  Decided(row, d) \in Rows
<1>1. PICK read \in Rows : Decides(d, read) BY DEF Allowed
<1>2. d \in Decisions BY DEF Allowed
<1>3. CASE d.act \in {"set_step", "force_step"}
  <2>1. d.arg \in Steps BY <1>1, <1>3 DEF Decides
  <2>2. NoGrant \in Grants BY DEF NoGrant, Grants
  <2> QED BY <1>3, <2>1, <2>2 DEF Decided, Rows
<1>4. CASE d.act = "approve"
  <2>1. GrantValue(d.step, d.arg) \in Grants
    BY <1>2, NumStepsAssumption DEF GrantValue, Grants, Decisions, Steps
  <2> QED BY <1>4, <2>1 DEF Decided, Rows, Status
<1>5. CASE d.act = "reject"
  <2>1. NoGrant \in Grants BY DEF NoGrant, Grants
  <2> QED BY <1>5, <2>1 DEF Decided, Rows, Status
<1>6. CASE d.act \in {"pause", "terminate", "resume", "retry", "wake"}
  <2>1. CASE d.act = "pause" BY <2>1 DEF Decided, Rows, Status, Executing
  <2>2. CASE d.act = "terminate" BY <2>2 DEF Decided, Rows, Status, Terminal
  <2>3. CASE d.act = "resume" BY <2>3 DEF Decided, Rows, Status
  <2>4. CASE d.act = "retry" BY <2>4, RequeuedType DEF Decided
  <2>5. CASE d.act = "wake" BY <2>5 DEF Decided, Rows
  <2> QED BY <1>6, <2>1, <2>2, <2>3, <2>4, <2>5
<1>7. CASE d.act = "set_retries"
  <2>1. d.arg \in Nat BY <1>2 DEF Decisions
  <2> QED BY <1>7, <2>1 DEF Decided, Rows
<1> QED BY <1>2, <1>3, <1>4, <1>5, <1>6, <1>7 DEF Decisions, UserActions

---------------------------------------------------------------------------
(* Flags and status: each rule keeps FlagsMatch, given its compare-and-set. *)

\* A step boundary leaves flags and claim matching the status: it was decided from the
\* flags its compare-and-set found again.
LEMMA BoundaryFlags ==
    ASSUME NEW row \in Rows, NEW seen \in Rows, NEW degraded, NEW token,
           NEW out \in [kind : OutcomeKinds, attempt : Nat],
           FinishMatches(row, seen, token)
    PROVE  FlagsMatch(Boundary(row, seen, out, degraded))
<1> USE DEF Rows, FlagsMatch, Executing, Released, Unlock, NoToken
<1>1. row.pause = seen.pause /\ row.term = seen.term BY DEF FinishMatches
<1>2. CASE seen.term
  BY <1>1, <1>2 DEF Boundary
<1>3. CASE ~seen.term
  <2>1. FlagsMatch(BoundarySucceeded(row, seen, out, degraded))
    BY <1>1, <1>3 DEF BoundarySucceeded, PausedOr, FinalStatus
  <2>2. FlagsMatch(BoundaryDeferred(row, seen, out))
    BY <1>1, <1>3 DEF BoundaryDeferred
  <2>3. FlagsMatch(BoundaryAsked(row, seen, out))
    BY <1>1, <1>3 DEF BoundaryAsked
  <2>4. FlagsMatch(BoundaryFailed(row, seen, out))
    BY <1>1, <1>3 DEF BoundaryFailed
  <2>5. FlagsMatch([Released(row, "manual_required") EXCEPT !.due = "null"])
    BY <1>1, <1>3
  <2> QED BY <1>3, <2>1, <2>2, <2>3, <2>4, <2>5 DEF Boundary
<1> QED BY <1>2, <1>3

\* So does a settled task, whether or not its heartbeat was compared.
LEMMA SettledFlags ==
    ASSUME NEW row \in Rows, NEW seen \in Rows, NEW alive,
           SettleMatches(row, seen, alive)
    PROVE  FlagsMatch(Settled(row, seen))
<1> USE DEF Rows, FlagsMatch, Executing, Released, Unlock, NoToken
<1>1. row.pause = seen.pause /\ row.term = seen.term BY DEF SettleMatches
<1> QED BY <1>1 DEF Settled, NeedsPerson

\* A claim of a queued row puts the token on an executing task.
LEMMA ClaimedFlags ==
    ASSUME NEW row \in Rows, NEW token \in Nat \ {0},
           FlagsMatch(row), row.status = "queued"
    PROVE  FlagsMatch(Claimed(row, token))
BY DEF Claimed, Rows, FlagsMatch, Executing, Unlock, NoToken

\* Skipping the step of a queued row touches neither flags nor claim.
LEMMA SkippedFlags ==
    ASSUME NEW row \in Rows, NEW degraded, FlagsMatch(row), row.status = "queued"
    PROVE  FlagsMatch(Skipped(row, degraded))
BY DEF Skipped, FinalStatus, Rows, FlagsMatch, Executing

\* Requeueing a task nobody executes leaves no flag behind.
LEMMA RequeuedFlags ==
    ASSUME NEW row \in Rows, FlagsMatch(row), row.status \notin Executing
    PROVE  FlagsMatch(Requeued(row))
BY DEF Requeued, Rows, FlagsMatch, Executing

\* A user action sets a flag only on the status it read, which its write found again.
LEMMA DecidedFlags ==
    ASSUME NEW row \in Rows, NEW d \in Allowed, StillAsRead(row, d), FlagsMatch(row)
    PROVE  FlagsMatch(Decided(row, d))
<1> USE DEF Rows, FlagsMatch, Executing, StillAsRead, Decided
<1>1. PICK read \in Rows : Decides(d, read) BY DEF Allowed
<1>2. d \in Decisions BY DEF Allowed
<1>3. d.expect = read.status BY <1>1 DEF Decides
<1>4. CASE d.act = "pause"
  <2>1. d.expect \in {"queued", "running"} BY <1>1, <1>3, <1>4 DEF Decides
  <2> QED BY <1>4, <2>1
<1>5. CASE d.act = "terminate"
  BY <1>5
<1>6. CASE d.act = "resume"
  <2>1. d.expect = "paused" BY <1>1, <1>3, <1>6 DEF Decides
  <2> QED BY <1>6, <2>1
<1>7. CASE d.act = "retry"
  <2>1. d.expect \in {"failed", "manual_required"} BY <1>1, <1>3, <1>7 DEF Decides
  <2> QED BY <1>7, <2>1 DEF Requeued
<1>8. CASE d.act \in {"approve", "reject"}
  <2>1. d.expect = "awaiting_approval" BY <1>1, <1>3, <1>8 DEF Decides
  <2> QED BY <1>8, <2>1
<1>9. CASE d.act = "wake" BY <1>9
<1>10. CASE d.act \in {"set_step", "force_step"} BY <1>10
<1>11. CASE d.act = "set_retries" BY <1>11
<1> QED BY <1>2, <1>4, <1>5, <1>6, <1>7, <1>8, <1>9, <1>10, <1>11
        DEF Decisions, UserActions

---------------------------------------------------------------------------
(* Stop requests and ends: what each rule does to a row that carries a      *)
(* terminate request, that pauses, or that is finished.                     *)

TerminateKept(old, new) ==
    old.term => \/ new.term /\ new.status \in Executing /\ new.step = old.step
                \/ new.status = "terminated"

EndKept(old, new) ==
    old.status \in Terminal => new.status = old.status /\ new.step = old.step

PauseKept(old, new) ==
    old.status = "pause_pending" =>
        new.status \in {"pause_pending", "paused", "manual_required"} \cup Terminal

RequestsKept(old, new) == TerminateKept(old, new) /\ EndKept(old, new) /\ PauseKept(old, new)

\* A compare-and-set that finds the claim's token finds the task executing, so a
\* boundary never hits a finished row; and what it honours is what the row asks for.
LEMMA BoundaryKeeps ==
    ASSUME NEW row \in Rows, NEW seen \in Rows, NEW degraded, NEW token \in Nat \ {0},
           NEW out \in [kind : OutcomeKinds, attempt : Nat],
           FlagsMatch(row), FinishMatches(row, seen, token)
    PROVE  RequestsKept(row, Boundary(row, seen, out, degraded))
<1> USE DEF Rows, Released, Unlock
<1>1. row.pause = seen.pause /\ row.term = seen.term /\ row.token # 0 BY DEF FinishMatches
<1>2. row.status \in Executing /\ row.status \notin Terminal
  BY <1>1 DEF FlagsMatch, NoToken, Executing, Terminal
<1>3. row.status = "pause_pending" => seen.pause BY <1>1 DEF FlagsMatch
<1>4. CASE seen.term
  BY <1>2, <1>4 DEF Boundary, RequestsKept, TerminateKept, EndKept, PauseKept, Terminal
<1>5. CASE ~seen.term
  <2> DEFINE Stops(new) == seen.pause =>
               new.status \in {"paused", "manual_required"} \cup Terminal
  <2>1. Stops(BoundarySucceeded(row, seen, out, degraded))
    BY DEF BoundarySucceeded, PausedOr, FinalStatus, Terminal
  <2>2. Stops(BoundaryDeferred(row, seen, out)) BY DEF BoundaryDeferred
  <2>3. Stops(BoundaryAsked(row, seen, out)) BY DEF BoundaryAsked
  <2>4. Stops(BoundaryFailed(row, seen, out)) BY DEF BoundaryFailed
  <2>5. Stops([Released(row, "manual_required") EXCEPT !.due = "null"]) OBVIOUS
  <2> HIDE DEF Stops
  <2>6. Stops(Boundary(row, seen, out, degraded))
    BY <1>5, <2>1, <2>2, <2>3, <2>4, <2>5 DEF Boundary
  <2> QED BY <1>1, <1>2, <1>3, <1>5, <2>6
          DEF Stops, RequestsKept, TerminateKept, EndKept, PauseKept
<1> QED BY <1>4, <1>5

\* Recovery and reclaim honour the requests they settle a task under.
LEMMA SettledKeeps ==
    ASSUME NEW row \in Rows, NEW seen \in Rows, NEW alive,
           seen.status \in Executing, SettleMatches(row, seen, alive)
    PROVE  RequestsKept(row, Settled(row, seen))
<1> USE DEF Rows, Released, Unlock
<1>1. row.status = seen.status /\ row.pause = seen.pause /\ row.term = seen.term
  BY DEF SettleMatches
<1>2. row.status \notin Terminal BY <1>1 DEF Executing, Terminal
<1>3. row.term => Settled(row, seen).status = "terminated"
  BY <1>1 DEF Settled, NeedsPerson
<1>4. row.status = "pause_pending" => Settled(row, seen).status \in {"paused", "terminated"}
  BY <1>1 DEF Settled, NeedsPerson
<1> QED BY <1>2, <1>3, <1>4 DEF RequestsKept, TerminateKept, EndKept, PauseKept, Terminal

\* The scheduler's rules start from a resting row, which carries no request.
LEMMA SchedulerKeeps ==
    ASSUME NEW row \in Rows, NEW new, FlagsMatch(row), row.status \in {"queued", "failed"}
    PROVE  RequestsKept(row, new)
BY DEF FlagsMatch, Executing, Terminal, RequestsKept, TerminateKept, EndKept, PauseKept

\* No user action withdraws a terminate request, revives a finished task or takes a pause
\* back.
LEMMA DecidedKeeps ==
    ASSUME NEW row \in Rows, NEW d \in Allowed, StillAsRead(row, d), FlagsMatch(row)
    PROVE  RequestsKept(row, Decided(row, d))
<1> USE DEF Rows, StillAsRead, Decided
<1>1. PICK read \in Rows : Decides(d, read) BY DEF Allowed
<1>2. d \in Decisions BY DEF Allowed
<1>3. d.expect = read.status BY <1>1 DEF Decides
<1>4. CASE d.act = "pause"
  <2>1. d.expect \in {"queued", "running"} BY <1>1, <1>3, <1>4 DEF Decides
  <2> QED BY <1>4, <2>1 DEF FlagsMatch, Executing, Terminal, RequestsKept, TerminateKept,
                           EndKept, PauseKept
<1>5. CASE d.act = "terminate"
  <2>1. d.expect \notin Terminal BY <1>1, <1>3, <1>5 DEF Decides
  <2> QED BY <1>5, <2>1 DEF FlagsMatch, Executing, RequestsKept, TerminateKept, EndKept,
                           PauseKept
<1>6. CASE d.act \in {"resume", "retry", "approve", "reject", "wake", "set_step", "force_step"}
  <2>1. d.expect \in {"paused", "failed", "manual_required", "awaiting_approval", "queued"}
    BY <1>1, <1>3, <1>6 DEF Decides
  <2>2. row.status \notin Executing \cup Terminal BY <2>1 DEF Executing, Terminal
  <2> QED BY <2>2 DEF FlagsMatch, Executing, RequestsKept, TerminateKept, EndKept, PauseKept
<1>7. CASE d.act = "set_retries"
  BY <1>7 DEF FlagsMatch, RequestsKept, TerminateKept, EndKept, PauseKept
<1> QED BY <1>2, <1>4, <1>5, <1>6, <1>7 DEF Decisions, UserActions

---------------------------------------------------------------------------
(* The retry counter: a boundary adds one for a failure, set_retries resets *)
(* it, and no other rule touches it.                                        *)

Charges(seen, out) == ~seen.term /\ out.kind \in {"failed", "fatal"}

\* A boundary charges exactly one failure, and adds it to the count the row still has.
LEMMA BoundaryRetry ==
    ASSUME NEW row \in Rows, NEW seen \in Rows, NEW degraded, NEW token,
           NEW out \in [kind : OutcomeKinds, attempt : Nat],
           FinishMatches(row, seen, token)
    PROVE  Boundary(row, seen, out, degraded).retry
             = IF Charges(seen, out) THEN row.retry + 1 ELSE row.retry
<1> USE DEF Rows, Released, Unlock, Charges
<1>1. row.retry = seen.retry BY DEF FinishMatches
<1>2. BoundarySucceeded(row, seen, out, degraded).retry = row.retry
  BY DEF BoundarySucceeded, PausedOr
<1>3. BoundaryDeferred(row, seen, out).retry = row.retry BY DEF BoundaryDeferred
<1>4. BoundaryAsked(row, seen, out).retry = row.retry BY DEF BoundaryAsked
<1>5. BoundaryFailed(row, seen, out).retry = row.retry + 1 BY <1>1 DEF BoundaryFailed
<1>6. [Released(row, "manual_required") EXCEPT !.due = "null"].retry = row.retry OBVIOUS
<1>7. [Released(row, "terminated") EXCEPT !.term = FALSE, !.due = "null"].retry = row.retry
  OBVIOUS
<1>8. out.kind \in OutcomeKinds OBVIOUS
<1> QED BY <1>2, <1>3, <1>4, <1>5, <1>6, <1>7, <1>8
        DEF Boundary, Succeeds, OutcomeKinds

\* Recovery and reclaim charge nothing.
LEMMA SettledRetry ==
    ASSUME NEW row \in Rows, NEW seen
    PROVE  Settled(row, seen).retry = row.retry
BY DEF Rows, Settled, NeedsPerson, Released, Unlock

\* Neither do claim, skip and requeue.
LEMMA SchedulerRetry ==
    ASSUME NEW row \in Rows, NEW token, NEW degraded
    PROVE  /\ Claimed(row, token).retry = row.retry
           /\ Skipped(row, degraded).retry = row.retry
           /\ Requeued(row).retry = row.retry
BY DEF Rows, Claimed, Skipped, Requeued, Unlock

\* Of the user actions only set-retries touches the count: it becomes 0.
LEMMA DecidedRetry ==
    ASSUME NEW row \in Rows, NEW d \in Decisions
    PROVE  Decided(row, d).retry = IF d.act = "set_retries" THEN 0 ELSE row.retry
<1>1. d.act \in UserActions BY DEF Decisions
<1> QED BY <1>1 DEF Decided, Requeued, Rows, UserActions
=============================================================================

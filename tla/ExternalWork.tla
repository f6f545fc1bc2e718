---------------------------- MODULE ExternalWork ----------------------------
(***************************************************************************)
(* External steps: work done outside the engine.  The executor opens a     *)
(* work item (table "work_items") and the task waits in awaiting_external; *)
(* clients claim the item, release it or submit a result; the submission   *)
(* queues the task again, and the next run of the step validates it.       *)
(*                                                                         *)
(* One task, one workflow.  Rules for the columns of the row come from     *)
(* TaskRow; the outcomes AwaitsExternal and Rejected and the changes of    *)
(* items that share a transition's transaction are added here.  That a     *)
(* task is never executed by two jobs at once, and that it is settled only *)
(* when its job is gone, is what module Engine establishes: here a claim   *)
(* has one worker, and the row is settled once that worker is gone.        *)
(***************************************************************************)
EXTENDS TaskRow, Sequences, FiniteSets

CONSTANTS
    External,      \* the external steps
    Skippable,     \* steps whose when() may answer False
    MaxAttempts,   \* ExternalStep.max_attempts
    Clients, NoClient,
    UserActs,      \* the user actions of this instance
    MaxClaims,     \* bound: executions of the task in a behaviour
    MaxItems,      \* bound: work items in a behaviour
    MaxTickets     \* bound: claims of items in a behaviour

ExternalAssumption ==
    /\ External \subseteq Steps /\ Skippable \subseteq Steps
    /\ MaxAttempts \in Nat \ {0} /\ NoClient \notin Clients
    /\ UserActs \subseteq UserActions
    /\ {MaxClaims, MaxItems, MaxTickets} \subseteq Nat

VARIABLES
    row,       \* the task
    items,     \* table work_items, in order of id
    worker,    \* the execution of each claim of the task
    claims,    \* claims of the task so far; the last claim_token handed out
    client,    \* what each client holds, and the submission it is about to write
    tickets,   \* claims of items so far; the last item token handed out
    request    \* a user's action between its read and its write

vars == <<row, items, worker, claims, client, tickets, request>>

Tokens == 1 .. MaxClaims
ItemIds == 1 .. MaxItems

---------------------------------------------------------------------------
(* work_items.py: ACTIVE, STATUSES.                                         *)

Active == {"open", "claimed", "submitted"}
ItemStatus == Active \cup {"accepted", "rejected", "exhausted", "cancelled"}

Items == [step : Steps, attempt : Nat, status : ItemStatus,
          token : Nat,                             \* claim_token, 0 for null
          by : Clients \cup {NoClient},            \* claimed_by
          submitter : Clients \cup {NoClient}]     \* submitted_by

OpenItem(step, attempt) ==
    [step |-> step, attempt |-> attempt, status |-> "open", token |-> 0,
     by |-> NoClient, submitter |-> NoClient]

ActiveItems == {i \in DOMAIN items : items[i].status \in Active}

\* latest_for: the newest item of a step, 0 if there is none.
LatestFor(step) ==
    LET ids == {i \in DOMAIN items : items[i].step = step}
    IN  IF ids = {} THEN 0 ELSE CHOOSE i \in ids : \A j \in ids : j <= i

\* _move and canceller: a task that ends, or is written another step, leaves its
\* active items behind.
CancelsOn(item, old, new, moved) ==
    /\ item.status \in Active
    /\ \/ new.status \in Terminal /\ old.status \notin Terminal
       \/ moved /\ item.step # new.step

Cancelled(its, old, new, moved) ==
    [i \in DOMAIN its |->
        IF CancelsOn(its[i], old, new, moved)
        THEN [its[i] EXCEPT !.status = "cancelled"] ELSE its[i]]

---------------------------------------------------------------------------
(* The step boundary with the outcomes of external steps.                   *)

OutcomeKinds == {"ok", "degraded", "notready", "later", "failed", "fatal",
                 "awaits", "rewaits", "rejected"}

Outcomes == [kind : OutcomeKinds, item : Nat, attempt : Nat]

Outcome(kind, item, attempt) == [kind |-> kind, item |-> item, attempt |-> attempt]

NoOutcome == Outcome("notready", 0, 0)

\* Mutant of Exhausted: one attempt too many.
ExhaustedLate(out) == out.attempt > MaxAttempts

Exhausted(out) == out.attempt >= MaxAttempts

BoundaryAwaits(old, seen) ==
    IF seen.pause
    THEN Released(old, "paused")
    ELSE [Unlock(old) EXCEPT !.status = "awaiting_external", !.due = "null"]

BoundaryRejected(old, seen, out) ==
    IF Exhausted(out)
    THEN [Released(old, "manual_required") EXCEPT !.due = "null"]
    ELSE PausedOr(old, seen, "queued")

ExternalBoundary(old, seen, out) ==
    IF seen.term \/ out.kind \notin {"awaits", "rewaits", "rejected"}
    THEN Boundary(old, seen, out, FALSE)
    ELSE IF out.kind = "rejected" THEN BoundaryRejected(old, seen, out)
         ELSE BoundaryAwaits(old, seen)

\* Mutant of Opens: whatever the boundary decided.
OpensAnyhow(out, new) == out.kind = "awaits"

\* _item_change: an item is opened only if the task really goes to wait for it, and
\* not when the active one is waited on again.
Opens(out, new) == out.kind = "awaits" /\ new.status = "awaiting_external"

\* Mutant of Closes: an accepted item stays submitted.
ClosesRejected(out) == out.kind = "rejected"

Closes(out) == out.kind \in {"ok", "degraded", "rejected"} /\ out.item # 0

Verdict(out) ==
    IF out.kind # "rejected" THEN "accepted"
    ELSE IF Exhausted(out) THEN "exhausted" ELSE "rejected"

\* The hook raises: the item is no longer submitted, or the unique index on active
\* items refuses a second one.
HookRaises(out, new) ==
    \/ Opens(out, new) /\ ActiveItems # {}
    \/ Closes(out) /\ items[out.item].status # "submitted"

ItemChange(out, seen, new) ==
    IF Opens(out, new) THEN Append(items, OpenItem(seen.step, out.attempt))
    ELSE IF Closes(out) THEN [items EXCEPT ![out.item].status = Verdict(out)]
    ELSE items

---------------------------------------------------------------------------
(* The worker of a claim.  pc: none; start; active, latest (looking for a   *)
(* work item); run (an ordinary step); check (the validator); finish        *)
(* (outcome known); commit (row read, write to come); gone.                 *)

BlankRow == NewRow(CHOOSE c \in RetryCaps : TRUE)

Workers == [pc : {"none", "start", "active", "latest", "run", "check", "finish", "commit", "gone"},
            step : Steps, item : Nat, out : Outcomes, seen : Rows]

Idle(pc) == [pc |-> pc, step |-> 1, item |-> 0, out |-> NoOutcome, seen |-> BlankRow]

Finishing(k, out) == [worker EXCEPT ![k].pc = "finish", ![k].out = out]

\* Failed, or Failed(no_retry) for a step that opted out of retries.
FailKind(step) == IF step \in NoRetry THEN "fatal" ELSE "failed"

Clientele == [item : Nat, token : Nat, submitting : BOOLEAN]
NoTicket == [item |-> 0, token |-> 0, submitting |-> FALSE]

Init ==
    /\ row \in {NewRow(c) : c \in RetryCaps}
    /\ items = << >>
    /\ worker = [k \in Tokens |-> Idle("none")]
    /\ claims = 0
    /\ client = [c \in Clients |-> NoTicket]
    /\ tickets = 0
    /\ request = {}

---------------------------------------------------------------------------
(* The executor.                                                            *)

Claim ==
    /\ row.status = "queued" /\ row.due # "future"
    /\ claims < MaxClaims
    /\ claims' = claims + 1
    /\ row' = Claimed(row, claims + 1)
    /\ worker' = [worker EXCEPT ![claims + 1] = Idle("start")]
    /\ UNCHANGED <<items, client, tickets, request>>

SkipStep ==
    /\ row.status = "queued" /\ row.due # "future"
    /\ row.step \in Skippable
    /\ row' = Skipped(row, FALSE)
    /\ items' = Cancelled(items, row, row', ~IsLast(row.step))
    /\ UNCHANGED <<worker, claims, client, tickets, request>>

\* execute: the claim is current; a stop requested meanwhile is honoured first.
Start(k) ==
    /\ worker[k].pc = "start"
    /\ worker' =
          IF row.term \/ row.pause THEN Finishing(k, NoOutcome)
          ELSE [worker EXCEPT ![k].step = row.step,
                              ![k].pc = IF row.step \in External THEN "active" ELSE "run"]
    /\ UNCHANGED <<row, items, claims, client, tickets, request>>

\* Mutant of Answered: a submission is waited for again.
NeverAnswered(i) == FALSE

Answered(i) == items[i].status = "submitted"

\* _external: the active item decides what this run is for.
LookForActive(k) ==
    /\ worker[k].pc = "active"
    /\ \/ /\ ActiveItems = {}
          /\ worker' = [worker EXCEPT ![k].pc = "latest"]
       \/ \E i \in ActiveItems :
             worker' = IF items[i].step # worker[k].step
                       THEN Finishing(k, Outcome(FailKind(worker[k].step), 0, 0))
                       ELSE IF Answered(i)
                       THEN [worker EXCEPT ![k].pc = "check", ![k].item = i]
                       ELSE Finishing(k, Outcome("rewaits", 0, items[i].attempt))
    /\ UNCHANGED <<row, items, claims, client, tickets, request>>

NextAttempt(i) ==
    IF i # 0 /\ items[i].status = "rejected" THEN items[i].attempt + 1 ELSE 1

\* ... none is active: ask for the next attempt.  request() may raise.
LookForLatest(k) ==
    /\ worker[k].pc = "latest"
    /\ Len(items) < MaxItems
    /\ \/ worker' = Finishing(k, Outcome("awaits", 0, NextAttempt(LatestFor(worker[k].step))))
       \/ worker' = Finishing(k, Outcome(FailKind(worker[k].step), 0, 0))
    /\ UNCHANGED <<row, items, claims, client, tickets, request>>

\* The validator returns, defers, raises, or rejects the submission.  What a plain
\* failure or deferral reports names no item: the submission stays.
Validate(k) ==
    LET i == worker[k].item
    IN  /\ worker[k].pc = "check"
        /\ \E kind \in {"ok", "degraded", "rejected", "later", FailKind(worker[k].step)} :
              worker' = Finishing(k,
                  IF kind \in {"ok", "degraded", "rejected"}
                  THEN Outcome(kind, i, items[i].attempt) ELSE Outcome(kind, 0, 0))
        /\ UNCHANGED <<row, items, claims, client, tickets, request>>

Run(k) ==
    /\ worker[k].pc = "run"
    /\ \E kind \in {"ok", FailKind(worker[k].step)} : worker' = Finishing(k, Outcome(kind, 0, 0))
    /\ UNCHANGED <<row, items, claims, client, tickets, request>>

\* finish_step: read and decide ...
FinishRead(k) ==
    /\ worker[k].pc = "finish"
    /\ worker' = [worker EXCEPT ![k].pc = "commit", ![k].seen = row]
    /\ UNCHANGED <<row, items, claims, client, tickets, request>>

\* ... then row and item change in one transaction, or neither: an exception of the
\* hook rolls both back and ends the job.
FinishWrite(k) ==
    LET seen == worker[k].seen
        out == worker[k].out
        new == ExternalBoundary(row, seen, out)
    IN  /\ worker[k].pc = "commit"
        /\ \/ /\ ~FinishMatches(row, seen, k)
              /\ worker' = [worker EXCEPT ![k].pc = "finish", ![k].seen = BlankRow]
              /\ UNCHANGED <<row, items>>
           \/ /\ FinishMatches(row, seen, k)
              /\ worker' = [worker EXCEPT ![k] = Idle("gone")]
              /\ IF HookRaises(out, new) THEN UNCHANGED <<row, items>>
                 ELSE /\ row' = new
                      /\ items' = Cancelled(ItemChange(out, seen, new), row, new,
                                            new.step # row.step)
        /\ UNCHANGED <<claims, client, tickets, request>>

\* The process is killed, or an exception leaves the job.
WorkerDies(k) ==
    /\ worker[k].pc \notin {"none", "gone"}
    /\ worker' = [worker EXCEPT ![k] = Idle("gone")]
    /\ UNCHANGED <<row, items, claims, client, tickets, request>>

\* recover_interrupted, reclaim_stale.
Settle ==
    /\ row.status \in Executing
    /\ worker[row.token].pc = "gone"
    /\ row' = Settled(row, row)
    /\ items' = Cancelled(items, row, row', FALSE)
    /\ UNCHANGED <<worker, claims, client, tickets, request>>

Requeue ==
    /\ row.status = "failed" /\ row.due # "future"
    /\ row' = Requeued(row)
    /\ UNCHANGED <<items, worker, claims, client, tickets, request>>

DelayEnds ==
    /\ row.due = "future"
    /\ row' = [row EXCEPT !.due = "past"]
    /\ UNCHANGED <<items, worker, claims, client, tickets, request>>

---------------------------------------------------------------------------
(* Clients.                                                                 *)

\* WorkItems.claim: one conditional update.
Claimable(i) == items[i].status = "open" /\ row.status = "awaiting_external"

ClaimItem(c, i) ==
    /\ client[c] = NoTicket
    /\ Claimable(i)
    /\ tickets < MaxTickets
    /\ tickets' = tickets + 1
    /\ items' = [items EXCEPT ![i].status = "claimed", ![i].by = c, ![i].token = tickets + 1]
    /\ client' = [client EXCEPT ![c] = [item |-> i, token |-> tickets + 1, submitting |-> FALSE]]
    /\ UNCHANGED <<row, worker, claims, request>>

Reopened(i) == [items EXCEPT ![i].status = "open", ![i].by = NoClient, ![i].token = 0]

\* WorkItems.release, with the token of the claim ...
ReleaseItem(c) ==
    LET i == client[c].item
    IN  /\ client[c].token # 0 /\ ~client[c].submitting
        /\ client' = [client EXCEPT ![c] = NoTicket]
        /\ items' = IF items[i].status = "claimed" /\ items[i].token = client[c].token
                    THEN Reopened(i) ELSE items
        /\ UNCHANGED <<row, worker, claims, tickets, request>>

\* Mutant of Freeable: a submitted item too.
FreeableLate(i) == items[i].status \in {"claimed", "submitted"}

Freeable(i) == items[i].status = "claimed"

\* ... or by an operator, whoever claimed it; the claimant is not told.
FreeItem(i) ==
    /\ Freeable(i)
    /\ items' = Reopened(i)
    /\ UNCHANGED <<row, worker, claims, client, tickets, request>>

\* submit_item and submit_external: the item must be claimed (by anyone) and the task
\* wait on its step ...
SubmitReads(c) ==
    LET i == client[c].item
    IN  /\ client[c].token # 0 /\ ~client[c].submitting
        /\ client' = [client EXCEPT ![c] =
                         IF /\ items[i].status = "claimed"
                            /\ row.status = "awaiting_external" /\ row.step = items[i].step
                         THEN [@ EXCEPT !.submitting = TRUE] ELSE NoTicket]
        /\ UNCHANGED <<row, items, worker, claims, tickets, request>>

\* Mutant of SubmitMatches: the token is not compared.
SubmitMatchesStatus(i, token) == items[i].status = "claimed"

SubmitMatches(i, token) == items[i].status = "claimed" /\ items[i].token = token

\* ... then, if the task still waits, item and task change together, or not at all.
SubmitWrites(c) ==
    LET i == client[c].item
        waits == row.status = "awaiting_external"
    IN  /\ client[c].submitting
        /\ client' = [client EXCEPT ![c] =
                         IF waits THEN NoTicket ELSE [@ EXCEPT !.submitting = FALSE]]
        /\ IF waits /\ SubmitMatches(i, client[c].token)
           THEN /\ row' = [row EXCEPT !.status = "queued"]
                /\ items' = [items EXCEPT ![i].status = "submitted", ![i].submitter = c]
           ELSE UNCHANGED <<row, items>>
        /\ UNCHANGED <<worker, claims, tickets, request>>

---------------------------------------------------------------------------
(* A user.  set_step refuses a task that waits on external work.            *)

UserReads ==
    /\ request = {}
    /\ \E d \in [act : UserActs, expect : {row.status}, step : {row.step},
                 arg : Steps \cup RetryCaps \cup {0}] :
          Decides(d, row) /\ request' = {d}
    /\ UNCHANGED <<row, items, worker, claims, client, tickets>>

UserWrites(d) ==
    /\ d \in request
    /\ request' = {}
    /\ IF StillAsRead(row, d)
       THEN /\ row' = Decided(row, d)
            /\ items' = Cancelled(items, row, row', d.act \in {"set_step", "force_step"})
       ELSE UNCHANGED <<row, items>>
    /\ UNCHANGED <<worker, claims, client, tickets>>

---------------------------------------------------------------------------
Work(k) ==
    \/ Start(k) \/ LookForActive(k) \/ LookForLatest(k) \/ Validate(k) \/ Run(k)
    \/ FinishRead(k) \/ FinishWrite(k)

Executor == Claim \/ SkipStep \/ Settle \/ Requeue \/ DelayEnds

Customer(c) ==
    \/ \E i \in DOMAIN items : ClaimItem(c, i)
    \/ ReleaseItem(c) \/ SubmitReads(c) \/ SubmitWrites(c)

Next ==
    \/ Executor
    \/ \E k \in Tokens : Work(k) \/ WorkerDies(k)
    \/ \E c \in Clients : Customer(c)
    \/ \E i \in DOMAIN items : FreeItem(i)
    \/ UserReads
    \/ \E d \in request : UserWrites(d)

Spec == Init /\ [][Next]_vars

\* The executor's threads run, validators return and time passes; no client and no
\* user has to do anything.
FairSpec ==
    /\ Spec
    /\ WF_vars(Executor)
    /\ \A k \in Tokens : WF_vars(Work(k))

---------------------------------------------------------------------------
TypeOK ==
    /\ row \in [status : Status \cup {"awaiting_external"}, step : Steps, pause : BOOLEAN,
                term : BOOLEAN, retry : Nat, cap : Nat, due : {"null", "future", "past"},
                beat : {"old", "new"}, token : Nat, grant : Grants]
    /\ items \in Seq(Items)
    /\ worker \in [Tokens -> Workers]
    /\ claims \in 0 .. MaxClaims
    /\ client \in [Clients -> Clientele]
    /\ tickets \in 0 .. MaxTickets
    /\ request \in SUBSET [act : UserActions, expect : Status \cup {"awaiting_external"},
                           step : Steps, arg : Nat]

\* A task waits in awaiting_external exactly while an item of its step can be claimed
\* or submitted; a submission belongs to the step its task is on, and no item stays
\* active behind a finished task.  Otherwise a task would wait for ever, or a client
\* work for nothing.
WaitIsAnswerable ==
    /\ row.status = "awaiting_external" <=>
          \E i \in DOMAIN items : items[i].status \in {"open", "claimed"}
    /\ \A i \in ActiveItems : items[i].step = row.step /\ row.status \notin Terminal
    /\ Cardinality(ActiveItems) <= 1

\* The hooks of a boundary's transaction never raise: the row's compare-and-set alone
\* guarantees that the item is as the worker read it, and the database's unique index
\* is never what stops a second active item.
HooksNeverRaise ==
    \A k \in Tokens :
        worker[k].pc = "commit" /\ FinishMatches(row, worker[k].seen, k) =>
            ~HookRaises(worker[k].out, ExternalBoundary(row, worker[k].seen, worker[k].out))

\* What was submitted for an item came from the client that held the claim at that
\* time: a claimant whose item was freed, and perhaps claimed by another, cannot
\* submit with its old token.
SubmittedByClaimant ==
    \A i \in DOMAIN items :
        items[i].status \in {"submitted", "accepted", "rejected", "exhausted"} =>
            items[i].submitter = items[i].by /\ items[i].by # NoClient

\* Rejections are counted: the item after a rejected one carries the next attempt, any
\* other item of a step starts afresh, and no item goes beyond the last attempt.
AttemptsCount ==
    \A j \in DOMAIN items :
        LET before == {i \in 1 .. j - 1 : items[i].step = items[j].step}
            i == CHOOSE x \in before : \A y \in before : y <= x
        IN  /\ items[j].attempt <= MaxAttempts
            /\ items[j].attempt =
                  IF before # {} /\ items[i].status = "rejected" THEN items[i].attempt + 1 ELSE 1

\* A task waits for an item that can be answered, by the claimant and by nobody else, and
\* is asked again as often as the step allows.
ItemsAreAnswered ==
    TypeOK /\ WaitIsAnswerable /\ HooksNeverRaise /\ SubmittedByClaimant /\ AttemptsCount

\* An executing task leaves an external step forwards in the very transaction in which its
\* item becomes accepted, and no item is accepted without the task leaving the step or
\* ending.
Advances ==
    LET accepted == {i \in DOMAIN items : /\ items[i].status # "accepted"
                                          /\ items'[i].status = "accepted"}
        leaves == \/ row'.step # row.step
                  \/ row.status \notin Terminal /\ row'.status \in Terminal
    IN  /\ accepted # {} => leaves
        /\ /\ row.status \in Executing /\ row.step \in External
           /\ row'.step # row.step \/ row'.status \in {"completed", "partially_completed"}
           => \E i \in accepted : items[i].step = row.step

\* state_machine.py:913: an external step is passed only with an accepted submission, and
\* an acceptance is spent in the transaction that moves the task.
AcceptedAdvances == [][Advances]_vars

Submitted == \E i \in DOMAIN items : items[i].status = "submitted"

\* It is decided, unless somebody has to act first (the validator failed for good, or a
\* user paused the task) or the bound is reached.
SubmissionOver == ~Submitted \/ row.status \in {"paused", "manual_required"} \/ claims = MaxClaims
=============================================================================

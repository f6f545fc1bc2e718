---------------------------- MODULE GateDecision ----------------------------
(***************************************************************************)
(* One step of one task in front of the pre-execute gate (core/runtime.py, *)
(* Gate.__call__), attempt after attempt: what plugins' listeners decide   *)
(* and may change meanwhile, the guards, RunSpool's own approval rule, and *)
(* the person who approves.  The bus that calls the listeners is EventBus; *)
(* here it gives any decision, none, or an exception.                      *)
(***************************************************************************)
EXTENDS Integers, FiniteSets

CONSTANTS Lazy,         \* the step is registered with register_lazy()
          Policies,     \* approval services of this instance: "ask", "never", "absent"
          Guards,       \* how many steps.guard() checks are registered
          MaxAttempts   \* bound: attempts at the step

GateAssumption == Lazy \in BOOLEAN /\ Guards \in Nat /\ MaxAttempts \in Nat \ {0}

VARIABLES
    declared,   \* whether the step, as loaded, has side effects
    object,     \* what its side_effect attribute says now ("unloaded": no object yet)
    known,      \* StepsService._side_effects of the step ("unset" before it is asked)
    policy,     \* the approval service
    status,     \* of the task
    grant,      \* the task's approval_grant
    attempt,    \* the attempt that runs next
    request,    \* what the gate took before any plugin ran
    decision,   \* of the listeners
    guard,      \* the next guard to ask
    approvals,  \* history: the attempts a person approved
    opinions    \* what the guards make of this request: TRUE, a reason or an exception

row == <<status, grant, attempt>>
step == <<declared, object, known>>
vars == <<declared, object, known, policy, status, grant, attempt, request, decision,
          guard, approvals, opinions>>

Decisions == {"Allow", "Deny", "Defer", "Ask"}
Answers == Decisions \cup {"junk", "raised"}    \* what the waterfall may give
NoGrant == [kind |-> "none", attempt |-> 0]
Effects == {"some", "none"}
Silent == [g \in 1..Guards |-> FALSE]
NoRequest == [side |-> "none", granted |-> FALSE]

Init ==
    /\ declared \in Effects
    /\ object = IF Lazy THEN "unloaded" ELSE declared
    /\ known = IF Lazy THEN "unset" ELSE declared
    /\ policy \in Policies
    /\ status = "queued" /\ grant = NoGrant /\ attempt = 1
    /\ request = NoRequest /\ decision = "none" /\ guard = 1
    /\ approvals = {} /\ opinions = Silent

-----------------------------------------------------------------------------
(* The step's object.                                                      *)

\* LazyStep.resolve() by ensure_ready(), or by the contract check of some task.
Resolve ==
    /\ object = "unloaded"
    /\ object' = declared
    /\ UNCHANGED <<declared, known, policy, row, request, decision, guard, approvals, opinions>>

\* Plugin code changes the attribute of the loaded step, at any moment.
Changes ==
    /\ object \in Effects
    /\ object' \in Effects \ {object}
    /\ UNCHANGED <<declared, known, policy, row, request, decision, guard, approvals, opinions>>

-----------------------------------------------------------------------------
(* The request.                                                            *)

AnyGrant == grant.kind = "granted"
Granted == grant.kind = "granted" /\ grant.attempt = attempt

Resolves(outcome) ==
    /\ request' = NoRequest /\ decision' = "none" /\ guard' = 1 /\ opinions' = Silent
    /\ CASE outcome = "Allow" -> status' = "executing" /\ UNCHANGED grant
         [] outcome = "Deny" -> status' = "manual" /\ UNCHANGED grant
         [] outcome = "Defer" -> status' = "queued" /\ UNCHANGED grant
         [] outcome = "Ask" ->
                status' = "awaiting" /\ grant' = [kind |-> "asked", attempt |-> attempt]

\* Contracts that do not hold, or a step that cannot say whether it has side effects
\* (a lazy one that does not load), are refused before any plugin is asked.
RefusedAtOnce ==
    /\ status = "queued"
    /\ Resolves("Deny")
    /\ UNCHANGED <<step, policy, attempt, approvals>>

\* side_effect_of() records the answer the first time; `granted` is taken now.
Recorded == IF known = "unset" THEN object ELSE known

Begin ==
    /\ status = "queued"
    /\ object # "unloaded"
    /\ status' = "listening"
    /\ known' = Recorded
    /\ request' = [side |-> Recorded, granted |-> Granted]
    /\ opinions' \in [1..Guards -> BOOLEAN]
    /\ UNCHANGED <<declared, object, policy, grant, attempt, decision, guard, approvals>>

Final(answer) == answer \in {"Deny", "Defer", "junk", "raised"}
Closed(answer) == IF answer = "Defer" THEN "Defer" ELSE "Deny"

\* The listeners' answer: a refusal stands; what is not a decision is one.
Listen(answer) ==
    /\ status = "listening"
    /\ IF Final(answer)
       THEN Resolves(Closed(answer)) /\ UNCHANGED attempt
       ELSE /\ status' = "guarding" /\ decision' = answer
            /\ UNCHANGED <<grant, attempt, request, guard, opinions>>
    /\ UNCHANGED <<step, policy, approvals>>

LastGuardDecides ==
    /\ status = "guarding" /\ guard <= Guards
    /\ IF opinions[guard] /\ guard = Guards
       THEN Resolves("Deny") /\ UNCHANGED attempt
       ELSE guard' = guard + 1 /\ UNCHANGED <<row, request, decision, opinions>>
    /\ UNCHANGED <<step, policy, approvals>>

\* One guard: a reason, or an exception, refuses the step; nothing allows it.
AskGuard ==
    /\ status = "guarding" /\ guard <= Guards
    /\ IF opinions[guard]
       THEN Resolves("Deny") /\ UNCHANGED attempt
       ELSE guard' = guard + 1 /\ UNCHANGED <<row, request, decision, opinions>>
    /\ UNCHANGED <<step, policy, approvals>>

NeedsObject == (decision = "Ask" \/ object = "some") /\ ~request.granted
NeedsPerson == (decision = "Ask" \/ request.side = "some") /\ ~request.granted

Unanswered == "Ask"
AskOrRefuse == IF policy = "ask" THEN "Ask" ELSE "Deny"

Decide ==
    /\ status = "guarding" /\ guard > Guards
    /\ Resolves(IF NeedsPerson THEN AskOrRefuse ELSE "Allow")
    /\ UNCHANGED <<step, policy, attempt, approvals>>

-----------------------------------------------------------------------------
(* The runner and the person.                                              *)

\* The run ends, or its worker dies: the next run of the step is another attempt.
Runs ==
    /\ status = "executing" /\ attempt < MaxAttempts
    /\ attempt' = attempt + 1
    /\ status' \in {"queued", "manual"}
    /\ UNCHANGED <<step, policy, grant, request, decision, guard, approvals, opinions>>

Approve ==
    /\ status = "awaiting" /\ grant.kind = "asked"
    /\ status' = "queued"
    /\ grant' = [kind |-> "granted", attempt |-> grant.attempt]
    /\ approvals' = approvals \cup {grant.attempt}
    /\ UNCHANGED <<step, policy, attempt, request, decision, guard, opinions>>

Reject ==
    /\ status = "awaiting"
    /\ status' = "manual" /\ grant' = NoGrant
    /\ UNCHANGED <<step, policy, attempt, request, decision, guard, approvals, opinions>>

Retry ==
    /\ status = "manual"
    /\ status' = "queued"
    /\ UNCHANGED <<step, policy, grant, attempt, request, decision, guard, approvals, opinions>>

Next ==
    \/ Resolve \/ Changes
    \/ RefusedAtOnce \/ Begin
    \/ \E answer \in Answers : Listen(answer)
    \/ AskGuard
    \/ Decide
    \/ Runs \/ Approve \/ Reject \/ Retry

Spec == Init /\ [][Next]_vars

-----------------------------------------------------------------------------
(* Properties.                                                             *)

\* Every variable keeps its type; while plugins decide, the task is claimed and the
\* gate's own record of the step is made.
TypeOK ==
    /\ object \in Effects \cup {"unloaded"} /\ known \in Effects \cup {"unset"}
    /\ status \in {"queued", "listening", "guarding", "executing", "awaiting", "manual"}
    /\ grant.kind \in {"none", "asked", "granted"}
    /\ attempt \in 1..MaxAttempts /\ guard \in 1..(Guards + 1)
    /\ (status \in {"listening", "guarding", "executing"} => known # "unset")
    /\ (status = "guarding" => decision \in {"Allow", "Ask"})

\* A step registered with side effects runs only in an attempt a person approved,
\* whatever listeners answer and whatever plugin code does to the step's object
\* (Gate.__call__: what decides approval is taken before any plugin runs; steps.py
\* says "nothing changing the step object later can take a step out of approval").
SideEffectsAreApproved == (status = "executing" /\ declared = "some") => attempt \in approvals

\* The same of what the service has on record: from its first request on, a step
\* recorded with side effects runs in approved attempts only, a grant for one attempt
\* never carrying over to the next (side_effect_of, GateRequest.granted).
ApprovedAsRecorded == (status = "executing" /\ known = "some") => attempt \in approvals

\* Nobody waits for an approval that no service can give, and the question on record
\* is about the attempt that would run (Gate.__call__, the approval rule).
AskCanBeAnswered ==
    status = "awaiting" => policy = "ask" /\ grant = [kind |-> "asked", attempt |-> attempt]

\* A guard that refuses cannot be outvoted: not by the guards after it, not by a
\* listener's Allow or Ask; such a request neither runs the step nor asks a person.
RefusalStands ==
    status = "guarding" /\ (\E g \in 1..Guards : opinions[g])
        => status' \in {"guarding", "manual"}

\* No side effect without the approval of that attempt, no ask that nobody can answer, no
\* refusal overruled.  What a lazy step is registered with is known once it is loaded.
GateHolds ==
    /\ TypeOK' /\ ApprovedAsRecorded' /\ AskCanBeAnswered' /\ RefusalStands
    /\ ~Lazy => SideEffectsAreApproved'

=============================================================================

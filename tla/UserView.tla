-------------------------------- MODULE UserView --------------------------------
(***************************************************************************)
(* What a person or an agent is told it can do next with a task (views.py  *)
(* available_actions, _suggested_next_action), read beside the engine that *)
(* accepts or refuses it.                                                  *)
(***************************************************************************)
EXTENDS Engine

\* Mutant: a paused task may be retried.
RetriesPaused(status) ==
    CASE status = "queued" -> {"pause", "terminate"}
      [] status = "running" -> {"pause", "terminate"}
      [] status = "pause_pending" -> {"terminate"}
      [] status = "paused" -> {"resume", "retry", "terminate"}
      [] status = "failed" -> {"retry", "set_step", "terminate"}
      [] status = "manual_required" -> {"retry", "set_step", "set_retries", "terminate"}
      [] status = "awaiting_approval" -> {"approve", "reject", "terminate"}
      [] OTHER -> {}

\* The state machine's actions offered for each status; a finished task has none.
Actions(status) ==
    CASE status = "queued" -> {"pause", "terminate"}
      [] status = "running" -> {"pause", "terminate"}
      [] status = "pause_pending" -> {"terminate"}
      [] status = "paused" -> {"resume", "terminate"}
      [] status = "failed" -> {"retry", "set_step", "terminate"}
      [] status = "manual_required" -> {"retry", "set_step", "set_retries", "terminate"}
      [] status = "awaiting_approval" -> {"approve", "reject", "terminate"}
      [] OTHER -> {}

\* Mutant: an action that would stop the task is suggested first.
SuggestsStop(row) ==
    CASE row.status = "queued" /\ row.due # "null" -> "wake"
      [] row.status \in {"failed", "manual_required"} -> "retry"
      [] row.status = "paused" -> "resume"
      [] row.status = "awaiting_approval" -> "reject"
      [] OTHER -> "wait"

\* The action the guidance names for each status, "wait" when it names none.
Suggested(row) ==
    CASE row.status = "queued" /\ row.due # "null" -> "wake"
      [] row.status \in {"failed", "manual_required"} -> "retry"
      [] row.status = "paused" -> "resume"
      [] row.status = "awaiting_approval" -> "approve"
      [] OTHER -> "wait"

AvailableActions(row) ==
    Actions(row.status)
        \cup (IF row.status = "queued" /\ row.due # "null" THEN {"wake"} ELSE {})

----------------------------------------------------------------------------
\* The decisions a user who has read the row can take with an action.
Taken(row, act) ==
    {d \in [act : {act}, expect : {row.status}, step : {row.step},
            arg : Steps \cup RetryCaps \cup {row.grant.attempt, 0}] : Decides(d, row)}

\* Every action a caller is offered is one the state machine accepts from the task it
\* was shown, in whatever state the engine, recovery and other users left it: an
\* approval that is offered can be given (views.py: "Actions a caller can meaningfully
\* take next").
OfferedIsAccepted ==
    \A t \in Tasks : \A act \in AvailableActions(task[t]) : Taken(task[t], act) # {}

\* No dead end: a task that nothing but a person moves is offered an action, the one the
\* guidance names, after which it is runnable at once.
AlwaysAWayOn ==
    \A t \in Tasks :
        task[t].status \in {"paused", "failed", "manual_required", "awaiting_approval"} =>
            /\ Suggested(task[t]) \in AvailableActions(task[t])
            /\ Taken(task[t], Suggested(task[t])) # {}
            /\ \A d \in Taken(task[t], Suggested(task[t])) :
                  LET row == Decided(task[t], d)
                  IN row.status = "queued" /\ row.due = "null" /\ ~row.pause /\ ~row.term
============================================================================

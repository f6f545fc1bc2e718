---------------------------- MODULE TaskPromise ----------------------------
(***************************************************************************)
(* What the engine promises about a task, without processes, rows, flags   *)
(* or a database.  A task stands at a step of its workflow.  It is lent to *)
(* one claim at a time, and no claim is ever given twice; under a claim at *)
(* most one run begins, and it ends once.  Only a claim whose run was a    *)
(* success moves the task on; any claim may be given back, whatever became *)
(* of its run, and only a task nobody holds is moved by anybody else.  A   *)
(* task that has ended stays where it is.                                  *)
(***************************************************************************)
EXTENDS Integers

CONSTANTS Tasks, NumSteps   \* the tasks; the length of their workflow

VARIABLES
    place,     \* the step a task stands at
    owner,     \* the claim that holds it, 0 for none
    work,      \* what became of the run of that claim
    ending,    \* whether and how the task ended
    given      \* the last claim handed out

vars == <<place, owner, work, ending, given>>

Places == 1 .. NumSteps

Init ==
    /\ place = [t \in Tasks |-> 1]
    /\ owner = [t \in Tasks |-> 0]
    /\ work = [t \in Tasks |-> "none"]
    /\ ending = [t \in Tasks |-> "open"]
    /\ given = 0

Free(t) == owner[t] = 0 /\ ending[t] = "open"

\* A free task is lent under a claim nobody had before.
Take(t) ==
    /\ Free(t)
    /\ given' = given + 1
    /\ owner' = [owner EXCEPT ![t] = given + 1]
    /\ UNCHANGED <<place, work, ending>>

Begin(t) ==
    /\ owner[t] # 0 /\ work[t] = "none"
    /\ work' = [work EXCEPT ![t] = "begun"]
    /\ UNCHANGED <<place, owner, ending, given>>

End(t) ==
    /\ work[t] = "begun"
    /\ \E result \in {"success", "else"} : work' = [work EXCEPT ![t] = result]
    /\ UNCHANGED <<place, owner, ending, given>>

\* The next step, or the end of the workflow.
Onward(t) ==
    IF place[t] = NumSteps
    THEN ending' = [ending EXCEPT ![t] = "finished"] /\ UNCHANGED place
    ELSE place' = [place EXCEPT ![t] = @ + 1] /\ UNCHANGED ending

Return(t) ==
    /\ owner[t] # 0
    /\ owner' = [owner EXCEPT ![t] = 0]
    /\ work' = [work EXCEPT ![t] = "none"]
    /\ UNCHANGED given

Advance(t) == work[t] = "success" /\ Return(t) /\ Onward(t)

GiveBack(t) ==
    /\ Return(t)
    /\ \/ UNCHANGED ending
       \/ ending' = [ending EXCEPT ![t] = "terminated"]
    /\ UNCHANGED place

\* A step that is not to run is passed over.
Skip(t) == Free(t) /\ Onward(t) /\ UNCHANGED <<owner, work, given>>

Terminate(t) ==
    /\ Free(t)
    /\ ending' = [ending EXCEPT ![t] = "terminated"]
    /\ UNCHANGED <<place, owner, work, given>>

\* A person puts the task to another step.
Place(t, s) ==
    /\ Free(t)
    /\ place' = [place EXCEPT ![t] = s]
    /\ UNCHANGED <<owner, work, ending, given>>

Step(t) ==
    \/ Take(t) \/ Begin(t) \/ End(t) \/ Advance(t) \/ GiveBack(t)
    \/ Skip(t) \/ Terminate(t)
    \/ \E s \in Places : Place(t, s)

Next == \E t \in Tasks : Step(t)

Spec == Init /\ [][Next]_vars
=============================================================================

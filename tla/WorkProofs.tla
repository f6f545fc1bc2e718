---------------------------- MODULE WorkProofs -----------------------------
(***************************************************************************)
(* What surrounds the run of a step, for any plans, guards, artifacts,     *)
(* callers, secrets and bounds: the gate before it, the result after it    *)
(* with its artifacts, updates and children, the contract check of the     *)
(* workflow, add_task, and the credentials.                                *)
(***************************************************************************)
EXTENDS Work, TaskRowProofs, FiniteSetTheorems, SequenceTheorems, WellFoundedInduction

---------------------------------------------------------------------------
(* The gate before a step.                                                  *)

\* A grant stands for an approval, the request of the plugins' turn for what is on
\* record, and the guards asked so far have not refused.
GateInv ==
    /\ Gate!TypeOK /\ Gate!ApprovedAsRecorded /\ Gate!AskCanBeAnswered
    /\ declared \in Gate!Effects /\ opinions \in [1 .. Guards -> BOOLEAN]
    /\ grant \in [kind : {"none", "asked", "granted"}, attempt : Nat]
    /\ grant.kind = "granted" => grant.attempt \in approvals
    /\ status \in {"listening", "guarding"} =>
           asking.side = known /\ (asking.granted => attempt \in approvals)
    /\ IF status = "guarding" THEN \A g \in 1 .. (guard - 1) : ~opinions[g] ELSE guard = 1
    /\ ~Lazy => known = declared /\ known # "unset"

\* The gate resolves a request: no run without an approval that the record calls for.
LEMMA ResolveKeeps ==
    ASSUME Gate!GateAssumption, GateInv, NEW outcome \in {"Allow", "Deny", "Defer", "Ask"},
           Gate!Resolves(outcome), UNCHANGED <<Gate!step, policy, attempt, approvals>>,
           outcome = "Allow" => known # "unset" /\ (known = "some" => attempt \in approvals),
           outcome = "Ask" => policy = "ask"
    PROVE  GateInv'
<1>1. /\ guard' = 1 /\ opinions' = Gate!Silent
      /\ declared' = declared /\ object' = object /\ known' = known /\ policy' = policy
      /\ attempt' = attempt /\ approvals' = approvals
  BY DEF Gate!Resolves, Gate!step
<1>2. 1 \in 1 .. (Guards + 1) /\ Gate!Silent \in [1 .. Guards -> BOOLEAN]
  BY DEF Gate!GateAssumption, Gate!Silent
<1>3. attempt \in Nat BY DEF GateInv, Gate!TypeOK
<1>4. CASE outcome = "Allow"
  <2>1. status' = "executing" /\ grant' = grant BY <1>4 DEF Gate!Resolves
  <2> QED BY <1>1, <1>2, <1>4, <2>1
          DEF GateInv, Gate!TypeOK, Gate!ApprovedAsRecorded, Gate!AskCanBeAnswered
<1>5. CASE outcome \in {"Deny", "Defer"}
  <2>1. status' \in {"manual", "queued"} /\ grant' = grant BY <1>5 DEF Gate!Resolves
  <2> QED BY <1>1, <1>2, <2>1
          DEF GateInv, Gate!TypeOK, Gate!ApprovedAsRecorded, Gate!AskCanBeAnswered
<1>6. CASE outcome = "Ask"
  <2>1. status' = "awaiting" /\ grant' = [kind |-> "asked", attempt |-> attempt]
    BY <1>6 DEF Gate!Resolves
  <2>2. grant' \in [kind : {"none", "asked", "granted"}, attempt : Nat] BY <1>3, <2>1
  <2>3. grant'.kind = "asked" BY <2>1
  <2> QED BY <1>1, <1>2, <1>6, <2>1, <2>2, <2>3
          DEF GateInv, Gate!TypeOK, Gate!ApprovedAsRecorded, Gate!AskCanBeAnswered
<1> QED BY <1>4, <1>5, <1>6

\* What is asked and refused in front of the step.
LEMMA DecidingKeeps ==
    ASSUME Gate!GateAssumption, GateInv,
           \/ Gate!RefusedAtOnce
           \/ \E given \in Gate!Answers : Gate!Listen(given)
           \/ Gate!AskGuard
           \/ Gate!Decide
    PROVE  GateInv' /\ Gate!RefusalStands
<1>1. CASE Gate!RefusedAtOnce
  <2>1. Gate!Resolves("Deny") /\ UNCHANGED <<Gate!step, policy, attempt, approvals>>
    BY <1>1 DEF Gate!RefusedAtOnce
  <2> QED BY <1>1, <2>1, ResolveKeeps DEF Gate!RefusedAtOnce, Gate!RefusalStands
<1>2. ASSUME NEW given \in Gate!Answers, Gate!Listen(given)
      PROVE  GateInv' /\ Gate!RefusalStands
  <2>1. Gate!RefusalStands BY <1>2 DEF Gate!Listen, Gate!RefusalStands
  <2>2. CASE Gate!Final(given)
    <3>1. Gate!Closed(given) \in {"Deny", "Defer"} BY DEF Gate!Closed
    <3>2. /\ Gate!Resolves(Gate!Closed(given))
          /\ UNCHANGED <<Gate!step, policy, attempt, approvals>>
      BY <1>2, <2>2 DEF Gate!Listen
    <3>3. GateInv' BY <3>1, <3>2, ResolveKeeps
    <3> QED BY <2>1, <3>3
  <2>3. CASE ~Gate!Final(given)
    <3>1. /\ status = "listening" /\ status' = "guarding" /\ decision' = given
          /\ UNCHANGED <<grant, attempt, asking, guard, opinions, declared, object, known,
                         policy, approvals>>
      BY <1>2, <2>3 DEF Gate!Listen, Gate!step
    <3>2. given \in {"Allow", "Ask"}
      BY <2>3 DEF Gate!Final, Gate!Answers, Gate!Decisions
    <3>3. guard' = 1 BY <3>1 DEF GateInv
    <3>4. GateInv'
      BY <3>1, <3>2, <3>3
         DEF GateInv, Gate!TypeOK, Gate!ApprovedAsRecorded, Gate!AskCanBeAnswered
    <3> QED BY <2>1, <3>4
  <2> QED BY <2>2, <2>3
<1>3. CASE Gate!AskGuard
  <2>1. /\ status = "guarding" /\ guard <= Guards
        /\ UNCHANGED <<Gate!step, policy, approvals>>
    BY <1>3 DEF Gate!AskGuard
  <2>2. guard \in 1 .. (Guards + 1) BY DEF GateInv, Gate!TypeOK
  <2>3. CASE opinions[guard]
    <3>1. Gate!Resolves("Deny") /\ UNCHANGED attempt BY <1>3, <2>3 DEF Gate!AskGuard
    <3>2. GateInv' BY <2>1, <3>1, ResolveKeeps
    <3> QED BY <3>1, <3>2 DEF Gate!Resolves, Gate!RefusalStands
  <2>4. CASE ~opinions[guard]
    <3>1. /\ guard' = guard + 1
          /\ UNCHANGED <<status, grant, attempt, asking, decision, opinions, declared,
                         object, known, policy, approvals>>
      BY <1>3, <2>4 DEF Gate!AskGuard, Gate!row, Gate!step
    <3>2. guard' \in 1 .. (Guards + 1) BY <2>1, <2>2, <3>1 DEF Gate!GateAssumption
    <3>3. \A g \in 1 .. (guard' - 1) : ~opinions'[g]
      <4> SUFFICES ASSUME NEW g \in 1 .. (guard' - 1) PROVE ~opinions[g] BY <3>1
      <4>1. g = guard \/ g \in 1 .. (guard - 1) BY <2>2, <3>1
      <4> QED BY <2>1, <2>4, <4>1 DEF GateInv
    <3>4. GateInv'
      BY <2>1, <3>1, <3>2, <3>3
         DEF GateInv, Gate!TypeOK, Gate!ApprovedAsRecorded, Gate!AskCanBeAnswered
    <3> QED BY <2>1, <3>1, <3>4 DEF Gate!RefusalStands
  <2> QED BY <2>3, <2>4
<1>4. CASE Gate!Decide
  <2>1. /\ status = "guarding" /\ guard > Guards
        /\ UNCHANGED <<Gate!step, policy, attempt, approvals>>
    BY <1>4 DEF Gate!Decide
  <2>2. guard = Guards + 1
    BY <2>1 DEF GateInv, Gate!TypeOK, Gate!GateAssumption
  <2>3. \A g \in 1 .. Guards : ~opinions[g]
    BY <2>1, <2>2 DEF GateInv, Gate!GateAssumption
  <2>4. asking.side = known /\ (asking.granted => attempt \in approvals) /\ known # "unset"
    BY <2>1 DEF GateInv, Gate!TypeOK
  <2>5. CASE Gate!NeedsPerson
    <3>1. Gate!Resolves(Gate!AskOrRefuse) BY <1>4, <2>5 DEF Gate!Decide
    <3>2. /\ Gate!AskOrRefuse \in {"Ask", "Deny"}
          /\ Gate!AskOrRefuse = "Ask" => policy = "ask"
      BY DEF Gate!AskOrRefuse
    <3>3. GateInv' BY <2>1, <3>1, <3>2, ResolveKeeps
    <3> QED BY <2>3, <3>3 DEF Gate!RefusalStands
  <2>6. CASE ~Gate!NeedsPerson
    <3>1. Gate!Resolves("Allow") BY <1>4, <2>6 DEF Gate!Decide
    <3>2. known = "some" => attempt \in approvals BY <2>4, <2>6 DEF Gate!NeedsPerson
    <3>3. GateInv' BY <2>1, <2>4, <3>1, <3>2, ResolveKeeps
    <3> QED BY <2>3, <3>3 DEF Gate!RefusalStands
  <2> QED BY <2>5, <2>6
<1> QED BY <1>1, <1>2, <1>3, <1>4

\* What happens around the gate: the step's object, the runs, the person.
LEMMA AroundKeeps ==
    ASSUME Gate!GateAssumption, GateInv,
           \/ Gate!Resolve \/ Gate!Changes \/ Gate!Begin
           \/ Gate!Runs \/ Gate!Approve \/ Gate!Reject \/ Gate!Retry
    PROVE  GateInv' /\ Gate!RefusalStands
<1> USE DEF Gate!row, Gate!step, Gate!Effects
<1>1. CASE Gate!Resolve \/ Gate!Changes
  <2>1. /\ object' \in Gate!Effects
        /\ UNCHANGED <<declared, known, policy, status, grant, attempt, asking, decision,
                       guard, approvals, opinions>>
    BY <1>1 DEF Gate!Resolve, Gate!Changes, GateInv
  <2>2. GateInv'
    BY <2>1 DEF GateInv, Gate!TypeOK, Gate!ApprovedAsRecorded, Gate!AskCanBeAnswered
  <2> QED BY <2>1, <2>2 DEF Gate!RefusalStands
<1>2. CASE Gate!Begin
  <2>1. /\ status = "queued" /\ status' = "listening" /\ known' = Gate!Recorded
        /\ asking' = [side |-> Gate!Recorded, granted |-> Gate!Granted]
        /\ opinions' \in [1 .. Guards -> BOOLEAN]
        /\ UNCHANGED <<declared, object, policy, grant, attempt, decision, guard, approvals>>
    BY <1>2 DEF Gate!Begin
  <2>2. Gate!Recorded \in Gate!Effects /\ (known # "unset" => Gate!Recorded = known)
    BY <1>2 DEF Gate!Begin, Gate!Recorded, GateInv, Gate!TypeOK
  <2>3. Gate!Granted => attempt \in approvals BY DEF GateInv, Gate!Granted
  <2>4. asking'.side = known' /\ (asking'.granted => attempt' \in approvals')
    BY <2>1, <2>3
  <2>5. GateInv'
    BY <2>1, <2>2, <2>4
       DEF GateInv, Gate!TypeOK, Gate!ApprovedAsRecorded, Gate!AskCanBeAnswered
  <2> QED BY <2>1, <2>5 DEF Gate!RefusalStands
<1>3. CASE Gate!Runs
  <2>1. /\ status = "executing" /\ attempt' = attempt + 1 /\ attempt < MaxAttempts
        /\ status' \in {"queued", "manual"}
        /\ UNCHANGED <<declared, object, known, policy, grant, asking, decision, guard,
                       approvals, opinions>>
    BY <1>3 DEF Gate!Runs
  <2>2. attempt' \in 1 .. MaxAttempts
    BY <2>1 DEF GateInv, Gate!TypeOK, Gate!GateAssumption
  <2>3. GateInv'
    BY <2>1, <2>2
       DEF GateInv, Gate!TypeOK, Gate!ApprovedAsRecorded, Gate!AskCanBeAnswered
  <2> QED BY <2>1, <2>3 DEF Gate!RefusalStands
<1>4. CASE Gate!Approve \/ Gate!Reject
  <2>1. /\ status = "awaiting" /\ status' \in {"queued", "manual"}
        /\ approvals \subseteq approvals'
        /\ UNCHANGED <<declared, object, known, policy, attempt, asking, decision, guard,
                       opinions>>
    BY <1>4 DEF Gate!Approve, Gate!Reject
  <2>2. /\ grant' \in [kind : {"none", "asked", "granted"}, attempt : Nat]
        /\ grant'.kind = "granted" => grant'.attempt \in approvals'
    <3>1. CASE Gate!Approve BY <3>1 DEF Gate!Approve, GateInv
    <3>2. CASE Gate!Reject BY <3>2 DEF Gate!Reject, Gate!NoGrant
    <3> QED BY <1>4, <3>1, <3>2
  <2>3. GateInv'
    BY <2>1, <2>2
       DEF GateInv, Gate!TypeOK, Gate!ApprovedAsRecorded, Gate!AskCanBeAnswered
  <2> QED BY <2>1, <2>3 DEF Gate!RefusalStands
<1>5. CASE Gate!Retry
  <2>1. /\ status = "manual" /\ status' = "queued"
        /\ UNCHANGED <<declared, object, known, policy, grant, attempt, asking, decision,
                       guard, approvals, opinions>>
    BY <1>5 DEF Gate!Retry
  <2>2. GateInv'
    BY <2>1 DEF GateInv, Gate!TypeOK, Gate!ApprovedAsRecorded, Gate!AskCanBeAnswered
  <2> QED BY <2>1, <2>2 DEF Gate!RefusalStands
<1> QED BY <1>1, <1>2, <1>3, <1>4, <1>5

GatePromise ==
    /\ Gate!TypeOK /\ Gate!ApprovedAsRecorded /\ Gate!AskCanBeAnswered
    /\ ~Lazy => Gate!SideEffectsAreApproved

\* The invariant is what the property asks of a state.
LEMMA GateInvPromises == GateInv => GatePromise
BY DEF GateInv, GatePromise, Gate!ApprovedAsRecorded, Gate!SideEffectsAreApproved

\* The gate starts with nothing approved.
LEMMA GateInit == Gate!GateAssumption /\ Gate!Init => GateInv
<1> SUFFICES ASSUME Gate!GateAssumption, Gate!Init PROVE GateInv OBVIOUS
<1>1. grant = [kind |-> "none", attempt |-> 0] BY DEF Gate!Init, Gate!NoGrant
<1>2. 1 \in 1 .. MaxAttempts /\ 1 \in 1 .. (Guards + 1) BY DEF Gate!GateAssumption
<1> QED BY <1>1, <1>2
        DEF Gate!Init, Gate!GateAssumption, GateInv, Gate!TypeOK, Gate!ApprovedAsRecorded,
            Gate!AskCanBeAnswered, Gate!Effects, Gate!Silent

\* Every step of the gate, and of what surrounds it, keeps its promises.
LEMMA GateStep ==
    Gate!GateAssumption /\ GateInv /\ [Gate!Next]_Gate!vars =>
        GateInv' /\ [Gate!GateHolds]_Gate!vars
<1> SUFFICES ASSUME Gate!GateAssumption PROVE GateInv /\ [Gate!Next]_Gate!vars => GateInv' /\ [Gate!GateHolds]_Gate!vars
  OBVIOUS
<1>2. GateInv /\ Gate!Next => GateInv' /\ Gate!RefusalStands
  BY DecidingKeeps, AroundKeeps DEF Gate!Next
<1>3. GateInv /\ UNCHANGED Gate!vars => GateInv'
  BY DEF Gate!vars, GateInv, Gate!TypeOK, Gate!ApprovedAsRecorded, Gate!AskCanBeAnswered
<1>4. GateInv' => GatePromise' BY GateInvPromises, PTL
<1> QED BY <1>2, <1>3, <1>4 DEF Gate!GateHolds, GatePromise

\* For any number of guards and attempts, whatever listeners given and plugin code does
\* to the step's object: no side effect without a person's approval of that attempt, no
\* refusal overruled, no question that nobody can answer.
THEOREM GateCorrect ==
    ASSUME Gate!GateAssumption
    PROVE  Gate!Spec => [][Gate!GateHolds]_Gate!vars
<1>1. Gate!Init => GateInv BY GateInit
<1>2. GateInv /\ [Gate!Next]_Gate!vars => GateInv' /\ [Gate!GateHolds]_Gate!vars
  BY GateStep
<1> QED BY <1>1, <1>2, PTL DEF Gate!Spec

---------------------------------------------------------------------------
(* The results of steps.                                                    *)

\* A worker that has not written its boundary.
Live(k) == worker[k].pc \notin {"none", "gone", "reread"}

\* It holds the claim of the executing task, and only there is a stop requested.
Held ==
    /\ row.token \in 0 .. claims
    /\ row.token # 0 <=> row.status \in Executing
    /\ row.term => row.status \in Executing
    /\ \A k \in Tokens : Live(k) => row.token = k
    /\ \A k \in Tokens : k > claims => worker[k].pc = "none"

\* A user's action was allowed for the status it expects to find again.
Asked(d) ==
    /\ d.act = "pause" => d.expect \in {"queued", "running"}
    /\ d.act = "terminate" => d.expect \notin Terminal
    /\ d.act = "resume" => d.expect = "paused"
    /\ d.act = "retry" => d.expect \in {"failed", "manual_required"}
    /\ d.act \in {"approve", "reject"} => d.expect = "awaiting_approval"
    /\ d.act \in {"set_step", "force_step"} =>
          d.expect \in {"failed", "manual_required", "queued", "paused"} /\ d.arg \in Steps

\* The last run is the worker's, and it has not ended.
Current(w, rs) == w.run = Len(rs) /\ w.run # 0 /\ rs[w.run].status = "running"

HasArtifact(art, i) == \E n \in DOMAIN art : art[n] = i

\* What a worker carries to its boundary is what the tables hold of its run.
Carries(w, r, rs, art, up) ==
    /\ w.pc \in {"start", "run"} => w.plan = << >> /\ w.out.kind # "ok"
    /\ w.pc \in {"run", "artifacts", "columns", "close", "undone"} => Current(w, rs)
    /\ w.pc = "run" => up # w.run
    /\ w.pc \in {"artifacts", "columns", "close"} =>
          w.out.kind = "ok" /\ rs[w.run].plan = w.plan /\ PlanValid(w.plan)
    /\ w.pc \in {"columns", "close"} => w.plan = << >> /\ HasArtifact(art, w.run)
    /\ w.pc \in {"finish", "commit"} /\ w.plan # << >> /\ w.out.kind = "ok" =>
          /\ Current(w, rs) /\ rs[w.run].plan = w.plan /\ PlanValid(w.plan)
          /\ HasArtifact(art, w.run)
    /\ w.pc = "commit" => w.seen.step = r.step

\* A child is of a finished run, and a finished run has its children.
Complete(r, rs, sp) ==
    \A i \in DOMAIN rs :
        /\ (\E c \in sp : c.run = i) => rs[i].status = "ok"
        /\ rs[i].status = "ok" /\ rs[i].plan # << >> =>
              \/ \A n \in DOMAIN rs[i].plan :
                    \E c \in sp : /\ c.key = rs[i].plan[n]
                                  /\ c.key = NoKey => c.run = i /\ c.place = n
              \/ (\A c \in sp : c.run # i) /\ r.status = "terminated" /\ i = Len(rs)

\* The artifacts are in the order of their runs, and a finished run has one.
InOrder(rs, art) ==
    /\ \A n \in DOMAIN art : art[n] \in DOMAIN rs
    /\ \A m, n \in DOMAIN art : m <= n => art[m] <= art[n]
    /\ \A i \in DOMAIN rs : rs[i].status = "ok" => HasArtifact(art, i)

UpdatesKept(up, rs) ==
    /\ up \in 0 .. Len(rs)
    /\ up # 0 /\ rs[up].plan # << >> => rs[up].status = "ok"

KeyedOnce(sp) == \A c, d \in sp : c.key = d.key /\ c.key # NoKey => c = d

Tables(r, rs, art, up, sp) ==
    /\ r \in Rows /\ rs \in Seq(Runs) /\ art \in Seq(Nat) /\ sp \in SUBSET Spawns
    /\ Complete(r, rs, sp) /\ InOrder(rs, art) /\ UpdatesKept(up, rs) /\ KeyedOnce(sp)
    /\ \A c \in sp : c.run \in DOMAIN rs

ResultsInv ==
    /\ TypeOK /\ Held /\ \A d \in request : Asked(d)
    /\ Tables(row, runs, artifacts, updates, spawns)
    /\ \A k \in Tokens : Carries(worker[k], row, runs, artifacts, updates)

\* A row of the task executes, is finished, or neither.
LEMMA RowStatuses == Executing \cap Terminal = {} /\ Executing \cup Terminal \subseteq Status
BY DEF Executing, Terminal, Status

\* The boundary of a run releases the task; a success moves or ends it, unless it was to
\* be terminated.
LEMMA ReleaseFacts ==
    ASSUME NEW old \in Rows, NEW read \in Rows, NEW k, FinishMatches(old, read, k),
           NEW out \in [kind : {"ok", "notready", "failed", "fatal"}], read.step = old.step
    PROVE  LET new == Boundary(old, read, out, FALSE)
           IN  /\ new \in Rows /\ new.token = 0 /\ ~new.term /\ new.status \notin Executing
               /\ out.kind = "ok" /\ new.status # "terminated" =>
                     \/ new.step = old.step + 1
                     \/ new.status \in {"completed", "partially_completed"}
<1> USE DEF Rows, Released, Unlock, NoToken
<1> DEFINE Good(new) ==
             /\ new \in Rows /\ new.token = 0 /\ ~new.term /\ new.status \notin Executing
             /\ out.kind = "ok" /\ new.status # "terminated" =>
                   \/ new.step = old.step + 1
                   \/ new.status \in {"completed", "partially_completed"}
<1>1. old.term = read.term /\ old.term \in BOOLEAN BY DEF FinishMatches
<1>2. CASE read.term
  <2>1. Boundary(old, read, out, FALSE) =
          [Released(old, "terminated") EXCEPT !.term = FALSE, !.due = "null"]
    BY <1>2 DEF Boundary
  <2>2. Good([Released(old, "terminated") EXCEPT !.term = FALSE, !.due = "null"])
    BY <1>1, <1>2 DEF Status, Terminal, Executing
  <2> QED BY <2>1, <2>2
<1>3. CASE ~read.term /\ out.kind = "ok"
  <2>1. Boundary(old, read, out, FALSE) = BoundarySucceeded(old, read, out, FALSE)
    BY <1>3 DEF Boundary, Succeeds
  <2>2. CASE IsLast(read.step)
    <3>1. Good(Released(old, "completed"))
      BY <1>1, <1>3 DEF Status, Terminal, Executing
    <3>2. BoundarySucceeded(old, read, out, FALSE) = Released(old, "completed")
      BY <1>3, <2>2 DEF BoundarySucceeded, FinalStatus
    <3>3. Boundary(old, read, out, FALSE) = Released(old, "completed") BY <2>1, <3>2
    <3> HIDE DEF Good
    <3>4. Good(Boundary(old, read, out, FALSE)) BY <3>1, <3>3
    <3> QED BY <3>4 DEF Good
  <2>3. CASE ~IsLast(read.step)
    <3>1. read.step + 1 \in Steps
      BY <2>3, NumStepsAssumption DEF IsLast, Steps
    <3>2. Good([PausedOr(old, read, "queued") EXCEPT !.step = read.step + 1])
      BY <1>1, <1>3, <3>1 DEF PausedOr, Status, Terminal, Executing
    <3> QED BY <2>1, <2>3, <3>2 DEF BoundarySucceeded
  <2> QED BY <2>2, <2>3
<1>4. CASE ~read.term /\ out.kind = "notready"
  <2>1. Boundary(old, read, out, FALSE) = BoundaryDeferred(old, read, out)
    BY <1>4 DEF Boundary, Succeeds
  <2>2. Good(BoundaryDeferred(old, read, out))
    BY <1>1, <1>4 DEF BoundaryDeferred, Status, Terminal, Executing
  <2> QED BY <2>1, <2>2
<1>5. CASE ~read.term /\ out.kind \in {"failed", "fatal"}
  <2>1. Boundary(old, read, out, FALSE) = BoundaryFailed(old, read, out)
    BY <1>5 DEF Boundary, Succeeds
  <2>2. Good(BoundaryFailed(old, read, out))
    <3> DEFINE counted == [old EXCEPT !.retry = read.retry + 1, !.due = "null"]
    <3>1. read.retry + 1 \in Nat OBVIOUS
    <3>2. counted \in Rows /\ counted.step = old.step /\ counted.term = old.term BY <3>1
    <3> HIDE DEF counted
    <3>3. \A end \in {"manual_required", "paused"} : Good(Released(counted, end))
      BY <1>1, <1>5, <3>2 DEF Status, Terminal, Executing
    <3>4. Good([Unlock(counted) EXCEPT !.status = "failed", !.due = "future"])
      BY <1>1, <1>5, <3>2 DEF Status, Terminal, Executing
    <3> QED BY <3>3, <3>4 DEF BoundaryFailed, counted
  <2> QED BY <2>1, <2>2
<1> QED BY <1>2, <1>3, <1>4, <1>5

\* A user's action never takes a task out of a worker's hands and never revives it.
LEMMA UserFacts ==
    ASSUME NEW old \in Rows, NEW d \in Decisions, StillAsRead(old, d), Asked(d)
    PROVE  LET new == Decided(old, d)
           IN  /\ new \in Rows /\ new.token = old.token
               /\ new.term => new.status \in Executing \/ old.term
               /\ old.status \in Executing <=> new.status \in Executing
               /\ old.status \in Executing => new.step = old.step
               /\ old.status \in Terminal => new.status = old.status
<1> USE DEF Rows, StillAsRead, Decided, Asked, Status, Terminal, Executing
<1>0. d.act \in UserActions /\ d.step \in Steps /\ d.arg \in Nat BY DEF Decisions
<1>1. CASE d.act = "pause" BY <1>0, <1>1
<1>2. CASE d.act = "terminate"
  <2>1. CASE d.expect \in Executing BY <1>2, <2>1
  <2>2. CASE d.expect \notin Executing BY ZenonT(30), <1>2, <2>2
  <2> QED BY <2>1, <2>2
<1>3. CASE d.act = "resume" BY <1>3
<1>4. CASE d.act = "retry" BY <1>4 DEF Requeued
<1>5. CASE d.act = "approve"
  <2>1. GrantValue(d.step, d.arg) \in Grants
    BY <1>0, NumStepsAssumption DEF GrantValue, Grants, Steps
  <2> QED BY <1>5, <2>1
<1>6. CASE d.act = "reject"
  <2>1. NoGrant \in Grants BY DEF NoGrant, Grants
  <2> QED BY <1>6, <2>1
<1>7. CASE d.act = "wake" BY <1>7
<1>8. CASE d.act \in {"set_step", "force_step"}
  <2>1. NoGrant \in Grants BY DEF NoGrant, Grants
  <2> QED BY <1>8, <2>1
<1>9. CASE d.act = "set_retries" BY <1>0, <1>9
<1> QED BY <1>0, <1>1, <1>2, <1>3, <1>4, <1>5, <1>6, <1>7, <1>8, <1>9 DEF UserActions

---------------------------------------------------------------------------
(* What the writes do to the tables.                                        *)

\* A sequence with an element more.
LEMMA Appended ==
    ASSUME NEW S, NEW s \in Seq(S), NEW e \in S, NEW t, t = Append(s, e)
    PROVE  /\ t \in Seq(S) /\ Len(t) = Len(s) + 1 /\ Len(s) \in Nat
           /\ DOMAIN s = 1 .. Len(s) /\ DOMAIN t = 1 .. (Len(s) + 1)
           /\ \A i \in DOMAIN s : i \in DOMAIN t /\ t[i] = s[i]
           /\ \A i \in DOMAIN t : i \in DOMAIN s \/ i = Len(s) + 1
           /\ \A i, j \in DOMAIN t : i <= j /\ j \in DOMAIN s => i \in DOMAIN s
           /\ Len(s) + 1 \in DOMAIN t /\ t[Len(s) + 1] = e
<1>1. /\ t \in Seq(S) /\ Len(t) = Len(s) + 1 /\ Len(s) \in Nat
      /\ DOMAIN s = 1 .. Len(s) /\ DOMAIN t = 1 .. (Len(s) + 1)
      /\ \A i \in 1 .. Len(s) : t[i] = s[i]
      /\ t[Len(s) + 1] = e
  OBVIOUS
<1> QED BY <1>1

\* Runs that have not ended changed, and did not end with a success.
Unfinished(rs, rs2, up) ==
    \A i \in DOMAIN rs :
        \/ rs2[i] = rs[i]
        \/ /\ rs[i].status = "running" /\ rs2[i].status # "ok"
           /\ up = i => rs2[i].plan = rs[i].plan

\* Such runs change nothing of what the tables say of each other.
LEMMA UnfinishedKeeps ==
    ASSUME NEW r, NEW rs, NEW art, NEW up, NEW sp, Tables(r, rs, art, up, sp),
           NEW r2 \in Rows, NEW rs2 \in Seq(Runs), Len(rs2) = Len(rs),
           r.status = "terminated" => r2.status = "terminated",
           Unfinished(rs, rs2, up)
    PROVE  Tables(r2, rs2, art, up, sp)
<1> USE DEF Unfinished
<1>1. rs \in Seq(Runs) /\ DOMAIN rs2 = DOMAIN rs /\ DOMAIN rs = 1 .. Len(rs)
  BY DEF Tables
<1>2. \A i \in DOMAIN rs : rs2[i].status = "ok" => rs2[i] = rs[i] OBVIOUS
<1>3. Complete(r2, rs2, sp)
  <2> SUFFICES ASSUME NEW i \in DOMAIN rs
      PROVE /\ (\E c \in sp : c.run = i) => rs2[i].status = "ok"
            /\ rs2[i].status = "ok" /\ rs2[i].plan # << >> =>
                 \/ \A n \in DOMAIN rs2[i].plan :
                       \E c \in sp : /\ c.key = rs2[i].plan[n]
                                     /\ c.key = NoKey => c.run = i /\ c.place = n
                 \/ (\A c \in sp : c.run # i) /\ r2.status = "terminated" /\ i = Len(rs2)
    BY <1>1 DEF Complete
  <2>1. (\E c \in sp : c.run = i) => rs[i].status = "ok" BY DEF Tables, Complete
  <2>2. rs[i].status = "ok" => rs2[i] = rs[i] OBVIOUS
  <2>3. rs[i].status = "ok" /\ rs[i].plan # << >> =>
              \/ \A n \in DOMAIN rs[i].plan :
                    \E c \in sp : /\ c.key = rs[i].plan[n]
                                  /\ c.key = NoKey => c.run = i /\ c.place = n
              \/ (\A c \in sp : c.run # i) /\ r.status = "terminated" /\ i = Len(rs)
    BY DEF Tables, Complete
  <2> QED BY <1>2, <2>1, <2>2, <2>3
<1>4. InOrder(rs2, art) BY <1>1, <1>2 DEF Tables, InOrder
<1>5. UpdatesKept(up, rs2)
  <2>1. up \in 0 .. Len(rs) /\ (up # 0 => up \in DOMAIN rs) BY <1>1 DEF Tables, UpdatesKept
  <2>2. up # 0 /\ rs[up].plan # << >> => rs[up].status = "ok" BY DEF Tables, UpdatesKept
  <2>3. up # 0 => \/ rs2[up] = rs[up]
                  \/ rs2[up].plan = rs[up].plan /\ rs[up].status = "running"
    BY <2>1
  <2> QED BY <2>1, <2>2, <2>3 DEF UpdatesKept
<1> QED BY <1>1, <1>3, <1>4, <1>5 DEF Tables

\* A run is recorded for a task that is not terminated.
LEMMA StartingKeeps ==
    ASSUME NEW r, NEW rs, NEW art, NEW up, NEW sp, Tables(r, rs, art, up, sp),
           r.status # "terminated",
           NEW new \in Runs, new.status = "running"
    PROVE  Tables(r, Append(rs, new), art, up, sp)
<1> DEFINE rs2 == Append(rs, new)
<1>0. rs \in Seq(Runs) BY DEF Tables
<1>1. /\ rs2 \in Seq(Runs) /\ Len(rs2) = Len(rs) + 1 /\ Len(rs) \in Nat
      /\ DOMAIN rs = 1 .. Len(rs) /\ DOMAIN rs2 = 1 .. (Len(rs) + 1)
      /\ \A i \in DOMAIN rs : i \in DOMAIN rs2 /\ rs2[i] = rs[i]
      /\ \A i \in DOMAIN rs2 : i \in DOMAIN rs \/ i = Len(rs) + 1
      /\ rs2[Len(rs) + 1] = new
  BY <1>0, Appended
<1> HIDE DEF rs2
<1>3. Complete(r, rs2, sp)
  <2>1. \A c \in sp : c.run # Len(rs) + 1 BY <1>1 DEF Tables
  <2> QED BY <1>1, <2>1 DEF Tables, Complete
<1>4. InOrder(rs2, art)
  <2>1. InOrder(rs, art) BY DEF Tables
  <2>2. \A n \in DOMAIN art : art[n] \in DOMAIN rs2 BY <1>1, <2>1 DEF InOrder
  <2>3. \A i \in DOMAIN rs2 : rs2[i].status = "ok" => HasArtifact(art, i)
    BY <1>1, <2>1 DEF InOrder
  <2> QED BY <2>1, <2>2, <2>3 DEF InOrder
<1>5. UpdatesKept(up, rs2) BY <1>1 DEF Tables, UpdatesKept
<1> QED BY <1>1, <1>3, <1>4, <1>5 DEF Tables, rs2

\* The artifact of the last run is recorded.
LEMMA RecordingKeeps ==
    ASSUME NEW r, NEW rs, NEW art, NEW up, NEW sp, Tables(r, rs, art, up, sp), Len(rs) # 0
    PROVE  /\ Tables(r, rs, Append(art, Len(rs)), up, sp)
           /\ HasArtifact(Append(art, Len(rs)), Len(rs))
<1> DEFINE art2 == Append(art, Len(rs))
<1>0. /\ rs \in Seq(Runs) /\ art \in Seq(Nat) /\ InOrder(rs, art) BY DEF Tables
<1>1. Len(rs) \in Nat /\ DOMAIN rs = 1 .. Len(rs) BY <1>0
<1>2. /\ art2 \in Seq(Nat) /\ DOMAIN art2 = 1 .. (Len(art) + 1)
      /\ \A n \in DOMAIN art : n \in DOMAIN art2 /\ art2[n] = art[n]
      /\ \A n \in DOMAIN art2 : n \in DOMAIN art \/ n = Len(art) + 1
      /\ \A m, n \in DOMAIN art2 : m <= n /\ n \in DOMAIN art => m \in DOMAIN art
      /\ Len(art) + 1 \in DOMAIN art2 /\ art2[Len(art) + 1] = Len(rs)
  BY <1>0, <1>1, Appended
<1> HIDE DEF art2
<1>3. \A i : HasArtifact(art, i) => HasArtifact(art2, i) BY <1>2 DEF HasArtifact
<1>4. \A n \in DOMAIN art2 : art2[n] \in 1 .. Len(rs)
  <2>1. \A n \in DOMAIN art : art[n] \in 1 .. Len(rs) BY <1>0, <1>1 DEF InOrder
  <2>2. Len(rs) \in 1 .. Len(rs) BY <1>1
  <2> QED BY <1>2, <2>1, <2>2
<1>5. \A m, n \in DOMAIN art2 : m <= n => art2[m] <= art2[n]
  <2> SUFFICES ASSUME NEW m \in DOMAIN art2, NEW n \in DOMAIN art2, m <= n
               PROVE  art2[m] <= art2[n]
    OBVIOUS
  <2>1. CASE n \in DOMAIN art
    <3>1. m \in DOMAIN art BY <1>2, <2>1
    <3>2. art[m] <= art[n] BY <1>0, <2>1, <3>1 DEF InOrder
    <3> QED BY <1>2, <2>1, <3>1, <3>2
  <2>2. CASE n = Len(art) + 1
    <3>1. art2[n] = Len(rs) /\ art2[m] \in 1 .. Len(rs) BY <1>2, <1>4, <2>2
    <3> QED BY <1>1, <3>1
  <2> QED BY <1>2, <2>1, <2>2
<1>6. InOrder(rs, art2)
  <2>1. \A n \in DOMAIN art2 : art2[n] \in DOMAIN rs BY <1>1, <1>4
  <2>2. \A i \in DOMAIN rs : rs[i].status = "ok" => HasArtifact(art2, i)
    BY <1>0, <1>3 DEF InOrder
  <2> QED BY <1>5, <2>1, <2>2 DEF InOrder
<1>7. HasArtifact(art2, Len(rs)) BY <1>2 DEF HasArtifact
<1> QED BY <1>2, <1>6, <1>7 DEF Tables, art2

\* The run ends with a success that brings no children, or the last one with those of its
\* result, all of them or, when the task is terminated, none.
LEMMA EndingKeeps ==
    ASSUME SpawnAssumption, NEW r, NEW rs, NEW art, NEW up, NEW sp, Tables(r, rs, art, up, sp),
           r.status # "terminated",
           NEW r2 \in Rows, Len(rs) # 0, rs[Len(rs)].status = "running",
           HasArtifact(art, Len(rs)), NEW up2 \in {up, Len(rs)}, NEW sp2,
           \/ rs[Len(rs)].plan = << >> /\ sp2 = sp
           \/ PlanValid(rs[Len(rs)].plan) /\ sp2 = WithChildren(rs[Len(rs)].plan, Len(rs), sp)
           \/ r2.status = "terminated" /\ sp2 = sp
    PROVE  Tables(r2, [rs EXCEPT ![Len(rs)].status = "ok"], art, up2, sp2)
<1> DEFINE e == Len(rs)
           plan == rs[e].plan
           rs2 == [rs EXCEPT ![e].status = "ok"]
<1>1. /\ rs \in Seq(Runs) /\ e \in Nat /\ DOMAIN rs = 1 .. e /\ e \in DOMAIN rs
      /\ rs[e] \in Runs
  BY DEF Tables
<1>2. /\ rs2 \in Seq(Runs) /\ Len(rs2) = e /\ DOMAIN rs2 = 1 .. e
      /\ \A i \in 1 .. e : i # e => rs2[i] = rs[i]
      /\ rs2[e].status = "ok" /\ rs2[e].plan = plan
  <2>1. [rs[e] EXCEPT !.status = "ok"] \in Runs
        /\ [rs[e] EXCEPT !.status = "ok"].status = "ok"
        /\ [rs[e] EXCEPT !.status = "ok"].plan = plan
    BY <1>1 DEF Runs, RunStatus
  <2>2. rs2 = [rs EXCEPT ![e] = [rs[e] EXCEPT !.status = "ok"]] BY <1>1
  <2> HIDE DEF rs2, e, plan
  <2> QED BY <1>1, <2>1, <2>2
<1>3. plan \in Plans /\ plan \in Seq(Keys \cup {NoKey}) BY <1>1 DEF Runs, SpawnAssumption
<1>4. \A c \in sp : c.run # e
  BY <1>1 DEF Tables, Complete
<1> HIDE DEF rs2, e, plan
<1>5. /\ sp2 \in SUBSET Spawns /\ KeyedOnce(sp2) /\ sp \subseteq sp2
      /\ \A c \in sp2 : c \in sp \/ c.run = e
      /\ \/ \A n \in DOMAIN plan : \E c \in sp2 : /\ c.key = plan[n]
                                                  /\ c.key = NoKey => c.run = e /\ c.place = n
         \/ sp2 = sp /\ r2.status = "terminated"
  <2>1. CASE sp2 = sp
    <3>1. \/ plan = << >> \/ r2.status = "terminated"
          \/ PlanValid(plan) /\ sp = WithChildren(plan, e, sp)
      BY <2>1 DEF plan, e
    <3>2. PlanValid(plan) /\ sp = WithChildren(plan, e, sp) =>
            \A n \in DOMAIN plan : \E c \in sp : /\ c.key = plan[n]
                                                 /\ c.key = NoKey => c.run = e /\ c.place = n
      <4> SUFFICES ASSUME sp = WithChildren(plan, e, sp), NEW n \in DOMAIN plan
                   PROVE  \E c \in sp : /\ c.key = plan[n]
                                        /\ c.key = NoKey => c.run = e /\ c.place = n
        OBVIOUS
      <4>1. CASE n \in ToCreate(plan, sp)
        <5>1. [key |-> plan[n], run |-> e, place |-> n] \in sp BY <4>1 DEF WithChildren
        <5> QED BY <5>1
      <4>2. CASE n \notin ToCreate(plan, sp) BY <4>2 DEF ToCreate
      <4> QED BY <4>1, <4>2
    <3> QED BY <2>1, <3>1, <3>2 DEF Tables
  <2>2. CASE PlanValid(plan) /\ sp2 = WithChildren(plan, e, sp)
    <3> DEFINE child(n) == [key |-> plan[n], run |-> e, place |-> n]
    <3>1. /\ sp2 = sp \cup {child(n) : n \in ToCreate(plan, sp)}
          /\ \A n \in ToCreate(plan, sp) : n \in DOMAIN plan
          /\ \A n \in ToCreate(plan, sp), c \in sp : plan[n] # NoKey => c.key # plan[n]
      BY <2>2 DEF WithChildren, ToCreate
    <3>2. \A n \in DOMAIN plan : child(n) \in Spawns BY <1>1, <1>3 DEF Spawns
    <3>3. \A n : child(n).key = plan[n] /\ child(n).run = e /\ child(n).place = n OBVIOUS
    <3> HIDE DEF child
    <3>4. sp2 \in SUBSET Spawns /\ sp \subseteq sp2 /\ \A c \in sp2 : c \in sp \/ c.run = e
      BY <3>1, <3>2, <3>3 DEF Tables
    <3>5. KeyedOnce(sp2)
      <4> SUFFICES ASSUME NEW c \in sp2, NEW d \in sp2, c.key = d.key, c.key # NoKey
                   PROVE  c = d
        BY DEF KeyedOnce
      <4>1. CASE c \in sp /\ d \in sp BY <4>1 DEF Tables, KeyedOnce
      <4>2. CASE c \in sp /\ d \notin sp BY <3>1, <3>3, <4>2
      <4>3. CASE c \notin sp /\ d \in sp BY <3>1, <3>3, <4>3
      <4>4. CASE c \notin sp /\ d \notin sp
        <5>1. PICK m \in ToCreate(plan, sp) : c = child(m) BY <3>1, <4>4
        <5>2. PICK n \in ToCreate(plan, sp) : d = child(n) BY <3>1, <4>4
        <5>3. m = n BY <2>2, <3>1, <3>3, <5>1, <5>2 DEF PlanValid
        <5> QED BY <5>1, <5>2, <5>3
      <4> QED BY <4>1, <4>2, <4>3, <4>4
    <3>6. \A n \in DOMAIN plan : \E c \in sp2 : /\ c.key = plan[n]
                                                /\ c.key = NoKey => c.run = e /\ c.place = n
      <4> SUFFICES ASSUME NEW n \in DOMAIN plan
                   PROVE  \E c \in sp2 : /\ c.key = plan[n]
                                         /\ c.key = NoKey => c.run = e /\ c.place = n
        OBVIOUS
      <4>1. CASE n \in ToCreate(plan, sp) BY <3>1, <3>3, <4>1
      <4>2. CASE n \notin ToCreate(plan, sp)
        <5>1. plan[n] # NoKey /\ \E c \in sp : c.key = plan[n] BY <4>2 DEF ToCreate
        <5> QED BY <3>4, <5>1
      <4> QED BY <4>1, <4>2
    <3> QED BY <3>4, <3>5, <3>6
  <2> QED BY <2>1, <2>2 DEF plan, e
<1>6. Complete(r2, rs2, sp2)
  <2> SUFFICES ASSUME NEW i \in 1 .. e
      PROVE /\ (\E c \in sp2 : c.run = i) => rs2[i].status = "ok"
            /\ rs2[i].status = "ok" /\ rs2[i].plan # << >> =>
                 \/ \A n \in DOMAIN rs2[i].plan :
                       \E c \in sp2 : /\ c.key = rs2[i].plan[n]
                                      /\ c.key = NoKey => c.run = i /\ c.place = n
                 \/ (\A c \in sp2 : c.run # i) /\ r2.status = "terminated" /\ i = Len(rs2)
    BY <1>2 DEF Complete
  <2>1. CASE i = e BY <1>2, <1>4, <1>5, <2>1
  <2>2. CASE i # e
    <3>1. rs2[i] = rs[i] /\ i \in DOMAIN rs BY <1>1, <1>2, <2>2
    <3>2. (\E c \in sp2 : c.run = i) => \E c \in sp : c.run = i BY <1>5, <2>2
    <3>3. /\ (\E c \in sp : c.run = i) => rs[i].status = "ok"
          /\ rs[i].status = "ok" /\ rs[i].plan # << >> =>
                 \A n \in DOMAIN rs[i].plan :
                     \E c \in sp : /\ c.key = rs[i].plan[n]
                                   /\ c.key = NoKey => c.run = i /\ c.place = n
      BY <3>1 DEF Tables, Complete
    <3> QED BY <1>5, <3>1, <3>2, <3>3
  <2> QED BY <2>1, <2>2
<1>7. InOrder(rs2, art)
  <2>1. \A i \in 1 .. e : rs2[i].status = "ok" => HasArtifact(art, i)
    BY <1>1, <1>2 DEF Tables, InOrder, e
  <2> QED BY <1>1, <1>2, <2>1 DEF Tables, InOrder
<1>8. UpdatesKept(up2, rs2)
  <2>1. up2 \in 0 .. e /\ (up2 # e => up2 = up)
    <3>1. up \in 0 .. e BY DEF Tables, UpdatesKept, e
    <3>2. up2 = up \/ up2 = e BY DEF e
    <3> QED BY <1>1, <3>1, <3>2
  <2>2. up # 0 /\ rs[up].plan # << >> => rs[up].status = "ok" BY DEF Tables, UpdatesKept
  <2>3. CASE up2 = e BY <1>2, <2>1, <2>3 DEF UpdatesKept
  <2>4. CASE up2 # e
    <3>1. up2 # 0 => rs2[up2] = rs[up2] BY <1>1, <1>2, <2>1, <2>4
    <3> QED BY <1>2, <2>1, <2>2, <2>4, <3>1 DEF UpdatesKept
  <2> QED BY <2>3, <2>4
<1>9. \A c \in sp2 : c.run \in 1 .. e BY <1>1, <1>5 DEF Tables
<1> QED BY <1>2, <1>5, <1>6, <1>7, <1>8, <1>9 DEF Tables, rs2, e

---------------------------------------------------------------------------
(* The invariant of the results.                                            *)

\* A sequence of runs with one of them edited.
LEMMA Edited ==
    ASSUME NEW rs \in Seq(Runs), NEW e \in DOMAIN rs, NEW run \in Runs, NEW rs2,
           rs2 = [rs EXCEPT ![e] = run]
    PROVE  /\ rs2 \in Seq(Runs) /\ Len(rs2) = Len(rs) /\ DOMAIN rs2 = DOMAIN rs
           /\ DOMAIN rs = 1 .. Len(rs) /\ Len(rs) \in Nat
           /\ rs2[e] = run /\ \A i \in DOMAIN rs : i # e => rs2[i] = rs[i]
OBVIOUS

\* A worker that is not live carries nothing.
LEMMA EmptyHanded ==
    ASSUME NEW w, w.pc \in {"none", "gone", "reread"}, NEW r, NEW rs, NEW art, NEW up
    PROVE  Carries(w, r, rs, art, up)
BY DEF Carries

\* A live worker has the claim of an executing task, and the runs are well formed.
LEMMA LiveFacts ==
    ASSUME ResultsInv, NEW k \in Tokens, Live(k)
    PROVE  /\ row \in Rows /\ row.token = k /\ row.status \in Executing
           /\ row.status # "terminated"
           /\ worker[k] \in Workers /\ k \in Nat /\ k # 0
           /\ Tables(row, runs, artifacts, updates, spawns)
           /\ Carries(worker[k], row, runs, artifacts, updates)
           /\ runs \in Seq(Runs) /\ Len(runs) \in Nat /\ DOMAIN runs = 1 .. Len(runs)
           /\ Current(worker[k], runs) =>
                 worker[k].run \in DOMAIN runs /\ runs[worker[k].run] \in Runs
<1>1. row.token = k /\ k \in Nat /\ k # 0 BY DEF ResultsInv, Held, Tokens
<1>2. row.status \in Executing BY <1>1 DEF ResultsInv, Held
<1>3. row.status # "terminated" BY <1>2 DEF Executing
<1>4. runs \in Seq(Runs) /\ Len(runs) \in Nat /\ DOMAIN runs = 1 .. Len(runs)
  BY DEF ResultsInv, Tables
<1>5. Current(worker[k], runs) =>
        worker[k].run \in DOMAIN runs /\ runs[worker[k].run] \in Runs
  BY <1>4 DEF Current
<1> QED BY <1>1, <1>2, <1>3, <1>4, <1>5 DEF ResultsInv, TypeOK

\* A worker writes what it carries, or lets go of the task.
LEMMA WorkerKeeps ==
    ASSUME ResultsInv, NEW k \in Tokens, worker[k].pc # "none",
           NEW w \in Workers, w.pc # "none", worker' = [worker EXCEPT ![k] = w],
           w.pc \notin {"gone", "reread"} => Live(k) /\ row' = row,
           \/ row' = row
           \/ row'.token = 0 /\ ~row'.term /\ row'.status \notin Executing,
           Live(k) \/ UNCHANGED tables,
           UNCHANGED <<claims, request>>, faults' \in 0 .. MaxFaults,
           Tables(row', runs', artifacts', updates', spawns'),
           Carries(w, row', runs', artifacts', updates')
    PROVE  ResultsInv'
<1>0. TypeOK /\ Held BY DEF ResultsInv
<1>1. worker \in [Tokens -> Workers] BY <1>0 DEF TypeOK
<1>2. /\ worker' \in [Tokens -> Workers] /\ worker'[k] = w
      /\ \A j \in Tokens : j # k => worker'[j] = worker[j]
  BY <1>1
<1>3. updates' \in Nat
  BY DEF Tables, UpdatesKept
<1>4. TypeOK' BY <1>0, <1>2, <1>3 DEF TypeOK, Tables
<1>5. \A j \in Tokens : j # k /\ Live(k) => worker[j].pc \in {"none", "gone", "reread"}
  BY <1>0 DEF Held, Live
<1>6. Held'
  <2>1. /\ row'.token \in 0 .. claims' /\ (row'.token # 0 <=> row'.status \in Executing)
        /\ row'.term => row'.status \in Executing
    BY <1>0 DEF TypeOK, Held
  <2>2. ASSUME NEW j \in Tokens, Live(j)' PROVE row'.token = j
    <3>1. CASE j = k BY <1>0, <1>2, <2>2, <3>1 DEF Live, Held
    <3>2. CASE j # k
      <4>1. Live(j) /\ ~Live(k) BY <1>2, <1>5, <2>2, <3>2 DEF Live
      <4> QED BY <1>0, <4>1 DEF Held, tables
    <3> QED BY <3>1, <3>2
  <2>3. \A j \in Tokens : j > claims' => worker'[j].pc = "none"
    BY <1>0, <1>2 DEF Held
  <2> QED BY <2>1, <2>2, <2>3 DEF Held
<1>7. ASSUME NEW j \in Tokens
      PROVE  Carries(worker'[j], row', runs', artifacts', updates')
  <2>1. CASE j = k BY <1>2, <2>1
  <2>2. CASE j # k /\ Live(k) BY <1>2, <1>5, <2>2, EmptyHanded
  <2>3. CASE j # k /\ ~Live(k) BY <1>2, <2>3 DEF ResultsInv, tables
  <2> QED BY <2>1, <2>2, <2>3
<1>8. \A d \in request' : Asked(d) BY DEF ResultsInv
<1> QED BY <1>4, <1>6, <1>7, <1>8 DEF ResultsInv

\* The user and the scheduler change the row alone, and not under a worker.
LEMMA RowKeeps ==
    ASSUME ResultsInv, row' \in Rows, row'.token = row.token,
           row'.status \in Executing <=> row.status \in Executing,
           row'.term => row'.status \in Executing,
           row.status \in Executing => row'.step = row.step,
           row.status = "terminated" => row'.status = "terminated",
           UNCHANGED <<runs, artifacts, updates, spawns, worker, claims, faults>>,
           request' \subseteq request
    PROVE  ResultsInv'
<1>0. TypeOK /\ Held BY DEF ResultsInv
<1>1. TypeOK' BY <1>0 DEF TypeOK
<1>2. Held' BY <1>0 DEF Held, Live
<1>3. Tables(row, runs, artifacts, updates, spawns) BY DEF ResultsInv
<1>4. Tables(row', runs, artifacts, updates, spawns)
  <2>1. runs \in Seq(Runs) BY <1>0 DEF TypeOK
  <2>2. Unfinished(runs, runs, updates) BY DEF Unfinished
  <2> QED BY <1>3, <2>1, <2>2, UnfinishedKeeps
<1>5. ASSUME NEW k \in Tokens
      PROVE  Carries(worker[k], row', runs, artifacts, updates)
  <2>1. Carries(worker[k], row, runs, artifacts, updates) BY DEF ResultsInv
  <2>2. CASE Live(k)
    <3>1. row'.step = row.step BY <2>2, LiveFacts
    <3> QED BY <2>1, <3>1 DEF Carries
  <2>3. CASE ~Live(k) BY <2>3, EmptyHanded DEF Live
  <2> QED BY <2>2, <2>3
<1> QED BY <1>1, <1>2, <1>4, <1>5 DEF ResultsInv

\* A run that fails takes nothing with it.
LEMMA FailsKeeps ==
    ASSUME SpawnAssumption, ResultsInv, NEW k \in Tokens,
           worker[k].pc \in {"run", "artifacts", "columns", "undone"},
           runs' = [runs EXCEPT ![worker[k].run].status = "failed"],
           worker' = [worker EXCEPT ![k].pc = "finish", ![k].plan = << >>,
                                    ![k].out = [kind |-> FailKind(runs[worker[k].run].step)]],
           UNCHANGED <<row, artifacts, updates, spawns, claims, request>>,
           faults' \in 0 .. MaxFaults
    PROVE  ResultsInv'
<1> DEFINE e == worker[k].run
           closed == [runs[e] EXCEPT !.status = "failed"]
           w == [worker[k] EXCEPT !.pc = "finish", !.plan = << >>,
                                  !.out = [kind |-> FailKind(runs[e].step)]]
<1>1. Live(k) BY DEF Live
<1>2. /\ row \in Rows /\ worker[k] \in Workers
      /\ Tables(row, runs, artifacts, updates, spawns)
      /\ Carries(worker[k], row, runs, artifacts, updates)
      /\ runs \in Seq(Runs)
  BY <1>1, LiveFacts
<1>3. Current(worker[k], runs) BY <1>2 DEF Carries
<1>4. e \in DOMAIN runs /\ runs[e] \in Runs /\ runs[e].status = "running"
  BY <1>1, <1>3, LiveFacts DEF Current
<1>5. closed \in Runs /\ closed.status = "failed" /\ closed.plan = runs[e].plan
  BY <1>4 DEF Runs, RunStatus
<1>6. runs' = [runs EXCEPT ![e] = closed] BY <1>4
<1>7. w \in Workers /\ w.pc = "finish" /\ w.plan = << >>
  BY <1>2 DEF Workers, FailKind, SpawnAssumption
<1>8. worker' = [worker EXCEPT ![k] = w] BY DEF ResultsInv, TypeOK
<1> HIDE DEF e, closed, w
<1>9. Tables(row', runs', artifacts', updates', spawns')
  <2>1. /\ runs' \in Seq(Runs) /\ Len(runs') = Len(runs)
        /\ runs'[e] = closed /\ \A i \in DOMAIN runs : i # e => runs'[i] = runs[i]
    BY <1>2, <1>4, <1>5, <1>6, Edited
  <2>2. Unfinished(runs, runs', updates) BY <1>4, <1>5, <2>1 DEF Unfinished
  <2>3. runs' \in Seq(Runs) /\ Len(runs') = Len(runs) BY <2>1
  <2>4. Tables(row, runs', artifacts, updates, spawns)
    BY ONLY <1>2, <2>2, <2>3, UnfinishedKeeps, Zenon
  <2> QED BY <2>4
<1>10. Carries(w, row', runs', artifacts', updates') BY <1>7 DEF Carries
<1> QED BY <1>1, <1>7, <1>8, <1>9, <1>10, WorkerKeeps DEF Live

\* A step starts, and its run is recorded.
LEMMA StartKeeps ==
    ASSUME SpawnAssumption, ResultsInv, NEW k \in Tokens, Start(k)
    PROVE  ResultsInv'
<1> DEFINE n == Len(runs)
           new == [step |-> row.step, status |-> "running", plan |-> << >>]
           w == [worker[k] EXCEPT !.pc = "run", !.run = n + 1]
           v == [worker[k] EXCEPT !.pc = "finish"]
<1>1. Live(k) /\ worker[k].pc = "start" BY DEF Start, Live
<1>2. /\ row \in Rows /\ row.status # "terminated" /\ worker[k] \in Workers
      /\ Tables(row, runs, artifacts, updates, spawns)
      /\ Carries(worker[k], row, runs, artifacts, updates)
      /\ runs \in Seq(Runs) /\ Len(runs) \in Nat
  BY <1>1, LiveFacts
<1>3. worker[k].plan = << >> /\ worker[k].out.kind # "ok" BY <1>1, <1>2 DEF Carries
<1>4. faults' \in 0 .. MaxFaults BY DEF Start, ResultsInv, TypeOK
<1>5. worker \in [Tokens -> Workers] BY DEF ResultsInv, TypeOK
<1>6. CASE row.term \/ row.pause
  <2>1. worker' = [worker EXCEPT ![k] = v] BY <1>5, <1>6 DEF Start, Goes
  <2>2. v \in Workers /\ v.pc = "finish" /\ v.plan = << >> BY <1>2, <1>3 DEF Workers
  <2> HIDE DEF v
  <2>3. UNCHANGED <<tables, claims, request>> BY <1>6 DEF Start, tables
  <2>4. Carries(v, row', runs', artifacts', updates') BY <2>2 DEF Carries
  <2>5. Tables(row', runs', artifacts', updates', spawns') BY <1>2, <2>3 DEF tables
  <2>6. row' = row /\ v.pc # "none" /\ worker[k].pc # "none"
    BY <1>1, <2>2, <2>3 DEF tables
  <2> QED BY <1>1, <1>4, <2>1, <2>2, <2>3, <2>4, <2>5, <2>6, WorkerKeeps
<1>7. CASE ~(row.term \/ row.pause)
  <2>1. runs' = Append(runs, new) BY <1>7 DEF Start
  <2>2. worker' = [worker EXCEPT ![k] = w] BY <1>5, <1>7 DEF Start
  <2>3. /\ w \in Workers /\ w.pc = "run" /\ w.plan = << >>
        /\ w.out = worker[k].out /\ w.run = n + 1
    <3>1. n + 1 \in Nat BY <1>2
    <3> HIDE DEF n
    <3> QED BY <1>2, <1>3, <3>1 DEF Workers
  <2>4. new \in Runs /\ new.status = "running"
    BY <1>2 DEF Rows, Runs, RunStatus, SpawnAssumption
  <2> HIDE DEF new, w
  <2>5. Tables(row, runs', artifacts, updates, spawns)
    BY <1>2, <2>1, <2>4, StartingKeeps
  <2>6. Len(runs') = n + 1 /\ runs'[n + 1] = new BY <1>2, <2>1, <2>4, Appended
  <2>7. updates # n + 1 BY <1>2 DEF Tables, UpdatesKept
  <2>8. UNCHANGED <<row, artifacts, updates, spawns, claims, request>> BY DEF Start
  <2>9. Carries(w, row, runs', artifacts, updates)
    BY <1>2, <1>3, <2>3, <2>4, <2>6, <2>7 DEF Carries, Current
  <2>10. Tables(row', runs', artifacts', updates', spawns')
         /\ Carries(w, row', runs', artifacts', updates')
    BY <2>5, <2>8, <2>9
  <2>11. row' = row /\ w.pc # "none" /\ worker[k].pc # "none" BY <1>1, <2>3, <2>8
  <2> QED BY <1>1, <1>4, <2>2, <2>3, <2>8, <2>10, <2>11, WorkerKeeps
<1> QED BY <1>6, <1>7

\* A step returns: its result is refused, or its plan is carried on.
LEMMA ReturnKeeps ==
    ASSUME SpawnAssumption, ResultsInv, NEW k \in Tokens, NEW plan \in Plans,
           StepReturns(k, plan)
    PROVE  ResultsInv'
<1> DEFINE e == worker[k].run
           edited == [runs[e] EXCEPT !.plan = plan]
           w == [worker[k] EXCEPT !.pc = "artifacts", !.plan = plan, !.out = [kind |-> "ok"]]
<1>1. Live(k) /\ worker[k].pc = "run" BY DEF StepReturns, Live
<1>2. /\ row \in Rows /\ worker[k] \in Workers
      /\ Tables(row, runs, artifacts, updates, spawns)
      /\ Carries(worker[k], row, runs, artifacts, updates)
      /\ runs \in Seq(Runs)
  BY <1>1, LiveFacts
<1>3. Current(worker[k], runs) /\ updates # e BY <1>1, <1>2 DEF Carries
<1>4. e \in DOMAIN runs /\ runs[e] \in Runs /\ runs[e].status = "running" /\ e = Len(runs)
      /\ e # 0
  BY <1>1, <1>3, LiveFacts DEF Current
<1>5. faults' \in 0 .. MaxFaults BY DEF StepReturns, Fails, ResultsInv, TypeOK
<1>6. CASE ~PlanValid(plan)
  <2>1. Fails(k) BY <1>6 DEF StepReturns
  <2> QED BY <1>1, <1>5, <2>1, FailsKeeps DEF Fails
<1>7. CASE PlanValid(plan)
  <2>1. edited \in Runs /\ edited.status = "running" /\ edited.plan = plan
    BY <1>4 DEF Runs
  <2>2. runs' = [runs EXCEPT ![e] = edited] BY <1>4, <1>7 DEF StepReturns
  <2>3. /\ w \in Workers /\ w.pc = "artifacts" /\ w.plan = plan /\ w.out.kind = "ok"
        /\ w.run = e
    BY <1>2 DEF Workers
  <2>4. worker' = [worker EXCEPT ![k] = w] BY <1>7 DEF StepReturns, ResultsInv, TypeOK
  <2>5. UNCHANGED <<row, artifacts, updates, spawns, claims, request>>
    BY <1>7 DEF StepReturns
  <2> HIDE DEF e, edited, w
  <2>6. /\ runs' \in Seq(Runs) /\ Len(runs') = Len(runs)
        /\ runs'[e] = edited /\ \A i \in DOMAIN runs : i # e => runs'[i] = runs[i]
    BY <1>2, <1>4, <2>1, <2>2, Edited
  <2>7. Unfinished(runs, runs', updates) BY <1>3, <1>4, <2>1, <2>6 DEF Unfinished
  <2>8. runs' \in Seq(Runs) /\ Len(runs') = Len(runs) BY <2>6
  <2>9. Tables(row, runs', artifacts, updates, spawns)
    BY ONLY <1>2, <2>7, <2>8, UnfinishedKeeps, Zenon
  <2>10. Carries(w, row, runs', artifacts, updates)
    BY <1>4, <1>7, <2>1, <2>3, <2>6 DEF Carries, Current
  <2>11. Tables(row', runs', artifacts', updates', spawns')
         /\ Carries(w, row', runs', artifacts', updates')
    BY <2>5, <2>9, <2>10
  <2>12. row' = row /\ w.pc # "none" /\ worker[k].pc # "none" BY <1>1, <2>3, <2>5
  <2> QED BY <1>1, <1>5, <2>3, <2>4, <2>5, <2>11, <2>12, WorkerKeeps
<1> QED BY <1>6, <1>7

\* The artifacts of a result are recorded.
LEMMA RecordKeeps ==
    ASSUME SpawnAssumption, ResultsInv, NEW k \in Tokens, RecordArtifacts(k)
    PROVE  ResultsInv'
<1> DEFINE w == [worker[k] EXCEPT !.pc = AfterArtifacts(k)]
<1>1. Live(k) /\ worker[k].pc = "artifacts" BY DEF RecordArtifacts, Live
<1>2. /\ row \in Rows /\ worker[k] \in Workers
      /\ Tables(row, runs, artifacts, updates, spawns)
      /\ Carries(worker[k], row, runs, artifacts, updates)
      /\ runs \in Seq(Runs)
  BY <1>1, LiveFacts
<1>3. /\ Current(worker[k], runs) /\ worker[k].out.kind = "ok"
      /\ runs[worker[k].run].plan = worker[k].plan /\ PlanValid(worker[k].plan)
  BY <1>1, <1>2 DEF Carries
<1>4. worker[k].run = Len(runs) /\ Len(runs) # 0 BY <1>3 DEF Current
<1>5. /\ Tables(row, runs, Append(artifacts, Len(runs)), updates, spawns)
      /\ HasArtifact(Append(artifacts, Len(runs)), Len(runs))
  BY <1>2, <1>4, RecordingKeeps
<1>6. artifacts' = Append(artifacts, Len(runs)) BY <1>4 DEF RecordArtifacts
<1>7. UNCHANGED <<row, runs, updates, spawns, claims, request>> /\ faults' \in 0 .. MaxFaults
  BY DEF RecordArtifacts, ResultsInv, TypeOK
<1>8. worker' = [worker EXCEPT ![k] = w]
  BY DEF RecordArtifacts, Goes, ResultsInv, TypeOK
<1>9. /\ w \in Workers /\ w.plan = worker[k].plan /\ w.out = worker[k].out
      /\ w.run = worker[k].run
      /\ w.pc = IF worker[k].plan # << >> THEN "finish" ELSE "columns"
  BY <1>2, <1>3 DEF Workers, AfterArtifacts, Spawning
<1> HIDE DEF w
<1>10. Tables(row', runs', artifacts', updates', spawns') BY <1>5, <1>6, <1>7
<1>11. Carries(w, row', runs', artifacts', updates')
  BY <1>3, <1>4, <1>5, <1>6, <1>7, <1>9 DEF Carries, Current
<1>12. row' = row /\ w.pc # "none" /\ worker[k].pc # "none" BY <1>1, <1>7, <1>9
<1> QED BY <1>1, <1>7, <1>8, <1>9, <1>10, <1>11, <1>12, WorkerKeeps

\* The columns of a result without children are written.
LEMMA ColumnsKeep ==
    ASSUME SpawnAssumption, ResultsInv, NEW k \in Tokens, WriteColumns(k)
    PROVE  ResultsInv'
<1> DEFINE w == [worker[k] EXCEPT !.pc = "close"]
<1>1. Live(k) /\ worker[k].pc = "columns" BY DEF WriteColumns, Live
<1>2. /\ row \in Rows /\ worker[k] \in Workers /\ row.token = k
      /\ Tables(row, runs, artifacts, updates, spawns)
      /\ Carries(worker[k], row, runs, artifacts, updates)
      /\ Len(runs) \in Nat
  BY <1>1, LiveFacts
<1>3. /\ Current(worker[k], runs) /\ worker[k].out.kind = "ok" /\ worker[k].plan = << >>
      /\ runs[worker[k].run].plan = worker[k].plan /\ PlanValid(worker[k].plan)
      /\ HasArtifact(artifacts, worker[k].run)
  BY <1>1, <1>2 DEF Carries
<1>4. updates' = worker[k].run BY <1>2 DEF WriteColumns
<1>5. UNCHANGED <<row, runs, artifacts, spawns, claims, request>> /\ faults' \in 0 .. MaxFaults
  BY DEF WriteColumns, ResultsInv, TypeOK
<1>6. worker' = [worker EXCEPT ![k] = w] BY DEF WriteColumns, Goes, ResultsInv, TypeOK
<1>7. /\ w \in Workers /\ w.plan = worker[k].plan /\ w.out = worker[k].out
      /\ w.run = worker[k].run /\ w.pc = "close"
  BY <1>2 DEF Workers
<1> HIDE DEF w
<1>8. UpdatesKept(updates', runs)
  BY <1>2, <1>3, <1>4 DEF UpdatesKept, Current
<1>9. Tables(row', runs', artifacts', updates', spawns') BY <1>2, <1>5, <1>8 DEF Tables
<1>10. Carries(w, row', runs', artifacts', updates')
  BY <1>3, <1>5, <1>7 DEF Carries, Current
<1>11. row' = row /\ w.pc # "none" /\ worker[k].pc # "none" BY <1>1, <1>5, <1>7
<1> QED BY <1>1, <1>5, <1>6, <1>7, <1>9, <1>10, <1>11, WorkerKeeps

\* The run of a result without children is closed.
LEMMA CloseKeeps ==
    ASSUME SpawnAssumption, ResultsInv, NEW k \in Tokens, CloseRun(k)
    PROVE  ResultsInv'
<1> DEFINE w == [worker[k] EXCEPT !.pc = "finish"]
<1>1. Live(k) /\ worker[k].pc = "close" BY DEF CloseRun, Live
<1>2. /\ row \in Rows /\ worker[k] \in Workers /\ row.status # "terminated"
      /\ Tables(row, runs, artifacts, updates, spawns)
      /\ Carries(worker[k], row, runs, artifacts, updates)
      /\ runs \in Seq(Runs)
  BY <1>1, LiveFacts
<1>3. /\ Current(worker[k], runs) /\ worker[k].plan = << >>
      /\ runs[worker[k].run].plan = worker[k].plan
      /\ HasArtifact(artifacts, worker[k].run)
  BY <1>1, <1>2 DEF Carries
<1>4. worker[k].run = Len(runs) /\ Len(runs) # 0 /\ runs[Len(runs)].status = "running"
  BY <1>3 DEF Current
<1>5. Tables(row, [runs EXCEPT ![Len(runs)].status = "ok"], artifacts, updates, spawns)
  BY <1>2, <1>3, <1>4, EndingKeeps
<1>6. runs' = [runs EXCEPT ![Len(runs)].status = "ok"] BY <1>4 DEF CloseRun
<1>7. UNCHANGED <<row, artifacts, updates, spawns, claims, request>>
      /\ faults' \in 0 .. MaxFaults
  BY DEF CloseRun, ResultsInv, TypeOK
<1>8. worker' = [worker EXCEPT ![k] = w] BY DEF CloseRun, Goes, ResultsInv, TypeOK
<1>9. w \in Workers /\ w.plan = << >> /\ w.pc = "finish" BY <1>2, <1>3 DEF Workers
<1> HIDE DEF w
<1>10. Tables(row', runs', artifacts', updates', spawns') BY <1>5, <1>6, <1>7
<1>11. Carries(w, row', runs', artifacts', updates') BY <1>9 DEF Carries
<1>12. row' = row /\ w.pc # "none" /\ worker[k].pc # "none" BY <1>1, <1>7, <1>9
<1> QED BY <1>1, <1>7, <1>8, <1>9, <1>10, <1>11, <1>12, WorkerKeeps

\* A worker changes its place alone: to undo what did not commit, or to leave.
LEMMA PlaceKeeps ==
    ASSUME ResultsInv, NEW k \in Tokens, worker[k].pc # "none",
           NEW place \in {"undone", "gone"}, worker' = Goes(k, place),
           place = "undone" => Live(k) /\ Current(worker[k], runs),
           UNCHANGED <<tables, claims, request>>, faults' \in 0 .. MaxFaults
    PROVE  ResultsInv'
<1> DEFINE w == [worker[k] EXCEPT !.pc = place]
<1>1. worker \in [Tokens -> Workers] /\ worker[k] \in Workers BY DEF ResultsInv, TypeOK
<1>2. worker' = [worker EXCEPT ![k] = w] BY <1>1 DEF Goes
<1>3. w \in Workers /\ w.pc = place /\ w.run = worker[k].run BY <1>1 DEF Workers
<1> HIDE DEF w
<1>4. Tables(row', runs', artifacts', updates', spawns') BY DEF ResultsInv, tables
<1>5. Carries(w, row', runs', artifacts', updates')
  BY <1>3 DEF Carries, Current, tables
<1>6. row' = row BY DEF tables
<1>7. UNCHANGED tables /\ UNCHANGED <<claims, request>> OBVIOUS
<1> QED BY <1>2, <1>3, <1>4, <1>5, <1>6, <1>7, WorkerKeeps

\* A blank row is a row.
LEMMA BlankRowType == BlankRow \in Rows
<1>1. (CHOOSE c \in RetryCaps : TRUE) \in RetryCaps BY RetryCapsAssumption
<1> QED BY <1>1, NewRowType DEF BlankRow

\* The boundary is read.
LEMMA ReadKeeps ==
    ASSUME ResultsInv, NEW k \in Tokens, FinishRead(k)
    PROVE  ResultsInv'
<1> DEFINE w == [worker[k] EXCEPT !.pc = "commit", !.seen = row]
<1>1. Live(k) /\ worker[k].pc = "finish" BY DEF FinishRead, Live
<1>2. /\ row \in Rows /\ worker[k] \in Workers
      /\ Carries(worker[k], row, runs, artifacts, updates)
  BY <1>1, LiveFacts
<1>3. UNCHANGED <<tables, claims, request>> /\ faults' \in 0 .. MaxFaults
  BY DEF FinishRead, ResultsInv, TypeOK
<1>4. CASE row.status \in Executing /\ row.token = k
  <2>1. worker' = [worker EXCEPT ![k] = w] BY <1>4 DEF FinishRead, ResultsInv, TypeOK
  <2>2. /\ w \in Workers /\ w.pc = "commit" /\ w.seen = row /\ w.run = worker[k].run
        /\ w.plan = worker[k].plan /\ w.out = worker[k].out
    BY <1>2 DEF Workers
  <2> HIDE DEF w
  <2>3. Tables(row', runs', artifacts', updates', spawns')
    BY <1>3 DEF ResultsInv, tables
  <2>4. Carries(w, row', runs', artifacts', updates')
    BY <1>1, <1>2, <1>3, <2>2 DEF Carries, Current, tables
  <2>5. row' = row /\ w.pc # "none" /\ worker[k].pc # "none" BY <1>1, <1>3, <2>2 DEF tables
  <2> QED BY <1>1, <1>3, <2>1, <2>2, <2>3, <2>4, <2>5, WorkerKeeps
<1>5. CASE ~(row.status \in Executing /\ row.token = k)
  <2>1. worker' = Goes(k, "gone") BY <1>5 DEF FinishRead
  <2> QED BY <1>1, <1>3, <2>1, PlaceKeeps
<1> QED BY <1>4, <1>5

\* The boundary is written, with all that its result brings, or is read again.
LEMMA WriteKeeps ==
    ASSUME SpawnAssumption, ResultsInv, NEW k \in Tokens, FinishWrite(k)
    PROVE  ResultsInv'
<1> DEFINE new == Boundary(row, worker[k].seen, worker[k].out, FALSE)
           w == [worker[k] EXCEPT !.pc = "reread"]
           v == [worker[k] EXCEPT !.pc = "finish", !.seen = BlankRow]
<1>1. Live(k) /\ worker[k].pc = "commit" BY DEF FinishWrite, Live
<1>2. /\ row \in Rows /\ worker[k] \in Workers /\ row.status # "terminated"
      /\ row.status \in Executing /\ row.token = k
      /\ Tables(row, runs, artifacts, updates, spawns)
      /\ Carries(worker[k], row, runs, artifacts, updates)
      /\ runs \in Seq(Runs)
  BY <1>1, LiveFacts
<1>3. /\ worker[k].plan # << >> /\ worker[k].out.kind = "ok" =>
            /\ Current(worker[k], runs) /\ runs[worker[k].run].plan = worker[k].plan
            /\ PlanValid(worker[k].plan) /\ HasArtifact(artifacts, worker[k].run)
      /\ worker[k].seen.step = row.step
  BY <1>1, <1>2 DEF Carries
<1>4. UNCHANGED <<artifacts, claims, request>> /\ faults' \in 0 .. MaxFaults
  BY DEF FinishWrite, ResultsInv, TypeOK
<1>5. worker \in [Tokens -> Workers] BY DEF ResultsInv, TypeOK
<1>6. CASE FinishMatches(row, worker[k].seen, k)
  <2>1. /\ worker[k].seen \in Rows
        /\ worker[k].out \in [kind : {"ok", "notready", "failed", "fatal"}]
    BY <1>2 DEF Workers
  <2>2. new \in Rows /\ new.token = 0 /\ ~new.term /\ new.status \notin Executing
    BY <1>2, <1>3, <1>6, <2>1, ReleaseFacts
  <2>3. row' = new BY <1>6 DEF FinishWrite
  <2>4. worker' = [worker EXCEPT ![k] = w] BY <1>5, <1>6 DEF FinishWrite, Goes
  <2>5. w \in Workers /\ w.pc = "reread" BY <1>2 DEF Workers
  <2>6. ASSUME Spawning(k) PROVE Tables(row', runs', artifacts', updates', spawns')
    <3>1. /\ worker[k].run = Len(runs) /\ Len(runs) # 0 /\ worker[k].plan = runs[Len(runs)].plan
          /\ runs[Len(runs)].status = "running"
          /\ PlanValid(runs[Len(runs)].plan) /\ HasArtifact(artifacts, Len(runs))
      BY <1>3, <2>6 DEF Spawning, Current
    <3>2. updates' = Len(runs) BY <1>6, <2>6, <3>1 DEF FinishWrite, ResultChange
    <3>3. runs' = [runs EXCEPT ![Len(runs)].status = "ok"]
      BY <1>6, <2>6, <3>1 DEF FinishWrite, ResultChange
    <3>4. spawns' = IF new.status # "terminated"
                    THEN WithChildren(runs[Len(runs)].plan, Len(runs), spawns) ELSE spawns
      BY <1>6, <2>6, <3>1 DEF FinishWrite, SpawnChange
    <3> HIDE DEF new
    <3>5. Tables(new, [runs EXCEPT ![Len(runs)].status = "ok"], artifacts, updates', spawns')
      <4>1. CASE new.status # "terminated"
        BY <1>2, <2>2, <3>1, <3>2, <3>4, <4>1, EndingKeeps
      <4>2. CASE new.status = "terminated"
        BY <1>2, <2>2, <3>1, <3>2, <3>4, <4>2, EndingKeeps
      <4> QED BY <4>1, <4>2
    <3> QED BY <1>4, <2>3, <3>3, <3>5
  <2>7. ASSUME ~Spawning(k) PROVE Tables(row', runs', artifacts', updates', spawns')
    <3>1. UNCHANGED <<runs, updates, spawns>>
      BY <1>6, <2>7 DEF FinishWrite, ResultChange, SpawnChange
    <3> HIDE DEF new
    <3>2. Unfinished(runs, runs, updates) BY DEF Unfinished
    <3>3. Tables(new, runs, artifacts, updates, spawns)
      BY <1>2, <2>2, <3>2, UnfinishedKeeps
    <3> QED BY <1>4, <2>3, <3>1, <3>3
  <2> HIDE DEF new, w
  <2>8. Tables(row', runs', artifacts', updates', spawns') BY <2>6, <2>7
  <2>9. Carries(w, row', runs', artifacts', updates') BY <2>5, EmptyHanded
  <2>10. /\ row'.token = 0 /\ ~row'.term /\ row'.status \notin Executing
         /\ w.pc # "none" /\ worker[k].pc # "none"
    BY <1>1, <2>2, <2>3, <2>5
  <2> QED BY <1>1, <1>4, <2>4, <2>5, <2>8, <2>9, <2>10, WorkerKeeps
<1>7. CASE ~FinishMatches(row, worker[k].seen, k)
  <2>1. worker' = [worker EXCEPT ![k] = v] BY <1>5, <1>7 DEF FinishWrite, Goes
  <2>2. /\ v \in Workers /\ v.pc = "finish" /\ v.run = worker[k].run
        /\ v.plan = worker[k].plan /\ v.out = worker[k].out
    BY <1>2, BlankRowType DEF Workers
  <2>3. UNCHANGED <<row, runs, updates, spawns>> BY <1>7 DEF FinishWrite
  <2> HIDE DEF v
  <2>4. Tables(row', runs', artifacts', updates', spawns') BY <1>2, <1>4, <2>3
  <2>5. Carries(v, row', runs', artifacts', updates')
    BY <1>3, <1>4, <2>2, <2>3 DEF Carries, Current
  <2>6. row' = row /\ v.pc # "none" /\ worker[k].pc # "none" BY <1>1, <2>2, <2>3
  <2> QED BY <1>1, <1>4, <2>1, <2>2, <2>4, <2>5, <2>6, WorkerKeeps
<1> QED BY <1>6, <1>7

\* A claim finds nobody at work.
LEMMA ClaimKeeps ==
    ASSUME SpawnAssumption, ResultsInv, Claim
    PROVE  ResultsInv'
<1> DEFINE c == claims + 1
<1>0. TypeOK /\ Held BY DEF ResultsInv
<1>1. /\ claims \in Nat /\ c \in Tokens /\ c # 0 /\ c \in Nat
  BY <1>0 DEF TypeOK, Claim, Tokens, SpawnAssumption
<1>2. row \in Rows /\ row.status \notin Executing /\ ~row.term /\ row.status = "queued"
  BY <1>0 DEF TypeOK, Claim, Held, Executing, Rows
<1>3. \A k \in Tokens : ~Live(k)
  BY <1>0, <1>2 DEF Held, Tokens
<1>4. row' = Claimed(row, c) BY DEF Claim
<1>5. /\ row' \in Rows /\ row'.token = c /\ row'.status = "running" /\ ~row'.term
  <2>1. row' \in Rows BY <1>1, <1>2, <1>4, ClaimedType
  <2> QED BY <1>2, <1>4, <2>1 DEF Claimed, Rows
<1>6. worker' = [worker EXCEPT ![c] = Idle("start")] BY DEF Claim
<1>7. Idle("start") \in Workers
  BY BlankRowType DEF Idle, Workers, SpawnAssumption
<1>8. /\ worker' \in [Tokens -> Workers] /\ worker'[c] = Idle("start")
      /\ \A k \in Tokens : k # c => worker'[k] = worker[k]
  BY <1>0, <1>1, <1>6, <1>7 DEF TypeOK
<1>9. UNCHANGED <<runs, artifacts, updates, spawns, faults, request>> /\ claims' = c
  BY DEF Claim
<1>10. claims' \in 0 .. MaxClaims BY <1>1 DEF Claim, SpawnAssumption
<1>11. TypeOK' BY <1>0, <1>5, <1>8, <1>9, <1>10 DEF TypeOK
<1>12. Held'
  <2>1. row'.token \in 0 .. claims' BY <1>1, <1>5, <1>9
  <2>2. row'.token # 0 <=> row'.status \in Executing BY <1>1, <1>5 DEF Executing
  <2>3. row'.term => row'.status \in Executing BY <1>5
  <2>4. ASSUME NEW k \in Tokens, Live(k)' PROVE row'.token = k
    BY <1>3, <1>5, <1>8, <2>4 DEF Live
  <2>5. \A k \in Tokens : k > claims' => worker'[k].pc = "none"
    <3> SUFFICES ASSUME NEW k \in Tokens, k > claims' PROVE worker'[k].pc = "none" OBVIOUS
    <3>1. k \in Nat /\ k > claims /\ k # c BY <1>1, <1>9 DEF Tokens
    <3> QED BY <1>0, <1>8, <3>1 DEF Held
  <2> QED BY <2>1, <2>2, <2>3, <2>4, <2>5 DEF Held
<1>13. Tables(row', runs', artifacts', updates', spawns')
  <2>1. Tables(row, runs, artifacts, updates, spawns) BY DEF ResultsInv
  <2>2. Unfinished(runs, runs, updates) /\ runs \in Seq(Runs)
    BY <1>0 DEF Unfinished, TypeOK
  <2>3. Tables(row', runs, artifacts, updates, spawns)
    BY <1>2, <1>5, <2>1, <2>2, UnfinishedKeeps
  <2> QED BY <1>9, <2>3
<1>14. ASSUME NEW k \in Tokens
       PROVE  Carries(worker'[k], row', runs', artifacts', updates')
  <2>1. CASE k = c BY <1>8, <2>1 DEF Carries, Idle
  <2>2. CASE k # c BY <1>3, <1>8, <2>2, EmptyHanded DEF Live
  <2> QED BY <2>1, <2>2
<1>15. \A d \in request' : Asked(d) BY <1>9 DEF ResultsInv
<1> QED BY <1>11, <1>12, <1>13, <1>14, <1>15 DEF ResultsInv

\* A row is settled when its worker is gone, and the runs that it left are interrupted.
LEMMA SettleKeeps ==
    ASSUME SpawnAssumption, ResultsInv, Settle
    PROVE  ResultsInv'
<1>0. TypeOK /\ Held BY DEF ResultsInv
<1>1. row \in Rows /\ row.status \in Executing /\ row.token \in Nat /\ row.token # 0
  BY <1>0 DEF TypeOK, Settle, Held, Rows
<1>2. \A k \in Tokens : ~Live(k) BY <1>0 DEF Settle, Held, Live
<1>3. row' \in Rows BY <1>1, SettledType DEF Settle
<1>4. row'.token = 0 /\ ~row'.term /\ row'.status \notin Executing
  <2>1. row' = Settled(row, row) BY DEF Settle
  <2>2. CASE row.term
    BY <1>1, <2>1, <2>2 DEF Settled, Released, Unlock, Rows, NoToken, Executing
  <2>3. CASE ~row.term
    BY <1>1, <2>1, <2>3 DEF Settled, Released, Unlock, Rows, NoToken, Executing
  <2> QED BY <2>2, <2>3
<1>5. UNCHANGED <<artifacts, updates, spawns, worker, claims, faults, request>>
  BY DEF Settle
<1>6. runs \in Seq(Runs) /\ DOMAIN runs = 1 .. Len(runs) /\ Len(runs) \in Nat
  BY <1>0 DEF TypeOK
<1>7. \A i \in DOMAIN runs :
        LET over == [runs[i] EXCEPT !.status = "interrupted"]
        IN  over \in Runs /\ over.status = "interrupted" /\ over.plan = runs[i].plan
  <2> SUFFICES ASSUME NEW i \in DOMAIN runs
      PROVE LET over == [runs[i] EXCEPT !.status = "interrupted"]
            IN  over \in Runs /\ over.status = "interrupted" /\ over.plan = runs[i].plan
    OBVIOUS
  <2>1. runs[i] \in Runs BY <1>6
  <2> QED BY <2>1 DEF Runs, RunStatus
<1>8. /\ DOMAIN runs' = DOMAIN runs
      /\ \A i \in DOMAIN runs :
            runs'[i] = IF runs[i].status = "running"
                       THEN [runs[i] EXCEPT !.status = "interrupted"] ELSE runs[i]
  BY DEF Settle
<1>9. \A i \in DOMAIN runs : runs'[i] \in Runs BY <1>6, <1>7, <1>8
<1>10. runs' \in Seq(Runs) /\ Len(runs') = Len(runs)
  <2>1. runs' \in [1 .. Len(runs) -> Runs] BY <1>6, <1>9 DEF Settle
  <2> QED BY <1>6, <2>1
<1>11. Unfinished(runs, runs', updates) BY <1>7, <1>8 DEF Unfinished
<1>12. Tables(row, runs, artifacts, updates, spawns) BY DEF ResultsInv
<1>13. row.status # "terminated" BY <1>1 DEF Executing
<1>14. Tables(row', runs', artifacts, updates, spawns)
  BY ONLY <1>3, <1>10, <1>11, <1>12, <1>13, UnfinishedKeeps, Zenon
<1>15. TypeOK' BY <1>0, <1>3, <1>5, <1>10 DEF TypeOK
<1>16. Held'
  <2>1. row'.token \in 0 .. claims' BY <1>4, <1>5, <1>0 DEF TypeOK
  <2>2. \A k \in Tokens : Live(k)' => row'.token = k BY <1>2, <1>5 DEF Live
  <2> QED BY <1>0, <1>4, <1>5, <2>1, <2>2 DEF Held
<1>17. ASSUME NEW k \in Tokens PROVE Carries(worker[k], row', runs', artifacts, updates)
  BY <1>2, EmptyHanded DEF Live
<1> QED BY <1>5, <1>14, <1>15, <1>16, <1>17 DEF ResultsInv

\* A user reads the row.
LEMMA AskKeeps ==
    ASSUME SpawnAssumption, ResultsInv, UserReads
    PROVE  ResultsInv'
<1>0. TypeOK /\ Held BY DEF ResultsInv
<1>1. PICK d \in [act : UserActs, expect : {row.status}, step : {row.step},
                  arg : Steps \cup RetryCaps \cup {0}] :
            Decides(d, row) /\ request' = {d}
  BY DEF UserReads
<1>2. row.status \in Status /\ row.step \in Steps BY <1>0 DEF TypeOK, Rows
<1>3. d \in Decisions
  <2>1. Steps \cup RetryCaps \cup {0} \subseteq Nat
    BY NumStepsAssumption, RetryCapsAssumption DEF Steps
  <2>2. UserActs \subseteq UserActions BY DEF SpawnAssumption
  <2> HIDE DEF Steps
  <2> QED BY <1>2, <2>1, <2>2 DEF Decisions
<1>4. Asked(d) BY <1>1 DEF Asked, Decides
<1>5. UNCHANGED <<row, runs, artifacts, updates, spawns, worker, claims, faults>>
  BY DEF UserReads, tables
<1>6. TypeOK' BY <1>0, <1>1, <1>3, <1>5 DEF TypeOK
<1>7. Held' BY <1>0, <1>5 DEF Held, Live
<1> QED BY <1>1, <1>4, <1>5, <1>6, <1>7 DEF ResultsInv

\* What the user or the scheduler writes leaves a worker its task.
LEMMA OthersKeep ==
    ASSUME SpawnAssumption, ResultsInv,
           Requeue \/ DelayEnds \/ \E d \in request : UserWrites(d)
    PROVE  ResultsInv'
<1>0. TypeOK /\ Held /\ row \in Rows BY DEF ResultsInv, TypeOK
<1>1. CASE Requeue
  <2>1. row' \in Rows BY <1>0, <1>1, RequeuedType DEF Requeue
  <2>2. row.status = "failed" /\ row' = Requeued(row) BY <1>1 DEF Requeue
  <2>3. row'.token = row.token /\ row'.status = "queued" /\ row'.term = row.term
    BY <1>0, <2>2 DEF Requeued, Rows
  <2>4. ~row.term BY <1>0, <2>2 DEF Held, Executing
  <2>5. UNCHANGED <<runs, artifacts, updates, spawns, worker, claims, faults, request>>
    BY <1>1 DEF Requeue
  <2> QED BY <2>1, <2>2, <2>3, <2>4, <2>5, RowKeeps DEF Executing
<1>2. CASE DelayEnds
  <2>1. row' = [row EXCEPT !.due = "past"] BY <1>2 DEF DelayEnds
  <2>2. /\ row' \in Rows /\ row'.token = row.token /\ row'.status = row.status
        /\ row'.term = row.term /\ row'.step = row.step
    BY <1>0, <2>1 DEF Rows
  <2>3. row'.term => row'.status \in Executing BY <1>0, <2>2 DEF Held
  <2>4. UNCHANGED <<runs, artifacts, updates, spawns, worker, claims, faults, request>>
    BY <1>2 DEF DelayEnds
  <2> QED BY <2>2, <2>3, <2>4, RowKeeps
<1>3. ASSUME NEW d \in request, UserWrites(d) PROVE ResultsInv'
  <2>1. d \in Decisions /\ Asked(d) BY <1>0 DEF TypeOK, ResultsInv
  <2>2. UNCHANGED <<runs, artifacts, updates, spawns, worker, claims, faults>>
        /\ request' \subseteq request
    BY <1>3 DEF UserWrites
  <2>3. CASE StillAsRead(row, d)
    <3>1. row' = Decided(row, d) BY <1>3, <2>3 DEF UserWrites
    <3>2. /\ row' \in Rows /\ row'.token = row.token
          /\ row'.term => row'.status \in Executing \/ row.term
          /\ row.status \in Executing <=> row'.status \in Executing
          /\ row.status \in Executing => row'.step = row.step
          /\ row.status \in Terminal => row'.status = row.status
      BY <1>0, <2>1, <2>3, <3>1, UserFacts
    <3>3. row'.term => row'.status \in Executing BY <1>0, <3>2 DEF Held
    <3>4. row.status = "terminated" => row'.status = "terminated" BY <3>2 DEF Terminal
    <3> QED BY <2>2, <3>2, <3>3, <3>4, RowKeeps
  <2>4. CASE ~StillAsRead(row, d)
    <3>1. row' = row BY <1>3, <2>4 DEF UserWrites
    <3>2. row'.term => row'.status \in Executing BY <1>0, <3>1 DEF Held
    <3> QED BY <1>0, <2>2, <3>1, <3>2, RowKeeps
  <2> QED BY <2>3, <2>4
<1> QED BY <1>1, <1>2, <1>3

\* The invariant holds at the start.
LEMMA ResultsInit == SpawnAssumption /\ Init => ResultsInv
<1> SUFFICES ASSUME SpawnAssumption, Init PROVE ResultsInv
  OBVIOUS
<1>1. PICK cap \in RetryCaps : row = NewRow(cap) BY DEF Init
<1>2. row \in Rows BY <1>1, NewRowType
<1>3. row.token = 0 /\ row.status = "queued" /\ ~row.term
  BY <1>1 DEF NewRow, NoToken
<1>4. Idle("none") \in Workers /\ Idle("none").pc = "none"
  BY BlankRowType DEF Idle, Workers, SpawnAssumption
<1>5. /\ runs = << >> /\ artifacts = << >> /\ updates = 0 /\ spawns = {} /\ claims = 0
      /\ faults = 0 /\ request = {} /\ worker = [k \in Tokens |-> Idle("none")]
  BY DEF Init
<1>6. runs \in Seq(Runs) /\ DOMAIN runs = {} /\ Len(runs) = 0
      /\ artifacts \in Seq(Nat) /\ DOMAIN artifacts = {}
  BY <1>5
<1>7. TypeOK BY <1>2, <1>4, <1>5, <1>6 DEF TypeOK, SpawnAssumption
<1>8. \A k \in Tokens : worker[k].pc = "none" BY <1>4, <1>5
<1>9. Held BY <1>3, <1>5, <1>8 DEF Held, Live, Executing
<1>10. Tables(row, runs, artifacts, updates, spawns)
  <2>1. Complete(row, runs, spawns) BY <1>6 DEF Complete
  <2>2. InOrder(runs, artifacts) BY <1>6 DEF InOrder
  <2>3. UpdatesKept(updates, runs) BY <1>5, <1>6 DEF UpdatesKept
  <2>4. KeyedOnce(spawns) /\ spawns \in SUBSET Spawns /\ \A c \in spawns : c.run \in DOMAIN runs
    BY <1>5 DEF KeyedOnce
  <2> QED BY <1>2, <1>6, <2>1, <2>2, <2>3, <2>4 DEF Tables
<1>11. \A k \in Tokens : Carries(worker[k], row, runs, artifacts, updates)
  BY <1>8, EmptyHanded
<1> QED BY <1>5, <1>7, <1>9, <1>10, <1>11 DEF ResultsInv

\* Every step keeps it.
LEMMA ResultsStep == SpawnAssumption /\ ResultsInv /\ [Next]_vars => ResultsInv'
<1> SUFFICES ASSUME SpawnAssumption, ResultsInv, [Next]_vars PROVE ResultsInv'
  OBVIOUS
<1>1. CASE Claim BY <1>1, ClaimKeeps
<1>2. CASE Settle BY <1>2, SettleKeeps
<1>3. CASE Requeue \/ DelayEnds \/ \E d \in request : UserWrites(d) BY <1>3, OthersKeep
<1>4. CASE UserReads BY <1>4, AskKeeps
<1>5. ASSUME NEW k \in Tokens, Work(k) \/ WorkerDies(k) PROVE ResultsInv'
  <2>0. faults \in Nat /\ MaxFaults \in Nat /\ faults \in 0 .. MaxFaults
    BY DEF ResultsInv, TypeOK, SpawnAssumption
  <2>1. CASE Start(k) BY <2>1, StartKeeps
  <2>2. CASE StepRaises(k) \/ FailUndone(k) \/ WriteRaises(k)
    <3>1. faults' \in 0 .. MaxFaults
      BY <2>0, <2>2 DEF StepRaises, FailUndone, WriteRaises, Fails
    <3> QED BY <2>2, <3>1, FailsKeeps DEF StepRaises, FailUndone, WriteRaises, Fails
  <2>3. CASE \E plan \in Plans : StepReturns(k, plan) BY <2>3, ReturnKeeps
  <2>4. CASE RecordArtifacts(k) BY <2>4, RecordKeeps
  <2>5. CASE WriteColumns(k) BY <2>5, ColumnsKeep
  <2>6. CASE CloseRun(k) BY <2>6, CloseKeeps
  <2>7. CASE FinishRead(k) BY <2>7, ReadKeeps
  <2>8. CASE FinishWrite(k) BY <2>8, WriteKeeps
  <2>9. CASE WriteRollsBack(k)
    <3>1. Live(k) /\ worker[k].pc = "commit" /\ Spawning(k)
      BY <2>9 DEF WriteRollsBack, Live
    <3>2. Current(worker[k], runs)
      BY <3>1, LiveFacts DEF Carries, Spawning
    <3>3. faults' \in 0 .. MaxFaults BY <2>0, <2>9 DEF WriteRollsBack
    <3>4. worker' = Goes(k, "undone") /\ UNCHANGED <<tables, claims, request>>
      BY <2>9 DEF WriteRollsBack
    <3> QED BY <3>1, <3>2, <3>3, <3>4, PlaceKeeps
  <2>10. CASE ReadBack(k) \/ ReadBackFails(k) \/ WorkerDies(k)
    <3>1. /\ worker[k].pc # "none" /\ worker' = Goes(k, "gone")
          /\ UNCHANGED <<tables, claims, request>>
      BY <2>10 DEF ReadBack, ReadBackFails, WorkerDies, AfterLostRead
    <3>2. faults' \in 0 .. MaxFaults
      BY <2>0, <2>10 DEF ReadBack, ReadBackFails, WorkerDies
    <3> QED BY <3>1, <3>2, PlaceKeeps
  <2> QED BY <1>5, <2>1, <2>2, <2>3, <2>4, <2>5, <2>6, <2>7, <2>8, <2>9, <2>10 DEF Work
<1>6. CASE UNCHANGED vars
  BY <1>6 DEF vars, ResultsInv, TypeOK, Held, Live
<1> QED BY <1>1, <1>2, <1>3, <1>4, <1>5, <1>6 DEF Next

\* What the invariant says to the readers of the tables.
LEMMA ResultsSay ==
    SpawnAssumption /\ ResultsInv =>
        TypeOK /\ AllOrNothing /\ KeysOnce /\ UpdatesWithRun /\ NewestArtifact
<1> SUFFICES ASSUME SpawnAssumption, ResultsInv
             PROVE  TypeOK /\ AllOrNothing /\ KeysOnce /\ UpdatesWithRun /\ NewestArtifact
  OBVIOUS
<1>1. /\ Complete(row, runs, spawns) /\ InOrder(runs, artifacts)
      /\ UpdatesKept(updates, runs) /\ KeyedOnce(spawns)
  BY DEF ResultsInv, Tables
<1>2. AllOrNothing
  <2> SUFFICES ASSUME NEW i \in DOMAIN runs
      PROVE /\ SpawnedBy(i) # {} => Finished(i)
            /\ Finished(i) /\ runs[i].plan # << >> =>
                 \/ \A n \in DOMAIN runs[i].plan :
                       \E child \in spawns :
                           /\ child.key = runs[i].plan[n]
                           /\ child.key = NoKey => child.run = i /\ child.place = n
                 \/ SpawnedBy(i) = {} /\ row.status = "terminated" /\ i = Len(runs)
    BY DEF AllOrNothing
  <2>1. SpawnedBy(i) # {} <=> \E c \in spawns : c.run = i BY DEF SpawnedBy
  <2> QED BY <1>1, <2>1 DEF Complete, Finished
<1>3. KeysOnce
  <2>1. ASSUME NEW k \in Tokens, worker[k].pc = "commit", Spawning(k)
        PROVE  SpawnedBy(worker[k].run) = {}
    <3>1. Live(k) BY <2>1 DEF Live
    <3>2. Current(worker[k], runs) BY <2>1, <3>1, LiveFacts DEF Carries, Spawning
    <3>3. worker[k].run \in DOMAIN runs /\ runs[worker[k].run].status = "running"
      BY <3>1, <3>2, LiveFacts DEF Current
    <3> QED BY <1>1, <3>3 DEF Complete, SpawnedBy
  <2> QED BY <1>1, <2>1 DEF KeysOnce, KeyedOnce
<1>4. UpdatesWithRun BY <1>1 DEF UpdatesKept, UpdatesWithRun, Finished
<1>5. NewestArtifact
  <2> SUFFICES ASSUME NEW n \in Visible, \A m \in Visible : m <= n,
                      NEW i \in DOMAIN runs, Finished(i)
               PROVE  i <= artifacts[n]
    BY DEF NewestArtifact, Visible
  <2>1. PICK m \in DOMAIN artifacts : artifacts[m] = i
    BY <1>1 DEF InOrder, HasArtifact, Finished
  <2>2. m \in Visible /\ n \in DOMAIN artifacts BY <2>1 DEF Visible
  <2> QED BY <1>1, <2>1, <2>2 DEF InOrder
<1> QED BY <1>2, <1>3, <1>4, <1>5 DEF ResultsInv

\* A run that finished stays as it is, and children come with the move of their parent.
LEMMA ResultsMove == SpawnAssumption /\ ResultsInv /\ Next => MovesWithChildren
<1> SUFFICES ASSUME SpawnAssumption, ResultsInv, Next PROVE MovesWithChildren
  OBVIOUS
<1> DEFINE Kept == \A i \in DOMAIN runs : runs[i].status = "ok" => runs'[i] = runs[i]
           Moved == spawns' # spawns => \/ row'.step = row.step + 1
                                        \/ row'.status \in {"completed", "partially_completed"}
<1>0. runs \in Seq(Runs) BY DEF ResultsInv, TypeOK
<1>1. ASSUME NEW e, e \in DOMAIN runs => runs[e].status = "running",
             runs' = [runs EXCEPT ![e].status = "failed"]
      PROVE  Kept
  BY <1>0, <1>1
<1>2. ASSUME Claim \/ Requeue \/ DelayEnds \/ UserReads \/ \E d \in request : UserWrites(d)
      PROVE  Kept /\ Moved
  BY <1>2 DEF Claim, Requeue, DelayEnds, UserReads, UserWrites, tables
<1>3. ASSUME Settle PROVE Kept /\ Moved BY <1>3 DEF Settle
<1>4. ASSUME NEW k \in Tokens, Work(k) \/ WorkerDies(k) PROVE Kept /\ Moved
  <2> DEFINE e == worker[k].run
  <2>1. CASE Start(k)
    <3>1. spawns' = spawns BY <2>1 DEF Start
    <3>2. ASSUME runs' = Append(runs, [step |-> row.step, status |-> "running", plan |-> << >>])
          PROVE  Kept
      BY <1>0, <3>2
    <3> QED BY <2>1, <3>1, <3>2 DEF Start
  <2>2. CASE worker[k].pc \in {"run", "artifacts", "columns", "close", "undone"}
             /\ ~RecordArtifacts(k) /\ ~WriteColumns(k) /\ ~WorkerDies(k)
    <3>1. Live(k) BY <2>2 DEF Live
    <3>2. Current(worker[k], runs) BY <2>2, <3>1, LiveFacts DEF Carries
    <3>3. e \in DOMAIN runs /\ runs[e].status = "running"
      BY <3>1, <3>2, LiveFacts DEF Current
    <3>4. spawns' = spawns
      BY <1>4, <2>2 DEF Work, Start, StepRaises, StepReturns, Fails, CloseRun, WriteRaises,
         FinishRead, FinishWrite, WriteRollsBack, ReadBack, ReadBackFails, FailUndone
    <3>5. \/ \E st : runs' = [runs EXCEPT ![e].status = st]
          \/ \E plan : runs' = [runs EXCEPT ![e].plan = plan]
      BY <1>4, <2>2 DEF Work, Start, StepRaises, StepReturns, Fails, CloseRun, WriteRaises,
         FinishRead, FinishWrite, WriteRollsBack, ReadBack, ReadBackFails, FailUndone
    <3>6. Kept BY <1>0, <3>3, <3>5
    <3> QED BY <3>4, <3>6
  <2>3. CASE RecordArtifacts(k) \/ WriteColumns(k) \/ FinishRead(k) \/ WriteRollsBack(k)
             \/ ReadBack(k) \/ ReadBackFails(k) \/ WorkerDies(k)
    BY <2>3 DEF RecordArtifacts, WriteColumns, FinishRead, WriteRollsBack, ReadBack,
       ReadBackFails, WorkerDies, tables
  <2>4. CASE FinishWrite(k) /\ ~FinishMatches(row, worker[k].seen, k)
    BY <2>4 DEF FinishWrite
  <2>5. CASE FinishWrite(k) /\ FinishMatches(row, worker[k].seen, k)
    <3>1. Live(k) /\ worker[k].pc = "commit" BY <2>5 DEF FinishWrite, Live
    <3>2. /\ row \in Rows /\ worker[k] \in Workers
          /\ Carries(worker[k], row, runs, artifacts, updates)
      BY <3>1, LiveFacts
    <3>3. \/ runs' = runs
          \/ runs' = [runs EXCEPT ![e].status = "ok"] /\ runs[e].status = "running"
      BY <2>5 DEF FinishWrite
    <3>4. Kept BY <1>0, <3>3
    <3>5. /\ worker[k].seen \in Rows /\ worker[k].seen.step = row.step
          /\ worker[k].out \in [kind : {"ok", "notready", "failed", "fatal"}]
      BY <3>1, <3>2 DEF Workers, Carries
    <3>6. row' = Boundary(row, worker[k].seen, worker[k].out, FALSE)
      BY <2>5 DEF FinishWrite
    <3>7. worker[k].out.kind = "ok" /\ row'.status # "terminated" =>
             \/ row'.step = row.step + 1
             \/ row'.status \in {"completed", "partially_completed"}
      BY <2>5, <3>2, <3>5, <3>6, ReleaseFacts
    <3>8. spawns' # spawns => worker[k].out.kind = "ok" /\ row'.status # "terminated"
      BY <2>5 DEF FinishWrite, SpawnChange, Spawning
    <3> QED BY <3>4, <3>7, <3>8
  <2> QED
    BY <1>4, <2>1, <2>2, <2>3, <2>4, <2>5
       DEF Work, StepRaises, StepReturns, CloseRun, WriteRaises, FailUndone
<1>5. Kept /\ Moved BY <1>2, <1>3, <1>4 DEF Next
<1>6. \A i \in DOMAIN runs : SpawnedBy(i) # {} => runs[i].status = "ok"
  BY DEF ResultsInv, Tables, Complete, SpawnedBy
<1> QED BY <1>5, <1>6 DEF MovesWithChildren

\* What a result brings is written together and once: artifacts aside, the updates, the
\* end of the run, the children and the move of the parent are one write, which repeats
\* nothing after a rollback, a lost answer, a crash or a retry.
THEOREM ResultsCorrect ==
    ASSUME SpawnAssumption
    PROVE  Spec => ResultsAreAtomic
<1>1. Init => ResultsInv BY ResultsInit
<1>2. ResultsInv /\ [Next]_vars => ResultsInv' BY ResultsStep
<1>3. ResultsInv =>
        TypeOK /\ AllOrNothing /\ KeysOnce /\ UpdatesWithRun /\ NewestArtifact
  BY ResultsSay
<1>4. ResultsInv /\ Next => MovesWithChildren BY ResultsMove
<1>5. ResultsInv /\ [Next]_vars /\ TypeOK' /\ AllOrNothing' /\ KeysOnce' /\ UpdatesWithRun'
         => [TypeOK' /\ AllOrNothing' /\ KeysOnce' /\ UpdatesWithRun' /\ MovesWithChildren]_vars
  BY <1>4
<1> QED BY <1>1, <1>2, <1>3, <1>5, PTL DEF Spec, ResultsAreAtomic

---------------------------------------------------------------------------
(* The contract check.                                                      *)

\* What satisfies() decides is whether two declared types have a concrete one in common.
LEMMA SatisfiesMeets ==
    ASSUME Report!ContractsAssumption, NEW p \in Report!Type, NEW r \in Report!Type
    PROVE  /\ Report!Satisfies(p, r) <=> Report!Meaning(p) \cap Report!Meaning(r) # {}
           /\ p \in Report!Concrete /\ Report!Satisfies(p, r) => p \in Report!Meaning(r)
           /\ p \in Report!Concrete => Report!Meaning(p) = {p}
<1> USE DEF Report!Type
<1>1. /\ Report!Placeholder # Report!None /\ Report!Placeholder \notin Value
      /\ Report!None \notin Value /\ Value # {}
  BY DEF Report!ContractsAssumption, Report!Placeholder, Report!None
<1>2. \A c : c \in Report!Meaning(p) \cap Report!Meaning(r) => Report!Satisfies(p, r)
  BY <1>1 DEF Report!Meaning, Report!Satisfies, Report!Concrete
<1>3. ASSUME Report!Satisfies(p, r) PROVE \E c : c \in Report!Meaning(p) \cap Report!Meaning(r)
  <2>1. p.kind = r.kind /\ p.kind \in Kind BY <1>3 DEF Report!Satisfies
  <2>2. \A x \in Value \cup {Report!None} :
            /\ [kind |-> p.kind, param |-> x] \in Report!Concrete
            /\ [kind |-> p.kind, param |-> x].kind = p.kind
            /\ [kind |-> p.kind, param |-> x].param = x
    BY <1>1, <2>1 DEF Report!Concrete
  <2>3. CASE p.param = Report!None
    <3>1. r.param = Report!None BY <1>3, <2>3 DEF Report!Satisfies
    <3>2. [kind |-> p.kind, param |-> Report!None]
              \in Report!Meaning(p) \cap Report!Meaning(r)
      BY <1>1, <2>1, <2>2, <2>3, <3>1 DEF Report!Meaning
    <3> QED BY <3>2
  <2>4. CASE p.param \in Value
    <3>1. r.param \in {p.param, Report!Placeholder}
      BY <1>1, <1>3, <2>4 DEF Report!Satisfies
    <3>2. [kind |-> p.kind, param |-> p.param]
              \in Report!Meaning(p) \cap Report!Meaning(r)
      BY <1>1, <2>1, <2>2, <2>4, <3>1 DEF Report!Meaning
    <3> QED BY <3>2
  <2>5. CASE p.param = Report!Placeholder
    <3>1. r.param \in Value \cup {Report!Placeholder}
      BY <1>1, <1>3, <2>5 DEF Report!Satisfies
    <3>2. PICK v \in Value : r.param # Report!Placeholder => r.param = v BY <1>1, <3>1
    <3>3. [kind |-> p.kind, param |-> v] \in Report!Meaning(p) \cap Report!Meaning(r)
      BY <1>1, <2>1, <2>2, <2>5, <3>1, <3>2 DEF Report!Meaning
    <3> QED BY <3>3
  <2> QED BY <2>3, <2>4, <2>5
<1>4. ASSUME p \in Report!Concrete PROVE Report!Meaning(p) = {p}
  <2>1. p.param # Report!Placeholder BY <1>4 DEF Report!Concrete
  <2>2. \A c \in Report!Concrete : c.kind = p.kind /\ c.param = p.param => c = p
    BY DEF Report!Concrete
  <2>3. Report!Meaning(p) = {c \in Report!Concrete : c.kind = p.kind /\ c.param = p.param}
    BY <2>1 DEF Report!Meaning
  <2> QED BY <1>4, <2>2, <2>3
<1>5. ASSUME p \in Report!Concrete, Report!Satisfies(p, r) PROVE p \in Report!Meaning(r)
  BY <1>3, <1>4, <1>5
<1> QED BY <1>2, <1>3, <1>4, <1>5

\* Types that the input or a step before the k-th may provide.
Offers(k, t) ==
    \/ \E i \in 1 .. Len(inputs) : inputs[i] = t
    \/ \E j \in 1 .. Len(chain) :
           /\ j < k
           /\ \E i \in 1 .. Len(chain[j].provides) : chain[j].provides[i] = t

Offered(t) ==
    \/ \E i \in 1 .. Len(inputs) : inputs[i] = t
    \/ \E j \in 1 .. Len(chain) :
           \E i \in 1 .. Len(chain[j].provides) : chain[j].provides[i] = t

\* The k-th step requires type r, and nothing offered could meet it.
Open(k, r) ==
    /\ \E i \in 1 .. Len(chain[k].requires) : chain[k].requires[i] = r
    /\ \A t \in Report!Type :
           Offers(k, t) => Report!Meaning(t) \cap Report!Meaning(r) = {}

\* A step before the k-th says nothing, and the workflow lets such steps pass.
Lenient(k) ==
    lenient /\ \E j \in 1 .. Len(chain) : j < k /\ chain[j].state # "declared"

ReportInv ==
    /\ inputs \in Report!OneOrNone(Report!Type) /\ lenient \in BOOLEAN
    /\ chain \in Seq(Report!Contract) /\ Len(chain) <= ChainSteps
    /\ available \in Seq(Report!Type)
    /\ \A t : (\E i \in 1 .. Len(available) : available[i] = t)
                  <=> Offered(t)
    /\ silent \in 0 .. Len(chain)
    /\ silent > 0 <=> \E j \in 1 .. Len(chain) : chain[j].state # "declared"
    /\ \A e : e \in unverified <=>
           \E k \in 1 .. Len(chain), r \in Report!Type :
               e = <<k, r>> /\ Open(k, r) /\ Lenient(k)
    /\ \A e : e \in errors <=>
           \E k \in 1 .. Len(chain) :
               \/ \E r \in Report!Type : e = <<k, r>> /\ Open(k, r) /\ ~Lenient(k)
               \/ e = <<k, Report!Malformed>> /\ chain[k].state = "malformed"
    /\ result \in Seq(Report!Artifact) /\ recorded \in Seq(Report!Concrete)
    /\ result = <<>> => recorded = <<>> /\ ~refused
    /\ refused => recorded = <<>>
    /\ \A n \in 1 .. Len(recorded) :
           /\ Len(chain) > 0 /\ chain[Len(chain)].state = "declared"
           => \E i \in 1 .. Len(chain[Len(chain)].provides) :
                  Report!Satisfies(recorded[n], chain[Len(chain)].provides[i])

\* The steps checked so far are as they were; the next one is offered what is available.
LEMMA ChainGrows ==
    ASSUME ReportInv, NEW c \in Report!Contract, chain' = Append(chain, c), UNCHANGED <<inputs, lenient>>
    PROVE  /\ Len(chain') = Len(chain) + 1 /\ chain' \in Seq(Report!Contract)
           /\ chain'[Len(chain) + 1] = c
           /\ \A k \in 1 .. Len(chain) : chain'[k] = chain[k]
           /\ \A k \in 1 .. Len(chain), r \in Report!Type :
                  (Open(k, r)' <=> Open(k, r)) /\ (Lenient(k)' <=> Lenient(k))
           /\ \A t : Offers(Len(chain) + 1, t) <=> Offered(t)
<1>1. chain \in Seq(Report!Contract) /\ Len(chain) \in Nat BY DEF ReportInv
<1>2. /\ Len(chain') = Len(chain) + 1 /\ chain' \in Seq(Report!Contract)
      /\ chain'[Len(chain) + 1] = c
      /\ \A k \in 1 .. Len(chain) : chain'[k] = chain[k]
  BY <1>1
<1>3. \A t : \A k \in 1 .. Len(chain) : Offers(k, t)' <=> Offers(k, t)
  <2> SUFFICES ASSUME NEW t, NEW k \in 1 .. Len(chain) PROVE Offers(k, t)' <=> Offers(k, t)
    OBVIOUS
  <2>1. \A j \in 1 .. Len(chain') : j < k <=> j \in 1 .. Len(chain) /\ j < k
    BY <1>1, <1>2
  <2>2. \A j \in 1 .. Len(chain) : chain'[j] = chain[j] /\ j \in 1 .. Len(chain')
    BY <1>1, <1>2
  <2> QED BY <2>1, <2>2 DEF Offers
<1>4. \A k \in 1 .. Len(chain), r \in Report!Type : Open(k, r)' <=> Open(k, r)
  BY <1>2, <1>3 DEF Open
<1>5. \A k \in 1 .. Len(chain) : Lenient(k)' <=> Lenient(k)
  BY <1>1, <1>2 DEF Lenient
<1>6. \A t : Offers(Len(chain) + 1, t) <=> Offered(t)
  BY <1>1 DEF Offers, Offered
<1> QED BY <1>2, <1>4, <1>5, <1>6

\* What a contract is.
LEMMA ContractIs ==
    ASSUME NEW c \in Report!Contract
    PROVE  /\ c.requires \in Seq(Report!Type) /\ c.provides \in Seq(Report!Type)
           /\ c.state \in {"declared", "undeclared", "unknown", "malformed"}
           /\ c.state # "declared" => c.requires = <<>> /\ c.provides = <<>>
<1>1. \A s \in Report!OneOrNone(Report!Type) : s \in Seq(Report!Type)
  <2>1. <<>> \in Seq(Report!Type) /\ \A t \in Report!Type : <<t>> \in Seq(Report!Type)
    OBVIOUS
  <2> QED BY <2>1 DEF Report!OneOrNone
<1>2. CASE c \in Report!Declared BY <1>1, <1>2 DEF Report!Declared
<1>3. CASE c \notin Report!Declared
  <2>1. /\ c.requires = <<>> /\ c.provides = <<>>
        /\ c.state \in {"undeclared", "unknown", "malformed"}
    BY <1>3 DEF Report!Contract
  <2>2. <<>> \in Seq(Report!Type) OBVIOUS
  <2> QED BY <2>1, <2>2
<1> QED BY <1>2, <1>3

\* One step more is checked.
LEMMA CheckKeeps ==
    ASSUME Report!ContractsAssumption, ReportInv, NEW c \in Report!Contract, Report!Check(c)
    PROVE  ReportInv'
<1>0. PICK n \in Nat : n = Len(chain) BY DEF ReportInv
<1> USE <1>0
<1>1. /\ chain' = Append(chain, c) /\ n < ChainSteps /\ result = <<>>
      /\ UNCHANGED <<inputs, lenient, result, recorded, refused>>
  BY DEF Report!Check
<1>2. /\ Len(chain') = n + 1 /\ n \in Nat /\ chain' \in Seq(Report!Contract)
      /\ chain'[n + 1] = c
      /\ \A k \in 1 .. n : chain'[k] = chain[k]
      /\ \A k \in 1 .. n, r \in Report!Type :
             (Open(k, r)' <=> Open(k, r)) /\ (Lenient(k)' <=> Lenient(k))
      /\ \A t : Offers(n + 1, t) <=> Offered(t)
  <2> QED BY <1>1, ChainGrows
<1>3. n + 1 <= ChainSteps BY <1>1, <1>2 DEF Report!ContractsAssumption
<1>4. /\ c.requires \in Seq(Report!Type) /\ c.provides \in Seq(Report!Type)
      /\ c.state \in {"declared", "undeclared", "unknown", "malformed"}
      /\ c.state # "declared" => c.requires = <<>> /\ c.provides = <<>>
  BY ContractIs
<1>5. available \in Seq(Report!Type) BY DEF ReportInv
<1>6. available' \in Seq(Report!Type)
      /\ \A t : (\E i \in 1 .. Len(available') : available'[i] = t) <=> Offered(t)'
  <2>1. available' = available \o c.provides
    <3>1. CASE c.state = "declared" BY <3>1 DEF Report!Check
    <3>2. CASE c.state # "declared"
      <4>1. available' = available BY <3>2 DEF Report!Check
      <4> QED BY <1>4, <1>5, <3>2, <4>1
    <3> QED BY <3>1, <3>2
  <2>2. \A t : Offered(t)' <=>
            Offered(t) \/ \E i \in 1 .. Len(c.provides) : c.provides[i] = t
    <3> SUFFICES ASSUME NEW t
                 PROVE  Offered(t)' <=>
                            Offered(t) \/ \E i \in 1 .. Len(c.provides) : c.provides[i] = t
      OBVIOUS
    <3>1. 1 .. (n + 1) = 1 .. n \cup {n + 1} BY <1>2
    <3> QED BY <1>1, <1>2, <3>1 DEF Offered
  <2>3. \A t : (\E i \in 1 .. Len(available') : available'[i] = t) <=>
            \/ \E i \in 1 .. Len(available) : available[i] = t
            \/ \E i \in 1 .. Len(c.provides) : c.provides[i] = t
    <3> SUFFICES ASSUME NEW t
                 PROVE  (\E i \in 1 .. Len(available') : available'[i] = t) <=>
                            \/ \E i \in 1 .. Len(available) : available[i] = t
                            \/ \E i \in 1 .. Len(c.provides) : c.provides[i] = t
      OBVIOUS
    <3>1. /\ Len(available') = Len(available) + Len(c.provides)
          /\ Len(available) \in Nat /\ Len(c.provides) \in Nat
          /\ \A i \in 1 .. Len(available) : available'[i] = available[i]
          /\ \A i \in 1 .. Len(c.provides) : available'[Len(available) + i] = c.provides[i]
      BY <1>4, <1>5, <2>1
    <3>2. \A i \in 1 .. Len(available') :
              i \in 1 .. Len(available) \/ i - Len(available) \in 1 .. Len(c.provides)
      BY <3>1
    <3>3. \A i \in 1 .. Len(available') :
              i - Len(available) \in 1 .. Len(c.provides) =>
                  available'[i] = c.provides[i - Len(available)]
      <4> SUFFICES ASSUME NEW i \in 1 .. Len(available'),
                          i - Len(available) \in 1 .. Len(c.provides)
                   PROVE  available'[i] = c.provides[i - Len(available)]
        OBVIOUS
      <4>1. Len(available) + (i - Len(available)) = i BY <3>1
      <4> QED BY <3>1, <4>1
    <3>4. \A i \in 1 .. Len(available) : i \in 1 .. Len(available') BY <3>1
    <3>5. \A i \in 1 .. Len(c.provides) : Len(available) + i \in 1 .. Len(available') BY <3>1
    <3> QED BY <3>1, <3>2, <3>3, <3>4, <3>5
  <2>4. available' \in Seq(Report!Type) BY <1>4, <1>5, <2>1
  <2> QED BY <2>2, <2>3, <2>4 DEF ReportInv
<1>7. /\ silent' \in 0 .. Len(chain')
      /\ silent' > 0 <=> \E j \in 1 .. Len(chain') : chain'[j].state # "declared"
  <2>1. silent \in 0 .. n BY DEF ReportInv
  <2>2. silent > 0 <=> \E j \in 1 .. n : chain[j].state # "declared" BY DEF ReportInv
  <2>3. silent' = IF c.state = "declared" THEN silent ELSE silent + 1 BY DEF Report!Check
  <2>4. (\E j \in 1 .. Len(chain') : chain'[j].state # "declared") <=>
            (\E j \in 1 .. n : chain[j].state # "declared") \/ c.state # "declared"
    <3>1. 1 .. (n + 1) = 1 .. n \cup {n + 1} BY <1>2
    <3> QED BY <1>2, <3>1
  <2> QED BY <1>2, <2>1, <2>2, <2>3, <2>4
<1>8. Report!Excused <=> Lenient(n + 1)'
  <2>1. silent \in 0 .. n /\ lenient' = lenient BY <1>1 DEF ReportInv
  <2>2. (\E j \in 1 .. Len(chain') : j < n + 1 /\ chain'[j].state # "declared") <=>
            silent > 0
    <3>1. \A j \in 1 .. Len(chain') : j < n + 1 <=> j \in 1 .. n BY <1>2
    <3>2. \A j \in 1 .. n : j \in 1 .. Len(chain') /\ chain'[j] = chain[j] BY <1>2
    <3>3. silent > 0 <=> \E j \in 1 .. n : chain[j].state # "declared" BY DEF ReportInv
    <3> QED BY <3>1, <3>2, <3>3
  <2> QED BY <2>1, <2>2 DEF Report!Excused, Lenient
<1>9. \A r \in Report!Type : r \in Report!Missing(c) <=> Open(n + 1, r)'
  <2> SUFFICES ASSUME NEW r \in Report!Type
               PROVE  r \in Report!Missing(c) <=> Open(n + 1, r)'
    OBVIOUS
  <2>1. Open(n + 1, r)' <=>
            /\ \E i \in 1 .. Len(c.requires) : c.requires[i] = r
            /\ \A t \in Report!Type :
                   Offers(n + 1, t)' => Report!Meaning(t) \cap Report!Meaning(r) = {}
    BY <1>2 DEF Open
  <2>2. \A t : Offers(n + 1, t)' <=> Offered(t)
    <3> SUFFICES ASSUME NEW t PROVE Offers(n + 1, t)' <=> Offered(t) OBVIOUS
    <3>1. \A j \in 1 .. Len(chain') : j < n + 1 <=> j \in 1 .. n BY <1>2
    <3> QED BY <1>1, <1>2, <3>1 DEF Offers, Offered
  <2>3. (\A t \in Report!Type :
             Offered(t) => Report!Meaning(t) \cap Report!Meaning(r) = {}) <=>
        \A i \in 1 .. Len(available) : ~Report!Satisfies(available[i], r)
    <3>1. \A i \in 1 .. Len(available) : available[i] \in Report!Type BY <1>5
    <3>2. \A t : (\E i \in 1 .. Len(available) : available[i] = t) <=> Offered(t)
      BY DEF ReportInv
    <3> QED BY <3>1, <3>2, SatisfiesMeets
  <2>4. r \in Report!Missing(c) <=>
            /\ \E i \in 1 .. Len(c.requires) : c.requires[i] = r
            /\ \A i \in 1 .. Len(available) : ~Report!Satisfies(available[i], r)
    BY <1>4 DEF Report!Missing, Report!ToSet
  <2> QED BY <2>1, <2>2, <2>3, <2>4
<1>10. \A e : e \in Report!At(Len(chain'), Report!Missing(c)) <=>
           \E r \in Report!Type : e = <<n + 1, r>> /\ Open(n + 1, r)'
  <2>1. Report!Missing(c) \subseteq Report!Type BY <1>4 DEF Report!Missing, Report!ToSet
  <2> QED BY <1>2, <1>9, <2>1 DEF Report!At
<1>11. c.state # "declared" => \A r \in Report!Type : ~Open(n + 1, r)'
  BY <1>2, <1>4 DEF Open
<1>12. \A e : e \in unverified' <=>
           e \in unverified \/ \E r \in Report!Type :
                                   e = <<n + 1, r>> /\ Open(n + 1, r)' /\ Lenient(n + 1)'
  <2>1. CASE c.state = "declared"
    BY <1>8, <1>10, <2>1 DEF Report!Check
  <2>2. CASE c.state # "declared" BY <1>11, <2>2 DEF Report!Check
  <2> QED BY <2>1, <2>2
<1>13. \A e : e \in errors' <=>
           \/ e \in errors
           \/ \E r \in Report!Type :
                  e = <<n + 1, r>> /\ Open(n + 1, r)' /\ ~Lenient(n + 1)'
           \/ e = <<n + 1, Report!Malformed>> /\ c.state = "malformed"
  <2>1. CASE c.state = "declared"
    BY <1>8, <1>10, <2>1 DEF Report!Check
  <2>2. CASE c.state # "declared" BY <1>2, <1>11, <2>2 DEF Report!Check
  <2> QED BY <2>1, <2>2
<1>14. \A e : e \in unverified' <=>
           \E k \in 1 .. Len(chain'), r \in Report!Type :
               e = <<k, r>> /\ Open(k, r)' /\ Lenient(k)'
  <2>1. 1 .. Len(chain') = 1 .. n \cup {n + 1} BY <1>2
  <2>2. \A e : e \in unverified <=>
            \E k \in 1 .. n, r \in Report!Type : e = <<k, r>> /\ Open(k, r)' /\ Lenient(k)'
    BY <1>2 DEF ReportInv
  <2> QED BY <1>12, <2>1, <2>2
<1>15. \A e : e \in errors' <=>
           \E k \in 1 .. Len(chain') :
               \/ \E r \in Report!Type : e = <<k, r>> /\ Open(k, r)' /\ ~Lenient(k)'
               \/ e = <<k, Report!Malformed>> /\ chain'[k].state = "malformed"
  <2>1. 1 .. Len(chain') = 1 .. n \cup {n + 1} BY <1>2
  <2>2. \A e : e \in errors <=>
            \E k \in 1 .. n :
               \/ \E r \in Report!Type : e = <<k, r>> /\ Open(k, r)' /\ ~Lenient(k)'
               \/ e = <<k, Report!Malformed>> /\ chain'[k].state = "malformed"
    <3>1. \A k \in 1 .. n :
              /\ chain'[k].state = chain[k].state
              /\ \A r \in Report!Type :
                     (Open(k, r)' <=> Open(k, r)) /\ (Lenient(k)' <=> Lenient(k))
      BY <1>2
    <3>2. \A e : e \in errors <=>
              \E k \in 1 .. n :
                  \/ \E r \in Report!Type : e = <<k, r>> /\ Open(k, r) /\ ~Lenient(k)
                  \/ e = <<k, Report!Malformed>> /\ chain[k].state = "malformed"
      BY DEF ReportInv
    <3> QED BY <3>1, <3>2
  <2>3. chain'[n + 1].state = c.state BY <1>2
  <2> QED BY <1>13, <2>1, <2>2, <2>3
<1>16. recorded' = <<>> /\ Len(recorded') = 0 BY <1>1 DEF ReportInv
<1> QED BY <1>1, <1>2, <1>3, <1>6, <1>7, <1>14, <1>15, <1>16 DEF ReportInv

\* One artifact more of the result is looked at.
LEMMA PrepareKeeps ==
    ASSUME Report!ContractsAssumption, ReportInv, NEW a \in Report!Artifact, Report!Prepare(a)
    PROVE  ReportInv'
<1>1. /\ result' = Append(result, a) /\ ~refused /\ Report!Runs
      /\ UNCHANGED <<inputs, lenient, chain, available, silent, errors, unverified>>
  BY DEF Report!Prepare
<1>2. result' \in Seq(Report!Artifact) /\ result' # <<>> BY SMTT(30), <1>1 DEF ReportInv
<1>3. recorded \in Seq(Report!Concrete) BY DEF ReportInv
<1>4. \A k \in 1 .. Len(chain), r \in Report!Type :
          (Open(k, r)' <=> Open(k, r)) /\ (Lenient(k)' <=> Lenient(k))
  BY <1>1 DEF Open, Offers, Lenient
<1>5. \A t : Offered(t)' <=> Offered(t) BY <1>1 DEF Offered
<1>6. /\ \A e : e \in unverified' <=>
             \E k \in 1 .. Len(chain'), r \in Report!Type :
                 e = <<k, r>> /\ Open(k, r)' /\ Lenient(k)'
      /\ \A e : e \in errors' <=>
             \E k \in 1 .. Len(chain') :
                 \/ \E r \in Report!Type : e = <<k, r>> /\ Open(k, r)' /\ ~Lenient(k)'
                 \/ e = <<k, Report!Malformed>> /\ chain'[k].state = "malformed"
  BY <1>1, <1>4 DEF ReportInv
<1>7. CASE Report!MayRecord(a.type) /\ Report!Readable(a)
  <2>1. recorded' = Append(recorded, a.type) /\ UNCHANGED refused
    BY <1>7 DEF Report!Prepare
  <2>2. a.type \in Report!Concrete BY <1>7 DEF Report!MayRecord
  <2>3. recorded' \in Seq(Report!Concrete) BY <1>3, <2>1, <2>2
  <2>4. \A n \in 1 .. Len(recorded') :
            Len(chain) > 0 /\ chain[Len(chain)].state = "declared"
              => \E i \in 1 .. Len(chain[Len(chain)].provides) :
                     Report!Satisfies(recorded'[n], chain[Len(chain)].provides[i])
    <3> SUFFICES ASSUME NEW n \in 1 .. Len(recorded'), Len(chain) > 0,
                        chain[Len(chain)].state = "declared"
                 PROVE  \E i \in 1 .. Len(chain[Len(chain)].provides) :
                            Report!Satisfies(recorded'[n], chain[Len(chain)].provides[i])
      OBVIOUS
    <3>1. CASE n = Len(recorded) + 1
      <4>1. recorded'[n] = a.type BY <1>3, <2>1, <2>2, <3>1
      <4> QED BY <1>7, <4>1 DEF Report!MayRecord, Report!Undeclared, Report!Provides
    <3>2. CASE n # Len(recorded) + 1
      <4>1. n \in 1 .. Len(recorded) /\ recorded'[n] = recorded[n]
        BY <1>3, <2>1, <2>2, <3>2
      <4> QED BY <4>1 DEF ReportInv
    <3> QED BY <3>1, <3>2
  <2> QED BY <1>1, <1>2, <1>5, <1>6, <2>1, <2>3, <2>4 DEF ReportInv
<1>8. CASE ~(Report!MayRecord(a.type) /\ Report!Readable(a))
  <2>1. recorded' = <<>> /\ refused' = TRUE BY <1>8 DEF Report!Prepare
  <2>2. recorded' \in Seq(Report!Concrete) /\ Len(recorded') = 0 BY <2>1
  <2> QED BY <1>1, <1>2, <1>5, <1>6, <2>1, <2>2 DEF ReportInv
<1> QED BY <1>7, <1>8

\* What the check reports is what the reference calls unmet.
LEMMA ReportPromise ==
    Report!ContractsAssumption /\ ReportInv =>
        Report!TypeOK /\ Report!ReportIsExact /\ Report!RecordedIsDeclared
<1> SUFFICES ASSUME Report!ContractsAssumption, ReportInv
             PROVE  Report!TypeOK /\ Report!ReportIsExact /\ Report!RecordedIsDeclared
  OBVIOUS
<1>1. chain \in Seq(Report!Contract) /\ Len(chain) \in Nat BY DEF ReportInv
<1>2. ASSUME NEW k \in 1 .. Len(chain)
      PROVE  /\ chain[k].requires \in Seq(Report!Type) /\ chain[k].provides \in Seq(Report!Type)
  <2>1. chain[k] \in Report!Contract BY <1>1
  <2> QED BY <2>1, ContractIs
<1>3. Report!TypeOK
  <2>1. Len(chain) <= ChainSteps /\ silent \in 0 .. Len(chain) BY DEF ReportInv
  <2>2. silent \in 0 .. ChainSteps BY <1>1, <2>1 DEF Report!ContractsAssumption
  <2> QED BY <2>2 DEF ReportInv, Report!TypeOK
<1>4. inputs \in Seq(Report!Type)
  <2>1. <<>> \in Seq(Report!Type) /\ \A t \in Report!Type : <<t>> \in Seq(Report!Type)
    OBVIOUS
  <2> QED BY <2>1 DEF ReportInv, Report!OneOrNone
<1>5. ASSUME NEW k \in 1 .. Len(chain) PROVE Report!SilentBefore(k) /\ lenient <=> Lenient(k)
  <2>1. 1 .. (k - 1) = {j \in 1 .. Len(chain) : j < k} BY <1>1
  <2> QED BY <2>1 DEF Report!SilentBefore, Lenient
<1>6. ASSUME NEW k \in 1 .. Len(chain), NEW t PROVE t \in Report!Before(k) <=> Offers(k, t)
  <2>1. 1 .. (k - 1) = {j \in 1 .. Len(chain) : j < k} BY <1>1
  <2>2. t \in Report!ToSet(inputs) <=> \E i \in 1 .. Len(inputs) : inputs[i] = t
    BY <1>4 DEF Report!ToSet
  <2>3. \A j \in 1 .. Len(chain) :
            t \in Report!ToSet(chain[j].provides) <=>
                \E i \in 1 .. Len(chain[j].provides) : chain[j].provides[i] = t
    <3>1. \A j \in 1 .. Len(chain) :
              DOMAIN chain[j].provides = 1 .. Len(chain[j].provides)
      BY <1>2
    <3> QED BY <3>1 DEF Report!ToSet
  <2> QED BY <2>1, <2>2, <2>3 DEF Report!Before, Offers
<1>7. ASSUME NEW k \in 1 .. Len(chain), NEW r
      PROVE  r \in Report!ToSet(chain[k].requires) /\ Report!Unmet(k, r)
                 <=> r \in Report!Type /\ Open(k, r)
  <2>1. r \in Report!ToSet(chain[k].requires) <=>
            \E i \in 1 .. Len(chain[k].requires) : chain[k].requires[i] = r
    <3>1. DOMAIN chain[k].requires = 1 .. Len(chain[k].requires) BY <1>2
    <3> QED BY <3>1 DEF Report!ToSet
  <2>2. r \in Report!ToSet(chain[k].requires) => r \in Report!Type BY <1>2, <2>1
  <2>3. \A t : Offers(k, t) => t \in Report!Type
    <3> SUFFICES ASSUME NEW t, Offers(k, t) PROVE t \in Report!Type OBVIOUS
    <3> QED BY <1>2, <1>4 DEF Offers
  <2>4. Report!Unmet(k, r) <=>
            \A t \in Report!Type :
                Offers(k, t) => Report!Meaning(t) \cap Report!Meaning(r) = {}
    BY <1>6, <2>3 DEF Report!Unmet
  <2> QED BY <2>1, <2>2, <2>4 DEF Open
<1>8. Report!ReportIsExact
  <2> DEFINE unmet == UNION {Report!At(k, {r \in Report!ToSet(chain[k].requires) :
                                               Report!Unmet(k, r)}) : k \in 1 .. Len(chain)}
             gaps == {u \in unmet : lenient /\ Report!SilentBefore(u[1])}
             bad == {<<k, Report!Malformed>> : k \in {j \in 1 .. Len(chain) :
                                                          chain[j].state = "malformed"}}
  <2>1. \A e : e \in unmet <=>
            \E k \in 1 .. Len(chain), r \in Report!Type : e = <<k, r>> /\ Open(k, r)
    BY <1>7 DEF Report!At
  <2> HIDE DEF unmet
  <2>2. \A e : e \in gaps <=>
            \E k \in 1 .. Len(chain), r \in Report!Type :
                e = <<k, r>> /\ Open(k, r) /\ Lenient(k)
    BY <1>5, <2>1
  <2>3. \A e : e \in unmet \ gaps <=>
            \E k \in 1 .. Len(chain), r \in Report!Type :
                e = <<k, r>> /\ Open(k, r) /\ ~Lenient(k)
    BY <1>5, <2>1
  <2> HIDE DEF gaps
  <2>4. unverified = gaps BY <2>2 DEF ReportInv
  <2>5. errors = (unmet \ gaps) \cup bad
    <3> SUFFICES ASSUME NEW e PROVE e \in errors <=> e \in (unmet \ gaps) \cup bad OBVIOUS
    <3> QED BY <2>3 DEF ReportInv
  <2> QED BY <2>4, <2>5 DEF Report!ReportIsExact, unmet, gaps
<1>9. Report!RecordedIsDeclared
  <2> SUFFICES ASSUME Report!Runs, ~Report!Undeclared, NEW i \in 1 .. Len(recorded)
               PROVE  \E j \in 1 .. Len(Report!Provides) :
                          /\ recorded[i] \in Report!Meaning(Report!Provides[j])
                          /\ \A r \in Report!Type :
                                 Report!Provides[j] \in Report!Concrete
                                   /\ Report!Satisfies(Report!Provides[j], r)
                                     => recorded[i] \in Report!Meaning(r)
    BY DEF Report!RecordedIsDeclared
  <2>1. Len(chain) > 0 /\ chain[Len(chain)].state = "declared"
    BY DEF Report!Runs, Report!Undeclared
  <2>2. PICK j \in 1 .. Len(Report!Provides) :
            Report!Satisfies(recorded[i], Report!Provides[j])
    BY <2>1 DEF ReportInv, Report!Provides
  <2>3. Len(chain) \in 1 .. Len(chain) BY <1>1, <2>1
  <2>4. Report!Provides[j] \in Report!Type BY <1>2, <2>2, <2>3 DEF Report!Provides
  <2>5. recorded[i] \in Report!Concrete /\ recorded[i] \in Report!Type
    BY DEF ReportInv, Report!Concrete
  <2>6. recorded[i] \in Report!Meaning(Report!Provides[j])
    BY <2>2, <2>4, <2>5, SatisfiesMeets
  <2>7. ASSUME NEW r \in Report!Type, Report!Provides[j] \in Report!Concrete,
               Report!Satisfies(Report!Provides[j], r)
        PROVE  recorded[i] \in Report!Meaning(r)
    <3>1. Report!Meaning(Report!Provides[j]) = {Report!Provides[j]}
          /\ Report!Provides[j] \in Report!Meaning(r)
      BY <2>4, <2>7, SatisfiesMeets
    <3> QED BY <2>6, <3>1
  <2> QED BY <2>6, <2>7
<1> QED BY <1>3, <1>8, <1>9

\* Nothing has been checked yet.
LEMMA ReportInit ==
    ASSUME Report!ContractsAssumption, Report!Init
    PROVE  ReportInv
<1>1. inputs \in Seq(Report!Type)
  <2>1. <<>> \in Seq(Report!Type) /\ \A t \in Report!Type : <<t>> \in Seq(Report!Type)
    OBVIOUS
  <2> QED BY <2>1 DEF Report!Init, Report!OneOrNone
<1>2. /\ inputs \in Report!OneOrNone(Report!Type) /\ lenient \in BOOLEAN
      /\ chain = <<>> /\ available = inputs /\ silent = 0 /\ errors = {} /\ unverified = {}
      /\ result = <<>> /\ recorded = <<>> /\ refused = FALSE
  BY DEF Report!Init
<1>3. /\ Len(chain) = 0 /\ Len(recorded) = 0 /\ chain \in Seq(Report!Contract)
      /\ result \in Seq(Report!Artifact) /\ recorded \in Seq(Report!Concrete)
  BY <1>2
<1>4. 0 <= ChainSteps BY DEF Report!ContractsAssumption
<1>5. \A t : (\E i \in 1 .. Len(available) : available[i] = t) <=> Offered(t)
  <2>1. 1 .. Len(chain) = {} BY <1>3
  <2> QED BY <1>2, <2>1 DEF Offered
<1> QED BY <1>1, <1>2, <1>3, <1>4, <1>5 DEF ReportInv

\* A call, and what changes between calls, keeps what the report says.
LEMMA ReportStep ==
    Report!ContractsAssumption /\ ReportInv /\ [Report!Next]_Report!vars => ReportInv'
<1> SUFFICES ASSUME Report!ContractsAssumption
             PROVE  ReportInv /\ [Report!Next]_Report!vars => ReportInv'
  OBVIOUS
<1>2. ReportInv /\ Report!Next => ReportInv' BY CheckKeeps, PrepareKeeps DEF Report!Next
<1>3. ReportInv /\ UNCHANGED Report!vars => ReportInv'
  <2> SUFFICES ASSUME ReportInv, UNCHANGED Report!vars PROVE ReportInv' OBVIOUS
  <2>1. UNCHANGED <<inputs, lenient, chain, available, silent, errors, unverified, result,
                    recorded, refused>>
    BY DEF Report!vars
  <2>2. \A t : Offered(t)' <=> Offered(t) BY <2>1 DEF Offered
  <2>3. \A k, r : (Open(k, r)' <=> Open(k, r)) /\ (Lenient(k)' <=> Lenient(k))
    BY <2>1 DEF Open, Offers, Lenient
  <2> QED BY <2>1, <2>2, <2>3 DEF ReportInv
<1> QED BY <1>2, <1>3

\* For any kinds, values and length of a workflow: a requirement is reported exactly when
\* nothing that may be there could meet it, and a declared step records what it declares.
THEOREM ReportCorrect ==
    ASSUME Report!ContractsAssumption
    PROVE  Report!Spec => [](Report!TypeOK /\ Report!ReportIsExact /\ Report!RecordedIsDeclared)
<1>1. Report!Init => ReportInv BY ReportInit
<1>2. ReportInv /\ [Report!Next]_Report!vars => ReportInv' BY ReportStep
<1> QED BY <1>1, <1>2, ReportPromise, PTL DEF Report!Spec

---------------------------------------------------------------------------
(* The numbers of tasks.                                                    *)

\* A set of natural numbers has a least one.
LEMMA LeastNumber ==
    ASSUME NEW T \in SUBSET Nat, T # {}
    PROVE  \E x \in T : \A y \in T : x <= y
<1> DEFINE R == OpToRel(<, Nat)
<1>1. IsWellFoundedOn(R, Nat) BY NatLessThanWellFounded
<1>2. R = {pair \in Nat \X Nat : pair[1] < pair[2]} BY DEF OpToRel
<1>3. \A x, y \in Nat : x < y => <<x, y>> \in R BY <1>2
<1> HIDE DEF R
<1>4. PICK x \in T : \A y \in T : <<y, x>> \notin R BY <1>1, WFMin
<1>5. ASSUME NEW y \in T PROVE x <= y
  <2>1. ~(y < x) BY <1>3, <1>4
  <2> QED BY <2>1
<1> QED BY <1>5

\* MaxOf of some numbers up to n is the greatest of them, or 0.
LEMMA MaxOfIs ==
    ASSUME NEW n \in Nat, NEW S \in SUBSET (0 .. n)
    PROVE  /\ Intake!MaxOf(S) \in 0 .. n /\ \A y \in S : y <= Intake!MaxOf(S)
           /\ Intake!MaxOf(S) \in S \cup {0}
<1>1. CASE S = {} BY <1>1 DEF Intake!MaxOf
<1>2. CASE S # {}
  <2> DEFINE T == {n - x : x \in S}
  <2>1. T \in SUBSET Nat
    <3> SUFFICES ASSUME NEW x \in S PROVE n - x \in Nat OBVIOUS
    <3>1. x \in 0 .. n OBVIOUS
    <3> QED BY <3>1
  <2> HIDE DEF T
  <2>2. T # {} BY <1>2 DEF T
  <2>3. PICK t \in T : \A u \in T : t <= u BY <2>1, <2>2, LeastNumber
  <2>4. PICK x \in S : t = n - x BY <2>3 DEF T
  <2>5. \A y \in S : x >= y
    <3> SUFFICES ASSUME NEW y \in S PROVE x >= y OBVIOUS
    <3>1. n - x <= n - y BY <2>3, <2>4 DEF T
    <3>2. x \in 0 .. n /\ y \in 0 .. n OBVIOUS
    <3> QED BY <3>1, <3>2
  <2>6. Intake!MaxOf(S) = CHOOSE z \in S : \A y \in S : z >= y
    BY <1>2 DEF Intake!MaxOf, Intake!Max
  <2>7. Intake!MaxOf(S) \in S /\ \A y \in S : Intake!MaxOf(S) >= y BY <2>5, <2>6
  <2>8. Intake!MaxOf(S) \in 0 .. n /\ S \subseteq 0 .. n BY <2>7
  <2> QED BY <2>7, <2>8
<1> QED BY <1>1, <1>2

\* Where a caller may be.
Phases == {Intake!Free, "counting", "numbering", "looking", "creating", "done"}

\* No task has a number beyond some n.
Bounded == \E n \in Nat : \A t \in tasks : t.id <= n

\* The first row of the sequence has the number of a task, or what an opener put there; no
\* row goes away; and what an opener read is not above the highest number.
Numbered ==
    /\ Intake!Row \in Intake!Ids \cup {0, First - 1}
    /\ Bounded
    /\ \A c \in Caller : pc[c] \in {"counting", "numbering"} =>
          /\ seen[c].current <= Intake!Highest
          /\ seen[c].found => seq # << >>
    /\ opened => First - 1 <= Intake!Highest

\* While calls do not overlap, one that is about to create found no active task.
Looked ==
    Together <= 1 =>
        \A c \in Caller : pc[c] = "creating" /\ ~force[c] =>
            \A t \in tasks : t.live => t.input # input[c]

IntakeInv ==
    /\ Intake!TypeOK /\ Numbered /\ Looked
    /\ IsFiniteSet(Intake!Busy) /\ opened \in BOOLEAN
    /\ input \in [Caller -> Intake!Inputs] /\ force \in [Caller -> BOOLEAN]
    /\ seen \in [Caller -> [found : BOOLEAN, current : Nat]]

\* The highest number used: no task has a higher one, and it is one of a task or the
\* sequence's.
Topped ==
    /\ Intake!Highest \in Nat
    /\ Intake!Row <= Intake!Highest /\ \A t \in tasks : t.id <= Intake!Highest
    /\ \/ Intake!Highest = Intake!Row
       \/ \E t \in tasks : t.id = Intake!Highest

\* It is that.
LEMMA HighestIs == Intake!TypeOK /\ Bounded => Topped
<1> SUFFICES ASSUME Intake!TypeOK, Bounded PROVE Topped OBVIOUS
<1> USE DEF Topped
<1> DEFINE S == {t.id : t \in tasks} \cup {Intake!Row}
<1>1. PICK n \in Nat : \A t \in tasks : t.id <= n BY DEF Bounded
<1>2. Intake!Row \in Nat /\ \A t \in tasks : t.id \in Nat
  <2>1. seq \in Seq(Nat) /\ tasks \in SUBSET [id : Nat \ {0}, input : Intake!Inputs, live : BOOLEAN]
    BY DEF Intake!TypeOK
  <2>2. seq # << >> => seq[1] \in Nat BY <2>1
  <2> QED BY <2>1, <2>2 DEF Intake!Row
<1>3. PICK m \in Nat : n <= m /\ Intake!Row <= m
  <2>1. CASE n <= Intake!Row BY <1>2, <2>1
  <2>2. CASE ~(n <= Intake!Row) BY <1>2, <2>2
  <2> QED BY <2>1, <2>2
<1>4. S \in SUBSET (0 .. m)
  <2> SUFFICES ASSUME NEW x \in S PROVE x \in 0 .. m OBVIOUS
  <2>1. CASE x = Intake!Row BY <1>2, <1>3, <2>1
  <2>2. CASE x # Intake!Row
    <3>1. PICK t \in tasks : x = t.id BY <2>2
    <3> QED BY <1>1, <1>2, <1>3, <3>1
  <2> QED BY <2>1, <2>2
<1>5. Intake!Highest = Intake!MaxOf(S) BY DEF Intake!Highest, Intake!Ids
<1> HIDE DEF S
<1>6. /\ Intake!Highest \in 0 .. m /\ \A y \in S : y <= Intake!Highest
      /\ Intake!Highest \in S \cup {0}
  BY <1>4, <1>5, MaxOfIs
<1>7. Intake!Row \in S /\ \A t \in tasks : t.id \in S BY DEF S
<1>8. Intake!Highest \in Nat /\ Intake!Row <= Intake!Highest BY <1>6, <1>7
<1>9. CASE Intake!Highest \in S BY <1>6, <1>7, <1>8, <1>9 DEF S
<1>10. CASE Intake!Highest = 0
  <2>1. Intake!Row = 0 BY <1>2, <1>8, <1>10
  <2> QED BY <1>6, <1>7, <1>8, <1>10, <2>1
<1> QED BY <1>6, <1>9, <1>10

\* The highest number only grows while rows stay and the sequence is replaced by a number
\* that is used.
LEMMA HighestGrows ==
    ASSUME Intake!TypeOK, Bounded, Intake!TypeOK', Bounded',
           \A t \in tasks : \E u \in tasks' : u.id = t.id,
           Intake!Row \in {t.id : t \in tasks'} \cup {0, Intake!Row'}
    PROVE  Intake!Highest <= Intake!Highest'
<1>1. /\ Intake!Highest \in Nat
      /\ \/ Intake!Highest = Intake!Row
         \/ \E t \in tasks : t.id = Intake!Highest
  BY HighestIs DEF Topped
<1>2. /\ Intake!Highest' \in Nat /\ Intake!Row' <= Intake!Highest'
      /\ \A t \in tasks' : t.id <= Intake!Highest'
  <2>1. Topped' BY HighestIs, PTL
  <2> QED BY <2>1 DEF Topped
<1>3. CASE Intake!Highest = Intake!Row BY <1>1, <1>2, <1>3
<1>4. CASE \E t \in tasks : t.id = Intake!Highest BY <1>1, <1>2, <1>4
<1> QED BY <1>1, <1>3, <1>4

\* The module's cardinality is the library's.
LEMMA IntakeSets == ASSUME NEW S PROVE Intake!Cardinality(S) = Cardinality(S)
BY DEF Cardinality, Intake!Cardinality

\* A call that enters is one more under way; one that goes on, or nothing, is none.
LEMMA BusyKept ==
    ASSUME Intake!IntakeAssumption, IntakeInv,
           \/ UNCHANGED pc
           \/ \E c \in Caller, there \in {"counting", "looking", "creating"} :
                 Intake!Enters(c, there)
           \/ \E c \in Caller, here \in {"counting", "numbering", "looking", "creating"},
                 there \in {"numbering", "creating", "done"} : Intake!Goes(c, here, there)
    PROVE  /\ pc' \in [Caller -> Phases]
           /\ IsFiniteSet(Intake!Busy') /\ Cardinality(Intake!Busy') <= Together
<1> USE DEF Intake!Busy, Intake!Free, Phases
<1>1. /\ pc \in [Caller -> Phases]
      /\ IsFiniteSet(Intake!Busy) /\ Cardinality(Intake!Busy) <= Together
      /\ Cardinality(Intake!Busy) \in Nat /\ Together \in Nat
  BY FS_CardinalityType, IntakeSets DEF IntakeInv, Intake!TypeOK, Intake!IntakeAssumption
<1>2. CASE UNCHANGED pc BY <1>1, <1>2
<1>3. ASSUME NEW c \in Caller, NEW there \in {"counting", "looking", "creating"},
             Intake!Enters(c, there)
      PROVE  /\ pc' \in [Caller -> Phases]
             /\ IsFiniteSet(Intake!Busy') /\ Cardinality(Intake!Busy') <= Together
  <2>1. Intake!Busy' = Intake!Busy \cup {c} BY <1>1, <1>3 DEF Intake!Enters
  <2>2. /\ IsFiniteSet(Intake!Busy \cup {c})
        /\ Cardinality(Intake!Busy \cup {c}) <= Cardinality(Intake!Busy) + 1
    <3> DEFINE S == Intake!Busy
    <3>1. IsFiniteSet(S) /\ Cardinality(S) \in Nat BY <1>1
    <3> HIDE DEF S
    <3>2. /\ IsFiniteSet(S \cup {c})
          /\ Cardinality(S \cup {c}) \in {Cardinality(S), Cardinality(S) + 1}
      BY <3>1, FS_AddElement
    <3>3. Cardinality(S \cup {c}) <= Cardinality(S) + 1 BY <3>1, <3>2
    <3> QED BY <3>2, <3>3 DEF S
  <2>3. Cardinality(Intake!Busy) < Together BY <1>3, IntakeSets DEF Intake!Enters
  <2>4. pc' \in [Caller -> Phases]
    BY <1>1, <1>3 DEF Intake!Enters
  <2>5. Cardinality(Intake!Busy \cup {c}) \in Nat BY <2>2, FS_CardinalityType
  <2> HIDE DEF Intake!Busy
  <2> QED BY <1>1, <2>1, <2>2, <2>3, <2>4, <2>5
<1>4. ASSUME NEW c \in Caller, NEW here \in {"counting", "numbering", "looking", "creating"},
             NEW there \in {"numbering", "creating", "done"}, Intake!Goes(c, here, there)
      PROVE  /\ pc' \in [Caller -> Phases]
             /\ IsFiniteSet(Intake!Busy') /\ Cardinality(Intake!Busy') <= Together
  <2>1. Intake!Busy' \subseteq Intake!Busy BY <1>1, <1>4 DEF Intake!Goes
  <2>2. pc' \in [Caller -> Phases]
    BY <1>1, <1>4 DEF Intake!Goes
  <2> HIDE DEF Intake!Busy
  <2>3. /\ IsFiniteSet(Intake!Busy')
        /\ Cardinality(Intake!Busy') <= Cardinality(Intake!Busy)
    BY <1>1, <2>1, FS_Subset
  <2>4. Cardinality(Intake!Busy') \in Nat BY <2>3, FS_CardinalityType
  <2> QED BY <1>1, <2>2, <2>3, <2>4
<1> QED BY <1>2, <1>3, <1>4

\* While calls do not overlap, a call under way is the only one.
LEMMA OnlyOne ==
    ASSUME IntakeInv, Together <= 1, Intake!IntakeAssumption,
           NEW b \in Intake!Busy, NEW c \in Intake!Busy
    PROVE  b = c
<1>1. IsFiniteSet(Intake!Busy) /\ Cardinality(Intake!Busy) <= Together /\ Together \in Nat
  BY IntakeSets DEF IntakeInv, Intake!TypeOK, Intake!IntakeAssumption
<1>2. Cardinality(Intake!Busy) \in Nat BY <1>1, FS_CardinalityType
<1>3. CASE Cardinality(Intake!Busy) = 0 BY <1>1, <1>3, FS_EmptySet
<1>4. CASE Cardinality(Intake!Busy) = 1 BY <1>1, <1>4, FS_Singleton
<1> QED BY <1>1, <1>2, <1>3, <1>4

\* What the sequence becomes: the first row stays, or gets the number before first_task_id,
\* which it does if that is more than the opener saw and the row is still as it was.
LEMMA RaisedIs ==
    ASSUME First - 1 \in Nat, seq \in Seq(Nat), NEW c \in Caller
    PROVE  /\ Intake!Raised(c) \in Seq(Nat)
           /\ seq # << >> => Intake!Raised(c) # << >>
           /\ \/ Intake!Raised(c) = seq
              \/ /\ Intake!Raised(c) # << >>
                 /\ Intake!Raised(c)[1] = IF seq = << >> THEN First - 1
                                          ELSE IF seen[c].found THEN First - 1 ELSE seq[1]
           /\ ~(First - 1 <= seen[c].current) /\ Intake!StillSo(c) =>
                 Intake!Raised(c) # << >> /\ Intake!Raised(c)[1] = First - 1
<1> DEFINE up == [i \in DOMAIN seq |-> First - 1]
<1>1. /\ up \in Seq(Nat) /\ Len(up) = Len(seq)
      /\ seq # << >> => up # << >> /\ up[1] = First - 1
      /\ seq = << >> => up = << >>
  <2>1. PICK n \in Nat : n = Len(seq) /\ DOMAIN seq = 1 .. n OBVIOUS
  <2>2. up = [i \in 1 .. n |-> First - 1] BY <2>1
  <2>3. up \in [1 .. n -> Nat] BY <2>2
  <2>4. up \in Seq(Nat) /\ Len(up) = n BY <2>1, <2>3
  <2>5. seq # << >> => n >= 1 BY <2>1
  <2>6. n >= 1 => up # << >> /\ up[1] = First - 1 BY <2>2, <2>4
  <2> QED BY <2>1, <2>4, <2>5, <2>6
<1>2. /\ Append(seq, First - 1) \in Seq(Nat) /\ Append(seq, First - 1) # << >>
      /\ seq = << >> => Append(seq, First - 1)[1] = First - 1
      /\ seq # << >> => Append(seq, First - 1)[1] = seq[1]
  OBVIOUS
<1> HIDE DEF up
<1>3. CASE First - 1 <= seen[c].current BY <1>3 DEF Intake!Raised
<1>4. CASE ~(First - 1 <= seen[c].current) /\ seen[c].found
  <2>1. Intake!Raised(c) = up BY <1>4 DEF Intake!Raised, up
  <2> QED BY <1>1, <1>4, <2>1 DEF Intake!StillSo
<1>5. CASE ~(First - 1 <= seen[c].current) /\ ~seen[c].found
  <2>1. Intake!Raised(c) = Append(seq, First - 1) BY <1>5 DEF Intake!Raised
  <2> QED BY <1>2, <1>5, <2>1 DEF Intake!StillSo
<1> QED BY <1>3, <1>4, <1>5

\* What opening does: no task is touched, and the first row of the sequence stays, or gets
\* the number before first_task_id; it gets that or is high enough, if the opener finds the
\* row as it read it.
LEMMA OpeningKeeps ==
    ASSUME Intake!IntakeAssumption, IntakeInv, NEW c \in Caller,
           Intake!ReadSequence(c) \/ Intake!ReadHighest(c) \/ Intake!RaiseSequence(c)
    PROVE  IntakeInv'
<1> USE DEF Phases
<1>1. /\ pc' \in [Caller -> Phases]
      /\ IsFiniteSet(Intake!Busy') /\ Cardinality(Intake!Busy') <= Together
  BY BusyKept DEF Intake!ReadSequence, Intake!ReadHighest, Intake!RaiseSequence
<1>2. UNCHANGED <<tasks, disk, input, force>>
  BY DEF Intake!ReadSequence, Intake!ReadHighest, Intake!RaiseSequence
<1>3. Topped BY HighestIs DEF IntakeInv, Numbered
<1>4. First - 1 \in Nat BY DEF Intake!IntakeAssumption
<1>5. /\ seq \in Seq(Nat) /\ Intake!Row \in Intake!Ids \cup {0, First - 1}
      /\ seen \in [Caller -> [found : BOOLEAN, current : Nat]]
      /\ pc \in [Caller -> Phases] /\ opened \in BOOLEAN
      /\ Intake!Ids \subseteq Nat
  BY DEF IntakeInv, Intake!TypeOK, Numbered, Intake!Ids
<1>6. /\ seq' \in Seq(Nat) /\ opened' \in BOOLEAN
      /\ seq # << >> => seq' # << >>
      /\ Intake!Row' \in {Intake!Row, First - 1}
      /\ Intake!Row' = Intake!Row \/ Intake!Row \in Intake!Ids \cup {0, Intake!Row'}
  <2>1. CASE Intake!ReadSequence(c) \/ Intake!ReadHighest(c)
    BY <1>5, <2>1 DEF Intake!ReadSequence, Intake!ReadHighest, Intake!Row
  <2>2. CASE Intake!RaiseSequence(c)
    <3>1. /\ seq' = Intake!Raised(c) /\ opened' = (opened \/ Intake!StillSo(c))
      BY <2>2 DEF Intake!RaiseSequence
    <3>2. opened' \in BOOLEAN BY <1>5, <3>1 DEF Intake!StillSo
    <3>3. seq' \in Seq(Nat) /\ (seq # << >> => seq' # << >>) BY <1>4, <1>5, <3>1, RaisedIs
    <3> DEFINE first == IF seq = << >> THEN First - 1
                        ELSE IF seen[c].found THEN First - 1 ELSE seq[1]
    <3>6. seq' = seq \/ (seq' # << >> /\ seq'[1] = first) BY <1>4, <1>5, <3>1, RaisedIs
    <3>4. \/ seq' = seq
          \/ seq' # << >> /\ seq'[1] = First - 1
          \/ seq' # << >> /\ seq # << >> /\ seq'[1] = seq[1]
      BY <3>6
    <3>5. Intake!Row' = Intake!Row \/ Intake!Row' = First - 1 BY <3>4 DEF Intake!Row
    <3> QED BY <1>5, <3>2, <3>3, <3>5
  <2> QED BY <2>1, <2>2
<1>7. Intake!TypeOK'
  <2>1. /\ tasks \in SUBSET [id : Nat \ {0}, input : Intake!Inputs, live : BOOLEAN]
        /\ \A t, u \in tasks : t.id = u.id => t = u
    BY DEF IntakeInv, Intake!TypeOK
  <2> QED BY <1>1, <1>2, <1>6, <2>1, IntakeSets DEF Intake!TypeOK
<1>8. \A b \in Caller : pc'[b] = "creating" => pc[b] = "creating"
  BY <1>5 DEF Intake!ReadSequence, Intake!ReadHighest, Intake!RaiseSequence, Intake!Enters,
     Intake!Goes
<1>9. Looked' BY <1>2, <1>8 DEF IntakeInv, Looked
<1>10. Bounded' BY <1>2 DEF IntakeInv, Numbered, Bounded
<1>11. Topped' BY <1>7, <1>10, HighestIs, PTL
<1>12. Intake!Highest <= Intake!Highest'
  <2>1. Intake!TypeOK /\ Bounded BY DEF IntakeInv, Numbered
  <2>2. Intake!Row \in {t.id : t \in tasks'} \cup {0, Intake!Row'}
    BY <1>2, <1>6 DEF Intake!Ids
  <2> QED BY <1>2, <1>7, <1>10, <2>1, <2>2, HighestGrows
<1>13. Intake!Row' \in Intake!Ids' \cup {0, First - 1} BY <1>2, <1>5, <1>6 DEF Intake!Ids
<1>14. Intake!Highest \in Nat /\ Intake!Highest' \in Nat /\ Intake!Row <= Intake!Highest
       /\ Intake!Row' <= Intake!Highest'
  BY <1>3, <1>11 DEF Topped
<1>15. \A b \in Caller : pc[b] \in {"counting", "numbering"} =>
          seen[b].current <= Intake!Highest /\ (seen[b].found => seq # << >>)
  BY DEF IntakeInv, Numbered
<1>16. opened => First - 1 <= Intake!Highest BY DEF IntakeInv, Numbered
<1> DEFINE ReadSo == \A b \in Caller : pc'[b] \in {"counting", "numbering"} =>
                        /\ seen'[b].current <= Intake!Highest'
                        /\ seen'[b].found => seq' # << >>
<1>17. ASSUME ReadSo, opened' => First - 1 <= Intake!Highest',
              seen' \in [Caller -> [found : BOOLEAN, current : Nat]]
       PROVE  IntakeInv'
  <2>1. Numbered' BY <1>10, <1>13, <1>17 DEF Numbered
  <2> QED BY <1>1, <1>2, <1>6, <1>7, <1>9, <1>17, <2>1 DEF IntakeInv
<1>18. opened' = opened => (opened' => First - 1 <= Intake!Highest')
  BY <1>4, <1>12, <1>14, <1>16
<1>19. CASE Intake!ReadSequence(c)
  <2>1. /\ seq' = seq /\ opened' = opened
        /\ seen' = [seen EXCEPT ![c] = [found |-> seq # << >>, current |-> Intake!Row]]
        /\ \A b \in Caller : pc'[b] \in {"counting", "numbering"} =>
               b = c \/ pc[b] \in {"counting", "numbering"}
    BY <1>5, <1>19 DEF Intake!ReadSequence, Intake!Enters
  <2>2. Intake!Row \in Nat BY <1>4, <1>5
  <2>3. seen' \in [Caller -> [found : BOOLEAN, current : Nat]] BY <1>5, <2>1, <2>2
  <2>4. seen'[c] = [found |-> seq # << >>, current |-> Intake!Row] BY <1>5, <2>1
  <2>5. \A b \in Caller : b # c => seen'[b] = seen[b] BY <1>5, <2>1
  <2>6. \A b \in Caller : seen[b].current \in Nat BY <1>5
  <2>7. seen'[c].current <= Intake!Highest' /\ (seen'[c].found => seq' # << >>)
    <3>1. seen'[c].current = Intake!Row /\ seen'[c].found = (seq # << >>) BY <2>4
    <3>2. Intake!Row <= Intake!Highest' BY <1>12, <1>14, <2>2
    <3> QED BY <2>1, <3>1, <3>2
  <2>8. ASSUME NEW b \in Caller, b # c, pc'[b] \in {"counting", "numbering"}
        PROVE  seen'[b].current <= Intake!Highest' /\ (seen'[b].found => seq' # << >>)
    BY <1>12, <1>14, <1>15, <2>1, <2>5, <2>6, <2>8
  <2>9. ReadSo BY <2>7, <2>8
  <2> QED BY <1>17, <1>18, <2>1, <2>3, <2>9
<1>20. CASE Intake!ReadHighest(c)
  <2> DEFINE top == Intake!MaxOf(Intake!Ids \cup {seen[c].current})
  <2>1. /\ seq' = seq /\ opened' = opened /\ pc[c] = "counting"
        /\ seen' = [seen EXCEPT ![c].current = top]
        /\ \A b \in Caller : pc'[b] \in {"counting", "numbering"} =>
               pc[b] \in {"counting", "numbering"}
    BY <1>5, <1>20 DEF Intake!ReadHighest, Intake!Goes
  <2>2. Intake!Ids \cup {seen[c].current} \in SUBSET (0 .. Intake!Highest)
    <3>1. seen[c].current \in Nat /\ seen[c].current <= Intake!Highest BY <1>5, <1>15, <2>1
    <3>2. \A n \in Intake!Ids : n \in Nat /\ n <= Intake!Highest
      BY <1>3, <1>5 DEF Topped, Intake!Ids
    <3> QED BY <1>14, <3>1, <3>2
  <2>3. top \in 0 .. Intake!Highest BY <1>14, <2>2, MaxOfIs
  <2> HIDE DEF top
  <2>4. top \in Nat /\ top <= Intake!Highest BY <1>14, <2>3
  <2>5. seen' \in [Caller -> [found : BOOLEAN, current : Nat]] BY <1>5, <2>1, <2>4
  <2>6. seen'[c].current = top /\ seen'[c].found = seen[c].found BY <1>5, <2>1
  <2>7. \A b \in Caller : b # c => seen'[b] = seen[b] BY <1>5, <2>1
  <2>8. \A b \in Caller : seen[b].current \in Nat BY <1>5
  <2>9. ReadSo BY <1>12, <1>14, <1>15, <2>1, <2>4, <2>6, <2>7, <2>8
  <2> QED BY <1>17, <1>18, <2>1, <2>5, <2>9
<1>21. CASE Intake!RaiseSequence(c)
  <2>1. /\ seq' = Intake!Raised(c) /\ opened' = (opened \/ Intake!StillSo(c))
        /\ seen' = seen /\ pc[c] = "numbering"
        /\ \A b \in Caller : pc'[b] \in {"counting", "numbering"} =>
               pc[b] \in {"counting", "numbering"}
    BY <1>5, <1>21 DEF Intake!RaiseSequence, Intake!Goes
  <2>2. \A b \in Caller : seen[b].current \in Nat BY <1>5
  <2>3. ReadSo BY <1>6, <1>12, <1>14, <1>15, <2>1, <2>2
  <2>4. ASSUME Intake!StillSo(c) PROVE First - 1 <= Intake!Highest'
    <3>1. CASE First - 1 <= seen[c].current BY <1>4, <1>12, <1>14, <1>15, <2>1, <2>2, <3>1
    <3>2. CASE ~(First - 1 <= seen[c].current)
      <4>1. Intake!Row' = First - 1 BY <1>4, <1>5, <2>1, <2>4, <3>2, RaisedIs DEF Intake!Row
      <4> QED BY <1>14, <4>1
    <3> QED BY <3>1, <3>2
  <2>5. opened' => First - 1 <= Intake!Highest' BY <1>18, <2>1, <2>4
  <2> QED BY <1>5, <1>17, <2>1, <2>3, <2>5
<1> QED BY <1>19, <1>20, <1>21

\* What add_task does before it creates: no task is touched.
LEMMA AddingKeeps ==
    ASSUME Intake!IntakeAssumption, IntakeInv, NEW c \in Caller,
           Intake!Add(c) \/ Intake!LookForActive(c)
    PROVE  IntakeInv'
<1>1. /\ pc' \in [Caller -> Phases]
      /\ IsFiniteSet(Intake!Busy') /\ Cardinality(Intake!Busy') <= Together
  BY BusyKept DEF Intake!Add, Intake!LookForActive
<1>2. UNCHANGED <<tasks, seq, disk, seen, opened>> BY DEF Intake!Add, Intake!LookForActive
<1>3. Intake!Highest' = Intake!Highest /\ Intake!Row' = Intake!Row /\ Intake!Ids' = Intake!Ids
  BY <1>2 DEF Intake!Highest, Intake!Row, Intake!Ids
<1>4. Intake!TypeOK' BY <1>1, <1>2, IntakeSets DEF IntakeInv, Intake!TypeOK, Phases
<1>5. \A b \in Caller : pc'[b] \in {"counting", "numbering"} =>
                        pc[b] \in {"counting", "numbering"}
  BY DEF Intake!Add, Intake!LookForActive, Intake!Enters, Intake!Goes, IntakeInv, Intake!TypeOK
<1>6. Numbered' BY <1>2, <1>3, <1>5 DEF IntakeInv, Numbered, Bounded
<1>7. CASE Intake!Add(c)
  <2>1. PICK i \in Intake!Inputs, f \in BOOLEAN :
           /\ Intake!Enters(c, IF f THEN "creating" ELSE "looking")
           /\ input' = [input EXCEPT ![c] = Intake!Stored(i)]
           /\ force' = [force EXCEPT ![c] = f]
    BY <1>7 DEF Intake!Add
  <2>2. Intake!Stored(i) \in Intake!Inputs BY DEF Intake!Stored, Intake!Inputs
  <2>3. input' \in [Caller -> Intake!Inputs] /\ force' \in [Caller -> BOOLEAN]
    BY <2>1, <2>2 DEF IntakeInv
  <2>4. Looked'
    <3> SUFFICES ASSUME Together <= 1, NEW b \in Caller, pc'[b] = "creating", ~force'[b]
                 PROVE  \A t \in tasks' : t.live => t.input # input'[b]
      BY DEF Looked
    <3>1. b # c BY <2>1 DEF Intake!Enters, IntakeInv, Intake!TypeOK
    <3>2. pc[b] = "creating" /\ ~force[b] /\ input'[b] = input[b]
      BY <2>1, <3>1 DEF Intake!Enters, IntakeInv, Intake!TypeOK
    <3> QED BY <1>2, <3>2 DEF IntakeInv, Looked
  <2> QED BY <1>1, <1>2, <1>4, <1>6, <2>3, <2>4 DEF IntakeInv
<1>8. CASE Intake!LookForActive(c)
  <2>1. /\ UNCHANGED <<input, force>>
        /\ Intake!Goes(c, "looking", IF Intake!ActiveOf(input[c]) # {}
                                     THEN "done" ELSE "creating")
    BY <1>8 DEF Intake!LookForActive
  <2>2. Looked'
    <3> SUFFICES ASSUME Together <= 1, NEW b \in Caller, pc'[b] = "creating", ~force[b]
                 PROVE  \A t \in tasks : t.live => t.input # input[b]
      BY <1>2, <2>1 DEF Looked
    <3>1. CASE b = c
      <4>1. Intake!ActiveOf(input[c]) = {}
        BY <2>1, <3>1 DEF Intake!Goes, IntakeInv, Intake!TypeOK
      <4> QED BY <3>1, <4>1 DEF Intake!ActiveOf, Intake!Live
    <3>2. CASE b # c
      <4>1. pc[b] = "creating" BY <2>1, <3>2 DEF Intake!Goes, IntakeInv, Intake!TypeOK
      <4> QED BY <4>1 DEF IntakeInv, Looked
    <3> QED BY <3>1, <3>2
  <2> QED BY <1>1, <1>2, <1>4, <1>6, <2>1, <2>2 DEF IntakeInv
<1> QED BY <1>7, <1>8

\* A new task gets the next number.
LEMMA CreateKeeps ==
    ASSUME Intake!IntakeAssumption, IntakeInv, NEW c \in Caller, Intake!Create(c)
    PROVE  IntakeInv' /\ Intake!IntakeHolds
<1> DEFINE n == Intake!Highest
           row0 == [id |-> n + 1, input |-> input[c], live |-> TRUE]
<1>1. /\ pc' \in [Caller -> Phases]
      /\ IsFiniteSet(Intake!Busy') /\ Cardinality(Intake!Busy') <= Together
  BY BusyKept DEF Intake!Create
<1>2. /\ tasks' = tasks \cup {row0}
      /\ seq' = IF seq = << >> THEN <<n + 1>> ELSE [seq EXCEPT ![1] = n + 1]
      /\ UNCHANGED <<disk, input, force, seen, opened>>
      /\ Intake!Goes(c, "creating", "done")
  BY DEF Intake!Create, Intake!NextId
<1>3. n \in Nat /\ \A t \in tasks : t.id <= n
  BY HighestIs DEF IntakeInv, Numbered, Topped
<1>4. /\ row0 \in [id : Nat \ {0}, input : Intake!Inputs, live : BOOLEAN]
      /\ row0.id = n + 1
  BY <1>3 DEF IntakeInv
<1> HIDE DEF row0
<1>5. tasks \in SUBSET [id : Nat \ {0}, input : Intake!Inputs, live : BOOLEAN]
  BY DEF IntakeInv, Intake!TypeOK
<1>6. \A t, u \in tasks : t.id = u.id => t = u BY DEF IntakeInv, Intake!TypeOK
<1> HIDE DEF n
<1>15. seq' \in Seq(Nat) /\ seq' # << >> /\ Intake!Row' = n + 1
  <2>1. n + 1 \in Nat /\ seq \in Seq(Nat) BY <1>3 DEF IntakeInv, Intake!TypeOK
  <2>2. seq # << >> =>
          LET s == [seq EXCEPT ![1] = n + 1] IN s \in Seq(Nat) /\ s # << >> /\ s[1] = n + 1
    BY <2>1
  <2>3. <<n + 1>> \in Seq(Nat) /\ <<n + 1>> # << >> /\ <<n + 1>>[1] = n + 1 BY <2>1
  <2>4. seq' \in Seq(Nat) /\ seq' # << >> /\ seq'[1] = n + 1 BY <1>2, <2>2, <2>3
  <2> QED BY <2>4 DEF Intake!Row
<1>7. Intake!TypeOK'
  <2>1. tasks' \in SUBSET [id : Nat \ {0}, input : Intake!Inputs, live : BOOLEAN]
    BY <1>2, <1>4, <1>5
  <2>2. \A t \in tasks : t.id # n + 1 BY <1>3, <1>5
  <2>3. \A t, u \in tasks' : t.id = u.id => t = u BY <1>2, <1>4, <1>6, <2>2
  <2> QED BY <1>1, <1>15, <2>1, <2>3, IntakeSets DEF Intake!TypeOK, Phases
<1>8. Bounded' BY <1>2, <1>3, <1>4, <1>5 DEF Bounded
<1>9. n <= Intake!Highest'
  <2>1. Intake!TypeOK /\ Bounded BY DEF IntakeInv, Numbered
  <2>2. Topped' BY <1>7, <1>8, HighestIs, PTL
  <2>3. Intake!Row' <= Intake!Highest' /\ Intake!Highest' \in Nat BY <2>2 DEF Topped
  <2> QED BY <1>3, <1>15, <2>3
<1>10. Intake!Highest' \in Nat
  <2>1. Topped' BY <1>7, <1>8, HighestIs, PTL
  <2> QED BY <2>1 DEF Topped
<1>11. Numbered'
  <2>1. Intake!Row' \in Intake!Ids' BY <1>2, <1>4, <1>15 DEF Intake!Ids
  <2>2. \A b \in Caller : pc'[b] \in {"counting", "numbering"} =>
                          pc[b] \in {"counting", "numbering"}
    BY <1>2 DEF Intake!Goes, IntakeInv, Intake!TypeOK
  <2>3. \A b \in Caller : /\ seen[b].current \in Nat
                          /\ pc[b] \in {"counting", "numbering"} => seen[b].current <= n
    BY DEF IntakeInv, Numbered, n
  <2>4. opened => First - 1 <= n BY DEF IntakeInv, Numbered, n
  <2>5. First - 1 \in Nat BY DEF Intake!IntakeAssumption
  <2>6. \A b \in Caller : pc'[b] \in {"counting", "numbering"} =>
           seen'[b].current <= Intake!Highest'
    BY <1>2, <1>3, <1>9, <1>10, <2>2, <2>3
  <2>7. opened' => First - 1 <= Intake!Highest' BY <1>2, <1>3, <1>9, <1>10, <2>4, <2>5
  <2> QED BY <1>8, <1>15, <2>1, <2>6, <2>7 DEF Numbered
<1>12. Looked'
  <2> SUFFICES ASSUME Together <= 1, NEW b \in Caller, pc'[b] = "creating" PROVE FALSE
    BY DEF Looked
  <2>1. pc[b] = "creating" /\ b # c /\ pc[c] = "creating"
    BY <1>2 DEF Intake!Goes, IntakeInv, Intake!TypeOK
  <2>2. b \in Intake!Busy /\ c \in Intake!Busy BY <2>1 DEF Intake!Busy, Intake!Free
  <2> QED BY <2>1, <2>2, OnlyOne
<1>13. Intake!SecondIsBlocked \/ ~(Together <= 1)
  <2> SUFFICES ASSUME Together <= 1, NEW b \in Intake!Unforced, pc'[b] = "done",
                      NEW t \in tasks, t.live
               PROVE  t.input # input[b]
    BY DEF Intake!SecondIsBlocked
  <2>1. b \in Caller /\ pc[b] \in {"looking", "creating"} /\ ~force[b]
    BY DEF Intake!Unforced
  <2>2. b = c BY <1>2, <2>1 DEF Intake!Goes, IntakeInv, Intake!TypeOK
  <2> QED BY <1>2, <2>1, <2>2 DEF IntakeInv, Looked, Intake!Goes
<1>14. Intake!NumbersContinue
  <2> SUFFICES ASSUME NEW t \in tasks', t.id \notin Intake!Ids
               PROVE  (opened => t.id >= First) /\ (\A m \in Intake!Ids : m < t.id)
    BY DEF Intake!NumbersContinue
  <2>1. t.id = n + 1 BY <1>2, <1>4 DEF Intake!Ids
  <2>2. opened => First - 1 <= n BY DEF IntakeInv, Numbered, n
  <2>3. First \in Nat BY DEF Intake!IntakeAssumption
  <2> QED BY <1>3, <1>5, <2>1, <2>2, <2>3 DEF Intake!Ids
<1> QED BY <1>1, <1>2, <1>7, <1>11, <1>12, <1>13, <1>14 DEF IntakeInv, Intake!IntakeHolds

\* A task that ends keeps its number, and the file of an input is nobody's.
LEMMA FinishKeeps ==
    ASSUME Intake!IntakeAssumption, IntakeInv,
           Intake!FileChanges \/ \E t \in tasks : Intake!Finish(t)
    PROVE  IntakeInv'
<1>1. UNCHANGED <<seq, pc, input, force, seen, opened>>
  BY DEF Intake!FileChanges, Intake!Finish
<1>2. /\ tasks \in SUBSET [id : Nat \ {0}, input : Intake!Inputs, live : BOOLEAN]
      /\ \A t, u \in tasks : t.id = u.id => t = u
  BY DEF IntakeInv, Intake!TypeOK
<1>3. CASE UNCHANGED tasks
  <2>1. Intake!Highest' = Intake!Highest /\ Intake!Row' = Intake!Row /\ Intake!Ids' = Intake!Ids
    BY <1>1, <1>3 DEF Intake!Highest, Intake!Row, Intake!Ids
  <2>2. Intake!Busy' = Intake!Busy BY <1>1 DEF Intake!Busy
  <2> QED BY <1>1, <1>3, <2>1, <2>2
          DEF IntakeInv, Intake!TypeOK, Numbered, Bounded, Looked
<1>4. ASSUME NEW t \in tasks, t.live,
             tasks' = (tasks \ {t}) \cup {[t EXCEPT !.live = FALSE]}
      PROVE  IntakeInv'
  <2> DEFINE ended == [t EXCEPT !.live = FALSE]
  <2>1. /\ ended \in [id : Nat \ {0}, input : Intake!Inputs, live : BOOLEAN]
        /\ ended.id = t.id /\ ended.input = t.input /\ ~ended.live
    BY <1>2
  <2>2. tasks' = (tasks \ {t}) \cup {ended} BY <1>4
  <2> HIDE DEF ended
  <2>3. Intake!Ids' = Intake!Ids BY <2>1, <2>2 DEF Intake!Ids
  <2>4. Intake!Highest' = Intake!Highest /\ Intake!Row' = Intake!Row
    BY <1>1, <2>3 DEF Intake!Highest, Intake!Row
  <2>5. Intake!Busy' = Intake!Busy BY <1>1 DEF Intake!Busy
  <2>6. Intake!TypeOK'
    <3>1. \A u, v \in tasks' : u.id = v.id => u = v BY <1>2, <2>1, <2>2
    <3>2. tasks' \in SUBSET [id : Nat \ {0}, input : Intake!Inputs, live : BOOLEAN]
      BY <1>2, <2>1, <2>2
    <3> QED BY <1>1, <2>5, <3>1, <3>2 DEF IntakeInv, Intake!TypeOK
  <2>7. Bounded' BY <1>2, <2>1, <2>2 DEF IntakeInv, Numbered, Bounded
  <2>8. Numbered' BY <1>1, <2>3, <2>4, <2>7 DEF IntakeInv, Numbered
  <2>9. Looked' BY <1>1, <2>1, <2>2 DEF IntakeInv, Looked
  <2> QED BY <1>1, <2>5, <2>6, <2>8, <2>9 DEF IntakeInv
<1> QED BY <1>3, <1>4 DEF Intake!FileChanges, Intake!Finish, Intake!Live

\* Only Create makes a task.
LEMMA NoNewTask ==
    ASSUME Intake!IntakeAssumption, IntakeInv,
           \A u \in tasks' : \E t \in tasks : t.id = u.id,
           \A c \in Caller : ~force[c] /\ pc[c] \in {"looking", "creating"}
                                /\ pc'[c] = "done" => UNCHANGED tasks
    PROVE  Intake!IntakeHolds
BY DEF Intake!IntakeHolds, Intake!SecondIsBlocked, Intake!NumbersContinue, Intake!Unforced,
       Intake!Ids

\* Nothing is added at first.
LEMMA IntakeInit == Intake!IntakeAssumption /\ Intake!Init => IntakeInv
<1> SUFFICES ASSUME Intake!IntakeAssumption, Intake!Init PROVE IntakeInv OBVIOUS
<1> USE DEF Intake!Init, Intake!Free
<1>1. Intake!Busy = {} BY DEF Intake!Busy
<1>2. IsFiniteSet(Intake!Busy) /\ Cardinality(Intake!Busy) = 0 BY <1>1, FS_EmptySet
<1>3. Intake!TypeOK
  BY <1>2, IntakeSets DEF Intake!TypeOK, Intake!IntakeAssumption
<1>4. Numbered BY DEF Numbered, Bounded, Intake!Row
<1>5. Looked BY DEF Looked
<1> QED BY <1>2, <1>3, <1>4, <1>5 DEF IntakeInv, Intake!Inputs

\* Every step keeps the invariant, and with it what is promised of a new task.
LEMMA IntakeNext ==
    Intake!IntakeAssumption /\ IntakeInv /\ [Intake!Next]_Intake!vars =>
        IntakeInv' /\ [Intake!IntakeHolds]_Intake!vars
<1> SUFFICES ASSUME Intake!IntakeAssumption, IntakeInv, [Intake!Next]_Intake!vars
             PROVE  IntakeInv' /\ [Intake!IntakeHolds]_Intake!vars
  OBVIOUS
<1>1. ASSUME NEW c \in Caller,
             Intake!ReadSequence(c) \/ Intake!ReadHighest(c) \/ Intake!RaiseSequence(c)
      PROVE  IntakeInv' /\ Intake!IntakeHolds
  <2>1. UNCHANGED tasks
    BY <1>1 DEF Intake!ReadSequence, Intake!ReadHighest, Intake!RaiseSequence
  <2> QED BY <1>1, <2>1, OpeningKeeps, NoNewTask
<1>2. ASSUME NEW c \in Caller, Intake!Add(c) \/ Intake!LookForActive(c)
      PROVE  IntakeInv' /\ Intake!IntakeHolds
  <2>1. UNCHANGED tasks BY <1>2 DEF Intake!Add, Intake!LookForActive
  <2> QED BY <1>2, <2>1, AddingKeeps, NoNewTask
<1>3. ASSUME NEW c \in Caller, Intake!Create(c) PROVE IntakeInv' /\ Intake!IntakeHolds
  BY <1>3, CreateKeeps
<1>4. ASSUME NEW t \in tasks, Intake!Finish(t) PROVE IntakeInv' /\ Intake!IntakeHolds
  <2>1. UNCHANGED pc /\ tasks' = (tasks \ {t}) \cup {[t EXCEPT !.live = FALSE]}
    BY <1>4 DEF Intake!Finish
  <2>2. [t EXCEPT !.live = FALSE].id = t.id
    <3>1. t \in [id : Nat \ {0}, input : Intake!Inputs, live : BOOLEAN]
      BY DEF IntakeInv, Intake!TypeOK
    <3> QED BY <3>1
  <2>3. \A u \in tasks' : \E v \in tasks : v.id = u.id BY <2>1, <2>2
  <2> QED BY <1>4, <2>1, <2>3, FinishKeeps, NoNewTask
<1>5. CASE Intake!FileChanges
  <2>1. UNCHANGED tasks BY <1>5 DEF Intake!FileChanges
  <2> QED BY <1>5, <2>1, FinishKeeps, NoNewTask
<1>6. CASE UNCHANGED Intake!vars
  <2>1. Intake!Highest' = Intake!Highest /\ Intake!Row' = Intake!Row /\ Intake!Ids' = Intake!Ids
    BY <1>6 DEF Intake!vars, Intake!Highest, Intake!Row, Intake!Ids
  <2>2. Intake!Busy' = Intake!Busy BY <1>6 DEF Intake!vars, Intake!Busy
  <2> QED BY <1>6, <2>1, <2>2
          DEF Intake!vars, IntakeInv, Intake!TypeOK, Numbered, Bounded, Looked
<1> QED BY <1>1, <1>2, <1>3, <1>4, <1>5, <1>6 DEF Intake!Next

\* However many calls add tasks and open the store at once: every number is higher than
\* those before; it is not below first_task_id once an opening found the row of the sequence,
\* or none, still as it read it when it wrote; and calls that do not overlap add one active
\* task for an input.
THEOREM IntakeCorrect ==
    ASSUME Intake!IntakeAssumption
    PROVE  Intake!Spec => [][Intake!IntakeHolds]_Intake!vars
<1>1. Intake!Init => IntakeInv BY IntakeInit
<1>2. IntakeInv /\ [Intake!Next]_Intake!vars => IntakeInv' /\ [Intake!IntakeHolds]_Intake!vars
  BY IntakeNext
<1> QED BY <1>1, <1>2, PTL DEF Intake!Spec

---------------------------------------------------------------------------
(* The credentials.                                                         *)

Answered == (Values \cup {Secrets!NoValue}) \X (Secrets!Sources \cup {"nowhere"})

KeychainAnswers == "keychain" \in on => "keychain" \notin broken

\* A lookup under way, if no source was changed since it began: what it found is what is
\* configured, the sources it passed do not hold the name it looks for, and a keychain
\* it passed could answer.
Looking ==
    /\ Len(call.found) < Len(call.names) /\ call.at \in 1 .. 5
    /\ quiet =>
        /\ \A i \in 1 .. Len(call.found), n \in Names :
               call.names[i] = n => call.found[i] = Secrets!Configured(n)
        /\ \A n \in Names : call.names[Len(call.found) + 1] = n =>
               \A i \in 1 .. (call.at - 1) : i \notin Secrets!Holding(n)
        /\ call.at > 1 \/ call.found # <<>> => KeychainAnswers

\* A look at the files under way: those it passed are on record as they are.
LookingAtFiles ==
    /\ call.at \in 3 .. 5
    /\ quiet => \A i \in 3 .. (call.at - 1) :
           Secrets!Order[i] \in on =>
               (Secrets!Order[i] \in problems <=> Secrets!Order[i] \in broken)

SecretsInv ==
    /\ on \subseteq Secrets!Sources /\ broken \subseteq Secrets!Sources
    /\ holds \in [Secrets!Sources -> [Names -> Values \cup {Secrets!NoValue, Secrets!Empty}]]
    /\ problems \subseteq Secrets!Files \cap on
    /\ call \in [kind : {"none", "lookup", "check", "problems"}, names : Seq(Names),
                 at : 0 .. 5, found : Seq(Answered)]
    /\ call.kind \in {"lookup", "check"} => Looking
    /\ call.kind = "problems" => LookingAtFiles
    /\ quiet /\ answer.kind \in {"lookup", "check"} =>
        /\ KeychainAnswers /\ answer.names \in Seq(Names)
        /\ \A i \in 1 .. Len(answer.names), n \in Names :
               answer.names[i] = n => answer.found[i] = Secrets!Configured(n)
    /\ Secrets!ProblemsAreCurrent

\* The five sources, in the order in which they are looked at.
LEMMA OrderIs ==
    /\ Len(Secrets!Order) = 5 /\ DOMAIN Secrets!Order = 1 .. 5
    /\ Secrets!Order[1] = "keychain" /\ Secrets!Order[2] = "env"
    /\ Secrets!Order[3] = "file" /\ Secrets!Order[4] = "profile" /\ Secrets!Order[5] = "home"
    /\ Secrets!Sources = {"keychain", "env", "file", "profile", "home"}
    /\ \A i \in 1 .. 5 : Secrets!Order[i] \in Secrets!Sources
<1>1. /\ Len(Secrets!Order) = 5 /\ DOMAIN Secrets!Order = 1 .. 5
      /\ Secrets!Order[1] = "keychain" /\ Secrets!Order[2] = "env"
      /\ Secrets!Order[3] = "file" /\ Secrets!Order[4] = "profile"
      /\ Secrets!Order[5] = "home"
  BY DEF Secrets!Order
<1>2. \A i \in 1 .. 5 : i = 1 \/ i = 2 \/ i = 3 \/ i = 4 \/ i = 5 OBVIOUS
<1>3. Secrets!Sources = {Secrets!Order[i] : i \in 1 .. 5}
  BY <1>1 DEF Secrets!Sources, Secrets!ToSet
<1> HIDE DEF Secrets!Order
<1>4. Secrets!Sources = {"keychain", "env", "file", "profile", "home"}
  BY <1>1, <1>2, <1>3
<1> QED BY <1>1, <1>3, <1>4

\* The first source that holds a name has the say; when none does, nothing is configured.
LEMMA ConfiguredIs ==
    ASSUME NEW n \in Names, NEW i \in 1 .. 6, \A j \in 1 .. (i - 1) : j \notin Secrets!Holding(n)
    PROVE  /\ i \in Secrets!Holding(n) =>
                  Secrets!Configured(n) = <<holds[Secrets!Order[i]][n], Secrets!Order[i]>>
           /\ i = 6 => Secrets!Configured(n) = <<Secrets!NoValue, "nowhere">>
<1>1. Secrets!Holding(n) \subseteq 1 .. 5 BY OrderIs DEF Secrets!Holding
<1>2. ASSUME i \in Secrets!Holding(n)
      PROVE  Secrets!Configured(n) = <<holds[Secrets!Order[i]][n], Secrets!Order[i]>>
  <2>1. \A j \in Secrets!Holding(n) : i <= j
    <3> SUFFICES ASSUME NEW j \in Secrets!Holding(n), ~(i <= j) PROVE FALSE OBVIOUS
    <3>1. j \in 1 .. (i - 1) BY <1>1
    <3> QED BY <3>1
  <2>2. \A k \in Secrets!Holding(n) : (\A j \in Secrets!Holding(n) : k <= j) => k = i
    BY <1>1, <1>2, <2>1
  <2>3. (CHOOSE k \in Secrets!Holding(n) : \A j \in Secrets!Holding(n) : k <= j) = i
    BY <1>2, <2>1, <2>2
  <2> QED BY <1>2, <2>3 DEF Secrets!Configured
<1>3. i = 6 => Secrets!Holding(n) = {} BY <1>1
<1>4. i = 6 => Secrets!Configured(n) = <<Secrets!NoValue, "nowhere">>
  BY <1>3 DEF Secrets!Configured
<1> QED BY <1>2, <1>4

\* What is configured depends on the sources only.
LEMMA SourcesConfigure ==
    ASSUME UNCHANGED <<on, holds, broken>>
    PROVE  /\ \A n \in Names : Secrets!Configured(n)' = Secrets!Configured(n)
           /\ \A n \in Names : Secrets!Holding(n)' = Secrets!Holding(n)
           /\ KeychainAnswers' = KeychainAnswers
BY DEF Secrets!Configured, Secrets!Holding, KeychainAnswers

\* A new call has read nothing.
LEMMA BeginningKeeps ==
    ASSUME Secrets!CredentialsAssumption, SecretsInv,
           \/ \E n \in Names : Secrets!BeginLookup(n)
           \/ Secrets!BeginCheck \/ Secrets!BeginProblems
    PROVE  SecretsInv'
<1>1. PICK kind \in {"lookup", "check", "problems"}, names \in Seq(Names), first \in 1 .. 3 :
          /\ Secrets!Begin(kind, names, first)
          /\ kind \in {"lookup", "check"} => first = 1 /\ Len(names) > 0
          /\ kind = "problems" => first = 3
  <2>1. ASSUME NEW n \in Names, Secrets!BeginLookup(n)
        PROVE  Secrets!Begin("lookup", <<n>>, 1) /\ <<n>> \in Seq(Names) /\ Len(<<n>>) = 1
    BY <2>1 DEF Secrets!BeginLookup
  <2>2. ASSUME Secrets!BeginCheck
        PROVE  \E names \in Seq(Names) : Secrets!Begin("check", names, 1) /\ Len(names) > 0
    <3>1. PICK names \in Secrets!SetToSeqs(Names) : Secrets!Begin("check", names, 1)
      BY <2>2 DEF Secrets!BeginCheck
    <3>2. Secrets!Cardinality(Names) = Cardinality(Names)
      BY DEF Cardinality, Secrets!Cardinality
    <3>3. IsFiniteSet(Names) /\ Names # {}
      BY DEF Secrets!CredentialsAssumption, Secrets!IsFiniteSet, IsFiniteSet
    <3>4. Cardinality(Names) \in Nat /\ Cardinality(Names) # 0
      BY <3>3, FS_CardinalityType, FS_EmptySet
    <3>5. names \in [1 .. Cardinality(Names) -> Names]
      BY <3>1, <3>2 DEF Secrets!SetToSeqs
    <3> QED BY <3>1, <3>4, <3>5
  <2>3. Secrets!BeginProblems => Secrets!Begin("problems", <<>>, 3)
    BY DEF Secrets!BeginProblems
  <2>4. <<>> \in Seq(Names) OBVIOUS
  <2> DEFINE Begun(kind, names, first) ==
        /\ Secrets!Begin(kind, names, first)
        /\ kind \in {"lookup", "check"} => first = 1 /\ Len(names) > 0
        /\ kind = "problems" => first = 3
  <2>5. ASSUME NEW n \in Names, Secrets!BeginLookup(n) PROVE Begun("lookup", <<n>>, 1)
    BY <2>1, <2>5
  <2>6. ASSUME Secrets!BeginCheck PROVE \E names \in Seq(Names) : Begun("check", names, 1)
    BY <2>2, <2>6
  <2>7. Secrets!BeginProblems => Begun("problems", <<>>, 3) BY <2>3
  <2>8. \A n \in Names : <<n>> \in Seq(Names) OBVIOUS
  <2> HIDE DEF Begun
  <2>9. \E kind \in {"lookup", "check", "problems"}, names \in Seq(Names), first \in 1 .. 3 :
            Begun(kind, names, first)
    <3>1. 1 \in 1 .. 3 /\ 3 \in 1 .. 3 OBVIOUS
    <3>2. CASE \E n \in Names : Secrets!BeginLookup(n) BY <2>5, <2>8, <3>1, <3>2
    <3>3. CASE Secrets!BeginCheck BY <2>6, <3>1, <3>3
    <3>4. CASE Secrets!BeginProblems BY <2>4, <2>7, <3>1, <3>4
    <3> QED BY <3>2, <3>3, <3>4
  <2> QED BY <2>9 DEF Begun
<1>2. /\ call' = [kind |-> kind, names |-> names, at |-> first, found |-> <<>>]
      /\ answer' = Secrets!NoAnswer /\ UNCHANGED <<on, holds, broken, problems>>
  BY <1>1 DEF Secrets!Begin
<1>3. answer'.kind = "none" BY <1>2 DEF Secrets!NoAnswer
<1>4. <<>> \in Seq(Answered) /\ Len(<<>>) = 0 OBVIOUS
<1>5. call' \in [kind : {"none", "lookup", "check", "problems"}, names : Seq(Names),
                 at : 0 .. 5, found : Seq(Answered)]
  BY <1>2, <1>4
<1>6. call'.kind \in {"lookup", "check"} => Looking'
  BY <1>1, <1>2, <1>4 DEF Looking
<1>7. call'.kind = "problems" => LookingAtFiles' BY <1>1, <1>2 DEF LookingAtFiles
<1> QED BY <1>2, <1>3, <1>5, <1>6, <1>7 DEF SecretsInv, Secrets!ProblemsAreCurrent

\* A source is read: it holds the name, or the next one is looked at, or none does.
LEMMA LookingKeeps ==
    ASSUME Secrets!CredentialsAssumption, SecretsInv, Secrets!LookInSource
    PROVE  SecretsInv'
<1> DEFINE n == call.names[Len(call.found) + 1]
           v == IF Secrets!Source \in on THEN Secrets!Read(n) ELSE Secrets!NoValue
           found == IF Secrets!Counts(v) THEN <<v, Secrets!Source>> ELSE <<>>
           all == Append(call.found,
                         IF found = <<>> THEN <<Secrets!NoValue, "nowhere">> ELSE found)
<1>1. /\ call.kind \in {"lookup", "check"} /\ Secrets!Step(found)
      /\ Secrets!Source \in on => ~Secrets!KeychainFails
      /\ problems' = Secrets!Problems
      /\ UNCHANGED <<on, holds, broken, quiet>>
  BY DEF Secrets!LookInSource
<1>2. /\ call.names \in Seq(Names) /\ call.found \in Seq(Answered)
      /\ Len(call.found) < Len(call.names) /\ call.at \in 1 .. 5
  BY <1>1 DEF SecretsInv, Looking
<1>3. n \in Names BY <1>2
<1>4. Secrets!Source = Secrets!Order[call.at] /\ Secrets!Source \in Secrets!Sources
  BY <1>2, OrderIs DEF Secrets!Source
<1>5. found # <<>> <=> call.at \in Secrets!Holding(n)
  <2>1. Secrets!NoValue \notin Values BY DEF Secrets!CredentialsAssumption
  <2>2. <<v, Secrets!Source>> # <<>> OBVIOUS
  <2>3. found # <<>> <=> v \in Values BY <2>2 DEF Secrets!Counts
  <2>4. v \in Values <=>
            Secrets!Source \in on \ broken /\ holds[Secrets!Source][n] \in Values
    BY <2>1 DEF Secrets!Read
  <2> QED BY <1>2, <1>4, <2>3, <2>4, OrderIs DEF Secrets!Holding
<1>6. found # <<>> => found = <<holds[Secrets!Order[call.at]][n], Secrets!Order[call.at]>>
  BY <1>4, <1>5 DEF Secrets!Read, Secrets!Holding
<1>7. quiet => \A j \in 1 .. (call.at - 1) : j \notin Secrets!Holding(n)
  BY <1>1, <1>3 DEF SecretsInv, Looking
<1>8. quiet /\ (found # <<>> \/ call.at = 5) =>
          (IF found = <<>> THEN <<Secrets!NoValue, "nowhere">> ELSE found) = Secrets!Configured(n)
  <2>1. CASE found # <<>>
    <3>1. call.at \in 1 .. 6 /\ call.at \in Secrets!Holding(n) BY <1>2, <1>5, <2>1
    <3> HIDE DEF found, n
    <3>2. quiet => Secrets!Configured(n)
                       = <<holds[Secrets!Order[call.at]][n], Secrets!Order[call.at]>>
      BY <1>3, <1>7, <3>1, ConfiguredIs
    <3> QED BY <1>6, <2>1, <3>2
  <2>2. CASE found = <<>> /\ call.at = 5
    <3>1. quiet => \A j \in 1 .. (6 - 1) : j \notin Secrets!Holding(n)
      BY <1>5, <1>7, <2>2
    <3> QED BY <1>3, <2>2, <3>1, ConfiguredIs
  <2> QED BY <2>1, <2>2
<1>9. quiet => KeychainAnswers
  <2>1. CASE call.at = 1
    BY <1>1, <1>4, <2>1, OrderIs DEF KeychainAnswers, Secrets!KeychainFails
  <2>2. CASE call.at # 1 BY <1>1, <1>2, <2>2 DEF SecretsInv, Looking
  <2> QED BY <2>1, <2>2
<1>10. /\ all \in Seq(Answered) /\ Len(all) = Len(call.found) + 1
       /\ \A i \in 1 .. Len(call.found) : all[i] = call.found[i]
       /\ all[Len(call.found) + 1] = IF found = <<>> THEN <<Secrets!NoValue, "nowhere">> ELSE found
  <2>1. (IF found = <<>> THEN <<Secrets!NoValue, "nowhere">> ELSE found) \in Answered
    BY <1>4 DEF Answered, Secrets!Counts
  <2> HIDE DEF found
  <2> QED BY <1>2, <2>1
<1>11. quiet /\ (found # <<>> \/ call.at = 5) =>
           \A i \in 1 .. Len(all), m \in Names : call.names[i] = m => all[i] = Secrets!Configured(m)
  <2> SUFFICES ASSUME quiet, found # <<>> \/ call.at = 5,
                      NEW i \in 1 .. Len(all), NEW m \in Names, call.names[i] = m
               PROVE  all[i] = Secrets!Configured(m)
    OBVIOUS
  <2> HIDE DEF found
  <2>1. CASE i = Len(call.found) + 1 BY <1>8, <1>10, <2>1
  <2>2. CASE i # Len(call.found) + 1
    <3>1. i \in 1 .. Len(call.found) BY <1>2, <1>10, <2>2
    <3> QED BY <1>1, <1>10, <3>1 DEF SecretsInv, Looking
  <2> QED BY <2>1, <2>2
<1>12. problems' \subseteq Secrets!Files \cap on'
  BY <1>1 DEF Secrets!Problems, Secrets!FileProblems, Secrets!ReadsFile, SecretsInv
<1>13. call \in [kind : {"none", "lookup", "check", "problems"}, names : Seq(Names),
                 at : 0 .. 5, found : Seq(Answered)]
  BY DEF SecretsInv
<1>14. Secrets!ProblemsAreCurrent' \/ answer' # answer
  BY <1>1 DEF SecretsInv, Secrets!ProblemsAreCurrent
<1>15. Len(Secrets!Order) = 5 BY OrderIs
<1> HIDE DEF found, all, n
<1>16. CASE found = <<>> /\ call.at # 5
  <2>1. call' = [call EXCEPT !.at = @ + 1] /\ UNCHANGED answer
    BY <1>1, <1>15, <1>16 DEF Secrets!Step
  <2>2. call'.at = call.at + 1 /\ call'.names = call.names /\ call'.found = call.found
        /\ call'.kind = call.kind
    BY <1>13, <2>1
  <2>3. call' \in [kind : {"none", "lookup", "check", "problems"}, names : Seq(Names),
                   at : 0 .. 5, found : Seq(Answered)]
    BY <1>2, <1>13, <1>16, <2>1
  <2>4. Looking'
    <3>1. quiet' => \A m \in Names : call'.names[Len(call'.found) + 1] = m =>
                        \A i \in 1 .. (call'.at - 1) : i \notin Secrets!Holding(m)'
      <4> SUFFICES ASSUME quiet, NEW i \in 1 .. call.at PROVE i \notin Secrets!Holding(n)
        BY <1>1, <1>2, <1>3, <2>2, SourcesConfigure DEF n
      <4>1. i = call.at \/ i \in 1 .. (call.at - 1) BY <1>2
      <4> QED BY <1>5, <1>7, <1>16, <4>1
    <3>2. quiet' => \A i \in 1 .. Len(call'.found), m \in Names :
                        call'.names[i] = m => call'.found[i] = Secrets!Configured(m)'
      BY <1>1, <2>2, SourcesConfigure DEF SecretsInv, Looking
    <3>3. quiet' => KeychainAnswers' BY <1>1, <1>9, SourcesConfigure
    <3>4. call'.at \in 1 .. 5 BY <1>2, <1>16, <2>2
    <3> QED BY <1>2, <2>2, <3>1, <3>2, <3>3, <3>4 DEF Looking
  <2>5. quiet' /\ answer'.kind \in {"lookup", "check"} =>
           /\ KeychainAnswers' /\ answer'.names \in Seq(Names)
           /\ \A i \in 1 .. Len(answer'.names), m \in Names :
                  answer'.names[i] = m => answer'.found[i] = Secrets!Configured(m)'
    BY <1>1, <2>1, SourcesConfigure DEF SecretsInv
  <2>6. call'.kind # "problems" BY <1>1, <2>2
  <2> QED BY <1>1, <1>12, <1>14, <2>1, <2>3, <2>4, <2>5, <2>6 DEF SecretsInv
<1>17. CASE (found # <<>> \/ call.at = 5) /\ Len(all) = Len(call.names)
  <2>1. /\ call' = Secrets!NoCall
        /\ answer' = [kind |-> call.kind, names |-> call.names, found |-> all,
                      problems |-> {}]
    <3>1. call.at = Len(Secrets!Order) \/ found # <<>> BY <1>15, <1>17
    <3> QED BY <1>1, <1>17, <3>1 DEF Secrets!Step, all
  <2>2. call' \in [kind : {"none", "lookup", "check", "problems"}, names : Seq(Names),
                   at : 0 .. 5, found : Seq(Answered)] /\ call'.kind = "none"
    BY <2>1 DEF Secrets!NoCall
  <2>3. answer'.kind = call.kind /\ answer'.names = call.names /\ answer'.found = all
    BY <2>1
  <2>4. quiet' => KeychainAnswers' /\ answer'.names \in Seq(Names)
           /\ \A i \in 1 .. Len(answer'.names), m \in Names :
                  answer'.names[i] = m => answer'.found[i] = Secrets!Configured(m)'
    BY <1>1, <1>2, <1>9, <1>11, <1>17, <2>3, SourcesConfigure
  <2>5. Secrets!ProblemsAreCurrent' BY <1>1, <2>3 DEF Secrets!ProblemsAreCurrent
  <2> QED BY <1>1, <1>12, <2>2, <2>4, <2>5 DEF SecretsInv
<1>18. CASE (found # <<>> \/ call.at = 5) /\ Len(all) # Len(call.names)
  <2>1. call' = [call EXCEPT !.at = 1, !.found = all] /\ UNCHANGED answer
    <3>1. call.at = Len(Secrets!Order) \/ found # <<>> BY <1>15, <1>18
    <3> QED BY <1>1, <1>18, <3>1 DEF Secrets!Step, all
  <2>2. call'.at = 1 /\ call'.names = call.names /\ call'.found = all
        /\ call'.kind = call.kind
    BY <1>13, <2>1
  <2>3. call' \in [kind : {"none", "lookup", "check", "problems"}, names : Seq(Names),
                   at : 0 .. 5, found : Seq(Answered)]
    <3>1. all \in Seq(Answered) /\ 1 \in 0 .. 5 BY <1>10
    <3> HIDE DEF Answered
    <3> QED BY <1>13, <2>1, <3>1
  <2>4. Looking'
    <3>1. \A i \in 1 .. (call'.at - 1) : FALSE BY <2>2
    <3>2. quiet' => \A i \in 1 .. Len(call'.found), m \in Names :
                        call'.names[i] = m => call'.found[i] = Secrets!Configured(m)'
      BY <1>1, <1>11, <1>18, <2>2, SourcesConfigure
    <3>3. quiet' => KeychainAnswers' BY <1>1, <1>9, SourcesConfigure
    <3>4. Len(call'.found) < Len(call'.names) BY <1>2, <1>10, <1>18, <2>2
    <3> QED BY <2>2, <3>1, <3>2, <3>3, <3>4 DEF Looking
  <2>5. quiet' /\ answer'.kind \in {"lookup", "check"} =>
           /\ KeychainAnswers' /\ answer'.names \in Seq(Names)
           /\ \A i \in 1 .. Len(answer'.names), m \in Names :
                  answer'.names[i] = m => answer'.found[i] = Secrets!Configured(m)'
    BY <1>1, <2>1, SourcesConfigure DEF SecretsInv
  <2>6. call'.kind # "problems" BY <1>1, <2>2
  <2> QED BY <1>1, <1>12, <1>14, <2>1, <2>3, <2>4, <2>5, <2>6 DEF SecretsInv
<1> QED BY <1>16, <1>17, <1>18

\* The files are read one after the other for their problems.
LEMMA ProblemsKeep ==
    ASSUME Secrets!CredentialsAssumption, SecretsInv, Secrets!ReadForProblems
    PROVE  SecretsInv'
<1>1. /\ call.kind = "problems" /\ problems' = Secrets!Problems
      /\ UNCHANGED <<on, holds, broken, quiet>>
  BY DEF Secrets!ReadForProblems
<1>2. call.at \in 3 .. 5 BY <1>1 DEF SecretsInv, LookingAtFiles
<1>3. problems' \subseteq Secrets!Files \cap on'
  BY <1>1 DEF Secrets!Problems, Secrets!FileProblems, Secrets!ReadsFile, SecretsInv
<1>4. \A i \in 3 .. 5 : Secrets!Order[i] \in Secrets!Files
          /\ \A j \in 3 .. 5 : Secrets!Order[i] = Secrets!Order[j] => i = j
  <2>1. \A i \in 3 .. 5 : i = 3 \/ i = 4 \/ i = 5 OBVIOUS
  <2> QED BY <2>1, OrderIs DEF Secrets!Files
<1>5. quiet => \A i \in 3 .. call.at :
          Secrets!Order[i] \in on =>
              (Secrets!Order[i] \in problems' <=> Secrets!Order[i] \in broken)
  <2> SUFFICES ASSUME quiet, NEW i \in 3 .. call.at, Secrets!Order[i] \in on
               PROVE  Secrets!Order[i] \in problems' <=> Secrets!Order[i] \in broken
    OBVIOUS
  <2>1. CASE i = call.at
    BY <1>1, <1>2, <1>4, <2>1
       DEF Secrets!Problems, Secrets!FileProblems, Secrets!ReadsFile, Secrets!Source
  <2>2. CASE i # call.at
    <3>1. i \in 3 .. (call.at - 1) /\ i \in 3 .. 5 BY <1>2, <2>2
    <3>2. Secrets!Order[i] # Secrets!Order[call.at] BY <1>2, <1>4, <2>2, <3>1
    <3>3. Secrets!Order[i] \in problems <=> Secrets!Order[i] \in broken
      BY <1>1, <3>1 DEF SecretsInv, LookingAtFiles
    <3> QED BY <1>1, <3>2, <3>3
         DEF Secrets!Problems, Secrets!FileProblems, Secrets!ReadsFile, Secrets!Source
  <2> QED BY <2>1, <2>2
<1>6. call \in [kind : {"none", "lookup", "check", "problems"}, names : Seq(Names),
                at : 0 .. 5, found : Seq(Answered)]
  BY DEF SecretsInv
<1>7. CASE call.at < 5
  <2>1. call' = [call EXCEPT !.at = @ + 1] /\ UNCHANGED answer
    BY <1>7, OrderIs DEF Secrets!ReadForProblems
  <2>2. call'.at = call.at + 1 /\ call'.kind = call.kind
        /\ call' \in [kind : {"none", "lookup", "check", "problems"}, names : Seq(Names),
                      at : 0 .. 5, found : Seq(Answered)]
    <3>1. call.at \in 0 .. 5 /\ call.at + 1 \in 0 .. 5 BY <1>6, <1>7
    <3>2. call' = [call EXCEPT !.at = call.at + 1] BY <2>1
    <3>3. call'.at = call.at + 1 /\ call'.kind = call.kind BY ONLY <1>6, <3>2
    <3> QED BY ONLY <1>6, <3>1, <3>2, <3>3
  <2>3. LookingAtFiles' BY <1>1, <1>2, <1>5, <1>7, <2>2 DEF LookingAtFiles
  <2>4. Secrets!ProblemsAreCurrent' BY <1>1, <2>1 DEF SecretsInv, Secrets!ProblemsAreCurrent
  <2>5. quiet' /\ answer'.kind \in {"lookup", "check"} =>
           /\ KeychainAnswers' /\ answer'.names \in Seq(Names)
           /\ \A i \in 1 .. Len(answer'.names), m \in Names :
                  answer'.names[i] = m => answer'.found[i] = Secrets!Configured(m)'
    BY <1>1, <2>1, SourcesConfigure DEF SecretsInv
  <2> QED BY <1>1, <1>3, <2>2, <2>3, <2>4, <2>5 DEF SecretsInv
<1>8. CASE ~(call.at < 5)
  <2>1. /\ call' = Secrets!NoCall
        /\ answer' = [Secrets!NoAnswer EXCEPT !.kind = "problems", !.problems = problems']
    BY <1>8, OrderIs DEF Secrets!ReadForProblems
  <2>2. answer'.kind = "problems" /\ answer'.problems = problems'
    BY <2>1 DEF Secrets!NoAnswer
  <2>3. call' \in [kind : {"none", "lookup", "check", "problems"}, names : Seq(Names),
                   at : 0 .. 5, found : Seq(Answered)] /\ call'.kind = "none"
    BY <2>1 DEF Secrets!NoCall
  <2>4. \A f \in Secrets!Files : \E i \in 3 .. 5 : f = Secrets!Order[i]
    BY OrderIs DEF Secrets!Files
  <2>5. quiet => problems' = broken \cap Secrets!Files \cap on
    <3> SUFFICES ASSUME quiet, NEW f PROVE f \in problems' <=> f \in broken \cap Secrets!Files \cap on
      OBVIOUS
    <3>1. CASE f \in Secrets!Files /\ f \in on
      <4>1. PICK i \in 3 .. 5 : f = Secrets!Order[i] BY <2>4, <3>1
      <4>2. i \in 3 .. call.at BY <1>2, <1>8
      <4> QED BY <1>5, <3>1, <4>1, <4>2
    <3>2. CASE ~(f \in Secrets!Files /\ f \in on) BY <1>1, <1>3, <3>2
    <3> QED BY <3>1, <3>2
  <2>6. Secrets!ProblemsAreCurrent' BY <1>1, <2>2, <2>5 DEF Secrets!ProblemsAreCurrent
  <2> QED BY <1>1, <1>3, <2>2, <2>3, <2>6 DEF SecretsInv
<1> QED BY <1>7, <1>8

\* The owner edits a source, or a keychain that cannot answer ends the call.
LEMMA EditingKeeps ==
    ASSUME SecretsInv, Secrets!Edit \/ Secrets!Raises
    PROVE  SecretsInv'
<1>1. CASE Secrets!Edit
  <2>1. quiet' = FALSE /\ UNCHANGED <<on, problems, call, answer>> BY <1>1 DEF Secrets!Edit
  <2>2. /\ broken' \subseteq Secrets!Sources
        /\ holds' \in [Secrets!Sources ->
                          [Names -> Values \cup {Secrets!NoValue, Secrets!Empty}]]
    <3>1. PICK s \in Secrets!Sources :
              \/ \E n \in Names, v \in Values \cup {Secrets!NoValue, Secrets!Empty} :
                     holds' = [holds EXCEPT ![s][n] = v] /\ UNCHANGED broken
              \/ broken' \in {broken \cup {s}, broken \ {s}} /\ UNCHANGED holds
      BY <1>1 DEF Secrets!Edit
    <3>2. holds \in [Secrets!Sources ->
                        [Names -> Values \cup {Secrets!NoValue, Secrets!Empty}]]
          /\ broken \subseteq Secrets!Sources
      BY DEF SecretsInv
    <3>3. ASSUME NEW n \in Names, NEW v \in Values \cup {Secrets!NoValue, Secrets!Empty}
          PROVE  [holds EXCEPT ![s][n] = v] \in
                     [Secrets!Sources ->
                         [Names -> Values \cup {Secrets!NoValue, Secrets!Empty}]]
      BY <3>2
    <3>4. UNCHANGED broken \/ broken' \subseteq Secrets!Sources BY <3>1, <3>2
    <3> QED BY <3>1, <3>2, <3>3, <3>4
  <2>3. call.kind \in {"lookup", "check"} => Looking' BY <2>1 DEF SecretsInv, Looking
  <2>4. call.kind = "problems" => LookingAtFiles' BY <2>1 DEF SecretsInv, LookingAtFiles
  <2> QED BY <2>1, <2>2, <2>3, <2>4 DEF SecretsInv, Secrets!ProblemsAreCurrent
<1>2. CASE Secrets!Raises
  <2>1. /\ call' = Secrets!NoCall
        /\ answer' = [Secrets!NoAnswer EXCEPT !.kind = "error", !.names = call.names]
        /\ UNCHANGED <<on, holds, broken, problems, quiet>>
    BY <1>2 DEF Secrets!Raises
  <2>2. call' \in [kind : {"none", "lookup", "check", "problems"}, names : Seq(Names),
                   at : 0 .. 5, found : Seq(Answered)] /\ call'.kind = "none"
    BY <2>1 DEF Secrets!NoCall
  <2>3. answer'.kind = "error" BY <2>1 DEF Secrets!NoAnswer
  <2> QED BY <2>1, <2>2, <2>3 DEF SecretsInv, Secrets!ProblemsAreCurrent
<1> QED BY <1>1, <1>2

\* The invariant says what answers and reported problems are.
LEMMA SecretsPromise == SecretsInv => Secrets!CredentialsAreCurrent
<1> SUFFICES ASSUME SecretsInv PROVE Secrets!CredentialsAreCurrent OBVIOUS
<1>1. Secrets!TypeOK BY OrderIs DEF SecretsInv, Secrets!TypeOK
<1>2. Secrets!AnswersAsConfigured
  <2> SUFFICES ASSUME quiet, answer.kind \in {"lookup", "check"}
               PROVE  /\ KeychainAnswers
                      /\ \A i \in DOMAIN answer.names :
                             answer.found[i] = Secrets!Configured(answer.names[i])
    BY DEF Secrets!AnswersAsConfigured, KeychainAnswers
  <2>1. KeychainAnswers /\ answer.names \in Seq(Names) BY DEF SecretsInv
  <2>2. ASSUME NEW i \in DOMAIN answer.names
        PROVE  answer.found[i] = Secrets!Configured(answer.names[i])
    <3>1. i \in 1 .. Len(answer.names) /\ answer.names[i] \in Names BY <2>1
    <3> QED BY <3>1 DEF SecretsInv
  <2> QED BY <2>1, <2>2
<1> QED BY <1>1, <1>2 DEF SecretsInv, Secrets!CredentialsAreCurrent

\* No call is running at first.
LEMMA SecretsInit == Secrets!CredentialsAssumption /\ Secrets!Init => SecretsInv
<1> SUFFICES ASSUME Secrets!CredentialsAssumption, Secrets!Init PROVE SecretsInv OBVIOUS
<1>1. call \in [kind : {"none", "lookup", "check", "problems"}, names : Seq(Names),
                at : 0 .. 5, found : Seq(Answered)] /\ call.kind = "none"
  BY DEF Secrets!Init, Secrets!NoCall
<1>2. answer.kind = "none" BY DEF Secrets!Init, Secrets!NoAnswer
<1>3. on \subseteq Secrets!Sources BY OrderIs DEF Secrets!Init
<1> QED BY <1>1, <1>2, <1>3 DEF SecretsInv, Secrets!Init, Secrets!ProblemsAreCurrent

\* A call, its steps and an edit keep what is looked up.
LEMMA SecretsStep ==
    Secrets!CredentialsAssumption /\ SecretsInv /\ [Secrets!Next]_Secrets!vars => SecretsInv'
<1> SUFFICES ASSUME Secrets!CredentialsAssumption
             PROVE  SecretsInv /\ [Secrets!Next]_Secrets!vars => SecretsInv'
  OBVIOUS
<1>2. SecretsInv /\ Secrets!Next => SecretsInv'
  BY BeginningKeeps, LookingKeeps, ProblemsKeep, EditingKeeps DEF Secrets!Next
<1>3. SecretsInv /\ UNCHANGED Secrets!vars => SecretsInv'
  <2> SUFFICES ASSUME SecretsInv, UNCHANGED Secrets!vars PROVE SecretsInv' OBVIOUS
  <2>1. UNCHANGED <<on, holds, broken, problems, call, answer, quiet>> BY DEF Secrets!vars
  <2>2. Looking' <=> Looking BY <2>1, SourcesConfigure DEF Looking
  <2> QED BY <2>1, <2>2, SourcesConfigure
          DEF SecretsInv, LookingAtFiles, Secrets!ProblemsAreCurrent
<1> QED BY <1>2, <1>3

\* For any names, values and number of calls and edits: a call during which nobody edits
\* the sources answers with what they hold now, and reports the files broken now.
THEOREM CredentialsCorrect ==
    ASSUME Secrets!CredentialsAssumption
    PROVE  Secrets!Spec => []Secrets!CredentialsAreCurrent
<1>1. Secrets!Init => SecretsInv BY SecretsInit
<1>2. SecretsInv /\ [Secrets!Next]_Secrets!vars => SecretsInv' BY SecretsStep
<1> QED BY <1>1, <1>2, SecretsPromise, PTL DEF Secrets!Spec

---------------------------------------------------------------------------
(* All of it: what a component promises it promises in every behaviour of   *)
(* the module Work.                                                         *)

\* A behaviour keeps to its part: a step is one of that part, and the results otherwise wait.
LEMMA WorkSteps ==
    [WorkNext]_workVars =>
        /\ part' = part
        /\ [Next]_vars
        /\ part = "gate" => [Gate!Next]_Gate!vars /\ OnlyGate
        /\ part = "intake" => [Intake!Next]_Intake!vars /\ OnlyIntake
        /\ part = "chain" => [Report!Next]_Report!vars
        /\ part = "secrets" => [Secrets!Next]_Secrets!vars
<1> USE DEF workVars, vars, gateVars, intakeVars, chainVars, secretVars,
            Gate!vars, Intake!vars, Report!vars, Secrets!vars
<1> SUFFICES ASSUME [WorkNext]_workVars
             PROVE  /\ part' = part
                    /\ [Next]_vars
                    /\ part = "gate" => [Gate!Next]_Gate!vars /\ OnlyGate
                    /\ part = "intake" => [Intake!Next]_Intake!vars /\ OnlyIntake
                    /\ part = "chain" => [Report!Next]_Report!vars
                    /\ part = "secrets" => [Secrets!Next]_Secrets!vars
  OBVIOUS
<1>1. CASE part = "spawns" /\ Next /\ OnlyResults BY <1>1 DEF OnlyResults
<1>2. CASE part = "gate" /\ Gate!Next /\ OnlyGate BY <1>2 DEF OnlyGate
<1>3. CASE part = "intake" /\ Intake!Next /\ OnlyIntake BY <1>3 DEF OnlyIntake
<1>4. CASE part = "chain" /\ Report!Next /\ OnlyChain BY <1>4 DEF OnlyChain
<1>5. CASE part = "secrets" /\ Secrets!Next /\ OnlySecrets BY <1>5 DEF OnlySecrets
<1>6. CASE UNCHANGED workVars BY <1>6 DEF OnlyGate, OnlyIntake
<1> QED BY <1>1, <1>2, <1>3, <1>4, <1>5, <1>6 DEF WorkNext

\* runtime.py, Gate: no side effect without the approval of that attempt, no refusal
\* overruled, and no ask that nobody can answer.
THEOREM GateStands ==
    ASSUME WorkAssumption
    PROVE  WorkSpec => GateHolds
<1> DEFINE Inv == part = "gate" => GateInv
           Kept == part = "gate" => Gate!GateHolds
<1>1. WorkInit => Inv BY GateInit DEF WorkInit, WorkAssumption
<1>2. Inv /\ [WorkNext]_workVars => Inv' /\ [Kept]_workVars
  BY WorkSteps, GateStep DEF WorkAssumption, OnlyGate, workVars, gateVars, Gate!vars
<1> HIDE DEF Inv
<1> QED BY <1>1, <1>2, PTL DEF WorkSpec, GateHolds

\* commands.py:56, repository.py:184: one active task for an input, where calls do not
\* overlap; and each new number is above those before it, and not below first_task_id
\* after an opening that found the sequence as it was when it wrote.
THEOREM IntakeStands ==
    ASSUME WorkAssumption
    PROVE  WorkSpec => IntakeHolds
<1> DEFINE Inv == part = "intake" => IntakeInv
           Kept == part = "intake" => Intake!IntakeHolds
<1>1. WorkInit => Inv BY IntakeInit DEF WorkInit, WorkAssumption
<1>2. Inv /\ [WorkNext]_workVars => Inv' /\ [Kept]_workVars
  BY WorkSteps, IntakeNext DEF WorkAssumption, OnlyIntake, workVars, intakeVars, Intake!vars
<1> HIDE DEF Inv
<1> QED BY <1>1, <1>2, PTL DEF WorkSpec, IntakeHolds

\* artifacts.py, artifact_log.py:46: what a step finds is what the check of its workflow
\* promised it, and the newest that was finished.
THEOREM ArtifactsStand ==
    ASSUME WorkAssumption
    PROVE  WorkSpec => []ArtifactsAsPromised
<1> DEFINE Inv == ResultsInv /\ (part = "chain" => ReportInv)
<1>1. WorkInit => Inv BY ResultsInit, ReportInit DEF WorkInit, WorkAssumption
<1>2. Inv /\ [WorkNext]_workVars => Inv'
  BY WorkSteps, ResultsStep, ReportStep DEF WorkAssumption
<1>3. Inv => ArtifactsAsPromised
  BY ResultsSay, ReportPromise DEF WorkAssumption, ArtifactsAsPromised
<1> HIDE DEF Inv
<1> QED BY <1>1, <1>2, <1>3, PTL DEF WorkSpec

\* credentials.py: answers and problems are those of the sources as they are now.
THEOREM CredentialsStand ==
    ASSUME WorkAssumption
    PROVE  WorkSpec => []CredentialsAreCurrent
<1> DEFINE Inv == part = "secrets" => SecretsInv
<1>1. WorkInit => Inv BY SecretsInit DEF WorkInit, WorkAssumption
<1>2. Inv /\ [WorkNext]_workVars => Inv' BY WorkSteps, SecretsStep DEF WorkAssumption
<1>3. Inv => CredentialsAreCurrent BY SecretsPromise DEF CredentialsAreCurrent
<1> HIDE DEF Inv
<1> QED BY <1>1, <1>2, <1>3, PTL DEF WorkSpec
=============================================================================

---------------------------- MODULE ExternalProofs ----------------------------
(***************************************************************************)
(* External steps, for every workflow, any set of clients and any number   *)
(* of attempts: a task waits exactly for an item that can be answered, the *)
(* answer is the claimant's, and the attempts are counted.                 *)
(*                                                                         *)
(* The invariant: a worker that lives holds the row's claim, and while the *)
(* task executes nothing can happen to its items, so that what the worker  *)
(* has found out about them is still so when its boundary is written.  And *)
(* an item that can still change is the last one, so that the items before *)
(* it tell for good which attempt it is.                                   *)
(***************************************************************************)
EXTENDS ExternalWork, FiniteSetTheorems, SequenceTheorems, WellFoundedInduction, TLAPS

---------------------------------------------------------------------------
(* The least and the greatest of some numbers.                              *)

\* A set of natural numbers has a least one.
LEMMA Least ==
    ASSUME NEW T \in SUBSET Nat, T # {}
    PROVE  \E x \in T : \A y \in T : x <= y
<1> DEFINE R == OpToRel(<, Nat)
<1>1. IsWellFoundedOn(R, Nat) BY NatLessThanWellFounded
<1>2. R = {pair \in Nat \X Nat : pair[1] < pair[2]} BY DEF OpToRel
<1>3. \A x, y \in Nat : x < y => <<x, y>> \in R BY <1>2
<1> HIDE DEF R
<1>4. PICK x \in T : \A y \in T : <<y, x>> \notin R BY <1>1, WFMin
<1>5. ASSUME NEW y \in T PROVE x <= y
  <2>1. ~(y < x) BY <1>3, <1>4
  <2> QED BY <2>1
<1> QED BY <1>5

Top(S) == CHOOSE x \in S : \A y \in S : y <= x

\* Some numbers up to n have a greatest one.
LEMMA TopIs ==
    ASSUME NEW n \in Nat, NEW S \in SUBSET (1 .. n), S # {}
    PROVE  Top(S) \in S /\ \A y \in S : y <= Top(S)
<1> DEFINE T == {n - x : x \in S}
<1>1. T \in SUBSET Nat
  <2> SUFFICES ASSUME NEW x \in S PROVE n - x \in Nat OBVIOUS
  <2>1. x \in 1 .. n OBVIOUS
  <2> QED BY <2>1
<1> HIDE DEF T
<1>0. T # {} BY DEF T
<1>2. PICK t \in T : \A u \in T : t <= u BY <1>0, <1>1, Least
<1>3. PICK x \in S : t = n - x BY <1>2 DEF T
<1>4. \A y \in S : y <= x
  <2> SUFFICES ASSUME NEW y \in S PROVE y <= x OBVIOUS
  <2>1. n - x <= n - y BY <1>2, <1>3 DEF T
  <2>2. x \in 1 .. n /\ y \in 1 .. n OBVIOUS
  <2> QED BY <2>1, <2>2
<1> QED BY <1>4 DEF Top

---------------------------------------------------------------------------
(* The invariant.                                                           *)

Row == [status : Status \cup {"awaiting_external"}, step : Steps, pause : BOOLEAN,
        term : BOOLEAN, retry : Nat, cap : Nat, due : {"null", "future", "past"},
        beat : {"old", "new"}, token : Nat, grant : Grants]

Live(k) == worker[k].pc \notin {"none", "gone"}

\* A live worker holds the claim of an executing task, and only there is a stop requested.
Held ==
    /\ row.token \in 0 .. claims
    /\ row.token # 0 => row.status \in Executing
    /\ row.term => row.status \in Executing
    /\ \A k \in Tokens : Live(k) => row.token = k
    /\ \A k \in Tokens : k > claims => worker[k].pc = "none"

\* A user's action was allowed for the status it expects to find again.
Asked(d) ==
    /\ d.act = "pause" => d.expect \in {"queued", "running"}
    /\ d.act = "terminate" => d.expect \notin Terminal
    /\ d.act = "resume" => d.expect = "paused"
    /\ d.act = "retry" => d.expect \in {"failed", "manual_required"}
    /\ d.act \in {"approve", "reject"} => d.expect = "awaiting_approval"
    /\ d.act \in {"set_step", "force_step"} =>
          d.expect \in {"failed", "manual_required", "queued", "paused"} /\ d.arg \in Steps

\* A client whose token an item still carries is the one that claimed it.
Tickets ==
    \A c \in Clients :
        /\ client[c].submitting => client[c].token # 0
        /\ client[c].token # 0 =>
              /\ client[c].token <= tickets
              /\ client[c].item \in DOMAIN items
              /\ LET item == items[client[c].item]
                 IN  item.status = "claimed" /\ item.token = client[c].token => item.by = c

\* A task waits exactly for an item that can be answered; an active item is of its step,
\* of an unfinished task, and the last one.
Answers(r, its) ==
    /\ r.status = "awaiting_external" <=>
          \E i \in DOMAIN its : its[i].status \in {"open", "claimed"}
    /\ \A i \in DOMAIN its : its[i].status \in Active =>
          its[i].step = r.step /\ r.status \notin Terminal /\ i = Len(its)

Before(its, step, j) == {i \in 1 .. j - 1 : its[i].step = step}

\* The attempt that follows the items before the j-th.
Following(its, step, j) ==
    LET before == Before(its, step, j)
    IN  IF before # {} /\ its[Top(before)].status = "rejected"
        THEN its[Top(before)].attempt + 1 ELSE 1

Counted(its) ==
    \A j \in DOMAIN its :
        /\ its[j].step \in External
        /\ its[j].attempt \in 1 .. MaxAttempts
        /\ its[j].status = "rejected" => its[j].attempt < MaxAttempts
        /\ its[j].attempt = Following(its, its[j].step, j)

NoneActive(its) == \A i \in DOMAIN its : its[i].status \notin Active

\* An outcome that the row and the items of the task agree with.
Fits(r, its, out) ==
    /\ out.kind # "rewaits"
    /\ out.kind = "awaits" => /\ r.step \in External
                              /\ NoneActive(its)
                              /\ out.attempt = Following(its, r.step, Len(its) + 1)
    /\ out.kind = "rejected" => out.item # 0
    /\ out.kind \in {"ok", "degraded"} => r.step \notin External \/ out.item # 0
    /\ Closes(out) => /\ out.item \in DOMAIN its
                      /\ its[out.item].status = "submitted"
                      /\ its[out.item].attempt = out.attempt

\* What a worker has found out is still so.
Knows(r, its, w) ==
    /\ w.pc \in {"active", "latest", "run", "check"} => w.step = r.step
    /\ w.pc \in {"active", "latest", "check"} => w.step \in External
    /\ w.pc = "run" => w.step \notin External
    /\ w.pc = "latest" => NoneActive(its)
    /\ w.pc = "check" => w.item \in DOMAIN its /\ its[w.item].status = "submitted"
    /\ w.pc \in {"finish", "commit"} => Fits(r, its, w.out)
    /\ w.pc = "commit" => w.seen.step = r.step

Informed == \A k \in Tokens : Knows(row, items, worker[k])

Requests == \A d \in request : Asked(d)

ItemsInv ==
    /\ TypeOK /\ Held /\ Requests /\ Tickets
    /\ Answers(row, items) /\ Counted(items) /\ SubmittedByClaimant /\ Informed

---------------------------------------------------------------------------
(* What the rules of the row do to it.                                      *)

\* A row of the task waits, executes, is finished, or none of these.
LEMMA Statuses ==
    /\ Executing \cap Terminal = {} /\ "awaiting_external" \notin Executing \cup Terminal
    /\ Executing \cup Terminal \subseteq Status
BY DEF Executing, Terminal, Status

\* The boundary of a run releases the task; it waits if the run asked for it, moves or
\* ends only with a success, and a success moves or ends it.
LEMMA BoundaryFacts ==
    ASSUME NEW old \in Row, NEW seen \in Rows, NEW out \in Outcomes, NEW k,
           FinishMatches(old, seen, k), seen.step = old.step
    PROVE  LET new == ExternalBoundary(old, seen, out)
           IN  /\ new \in Row /\ new.token = 0 /\ ~new.term /\ new.status \notin Executing
               /\ new.status = "awaiting_external" =>
                     /\ out.kind \in {"awaits", "rewaits"} /\ new.step = old.step
               /\ new.step # old.step \/ new.status \in {"completed", "partially_completed"} =>
                     ~old.term /\ out.kind \in {"ok", "degraded"}
               /\ out.kind \in {"ok", "degraded"} =>
                     new.step # old.step \/ new.status \in Terminal
               /\ new.status = "terminated" => old.term
               /\ old.term => new.status \in Terminal
<1> USE DEF Row, Rows, Released, Unlock, NoToken
<1> DEFINE Good(new) ==
             /\ new \in Row /\ new.token = 0 /\ ~new.term /\ new.status \notin Executing
             /\ new.status = "awaiting_external" =>
                   /\ out.kind \in {"awaits", "rewaits"} /\ new.step = old.step
             /\ new.step # old.step \/ new.status \in {"completed", "partially_completed"} =>
                   ~old.term /\ out.kind \in {"ok", "degraded"}
             /\ out.kind \in {"ok", "degraded"} =>
                   new.step # old.step \/ new.status \in Terminal
             /\ new.status = "terminated" => old.term
             /\ old.term => new.status \in Terminal
<1>1. old.term = seen.term /\ old.term \in BOOLEAN BY DEF FinishMatches
<1>2. CASE seen.term
  <2>1. ExternalBoundary(old, seen, out) =
          [Released(old, "terminated") EXCEPT !.term = FALSE, !.due = "null"]
    BY <1>2 DEF ExternalBoundary, Boundary
  <2>2. Good([Released(old, "terminated") EXCEPT !.term = FALSE, !.due = "null"])
    BY <1>1, <1>2 DEF Status, Terminal, Executing
  <2> QED BY <2>1, <2>2
<1>3. CASE ~seen.term /\ out.kind = "rejected"
  <2>1. ExternalBoundary(old, seen, out) = BoundaryRejected(old, seen, out)
    BY <1>3 DEF ExternalBoundary
  <2>2. Good(BoundaryRejected(old, seen, out))
    BY <1>1, <1>3 DEF BoundaryRejected, PausedOr, Status, Terminal, Executing
  <2> QED BY <2>1, <2>2
<1>4. CASE ~seen.term /\ out.kind \in {"awaits", "rewaits"}
  <2>1. ExternalBoundary(old, seen, out) = BoundaryAwaits(old, seen)
    BY <1>4 DEF ExternalBoundary
  <2>2. Good(BoundaryAwaits(old, seen))
    BY <1>1, <1>4 DEF BoundaryAwaits, Status, Terminal, Executing
  <2> QED BY <2>1, <2>2
<1>5. CASE ~seen.term /\ out.kind \in {"ok", "degraded"}
  <2>1. ExternalBoundary(old, seen, out) = BoundarySucceeded(old, seen, out, FALSE)
    BY <1>5 DEF ExternalBoundary, Boundary, Succeeds
  <2>2. CASE IsLast(seen.step)
    <3>1. PICK end \in {"completed", "partially_completed"} :
              BoundarySucceeded(old, seen, out, FALSE) = Released(old, end)
      BY <2>2 DEF BoundarySucceeded, FinalStatus
    <3>2. Good(Released(old, end)) BY <1>1, <1>5 DEF Status, Terminal, Executing
    <3>3. ExternalBoundary(old, seen, out) = Released(old, end) BY <2>1, <3>1
    <3> HIDE DEF Good
    <3>4. Good(ExternalBoundary(old, seen, out)) BY <3>2, <3>3
    <3> QED BY <3>4 DEF Good
  <2>3. CASE ~IsLast(seen.step)
    <3>1. seen.step + 1 \in Steps /\ seen.step + 1 # seen.step
      BY <2>3, NumStepsAssumption DEF IsLast, Steps
    <3>2. Good([PausedOr(old, seen, "queued") EXCEPT !.step = seen.step + 1])
      BY <1>1, <1>5, <3>1 DEF PausedOr, Status, Terminal, Executing
    <3> QED BY <2>1, <2>3, <3>2 DEF BoundarySucceeded
  <2> QED BY <2>2, <2>3
<1>6. CASE ~seen.term /\ out.kind \in {"notready", "later"}
  <2>1. ExternalBoundary(old, seen, out) = BoundaryDeferred(old, seen, out)
    BY <1>6 DEF ExternalBoundary, Boundary, Succeeds
  <2>2. Good(BoundaryDeferred(old, seen, out))
    BY ZenonT(30), <1>1, <1>6 DEF BoundaryDeferred, Status, Terminal, Executing
  <2> QED BY <2>1, <2>2
<1>7. CASE ~seen.term /\ out.kind \in {"failed", "fatal"}
  <2>1. ExternalBoundary(old, seen, out) = BoundaryFailed(old, seen, out)
    BY <1>7 DEF ExternalBoundary, Boundary, Succeeds
  <2>2. Good(BoundaryFailed(old, seen, out))
    <3> DEFINE counted == [old EXCEPT !.retry = seen.retry + 1, !.due = "null"]
    <3>1. seen.retry + 1 \in Nat OBVIOUS
    <3>2. counted \in Row /\ counted.step = old.step /\ counted.term = old.term BY <3>1
    <3> HIDE DEF counted
    <3>3. \A end \in {"manual_required", "paused"} : Good(Released(counted, end))
      BY <1>1, <1>7, <3>2 DEF Status, Terminal, Executing
    <3>4. Good([Unlock(counted) EXCEPT !.status = "failed", !.due = "future"])
      BY <1>1, <1>7, <3>2 DEF Status, Terminal, Executing
    <3> QED BY <3>3, <3>4 DEF BoundaryFailed, counted
  <2> QED BY <2>1, <2>2
<1> QED BY <1>2, <1>3, <1>4, <1>5, <1>6, <1>7 DEF Outcomes, OutcomeKinds

\* Settling the task of a lost worker leaves it on its step, waiting for nobody outside.
LEMMA SettledFacts ==
    ASSUME NEW old \in Row, old.status \in Executing
    PROVE  LET new == Settled(old, old)
           IN  /\ new \in Row /\ new.token = 0 /\ ~new.term /\ new.step = old.step
               /\ new.status \in {"terminated", "paused", "manual_required", "queued"}
BY DEF Settled, NeedsPerson, Row, Released, Unlock, NoToken, Executing, Status, Terminal

\* A claim of a task that nobody asked to terminate runs it.
LEMMA ClaimedFacts ==
    ASSUME NEW old \in Row, ~old.term, NEW k \in Nat
    PROVE  LET new == Claimed(old, k)
           IN  /\ new \in Row /\ new.token = k /\ ~new.term /\ new.step = old.step
               /\ new.status = "running"
BY DEF Claimed, Row, Executing, Status

\* A skipped step is left for the next one or for the end of the workflow.
LEMMA SkippedFacts ==
    ASSUME NEW old \in Row, old.status = "queued"
    PROVE  LET new == Skipped(old, FALSE)
           IN  /\ new \in Row /\ new.token = old.token /\ new.term = old.term
               /\ \/ IsLast(old.step) /\ new.step = old.step /\ new.status = "completed"
                  \/ ~IsLast(old.step) /\ new.step = old.step + 1 /\ new.status = "queued"
<1>1. CASE IsLast(old.step)
  BY <1>1 DEF Skipped, FinalStatus, Row, Status, Terminal
<1>2. CASE ~IsLast(old.step)
  <2>1. old.step + 1 \in Steps
    BY <1>2, NumStepsAssumption DEF IsLast, Steps, Row
  <2> QED BY <1>2, <2>1 DEF Skipped, Row
<1> QED BY <1>1, <1>2

\* A user's action never takes a task out of a worker's hands or makes it wait, and moves
\* it to another step only while it rests.
LEMMA DecidedFacts ==
    ASSUME NEW old \in Row, NEW d, d.act \in UserActions, d.step \in Steps, d.arg \in Nat,
           StillAsRead(old, d), Asked(d)
    PROVE  LET new == Decided(old, d)
           IN  /\ new \in Row /\ new.token = old.token
               /\ new.term => new.status \in Executing \/ old.term
               /\ old.status \in Executing =>
                     new.status \in Executing /\ new.step = old.step
               /\ new.status \in Executing => old.status \in Executing
               /\ new.status = "awaiting_external" => old.status = new.status
               /\ old.status = "awaiting_external" =>
                     new.status \in {"awaiting_external", "terminated"} /\ new.step = old.step
               /\ old.status \in Terminal => new.status = old.status
               /\ new.status \in {"completed", "partially_completed"} =>
                     new.status = old.status
               /\ new.step # old.step => d.act \in {"set_step", "force_step"}
               /\ d.act \in {"set_step", "force_step"} =>
                     new.status = old.status /\ new.status \notin Executing \cup Terminal
<1> USE DEF Row, StillAsRead, Decided, Asked, Status, Terminal, Executing
<1>1. CASE d.act = "pause" BY <1>1
<1>2. CASE d.act = "terminate"
  <2>1. CASE d.expect \in Executing BY <1>2, <2>1
  <2>2. CASE d.expect \notin Executing BY ZenonT(30), <1>2, <2>2
  <2> QED BY <2>1, <2>2
<1>3. CASE d.act = "resume" BY <1>3
<1>4. CASE d.act = "retry" BY <1>4 DEF Requeued
<1>5. CASE d.act = "approve"
  <2>1. GrantValue(d.step, d.arg) \in Grants
    BY NumStepsAssumption DEF GrantValue, Grants, Steps
  <2> QED BY <1>5, <2>1
<1>6. CASE d.act = "reject"
  <2>1. NoGrant \in Grants BY DEF NoGrant, Grants
  <2> QED BY <1>6, <2>1
<1>7. CASE d.act = "wake" BY <1>7
<1>8. CASE d.act \in {"set_step", "force_step"}
  <2>1. NoGrant \in Grants BY DEF NoGrant, Grants
  <2> QED BY <1>8, <2>1
<1>9. CASE d.act = "set_retries" BY ZenonT(30), <1>9
<1> QED BY <1>1, <1>2, <1>3, <1>4, <1>5, <1>6, <1>7, <1>8, <1>9 DEF UserActions

---------------------------------------------------------------------------
(* What the changes of the items do to them.                                *)

\* An item of the table.
LEMMA ItemType ==
    ASSUME NEW its \in Seq(Items), NEW i \in DOMAIN its
    PROVE  /\ i \in 1 .. Len(its) /\ i \in Nat /\ i # 0 /\ Len(its) \in Nat
           /\ its[i] \in Items /\ its[i].attempt \in Nat
<1>1. i \in 1 .. Len(its) /\ Len(its) \in Nat BY LenProperties
<1>2. its[i] \in Items BY <1>1, ElementOfSeq
<1>3. its[i].attempt \in Nat BY <1>2 DEF Items
<1> QED BY <1>1, <1>2, <1>3

\* Cancelling changes the status of the items it concerns, and nothing else.
LEMMA CancelledFacts ==
    ASSUME NEW its \in Seq(Items), NEW old, NEW new, NEW moved
    PROVE  LET after == Cancelled(its, old, new, moved)
           IN  /\ after \in Seq(Items) /\ Len(after) = Len(its) /\ DOMAIN after = DOMAIN its
               /\ \A i \in DOMAIN its :
                     after[i] = IF CancelsOn(its[i], old, new, moved)
                                THEN [its[i] EXCEPT !.status = "cancelled"] ELSE its[i]
<1> DEFINE after == Cancelled(its, old, new, moved)
<1>1. DOMAIN its = 1 .. Len(its) /\ Len(its) \in Nat BY LenProperties
<1>2. \A i \in DOMAIN its : its[i] \in Items BY <1>1, ElementOfSeq
<1>3. \A i \in DOMAIN its :
         IF CancelsOn(its[i], old, new, moved)
         THEN [its[i] EXCEPT !.status = "cancelled"] \in Items ELSE its[i] \in Items
  BY <1>2 DEF Items, ItemStatus
<1>4. after \in [1 .. Len(its) -> Items] BY <1>1, <1>3 DEF Cancelled
<1>5. \A i \in DOMAIN its :
         after[i] = IF CancelsOn(its[i], old, new, moved)
                    THEN [its[i] EXCEPT !.status = "cancelled"] ELSE its[i]
  BY DEF Cancelled
<1> HIDE DEF after
<1>6. after \in Seq(Items) /\ Len(after) = Len(its) BY <1>1, <1>4
<1> QED BY <1>1, <1>4, <1>5, <1>6 DEF after

\* The items before a given one decide its attempt, if they are the same and none becomes
\* rejected or stops being so.
LEMMA FollowingKept ==
    ASSUME NEW its \in Seq(Items), NEW after \in Seq(Items), NEW step, NEW j \in Nat,
           j <= Len(its) + 1, j <= Len(after) + 1,
           \A i \in 1 .. j - 1 : /\ after[i].step = its[i].step
                                 /\ after[i].attempt = its[i].attempt
                                 /\ after[i].status = its[i].status
    PROVE  Following(after, step, j) = Following(its, step, j)
<1> DEFINE S == Before(its, step, j)
<1>1. Before(after, step, j) = S BY DEF Before
<1>2. S \in SUBSET (1 .. j - 1) BY DEF Before
<1>3. CASE S = {} BY <1>1, <1>3 DEF Following
<1>4. CASE S # {}
  <2> HIDE DEF S
  <2>1. j - 1 \in Nat
    <3>1. PICK x \in S : TRUE BY <1>4
    <3>2. x \in 1 .. j - 1 BY <1>2
    <3> QED BY <3>2
  <2>2. Top(S) \in 1 .. j - 1 BY <1>2, <1>4, <2>1, TopIs
  <2>3. /\ after[Top(S)].status = its[Top(S)].status
        /\ after[Top(S)].attempt = its[Top(S)].attempt
    BY <2>2
  <2>4. Before(its, step, j) = S BY DEF S
  <2> QED BY <1>1, <2>3, <2>4 DEF Following
<1> QED BY <1>3, <1>4

\* The attempts stay counted when only the last item changes its status, and is rejected
\* only before the last attempt.
LEMMA CountedKept ==
    ASSUME NEW its \in Seq(Items), NEW after \in Seq(Items), Counted(its),
           Len(after) = Len(its),
           \A i \in 1 .. Len(its) : /\ after[i].step = its[i].step
                                    /\ after[i].attempt = its[i].attempt
                                    /\ after[i].status = its[i].status \/ i = Len(its)
                                    /\ after[i].status = "rejected" =>
                                          its[i].attempt < MaxAttempts
    PROVE  Counted(after)
<1>1. DOMAIN its = 1 .. Len(its) /\ DOMAIN after = 1 .. Len(its) /\ Len(its) \in Nat
  BY LenProperties
<1> SUFFICES ASSUME NEW j \in 1 .. Len(its)
             PROVE  after[j].attempt = Following(after, after[j].step, j)
  BY <1>1 DEF Counted
<1>2. Following(after, its[j].step, j) = Following(its, its[j].step, j)
  <2> DEFINE n == Len(its)
  <2>3. n \in Nat /\ j \in 1 .. n /\ Len(after) = n BY <1>1
  <2> HIDE DEF n
  <2>1. \A i \in 1 .. j - 1 : i \in 1 .. n /\ i # n BY <2>3
  <2>2. j \in Nat /\ j <= n + 1 /\ j <= Len(after) + 1 BY <2>3
  <2> USE DEF n
  <2> QED BY <2>1, <2>2, FollowingKept
<1> QED BY <1>1, <1>2 DEF Counted

\* So they do when the last item is changed without being rejected.
LEMMA CountedWith ==
    ASSUME NEW its \in Seq(Items), NEW i \in DOMAIN its, NEW item \in Items, Counted(its),
           i = Len(its), item.step = its[i].step, item.attempt = its[i].attempt,
           item.status # "rejected"
    PROVE  Counted([its EXCEPT ![i] = item])
<1> DEFINE after == [its EXCEPT ![i] = item]
<1>1. i \in 1 .. Len(its) /\ DOMAIN its = 1 .. Len(its) BY ItemType, LenProperties
<1>2. /\ after \in Seq(Items) /\ Len(after) = Len(its)
      /\ \A j \in 1 .. Len(its) : after[j] = IF j = i THEN item ELSE its[j]
  BY <1>1, ExceptSeq
<1> HIDE DEF after
<1>3. \A j \in 1 .. Len(its) : /\ after[j].step = its[j].step
                               /\ after[j].attempt = its[j].attempt
                               /\ after[j].status = its[j].status \/ j = Len(its)
                               /\ after[j].status = "rejected" =>
                                     its[j].attempt < MaxAttempts
  BY <1>1, <1>2 DEF Counted
<1>4. Counted(after) BY <1>2, <1>3, CountedKept
<1> QED BY <1>4 DEF after

\* An item of the attempt that follows the earlier ones can be added.
LEMMA CountedMore ==
    ASSUME NEW its \in Seq(Items), NEW after \in Seq(Items), NEW item \in Items, Counted(its),
           Len(after) = Len(its) + 1, after[Len(its) + 1] = item, item.status = "open",
           \A i \in 1 .. Len(its) : after[i] = its[i],
           item.step \in External, MaxAttempts \in Nat \ {0},
           item.attempt = Following(its, item.step, Len(its) + 1)
    PROVE  Counted(after)
<1>1. /\ DOMAIN its = 1 .. Len(its) /\ DOMAIN after = 1 .. Len(its) + 1
      /\ Len(its) \in Nat
  BY LenProperties
<1>2. \A j \in 1 .. Len(its) + 1 :
         Following(after, after[j].step, j) = Following(its, after[j].step, j)
  BY SMTT(30), <1>1, FollowingKept
<1>3. item.attempt \in 1 .. MaxAttempts
  <2> DEFINE S == Before(its, item.step, Len(its) + 1)
  <2>1. CASE S # {} /\ its[Top(S)].status = "rejected"
    <3>1. S \in SUBSET (1 .. Len(its)) BY <1>1 DEF Before
    <3> HIDE DEF S
    <3>2. Top(S) \in 1 .. Len(its) BY <1>1, <2>1, <3>1, TopIs
    <3>3. its[Top(S)].attempt \in 1 .. MaxAttempts /\ its[Top(S)].attempt < MaxAttempts
      BY <1>1, <2>1, <3>2 DEF Counted
    <3>4. item.attempt = its[Top(S)].attempt + 1 BY <2>1 DEF Following, S
    <3> QED BY <3>3, <3>4
  <2>2. CASE ~(S # {} /\ its[Top(S)].status = "rejected")
    <3>1. item.attempt = 1 BY <2>2 DEF Following
    <3> QED BY <3>1
  <2> QED BY <2>1, <2>2
<1>4. ASSUME NEW j \in 1 .. Len(its) + 1
      PROVE  /\ after[j].step \in External /\ after[j].attempt \in 1 .. MaxAttempts
             /\ after[j].status = "rejected" => after[j].attempt < MaxAttempts
             /\ after[j].attempt = Following(after, after[j].step, j)
  <2>1. CASE j = Len(its) + 1 BY <1>2, <1>3, <2>1
  <2>2. CASE j \in 1 .. Len(its) BY <1>1, <1>2, <2>2 DEF Counted
  <2> QED BY <1>1, <2>1, <2>2
<1> QED BY <1>1, <1>4 DEF Counted

\* What a worker looks up is the attempt that follows all items of the step.
LEMMA LatestIsTop ==
    ASSUME NEW step, items \in Seq(Items)
    PROVE  NextAttempt(LatestFor(step)) = Following(items, step, Len(items) + 1)
<1> DEFINE S == Before(items, step, Len(items) + 1)
<1>1. DOMAIN items = 1 .. Len(items) /\ Len(items) \in Nat BY LenProperties
<1>2. S = {i \in DOMAIN items : items[i].step = step} BY <1>1 DEF Before
<1>3. S \in SUBSET (1 .. Len(items)) BY <1>1, <1>2
<1>4. LatestFor(step) = IF S = {} THEN 0 ELSE Top(S)
  <2> DEFINE ids == {i \in DOMAIN items : items[i].step = step}
  <2>1. LatestFor(step) = IF ids = {} THEN 0 ELSE Top(ids)
    BY Zenon DEF LatestFor, Top
  <2>2. ids = S BY <1>2
  <2> HIDE DEF ids, S
  <2> QED BY <2>1, <2>2
<1>5. S # {} => Top(S) \in 1 .. Len(items) BY <1>1, <1>3, TopIs
<1>6. Following(items, step, Len(items) + 1) =
         IF S # {} /\ items[Top(S)].status = "rejected" THEN items[Top(S)].attempt + 1 ELSE 1
  BY DEF Following
<1> HIDE DEF S
<1>7. S # {} => Top(S) # 0 BY <1>5
<1> QED BY <1>4, <1>6, <1>7 DEF NextAttempt

\* The counted items are those the property counts.
LEMMA CountedAttempts ==
    ASSUME items \in Seq(Items), Counted(items)
    PROVE  AttemptsCount
<1>1. DOMAIN items = 1 .. Len(items) /\ Len(items) \in Nat BY LenProperties
<1> SUFFICES ASSUME NEW j \in DOMAIN items
             PROVE  LET before == {i \in 1 .. j - 1 : items[i].step = items[j].step}
                        i == CHOOSE x \in before : \A y \in before : y <= x
                    IN  /\ items[j].attempt <= MaxAttempts
                        /\ items[j].attempt =
                              IF before # {} /\ items[i].status = "rejected"
                              THEN items[i].attempt + 1 ELSE 1
  BY DEF AttemptsCount
<1>2. items[j].attempt \in 1 .. MaxAttempts /\ items[j].attempt = Following(items, items[j].step, j)
  BY DEF Counted
<1>3. items[j].attempt <= MaxAttempts BY <1>2, <1>1 DEF Counted
<1> DEFINE before == {i \in 1 .. j - 1 : items[i].step = items[j].step}
<1>4. items[j].attempt =
        IF before # {} /\ items[Top(before)].status = "rejected"
        THEN items[Top(before)].attempt + 1 ELSE 1
  BY <1>2, Zenon DEF Following, Before
<1> QED BY <1>3, <1>4, Zenon DEF Top

---------------------------------------------------------------------------
(* The workers.                                                             *)

\* While the task executes, an active item is a submitted one.
LEMMA ExecutingIsSubmitted ==
    ASSUME ItemsInv, row.status \in Executing, NEW i \in DOMAIN items,
           items[i].status \in Active
    PROVE  items[i].status = "submitted"
BY Statuses DEF ItemsInv, Answers, Active

\* A step of a worker that only looks: what it learns has to fit.
LEMMA WorkerLooks ==
    ASSUME ItemsInv, NEW k \in Tokens, NEW w \in Workers,
           worker' = [worker EXCEPT ![k] = w], worker[k].pc # "none", w.pc # "none",
           Live(k) \/ w.pc = "gone", Knows(row, items, w),
           UNCHANGED <<row, items, claims, client, tickets, request>>
    PROVE  ItemsInv'
<1> USE DEF ItemsInv
<1>1. worker \in [Tokens -> Workers] BY DEF TypeOK
<1>2. TypeOK' BY <1>1 DEF TypeOK
<1>3. \A l \in Tokens : worker'[l] = IF l = k THEN w ELSE worker[l] BY <1>1
<1>4. Held' BY <1>3 DEF Held, Live
<1>5. Informed' BY <1>3 DEF Informed
<1>6. Requests' /\ Tickets' /\ Answers(row', items') /\ Counted(items') /\ SubmittedByClaimant'
  BY DEF Requests, Tickets, SubmittedByClaimant
<1> QED BY <1>2, <1>4, <1>5, <1>6

\* A live worker holds the claim: the task executes.
LEMMA LiveExecutes ==
    ASSUME ItemsInv, NEW k \in Tokens, Live(k)
    PROVE  row.token = k /\ row.status \in Executing /\ row \in Row /\ items \in Seq(Items)
           /\ worker[k] \in Workers /\ Knows(row, items, worker[k])
<1>1. k # 0 BY DEF Tokens
<1> QED BY <1>1 DEF ItemsInv, Held, TypeOK, Row, Informed

\* The outcomes of an execution without an item fit.
LEMMA PlainFits ==
    ASSUME NEW r, NEW its, NEW kind \in {"notready", "later", "failed", "fatal"}
    PROVE  Outcome(kind, 0, 0) \in Outcomes /\ Fits(r, its, Outcome(kind, 0, 0))
BY DEF Outcome, Outcomes, OutcomeKinds, Fits, Closes

\* The worker of a claim starts: it honours a stop, or runs the step of the row.
LEMMA StartKeeps ==
    ASSUME ItemsInv, NEW k \in Tokens, Start(k)
    PROVE  ItemsInv'
<1>1. Live(k) BY DEF Start, Live
<1>2. worker[k] \in Workers /\ row \in Row BY <1>1, LiveExecutes
<1>3. CASE row.term \/ row.pause
  <2> DEFINE w == [worker[k] EXCEPT !.pc = "finish", !.out = NoOutcome]
  <2>1. worker' = [worker EXCEPT ![k] = w] BY <1>3 DEF Start, Finishing, ItemsInv, TypeOK
  <2>2. w \in Workers /\ Knows(row, items, w)
    BY <1>2, PlainFits DEF Workers, Knows, NoOutcome
  <2>3. w.pc = "finish" BY <1>2 DEF Workers
  <2> HIDE DEF w
  <2> QED BY <1>1, <2>1, <2>2, <2>3, WorkerLooks DEF Start
<1>4. CASE ~(row.term \/ row.pause)
  <2> DEFINE w == [worker[k] EXCEPT !.step = row.step,
                                    !.pc = IF row.step \in External THEN "active" ELSE "run"]
  <2>1. worker' = [worker EXCEPT ![k] = w] BY <1>4 DEF Start, ItemsInv, TypeOK
  <2>2. w \in Workers /\ Knows(row, items, w)
    BY <1>2 DEF Workers, Knows, Row
  <2>3. w.pc \in {"active", "run"} BY <1>2 DEF Workers
  <2> HIDE DEF w
  <2> QED BY <1>1, <2>1, <2>2, <2>3, WorkerLooks DEF Start
<1> QED BY <1>3, <1>4

\* A worker that finds no active item looks for the latest; an active one is submitted, and
\* its submission is validated.
LEMMA LookForActiveKeeps ==
    ASSUME ItemsInv, NEW k \in Tokens, LookForActive(k)
    PROVE  ItemsInv'
<1>1. Live(k) BY DEF LookForActive, Live
<1>2. /\ worker[k] \in Workers /\ row.status \in Executing
      /\ worker[k].step = row.step /\ row.step \in External
  BY <1>1, LiveExecutes DEF LookForActive, Knows
<1>3. CASE ActiveItems = {} /\ worker' = [worker EXCEPT ![k].pc = "latest"]
  <2> DEFINE w == [worker[k] EXCEPT !.pc = "latest"]
  <2>1. worker' = [worker EXCEPT ![k] = w] BY <1>3
  <2>2. w \in Workers /\ Knows(row, items, w)
    BY <1>2, <1>3 DEF Workers, Knows, ActiveItems, NoneActive
  <2>3. w.pc = "latest" BY <1>2 DEF Workers
  <2> HIDE DEF w
  <2> QED BY <1>1, <2>1, <2>2, <2>3, WorkerLooks DEF LookForActive
<1>4. ASSUME NEW i \in ActiveItems,
             worker' = IF items[i].step # worker[k].step
                       THEN Finishing(k, Outcome(FailKind(worker[k].step), 0, 0))
                       ELSE IF Answered(i)
                       THEN [worker EXCEPT ![k].pc = "check", ![k].item = i]
                       ELSE Finishing(k, Outcome("rewaits", 0, items[i].attempt))
      PROVE  ItemsInv'
  <2>1. i \in DOMAIN items /\ items[i].status \in Active BY DEF ActiveItems
  <2>2. items[i].step = worker[k].step BY <1>2, <2>1 DEF ItemsInv, Answers
  <2>3. Answered(i) BY <1>2, <2>1, ExecutingIsSubmitted DEF Answered
  <2> DEFINE w == [worker[k] EXCEPT !.pc = "check", !.item = i]
  <2>4. worker' = [worker EXCEPT ![k] = w] BY <1>4, <2>2, <2>3
  <2>5. i \in Nat BY <2>1, LenProperties DEF ItemsInv, TypeOK
  <2>6. w \in Workers /\ Knows(row, items, w)
    BY <1>2, <2>1, <2>3, <2>5 DEF Workers, Knows, Answered
  <2>7. w.pc = "check" BY <1>2 DEF Workers
  <2> HIDE DEF w
  <2> QED BY <1>1, <2>4, <2>6, <2>7, WorkerLooks DEF LookForActive
<1> QED BY <1>3, <1>4 DEF LookForActive

\* Without an active item the next attempt is asked for, or the request raises.
LEMMA LookForLatestKeeps ==
    ASSUME ItemsInv, NEW k \in Tokens, LookForLatest(k)
    PROVE  ItemsInv'
<1>1. Live(k) BY DEF LookForLatest, Live
<1>2. /\ worker[k] \in Workers /\ worker[k].step = row.step /\ row.step \in External
      /\ NoneActive(items) /\ items \in Seq(Items) /\ row.step \in Steps
  BY <1>1, LiveExecutes DEF LookForLatest, Knows, Row
<1>3. ASSUME NEW out \in Outcomes, Fits(row, items, out), worker' = Finishing(k, out)
      PROVE  ItemsInv'
  <2> DEFINE w == [worker[k] EXCEPT !.pc = "finish", !.out = out]
  <2>1. worker' = [worker EXCEPT ![k] = w] BY <1>3 DEF Finishing
  <2>2. w \in Workers /\ Knows(row, items, w) BY <1>2, <1>3 DEF Workers, Knows
  <2>3. w.pc = "finish" BY <1>2 DEF Workers
  <2> HIDE DEF w
  <2> QED BY <1>1, <2>1, <2>2, <2>3, WorkerLooks DEF LookForLatest
<1>4. CASE worker' = Finishing(k, Outcome("awaits", 0, NextAttempt(LatestFor(worker[k].step))))
  <2> DEFINE next == Following(items, row.step, Len(items) + 1)
  <2>1. NextAttempt(LatestFor(worker[k].step)) = next BY <1>2, LatestIsTop
  <2>2. next \in Nat
    <3>1. DOMAIN items = 1 .. Len(items) /\ Len(items) \in Nat BY <1>2, LenProperties
    <3>2. Before(items, row.step, Len(items) + 1) \in SUBSET (1 .. Len(items))
      BY <3>1 DEF Before
    <3>3. \A i \in 1 .. Len(items) : items[i].attempt \in Nat
      BY <1>2, <3>1, ItemType
    <3> DEFINE S == Before(items, row.step, Len(items) + 1)
    <3>4. S # {} => Top(S) \in 1 .. Len(items) BY <3>1, <3>2, TopIs
    <3>5. next = IF S # {} /\ items[Top(S)].status = "rejected"
                 THEN items[Top(S)].attempt + 1 ELSE 1
      BY DEF Following
    <3> HIDE DEF S, next
    <3> QED BY <3>3, <3>4, <3>5
  <2> HIDE DEF next
  <2>3. Outcome("awaits", 0, next) \in Outcomes
    BY <2>2 DEF Outcome, Outcomes, OutcomeKinds
  <2>4. Fits(row, items, Outcome("awaits", 0, next))
    BY <1>2 DEF Outcome, Fits, Closes, next
  <2> QED BY <1>3, <1>4, <2>1, <2>3, <2>4
<1>5. CASE worker' = Finishing(k, Outcome(FailKind(worker[k].step), 0, 0))
  BY <1>3, <1>5, PlainFits DEF FailKind
<1> QED BY <1>4, <1>5 DEF LookForLatest

\* The validator's verdict is about the submission it was given.
LEMMA ValidateKeeps ==
    ASSUME ItemsInv, NEW k \in Tokens, Validate(k)
    PROVE  ItemsInv'
<1>1. Live(k) BY DEF Validate, Live
<1> DEFINE i == worker[k].item
<1>2. /\ worker[k] \in Workers /\ i \in DOMAIN items /\ items[i].status = "submitted"
      /\ items \in Seq(Items)
  BY <1>1, LiveExecutes DEF Validate, Knows
<1>3. i \in Nat /\ i # 0 /\ items[i].attempt \in Nat
  BY <1>2, ItemType
<1>4. PICK kind \in {"ok", "degraded", "rejected", "later", "failed", "fatal"} :
         worker' = Finishing(k,
             IF kind \in {"ok", "degraded", "rejected"}
             THEN Outcome(kind, i, items[i].attempt) ELSE Outcome(kind, 0, 0))
  BY DEF Validate, FailKind
<1> DEFINE out == IF kind \in {"ok", "degraded", "rejected"}
                  THEN Outcome(kind, i, items[i].attempt) ELSE Outcome(kind, 0, 0)
<1>5. out \in Outcomes /\ Fits(row, items, out)
  <2>1. CASE kind \in {"ok", "degraded", "rejected"}
    BY <1>2, <1>3, <2>1 DEF Outcome, Outcomes, OutcomeKinds, Fits, Closes
  <2>2. CASE kind \in {"later", "failed", "fatal"} BY <2>2, PlainFits
  <2> QED BY <2>1, <2>2
<1>6. worker' = Finishing(k, out) BY <1>4
<1> HIDE DEF out
<1> DEFINE w == [worker[k] EXCEPT !.pc = "finish", !.out = out]
<1>7. worker' = [worker EXCEPT ![k] = w] BY <1>6 DEF Finishing
<1>8. w \in Workers /\ Knows(row, items, w) BY <1>2, <1>5 DEF Workers, Knows
<1>9. w.pc = "finish" BY <1>2 DEF Workers
<1> HIDE DEF w
<1> QED BY <1>1, <1>7, <1>8, <1>9, WorkerLooks DEF Validate

\* An ordinary step runs without an item.
LEMMA RunKeeps ==
    ASSUME ItemsInv, NEW k \in Tokens, Run(k)
    PROVE  ItemsInv'
<1>1. Live(k) BY DEF Run, Live
<1>2. worker[k] \in Workers /\ row.step \notin External
  BY <1>1, LiveExecutes DEF Run, Knows
<1>3. PICK kind \in {"ok", "failed", "fatal"} : worker' = Finishing(k, Outcome(kind, 0, 0))
  BY DEF Run, FailKind
<1>4. Outcome(kind, 0, 0) \in Outcomes /\ Fits(row, items, Outcome(kind, 0, 0))
  BY <1>2 DEF Outcome, Outcomes, OutcomeKinds, Fits, Closes
<1> DEFINE w == [worker[k] EXCEPT !.pc = "finish", !.out = Outcome(kind, 0, 0)]
<1>5. worker' = [worker EXCEPT ![k] = w] BY <1>3 DEF Finishing
<1>6. w \in Workers /\ Knows(row, items, w) BY <1>2, <1>4 DEF Workers, Knows
<1>7. w.pc = "finish" BY <1>2 DEF Workers
<1> HIDE DEF w
<1> QED BY <1>1, <1>5, <1>6, <1>7, WorkerLooks DEF Run

\* The boundary reads the row of the worker's own claim.
LEMMA FinishReadKeeps ==
    ASSUME ItemsInv, NEW k \in Tokens, FinishRead(k)
    PROVE  ItemsInv'
<1>1. Live(k) BY DEF FinishRead, Live
<1>2. /\ worker[k] \in Workers /\ row \in Row /\ row.status \in Executing
      /\ Fits(row, items, worker[k].out)
  BY <1>1, LiveExecutes DEF FinishRead, Knows
<1>3. row \in Rows BY <1>2, Statuses DEF Row, Rows
<1> DEFINE w == [worker[k] EXCEPT !.pc = "commit", !.seen = row]
<1>4. worker' = [worker EXCEPT ![k] = w] BY DEF FinishRead
<1>5. w \in Workers /\ Knows(row, items, w) BY <1>2, <1>3 DEF Workers, Knows
<1>6. w.pc = "commit" BY <1>2 DEF Workers
<1> HIDE DEF w
<1> QED BY <1>1, <1>4, <1>5, <1>6, WorkerLooks DEF FinishRead

\* A worker that is idle or gone is one.
LEMMA IdleWorker ==
    ASSUME NEW pc \in {"none", "start", "gone"}
    PROVE  Idle(pc) \in Workers /\ (\A r, its : Knows(r, its, Idle(pc))) /\ BlankRow \in Rows
<1>1. (CHOOSE c \in RetryCaps : TRUE) \in RetryCaps BY RetryCapsAssumption
<1>2. \A c \in RetryCaps : NewRow(c) \in Rows
  BY NumStepsAssumption, RetryCapsAssumption
     DEF NewRow, Rows, Status, Steps, NoToken, NoGrant, Grants
<1>4. BlankRow \in Rows BY <1>1, <1>2 DEF BlankRow
<1>3. NoOutcome \in Outcomes /\ 1 \in Steps
  BY NumStepsAssumption DEF NoOutcome, Outcome, Outcomes, OutcomeKinds, Steps
<1> QED BY <1>4, <1>3 DEF Idle, Workers, Knows

\* A killed worker is gone.
LEMMA WorkerDiesKeeps ==
    ASSUME ItemsInv, NEW k \in Tokens, WorkerDies(k)
    PROVE  ItemsInv'
<1>1. Idle("gone").pc = "gone" BY DEF Idle
<1> QED BY <1>1, IdleWorker, WorkerLooks DEF WorkerDies

---------------------------------------------------------------------------
(* What the executor and the users do to the items.                         *)

\* Items as a transition of the task leaves them: only active ones end, only submitted ones
\* with a verdict, and a new one is open.
Evolves(its, after) ==
    /\ after \in Seq(Items) /\ DOMAIN its \subseteq DOMAIN after
    /\ \A i \in DOMAIN its :
          /\ after[i].step = its[i].step /\ after[i].attempt = its[i].attempt
          /\ after[i].token = its[i].token /\ after[i].by = its[i].by
          /\ after[i].submitter = its[i].submitter
          /\ \/ after[i].status = its[i].status
             \/ its[i].status \in Active /\ after[i].status = "cancelled"
             \/ /\ its[i].status = "submitted"
                /\ after[i].status \in {"accepted", "rejected", "exhausted"}
    /\ \A i \in DOMAIN after : i \notin DOMAIN its => after[i].status = "open"

\* What clients hold, and who submitted what, survives such a transition.
LEMMA EvolvesKeeps ==
    ASSUME ItemsInv, Evolves(items, items'), UNCHANGED <<client, tickets>>
    PROVE  Tickets' /\ SubmittedByClaimant'
<1>1. Tickets'
  <2> SUFFICES ASSUME NEW c \in Clients
               PROVE  /\ client[c].submitting => client[c].token # 0
                      /\ client[c].token # 0 =>
                            /\ client[c].token <= tickets
                            /\ client[c].item \in DOMAIN items'
                            /\ items'[client[c].item].status = "claimed"
                                /\ items'[client[c].item].token = client[c].token =>
                                  items'[client[c].item].by = c
    BY DEF Tickets
  <2>1. client[c].token # 0 => client[c].item \in DOMAIN items BY DEF ItemsInv, Tickets
  <2> QED BY <2>1 DEF ItemsInv, Tickets, Evolves
<1>2. SubmittedByClaimant'
  <2> SUFFICES ASSUME NEW i \in DOMAIN items',
                      items'[i].status \in {"submitted", "accepted", "rejected", "exhausted"}
               PROVE  items'[i].submitter = items'[i].by /\ items'[i].by # NoClient
    BY DEF SubmittedByClaimant
  <2>1. i \in DOMAIN items BY DEF Evolves
  <2>2. items[i].status \in {"submitted", "accepted", "rejected", "exhausted"}
    BY <2>1 DEF Evolves
  <2> QED BY <2>1, <2>2 DEF Evolves, ItemsInv, SubmittedByClaimant
<1> QED BY <1>1, <1>2

\* Cancelling is such a change, and the attempts stay counted.
LEMMA CancelledEvolves ==
    ASSUME NEW its \in Seq(Items), NEW old \in Row, NEW new, NEW moved,
           Answers(old, its), Counted(its)
    PROVE  LET after == Cancelled(its, old, new, moved)
           IN  Evolves(its, after) /\ Counted(after) /\ Len(after) = Len(its)
<1> DEFINE after == Cancelled(its, old, new, moved)
<1>1. /\ after \in Seq(Items) /\ Len(after) = Len(its) /\ DOMAIN after = DOMAIN its
      /\ \A i \in DOMAIN its :
            after[i] = IF CancelsOn(its[i], old, new, moved)
                       THEN [its[i] EXCEPT !.status = "cancelled"] ELSE its[i]
  BY CancelledFacts
<1> HIDE DEF after
<1>2. \A i \in DOMAIN its : its[i] \in Items /\ i \in 1 .. Len(its) BY ItemType
<1>3. \A i \in DOMAIN its :
         /\ after[i].step = its[i].step /\ after[i].attempt = its[i].attempt
         /\ after[i].token = its[i].token /\ after[i].by = its[i].by
         /\ after[i].submitter = its[i].submitter
         /\ \/ after[i].status = its[i].status
            \/ its[i].status \in Active /\ after[i].status = "cancelled"
  BY <1>1, <1>2 DEF Items, CancelsOn
<1>4. Evolves(its, after) BY <1>1, <1>3 DEF Evolves
<1>5. \A i \in 1 .. Len(its) : i \in DOMAIN its BY LenProperties
<1>6. Counted(after)
  <2> SUFFICES ASSUME NEW i \in 1 .. Len(its)
               PROVE  /\ after[i].step = its[i].step
                      /\ after[i].attempt = its[i].attempt
                      /\ after[i].status = its[i].status \/ i = Len(its)
                      /\ after[i].status = "rejected" => its[i].attempt < MaxAttempts
    BY <1>1, CountedKept
  <2>1. i \in DOMAIN its BY <1>5
  <2>2. after[i].status = "rejected" => its[i].status = "rejected" BY <1>3, <2>1
  <2>3. its[i].status \in Active => i = Len(its) BY <2>1 DEF Answers
  <2>4. its[i].status = "rejected" => its[i].attempt < MaxAttempts BY <2>1 DEF Counted
  <2> QED BY <1>3, <2>1, <2>2, <2>3, <2>4
<1> QED BY <1>1, <1>4, <1>6 DEF after

\* A task that ends, or moves while it waits for nobody, leaves no item of its old step.
LEMMA CancelledAnswers ==
    ASSUME NEW its \in Seq(Items), NEW old \in Row, NEW new \in Row, NEW moved \in BOOLEAN,
           Answers(old, its), moved \/ new.step = old.step,
           \/ new.status \in Terminal
           \/ /\ old.status \notin Terminal
              /\ new.status = "awaiting_external" <=> old.status = "awaiting_external"
              /\ moved => old.status # "awaiting_external"
    PROVE  Answers(new, Cancelled(its, old, new, moved))
<1> DEFINE after == Cancelled(its, old, new, moved)
<1>1. /\ after \in Seq(Items) /\ Len(after) = Len(its) /\ DOMAIN after = DOMAIN its
      /\ \A i \in DOMAIN its :
            after[i] = IF CancelsOn(its[i], old, new, moved)
                       THEN [its[i] EXCEPT !.status = "cancelled"] ELSE its[i]
  BY CancelledFacts
<1> HIDE DEF after
<1>2. \A i \in DOMAIN its : its[i] \in Items BY ItemType
<1>3. \A i \in DOMAIN its : after[i].step = its[i].step BY <1>1, <1>2 DEF Items
<1>4. \A i \in DOMAIN its :
         after[i].status = IF CancelsOn(its[i], old, new, moved) THEN "cancelled"
                           ELSE its[i].status
  BY <1>1, <1>2 DEF Items
<1>5. CASE new.status \in Terminal
  <2>1. \A i \in DOMAIN its : after[i].status \notin Active
    <3> SUFFICES ASSUME NEW i \in DOMAIN its PROVE after[i].status \notin Active OBVIOUS
    <3>1. its[i].status \in Active => CancelsOn(its[i], old, new, moved)
      BY <1>5 DEF Answers, CancelsOn
    <3> QED BY <1>4, <3>1 DEF Active
  <2>2. new.status # "awaiting_external" BY <1>5 DEF Terminal
  <2> QED BY <1>1, <2>1, <2>2 DEF Answers, after, Active
<1>6. CASE new.status \notin Terminal
  <2>1. \A i \in DOMAIN its : CancelsOn(its[i], old, new, moved) <=>
           its[i].status \in Active /\ moved /\ its[i].step # new.step
    BY <1>6 DEF CancelsOn
  <2>2. \A i \in DOMAIN its : after[i].status \in Active =>
           its[i].status \in Active /\ its[i].step = new.step /\ i = Len(its)
    BY <1>4, <1>6, <2>1 DEF Answers, Active
  <2>3. (\E i \in DOMAIN its : after[i].status \in {"open", "claimed"}) <=>
           \E i \in DOMAIN its : its[i].status \in {"open", "claimed"}
    <3>1. CASE old.status = "awaiting_external"
      <4>1. \A i \in DOMAIN its : after[i].status = its[i].status
        BY <1>4, <1>6, <2>1, <3>1
      <4> QED BY <4>1
    <3>2. CASE old.status # "awaiting_external"
      BY <1>4, <3>2 DEF Answers
    <3> QED BY <3>1, <3>2
  <2>4. new.status = "awaiting_external" <=> old.status = "awaiting_external" BY <1>6
  <2> HIDE DEF after
  <2>5. Answers(new, after) BY <1>1, <1>3, <1>6, <2>2, <2>3, <2>4 DEF Answers
  <2> QED BY <2>5 DEF after
<1> QED BY <1>5, <1>6

\* Cancelling nothing leaves the items as they are.
LEMMA NothingCancelled ==
    ASSUME NEW its \in Seq(Items), NEW old, NEW new, NEW moved,
           \A i \in DOMAIN its : ~CancelsOn(its[i], old, new, moved)
    PROVE  Cancelled(its, old, new, moved) = its
<1>1. DOMAIN its = 1 .. Len(its) /\ its \in [1 .. Len(its) -> Items] BY LenProperties
<1> QED BY <1>1 DEF Cancelled

\* What the item of an outcome must have become when the boundary is written.
Spent(out, its, after) ==
    /\ out.kind \in {"ok", "degraded"} /\ out.item # 0 =>
          its[out.item].status = "submitted" /\ after[out.item].status = "accepted"
    /\ \A i \in DOMAIN its :
          its[i].status # "accepted" /\ after[i].status = "accepted" =>
             out.kind \in {"ok", "degraded"}

\* A boundary that opens an item: the task goes to wait for it.
LEMMA OpensItem ==
    ASSUME ItemsInv, NEW out \in Outcomes, NEW seen \in Rows, NEW new \in Row,
           Fits(row, items, out), Opens(out, new), seen.step = row.step, new.step = row.step,
           MaxAttempts \in Nat \ {0}
    PROVE  LET after == Cancelled(ItemChange(out, seen, new), row, new, new.step # row.step)
           IN  /\ ~HookRaises(out, new) /\ Evolves(items, after)
               /\ Answers(new, after) /\ Counted(after) /\ Spent(out, items, after)
<1> DEFINE item == OpenItem(seen.step, out.attempt)
           its == Append(items, item)
           n == Len(items)
<1>1. /\ items \in Seq(Items) /\ NoneActive(items) /\ row.step \in External /\ row \in Row
      /\ out.attempt = Following(items, row.step, n + 1) /\ out.kind = "awaits"
      /\ new.status = "awaiting_external" /\ Answers(row, items) /\ Counted(items)
  BY DEF ItemsInv, TypeOK, Fits, Opens, Row
<1>2. item \in Items BY <1>1 DEF OpenItem, Items, ItemStatus, Active, Rows, Outcomes
<1>3. /\ its \in Seq(Items) /\ Len(its) = n + 1 /\ its[n + 1] = item
      /\ DOMAIN its = 1 .. n + 1 /\ DOMAIN items = 1 .. n /\ n \in Nat
      /\ \A i \in 1 .. n : its[i] = items[i]
  BY <1>1, <1>2, LenProperties
<1>4. item.status = "open" /\ item.step = row.step /\ item.attempt = out.attempt
  BY DEF OpenItem
<1> HIDE DEF item
<1>5. Counted(its) BY <1>1, <1>2, <1>3, <1>4, CountedMore
<1>6. \A i \in DOMAIN its : its[i].status \in Active => i = n + 1
  BY <1>1, <1>3 DEF NoneActive
<1>7. Answers(new, its)
  <2>1. new.status \notin Terminal BY <1>1 DEF Terminal
  <2>2. n + 1 \in DOMAIN its BY <1>3
  <2> QED BY <1>1, <1>3, <1>4, <1>6, <2>1, <2>2 DEF Answers
<1>8. ItemChange(out, seen, new) = its BY DEF ItemChange, item
<1> HIDE DEF its
<1>9. Cancelled(its, row, new, new.step # row.step) = its
  <2>1. \A i \in DOMAIN its : ~CancelsOn(its[i], row, new, new.step # row.step)
    BY <1>1 DEF CancelsOn, Terminal
  <2> QED BY <1>3, <2>1, NothingCancelled
<1>10. Evolves(items, its)
  <2>1. \A i \in DOMAIN its : i \notin DOMAIN items => i = n + 1 BY <1>3
  <2>2. DOMAIN items \subseteq DOMAIN its BY <1>3
  <2> HIDE DEF n
  <2> QED BY <1>3, <1>4, <2>1, <2>2 DEF Evolves
<1>11. Spent(out, items, its) BY <1>1, <1>3 DEF Spent
<1>12. ~HookRaises(out, new)
  BY <1>1 DEF HookRaises, Closes, NoneActive, ActiveItems
<1> QED BY <1>5, <1>7, <1>8, <1>9, <1>10, <1>11, <1>12

\* A boundary that closes the submission: no item stays active.
LEMMA ClosesItem ==
    ASSUME ItemsInv, NEW out \in Outcomes, NEW seen \in Rows, NEW new \in Row,
           Fits(row, items, out), Closes(out), new.status # "awaiting_external",
           MaxAttempts \in Nat \ {0}
    PROVE  LET after == Cancelled(ItemChange(out, seen, new), row, new, new.step # row.step)
           IN  /\ ~HookRaises(out, new) /\ Evolves(items, after)
               /\ Answers(new, after) /\ Counted(after) /\ Spent(out, items, after)
<1> DEFINE i == out.item
           its == [items EXCEPT ![i].status = Verdict(out)]
<1>1. /\ items \in Seq(Items) /\ i \in DOMAIN items /\ items[i].status = "submitted"
      /\ items[i].attempt = out.attempt /\ ~Opens(out, new)
      /\ Answers(row, items) /\ Counted(items)
  BY DEF ItemsInv, TypeOK, Fits, Opens
<1>2. Verdict(out) \in {"accepted", "exhausted", "rejected"} BY DEF Verdict
<1>3. Verdict(out) = "rejected" => out.attempt < MaxAttempts
  BY DEF Verdict, Exhausted, Outcomes
<1>4. Verdict(out) = "accepted" <=> out.kind \in {"ok", "degraded"}
  BY DEF Verdict, Closes
<1>5. items[i] \in Items /\ i \in 1 .. Len(items) /\ DOMAIN items = 1 .. Len(items)
      /\ Len(items) \in Nat /\ i # 0
  BY <1>1, ItemType, LenProperties
<1>6. i = Len(items) BY <1>1 DEF Answers, Active
<1>7. [items[i] EXCEPT !.status = Verdict(out)] \in Items
  BY <1>2, <1>5 DEF Items, ItemStatus
<1>8. /\ its \in Seq(Items) /\ Len(its) = Len(items)
      /\ \A j \in 1 .. Len(items) :
            its[j] = IF j = i THEN [items[i] EXCEPT !.status = Verdict(out)] ELSE items[j]
  BY <1>1, <1>5, <1>7, ExceptSeq
<1>9. DOMAIN its = 1 .. Len(items) BY <1>8, LenProperties
<1>10. ItemChange(out, seen, new) = its BY <1>1 DEF ItemChange
<1> HIDE DEF its
<1>11. /\ its[i].status = Verdict(out)
       /\ \A j \in 1 .. Len(items) : its[j].step = items[j].step
                                     /\ its[j].attempt = items[j].attempt
                                     /\ its[j].token = items[j].token
                                     /\ its[j].by = items[j].by
                                     /\ its[j].submitter = items[j].submitter
       /\ \A j \in 1 .. Len(items) : j # i => its[j].status = items[j].status
  <2>1. LET item == [items[i] EXCEPT !.status = Verdict(out)]
        IN  /\ item.status = Verdict(out) /\ item.step = items[i].step
            /\ item.attempt = items[i].attempt /\ item.token = items[i].token
            /\ item.by = items[i].by /\ item.submitter = items[i].submitter
    BY <1>5 DEF Items
  <2> QED BY <1>5, <1>8, <2>1
<1>12. NoneActive(its)
  BY <1>1, <1>2, <1>5, <1>6, <1>9, <1>11 DEF NoneActive, Answers, Active
<1>13. Cancelled(its, row, new, new.step # row.step) = its
  BY <1>8, <1>12, NothingCancelled DEF NoneActive, CancelsOn
<1>14. Counted(its)
  <2>1. \A j \in 1 .. Len(items) :
           /\ its[j].status = items[j].status \/ j = Len(items)
           /\ its[j].status = "rejected" => items[j].attempt < MaxAttempts
    BY <1>1, <1>3, <1>5, <1>6, <1>11 DEF Counted
  <2> QED BY <1>1, <1>8, <1>11, <2>1, CountedKept
<1>15. Answers(new, its) BY <1>12 DEF Answers, NoneActive, Active
<1>16. Evolves(items, its) BY <1>1, <1>2, <1>5, <1>8, <1>9, <1>11 DEF Evolves
<1>17. Spent(out, items, its)
  <2>1. out.kind \in {"ok", "degraded"} => its[i].status = "accepted" BY <1>4, <1>11
  <2>2. \A j \in DOMAIN items : items[j].status # "accepted" /\ its[j].status = "accepted" =>
           out.kind \in {"ok", "degraded"}
    BY <1>4, <1>5, <1>11
  <2> QED BY <1>1, <2>1, <2>2 DEF Spent
<1>18. ~HookRaises(out, new) BY <1>1 DEF HookRaises
<1> QED BY <1>10, <1>13, <1>14, <1>15, <1>16, <1>17, <1>18

\* Any other boundary: what it leaves behind is cancelled.
LEMMA OtherBoundary ==
    ASSUME ItemsInv, row.status \in Executing, NEW out \in Outcomes, NEW seen \in Rows,
           NEW new \in Row, Fits(row, items, out), ~Closes(out), ~Opens(out, new),
           new.status # "awaiting_external"
    PROVE  LET after == Cancelled(ItemChange(out, seen, new), row, new, new.step # row.step)
           IN  /\ ~HookRaises(out, new) /\ Evolves(items, after)
               /\ Answers(new, after) /\ Counted(after) /\ Spent(out, items, after)
<1>1. /\ items \in Seq(Items) /\ row \in Row /\ Answers(row, items) /\ Counted(items)
      /\ row.status \notin Terminal /\ row.status # "awaiting_external"
  BY Statuses DEF ItemsInv, TypeOK, Row
<1>2. ItemChange(out, seen, new) = items BY DEF ItemChange
<1> DEFINE after == Cancelled(items, row, new, new.step # row.step)
<1>3. Evolves(items, after) /\ Counted(after) BY <1>1, CancelledEvolves
<1>4. Answers(new, after) BY <1>1, CancelledAnswers
<1>5. ~HookRaises(out, new) BY DEF HookRaises
<1> HIDE DEF after
<1>6. Spent(out, items, after)
  <2>1. out.kind \in {"ok", "degraded"} => out.item = 0 BY DEF Closes
  <2>2. \A i \in DOMAIN items :
           after[i].status = "accepted" /\ items[i].status # "accepted" => FALSE
    <3>1. \A i \in DOMAIN items :
             /\ after[i] = IF CancelsOn(items[i], row, new, new.step # row.step)
                           THEN [items[i] EXCEPT !.status = "cancelled"] ELSE items[i]
             /\ items[i] \in Items
      BY <1>1, CancelledFacts, ItemType DEF after
    <3> QED BY <3>1 DEF Items
  <2> QED BY <2>1, <2>2 DEF Spent
<1> QED BY <1>2, <1>3, <1>4, <1>5, <1>6 DEF after

\* The boundary of a claim, as it is written: its hook does not raise, and row and items are
\* those of a task that moved, waits or ended as a whole.
LEMMA BoundaryWritten ==
    ASSUME ItemsInv, ExternalAssumption, NEW k \in Tokens, worker[k].pc = "commit",
           FinishMatches(row, worker[k].seen, k)
    PROVE  LET seen == worker[k].seen
               out == worker[k].out
               new == ExternalBoundary(row, seen, out)
               after == Cancelled(ItemChange(out, seen, new), row, new, new.step # row.step)
           IN  /\ ~HookRaises(out, new) /\ Evolves(items, after)
               /\ Answers(new, after) /\ Counted(after) /\ Spent(out, items, after)
               /\ seen.step = row.step /\ Fits(row, items, out) /\ row \in Row
               /\ seen \in Rows /\ out \in Outcomes /\ row.status \in Executing
<1> DEFINE seen == worker[k].seen
           out == worker[k].out
           new == ExternalBoundary(row, seen, out)
<1>1. /\ row \in Row /\ row.status \in Executing /\ worker[k] \in Workers
      /\ Fits(row, items, out) /\ seen.step = row.step
  BY LiveExecutes DEF Live, Knows
<1>2. seen \in Rows /\ out \in Outcomes BY <1>1 DEF Workers
<1>3. MaxAttempts \in Nat \ {0} BY DEF ExternalAssumption
<1>4. FinishMatches(row, seen, k) OBVIOUS
<1> HIDE DEF seen, out
<1>5. /\ new \in Row
      /\ new.status = "awaiting_external" =>
            out.kind \in {"awaits", "rewaits"} /\ new.step = row.step
  BY <1>1, <1>2, <1>4, BoundaryFacts
<1> HIDE DEF new
<1>6. CASE Opens(out, new)
  <2>1. new.step = row.step BY <1>5, <1>6 DEF Opens
  <2> QED BY <1>1, <1>2, <1>3, <1>5, <1>6, <2>1, OpensItem DEF seen, out, new
<1>7. CASE Closes(out)
  <2>1. new.status # "awaiting_external" BY <1>5, <1>7 DEF Closes
  <2> QED BY <1>1, <1>2, <1>3, <1>5, <1>7, <2>1, ClosesItem DEF seen, out, new
<1>8. CASE ~Opens(out, new) /\ ~Closes(out)
  <2>1. new.status # "awaiting_external" BY <1>1, <1>5, <1>8 DEF Opens, Fits
  <2> QED BY <1>1, <1>2, <1>5, <1>8, <2>1, OtherBoundary DEF seen, out, new
<1> QED BY <1>6, <1>7, <1>8

\* A worker writes its boundary and is gone, or reads the row again.
LEMMA FinishWriteKeeps ==
    ASSUME ItemsInv, ExternalAssumption, NEW k \in Tokens, FinishWrite(k)
    PROVE  ItemsInv'
<1> DEFINE seen == worker[k].seen
           out == worker[k].out
           new == ExternalBoundary(row, seen, out)
           after == Cancelled(ItemChange(out, seen, new), row, new, new.step # row.step)
<1>1. Live(k) BY DEF FinishWrite, Live
<1>2. worker[k] \in Workers /\ Knows(row, items, worker[k]) /\ row.token = k
  BY <1>1, LiveExecutes
<1>3. CASE ~FinishMatches(row, seen, k)
  <2> DEFINE w == [worker[k] EXCEPT !.pc = "finish", !.seen = BlankRow]
  <2>1. worker' = [worker EXCEPT ![k] = w] BY <1>3 DEF FinishWrite
  <2>2. BlankRow \in Rows BY IdleWorker
  <2>3. w \in Workers /\ Knows(row, items, w)
    BY <1>2, <2>2 DEF Workers, Knows, FinishWrite
  <2>4. w.pc = "finish" BY <1>2 DEF Workers
  <2>5. UNCHANGED <<row, items, claims, client, tickets, request>>
    BY <1>3 DEF FinishWrite
  <2> HIDE DEF w
  <2> QED BY <1>1, <2>1, <2>3, <2>4, <2>5, WorkerLooks DEF FinishWrite
<1>4. CASE FinishMatches(row, seen, k)
  <2>1. /\ ~HookRaises(out, new) /\ Evolves(items, after)
        /\ Answers(new, after) /\ Counted(after)
        /\ seen.step = row.step /\ row \in Row /\ seen \in Rows /\ out \in Outcomes
    BY <1>4, BoundaryWritten DEF FinishWrite
  <2>2. /\ new \in Row /\ new.token = 0 /\ ~new.term /\ new.status \notin Executing
    BY <1>4, <2>1, BoundaryFacts
  <2>3. /\ row' = new /\ items' = after /\ worker' = [worker EXCEPT ![k] = Idle("gone")]
        /\ UNCHANGED <<claims, client, tickets, request>>
    BY <1>4, <2>1 DEF FinishWrite
  <2> HIDE DEF seen, out, new, after
  <2>4. Idle("gone") \in Workers /\ Idle("gone").pc = "gone"
        /\ \A r, its : Knows(r, its, Idle("gone"))
    BY IdleWorker DEF Idle
  <2>5. worker \in [Tokens -> Workers] BY DEF ItemsInv, TypeOK
  <2>6. \A l \in Tokens : worker'[l] = IF l = k THEN Idle("gone") ELSE worker[l]
    BY <2>3, <2>5
  <2>7. \A l \in Tokens : worker'[l].pc \in {"none", "gone"}
    BY <1>2, <2>4, <2>6 DEF ItemsInv, Held, Live
  <2>8. TypeOK' BY <2>1, <2>2, <2>3, <2>4, <2>5 DEF ItemsInv, TypeOK, Evolves, Row
  <2>9. Held'
    BY <2>2, <2>3, <2>4, <2>6, <2>7, <1>2 DEF ItemsInv, Held, TypeOK, Live, FinishWrite
  <2>10. Informed' BY <2>7 DEF Informed, Knows
  <2>11. Tickets' /\ SubmittedByClaimant' BY <2>1, <2>3, EvolvesKeeps
  <2>12. Requests' BY <2>3 DEF ItemsInv, Requests
  <2> QED BY <2>1, <2>3, <2>8, <2>9, <2>10, <2>11, <2>12 DEF ItemsInv
<1> QED BY <1>3, <1>4

---------------------------------------------------------------------------
(* The executor.                                                            *)

\* Without a live worker nobody has found out anything.
LEMMA NobodyInformed ==
    ASSUME ItemsInv, \A k \in Tokens : ~Live(k), UNCHANGED worker
    PROVE  Informed'
BY DEF Informed, Knows, Live

\* Nobody lives while the task does not execute, or when the worker of its claim is gone.
LEMMA NobodyLives ==
    ASSUME ItemsInv, row.status \notin Executing \/ worker[row.token].pc = "gone"
    PROVE  \A k \in Tokens : ~Live(k)
BY DEF ItemsInv, Held, Live, Tokens

\* A claim starts a worker for a task that nobody executes.
LEMMA ClaimKeeps ==
    ASSUME ItemsInv, ExternalAssumption, Claim
    PROVE  ItemsInv'
<1> DEFINE k == claims + 1
<1>1. /\ row \in Row /\ row.status \notin Executing /\ ~row.term /\ claims \in Nat
      /\ k \in Tokens /\ k \in Nat /\ MaxClaims \in Nat /\ claims' = k
      /\ worker \in [Tokens -> Workers]
  BY DEF Claim, ItemsInv, Held, TypeOK, Row, Tokens, ExternalAssumption, Executing
<1>2. /\ row' \in Row /\ row'.token = k /\ ~row'.term /\ row'.step = row.step
      /\ row'.status = "running"
  BY <1>1, ClaimedFacts DEF Claim
<1>3. Idle("start") \in Workers /\ Idle("start").pc = "start"
      /\ \A r, its : Knows(r, its, Idle("start"))
  BY IdleWorker DEF Idle
<1>4. worker' = [worker EXCEPT ![k] = Idle("start")]
      /\ UNCHANGED <<items, client, tickets, request>>
  BY DEF Claim
<1>5. \A l \in Tokens : worker'[l] = IF l = k THEN Idle("start") ELSE worker[l]
  BY <1>1, <1>4
<1>6. \A l \in Tokens : ~Live(l) BY <1>1, NobodyLives
<1> HIDE DEF k
<1>7. TypeOK' BY <1>1, <1>2, <1>3, <1>4 DEF ItemsInv, TypeOK, Row, Tokens
<1>8. Held'
  <2>1. row'.token \in 0 .. claims' BY <1>1, <1>2
  <2>2. \A l \in Tokens : worker'[l].pc \notin {"none", "gone"} => l = k
    BY <1>3, <1>5, <1>6 DEF Live
  <2>3. \A l \in Tokens : l > k => worker'[l].pc = "none"
    BY <1>1, <1>5 DEF ItemsInv, Held, k, Tokens
  <2> QED BY <1>1, <1>2, <2>1, <2>2, <2>3 DEF Held, Live, Executing
<1>9. Informed' BY <1>3, <1>5, <1>6 DEF Informed, Knows, Live
<1>10. Answers(row', items')
  BY <1>1, <1>2, <1>4 DEF ItemsInv, Answers, Claim, Terminal
<1>11. Requests' /\ Tickets' /\ Counted(items') /\ SubmittedByClaimant'
  BY <1>4 DEF ItemsInv, Requests, Tickets, SubmittedByClaimant
<1> QED BY <1>7, <1>8, <1>9, <1>10, <1>11 DEF ItemsInv

\* A transition of a task without a worker, together with the items it leaves behind.
LEMMA TaskMoves ==
    ASSUME ItemsInv, UNCHANGED <<worker, claims, client, tickets>>,
           NEW moved \in BOOLEAN, items' = Cancelled(items, row, row', moved),
           \A k \in Tokens : ~Live(k), row' \in Row, Requests', TypeOK',
           row'.token = 0, ~row'.term, row'.status \notin Executing,
           moved \/ row'.step = row.step,
           \/ row'.status \in Terminal
           \/ /\ row.status \notin Terminal
              /\ row'.status = "awaiting_external" <=> row.status = "awaiting_external"
              /\ moved => row.status # "awaiting_external"
    PROVE  ItemsInv'
<1>1. items \in Seq(Items) /\ row \in Row /\ Answers(row, items) /\ Counted(items)
  BY DEF ItemsInv, TypeOK, Row
<1>2. Evolves(items, items') /\ Counted(items') BY <1>1, CancelledEvolves
<1>3. Answers(row', items') BY <1>1, CancelledAnswers
<1>4. Tickets' /\ SubmittedByClaimant' BY <1>2, EvolvesKeeps
<1>5. Informed' BY NobodyInformed
<1>6. claims \in Nat BY DEF ItemsInv, TypeOK
<1>7. Held' BY <1>6 DEF ItemsInv, Held, Live
<1> QED BY <1>2, <1>3, <1>4, <1>5, <1>7 DEF ItemsInv

\* Skipping a step cancels what was submitted for it.
LEMMA SkipStepKeeps ==
    ASSUME ItemsInv, SkipStep
    PROVE  ItemsInv'
<1>1. row \in Row /\ row.status = "queued" /\ items \in Seq(Items)
  BY DEF SkipStep, ItemsInv, TypeOK, Row
<1>2. row.token = 0 /\ ~row.term BY <1>1 DEF ItemsInv, Held, Executing, Row
<1>3. /\ row' \in Row /\ row'.token = 0 /\ ~row'.term
      /\ \/ IsLast(row.step) /\ row'.step = row.step /\ row'.status = "completed"
         \/ ~IsLast(row.step) /\ row'.step = row.step + 1 /\ row'.status = "queued"
  BY <1>1, <1>2, SkippedFacts DEF SkipStep
<1>4. items' = Cancelled(items, row, row', ~IsLast(row.step))
      /\ UNCHANGED <<worker, claims, client, tickets, request>>
  BY DEF SkipStep
<1>5. items' \in Seq(Items) BY <1>1, <1>4, CancelledFacts
<1>6. TypeOK' BY <1>3, <1>4, <1>5 DEF ItemsInv, TypeOK, Row
<1>7. Requests' BY <1>4 DEF ItemsInv, Requests
<1>8. \A k \in Tokens : ~Live(k) BY <1>1, NobodyLives DEF Executing
<1>9. (~IsLast(row.step)) \in BOOLEAN BY DEF IsLast
<1> QED BY <1>1, <1>3, <1>4, <1>6, <1>7, <1>8, <1>9, TaskMoves DEF Executing, Terminal

\* Settling cancels the items of a task that ends.
LEMMA SettleKeeps ==
    ASSUME ItemsInv, Settle
    PROVE  ItemsInv'
<1>1. row \in Row /\ row.status \in Executing /\ items \in Seq(Items)
  BY DEF Settle, ItemsInv, TypeOK, Row
<1>2. /\ row' \in Row /\ row'.token = 0 /\ ~row'.term /\ row'.step = row.step
      /\ row'.status \in {"terminated", "paused", "manual_required", "queued"}
  BY <1>1, SettledFacts DEF Settle
<1>3. items' = Cancelled(items, row, row', FALSE)
      /\ UNCHANGED <<worker, claims, client, tickets, request>>
  BY DEF Settle
<1>4. items' \in Seq(Items) BY <1>1, <1>3, CancelledFacts
<1>5. TypeOK' BY <1>2, <1>3, <1>4 DEF ItemsInv, TypeOK, Row
<1>6. Requests' BY <1>3 DEF ItemsInv, Requests
<1>7. \A k \in Tokens : ~Live(k) BY NobodyLives DEF Settle
<1> QED BY <1>1, <1>2, <1>3, <1>5, <1>6, <1>7, TaskMoves DEF Executing, Terminal

\* Requeueing and the clock leave the items alone.
LEMMA RequeueAndClockKeep ==
    ASSUME ItemsInv, Requeue \/ DelayEnds
    PROVE  ItemsInv'
<1>1. /\ row \in Row /\ row' \in Row /\ row'.step = row.step /\ row'.token = row.token
      /\ row'.term = row.term
      /\ \/ row'.status = row.status
         \/ row.status = "failed" /\ row'.status = "queued"
      /\ UNCHANGED <<items, worker, claims, client, tickets, request>>
  BY DEF Requeue, DelayEnds, Requeued, ItemsInv, TypeOK, Row, Status
<1>2. TypeOK' BY <1>1 DEF ItemsInv, TypeOK, Row
<1>3. row.status = "failed" => ~row.term /\ row.token = 0
  BY <1>1 DEF ItemsInv, Held, Executing
<1>4. Held' BY <1>1, <1>3 DEF ItemsInv, Held, Live
<1>5. Informed' BY <1>1 DEF ItemsInv, Informed, Knows, Fits
<1>6. Answers(row', items') BY <1>1 DEF ItemsInv, Answers, Terminal
<1>7. Requests' /\ Tickets' /\ Counted(items') /\ SubmittedByClaimant'
  BY <1>1 DEF ItemsInv, Requests, Tickets, SubmittedByClaimant
<1> QED BY <1>2, <1>4, <1>5, <1>6, <1>7 DEF ItemsInv

---------------------------------------------------------------------------
(* The clients.                                                             *)

\* A change of one item that can be answered, and of what clients hold of it: the item stays
\* active, so the task goes on waiting for it, or has its submission.
LEMMA ItemMoves ==
    ASSUME ItemsInv, NEW i \in DOMAIN items, NEW item \in Items,
           items' = [items EXCEPT ![i] = item],
           item.step = items[i].step, item.attempt = items[i].attempt,
           items[i].status \in {"open", "claimed"}, item.status \in Active,
           UNCHANGED <<worker, claims, request>>, TypeOK', Tickets',
           item.status = "submitted" => item.submitter = item.by /\ item.by # NoClient,
           row' = row \/ row' = [row EXCEPT !.status = "queued"],
           row'.status = "awaiting_external" <=> item.status \in {"open", "claimed"}
    PROVE  ItemsInv'
<1>1. /\ items \in Seq(Items) /\ row \in Row /\ Answers(row, items) /\ Counted(items)
      /\ row.status = "awaiting_external"
  BY DEF ItemsInv, TypeOK, Row, Answers
<1>2. i = Len(items) /\ items[i].step = row.step BY <1>1 DEF Answers, Active
<1>3. i \in 1 .. Len(items) /\ DOMAIN items = 1 .. Len(items) /\ Len(items) \in Nat
  BY <1>1, ItemType, LenProperties
<1>4. /\ items' \in Seq(Items) /\ Len(items') = Len(items)
      /\ \A j \in 1 .. Len(items) : items'[j] = IF j = i THEN item ELSE items[j]
  BY <1>1, <1>3, ExceptSeq
<1>5. DOMAIN items' = 1 .. Len(items) BY <1>4, LenProperties
<1>6. Counted(items')
  <2>1. item.status # "rejected" BY DEF Active
  <2> QED BY <1>1, <1>2, <2>1, CountedWith
<1>7. row'.step = row.step /\ row'.status \notin Terminal /\ row'.status \notin Executing
      /\ row'.token = row.token /\ row'.term = row.term
  BY <1>1 DEF Row, Terminal, Executing
<1>8. Answers(row', items')
  <2>1. \A j \in 1 .. Len(items) : j # i => items[j].status \notin Active
    BY <1>1, <1>2, <1>3 DEF Answers
  <2>2. \A j \in DOMAIN items' : items'[j].status \in Active => j = i
    BY <1>4, <1>5, <2>1
  <2>3. (\E j \in DOMAIN items' : items'[j].status \in {"open", "claimed"}) <=>
           item.status \in {"open", "claimed"}
    BY <1>3, <1>4, <1>5, <2>2 DEF Active
  <2> QED BY <1>2, <1>3, <1>4, <1>7, <2>2, <2>3 DEF Answers
<1>9. SubmittedByClaimant'
  <2> SUFFICES ASSUME NEW j \in 1 .. Len(items),
                      items'[j].status \in {"submitted", "accepted", "rejected", "exhausted"}
               PROVE  items'[j].submitter = items'[j].by /\ items'[j].by # NoClient
    BY <1>5 DEF SubmittedByClaimant
  <2>1. CASE j = i BY <1>4, <2>1 DEF Active
  <2>2. CASE j # i BY <1>3, <1>4, <2>2 DEF ItemsInv, SubmittedByClaimant
  <2> QED BY <2>1, <2>2
<1>10. Held' BY <1>1, <1>7 DEF ItemsInv, Held, Live, Executing
<1>11. Informed' BY <1>1, NobodyLives, NobodyInformed DEF Executing
<1>12. Requests' BY DEF ItemsInv, Requests
<1> QED BY <1>6, <1>8, <1>9, <1>10, <1>11, <1>12 DEF ItemsInv

\* The new ticket is held by the client that claimed the item.
LEMMA ClaimItemKeeps ==
    ASSUME ItemsInv, ExternalAssumption, NEW c \in Clients, NEW i \in DOMAIN items,
           ClaimItem(c, i)
    PROVE  ItemsInv'
<1> DEFINE item == [items[i] EXCEPT !.status = "claimed", !.by = c, !.token = tickets + 1]
<1>1. /\ items \in Seq(Items) /\ tickets \in Nat /\ client \in [Clients -> Clientele]
      /\ items[i].status = "open" /\ tickets < MaxTickets /\ MaxTickets \in Nat
  BY DEF ItemsInv, TypeOK, ClaimItem, Claimable, ExternalAssumption
<1>2. items[i] \in Items /\ i \in 1 .. Len(items) /\ i \in Nat BY <1>1, ItemType
<1>3. /\ item \in Items /\ item.status = "claimed" /\ item.by = c /\ item.token = tickets + 1
      /\ item.step = items[i].step /\ item.attempt = items[i].attempt
  <2>1. tickets + 1 \in Nat BY <1>1
  <2>2. "claimed" \in ItemStatus BY DEF ItemStatus, Active
  <2> QED BY <1>2, <2>1, <2>2 DEF Items
<1>4. /\ items' = [items EXCEPT ![i] = item] /\ row' = row
      /\ row.status = "awaiting_external" /\ UNCHANGED <<worker, claims, request>>
      /\ tickets' = tickets + 1
  BY DEF ClaimItem, Claimable
<1> HIDE DEF item
<1>5. items' \in Seq(Items) /\ DOMAIN items' = DOMAIN items
      /\ \A j \in DOMAIN items : items'[j] = IF j = i THEN item ELSE items[j]
  BY <1>1, <1>2, <1>3, <1>4, ExceptSeq, LenProperties
<1>6. \A b \in Clients : client'[b] = IF b = c
                                    THEN [item |-> i, token |-> tickets + 1, submitting |-> FALSE]
                                    ELSE client[b]
  BY <1>1 DEF ClaimItem
<1>7. TypeOK'
  <2>1. client' \in [Clients -> Clientele] BY <1>1, <1>2 DEF ClaimItem, Clientele
  <2>2. tickets' \in 0 .. MaxTickets BY <1>1, <1>4
  <2> QED BY <1>4, <1>5, <2>1, <2>2 DEF ItemsInv, TypeOK
<1>8. Tickets'
  <2> SUFFICES ASSUME NEW b \in Clients
               PROVE  /\ client'[b].submitting => client'[b].token # 0
                      /\ client'[b].token # 0 =>
                            /\ client'[b].token <= tickets'
                            /\ client'[b].item \in DOMAIN items'
                            /\ items'[client'[b].item].status = "claimed"
                                /\ items'[client'[b].item].token = client'[b].token =>
                                  items'[client'[b].item].by = b
    BY DEF Tickets
  <2>1. CASE b = c BY <1>1, <1>3, <1>4, <1>5, <1>6, <2>1
  <2>2. CASE b # c
    <3>1. client'[b] = client[b] /\ client[b].token \in Nat
      BY <1>1, <1>6, <2>2 DEF Clientele
    <3>2. client[b].token # 0 => client[b].token <= tickets /\ client[b].item \in DOMAIN items
      BY DEF ItemsInv, Tickets
    <3>3. client[b].token # tickets + 1 BY <1>1, <3>1, <3>2
    <3> QED BY <1>1, <1>3, <1>4, <1>5, <3>1, <3>2, <3>3 DEF ItemsInv, Tickets
  <2> QED BY <2>1, <2>2
<1> QED BY <1>1, <1>3, <1>4, <1>7, <1>8, ItemMoves DEF Active

\* A reopened item is an item that can be answered.
LEMMA Reopens ==
    ASSUME ItemsInv, NEW i \in DOMAIN items, items[i].status = "claimed", UNCHANGED row,
           items' = Reopened(i), UNCHANGED <<worker, claims, tickets, request>>,
           client' \in [Clients -> Clientele],
           \A b \in Clients : client'[b] = client[b] \/ client'[b] = NoTicket
    PROVE  ItemsInv'
<1> DEFINE item == [items[i] EXCEPT !.status = "open", !.by = NoClient, !.token = 0]
<1>1. items \in Seq(Items) BY DEF ItemsInv, TypeOK
<1>2. items[i] \in Items /\ i \in 1 .. Len(items) BY <1>1, ItemType
<1>3. /\ item \in Items /\ item.status = "open"
      /\ item.step = items[i].step /\ item.attempt = items[i].attempt
  BY <1>2 DEF Items, ItemStatus, Active
<1>4. items' = [items EXCEPT ![i] = item] BY DEF Reopened
<1> HIDE DEF item
<1>5. items' \in Seq(Items) /\ DOMAIN items' = DOMAIN items
      /\ \A j \in DOMAIN items : items'[j] = IF j = i THEN item ELSE items[j]
  BY <1>1, <1>2, <1>3, <1>4, ExceptSeq, LenProperties
<1>6. TypeOK' BY <1>5 DEF ItemsInv, TypeOK
<1>7. Tickets'
  <2> SUFFICES ASSUME NEW b \in Clients
               PROVE  /\ client'[b].submitting => client'[b].token # 0
                      /\ client'[b].token # 0 =>
                            /\ client'[b].token <= tickets'
                            /\ client'[b].item \in DOMAIN items'
                            /\ items'[client'[b].item].status = "claimed"
                                /\ items'[client'[b].item].token = client'[b].token =>
                                  items'[client'[b].item].by = b
    BY DEF Tickets
  <2>1. CASE client'[b] = NoTicket BY <2>1 DEF NoTicket
  <2>2. CASE client'[b] = client[b]
    BY <1>3, <1>5, <2>2 DEF ItemsInv, Tickets
  <2> QED BY <2>1, <2>2
<1>8. row.status = "awaiting_external" BY DEF ItemsInv, Answers
<1> QED BY <1>3, <1>4, <1>6, <1>7, <1>8, ItemMoves DEF Active

\* An operator frees a claimed item.
LEMMA FreeItemKeeps ==
    ASSUME ItemsInv, NEW i \in DOMAIN items, FreeItem(i)
    PROVE  ItemsInv'
<1>1. client' \in [Clients -> Clientele] BY DEF FreeItem, ItemsInv, TypeOK
<1> QED BY <1>1, Reopens DEF FreeItem, Freeable

\* What a client holds.
LEMMA TicketType ==
    ASSUME NEW held \in Clientele, NEW b \in BOOLEAN
    PROVE  LET new == [held EXCEPT !.submitting = b]
           IN  /\ NoTicket \in Clientele /\ new \in Clientele
               /\ new.submitting = b /\ new.token = held.token
BY DEF Clientele, NoTicket

\* A client that changes only what it holds.
LEMMA ClientOnly ==
    ASSUME ItemsInv, client' \in [Clients -> Clientele], Tickets',
           UNCHANGED <<row, items, worker, claims, tickets, request>>
    PROVE  ItemsInv'
<1>1. TypeOK' BY DEF ItemsInv, TypeOK
<1>2. Held' /\ Informed' /\ Requests' /\ SubmittedByClaimant'
  BY DEF ItemsInv, Held, Live, Informed, Requests, SubmittedByClaimant
<1> QED BY <1>1, <1>2 DEF ItemsInv

\* A client gives its ticket back; the item is reopened if the ticket is still the item's.
LEMMA ReleaseItemKeeps ==
    ASSUME ItemsInv, NEW c \in Clients, ReleaseItem(c)
    PROVE  ItemsInv'
<1> DEFINE i == client[c].item
<1>1. client \in [Clients -> Clientele] /\ i \in DOMAIN items
  BY DEF ItemsInv, TypeOK, Tickets, ReleaseItem
<1>2. /\ client' = [client EXCEPT ![c] = NoTicket]
      /\ UNCHANGED <<row, worker, claims, tickets, request>>
  BY DEF ReleaseItem
<1>3. client' \in [Clients -> Clientele]
      /\ \A b \in Clients : client'[b] = client[b] \/ client'[b] = NoTicket
  BY <1>1, <1>2 DEF NoTicket, Clientele
<1>4. CASE items[i].status = "claimed" /\ items[i].token = client[c].token
  <2>1. items' = Reopened(i) BY <1>4 DEF ReleaseItem
  <2> HIDE DEF i
  <2> QED BY <1>1, <1>2, <1>3, <1>4, <2>1, Reopens
<1>5. CASE ~(items[i].status = "claimed" /\ items[i].token = client[c].token)
  <2>1. items' = items BY <1>5 DEF ReleaseItem
  <2>2. Tickets' BY <1>2, <1>3, <2>1 DEF ItemsInv, Tickets, NoTicket
  <2> QED BY <1>2, <1>3, <2>1, <2>2, ClientOnly
<1> QED BY <1>4, <1>5

\* A submission begins, or is refused.
LEMMA SubmitReadsKeeps ==
    ASSUME ItemsInv, NEW c \in Clients, SubmitReads(c)
    PROVE  ItemsInv'
<1>1. client \in [Clients -> Clientele] /\ client[c].token # 0
  BY DEF ItemsInv, TypeOK, SubmitReads
<1>2. PICK held \in {[client[c] EXCEPT !.submitting = TRUE], NoTicket} :
         client' = [client EXCEPT ![c] = held]
  BY DEF SubmitReads
<1>0. client[c] \in Clientele BY <1>1
<1>3. held \in Clientele BY <1>0, <1>2, TicketType
<1>4. \A b \in Clients : client'[b] = IF b = c THEN held ELSE client[b] BY <1>1, <1>2
<1>5. \/ held.token = 0 /\ ~held.submitting
      \/ held.token = client[c].token /\ held.item = client[c].item
  BY <1>0, <1>2 DEF NoTicket, Clientele
<1>6. Tickets' BY SMTT(30), <1>1, <1>4, <1>5 DEF ItemsInv, Tickets, SubmitReads
<1>7. client' \in [Clients -> Clientele] BY <1>1, <1>2, <1>3
<1> QED BY <1>6, <1>7, ClientOnly DEF SubmitReads

\* A submission is written by the client whose ticket the item carries, while the task waits,
\* or nothing is written.
LEMMA SubmitWritesKeeps ==
    ASSUME ItemsInv, ExternalAssumption, NEW c \in Clients, SubmitWrites(c)
    PROVE  ItemsInv'
<1> DEFINE i == client[c].item
           held == IF row.status = "awaiting_external" THEN NoTicket
                   ELSE [client[c] EXCEPT !.submitting = FALSE]
<1>1. /\ client \in [Clients -> Clientele] /\ client[c].token # 0 /\ i \in DOMAIN items
      /\ items \in Seq(Items) /\ row \in Row
      /\ items[i].status = "claimed" /\ items[i].token = client[c].token => items[i].by = c
  BY DEF ItemsInv, TypeOK, Tickets, SubmitWrites, Row
<1>2. /\ client' = [client EXCEPT ![c] = held]
      /\ UNCHANGED <<worker, claims, tickets, request>>
  BY DEF SubmitWrites
<1>3. held \in {NoTicket, [client[c] EXCEPT !.submitting = FALSE]} OBVIOUS
<1> HIDE DEF held
<1>8. client[c] \in Clientele BY <1>1
<1>9. held \in Clientele BY <1>3, <1>8, TicketType
<1>10. ~held.submitting BY <1>3, <1>8 DEF NoTicket, Clientele
<1>11. \/ held.token = 0
       \/ held.token = client[c].token /\ held.item = client[c].item
  <2>1. CASE held = NoTicket BY <2>1 DEF NoTicket
  <2>2. CASE held = [client[c] EXCEPT !.submitting = FALSE]
    <3>1. held.token = client[c].token BY <1>8, <2>2 DEF Clientele
    <3>2. held.item = client[c].item BY <1>8, <2>2 DEF Clientele
    <3> QED BY <3>1, <3>2
  <2> QED BY <1>3, <2>1, <2>2
<1>4. client' \in [Clients -> Clientele] BY <1>1, <1>2, <1>9
<1>5. \A b \in Clients : client'[b] = IF b = c THEN held ELSE client[b] BY <1>1, <1>2
<1>6. CASE ~(row.status = "awaiting_external" /\ SubmitMatches(i, client[c].token))
  <2>1. UNCHANGED <<row, items>> BY <1>6 DEF SubmitWrites
  <2>2. Tickets' BY <1>2, <1>5, <1>10, <1>11, <2>1 DEF ItemsInv, Tickets
  <2> QED BY <1>2, <1>4, <2>1, <2>2, ClientOnly
<1>7. CASE row.status = "awaiting_external" /\ SubmitMatches(i, client[c].token)
  <2> DEFINE item == [items[i] EXCEPT !.status = "submitted", !.submitter = c]
  <2>1. items[i].status = "claimed" /\ items[i].by = c BY <1>1, <1>7 DEF SubmitMatches
  <2>2. items[i] \in Items /\ i \in 1 .. Len(items) BY <1>1, ItemType
  <2>3. /\ item \in Items /\ item.status = "submitted" /\ item.submitter = c /\ item.by = c
        /\ item.step = items[i].step /\ item.attempt = items[i].attempt
    BY <2>1, <2>2 DEF Items, ItemStatus, Active
  <2>4. /\ items' = [items EXCEPT ![i] = item] /\ row' = [row EXCEPT !.status = "queued"]
    BY <1>7 DEF SubmitWrites
  <2>5. c # NoClient BY DEF ExternalAssumption
  <2> HIDE DEF item, i
  <2>6. items' \in Seq(Items) /\ DOMAIN items' = DOMAIN items
        /\ \A j \in DOMAIN items : items'[j] = IF j = i THEN item ELSE items[j]
    BY <1>1, <2>2, <2>3, <2>4, ExceptSeq, LenProperties
  <2>7. row' \in Row /\ row'.status = "queued" BY <1>1, <2>4 DEF Row, Status
  <2>8. TypeOK' BY <1>2, <1>4, <2>6, <2>7 DEF ItemsInv, TypeOK, Row
  <2>9. Tickets'
    <3> SUFFICES ASSUME NEW b \in Clients
                 PROVE  /\ client'[b].submitting => client'[b].token # 0
                        /\ client'[b].token # 0 =>
                              /\ client'[b].token <= tickets'
                              /\ client'[b].item \in DOMAIN items'
                              /\ items'[client'[b].item].status = "claimed"
                                  /\ items'[client'[b].item].token = client'[b].token =>
                                    items'[client'[b].item].by = b
      BY DEF Tickets
    <3>1. CASE b = c
      <4>1. client'[b] = NoTicket BY <1>5, <1>7, <3>1 DEF held
      <4> QED BY <4>1 DEF NoTicket
    <3>2. CASE b # c
      <4>1. client'[b] = client[b] BY <1>5, <3>2
      <4> QED BY <1>2, <2>3, <2>6, <4>1 DEF ItemsInv, Tickets
    <3> QED BY <3>1, <3>2
  <2> QED BY <1>1, <1>2, <2>1, <2>3, <2>4, <2>5, <2>7, <2>8, <2>9, ItemMoves DEF Active
<1> QED BY <1>6, <1>7

---------------------------------------------------------------------------
(* The users.                                                               *)

\* A user's action is allowed for the status of the row it is taken from.
LEMMA UserReadsKeeps ==
    ASSUME ItemsInv, ExternalAssumption, UserReads
    PROVE  ItemsInv'
<1>1. PICK d \in [act : UserActs, expect : {row.status}, step : {row.step},
                  arg : Steps \cup RetryCaps \cup {0}] :
         Decides(d, row) /\ request' = {d}
  BY DEF UserReads
<1>2. /\ row \in Row /\ d.act \in UserActions /\ d.step \in Steps /\ d.arg \in Nat
      /\ d.expect \in Status \cup {"awaiting_external"}
  <2>1. row \in Row /\ row.step \in Steps /\ row.status \in Status \cup {"awaiting_external"}
    BY DEF ItemsInv, TypeOK, Row
  <2>2. d.act \in UserActs /\ d.expect = row.status /\ d.step = row.step
        /\ d.arg \in Steps \cup RetryCaps \cup {0}
    OBVIOUS
  <2>3. UserActs \subseteq UserActions /\ Steps \subseteq Nat /\ RetryCaps \subseteq Nat
    BY NumStepsAssumption, RetryCapsAssumption DEF ExternalAssumption, Steps
  <2>4. d.act \in UserActions BY <2>2, <2>3
  <2>5. d.arg \in Nat
    <3>1. d.arg \in Steps \/ d.arg \in RetryCaps \/ d.arg = 0 BY <2>2
    <3>2. CASE d.arg \in Steps BY <2>3, <3>2
    <3>3. CASE d.arg \in RetryCaps BY <2>3, <3>3
    <3>4. CASE d.arg = 0 BY <3>4
    <3> QED BY <3>1, <3>2, <3>3, <3>4
  <2>6. d.step \in Steps BY <2>1, <2>2
  <2>7. d.expect \in Status \cup {"awaiting_external"} BY <2>1, <2>2
  <2> QED BY <2>1, <2>4, <2>5, <2>6, <2>7
<1>3. Asked(d) BY <1>1, <1>2 DEF Decides, Asked, UserActions
<1>4. d \in [act : UserActions, expect : Status \cup {"awaiting_external"}, step : Steps,
             arg : Nat]
  BY <1>2
<1>5. UNCHANGED <<row, items, worker, claims, client, tickets>> BY DEF UserReads
<1>6. TypeOK' BY <1>1, <1>4, <1>5 DEF ItemsInv, TypeOK
<1>7. Held' /\ Informed' /\ Tickets' /\ SubmittedByClaimant'
  BY <1>5 DEF ItemsInv, Held, Live, Informed, Tickets, SubmittedByClaimant
<1>8. Requests' BY <1>1, <1>3 DEF Requests
<1> QED BY <1>5, <1>6, <1>7, <1>8 DEF ItemsInv

\* A user's action on a task that a worker has in hand leaves step and items to it; any
\* other one finds nobody at work.
LEMMA UserWritesKeeps ==
    ASSUME ItemsInv, NEW d \in request, UserWrites(d)
    PROVE  ItemsInv'
<1>1. /\ row \in Row /\ items \in Seq(Items) /\ Asked(d)
      /\ d.act \in UserActions /\ d.step \in Steps /\ d.arg \in Nat
  BY DEF ItemsInv, TypeOK, Row, Requests
<1>2. request' = {} /\ UNCHANGED <<worker, claims, client, tickets>> BY DEF UserWrites
<1>3. Requests' BY <1>2 DEF Requests
<1>4. CASE ~StillAsRead(row, d)
  <2>1. UNCHANGED <<row, items>> BY <1>4 DEF UserWrites
  <2>2. TypeOK' BY <1>2, <2>1 DEF ItemsInv, TypeOK
  <2>3. Held' /\ Informed' /\ Tickets' /\ SubmittedByClaimant'
    BY <1>2, <2>1 DEF ItemsInv, Held, Live, Informed, Tickets, SubmittedByClaimant
  <2> QED BY <1>3, <2>1, <2>2, <2>3 DEF ItemsInv
<1>5. CASE StillAsRead(row, d)
  <2> DEFINE moved == d.act \in {"set_step", "force_step"}
  <2>1. row' = Decided(row, d) /\ items' = Cancelled(items, row, row', moved)
    BY <1>5 DEF UserWrites
  <2>2. /\ row' \in Row /\ row'.token = row.token
        /\ row'.term => row'.status \in Executing \/ row.term
        /\ row.status \in Executing => row'.status \in Executing /\ row'.step = row.step
        /\ row'.status \in Executing => row.status \in Executing
        /\ row'.status = "awaiting_external" => row.status = row'.status
        /\ row.status = "awaiting_external" =>
              row'.status \in {"awaiting_external", "terminated"} /\ row'.step = row.step
        /\ row.status \in Terminal => row'.status = row.status
        /\ row'.step # row.step => moved
        /\ moved => row'.status = row.status /\ row'.status \notin Executing \cup Terminal
    BY <1>1, <1>5, <2>1, DecidedFacts
  <2>3. moved => row.status # "awaiting_external"
    BY <1>5 DEF Asked, StillAsRead, ItemsInv, Requests
  <2>4. items' \in Seq(Items) BY <1>1, <2>1, CancelledFacts
  <2>5. TypeOK' BY <1>2, <2>2, <2>4 DEF ItemsInv, TypeOK, Row
  <2> HIDE DEF moved
  <2>6. CASE row.status \in Executing
    <3>1. ~moved /\ row'.status \notin Terminal /\ row.status # "awaiting_external"
      BY <2>2, <2>6, Statuses
    <3>2. items' = items BY <1>1, <2>1, <3>1, NothingCancelled DEF CancelsOn
    <3>3. Held' BY <1>2, <2>2, <2>6 DEF ItemsInv, Held, Live
    <3>4. Informed' BY <1>2, <2>2, <2>6, <3>2 DEF ItemsInv, Informed, Knows, Fits
    <3>5. Answers(row', items')
      BY <2>2, <2>6, <3>1, <3>2 DEF ItemsInv, Answers
    <3>6. Tickets' /\ SubmittedByClaimant' /\ Counted(items')
      BY <1>2, <3>2 DEF ItemsInv, Tickets, SubmittedByClaimant
    <3> QED BY <1>3, <2>5, <3>3, <3>4, <3>5, <3>6 DEF ItemsInv
  <2>7. CASE row.status \notin Executing
    <3>1. row.token = 0 /\ ~row.term BY <2>7 DEF ItemsInv, Held
    <3>2. \A k \in Tokens : ~Live(k) BY <2>7, NobodyLives
    <3>3. /\ row'.token = 0 /\ ~row'.term /\ row'.status \notin Executing
          /\ moved \/ row'.step = row.step
      BY <2>2, <2>7, <3>1
    <3>4. \/ row'.status \in Terminal
          \/ /\ row.status \notin Terminal
             /\ row'.status = "awaiting_external" <=> row.status = "awaiting_external"
             /\ moved => row.status # "awaiting_external"
      BY <2>2, <2>3, <2>7 DEF Terminal
    <3>5. moved \in BOOLEAN BY DEF moved
    <3> QED BY <1>2, <1>3, <2>1, <2>2, <2>5, <3>2, <3>3, <3>4, <3>5, TaskMoves
  <2> QED BY <2>6, <2>7
<1> QED BY <1>4, <1>5

---------------------------------------------------------------------------
(* Acceptance and the boundary.                                             *)

\* A step that accepts no item and takes no executing task forward.
Quiet ==
    /\ \A i \in DOMAIN items : items'[i].status = "accepted" => items[i].status = "accepted"
    /\ row.status \in Executing =>
          row'.step = row.step /\ row'.status \notin {"completed", "partially_completed"}

\* Such a step accepts nothing and leaves nothing.
LEMMA QuietAdvances ==
    ASSUME Quiet
    PROVE  Advances
BY DEF Quiet, Advances

\* Cancelling items accepts none.
LEMMA CancellingIsQuiet ==
    ASSUME ItemsInv, NEW new, NEW moved, items' = Cancelled(items, row, new, moved)
    PROVE  \A i \in DOMAIN items : items'[i].status = "accepted" => items[i].status = "accepted"
<1>1. items \in Seq(Items) BY DEF ItemsInv, TypeOK
<1>2. \A i \in DOMAIN items :
         /\ items'[i] = IF CancelsOn(items[i], row, new, moved)
                        THEN [items[i] EXCEPT !.status = "cancelled"] ELSE items[i]
         /\ items[i] \in Items
  BY <1>1, CancelledFacts, ItemType
<1> QED BY <1>2 DEF Items

\* The executor's own transitions are quiet.
LEMMA ExecutorQuiet ==
    ASSUME ItemsInv, Executor
    PROVE  Quiet
<1>1. row \in Row BY DEF ItemsInv, TypeOK, Row
<1>2. CASE Claim BY <1>2 DEF Claim, Quiet, Executing
<1>3. CASE Requeue BY <1>3 DEF Requeue, Quiet, Executing
<1>4. CASE DelayEnds
  <2>1. row'.step = row.step /\ row'.status = row.status /\ items' = items
    BY <1>1, <1>4 DEF DelayEnds, Row
  <2> QED BY <2>1 DEF Quiet, Executing
<1>5. CASE SkipStep
  <2>1. items' = Cancelled(items, row, row', ~IsLast(row.step)) /\ row.status = "queued"
    BY <1>5 DEF SkipStep
  <2>2. \A i \in DOMAIN items : items'[i].status = "accepted" => items[i].status = "accepted"
    BY <2>1, CancellingIsQuiet
  <2> QED BY <2>1, <2>2 DEF Quiet, Executing
<1>6. CASE Settle
  <2>1. row.status \in Executing /\ row' = Settled(row, row)
        /\ items' = Cancelled(items, row, row', FALSE)
    BY <1>6 DEF Settle
  <2>2. /\ row'.step = row.step
        /\ row'.status \in {"terminated", "paused", "manual_required", "queued"}
    BY <1>1, <2>1, SettledFacts
  <2>3. \A i \in DOMAIN items : items'[i].status = "accepted" => items[i].status = "accepted"
    BY <2>1, CancellingIsQuiet
  <2> QED BY <2>2, <2>3 DEF Quiet
<1> QED BY <1>2, <1>3, <1>4, <1>5, <1>6 DEF Executor

\* So is everything that leaves the row to the worker.
LEMMA UntouchedQuiet ==
    ASSUME UNCHANGED <<row, items>>
    PROVE  Quiet
BY DEF Quiet, Executing

\* What clients and operators do to an item never accepts it, and they touch the task only
\* while it waits.
LEMMA CustomerQuiet ==
    ASSUME ItemsInv, \/ \E c \in Clients : Customer(c)
                     \/ \E i \in DOMAIN items : FreeItem(i)
    PROVE  Quiet
<1>1. \A i \in DOMAIN items : items[i] \in Items BY ItemType DEF ItemsInv, TypeOK
<1>2. ASSUME NEW i \in DOMAIN items, items' = Reopened(i), UNCHANGED row PROVE Quiet
  BY <1>1, <1>2 DEF Reopened, Quiet, Items, Executing
<1>3. ASSUME NEW i \in DOMAIN items, FreeItem(i) PROVE Quiet BY <1>2, <1>3 DEF FreeItem
<1>4. ASSUME NEW c \in Clients, Customer(c) PROVE Quiet
  <2>1. ASSUME NEW i \in DOMAIN items, ClaimItem(c, i) PROVE Quiet
    BY <1>1, <2>1 DEF ClaimItem, Quiet, Items, Executing
  <2>2. CASE ReleaseItem(c)
    <3> DEFINE i == client[c].item
    <3>1. i \in DOMAIN items BY <2>2 DEF ReleaseItem, ItemsInv, Tickets
    <3>2. items' = Reopened(i) \/ items' = items BY <2>2 DEF ReleaseItem
    <3>3. UNCHANGED row BY <2>2 DEF ReleaseItem
    <3> HIDE DEF i
    <3> QED BY <1>2, <3>1, <3>2, <3>3, UntouchedQuiet
  <2>3. CASE SubmitReads(c) BY <2>3, UntouchedQuiet DEF SubmitReads
  <2>4. CASE SubmitWrites(c)
    <3> DEFINE i == client[c].item
    <3>1. i \in DOMAIN items BY <2>4 DEF SubmitWrites, ItemsInv, Tickets
    <3>2. CASE UNCHANGED <<row, items>> BY <3>2, UntouchedQuiet
    <3>3. CASE ~UNCHANGED <<row, items>>
      <4>1. row.status = "awaiting_external"
            /\ items' = [items EXCEPT ![i].status = "submitted", ![i].submitter = c]
        BY <2>4, <3>3 DEF SubmitWrites
      <4> HIDE DEF i
      <4> QED BY <1>1, <3>1, <4>1 DEF Quiet, Items, Executing
    <3> QED BY <3>2, <3>3
  <2> QED BY <1>4, <2>1, <2>2, <2>3, <2>4 DEF Customer
<1> QED BY <1>3, <1>4

\* A user neither accepts an item nor takes an executing task forward.
LEMMA UserQuiet ==
    ASSUME ItemsInv, NEW d \in request, UserWrites(d)
    PROVE  Quiet
<1>1. /\ row \in Row /\ Asked(d)
      /\ d.act \in UserActions /\ d.step \in Steps /\ d.arg \in Nat
  BY DEF ItemsInv, TypeOK, Row, Requests
<1>2. CASE ~StillAsRead(row, d) BY <1>2, UntouchedQuiet DEF UserWrites
<1>3. CASE StillAsRead(row, d)
  <2>1. row' = Decided(row, d)
        /\ items' = Cancelled(items, row, row', d.act \in {"set_step", "force_step"})
    BY <1>3 DEF UserWrites
  <2>2. row.status \in Executing => row'.status \in Executing /\ row'.step = row.step
    BY <1>1, <1>3, <2>1, DecidedFacts
  <2>3. \A i \in DOMAIN items : items'[i].status = "accepted" => items[i].status = "accepted"
    BY <2>1, CancellingIsQuiet
  <2> QED BY <2>2, <2>3 DEF Quiet, Executing
<1> QED BY <1>2, <1>3

\* A boundary accepts the submission of the step it leaves, and only then.
LEMMA BoundaryAdvances ==
    ASSUME ItemsInv, ExternalAssumption, NEW k \in Tokens, FinishWrite(k)
    PROVE  Advances
<1> DEFINE seen == worker[k].seen
           out == worker[k].out
           new == ExternalBoundary(row, seen, out)
           after == Cancelled(ItemChange(out, seen, new), row, new, new.step # row.step)
<1>1. CASE ~FinishMatches(row, seen, k)
  BY <1>1, UntouchedQuiet, QuietAdvances DEF FinishWrite
<1>2. CASE FinishMatches(row, seen, k)
  <2>1. /\ ~HookRaises(out, new) /\ Spent(out, items, after) /\ Fits(row, items, out)
        /\ seen.step = row.step /\ row \in Row /\ seen \in Rows /\ out \in Outcomes
        /\ row.status \in Executing
    BY <1>2, BoundaryWritten DEF FinishWrite
  <2>2. /\ new.step # row.step \/ new.status \in {"completed", "partially_completed"} =>
              out.kind \in {"ok", "degraded"}
        /\ out.kind \in {"ok", "degraded"} => new.step # row.step \/ new.status \in Terminal
    BY <1>2, <2>1, BoundaryFacts
  <2>3. row' = new /\ items' = after BY <1>2, <2>1 DEF FinishWrite
  <2> HIDE DEF new, after, seen, out
  <2>4. row.status \notin Terminal BY <2>1, Statuses
  <2>5. (\E i \in DOMAIN items : items[i].status # "accepted" /\ items'[i].status = "accepted") =>
           \/ row'.step # row.step
           \/ row.status \notin Terminal /\ row'.status \in Terminal
    BY <2>1, <2>2, <2>3, <2>4 DEF Spent
  <2>6. ASSUME row.step \in External,
               row'.step # row.step \/ row'.status \in {"completed", "partially_completed"}
        PROVE  \E i \in DOMAIN items : /\ items[i].status # "accepted"
                                       /\ items'[i].status = "accepted"
                                       /\ items[i].step = row.step
    <3>1. out.kind \in {"ok", "degraded"} /\ out.item # 0
      BY <2>1, <2>2, <2>3, <2>6 DEF Fits
    <3>2. out.item \in DOMAIN items /\ items[out.item].status = "submitted"
      BY <2>1, <3>1 DEF Fits, Closes
    <3>3. items'[out.item].status = "accepted" BY <2>1, <2>3, <3>1 DEF Spent
    <3>4. items[out.item].step = row.step BY <3>2 DEF ItemsInv, Answers, Active
    <3> QED BY <3>2, <3>3, <3>4
  <2> QED BY <2>5, <2>6 DEF Advances
<1> QED BY <1>1, <1>2

\* In every step: what is accepted lets its task leave the step, and an external step is left
\* by its worker only with an acceptance.
LEMMA AcceptedStep ==
    ASSUME ExternalAssumption, ItemsInv, Next
    PROVE  Advances
<1>1. CASE Executor BY <1>1, ExecutorQuiet, QuietAdvances
<1>2. ASSUME NEW k \in Tokens, Work(k) \/ WorkerDies(k) PROVE Advances
  <2>1. CASE FinishWrite(k) BY <2>1, BoundaryAdvances
  <2>2. CASE ~FinishWrite(k)
    <3>1. UNCHANGED <<row, items>>
      BY <1>2, <2>2 DEF Work, WorkerDies, Start, LookForActive, LookForLatest, Validate, Run,
                        FinishRead
    <3> QED BY <3>1, UntouchedQuiet, QuietAdvances
  <2> QED BY <2>1, <2>2
<1>3. CASE (\E c \in Clients : Customer(c)) \/ (\E i \in DOMAIN items : FreeItem(i))
  BY <1>3, CustomerQuiet, QuietAdvances
<1>4. CASE UserReads BY <1>4, UntouchedQuiet, QuietAdvances DEF UserReads
<1>5. ASSUME NEW d \in request, UserWrites(d) PROVE Advances
  BY <1>5, UserQuiet, QuietAdvances
<1> QED BY <1>1, <1>2, <1>3, <1>4, <1>5 DEF Next

---------------------------------------------------------------------------
(* The theorems.                                                            *)

\* A new task has no items and no worker.
LEMMA ItemsInit == ExternalAssumption /\ Init => ItemsInv
<1> SUFFICES ASSUME ExternalAssumption, Init PROVE ItemsInv OBVIOUS
<1>1. PICK cap \in RetryCaps : row = NewRow(cap) BY DEF Init
<1>2. row \in Row /\ row.token = 0 /\ ~row.term /\ row.status = "queued"
  BY <1>1, NumStepsAssumption, RetryCapsAssumption
     DEF NewRow, Row, Status, Steps, NoToken, NoGrant, Grants
<1>3. /\ items = << >> /\ claims = 0 /\ tickets = 0 /\ request = {}
      /\ worker = [k \in Tokens |-> Idle("none")] /\ client = [c \in Clients |-> NoTicket]
      /\ MaxClaims \in Nat /\ MaxTickets \in Nat
  BY DEF Init, ExternalAssumption
<1>4. Idle("none") \in Workers /\ Idle("none").pc = "none" BY IdleWorker DEF Idle
<1>5. NoTicket \in Clientele BY DEF NoTicket, Clientele
<1>6. items \in Seq(Items) /\ DOMAIN items = {} BY <1>3
<1>7. TypeOK BY <1>2, <1>3, <1>4, <1>5, <1>6 DEF TypeOK, Row
<1>8. Held BY <1>2, <1>3, <1>4 DEF Held, Live
<1>9. Tickets BY <1>3 DEF Tickets, NoTicket
<1>10. Answers(row, items) /\ Counted(items) /\ SubmittedByClaimant
  BY <1>2, <1>6 DEF Answers, Counted, SubmittedByClaimant
<1>11. Informed BY <1>3, <1>4 DEF Informed, Knows
<1> QED BY <1>3, <1>7, <1>8, <1>9, <1>10, <1>11 DEF ItemsInv, Requests

\* Every step keeps the invariant.
LEMMA ItemsNext == ExternalAssumption /\ ItemsInv /\ [Next]_vars => ItemsInv'
<1> SUFFICES ASSUME ExternalAssumption, ItemsInv, [Next]_vars PROVE ItemsInv' OBVIOUS
<1>1. CASE Executor
  BY <1>1, ClaimKeeps, SkipStepKeeps, SettleKeeps, RequeueAndClockKeep DEF Executor
<1>2. ASSUME NEW k \in Tokens, Work(k) \/ WorkerDies(k) PROVE ItemsInv'
  BY <1>2, StartKeeps, LookForActiveKeeps, LookForLatestKeeps, ValidateKeeps, RunKeeps,
     FinishReadKeeps, FinishWriteKeeps, WorkerDiesKeeps DEF Work
<1>3. ASSUME NEW c \in Clients, Customer(c) PROVE ItemsInv'
  BY <1>3, ClaimItemKeeps, ReleaseItemKeeps, SubmitReadsKeeps, SubmitWritesKeeps DEF Customer
<1>4. ASSUME NEW i \in DOMAIN items, FreeItem(i) PROVE ItemsInv' BY <1>4, FreeItemKeeps
<1>5. CASE UserReads BY <1>5, UserReadsKeeps
<1>6. ASSUME NEW d \in request, UserWrites(d) PROVE ItemsInv' BY <1>6, UserWritesKeeps
<1>7. CASE UNCHANGED vars
  BY <1>7 DEF vars, ItemsInv, TypeOK, Held, Live, Requests, Tickets, SubmittedByClaimant, Informed
<1> QED BY <1>1, <1>2, <1>3, <1>4, <1>5, <1>6, <1>7 DEF Next

\* At most one item is active, and the task waits exactly for one that can be answered.
LEMMA AnswersAnswerable == ItemsInv => WaitIsAnswerable
<1> SUFFICES ASSUME ItemsInv PROVE WaitIsAnswerable OBVIOUS
<1>1. ActiveItems \subseteq {Len(items)} BY DEF ItemsInv, Answers, ActiveItems
<1>2. Cardinality(ActiveItems) <= 1
  <2>1. IsFiniteSet({Len(items)}) /\ Cardinality({Len(items)}) = 1 BY FS_Singleton
  <2> QED BY <1>1, <2>1, FS_Subset
<1> QED BY <1>2 DEF WaitIsAnswerable, ItemsInv, Answers, ActiveItems

\* The hook of a boundary whose compare-and-set matches does not raise.
LEMMA HooksKeepQuiet == ExternalAssumption /\ ItemsInv => HooksNeverRaise
BY BoundaryWritten DEF HooksNeverRaise

\* Whatever executor, clients, operators and users do, over any number of deaths of workers:
\* a task waits exactly for an item that can be answered, no boundary fails for its items,
\* what was submitted came from the claimant, and the attempts are counted.
THEOREM ItemsCorrect ==
    ASSUME ExternalAssumption
    PROVE  Spec => []ItemsAreAnswered
<1>1. ItemsInv => ItemsAreAnswered
  BY AnswersAnswerable, HooksKeepQuiet, CountedAttempts DEF ItemsInv, ItemsAreAnswered, TypeOK
<1>2. Init => ItemsInv BY ItemsInit
<1>3. ItemsInv /\ [Next]_vars => ItemsInv' BY ItemsNext
<1> QED BY <1>1, <1>2, <1>3, PTL DEF Spec

\* An external step is passed only with an accepted submission, and each acceptance lets one
\* task leave one step, whatever clients, operators and users do meanwhile.
THEOREM AcceptancesAdvance ==
    ASSUME ExternalAssumption
    PROVE  Spec => AcceptedAdvances
<1>1. Init => ItemsInv BY ItemsInit
<1>2. ItemsInv /\ [Next]_vars => ItemsInv' BY ItemsNext
<1>3. ItemsInv /\ [Next]_vars => [Advances]_vars BY AcceptedStep
<1> QED BY <1>1, <1>2, <1>3, PTL DEF Spec, AcceptedAdvances

=============================================================================

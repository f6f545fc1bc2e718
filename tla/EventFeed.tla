------------------------------- MODULE EventFeed -------------------------------
(***************************************************************************)
(* The event log and those who follow it from other processes: events are  *)
(* written inside the transactions that change the tasks, and a follower   *)
(* asks for what comes after the last id it was given (event_log.py,       *)
(* views.py event_feed_view, cli.py events).                               *)
(***************************************************************************)
EXTENDS Naturals, FiniteSets

CONSTANTS
  Writers,     \* connections that write events
  Followers,
  Tasks,
  Limit,       \* events a follower asks for at a time
  MaxEvents    \* bound: ids given out

FeedAssumption == "nobody" \notin Writers /\ Limit \in Nat \ {0} /\ MaxEvents \in Nat

Nobody == "nobody"
AllTasks == "all"

VARIABLES
  writer,    \* the connection that holds the write lock
  last,      \* the last id given out
  open,      \* [writer |-> the events of its transaction]
  log,       \* the committed events
  follows,   \* [follower |-> the task it follows, or all]
  cursor,    \* [follower |-> the cursor it was given last]
  got        \* [follower |-> the ids it was given]

vars == <<writer, last, open, log, follows, cursor, got>>

Init ==
  /\ writer = Nobody /\ last = 0
  /\ open = [w \in Writers |-> {}]
  /\ log = {}
  /\ follows \in [Followers -> Tasks \cup {AllTasks}]
  /\ cursor = [f \in Followers |-> 0]
  /\ got = [f \in Followers |-> {}]

--------------------------------------------------------------------------------
\* Mutant: two transactions write at the same time.
NoLock(w) == TRUE
\* The first write of a transaction takes the database's write lock.
MayWrite(w) == writer \in {Nobody, w}

Insert(w) ==
  /\ MayWrite(w) /\ last < MaxEvents
  /\ writer' = w
  /\ last' = last + 1
  /\ \E t \in Tasks : open' = [open EXCEPT ![w] = @ \cup {[id |-> last + 1, task |-> t]}]
  /\ UNCHANGED <<log, follows, cursor, got>>

Commit(w) ==
  /\ open[w] # {}
  /\ log' = log \cup open[w]
  /\ open' = [open EXCEPT ![w] = {}]
  /\ writer' = Nobody
  /\ UNCHANGED <<last, follows, cursor, got>>

First(events) == CHOOSE e \in events : \A d \in events : e.id <= d.id
Latest(events) == CHOOSE e \in events : \A d \in events : d.id <= e.id

\* A failed transaction, or one whose process died: its ids are given out again.
Rollback(w) ==
  /\ open[w] # {}
  /\ last' = First(open[w]).id - 1
  /\ open' = [open EXCEPT ![w] = {}]
  /\ writer' = Nobody
  /\ UNCHANGED <<log, follows, cursor, got>>

--------------------------------------------------------------------------------
Follows(f, e) == follows[f] \in {AllTasks, e.task}
Since(f) == {e \in log : e.id > cursor[f] /\ Follows(f, e)}

\* ORDER BY id LIMIT: the events with the smallest ids.
FirstOf(events) == {e \in events : Cardinality({d \in events : d.id < e.id}) < Limit}

\* Mutant: the cursor moves to the newest event there is.
NewestId(f, events) == IF log = {} THEN cursor[f] ELSE Latest(log).id
\* The id of the last event returned, or the cursor given when nothing is.
NextCursor(f, events) == IF events = {} THEN cursor[f] ELSE Latest(events).id

Poll(f) ==
  LET events == FirstOf(Since(f)) IN
  /\ cursor' = [cursor EXCEPT ![f] = NextCursor(f, events)]
  /\ got' = [got EXCEPT ![f] = @ \cup {e.id : e \in events}]
  /\ UNCHANGED <<writer, last, open, log, follows>>

Next ==
  \/ \E w \in Writers : Insert(w) \/ Commit(w) \/ Rollback(w)
  \/ \E f \in Followers : Poll(f)

Spec == Init /\ [][Next]_vars
FairSpec == Spec /\ \A f \in Followers : WF_vars(Poll(f))

--------------------------------------------------------------------------------
\* Followers were given every committed event they follow up to their cursor and nothing
\* else, while transactions are open, are rolled back and their ids are given out again;
\* what they are given next is newer, so they get each once and in order (event_log.py: "a
\* client in another process can follow progress by remembering the last id it saw").
NothingMissed ==
  \A f \in Followers :
    got[f] = {e.id : e \in {d \in log : d.id <= cursor[f] /\ Follows(f, d)}}

Due(f, n) == \E e \in log : e.id = n /\ Follows(f, e)
Given(f, n) == n \in got[f]
================================================================================

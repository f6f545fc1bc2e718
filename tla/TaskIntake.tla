----------------------------- MODULE TaskIntake -----------------------------
(***************************************************************************)
(* Creating tasks: commands.add_task, called by the command line and by    *)
(* plugins, over TaskRepository.create_task and find_active_by_input, and  *)
(* the numbering a store continues when it is opened (ensure_next_id).     *)
(* Each database call is a transaction of its own, and so is each of the   *)
(* statements by which an opener reads before it writes.                   *)
(***************************************************************************)
EXTENDS Integers, Sequences, FiniteSets, FiniteSetsExt

CONSTANTS Caller,     \* calls of add_task() or of opening the store
          Together,   \* bound: how many of them may be under way at once
          First       \* first_task_id of the configuration

IntakeAssumption == Together \in Nat /\ First \in Nat \ {0}

VARIABLES
    tasks,      \* the task rows: [id, input, live]
    seq,        \* the rows of sqlite_sequence named 'tasks', which may be several
    disk,       \* whether the file that inputs name exists
    pc,         \* where each caller is
    input,      \* what each caller adds
    force,      \* whether it passed --force
    seen,       \* what an opener read: whether there was a row, and the highest number
    opened      \* history: an opener has returned that found a row, or none, as it was
                \* when it wrote

vars == <<tasks, seq, disk, pc, input, force, seen, opened>>

\* One file under a relative and an absolute name, and a text that is no path.
Inputs == {"relative", "absolute", "text"}
Free == "free"
Live == {t \in tasks : t.live}
MaxOf(S) == IF S = {} THEN 0 ELSE Max(S)
\* AUTOINCREMENT and ensure_next_id() take the first row there is.
Row == IF seq = <<>> THEN 0 ELSE seq[1]
Ids == {t.id : t \in tasks}
Highest == MaxOf(Ids \cup {Row})

Init ==
    /\ tasks = {} /\ seq = <<>> /\ disk \in BOOLEAN
    /\ pc = [c \in Caller |-> Free]
    /\ input = [c \in Caller |-> "text"] /\ force = [c \in Caller |-> FALSE]
    /\ seen = [c \in Caller |-> [found |-> FALSE, current |-> 0]] /\ opened = FALSE

Busy == {c \in Caller : pc[c] \notin {Free, "done"}}
Enters(c, there) ==
    /\ pc[c] = Free
    /\ Cardinality(Busy) < Together
    /\ pc' = [pc EXCEPT ![c] = there]
Goes(c, here, there) == pc[c] = here /\ pc' = [pc EXCEPT ![c] = there]

-----------------------------------------------------------------------------
(* Opening the store.                                                      *)

\* ensure_next_id() reads the sequence, then the highest id, outside a transaction ...
ReadSequence(c) ==
    /\ Enters(c, "counting")
    /\ seen' = [seen EXCEPT ![c] = [found |-> seq # <<>>, current |-> Row]]
    /\ UNCHANGED <<tasks, seq, disk, input, force, opened>>

ReadHighest(c) ==
    /\ Goes(c, "counting", "numbering")
    /\ seen' = [seen EXCEPT ![c].current = MaxOf(Ids \cup {@})]
    /\ UNCHANGED <<tasks, seq, disk, input, force, opened>>

\* ... and, if that was too low, updates every row if it had found one, or inserts one.  A
\* row that a first task has brought meanwhile then comes before the inserted one.
RaisesARow(c) ==
    IF First - 1 > seen[c].current /\ seen[c].found
    THEN [i \in DOMAIN seq |-> First - 1] ELSE seq

Raised(c) ==
    IF First - 1 <= seen[c].current THEN seq
    ELSE IF seen[c].found THEN [i \in DOMAIN seq |-> First - 1]
    ELSE Append(seq, First - 1)

StillSo(c) == seen[c].found <=> seq # <<>>

RaiseSequence(c) ==
    /\ Goes(c, "numbering", "done")
    /\ seq' = Raised(c)
    /\ opened' = (opened \/ StillSo(c))
    /\ UNCHANGED <<tasks, disk, input, force, seen>>

-----------------------------------------------------------------------------
(* add_task().                                                             *)

\* An input that names an existing file is stored absolutely; any other as it is.
Stored(i) == IF i = "relative" /\ disk THEN "absolute" ELSE i

Add(c) ==
    /\ \E i \in Inputs, f \in BOOLEAN :
          /\ Enters(c, IF f THEN "creating" ELSE "looking")
          /\ input' = [input EXCEPT ![c] = Stored(i)]
          /\ force' = [force EXCEPT ![c] = f]
    /\ UNCHANGED <<tasks, seq, disk, seen, opened>>

LatestOf(i) == {t \in Live : t.input = i /\ \A u \in tasks : u.input = i => u.id <= t.id}
ActiveOf(i) == {t \in Live : t.input = i}

LookForActive(c) ==
    /\ Goes(c, "looking", IF ActiveOf(input[c]) # {} THEN "done" ELSE "creating")
    /\ UNCHANGED <<tasks, seq, disk, input, force, seen, opened>>

\* create_task(): the row, queued, with its event; AUTOINCREMENT numbers it past every id
\* in the table and past the first row of the sequence, where it puts the number.
NextId == Highest + 1

Create(c) ==
    /\ Goes(c, "creating", "done")
    /\ tasks' = tasks \cup {[id |-> NextId, input |-> input[c], live |-> TRUE]}
    /\ seq' = IF seq = <<>> THEN <<NextId>> ELSE [seq EXCEPT ![1] = NextId]
    /\ UNCHANGED <<disk, input, force, seen, opened>>

\* A task reaches a terminal status; nothing brings it back.
Finish(t) ==
    /\ t \in Live
    /\ tasks' = (tasks \ {t}) \cup {[t EXCEPT !.live = FALSE]}
    /\ UNCHANGED <<seq, disk, pc, input, force, seen, opened>>

FileChanges ==
    /\ disk' = ~disk
    /\ UNCHANGED <<tasks, seq, pc, input, force, seen, opened>>

Next ==
    \/ \E c \in Caller :
          ReadSequence(c) \/ ReadHighest(c) \/ RaiseSequence(c)
          \/ Add(c) \/ LookForActive(c) \/ Create(c)
    \/ \E t \in tasks : Finish(t)
    \/ FileChanges

Spec == Init /\ [][Next]_vars

-----------------------------------------------------------------------------
(* Properties.                                                             *)

\* Every variable keeps its type; no two rows share an id.
TypeOK ==
    /\ tasks \in SUBSET [id : Nat \ {0}, input : Inputs, live : BOOLEAN]
    /\ \A t, u \in tasks : t.id = u.id => t = u
    /\ seq \in Seq(Nat) /\ Cardinality(Busy) <= Together
    /\ pc \in [Caller -> {Free, "counting", "numbering", "looking", "creating", "done"}]

Unforced == {c \in Caller : pc[c] \in {"looking", "creating"} /\ ~force[c]}

\* Without --force a second active task for an input is blocked (docs/cli.md): a
\* task is only added while no other is active for the same stored input.
SecondIsBlocked ==
    \A c \in Unforced : pc'[c] = "done" /\ tasks' # tasks
        => \A t \in tasks : t.live => t.input # input[c]

\* A new number is higher than all there are, whoever opens and adds meanwhile.  It is
\* not below first_task_id once a store has been opened, and no other process made the
\* first task between the reads and the write of that opening.
NumbersContinue ==
    \A t \in tasks' : t.id \notin Ids =>
        (opened => t.id >= First) /\ (\A n \in Ids : n < t.id)

\* One active task for an input, if the calls do not overlap; numbers that go on.
IntakeHolds == (Together <= 1 => SecondIsBlocked) /\ NumbersContinue

=============================================================================

------------------------------ MODULE EventBus ------------------------------
(***************************************************************************)
(* The kernel's event bus (kernel/events.py): listeners registered for an  *)
(* event, and its three ways of dispatching one.  A listener is plugin     *)
(* code: while it runs it may register and remove listeners, dispatch      *)
(* events of its own, call the rest of a waterfall's chain, return or      *)
(* raise.  Nothing here is concurrent: the difficulty is that all of it    *)
(* happens inside a dispatch that is still under way.                      *)
(***************************************************************************)
EXTENDS Integers, Sequences, SequencesExt

CONSTANTS Listener,      \* registrations: one element per call of on()
          Event,
          Modes,         \* the dispatch modes of this instance
          Depth,         \* bound: calls on the stack
          Dispatches     \* bound: dispatches of the behaviour

VARIABLES
    bus,        \* event -> its listeners, in calling order
    fresh,      \* registrations not made yet
    active,     \* listeners whose `active` flag is set
    stack,      \* the calls under way, the innermost last
    back,       \* what the last call handed back, until it is looked at
    count,      \* dispatches so far
    calls,      \* history: <<dispatch, position>> of every call made
    defaults    \* history: the dispatches whose default ran, once per run

vars == <<bus, fresh, active, stack, back, count, calls, defaults>>

EventBusAssumption ==
    Modes \subseteq {"emit", "bail", "waterfall"} /\ Depth \in Nat /\ Dispatches \in Nat

\* What a call gives back: nothing (None or False), a result, or an exception.
Values == {"none", "value", "raised"}
Pending == "pending"

(***************************************************************************)
(* A frame is one run of a dispatch loop, or of a waterfall's call(index): *)
(* the list it copied when the dispatch began, the position it is at, and  *)
(* whether the listener there is running and has used its next().          *)
(***************************************************************************)
Frame(d, mode, chain, at) ==
    [id |-> d, mode |-> mode, chain |-> chain, at |-> at, running |-> FALSE, used |-> FALSE]

Top == stack[Len(stack)]
WithTop(f) == [stack EXCEPT ![Len(stack)] = f]
Idle == stack = <<>>
ListenerRuns == ~Idle /\ Top.running /\ back = Pending
LoopRuns == ~Idle /\ ~Top.running

Init ==
    /\ bus = [e \in Event |-> <<>>]
    /\ active = {} /\ fresh = Listener
    /\ stack = <<>> /\ back = Pending
    /\ count = 0 /\ calls = <<>> /\ defaults = <<>>

-----------------------------------------------------------------------------
(* Registration.                                                           *)

Placed(e, l, prepend) == IF prepend THEN <<l>> \o bus[e] ELSE Append(bus[e], l)

On(l, e, prepend) ==
    /\ Idle \/ ListenerRuns
    /\ l \in fresh
    /\ fresh' = fresh \ {l}
    /\ active' = active \cup {l}
    /\ bus' = [bus EXCEPT ![e] = Placed(e, l, prepend)]
    /\ UNCHANGED <<stack, back, count, calls, defaults>>

Without(s, l) ==
    IF l \in ToSet(s) THEN RemoveAt(s, CHOOSE i \in 1..Len(s) : s[i] = l) ELSE s

\* The disposer of a registration: the flag first, then the list.
Off(l) ==
    /\ Idle \/ ListenerRuns
    /\ l \in active
    /\ active' = active \ {l}
    /\ bus' = [e \in Event |-> Without(bus[e], l)]
    /\ UNCHANGED <<fresh, stack, back, count, calls, defaults>>

-----------------------------------------------------------------------------
(* Dispatching.                                                            *)

\* emit(), bail() or waterfall(), by the program or by a listener.
Dispatch(mode, e) ==
    /\ Idle \/ ListenerRuns
    /\ count < Dispatches /\ Len(stack) < Depth
    /\ count' = count + 1
    /\ stack' = Append(stack, Frame(count + 1, mode, bus[e], 1))
    /\ UNCHANGED <<bus, fresh, active, back, calls, defaults>>

\* Inactive listeners of the copied list are passed over.
SkipsNobody(f) == f.at
Skips(f) == IF \E k \in f.at..Len(f.chain) : f.chain[k] \in active
            THEN CHOOSE k \in f.at..Len(f.chain) :
                    /\ f.chain[k] \in active
                    /\ \A j \in f.at..(k - 1) : f.chain[j] \notin active
            ELSE Len(f.chain) + 1

NextListener ==
    /\ LoopRuns
    /\ LET k == Skips(Top)
       IN /\ k <= Len(Top.chain)
          /\ stack' = WithTop([Top EXCEPT !.at = k, !.running = TRUE])
          /\ calls' = Append(calls, <<Top.id, k, Top.chain[k]>>)
    /\ UNCHANGED <<bus, fresh, active, back, count, defaults>>

\* The frame ends and hands `v` to whoever called it.
Leave(v) ==
    /\ stack' = Front(stack)
    /\ back' = IF Len(stack) = 1 THEN Pending ELSE v

\* The end of the list: emit and bail give nothing, a waterfall its default.
EndOfChain ==
    /\ LoopRuns
    /\ Skips(Top) > Len(Top.chain)
    /\ IF Top.mode = "waterfall"
       THEN /\ defaults' = Append(defaults, Top.id)
            /\ \E v \in {"value", "raised"} : Leave(v)
       ELSE Leave("none") /\ UNCHANGED defaults
    /\ UNCHANGED <<bus, fresh, active, count, calls>>

CallsNextAgain ==
    /\ ListenerRuns /\ Top.mode = "waterfall"
    /\ Len(stack) < Depth
    /\ stack' = Append(WithTop([Top EXCEPT !.used = TRUE]),
                       Frame(Top.id, Top.mode, Top.chain, Top.at + 1))
    /\ UNCHANGED <<bus, fresh, active, back, count, calls, defaults>>

NextPassesOne ==
    /\ ListenerRuns /\ Top.mode = "waterfall"
    /\ ~Top.used /\ Len(stack) < Depth
    /\ stack' = Append(WithTop([Top EXCEPT !.used = TRUE]),
                       Frame(Top.id, Top.mode, Top.chain, Top.at + 2))
    /\ UNCHANGED <<bus, fresh, active, back, count, calls, defaults>>

\* A listener of a waterfall calls next(): the rest of the chain, the first time;
\* an exception into the listener, every other time.
CallNext ==
    /\ ListenerRuns /\ Top.mode = "waterfall"
    /\ IF Top.used
       THEN back' = "raised" /\ UNCHANGED stack
       ELSE /\ Len(stack) < Depth
            /\ stack' = Append(WithTop([Top EXCEPT !.used = TRUE]),
                               Frame(Top.id, Top.mode, Top.chain, Top.at + 1))
            /\ UNCHANGED back
    /\ UNCHANGED <<bus, fresh, active, count, calls, defaults>>

\* The listener receives what its call gave, or catches what it raised, and goes on.
Receives ==
    /\ ~Idle /\ Top.running /\ back # Pending
    /\ back' = Pending
    /\ UNCHANGED <<bus, fresh, active, stack, count, calls, defaults>>

EmitStopsOnError(mode, v) == mode = "waterfall" \/ (mode = "bail" /\ v # "none") \/ v = "raised"

\* What its dispatch makes of a listener's end: an emit logs an exception and goes
\* on, a bail stops at the first result, a waterfall hands the result to the caller.
Concludes(mode, v) ==
    CASE mode = "emit" -> FALSE
      [] mode = "bail" -> v # "none"
      [] mode = "waterfall" -> TRUE

\* The listener ends: it returns, raises, or lets a call's exception through.
Ends(v) ==
    /\ \/ ListenerRuns
       \/ ~Idle /\ Top.running /\ back = "raised" /\ v = "raised"
    /\ IF Concludes(Top.mode, v)
       THEN Leave(v)
       ELSE /\ stack' = WithTop([Top EXCEPT !.at = @ + 1, !.running = FALSE])
            /\ back' = Pending
    /\ UNCHANGED <<bus, fresh, active, count, calls, defaults>>

\* Everything the behaviour may do has been done.
Done == Idle /\ count = Dispatches /\ UNCHANGED vars

Next ==
    \/ \E l \in Listener, e \in Event, prepend \in BOOLEAN : On(l, e, prepend)
    \/ \E l \in Listener : Off(l)
    \/ \E mode \in Modes, e \in Event : Dispatch(mode, e)
    \/ NextListener
    \/ EndOfChain
    \/ CallNext
    \/ Receives
    \/ \E v \in Values : Ends(v)
    \/ Done

Spec == Init /\ [][Next]_vars

-----------------------------------------------------------------------------
(* Properties.                                                             *)

\* Every variable keeps its type; only the innermost call has a listener's answer
\* to look at, and the calls beneath it are listeners waiting for theirs.
TypeOK ==
    /\ \A e \in Event : ToSet(bus[e]) \subseteq active
    /\ active \subseteq Listener \ fresh
    /\ back \in Values \cup {Pending} /\ (Idle => back = Pending)
    /\ count \in 0..Dispatches
    /\ \A i \in 1..(Len(stack) - 1) : stack[i].running

\* However listeners dispatch, register and call next(), no dispatch calls a
\* listener twice or out of order, and no waterfall runs its default twice: a gated
\* step is not executed twice (next_ in EventBus.waterfall, the `used` flag).
CalledOnceInOrder ==
    /\ \A i, j \in 1..Len(calls) :
          i < j /\ calls[i][1] = calls[j][1] => calls[i][2] < calls[j][2]
    /\ \A i, j \in 1..Len(defaults) : defaults[i] = defaults[j] => i = j

\* A listener removed during a dispatch, by any listener at any depth, is skipped
\* for the rest of it, though the dispatch works on a copy of the list (the
\* `active` flag of _Listener).
RemovedIsNotCalled ==
    \A i \in (Len(calls) + 1)..Len(calls') : calls'[i][3] \in active

Reached(f) == \A k \in 1..Len(f.chain) :
                  f.chain[k] \in active => <<f.id, k, f.chain[k]>> \in ToSet(calls)

\* Observers never break the emitter: when an emit ends, every listener it began
\* with that is still registered was called, and no exception comes out of it.
EmitReachesEveryone ==
    Len(stack') < Len(stack) /\ Top.mode = "emit"
        => Reached(Top) /\ back' \in {"none", Pending}

\* A waterfall's default is the innermost call: it runs only when every listener
\* that is still registered was called and passed on with next(); one that returns
\* without it vetoes the default.
DefaultIsInnermost == defaults' # defaults => Reached(Top)

\* What every step keeps.
Orderly ==
    TypeOK' /\ CalledOnceInOrder' /\ RemovedIsNotCalled /\ EmitReachesEveryone /\ DefaultIsInnermost

=============================================================================

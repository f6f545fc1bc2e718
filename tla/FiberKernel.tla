----------------------------- MODULE FiberKernel -----------------------------
(* The plugin kernel of kernel/fiber.py: fibers, the services they provide and    *)
(* inject, and the reconcile loop that keeps the two in step.                     *)
(*                                                                                *)
(* The kernel is single-threaded but deeply re-entrant: loading a plugin notifies *)
(* its dependents, which load, which notify theirs, and each of them may dispose  *)
(* or restart any fiber from inside its own apply or teardown.  The call stack is *)
(* therefore part of the state: `stack' holds one frame per Python call in        *)
(* progress (its top first), and one action models one stretch of a method        *)
(* between two calls.  An exception is a frame of its own that unwinds the stack  *)
(* to the handler the code has.                                                   *)
EXTENDS Naturals, SequencesExt

CONSTANTS
  Plugins,    \* the plugins there are
  Offered,    \* those the application itself may load
  Services,   \* the names they provide and inject
  Inject,     \* what each plugin injects
  Script,     \* what each plugin's apply does, in order
  Calls,      \* the lifecycle calls made on the kernel: by whom decides Reentrant
  Reentrant,  \* whether plugins make such calls from their apply and teardown
  MaxFibers,  \* bound: fibers ever created
  MaxCalls    \* bound: lifecycle calls

FiberAssumption ==
  /\ Inject \in [Plugins -> SUBSET Services]
  /\ Offered \subseteq Plugins
  /\ \A p \in Plugins : \A i \in 1..Len(Script[p]) :
       /\ Script[p][i].op = "provide" => Script[p][i].arg \in Services
       /\ Script[p][i].op = "plugin" => Script[p][i].arg \in Plugins
  /\ Reentrant \in BOOLEAN
  /\ MaxFibers \in Nat /\ MaxCalls \in Nat

VARIABLES
  fibers,   \* every fiber, by uid; 0 is the root
  live,     \* Kernel._fibers, in load order
  effects,  \* Fiber._effects
  impls,    \* Kernel._impls: who provides a name, under which serial
  serial,   \* Kernel._serials
  uids,     \* Kernel._uids
  stack,    \* the calls in progress
  calls     \* lifecycle calls made so far

table == <<live, effects, impls, serial, uids>>
vars == <<fibers, live, effects, impls, serial, uids, stack, calls>>

Root == 0
Fibers == 0..MaxFibers
NoPlugin == "root"

(* An epoch is the set of injected registrations; an optional epoch is a set of   *)
(* at most one epoch, and None is the empty set.                                  *)
None == {}

NewFiber(p, parent) ==
  [plugin |-> p, parent |-> parent, phase |-> "none", loaded |-> None, failed |-> None,
   reconciling |-> FALSE, dirty |-> FALSE, disposed |-> FALSE, asked |-> FALSE]

RootFiber == [NewFiber(NoPlugin, Root) EXCEPT !.loaded = {{}}]
NotCreated == [NewFiber(NoPlugin, Root) EXCEPT !.disposed = TRUE]
NoImpl == [owner |-> Root, serial |-> 0]

Injected(f) == IF fibers[f].plugin = NoPlugin THEN {} ELSE Inject[fibers[f].plugin]

State(f) ==
  IF fibers[f].disposed              THEN "disposed"
  ELSE IF fibers[f].phase # "none"   THEN fibers[f].phase
  ELSE IF fibers[f].loaded # None    THEN "active"
  ELSE IF fibers[f].failed # None    THEN "failed"
  ELSE "pending"

(* The fiber, its parent, and so on up to the root: a parent is older.            *)
Ancestors(f) ==
  LET up[g \in Fibers] == IF g = Root THEN {Root} ELSE {g} \union up[fibers[g].parent]
  IN  up[f]

Usable(n, f) ==
  /\ impls[n].serial # 0
  /\ \A g \in Ancestors(impls[n].owner) :
       State(g) = "active" \/ (State(g) = "loading" /\ g \in Ancestors(f))

Epoch(f) ==
  IF \A n \in Injected(f) : Usable(n, f)
  THEN {{<<n, impls[n].serial>> : n \in Injected(f)}}
  ELSE None

ProvidedWithin(f) ==
  {n \in Services : impls[n].serial # 0 /\ f \in Ancestors(impls[n].owner)}

------------------------------------------------------------------------------
(* Frames.                                                                        *)
Frame(at, f) == [at |-> at, f |-> f]
EpochFrame(at, f, e) == [at |-> at, f |-> f, epoch |-> e, pc |-> 1]
NotifyFrame(names) == [at |-> "notify", names |-> names, todo |-> live]
Raised == [at |-> "raised"]

Idle == stack = <<>>
Top == Head(stack)
At(label) == ~Idle /\ Top.at = label
(* The running call ends and the calls fs take its place, the first on top.       *)
Then(fs) == stack' = fs \o Tail(stack)
Enter(fs) == stack' = fs \o stack

(* A list without x, which is in it at most once.                                 *)
Without(s, x) ==
  IF \E i \in 1..Len(s) : s[i] = x THEN RemoveAt(s, CHOOSE i \in 1..Len(s) : s[i] = x) ELSE s
ChildOf(g) == [kind |-> "child", id |-> g]
ServiceOf(s) == [kind |-> "provide", id |-> s]
Apply0 == [kind |-> "apply", id |-> 0]

------------------------------------------------------------------------------
(* Fiber._reconcile.                                                              *)
Reconcile ==
  /\ At("reconcile")
  /\ LET f == Top.f IN
     \/ /\ fibers[f].disposed
        /\ Then(<<>>)
        /\ UNCHANGED fibers
     \/ /\ ~fibers[f].disposed /\ fibers[f].reconciling
        /\ fibers' = [fibers EXCEPT ![f].dirty = TRUE]
        /\ Then(<<>>)
     \/ /\ ~fibers[f].disposed /\ ~fibers[f].reconciling
        /\ fibers' = [fibers EXCEPT ![f].reconciling = TRUE]
        /\ Then(<<Frame("decide", f)>>)
  /\ UNCHANGED <<table, calls>>

MustUnload(f, desired) == fibers[f].loaded # None /\ desired # fibers[f].loaded

NotCleared(f) == fibers

Cleared(f) == [fibers EXCEPT ![f].dirty = FALSE]

Decide ==
  /\ At("decide")
  /\ LET f == Top.f  desired == Epoch(Top.f) IN
     IF fibers[f].disposed
     THEN fibers' = [fibers EXCEPT ![f].reconciling = FALSE] /\ Then(<<>>)
     ELSE /\ fibers' = Cleared(f)
          /\ Then((IF MustUnload(f, desired) THEN <<Frame("unload", f)>> ELSE <<>>)
                  \o <<EpochFrame("decided", f, desired)>>)
  /\ UNCHANGED <<table, calls>>

MayLoadAnyhow(f, desired) ==
  /\ fibers[f].loaded = None
  /\ desired # fibers[f].failed
  /\ ~fibers[f].disposed

MayLoad(f, desired) ==
  /\ desired # None
  /\ fibers[f].loaded = None
  /\ desired # fibers[f].failed
  /\ ~fibers[f].disposed

Decided ==
  /\ At("decided")
  /\ LET f == Top.f IN
     Then((IF MayLoad(f, Top.epoch) THEN <<EpochFrame("load", f, Top.epoch)>> ELSE <<>>)
          \o <<Frame("again", f)>>)
  /\ UNCHANGED <<fibers, table, calls>>

Again ==
  /\ At("again")
  /\ LET f == Top.f IN
     IF fibers[f].dirty
     THEN Then(<<Frame("decide", f)>>) /\ UNCHANGED fibers
     ELSE Then(<<>>) /\ fibers' = [fibers EXCEPT ![f].reconciling = FALSE]
  /\ UNCHANGED <<table, calls>>

------------------------------------------------------------------------------
(* Fiber._load and the plugin's apply.  The values of the injected services are   *)
(* looked up before the try block: a name that is gone raises out of the kernel.  *)
Load ==
  /\ At("load")
  /\ LET f == Top.f IN
     /\ fibers' = [fibers EXCEPT ![f].phase = "loading", ![f].failed = None]
     /\ IF \A n \in Injected(f) : impls[n].serial # 0
        THEN /\ effects' = [effects EXCEPT ![f] = Append(@, Apply0)]
             /\ Then(<<EpochFrame("apply", f, Top.epoch)>>)
        ELSE /\ Then(<<Raised>>)
             /\ UNCHANGED effects
  /\ UNCHANGED <<live, impls, serial, uids, calls>>

Op == Script[fibers[Top.f].plugin][Top.pc]
Running(op) ==
  /\ At("apply")
  /\ Top.pc <= Len(Script[fibers[Top.f].plugin])
  /\ Op.op = op
Past == [Top EXCEPT !.pc = @ + 1]

(* Kernel._provide: register, record the effect, then notify.                     *)
SameSerial == serial

NextSerial == serial + 1

Register(f, n) ==
  /\ impls' = [impls EXCEPT ![n] = [owner |-> f, serial |-> serial]]
  /\ serial' = NextSerial
  /\ effects' = [effects EXCEPT ![f] = Append(@, ServiceOf(serial))]
  /\ UNCHANGED <<fibers, live, uids>>

ApplyProvides ==
  /\ Running("provide")
  /\ IF impls[Op.arg].serial = 0
     THEN /\ Register(Top.f, Op.arg)
          /\ Then(<<NotifyFrame({Op.arg}), Past>>)
     ELSE Enter(<<Raised>>) /\ UNCHANGED <<fibers, table>>
  /\ UNCHANGED calls

(* Kernel._mount.                                                                 *)
Mount(parent, p) ==
  /\ uids <= MaxFibers
  /\ fibers' = [fibers EXCEPT ![uids] = NewFiber(p, parent)]
  /\ uids' = uids + 1
  /\ live' = Append(live, uids)
  /\ effects' = [effects EXCEPT ![parent] = Append(@, ChildOf(uids))]
  /\ UNCHANGED <<impls, serial>>

ApplyMounts ==
  /\ Running("plugin")
  /\ Mount(Top.f, Op.arg)
  /\ Then(<<Frame("reconcile", uids), Past>>)
  /\ UNCHANGED calls

ApplyFails ==
  /\ Running("fail")
  /\ Enter(<<Raised>>)
  /\ UNCHANGED <<fibers, table, calls>>

AfterApplyQuietly(f) ==
  IF fibers[f].asked THEN Frame("unload", f) ELSE NotifyFrame({})

AfterApply(f) ==
  IF fibers[f].asked THEN Frame("unload", f) ELSE NotifyFrame(ProvidedWithin(f))

ApplyEnds ==
  /\ At("apply") /\ Top.pc > Len(Script[fibers[Top.f].plugin])
  /\ fibers' = [fibers EXCEPT ![Top.f].loaded = Top.epoch, ![Top.f].phase = "none"]
  /\ Then(<<AfterApply(Top.f)>>)
  /\ UNCHANGED <<table, calls>>

------------------------------------------------------------------------------
(* Fiber._unload: dependents first, then every effect, newest first.              *)
NoDependentsFirst(f) == NotifyFrame({})

DependentsFirst(f) == NotifyFrame(ProvidedWithin(f))

Unload ==
  /\ At("unload")
  /\ LET f == Top.f IN
     IF fibers[f].phase = "unloading" \/ fibers[f].loaded = None
     THEN Then(<<>>) /\ UNCHANGED fibers
     ELSE /\ fibers' = [fibers EXCEPT ![f].phase = "unloading"]
          /\ Then(<<DependentsFirst(f), Frame("undo", f)>>)
  /\ UNCHANGED <<table, calls>>

Undo ==
  /\ At("undo")
  /\ Then(<<Frame("disposers", Top.f), Frame("unloaded", Top.f)>>)
  /\ UNCHANGED <<fibers, table, calls>>

(* What undoing one effect calls.  What apply returned (the teardown) exists only  *)
(* when apply ended well.                                                         *)
Named(s) == {n \in Services : impls[n].serial = s}

Disposer(f, e) ==
  CASE e.kind = "child"   -> <<Frame("dispose", e.id)>>
    [] e.kind = "provide" -> IF Named(e.id) = {} THEN <<>> ELSE <<NotifyFrame(Named(e.id))>>
    [] e.kind = "apply"   -> IF fibers[f].loaded = None THEN <<>> ELSE <<Frame("teardown", f)>>

WithdrawnNothing(e) == impls

Withdrawn(e) ==
  [n \in Services |-> IF e.kind = "provide" /\ impls[n].serial = e.id THEN NoImpl ELSE impls[n]]

Newest(f) == effects[f][Len(effects[f])]

Disposers ==
  /\ At("disposers")
  /\ LET f == Top.f IN
     IF effects[f] = <<>>
     THEN Then(<<>>) /\ UNCHANGED <<effects, impls>>
     ELSE LET e == Newest(f) IN
          /\ effects' = [effects EXCEPT ![f] = Without(@, e)]
          /\ impls' = Withdrawn(e)
          /\ Enter(Disposer(f, e))
  /\ UNCHANGED <<fibers, live, serial, uids, calls>>

Teardown ==
  /\ At("teardown")
  /\ Then(<<>>)
  /\ UNCHANGED <<fibers, table, calls>>

DisposeIfAsked(f) == IF fibers[f].asked THEN <<Frame("finalize", f)>> ELSE <<>>

Unloaded ==
  /\ At("unloaded")
  /\ fibers' = [fibers EXCEPT ![Top.f].loaded = None, ![Top.f].phase = "none"]
  /\ Then(DisposeIfAsked(Top.f))
  /\ UNCHANGED <<table, calls>>

(* The rollback of a load that raised ends (its `failed' was set when it raised). *)
RolledBack ==
  /\ At("rolledback")
  /\ fibers' = [fibers EXCEPT ![Top.f].phase = "none"]
  /\ Then(DisposeIfAsked(Top.f))
  /\ UNCHANGED <<table, calls>>

------------------------------------------------------------------------------
(* Fiber.dispose, _finalize_dispose, restart.                                     *)
Dispose ==
  /\ At("dispose")
  /\ LET f == Top.f IN
     \/ fibers[f].disposed /\ Then(<<>>) /\ UNCHANGED fibers
     \/ /\ ~fibers[f].disposed /\ fibers[f].phase # "none"
        /\ fibers' = [fibers EXCEPT ![f].asked = TRUE]
        /\ Then(<<>>)
     \/ /\ ~fibers[f].disposed /\ fibers[f].phase = "none"
        /\ Then(<<Frame("unload", f), Frame("finalize", f)>>)
        /\ UNCHANGED fibers
  /\ UNCHANGED <<table, calls>>

Finalize ==
  /\ At("finalize")
  /\ LET f == Top.f IN
     IF fibers[f].disposed THEN UNCHANGED <<fibers, live, effects>>
     ELSE /\ fibers' = [fibers EXCEPT ![f].disposed = TRUE, ![f].asked = FALSE]
          /\ live' = Without(live, f)
          /\ effects' = [effects EXCEPT ![fibers[f].parent] = Without(@, ChildOf(f))]
  /\ Then(<<>>)
  /\ UNCHANGED <<impls, serial, uids, calls>>

Restart ==
  /\ At("restart")
  /\ LET f == Top.f IN
     Then(IF fibers[f].disposed \/ fibers[f].phase # "none" THEN <<>>
          ELSE <<Frame("unload", f), Frame("retry", f)>>)
  /\ UNCHANGED <<fibers, table, calls>>

Retry ==
  /\ At("retry")
  /\ fibers' = [fibers EXCEPT ![Top.f].failed = None]
  /\ Then(<<Frame("reconcile", Top.f)>>)
  /\ UNCHANGED <<table, calls>>

(* Kernel._notify: over a copy of the fiber list.                                 *)
Notify ==
  /\ At("notify")
  /\ IF Top.todo = <<>> THEN Then(<<>>)
     ELSE LET f == Head(Top.todo)  rest == [Top EXCEPT !.todo = Tail(@)] IN
          Then((IF Injected(f) \intersect Top.names = {} THEN <<>> ELSE <<Frame("reconcile", f)>>)
               \o <<rest>>)
  /\ UNCHANGED <<fibers, table, calls>>

------------------------------------------------------------------------------
(* An exception unwinds to the apply or the disposer it was raised in; the        *)
(* reconcile loop's finally clause runs on the way.  Nothing else cleans up.       *)
Below == IF Len(stack) > 1 THEN stack[2] ELSE [at |-> "host"]
InLoop == Below.at \in {"decide", "decided", "again"}
Catches == {"disposers", "caught"}

Unwind ==
  /\ At("raised")
  /\ \/ /\ Below.at = "apply"
        /\ fibers' = [fibers EXCEPT ![Below.f].phase = "unloading", ![Below.f].failed = Below.epoch]
        /\ stack' = <<Frame("disposers", Below.f), Frame("rolledback", Below.f)>>
                    \o SubSeq(stack, 3, Len(stack))
     \/ /\ Below.at = "host" \/ Below.at \in Catches
        /\ Then(<<>>)
        /\ UNCHANGED fibers
     \/ /\ Below.at \notin Catches \union {"apply", "host"}
        /\ fibers' = IF InLoop THEN [fibers EXCEPT ![Below.f].reconciling = FALSE] ELSE fibers
        /\ stack' = <<Raised>> \o SubSeq(stack, 3, Len(stack))
  /\ UNCHANGED <<table, calls>>

------------------------------------------------------------------------------
(* Lifecycle calls: by the application between two others, and, when Reentrant,   *)
(* by a plugin's own apply or teardown.                                           *)
Caller == Idle \/ (Reentrant /\ (At("apply") \/ At("teardown")))

MayCall(kind) ==
  /\ kind \in Calls
  /\ calls < MaxCalls
  /\ Caller
  /\ calls' = calls + 1

Live == {live[i] : i \in 1..Len(live)}

CallMount ==
  /\ Idle /\ MayCall("mount") /\ fibers[Root].phase = "none"
  /\ \E p \in Offered : Mount(Root, p)
  /\ Enter(<<Frame("reconcile", uids)>>)

CallDispose ==
  /\ MayCall("dispose")
  /\ \E f \in Live : Enter(<<Frame("dispose", f)>>)
  /\ UNCHANGED <<fibers, table>>

CallRestart ==
  /\ MayCall("restart")
  /\ \E f \in Live : Enter(<<Frame("restart", f)>>)
  /\ UNCHANGED <<fibers, table>>

(* The root provides a service of its own.                                        *)
CallProvide ==
  /\ Idle /\ MayCall("provide") /\ fibers[Root].phase = "none"
  /\ \E n \in Services : impls[n].serial = 0 /\ Register(Root, n) /\ Enter(<<NotifyFrame({n})>>)

(* The disposer Kernel._provide returned is called early.                         *)
CallWithdraw ==
  /\ MayCall("withdraw")
  /\ \E n \in Services :
       LET e == ServiceOf(impls[n].serial) IN
       /\ impls[n].serial # 0
       /\ effects' = [effects EXCEPT ![impls[n].owner] = Without(@, e)]
       /\ impls' = Withdrawn(e)
       /\ Enter(<<NotifyFrame({n}), Frame("caught", impls[n].owner)>>)
  /\ UNCHANGED <<fibers, live, serial, uids>>

Caught ==
  /\ At("caught")
  /\ Then(<<>>)
  /\ UNCHANGED <<fibers, table, calls>>

(* Kernel.dispose.                                                                *)
CallClose ==
  /\ Idle /\ MayCall("close")
  /\ fibers' = [fibers EXCEPT ![Root].phase = "unloading"]
  /\ Enter(<<Frame("disposers", Root), Frame("closed", Root)>>)
  /\ UNCHANGED table

Closed ==
  /\ At("closed")
  /\ fibers' = [fibers EXCEPT ![Root].phase = "none"]
  /\ Then(<<>>)
  /\ UNCHANGED <<table, calls>>

------------------------------------------------------------------------------
Init ==
  /\ fibers = [f \in Fibers |-> IF f = Root THEN RootFiber ELSE NotCreated]
  /\ live = <<>>
  /\ effects = [f \in Fibers |-> <<>>]
  /\ impls = [n \in Services |-> NoImpl]
  /\ serial = 1 /\ uids = 1
  /\ stack = <<>> /\ calls = 0

Step ==
  \/ Reconcile \/ Decide \/ Decided \/ Again
  \/ Load \/ ApplyProvides \/ ApplyMounts \/ ApplyFails \/ ApplyEnds
  \/ Unload \/ Undo \/ Disposers \/ Teardown \/ Unloaded \/ RolledBack
  \/ Dispose \/ Finalize \/ Restart \/ Retry \/ Notify \/ Unwind \/ Caught \/ Closed

Call == CallMount \/ CallDispose \/ CallRestart \/ CallProvide \/ CallWithdraw \/ CallClose

Next == Step \/ Call
Spec == Init /\ [][Next]_vars
(* A call in progress runs on: the kernel is synchronous code.                    *)
FairSpec == Spec /\ WF_vars(Step)

------------------------------------------------------------------------------
Epochs == SUBSET (Services \X Nat)

TypeOK ==
  /\ \A f \in Fibers :
       /\ fibers[f].plugin \in Plugins \union {NoPlugin}
       /\ fibers[f].parent \in Fibers
       /\ fibers[f].phase \in {"none", "loading", "unloading"}
       /\ \A e \in fibers[f].loaded \union fibers[f].failed : e \in Epochs
       /\ \A i \in 1..Len(effects[f]) : effects[f][i].kind \in {"apply", "child", "provide"}
  /\ Live \subseteq 1..MaxFibers
  /\ \A n \in Services : impls[n].owner \in Fibers /\ impls[n].serial < serial
  /\ uids \in 1..(MaxFibers + 1) /\ calls \in 0..MaxCalls

Has(f, e) == \E i \in 1..Len(effects[f]) : effects[f][i] = e

(* Once no call is in progress, every plugin is where its services put it: no      *)
(* transition is left half way, no requested dispose is lost, a loaded plugin runs *)
(* against exactly the current registrations, and one that is not loaded either    *)
(* lacks a service or failed against these very registrations.                     *)
Settled ==
  Idle => \A f \in Live :
    /\ fibers[f].phase = "none" /\ ~fibers[f].reconciling /\ ~fibers[f].asked
    /\ fibers[f].loaded # None => fibers[f].loaded = Epoch(f)
    /\ fibers[f].loaded = None => Epoch(f) \in {None, fibers[f].failed}

(* Once no call is in progress nothing is leaked: every service and every plugin   *)
(* is owned by a loaded plugin that will undo it, and a fiber that is gone, failed *)
(* or waiting holds no effect.                                                     *)
NothingLeaks ==
  Idle =>
    /\ \A n \in Services : impls[n].serial # 0 =>
         State(impls[n].owner) = "active" /\ Has(impls[n].owner, ServiceOf(impls[n].serial))
    /\ \A f \in Live : State(fibers[f].parent) = "active" /\ Has(fibers[f].parent, ChildOf(f))
    /\ \A f \in Fibers : State(f) # "active" => effects[f] = <<>>

(* Whatever is called and raised, and wherever a call has got to, nothing is       *)
(* without an owner that undoes it: a registration is an effect of its owner, and  *)
(* only a fiber that is loaded or in transition holds effects.  Between calls no   *)
(* fiber is left reconciling, and one that is not left half way is listed with its *)
(* parent and has no dispose pending.                                              *)
NothingIsOrphaned ==
  /\ \A n \in Services :
       impls[n].serial # 0 => Has(impls[n].owner, ServiceOf(impls[n].serial))
  /\ \A f \in Fibers :
       effects[f] # <<>> => State(f) \in {"active", "loading", "unloading"}
  /\ Idle => \A f \in Fibers \ {Root} :
       /\ ~fibers[f].reconciling
       /\ State(f) \in {"active", "pending", "failed"} =>
            ~fibers[f].asked /\ Has(fibers[f].parent, ChildOf(f))

(* A plugin starts to load only against the registrations of that moment, all of   *)
(* them usable: never against a service that is going or that is still loading.    *)
LoadsAgainstCurrent ==
  \A f \in Fibers :
    fibers[f].phase # "loading" /\ fibers'[f].phase = "loading" =>
      Top.epoch = Epoch(f) /\ Epoch(f) # None

(* While a provider unloads, none of its services is taken away under a plugin     *)
(* outside it that is still loaded against it: dependents go first.                *)
UsedBy(f, n) ==
  State(f) = "active" /\ \E e \in fibers[f].loaded : <<n, impls[n].serial>> \in e
DependentsGoFirst ==
  At("disposers") => \A n \in Services :
    impls[n].serial # 0 /\ impls'[n].serial = 0 /\ fibers[impls[n].owner].loaded # None =>
      \A f \in Live : UsedBy(f, n) => impls[n].owner \in Ancestors(f)

==============================================================================

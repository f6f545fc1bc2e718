------------------------------ MODULE Startup ------------------------------
(***************************************************************************)
(* From the composed entries to a runtime that may execute: mounting the   *)
(* entries (kernel/loader.py), the audit (core/boot.py), ensure_ready()    *)
(* with the import of lazy steps (core/runtime.py, core/steps.py), and the *)
(* change guard that fixes the plugin set (kernel/fiber.py).  The kernel   *)
(* is single-threaded; what happens meanwhile happens in plugin code that  *)
(* one of these calls runs.  How a fiber settles is FiberKernel; here a    *)
(* change to a plugin has any outcome.                                     *)
(***************************************************************************)
EXTENDS Integers, Sequences, SequencesExt

CONSTANTS Plugin,         \* the entries of the composition
          Required,       \* the locked core entries and the profile's `required`
          LoadersCall,    \* whether a lazy step's loader may call back into the kernel
          Depth,          \* bound: calls under way
          Changes         \* bound: plugin changes after boot

StartupAssumption ==
    /\ Required \subseteq Plugin /\ LoadersCall \in BOOLEAN
    /\ Depth \in Nat /\ Changes \in Nat

VARIABLES
    enabled,    \* entries not disabled
    state,      \* of each plugin
    lazy,       \* of each plugin's lazy step: imported, failed, not yet, or none
    phase,      \* of boot
    stack,      \* calls under way after boot, the innermost last
    fixed,      \* the change guard refuses
    closing,    \* Kernel.dispose() has begun
    ready,      \* an ensure_ready() has returned
    changes     \* plugin changes so far

vars == <<enabled, state, lazy, phase, stack, fixed, closing, ready, changes>>

\* `absent` stands for an entry not mounted yet, or disabled.
States == {"absent", "skipped", "pending", "failed", "active", "disposed"}
Lazy == {"none", "unresolved", "imported", "broken"}

\* The step of a plugin is registered while the plugin is active.
Registers(s) == IF s = "active" THEN {"none", "unresolved"} ELSE {"none"}

Init ==
    /\ enabled \in SUBSET Plugin
    /\ state = [p \in Plugin |-> "absent"] /\ lazy = [p \in Plugin |-> "none"]
    /\ phase = "mounting" /\ stack = <<>>
    /\ fixed = FALSE /\ closing = FALSE /\ ready = FALSE /\ changes = 0

-----------------------------------------------------------------------------
(* boot(): mount every enabled entry, then audit.                          *)

\* An entry is skipped (it cannot be imported, or is incompatible) or mounted; what it
\* provides may let entries that were pending load.
Mount(p) ==
    /\ phase = "mounting" /\ p \in enabled /\ state[p] = "absent"
    /\ \E s \in {"skipped", "pending", "failed", "active"}, woken \in SUBSET Plugin :
          /\ \A q \in woken : state[q] = "pending" /\ s = "active"
          /\ state' = [q \in Plugin |-> IF q = p THEN s
                                        ELSE IF q \in woken THEN "active" ELSE state[q]]
    /\ \E l \in [Plugin -> Lazy] :
          /\ \A q \in Plugin : IF state'[q] # state[q] THEN l[q] \in Registers(state'[q])
                                                       ELSE l[q] = lazy[q]
          /\ lazy' = l
    /\ UNCHANGED <<enabled, phase, stack, fixed, closing, ready, changes>>

Mounted == \A p \in enabled : state[p] # "absent"
Active(P) == \A p \in P : state[p] = "active"

Audit ==
    /\ phase = "mounting" /\ Mounted
    /\ phase' = IF Active(Required) THEN "booted" ELSE "refused"
    /\ UNCHANGED <<enabled, state, lazy, stack, fixed, closing, ready, changes>>

-----------------------------------------------------------------------------
(* Plugin changes: load, reload, unload, register or unregister.           *)

Top == stack[Len(stack)]
Changing == \E i \in 1..Len(stack) : stack[i].call = "change"
LoaderRuns == stack # <<>> /\ Top.call = "ready" /\ Top.at = "loading"

\* Who may call now: code embedding RunSpool, an apply or a disposer inside a change,
\* or a lazy step's loader.
CodeRuns ==
    /\ phase = "booted"
    /\ stack # <<>> => Top.call = "change" \/ (LoaderRuns /\ LoadersCall)

\* Kernel._check_change: nothing is checked inside an allowed change.
NotGuarded == TRUE
Allowed == ~fixed \/ closing \/ Changing

\* A refused change raises before anything happens: it leaves no trace here.
BeginChange(p) ==
    /\ CodeRuns /\ p \in enabled /\ state[p] # "skipped"
    /\ changes < Changes /\ Len(stack) < Depth
    /\ Allowed
    /\ changes' = changes + 1
    /\ stack' = Append(stack, [call |-> "change", plugin |-> p])
    /\ UNCHANGED <<enabled, state, lazy, phase, fixed, closing, ready>>

EndChange ==
    /\ stack # <<>> /\ Top.call = "change"
    /\ \E s \in {"pending", "failed", "active", "disposed"} :
          /\ state' = [state EXCEPT ![Top.plugin] = s]
          /\ \E l \in Registers(s) : lazy' = [lazy EXCEPT ![Top.plugin] = l]
    /\ stack' = Front(stack)
    /\ UNCHANGED <<enabled, phase, fixed, closing, ready, changes>>

-----------------------------------------------------------------------------
(* ensure_ready().                                                         *)

IgnoresChanges == Active(enabled)
StartsReady == ~Changing /\ Active(enabled)

\* It refuses while plugins are changing, and unless every entry is active; it takes
\* the names of the steps to import now.
CallReady ==
    /\ CodeRuns /\ Len(stack) < Depth /\ ~closing
    /\ StartsReady
    /\ stack' = Append(stack, [call |-> "ready", at |-> "resolving", failed |-> FALSE,
                               names |-> {p \in Plugin : lazy[p] # "none"}])
    /\ UNCHANGED <<enabled, state, lazy, phase, fixed, closing, ready, changes>>

Resolving == stack # <<>> /\ Top.call = "ready" /\ Top.at = "resolving"
WithTop(f) == [stack EXCEPT ![Len(stack)] = f]

\* LazyStep.resolve() of one name: its loader runs the first time; an error is kept.
\* A name whose step is gone by now raises out of resolve_all().
ResolveNext(p) ==
    /\ Resolving /\ p \in Top.names
    /\ CASE lazy[p] = "none" -> stack' = Front(stack)
         [] lazy[p] = "unresolved" ->
                stack' = WithTop([call |-> "ready", at |-> "loading", plugin |-> p,
                                  names |-> Top.names \ {p}, failed |-> Top.failed])
         [] lazy[p] = "imported" -> stack' = WithTop([Top EXCEPT !.names = @ \ {p}])
         [] lazy[p] = "broken" ->
                stack' = WithTop([Top EXCEPT !.names = @ \ {p}, !.failed = TRUE])
    /\ UNCHANGED <<enabled, state, lazy, phase, fixed, closing, ready, changes>>

\* An error, also one of an import of the same step from inside this one, stays.
LoaderEnds(outcome) ==
    /\ LoaderRuns
    /\ LET p == Top.plugin
           now == IF lazy[p] = "broken" THEN "broken" ELSE outcome
       IN /\ lazy' = [lazy EXCEPT ![p] = IF @ = "none" THEN "none" ELSE now]
          /\ stack' = WithTop([call |-> "ready", at |-> "resolving", names |-> Top.names,
                               failed |-> (Top.failed \/ now = "broken")])
    /\ UNCHANGED <<enabled, state, phase, fixed, closing, ready, changes>>

IgnoresFailures == TRUE
AllImported == ~Top.failed

\* Nothing failed: the plugin set is fixed, and the caller may execute.
EndReady ==
    /\ Resolving /\ Top.names = {}
    /\ stack' = Front(stack)
    /\ IF AllImported THEN fixed' = TRUE /\ ready' = TRUE ELSE UNCHANGED <<fixed, ready>>
    /\ UNCHANGED <<enabled, state, lazy, phase, closing, changes>>

\* Kernel.dispose(): everything unloads, unchecked.
Close ==
    /\ phase = "booted" /\ stack = <<>> /\ ~closing
    /\ closing' = TRUE /\ ready' = FALSE
    /\ state' = [p \in Plugin |-> IF state[p] \in {"absent", "skipped"} THEN state[p]
                                  ELSE "disposed"]
    /\ lazy' = [p \in Plugin |-> "none"]
    /\ UNCHANGED <<enabled, phase, stack, fixed, changes>>

Next ==
    \/ \E p \in Plugin : Mount(p) \/ BeginChange(p) \/ ResolveNext(p)
    \/ Audit \/ EndChange \/ CallReady
    \/ \E outcome \in {"imported", "broken"} : LoaderEnds(outcome)
    \/ EndReady \/ Close

Spec == Init /\ [][Next]_vars

-----------------------------------------------------------------------------
(* Properties.                                                             *)

\* Every variable keeps its type; only active plugins have a step registered, except
\* while a change to them is under way.
TypeOK ==
    /\ state \in [Plugin -> States] /\ lazy \in [Plugin -> Lazy]
    /\ phase \in {"mounting", "booted", "refused"}
    /\ Len(stack) <= Depth /\ changes \in 0..Changes
    /\ (ready => fixed)
    /\ \A p \in Plugin : lazy[p] # "none" => state[p] = "active"

\* Once a runtime may execute, plugins and their steps stay as they are until the
\* kernel is disposed of, though plugin code goes on calling (StartupInfo.fix_plugin_set).
SetIsFixed ==
    ready /\ ready' => state' = state
        /\ \A p \in Plugin : (lazy'[p] = "none") = (lazy[p] = "none")

\* No runtime starts inside a plugin's apply or disposer: when a plugin set is fixed,
\* no change to it is still under way (ensure_ready, plugins_changing).
NothingUnderWay == fixed /\ ~closing => ~Changing

\* A runtime executes only when every enabled plugin is active and every lazy step of
\* theirs imported (the promise of ensure_ready).
ReadyIsComplete ==
    ready => Active(enabled) /\ \A p \in Plugin : lazy[p] \in {"none", "imported"}

\* What every step keeps; loaders that change plugins during the readiness check itself
\* are left to NothingUnderWay.
Complete == TypeOK' /\ NothingUnderWay' /\ SetIsFixed /\ (LoadersCall \/ ReadyIsComplete')

=============================================================================

-------------------------------- MODULE Kernel --------------------------------
(***************************************************************************)
(* The plugin kernel: fibers and services (FiberKernel, whose kernel is the *)
(* one here), the event bus, the composition of the plugins, and the start  *)
(* of a program.  A behaviour is of one part, which its initial state       *)
(* chooses; the variables of the other parts are Unused.                    *)
(***************************************************************************)
EXTENDS FiberKernel

CONSTANTS
    Listener, Event, Modes, Depth, Dispatches,                  \* the event bus
    Profiles, Discovered, Static, DefaultBundles, Patches,      \* the composition
    Locked, Seams, RequiredEntries, NotAFlag, Merge(_, _), ConfigPart, Config, Paths, MaxPatches,
    Entries, Required, LoadersCall, StartDepth, Changes         \* the start

VARIABLES
    part,
    bus, fresh, active, under, back, count, called, defaults,
    layers, entries, written, warned, mounted, composing,
    enabled, state, lazy, phase, pending, fixed, closing, ready, changes

Bus == INSTANCE EventBus WITH stack <- under, calls <- called

Compose == INSTANCE Composition
    WITH phase <- composing, Services <- Seams, Required <- RequiredEntries

Start == INSTANCE Startup WITH stack <- pending, Plugin <- Entries, Depth <- StartDepth

ASSUME KernelAssumption ==
    /\ FiberAssumption /\ Bus!EventBusAssumption
    /\ Compose!CompositionAssumption /\ Start!StartupAssumption

----------------------------------------------------------------------------
(* One part at a time.                                                      *)

Unused == 0

busVars == <<bus, fresh, active, under, back, count, called, defaults>>
composeVars == <<layers, entries, written, warned, mounted, composing>>
startVars == <<enabled, state, lazy, phase, pending, fixed, closing, ready, changes>>
kernelVars == <<part, vars, busVars, composeVars, startVars>>

NoFibers ==
    /\ fibers = Unused /\ live = Unused /\ effects = Unused /\ impls = Unused
    /\ serial = Unused /\ uids = Unused /\ stack = Unused /\ calls = Unused
NoBus ==
    /\ bus = Unused /\ fresh = Unused /\ active = Unused /\ under = Unused
    /\ back = Unused /\ count = Unused /\ called = Unused /\ defaults = Unused
NoCompose ==
    /\ layers = Unused /\ entries = Unused /\ written = Unused
    /\ warned = Unused /\ mounted = Unused /\ composing = Unused
NoStart ==
    /\ enabled = Unused /\ state = Unused /\ lazy = Unused /\ phase = Unused
    /\ pending = Unused /\ fixed = Unused /\ closing = Unused /\ ready = Unused
    /\ changes = Unused

OnlyFibers == UNCHANGED <<part, busVars, composeVars, startVars>>
OnlyBus == UNCHANGED <<part, vars, composeVars, startVars>>
OnlyCompose == UNCHANGED <<part, vars, busVars, startVars>>
OnlyStart == UNCHANGED <<part, vars, busVars, composeVars>>

KernelInit ==
    \/ part = "fibers" /\ Init /\ NoBus /\ NoCompose /\ NoStart
    \/ part = "bus" /\ Bus!Init /\ NoFibers /\ NoCompose /\ NoStart
    \/ part = "compose" /\ Compose!Init /\ NoFibers /\ NoBus /\ NoStart
    \/ part = "start" /\ Start!Init /\ NoFibers /\ NoBus /\ NoCompose

KernelNext ==
    \/ part = "fibers" /\ Next /\ OnlyFibers
    \/ part = "bus" /\ Bus!Next /\ OnlyBus
    \/ part = "compose" /\ Compose!Next /\ OnlyCompose
    \/ part = "start" /\ Start!Next /\ OnlyStart

KernelSpec == KernelInit /\ [][KernelNext]_kernelVars

----------------------------------------------------------------------------
(* A property for each promise of a component: of what is always so, and of *)
(* every step.  A prime makes a state property one of the state each step   *)
(* leads to.                                                                *)

\* events.py: every dispatch calls, once and in order, the listeners that are registered
\* when their turn comes, whatever the listeners do meanwhile.
DispatchIsOrderly == [][part = "bus" => Bus!Orderly]_kernelVars

\* compose.py: the composed entries are what the last layers wrote, nothing is defined
\* twice, what had no effect is warned about, and (boot.py) a program that boots has its
\* core and a provider for every seam.
ComposedAsWritten == part = "compose" => Compose!AsWritten

\* runtime.py: a program executes with a complete set of plugins, and it stays that set.
StartsComplete == [][part = "start" => Start!Complete]_kernelVars
=============================================================================

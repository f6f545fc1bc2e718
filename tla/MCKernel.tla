------------------------------- MODULE MCKernel -------------------------------
(***************************************************************************)
(* The plugin kernel on small instances.  The fibers of Kernel are those of *)
(* plugins that make no calls of their own; the other cases are more such   *)
(* plugins (packs), plugins that call from apply and teardown (nested,      *)
(* restarting, raising), and a start whose step loaders change plugins      *)
(* (loaders).                                                               *)
(***************************************************************************)
EXTENDS Kernel, ConfigMerge, TLC

----------------------------------------------------------------------------
(* Plugins: "front" injects what "base" provides and provides for "leaf";   *)
(* "pack" loads a child that uses a service of its own and one of base's;   *)
(* "rival" provides base's service; "broken" provides, loads, then fails.   *)

Provide(n) == [op |-> "provide", arg |-> n]
Loading(p) == [op |-> "plugin", arg |-> p]
Fail == [op |-> "fail", arg |-> "none"]

SomePlugins == {"base", "front", "leaf", "pack", "inner", "rival", "broken"}

SomeInject ==
  [p \in SomePlugins |->
     CASE p \in {"front", "broken"} -> {"a"}
       [] p = "leaf"  -> {"b"}
       [] p = "inner" -> {"a", "c"}
       [] OTHER       -> {}]

SomeScript ==
  [p \in SomePlugins |->
     CASE p \in {"base", "rival"} -> <<Provide("a")>>
       [] p = "front"  -> <<Provide("b")>>
       [] p = "pack"   -> <<Loading("inner"), Provide("c")>>
       [] p = "broken" -> <<Provide("c"), Loading("inner"), Fail>>
       [] OTHER        -> <<>>]

Packs == INSTANCE FiberKernel
    WITH MaxFibers <- 12, Offered <- {"base", "pack", "broken", "rival"},
         Calls <- {"mount", "dispose", "restart", "close"}

Nested == INSTANCE FiberKernel
    WITH Reentrant <- TRUE, MaxFibers <- 10, MaxCalls <- 5,
         Offered <- {"base", "front", "leaf", "pack"}, Calls <- {"mount", "dispose"}

Restarting == INSTANCE FiberKernel
    WITH Reentrant <- TRUE, Calls <- {"mount", "restart"}

Raising == INSTANCE FiberKernel
    WITH Reentrant <- TRUE, MaxCalls <- 5, Offered <- {"base", "front"},
         Calls <- {"mount", "dispose", "restart", "withdraw"}

----------------------------------------------------------------------------
(* A small distribution: one core entry, one seam, a profile of a few       *)
(* patches, among them a malformed one.                                     *)

Entry(id, plugin, config) ==
    [id |-> id, plugin |-> plugin, config |-> config, disabled |-> FALSE]

CoreInsert ==
    [insert |-> <<Entry("tasks", "tasks", Null), Entry("store", "sqlite", Null)>>]
OtherCore == [insert |-> <<Entry("tasks", "other", Null)>>]
MineInsert ==
    [insert |-> <<Entry("mine", "pack", Mapping([a |-> Mapping([x |-> Leaf("1")])]))>>]

SomePatches ==
  {[id |-> "mine", config |-> Mapping([a |-> Mapping([x |-> Leaf("2")])])],
   [id |-> "mine", config |-> Mapping([a |-> Mapping([y |-> Leaf("1")]), b |-> Leaf("1")])],
   [id |-> "mine", config |-> Mapping([a |-> Leaf("2")])],
   [id |-> "mine", plugin |-> "other", config |-> Mapping([b |-> Leaf("2")])],
   [id |-> "mine", config |-> Null, disabled |-> TRUE],
   [id |-> "store", disabled |-> TRUE],
   [id |-> "tasks", plugin |-> "tasks", disabled |-> TRUE],
   [id |-> "tasks", disabled |-> FALSE],
   [id |-> "mine", disabled |-> NotAFlag],
   [insert |-> <<Entry("late", "sqlite", Null)>>],
   [malformed |-> TRUE]}

SomeStatic == [core |-> <<CoreInsert>>]
SomeDiscovered == [core |-> <<OtherCore>>, mine |-> <<MineInsert>>, fork |-> <<OtherCore>>]
CoreBundle == <<"core">>
SomeProfiles == {<<>>, <<"core", "mine">>, <<"mine", "core">>, <<"fork", "mine">>, <<"gone">>}
SomeSeams == [store |-> {"sqlite", "pack"}]
SomePaths == {<<"a">>, <<"a", "x">>, <<"a", "y">>, <<"b">>}

\* What merging these patches makes of a configuration, and the parts of it.
Leaves == {Null, Leaf("1"), Leaf("2")}
Having(key, values) == {key :> v : v \in values} \cup {<<>>}
Parts == {Mapping(x @@ y) : x \in Having("x", {Leaf("1"), Leaf("2")}), y \in Having("y", {Leaf("1")})}
SomeConfig ==
  {Null} \cup {Mapping(a @@ b) : a \in Having("a", {Leaf("2")} \cup Parts),
                               b \in Having("b", {Leaf("1"), Leaf("2")})}
SomeValues == Leaves \cup Parts \cup SomeConfig

Loaders == INSTANCE Startup
    WITH stack <- pending, Plugin <- Entries, LoadersCall <- TRUE, Depth <- StartDepth, Changes <- 3

ASSUME CasesAssumption ==
    /\ Packs!FiberAssumption /\ Nested!FiberAssumption /\ Restarting!FiberAssumption
    /\ Raising!FiberAssumption /\ Loaders!StartupAssumption

----------------------------------------------------------------------------
(* One case at a time.                                                      *)

CasesInit ==
    \/ KernelInit
    \/ /\ \/ part = "packs" /\ Packs!Init
          \/ part = "nested" /\ Nested!Init
          \/ part = "restarting" /\ Restarting!Init
          \/ part = "raising" /\ Raising!Init
       /\ NoBus /\ NoCompose /\ NoStart
    \/ part = "loaders" /\ Loaders!Init /\ NoFibers /\ NoBus /\ NoCompose

CasesNext ==
    \/ KernelNext
    \/ /\ \/ part = "packs" /\ Packs!Next
          \/ part = "nested" /\ Nested!Next
          \/ part = "restarting" /\ Restarting!Next
          \/ part = "raising" /\ Raising!Next
       /\ OnlyFibers
    \/ part = "loaders" /\ Loaders!Next /\ OnlyStart

\* A call into the kernel in progress runs on: the kernel is synchronous code.
CasesSpec == CasesInit /\ [][CasesNext]_kernelVars /\ WF_vars(part = "raising" /\ Raising!Step)

----------------------------------------------------------------------------
\* Every case keeps its types.
CasesTypeOK ==
    CASE part = "fibers" -> TypeOK
      [] part = "packs" -> Packs!TypeOK
      [] part = "nested" -> Nested!TypeOK
      [] part = "restarting" -> Restarting!TypeOK
      [] part = "raising" -> Raising!TypeOK
      [] OTHER -> TRUE

\* fiber.py: once no call is in progress, every plugin is where its services put it:
\* nothing is half way, no requested dispose is lost, a loaded plugin runs against the
\* current registrations, one that is not loaded lacks a service or failed with these.
AllSettled ==
    /\ part = "fibers" => Settled
    /\ part = "packs" => Packs!Settled
    /\ part = "nested" => Nested!Settled
    /\ part = "restarting" => Restarting!Settled

\* fiber.py, effects: nothing is leaked, whatever raised.  Wherever a call has got to, a
\* service belongs to a plugin that lists it and is loaded or in transition; once no call
\* is in progress, every service and child is owned by a loaded plugin that will undo it.
NothingIsLeaked ==
    /\ part = "packs" => Packs!NothingLeaks /\ Packs!NothingIsOrphaned
    /\ part = "nested" => Nested!NothingLeaks /\ Nested!NothingIsOrphaned
    /\ part = "restarting" => Restarting!NothingIsOrphaned
    /\ part = "raising" => Raising!NothingLeaks /\ Raising!NothingIsOrphaned

\* fiber.py:21: when a provider unloads, its dependents are unloaded first, while its
\* services are still in place; plugins make no calls of their own here.
DependentsGo ==
    /\ part = "fibers" => DependentsGoFirst
    /\ part = "packs" => Packs!DependentsGoFirst

\* fiber.py: whenever no call is in progress each plugin is loaded exactly if what it
\* needs is there, against the present registrations, and nothing is leaked; plugins load
\* against the present, and dependents unload before providers.  runtime.py: the plugin
\* set is never fixed while a change is half done, though step loaders, run by the
\* readiness check itself, call back into the kernel, and once a runtime may execute,
\* plugins and their steps stay.
CasesHold ==
    [][/\ CasesTypeOK' /\ AllSettled' /\ NothingIsLeaked' /\ DependentsGo
       /\ part = "nested" => Nested!LoadsAgainstCurrent
       /\ part = "loaders" => Loaders!Complete]_kernelVars

\* fiber.py, reconcile: plugins that notify each other, and raise, come to rest.
ComesToRest == []<>(part = "raising" => Raising!Idle)

=============================================================================

------------------------------ MODULE Composition ------------------------------
(***************************************************************************)
(* Booting from a profile: the entry list is composed from ordered patch   *)
(* layers (the listed bundles, the profile's steps, its own patch, the     *)
(* overlays), checked, and mounted (kernel/compose.py, core/boot.py).      *)
(***************************************************************************)
EXTENDS ConfigValues, Naturals, SequencesExt

CONSTANTS
  Profiles,        \* the bundle lists a profile may hold
  Discovered,      \* the patches of each installed bundle, by name
  Static,          \* the patches of RunSpool's own bundles, by name
  DefaultBundles,
  Patches,         \* the patches a profile or an overlay may hold
  Locked,          \* the core entries that may not be off
  Services,        \* [service |-> the plugins that provide it]
  Required,        \* the entries the profile requires
  NotAFlag,        \* a value of "disabled" that is neither true nor false
  Merge(_, _),     \* deep_merge()
  ConfigPart,          \* configuration values and their parts
  Config,          \* those of them an entry may have
  Paths,           \* the key paths the properties look at
  MaxPatches       \* bound: patches applied by the profile and the overlays

VARIABLES
  layers,    \* the layers still to apply, as <<source, patches>>
  entries,   \* the entries built so far, in order
  written,   \* history: every patch reached so far, in order
  warned,    \* the positions in written a warning is about
  mounted,   \* [id |-> whether its plugin is active]
  phase      \* "profile", "layers", "mounting", "booted", "refused"

vars == <<layers, entries, written, warned, mounted, phase>>

Has(patch, key) == key \in DOMAIN patch

Ids(es) == {es[i].id : i \in DOMAIN es}
PositionOf(id) == CHOOSE i \in DOMAIN entries : entries[i].id = id

--------------------------------------------------------------------------------
(* One patch.                                                              *)

Refuse ==
  /\ phase' = "refused"
  /\ UNCHANGED <<layers, entries, warned, mounted>>

\* Mutant: an id defined before may be defined again.
DefinesAgain(es) == \A i, j \in DOMAIN es : es[i].id = es[j].id => i = j

\* Inserts define new entries; an id defined before, earlier in the same list too,
\* fails the whole composition.
Defines(es) ==
  /\ \A i \in DOMAIN es : es[i].id \notin Ids(entries)
  /\ \A i, j \in DOMAIN es : es[i].id = es[j].id => i = j

ApplyInsert(patch) ==
  IF Defines(patch.insert)
  THEN /\ entries' = entries \o patch.insert
       /\ UNCHANGED <<warned, mounted, phase>>
  ELSE Refuse

Applies(patch) ==
  /\ patch.id \in Ids(entries)
  /\ Has(patch, "plugin") => patch.plugin = entries[PositionOf(patch.id)].plugin

SetsConfig(patch) == Has(patch, "config") /\ patch.config # Null

\* Mutants: only the configuration of an entry is patched; it is replaced, not merged.
PatchesConfig(e, patch) ==
  [e EXCEPT !.config = IF SetsConfig(patch) THEN Merge(@, patch.config) ELSE @]
ReplacesConfig(e, patch) ==
  [e EXCEPT !.config = IF SetsConfig(patch) THEN patch.config ELSE @,
            !.disabled = IF Has(patch, "disabled") THEN patch.disabled ELSE @]
Patched(e, patch) ==
  [e EXCEPT !.config = IF SetsConfig(patch) THEN Merge(@, patch.config) ELSE @,
            !.disabled = IF Has(patch, "disabled") THEN patch.disabled ELSE @]

\* Mutant: a skipped patch is not warned about.
WarnsOfNull(patch) == Applies(patch) /\ Has(patch, "config") /\ patch.config = Null
Warns(patch) == ~Applies(patch) \/ (Has(patch, "config") /\ patch.config = Null)

BadFlag(patch) == Has(patch, "disabled") /\ patch.disabled = NotAFlag

ApplyModify(patch) ==
  /\ entries' = IF Applies(patch)
                THEN [entries EXCEPT ![PositionOf(patch.id)] = Patched(@, patch)]
                ELSE entries
  /\ warned' = IF Warns(patch) THEN warned \cup {Len(written) + 1} ELSE warned
  /\ UNCHANGED <<mounted, phase>>

ApplyPatch(patch) ==
  /\ written' = Append(written, patch)
  /\ \/ Has(patch, "insert") /\ ApplyInsert(patch)
     \/ Has(patch, "id") /\ ~(Applies(patch) /\ BadFlag(patch)) /\ ApplyModify(patch)
     \/ Has(patch, "id") /\ Applies(patch) /\ BadFlag(patch) /\ Refuse
     \/ Has(patch, "malformed") /\ Refuse

--------------------------------------------------------------------------------
(* The layers, in order.                                                   *)

StepsPatch ==
  [insert |-> <<[id |-> "config-steps", plugin |-> "config-steps",
                 config |-> Null, disabled |-> FALSE]>>]
StepsLayer == <<"config-steps", <<StepsPatch>>>>

BundleNamed(name) == IF name \in DOMAIN Static THEN Static[name] ELSE Discovered[name]

Installed == DOMAIN Static \cup DOMAIN Discovered

\* What a layer may hold: insertions of entries, changes of one, and what is neither.
BundlePatches ==
  UNION {ToSet(Static[n]) : n \in DOMAIN Static} \cup
  UNION {ToSet(Discovered[n]) : n \in DOMAIN Discovered}
AllPatches == BundlePatches \cup Patches \cup {StepsPatch}
IsEntry(e) ==
  /\ e = [id |-> e.id, plugin |-> e.plugin, config |-> e.config, disabled |-> e.disabled]
  /\ e.config \in Config /\ e.disabled \in BOOLEAN
IsPatch(p) ==
  \/ /\ DOMAIN p = {"insert"} /\ p.insert \in Seq(ToSet(p.insert))
     /\ \A e \in ToSet(p.insert) : IsEntry(e)
  \/ /\ Has(p, "id") /\ DOMAIN p \subseteq {"id", "plugin", "config", "disabled"}
     /\ Has(p, "config") => p.config \in ConfigPart
     /\ Has(p, "disabled") => p.disabled \in BOOLEAN \cup {NotAFlag}
  \/ DOMAIN p = {"malformed"}

\* What deep_merge() gives, in terms of itself on the parts.
MergesByKey ==
  \A base, over \in ConfigPart :
    Merge(base, over) =
      IF IsMap(base) /\ IsMap(over)
      THEN Mapping([k \in DOMAIN base.map \cup DOMAIN over.map |->
                      IF k \notin DOMAIN over.map THEN base.map[k]
                      ELSE IF k \in DOMAIN base.map THEN Merge(base.map[k], over.map[k])
                           ELSE over.map[k]])
      ELSE over

CompositionAssumption ==
  /\ NotAFlag \notin BOOLEAN
  /\ \A names \in Profiles \cup {DefaultBundles} : names \in Seq(ToSet(names))
  /\ \A n \in DOMAIN Static : Static[n] \in Seq(BundlePatches)
  /\ \A n \in DOMAIN Discovered : Discovered[n] \in Seq(BundlePatches)
  /\ \A p \in AllPatches : IsPatch(p)
  /\ \A path \in Paths : path \in Seq(ToSet(path))
  /\ Null \in Config /\ Config \subseteq ConfigPart /\ Absent \notin ConfigPart
  /\ \A c \in ConfigPart : IsMap(c) => \A k \in DOMAIN c.map : c.map[k] \in ConfigPart
  /\ \A c \in Config, p \in AllPatches : SetsConfig(p) => Merge(c, p.config) \in Config
  /\ MergesByKey

BundleLayers(names) == [i \in DOMAIN names |-> <<"bundle", BundleNamed(names[i])>>]

Init ==
  /\ layers = <<>> /\ entries = <<>> /\ written = <<>>
  /\ warned = {} /\ mounted = <<>>
  /\ phase = "profile"

LoadProfile ==
  /\ phase = "profile"
  /\ \E listed \in Profiles :
       LET names == IF listed = <<>> THEN DefaultBundles ELSE listed IN
       IF ToSet(names) \subseteq Installed
       THEN /\ layers' = BundleLayers(names)
                           \o <<StepsLayer, <<"profile", <<>>>>, <<"overlay", <<>>>>>>
            /\ phase' = "layers"
       ELSE phase' = "refused" /\ UNCHANGED layers
  /\ UNCHANGED <<entries, written, warned, mounted>>

\* A bundle's patches are its own; the profile's and an overlay's are any.
BundlePatch ==
  /\ phase = "layers" /\ layers # <<>> /\ Head(layers)[2] # <<>>
  /\ ApplyPatch(Head(Head(layers)[2]))
  /\ phase' # "refused" =>
       layers' = <<<<Head(layers)[1], Tail(Head(layers)[2])>>>> \o Tail(layers)

OwnPatch ==
  /\ phase = "layers" /\ layers # <<>>
  /\ Head(layers)[1] \in {"profile", "overlay"}
  /\ Cardinality({i \in DOMAIN written : written[i] \in Patches}) < MaxPatches
  /\ \E patch \in Patches : ApplyPatch(patch)
  /\ UNCHANGED layers

NextLayer ==
  /\ phase = "layers" /\ layers # <<>> /\ Head(layers)[2] = <<>>
  /\ layers' = Tail(layers)
  /\ UNCHANGED <<entries, written, warned, mounted, phase>>

--------------------------------------------------------------------------------
(* Checking and mounting what was composed.                                *)

Enabled == {i \in DOMAIN entries : ~entries[i].disabled}

CoreOn == Locked \subseteq {entries[i].id : i \in Enabled}

CheckCore ==
  /\ phase = "layers" /\ layers = <<>>
  /\ phase' = IF CoreOn THEN "mounting" ELSE "refused"
  /\ UNCHANGED <<layers, entries, written, warned, mounted>>

\* Each enabled entry is mounted in order; its plugin ends up active or not.
ToMount == {i \in Enabled : entries[i].id \notin DOMAIN mounted}
MountNext ==
  /\ phase = "mounting" /\ ToMount # {}
  /\ LET e == entries[CHOOSE i \in ToMount : \A j \in ToMount : i <= j] IN
     \E on \in BOOLEAN :
       mounted' = [id \in DOMAIN mounted \cup {e.id} |-> IF id = e.id THEN on ELSE mounted[id]]
  /\ UNCHANGED <<layers, entries, written, warned, phase>>

ActiveEntry(id) == id \in DOMAIN mounted /\ mounted[id]
Provided(s) ==
  \E i \in DOMAIN entries : entries[i].plugin \in Services[s] /\ ActiveEntry(entries[i].id)

\* Mutant: the audit does not ask who provides the services.
AuditsEntries == \A id \in Locked \cup Required : ActiveEntry(id)
Passes ==
  /\ \A id \in Locked \cup Required : ActiveEntry(id)
  /\ \A s \in DOMAIN Services : Provided(s)

Audit ==
  /\ phase = "mounting" /\ ToMount = {}
  /\ phase' = IF Passes THEN "booted" ELSE "refused"
  /\ UNCHANGED <<layers, entries, written, warned, mounted>>

Next ==
  \/ LoadProfile \/ BundlePatch \/ OwnPatch \/ NextLayer
  \/ CheckCore \/ MountNext \/ Audit

Spec == Init /\ [][Next]_vars

--------------------------------------------------------------------------------
(* What the composed list must be, said of the patches written.            *)

TypeOK ==
  /\ phase \in {"profile", "layers", "mounting", "booted", "refused"}
  /\ \A i \in DOMAIN entries : entries[i].disabled \in BOOLEAN
  /\ warned \subseteq DOMAIN written
  /\ DOMAIN mounted \subseteq Ids(entries)

\* What is at the end of the first n keys of a path.
Level(c, path, n) ==
  LET walk[i \in 0..Len(path)] == IF i = 0 THEN c ELSE PartAt(walk[i - 1], path[i]) IN walk[n]
At(c, path) == Level(c, path, Len(path))
Touches(c, path) ==
  \/ At(c, path) # Absent
  \/ \E n \in 0..(Len(path) - 1) : Level(c, path, n) # Absent /\ ~IsMap(Level(c, path, n))

\* Of the patches ps: the one that defined an entry, and those that spoke of it afterwards.
Inserts(patch, id) == Has(patch, "insert") /\ id \in Ids(patch.insert)
DefinedBy(ps, id) ==
  CHOOSE i \in DOMAIN ps : Inserts(ps[i], id) /\ \A j \in 1..(i - 1) : ~Inserts(ps[j], id)
AsDefined(ps, id) == CHOOSE e \in ToSet(ps[DefinedBy(ps, id)].insert) : e.id = id
Speaks(patch, id, plugin) ==
  Has(patch, "id") /\ patch.id = id /\ (Has(patch, "plugin") => patch.plugin = plugin)
Spoken(ps, id) ==
  {i \in DOMAIN ps : i > DefinedBy(ps, id) /\ Speaks(ps[i], id, AsDefined(ps, id).plugin)}

ConfigAt(ps, id, i) == IF i = DefinedBy(ps, id) THEN AsDefined(ps, id).config ELSE ps[i].config
ConfigWriters(ps, id) == {DefinedBy(ps, id)} \cup {i \in Spoken(ps, id) : SetsConfig(ps[i])}
\* The writers of an entry's configuration that no later one wrote over at a path.
Final(ps, id, path) ==
  {i \in ConfigWriters(ps, id) :
     \A j \in ConfigWriters(ps, id) : j > i => ~Touches(ConfigAt(ps, id, j), path)}
FlagSetters(ps, id) == {i \in Spoken(ps, id) : Has(ps[i], "disabled")}
LastFlag(ps, id) ==
  LET setters == FlagSetters(ps, id) IN
  IF setters = {} THEN AsDefined(ps, id).disabled
  ELSE ps[CHOOSE i \in setters : \A j \in setters : j <= i].disabled

\* The configuration a plugin gets holds a value at a key path exactly when some
\* layer wrote that value there and no later one wrote there, at any level above it or
\* below: keys nobody mentions survive every later layer, lists and values are replaced
\* (compose.py deep_merge, apply_patches).
LastWriterWins ==
  phase # "refused" =>
    \A e \in ToSet(entries), path \in Paths :
      LET value == At(e.config, path)
          wrote(i) == At(ConfigAt(written, e.id, i), path)
      IN \A v \in {value} \cup {wrote(i) : i \in ConfigWriters(written, e.id)} :
           (v # Absent /\ ~IsMap(v)) =>
             (value = v <=> \E i \in Final(written, e.id, path) : wrote(i) = v)

\* An entry is defined once: its place in the order and its plugin never change
\* whatever the later layers hold (apply_patches: duplicate ids, the plugin assertion).
DefinedOnce ==
  /\ \A i, j \in DOMAIN entries : entries[i].id = entries[j].id => i = j
  /\ \A e \in ToSet(entries) : e.plugin = AsDefined(written, e.id).plugin

\* Whatever a bundle, a profile or an overlay holds, an engine that boots has every core
\* entry on: the last patch that speaks of its flag leaves it on (boot.py locked_off).
CoreNeverOff ==
  phase = "booted" => \A id \in Locked : id \in Ids(entries) /\ ~LastFlag(written, id)

\* A patch that is not applied in full is warned about, and no other is: a layer written
\* for one distribution is skipped, never silently (apply_patches).
SkippedAloud ==
  phase # "refused" =>
    \A i \in {j \in DOMAIN written : Has(written[j], "id")} :
      LET id == written[i].id
          known == \E j \in 1..(i - 1) : Inserts(written[j], id)
      IN i \in warned <=>
           \/ ~(known /\ i \in Spoken(written, id))
           \/ Has(written[i], "config") /\ written[i].config = Null

\* A booted engine has an active provider of every core service, whichever entry of the
\* profile provides it: the store and the credentials may be replaced, not left out
\* (boot.py: "no active plugin provides").
SeamsFilled ==
  phase = "booted" =>
    \A s \in DOMAIN Services :
      \E e \in ToSet(entries) : e.plugin \in Services[s] /\ ~e.disabled /\ ActiveEntry(e.id)

\* What a composition promises.
AsWritten == LastWriterWins /\ DefinedOnce /\ SkippedAloud /\ CoreNeverOff /\ SeamsFilled
================================================================================

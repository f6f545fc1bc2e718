----------------------------- MODULE ConfigValues -----------------------------
(* The configuration values of plugins (kernel/compose.py): a leaf, which may be   *)
(* a list, or a mapping from keys to values.                                       *)

Leaf(v) == [leaf |-> v]
Mapping(f) == [map |-> f]
Null == Leaf("null")
IsMap(c) == "map" \in DOMAIN c

(* What is under a key, and the value that stands for nothing being there.         *)
Absent == [absent |-> TRUE]
PartAt(c, key) == IF IsMap(c) /\ key \in DOMAIN c.map THEN c.map[key] ELSE Absent

==============================================================================

------------------------------ MODULE ConfigMerge ------------------------------
(* deep_merge() of kernel/compose.py, by which a later layer's configuration is     *)
(* merged into an entry's.                                                          *)
EXTENDS ConfigValues

RECURSIVE DeepMerge(_, _)
DeepMerge(base, over) ==
  IF IsMap(base) /\ IsMap(over)
  THEN Mapping([k \in DOMAIN base.map \cup DOMAIN over.map |->
                  IF k \notin DOMAIN over.map THEN base.map[k]
                  ELSE IF k \in DOMAIN base.map THEN DeepMerge(base.map[k], over.map[k])
                       ELSE over.map[k]])
  ELSE over

================================================================================

------------------------------ MODULE MCEngine ------------------------------
(***************************************************************************)
(* Constants of the runs of module Engine, with what users are told         *)
(* (UserView) and what the engine promises (EngineRefinement) beside it.    *)
(***************************************************************************)
EXTENDS UserView, EngineRefinement, TLC

QuotaOne == [s \in Steps |-> 1]

Symmetry == Permutations(Procs)
=============================================================================

------------------------- MODULE MCViewMaintenance --------------------------
(* Instances of ViewMaintenance for TLC. *)
EXTENDS ViewMaintenance, TLC

Symmetric == Permutations(Engine)
=============================================================================

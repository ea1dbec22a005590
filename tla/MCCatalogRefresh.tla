-------------------------- MODULE MCCatalogRefresh --------------------------
(* Instances of CatalogRefresh for TLC. *)
EXTENDS CatalogRefresh, TLC

DirSymmetry == Permutations(Dir)
=============================================================================

---------------------------- MODULE MCSharedDict ----------------------------
(* Instances of SharedDict for TLC. *)
EXTENDS SharedDict, TLC

\* One value, a null, or two values.
Batches == {W \in SUBSET (Value \ {Empty}) : Cardinality(W) \in {1, 2}} \cup {{Null}}

ValueSymmetry ==
    Permutations(Value \ {Empty}) \cup Permutations(File) \cup Permutations(Proc)
=============================================================================

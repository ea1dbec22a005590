---------------------------- MODULE MCGraphModels ----------------------------
(* Instances of GraphModels for TLC: one model, two names of snapshots. *)
EXTENDS GraphModels, TLC

CONSTANTS M, S, S2

Say(do, name, nr) == [do |-> do, model |-> M, name |-> name, nr |-> nr]
Create(nr) == Say("create", Unnamed, nr)
Make(name, nr) == Say("make", name, nr)
DropModel == Say("drop", Unnamed, 1)
DropSnapshot(name) == Say("drop snapshot", name, 1)
Read(name) == Say("graph", name, 1)

MCWorkloads ==
  { {Create(1), Make(S, 1), DropModel, Create(2), Read(Unnamed)},
    {Create(1), Create(2), Make(S, 1), Read(Unnamed)},
    {Create(1), Make(S, 1), DropSnapshot(S), Make(S, 2), Read(S)},
    {Create(1), Make(S, 1), DropSnapshot(Unnamed), Read(Unnamed)},
    {Create(1), Make(S, 1), Make(S2, 1), DropSnapshot(S2), Read(Unnamed)},
    {Create(1), Say("alter policy", Unnamed, 1), DropModel, Say("delete policy", Unnamed, 1),
     Say("transient", Unnamed, 1)} }

Symmetry == Permutations(Proc)
==============================================================================

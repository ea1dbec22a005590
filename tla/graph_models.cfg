SPECIFICATION Spec
CONSTANTS
  Proc = {p1, p2}
  M = M
  S = S
  S2 = S2
  Model = {M}
  Name = {S, S2}
  Unnamed = Unnamed
  Fact = {x}
  Workloads <- MCWorkloads
  MaxFailures = 1
SYMMETRY Symmetry
INVARIANTS
  SnapshotWhole
  LatestWins
  DropIsFinal
CHECK_DEADLOCK FALSE

SPECIFICATION Spec
CONSTANTS
  Procs = {p1, p2}
  Ids = {1, 2, 3, 4}
  Models = {m1, m2}
  Widths = {1, 2}
  CommitRows = 3
  MaxBatch = 2
  Retries = 1
  MaxRuns = 3
  Sources <- MCSources
INVARIANTS OwnVector OneSpace EachIdOnce AllEmbedded
PROPERTY RunEnds

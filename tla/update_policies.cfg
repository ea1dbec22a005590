SPECIFICATION Spec
CONSTANTS
  w1 = w1
  w2 = w2
  A = A
  B = B
  C = C
  NoTable = NoTable
  Writer <- MCWriter
  Table <- MCTable
  Script <- MCScript
  Config <- MCConfig
  Start <- MCStart
  Schema <- MCSchema
  MaxDepth = 2
  MaxOthers = 1
  MayFail = TRUE
INVARIANTS TransactionalFirst PlanHolds FromItsSource Accounted
PROPERTY StatementEnds

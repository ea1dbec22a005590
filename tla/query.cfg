SPECIFICATION Spec
CONSTANTS
  Null = Null
  NoDict = NoDict
  StringColumns = {"k", "k1", "k2", "a.k", "b.k", "c.k", "a.k2", "b.k2"}
  DynamicColumns = {"l", "m"}
  DenseGroupLimit = 2
  StreamMinRows = 3
  StreamBatch = 2
  Schema <- MCSchema
  WindowFunction <- WindowAt
  RowEngine <- ApplyToAny
  Questions <- MCQuestions
INVARIANTS GraphsAsDefined OperatorsAsDefined AggregatesAsNaive TopNAsNaive ScansAsNaive

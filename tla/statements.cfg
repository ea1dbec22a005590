SPECIFICATION SessionSpec
CONSTANTS
  Null = Null
  NoText = NoText
  Failed = Failed
  Unsettled = Unsettled
  Stored <- MCStored
  Statement <- MCStatement
  Evaluator <- Eval
  Engine <- Run
  ScopedValue <- ValueOf
  ScopedMeaning <- Means
  MaxUDFDepth = 3
  MaxRows = 3
  DynamicArguments <- MCDynamic
  TextArguments <- MCText
  NetArguments <- MCNet
  Panic = Panic
  NoValue = NoValue
  EmptyString = EmptyString
  Octets = 2
  MaxOctet = 1
  MaxDigits = 1
  Width4 = 3
  Width6 = 5
  Base = 4
  LongDigits = 3
  IntDigits = 2
INVARIANTS
  AnswersAsDefined
  ContextRestored
  FunctionsAsDefined
  

SPECIFICATION Spec
CONSTANTS
    Proc = {p1, p2}
    Value = {empty, a, b}
    Empty = empty
    Null = null
    File = {f1, f2, f3, f4}
    Cap = 2
    Batch <- Batches
    NoDict = NoDict
    NoValue = NoValue
    NoProc = NoProc
    MayFail = TRUE
    MaxExtents = 2
SYMMETRY ValueSymmetry
INVARIANTS
    OneCodePerValue
PROPERTIES
    CodesPermanent
    ImplementsColumn

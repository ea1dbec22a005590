SPECIFICATION Spec
CONSTANTS
    Proc = {p1, p2}
    Federated = TRUE
    Table = {T, U}
    File = {f1, f2, f3}
    Row = {r1, r2}
    NoTable = NoTable
    GlobAlso = {}
    Scripts <- Sessions
    MayCrash = TRUE
    MayFail = TRUE
SYMMETRY FullSymmetry
INVARIANTS
    CompleteAnswer
PROPERTIES
    ImplementsStore

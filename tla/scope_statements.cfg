SPECIFICATION Spec
CONSTANTS
    Proc = {p1, p2}
    Federated = FALSE
    Table = {T}
    File = {f1, f2, f3}
    Row = {r1, r2}
    NoTable = NoTable
    GlobAlso = {}
    Scripts <- Faulty
    MayCrash = TRUE
    MayFail = TRUE
SYMMETRY FullSymmetry
INVARIANTS
    TypeOK
    RewritesAlone
    NoDoubleCount
    CompleteAnswer
    NothingLost
    StableSnapshot
    ShellsAreEmpty
PROPERTIES
    OnlyDropForgets

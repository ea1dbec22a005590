SPECIFICATION Spec
CONSTANTS
    Proc = {p1}
    Federated = FALSE
    Table = {T, U}
    File = {f1, f2, f3, f4}
    Row = {r1, r2}
    NoTable = NoTable
    GlobAlso <- LongerName
    Scripts <- OneCommand
    MayCrash = FALSE
    MayFail = FALSE
SYMMETRY DataSymmetry
INVARIANTS
    ShellsAreEmpty

SPECIFICATION FairSpec
CONSTANTS
    Proc = {p1, p2}
    Federated = FALSE
    Table = {T}
    File = {f1, f2, f3}
    Row = {r1}
    NoTable = NoTable
    GlobAlso = {}
    Scripts <- Maintenance
    MayCrash = FALSE
    MayFail = FALSE
PROPERTIES
    LockReleased

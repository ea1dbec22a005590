SPECIFICATION Spec
CONSTANTS
    Dir = {root, extents}
    File = {f1}
    Window = 2
    Grain = 2
    MaxTime = 3
    MayFail = TRUE
SYMMETRY DirSymmetry
INVARIANTS
    RebuildsForCause
PROPERTIES
    CurrentCatalog

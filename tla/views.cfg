SPECIFICATION FairSpec
CONSTANTS
    Engine = {e1, e2}
    MaxMerge = 2
    MaxFile = 7
    MaxBegun = 3
    Group = {g}
    MayFail = TRUE
INVARIANTS
    ViewExact
PROPERTIES
    WaitEnds

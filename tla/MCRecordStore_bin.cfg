CONSTANTS
    p1 = p1
    p2 = p2
    Proc = {p1, p2}
    NoProc = NoProc
    Name = {1, 2, 3}
    NoName = NoName
    Filetime <- MCFiletime
    Ops <- BinOps
    Initial <- ThreePosts
    PageRecords = 2
    MaxInterrupts = 1
    MaxCrashes = 0
    MaxMapFails = 0
SPECIFICATION FairSpec
INVARIANTS Exclusion
PROPERTIES Returns
CHECK_DEADLOCK FALSE

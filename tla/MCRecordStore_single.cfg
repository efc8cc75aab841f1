CONSTANTS
    p1 = p1
    p2 = p2
    Proc = {p1, p2}
    NoProc = NoProc
    Name = {1, 2, 3, 4}
    NoName = NoName
    Filetime <- MCFiletime
    Ops <- SingleOps
    Initial <- TwoPosts
    PageRecords = 32
    MaxInterrupts = 0
    MaxCrashes = 1
    MaxMapFails = 1
SPECIFICATION Spec
INVARIANTS Exclusion NoDuplicates NoHoles
PROPERTIES OnlyNewerLost
CHECK_DEADLOCK FALSE

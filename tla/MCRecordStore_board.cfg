CONSTANTS
    p1 = p1
    p2 = p2
    Proc = {p1, p2}
    NoProc = NoProc
    Name = {1, 2, 3}
    NoName = NoName
    Filetime <- MCFiletime
    Ops <- BoardOps
    Initial <- TwoPosts
    PageRecords = 32
    MaxInterrupts = 0
    MaxCrashes = 1
    MaxMapFails = 0
SPECIFICATION Spec
INVARIANTS TypeOK Exclusion NoDuplicates
PROPERTIES OnlyNewerLost SortedUpdateLands
CHECK_DEADLOCK FALSE

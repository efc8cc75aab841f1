CONSTANTS
    Slots = {1, 2, 3}
    User <- TwoLines
    Curious = {1}
    MaxPages = 2
SPECIFICATION FairSpec
INVARIANTS TypeOK Announced CallerCalled SameKind
 
CHECK_DEADLOCK FALSE

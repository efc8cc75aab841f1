CONSTANTS
    Proc = {p1, p2, p3}
    NoProc = NoProc
    alice = alice
    sysop = sysop
    guest = guest
    User = {alice}
    NoUser = NoUser
    Guest = guest
    Multilog = {}
    Sysops = {}
    Limit <- LimitOne
    MaxGuest = 1
    Size = 3
    MaxTries = 0
CONSTRAINT Settled
SYMMETRY Symmetric
SPECIFICATION Spec
INVARIANTS TypeOK OwnSlot LoginLimit

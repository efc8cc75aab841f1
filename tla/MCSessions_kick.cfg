CONSTANTS
    Proc = {p1, p2, p3}
    NoProc = NoProc
    alice = alice
    sysop = sysop
    guest = guest
    User = {alice, sysop}
    NoUser = NoUser
    Guest = guest
    Multilog = {sysop}
    Sysops = {sysop}
    Limit <- LimitOne
    MaxGuest = 1
    Size = 2
    MaxTries = 0
CONSTRAINT Settled
SYMMETRY Symmetric
SPECIFICATION Spec
INVARIANTS OwnSlot
PROPERTIES KicksOwnAccount

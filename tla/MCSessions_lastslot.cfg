CONSTANTS
    Proc = {p1, p2}
    NoProc = NoProc
    alice = alice
    sysop = sysop
    guest = guest
    User = {alice}
    NoUser = NoUser
    Guest = guest
    Multilog = {}
    Sysops = {}
    Limit <- LimitOne
    MaxGuest = 1
    Size = 2
    MaxTries = 0
SPECIFICATION Spec
INVARIANTS LoginLimitEverywhere
CHECK_DEADLOCK FALSE

CONSTANTS
    Proc = {p1, p2}
    NoProc = NoProc
    alice = alice
    sysop = sysop
    guest = guest
    User = {alice}
    NoUser = NoUser
    Guest = guest
    Multilog = {}
    Sysops = {}
    Limit <- LimitOne
    MaxGuest = 0
    Size = 2
    MaxTries = 1
SPECIFICATION FairSpec
PROPERTIES LoginEnds KickedGoes

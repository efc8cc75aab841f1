CONSTANTS
    Proc = {p1, p2}
    NoProc = NoProc
    Name = {alice, bob}
    NoName = NoName
    New = New
    MaxUsers = 2
    MaxCount = 1
CONSTRAINT Sound
SYMMETRY Symmetric
SPECIFICATION Spec
INVARIANTS TypeOK  
PROPERTIES  NothingLost

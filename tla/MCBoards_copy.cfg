CONSTANTS
    test = test
    linux = linux
    NoProc = NoProc
    Blank = Blank
    Managers = {sysop}
    Readers = {ann}
    Name = {test, linux}
    InitialBoards <- OneBoard
    MaxBoards = 2
    MaxChanges = 2
SPECIFICATION FairSpec
INVARIANTS TypeOK  
 
CHECK_DEADLOCK FALSE

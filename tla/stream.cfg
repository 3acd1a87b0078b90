SPECIFICATION FairSpec
CONSTANTS
    Count = 2
    Channels = {c1, c2}
    Lobby = Lobby
    HeaderSize = 2
    BufSize = 3
    MaxFrame = 1
    Lengths = {0, 1, 2}
    Quota <- OneThenThree
    Moves <- OneThenTwo
    Awaits = "move"
CHECK_DEADLOCK FALSE
INVARIANTS
    TypeOK
    
    
    NoFrameWaits
    

    
    

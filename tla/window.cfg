SPECIFICATION FairSpec
CONSTANTS
    Channels = {c1}
    Posix = {p1}
    Win = {w1}
    LobbyMax = 1
    Stamps = {1, 2}
    Now = 2
    MaxFrame = 2
    Buffer = 1
    Quota <- WinSaysTwo
    Leavers = {p1}
CHECK_DEADLOCK FALSE
INVARIANTS
    TypeOK
    SenderInOrder
    ScreensAgree
    NoGap
PROPERTIES
    AnsweredFirst
    
    MessageShown

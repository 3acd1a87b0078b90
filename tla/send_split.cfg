SPECIFICATION SwitchSpec
CONSTANTS
    Channels = {c1, c2}
    Posix = {p1}
    Win = {}
    LobbyMax = 1
    Stamps = {1}
    Now = 1
    MaxFrame = 3
    Buffer = 2
    Quota <- Silence
    Leavers = {}
    ChMax = 2
CHECK_DEADLOCK FALSE
INVARIANTS
    FramesWhole

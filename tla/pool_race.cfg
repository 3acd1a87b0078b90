SPECIFICATION Spec
CONSTANTS
    FDs = {f1}
    Conns = {x1}
    Channels <- TwoChannels
    Targets <- TwoChannels
    Lobby = Lobby
    Listener = Listener
    NoConn = NoConn
    ChMaxFd = 1
    LobbyMaxFd = 1
    Quota <- Two
    Talk = FALSE
    Patient = TRUE
CHECK_DEADLOCK FALSE
PROPERTIES
    LeavePoolProtected

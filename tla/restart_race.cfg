SPECIFICATION Spec
CONSTANTS
    FDs = {f1}
    Conns = {x1}
    Channels <- OneChannel
    Targets <- OneChannel
    Lobby = Lobby
    Listener = Listener
    NoConn = NoConn
    ChMaxFd = 1
    LobbyMaxFd = 1
    Quota <- One
    Talk = FALSE
    Patient = TRUE
CHECK_DEADLOCK FALSE
INVARIANTS
    PendingJoinHasWorker

SPECIFICATION Spec
CONSTANTS
    FDs = {f1, f2}
    Conns = {x1, x2}
    Channels <- OneChannel
    Targets <- OneChannel
    Lobby = Lobby
    Listener = Listener
    NoConn = NoConn
    ChMaxFd = 1
    LobbyMaxFd = 2
    Quota <- One
    Talk = FALSE
    Patient = TRUE
SYMMETRY Symmetry
CHECK_DEADLOCK FALSE
PROPERTIES
    AcceptOnlyInLobby

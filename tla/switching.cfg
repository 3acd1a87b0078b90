SPECIFICATION Spec
CONSTANTS
    FDs = {f1}
    Conns = {x1}
    Channels <- TwoChannels
    Targets <- TwoChannels
    Lobby = Lobby
    Listener = Listener
    NoConn = NoConn
    ChMaxFd = 1
    LobbyMaxFd = 1
    Quota <- Three
    Talk = TRUE
    Patient = FALSE
CHECK_DEADLOCK FALSE
INVARIANTS
    Capacity
    StoppedIsEmpty
    LobbyOrChannel
PROPERTIES
    AdmittedIsTaken
    DestroyedIsEmpty
    ImplementsRooms

SPECIFICATION Spec
CONSTANTS
    FDs = {f1, f2}
    Conns = {x1, x2}
    Channels <- TwoChannels
    Targets <- TwoChannels
    Lobby = Lobby
    Listener = Listener
    NoConn = NoConn
    ChMaxFd = 1
    LobbyMaxFd = 1
    Quota <- One
    Talk = FALSE
    Patient = TRUE
SYMMETRY Symmetry
CHECK_DEADLOCK FALSE
INVARIANTS
    TypeOK
    OneReader
    NamesMatch
    NamedIsOwned
    NoStrayClose
    NoGhost
    LockHasHolder
PROPERTIES
    ImplementsRooms

SPECIFICATION FairSpec
CONSTANTS
    Channels = {c1}
    Clients = {f1}
    LobbyLimit = 1
    Period = 1
    Quiet = 1
    MaxBack = 3
CHECK_DEADLOCK FALSE
INVARIANTS
    TypeOK
    LobbyBounded
    WorkerHasChannel
PROPERTIES
    QuietBeforeDelete
    EmptyIsDeleted
    Ends

-------------------------- MODULE ConnectionTracker --------------------------
(***************************************************************************)
(* ConnectionTracker (src/libs/connection_tracker.cpp): the set of clients *)
(* of one server object and the epoll instance that watches them.  Each    *)
(* method runs under the tracker's own mutex, so each is one step.         *)
(***************************************************************************)
EXTENDS Sockets

CONSTANTS
    ChMaxFd,    \* max_fd of every channel (chN=)
    LobbyMaxFd  \* max_fd of the lobby (lobbyN=)

ASSUME TrackerAssumption == ChMaxFd \in Nat \ {0} /\ LobbyMaxFd \in Nat

VARIABLE clients    \* server -> ConnectionTracker::clients

TrackerTypeOK == clients \in [Servers -> SUBSET FDs]
TrackerInit   == clients = [s \in Servers |-> {}]

get_max_fd(s)       == IF s = Lobby THEN LobbyMaxFd ELSE ChMaxFd
get_client_count(s) == Cardinality(clients[s])

\* add_client throws POOL_FULL.
PoolFull(s) == get_client_count(s) >= get_max_fd(s)

\* add_client succeeds: there is room, and epoll_ctl(ADD) accepts fd, which it
\* does not when fd is closed (EBADF) or already in the list (EEXIST).
\* The variant leaves the last place empty.
CanAddOffByOne(s, fd) ==
    /\ get_client_count(s) + 1 < get_max_fd(s)
    /\ Open(fd)
    /\ fd \notin interest[s]
CanAdd(s, fd) == ~PoolFull(s) /\ Open(fd) /\ fd \notin interest[s]

\* delete_client succeeds: epoll_ctl(DEL) finds fd in the list.
CanDelete(s, fd) == fd \in interest[s]

add_client(s, fd) ==
    /\ interest' = [interest EXCEPT ![s] = @ \cup {fd}]
    /\ clients' = [clients EXCEPT ![s] = @ \cup {fd}]

\* When epoll_ctl(DEL) fails the method throws before it reaches clients.  One
\* variant forgets epoll_ctl, the other clients.erase.
delete_client_no_epoll(s, fd) ==
    /\ clients' = [clients EXCEPT ![s] = @ \ {fd}]
    /\ UNCHANGED interest
delete_client_keeps(s, fd) ==
    /\ interest' = [interest EXCEPT ![s] = @ \ {fd}]
    /\ UNCHANGED clients
delete_client(s, fd) ==
    IF CanDelete(s, fd)
    THEN /\ interest' = [interest EXCEPT ![s] = @ \ {fd}]
         /\ clients' = [clients EXCEPT ![s] = @ \ {fd}]
    ELSE UNCHANGED <<interest, clients>>
=============================================================================

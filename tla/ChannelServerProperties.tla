------------------------ MODULE ChannelServerProperties ------------------------
(***************************************************************************)
(* What the server owes its clients, as properties of ChannelServer!Spec.  *)
(* Which of them hold of every client and which only of clients that       *)
(* behave in some way is said at the runs, in the README.                  *)
(***************************************************************************)
EXTENDS ChannelServer

-----------------------------------------------------------------------------
(* Room and stopping: what the pool lock is for.                           *)

\* Clients that a channel has, and those it has promised to take.
Promised(c) ==
    get_client_count(c) + Cardinality(join_pool[c])
    + (IF pc[c] = "joins" THEN Cardinality(local_q[c]) ELSE 0)

\* A channel never has and promises more places than max_fd, although
\* ping_pool runs on the main thread while the worker takes in and loses
\* clients (channel.cpp:74, 116).
Capacity == \A c \in Channels : Promised(c) <= ChMaxFd

\* A channel that has stopped has no client and promises no place: the worker
\* decides to stop (channel.cpp:140) and the main thread to join (35) under
\* the same lock.
StoppedIsEmpty ==
    \A c \in Channels : stop_flag[c] => clients[c] = {} /\ join_pool[c] = {}

\* Whoever was admitted by ping_pool is taken in, unless the descriptor is
\* closed by then or the channel has it already: add_client in resolve_pool
\* (channel.cpp:122) never throws POOL_FULL.
TakesAdmitted ==
    \A c \in Channels : \A e \in local_q[c] :
        pc[c] = "joins" /\ e \notin local_q'[c] =>
            e.fd \in clients'[c] \/ ~Open(e.fd) \/ e.fd \in interest[c]

AdmittedIsTaken == [][TakesAdmitted]_vars

\* check_channels deletes no channel that still has a client, watches one or
\* promises a place to one (channel_server.cpp:208-213).
DestroysEmpty ==
    \A c \in Channels : c \in channels /\ pc'[c] = "none" =>
        clients[c] = {} /\ interest[c] = {} /\ join_pool[c] = {}

DestroyedIsEmpty == [][DestroysEmpty]_vars

-----------------------------------------------------------------------------
(* Who has a descriptor.                                                   *)

\* No connection is read by the lobby and by a channel: the lobby lets go of
\* it (channel_server.cpp:99) before the channel can take it in.
LobbyOrChannel ==
    \A c \in Channels : interest[c] \cap interest[Lobby] = {}

\* No connection is read by two servers.
OneReader ==
    \A s, t \in Servers : s # t => interest[s] \cap interest[t] = {}

\* The name recorded for a descriptor is that of the connection behind it now:
\* the name goes before the number can be given out again
\* (channel.cpp:109-110, channel_server.cpp:55-56).
NamesMatch == \A fd \in FDs : HasName(fd) => name_map[fd] = sock[fd]

\* Whoever has a name is with some server, on the way to a channel, or about
\* to be closed: no connection is forgotten on a transfer.
NamedIsOwned ==
    \A fd \in FDs : HasName(fd) =>
        \/ job.fd = fd
        \/ \E s \in Servers : fd \in clients[s] \cup cur[s]
        \/ \E c \in Channels : \E e \in join_pool[c] \cup local_q[c] : e.fd = fd

\* A server closes no descriptor that is another server's client
\* (channel.cpp:110 closes it even when delete_client has thrown).
NoStrayClose ==
    \A s, t \in Servers : s # t => cur[s] \cap clients[t] = {}

\* A server watches every client it counts (connection_tracker.cpp:64, 79).
NoGhost == \A s \in Servers : clients[s] \subseteq interest[s]

\* The main thread leaves no pool locked behind (channel_server.cpp:102, 129,
\* 136).
LockHasHolder ==
    \A c \in Channels :
        pool_mtx[c] = "main" => pc[Lobby] \in Holding /\ job.to = c

-----------------------------------------------------------------------------
(* Progress.  Threads get the processor; a mutex that is released again    *)
(* and again is had in the end by the thread that waits for it; and 5 s    *)
(* pass in the end.                                                        *)

TimesOut == CheckLobby /\ last_act' = {}

Fairness ==
    /\ SF_vars(Main)
    /\ SF_vars(TimesOut)
    /\ \A c \in Channels : SF_vars(Worker(c))

FairSpec == Spec /\ Fairness

\* Every client leaves the lobby, for a channel or for good: check_lobby
\* (channel_server.cpp:189) catches those who do not ask.
LobbyLeft ==
    \A fd \in FDs : fd \in clients[Lobby] ~> fd \notin clients[Lobby]

\* Every report the main thread takes up it is done with in the end; it does
\* not wait for ever for the target's lock or its worker's end
\* (channel_server.cpp:113-142).
ReportsHandled == FromReport ~> ~FromReport

\* Every pool lock that is taken is released in the end.
LockReleased ==
    \A c \in Channels : pool_mtx[c] # "free" ~> pool_mtx[c] = "free"

\* A channel lets go of a client whose connection is over (server_base.cpp:181,
\* 194, channel.cpp:93).
GoneIsReleased ==
    \A c \in Channels, fd \in FDs :
        (fd \in interest[c] /\ peer[sock[fd]] = "gone") ~> fd \notin interest[c]

\* A client whose join its channel has queued for the broadcast sees itself in
\* that channel in the end, unless it goes away (channel.cpp:123,
\* chat_server.cpp:84, client.cpp:119).
JoinerIsTold ==
    \A c \in Channels, x \in Conns :
        ([event |-> "join", who |-> x] \in mq[c])
            ~> (view[x] = c \/ peer[x] = "gone")

\* A client on whose switch the channel has agreed is let go of by it
\* (channel.cpp:129-138).
LeaveIsResolved ==
    \A c \in Channels : leave_pool[c] # {} ~> leave_pool[c] = {}

-----------------------------------------------------------------------------
(* What the comments of the code say and the code does not do.             *)

\* channel.cpp:92 "accept only occured in lobby(ChannelServer)".
AcceptOnlyInLobby ==
    [][\A fd \in FDs :
           ~Open(fd) /\ sock'[fd] # NoConn =>
               Listener \in events[Lobby] \ events'[Lobby]]_vars

\* channel.cpp:36-37: the dead thread is cleared away and a new one started, so
\* that a channel with a join to resolve has a thread to resolve it.
PendingJoinHasWorker ==
    \A c \in Channels : join_pool[c] # {} => pc[c] # "dead"

\* channel.h:32: the pools "can be polluted by other threads but" are protected
\* by a mutex: while the worker is in resolve_pool nobody else touches
\* leave_pool.
LeavePoolProtected ==
    [][\A c \in Channels :
           pool_mtx[c] = "worker" /\ pc'[c] = pc[c]
               => leave_pool'[c] = leave_pool[c]]_vars

\* server_base.h:32 "All servers have only one shared file descriptor listening
\* on a port": the lobby always has it.
LobbyListens == Lobby \in acceptors
=============================================================================

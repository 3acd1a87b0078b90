------------------------------- MODULE Sockets -------------------------------
(***************************************************************************)
(* The operating system as the chat server uses it: the descriptor table   *)
(* of the server process, the epoll interest list of each server object,   *)
(* the listening socket with its backlog, and the bytes in flight.  None   *)
(* of it is code of the repository: it is modelled from the calls that     *)
(* src/server and src/libs make (accept, epoll_ctl, epoll_wait, recv,      *)
(* close).                                                                 *)
(*                                                                         *)
(* A descriptor is a number the kernel hands out again once it is closed,  *)
(* so descriptors and connections are different things here: sock says     *)
(* which connection is behind a descriptor now.                            *)
(***************************************************************************)
EXTENDS Naturals, Sequences, FiniteSets

CONSTANTS
    FDs,        \* descriptors the kernel can hand out for connections
    Conns,      \* connections, each made once
    Channels,   \* channel ids
    Lobby,      \* the ChannelServer object
    Listener,   \* the event of the listening socket (ServerBase::fd)
    NoConn      \* no connection, no name

ASSUME SocketsAssumption ==
    /\ IsFiniteSet(FDs)
    /\ Channels \subseteq Nat \ {0}
    /\ Lobby \notin Channels
    /\ NoConn \notin Conns
    /\ Listener \notin FDs

NoChannel == 0
Servers == {Lobby} \cup Channels

\* The requests of the protocol, framed and well formed: a join with a
\* user_name, a join without one ("switch"), a message.
Requests == [type : {"join", "switch"}, ch : Channels]
            \cup [type : {"message"}, ch : {NoChannel}]

VARIABLES
    sock,       \* descriptor -> the connection behind it, NoConn if closed
    peer,       \* connection -> "new", "up", or "gone" (the remote end closed)
    rx,         \* connection -> requests received and not yet read
    backlog,    \* connections the kernel completed and nobody accepted
    interest,   \* server -> descriptors in its epoll interest list
    acceptors   \* servers whose epoll interest list holds the listening socket

sockVars == <<sock, peer, rx, backlog, interest, acceptors>>

SocketsTypeOK ==
    /\ sock \in [FDs -> Conns \cup {NoConn}]
    /\ peer \in [Conns -> {"new", "up", "gone"}]
    /\ rx \in [Conns -> Seq(Requests)]
    /\ backlog \in SUBSET Conns
    /\ interest \in [Servers -> SUBSET FDs]
    /\ acceptors \in SUBSET Servers

SocketsInit ==
    /\ sock = [fd \in FDs |-> NoConn]
    /\ peer = [x \in Conns |-> "new"]
    /\ rx = [x \in Conns |-> <<>>]
    /\ backlog = {}
    /\ interest = [s \in Servers |-> {}]
    /\ acceptors = {Lobby}

-----------------------------------------------------------------------------
Open(fd) == sock[fd] # NoConn

\* The listening socket exists as long as some epoll instance watches it.
Listening == acceptors # {}

\* What a level-triggered epoll_wait of server s reports.
Ready(s) ==
    {fd \in interest[s] : \/ rx[sock[fd]] # <<>>
                          \/ peer[sock[fd]] = "gone"}
    \cup {e \in {Listener} : s \in acceptors /\ backlog # {}}

\* recv on fd fails or returns 0, or epoll reports EPOLLHUP for it.
RecvEnds(fd) == Open(fd) => peer[sock[fd]] = "gone"

\* recv on fd returns EAGAIN: another thread has read what was there.
RecvNothing(fd) == /\ Open(fd)
                   /\ rx[sock[fd]] = <<>>
                   /\ peer[sock[fd]] = "up"

\* recv on fd returns data.
RecvData(fd) == Open(fd) /\ rx[sock[fd]] # <<>>

\* send on fd fails for certain, or may fail because the remote end is gone.
SendFails(fd)   == ~Open(fd)
SendMayFail(fd) == Open(fd) => peer[sock[fd]] = "gone"

-----------------------------------------------------------------------------
\* accept returns fd for connection x.  The kernel takes the lowest free
\* number; which one that is depends on every other descriptor of the
\* process, so any free one may be returned.
Accept(x, fd) ==
    /\ x \in backlog
    /\ ~Open(fd)
    /\ sock' = [sock EXCEPT ![fd] = x]
    /\ backlog' = backlog \ {x}

\* accept fails for want of a free descriptor (EMFILE).
NoFreeFd == \A fd \in FDs : Open(fd)

\* close of each descriptor of the set S: the numbers are free, every epoll
\* instance forgets them and the connections are over.  Closing a number that
\* is closed changes nothing (EBADF).
Close(S) ==
    LET over == {sock[fd] : fd \in S}
    IN  /\ sock' = [fd \in FDs |-> IF fd \in S THEN NoConn ELSE sock[fd]]
        /\ interest' = [s \in Servers |-> interest[s] \ S]
        /\ peer' = [x \in Conns |-> IF x \in over THEN "gone" ELSE peer[x]]
        /\ rx' = [x \in Conns |-> IF x \in over THEN <<>> ELSE rx[x]]

\* close of the listening socket: it leaves every epoll instance and the
\* connections in its backlog are reset.
CloseListener ==
    /\ acceptors' = {}
    /\ peer' = [x \in Conns |-> IF x \in backlog THEN "gone" ELSE peer[x]]
    /\ rx' = [x \in Conns |-> IF x \in backlog THEN <<>> ELSE rx[x]]
    /\ backlog' = {}
=============================================================================

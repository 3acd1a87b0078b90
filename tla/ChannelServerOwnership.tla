------------------------ MODULE ChannelServerOwnership ------------------------
(***************************************************************************)
(* Who has a descriptor, for all values of the constants but one: every    *)
(* client asks for a channel once at most, and does not switch.  Then no   *)
(* connection is read by two servers or forgotten on its way, no server    *)
(* closes another's client, no name outlives its connection, and no pool   *)
(* is left locked.                                                         *)
(*                                                                         *)
(* A client that has asked is silent from then on, so that a channel hears *)
(* nothing and reports nothing; a descriptor goes one way, from the lobby  *)
(* into a pool, from there to the channel, and from a server to its        *)
(* deletion loop, and is at one place at a time, except while the main     *)
(* thread lets go of it.  OwnInv says so.                                  *)
(***************************************************************************)
EXTENDS ChannelServerSafety

USE DEF Servers, NoChannel, TypeOK, sockVars, tickVars, channelVars, poolVars,
        clientVars, lobbyVars, jobVars

\* Every client sends at most its first join.
AskOnce == \A x \in Conns : Quota[x] <= 1

\* The client behind x has sent its join and the server has read it.
Spent(x) == asked[x] = 1 /\ rx[x] = <<>>

\* The entries of the pool of c, those that resolve_pool has moved out included.
Entries(c) == join_pool[c] \cup local_q[c]

Expects(c, fd) == \E e \in Entries(c) : e.fd = fd

\* Server s watches fd or is about to close it.
Has(s, fd) == fd \in interest[s] \cup cur[s]

Somewhere(fd) == \/ \E s \in Servers : Has(s, fd)
                 \/ \E c \in Channels : Expects(c, fd)

\* What a client has sent and the server not read is its first join, and so is
\* what on_recv of the lobby has in its hands.
OnceInv ==
    /\ \A x \in Conns : rx[x] # <<>> =>
           asked[x] = 1 /\ \E r \in Requests : r.type = "join" /\ rx[x] = <<r>>
    /\ frames[Lobby] # <<>> =>
           /\ pc[Lobby] = "frames"
           /\ \E fd \in interest[Lobby], r \in Requests :
                  /\ r.type = "join" /\ Spent(sock[fd]) /\ fd \notin events[Lobby]
                  /\ frames[Lobby] = <<[fd |-> fd, who |-> sock[fd], req |-> r]>>

\* The channels hear nothing and report nothing.
SilentInv ==
    /\ \A c \in Channels : frames[c] = <<>> /\ leave_pool[c] = {}
    /\ reports = <<>> /\ batch = <<>> /\ ~FromReport
    /\ pc[Lobby] \notin {"full", "leave"}

\* That is because whoever is on its way to a channel, or there, is spent.
SpentInv ==
    /\ \A c \in Channels, fd \in FDs :
           fd \in interest[c] \/ Expects(c, fd) => Spent(sock[fd])
    /\ pc[Lobby] \in AtTransfer => Spent(sock[job.fd])

\* A descriptor is open and at one place, while it is somewhere.
PlaceInv ==
    /\ \A s \in Servers : clients[s] = interest[s] /\ interest[s] \cap cur[s] = {}
    /\ \A s, t \in Servers, fd \in FDs : Has(s, fd) /\ Has(t, fd) => s = t
    /\ \A s \in Servers, c \in Channels, fd \in FDs :
           Has(s, fd) /\ Expects(c, fd) =>
               s = Lobby /\ pc[Lobby] = "detach" /\ job.fd = fd /\ job.to = c
    /\ \A c, d \in Channels : \A e \in Entries(c), f \in Entries(d) :
           e.fd = f.fd => c = d /\ e = f
    /\ \A fd \in FDs : Somewhere(fd) => Open(fd)

\* A name is that of the connection, which is somewhere, and goes before it.
NameInv ==
    /\ \A fd \in FDs : HasName(fd) => name_map[fd] = sock[fd] /\ Somewhere(fd)
    /\ \A s \in Servers : pc[s] = "close" => \A fd \in cur[s] : ~HasName(fd)

\* The descriptor of a transfer is with the lobby until it lets go of it.
MoveInv ==
    pc[Lobby] \in AtTransfer =>
        /\ job.fd \in interest[Lobby] \ events[Lobby] /\ HasName(job.fd)
        /\ pc[Lobby] = "detach" => Expects(job.to, job.fd)

\* What the loops of a tick have left to do is about descriptors of the server.
LoopsAt(s) ==
    /\ events[s] \subseteq interest[s] \cup {Listener}
    /\ pc[s] \in {"joins", "leaves", "cast", "channels", "dels", "unname", "close"}
           => events[s] = {}
    /\ cur[s] # {} => pc[s] \in {"unname", "close"}
RoomAt(c) ==
    /\ local_q[c] # {} => pc[c] = "joins" /\ join_pool[c] = {}
    /\ doomed[c] \subseteq interest[c]
    /\ pc[c] \in {"events", "frames", "joins", "leaves", "cast"}
           => next_deletion[c] \subseteq interest[c]
TickInv == /\ \A s \in Servers : LoopsAt(s)
           /\ \A c \in Channels : RoomAt(c)

\* The inductive invariant.
OwnInv == /\ OnceInv /\ SilentInv /\ SpentInv /\ PlaceInv /\ NameInv /\ MoveInv
          /\ TickInv /\ LockHasHolder

-----------------------------------------------------------------------------
(* Facts that the actions share.                                           *)

\* A jump of the thread of s leaves the other threads where they are.
LEMMA Goes ==
    ASSUME TypeOK, NEW s \in Servers, NEW l, Goto(s, l)
    PROVE  /\ pc'[s] = l
           /\ \A t \in Servers \ {s} : pc'[t] = pc[t]
BY DEF TickTypeOK, Goto

\* The lobby is no channel.
LEMMA LobbyApart ==
    /\ Lobby \in Servers /\ Lobby \notin Channels
    /\ \A c \in Channels : c \in Servers \ {Lobby}
BY SocketsAssumption

\* A transfer has a descriptor and a target.
LEMMA LobbyHas ==
    ASSUME TypeOK, pc[Lobby] \in AtTransfer
    PROVE  job.fd \in FDs /\ job.to \in Channels
BY DEF LobbyTypeOK

\* A closed descriptor is nowhere and has no name.
LEMMA ClosedIsNowhere ==
    ASSUME OwnInv, NEW fd \in FDs, ~Open(fd)
    PROVE  /\ ~HasName(fd) /\ ~Somewhere(fd)
           /\ \A s \in Servers : ~Has(s, fd)
           /\ \A c \in Channels : ~Expects(c, fd)
<1>1. ~Somewhere(fd)
  BY DEF OwnInv, PlaceInv
<1>2. ~HasName(fd)
  BY <1>1 DEF OwnInv, NameInv
<1> QED BY <1>1, <1>2 DEF Somewhere

\* A step that moves no descriptor and begins no transfer keeps all that OwnInv
\* says of clients, descriptors and names.
LEMMA Stays ==
    ASSUME TypeOK, OwnInv,
           UNCHANGED <<sock, name_map, interest, clients, cur, asked, frames,
                       leave_pool>>,
           \A x \in Conns : rx'[x] = rx[x] \/ rx'[x] = <<>>,
           reports' = <<>>, batch' = <<>>, job'.from = job.from,
           \A c \in Channels : Entries(c)' = Entries(c),
           pc'[Lobby] \notin {"full", "leave"},
           frames[Lobby] # <<>> => pc'[Lobby] = "frames" /\ events'[Lobby] = events[Lobby],
           pc'[Lobby] \in AtTransfer =>
               /\ pc[Lobby] \in AtTransfer /\ job'.fd = job.fd
               /\ events'[Lobby] = events[Lobby],
           pc'[Lobby] = "detach" <=> pc[Lobby] = "detach",
           pc[Lobby] = "detach" => job' = job,
           \A s \in Servers : pc'[s] = "close" => pc[s] = "close"
    PROVE  OnceInv' /\ SilentInv' /\ SpentInv' /\ PlaceInv' /\ NameInv' /\ MoveInv'
<1>a. /\ \A c \in Channels, fd \in FDs : Expects(c, fd)' <=> Expects(c, fd)
      /\ \A s \in Servers, fd \in FDs : Has(s, fd)' <=> Has(s, fd)
      /\ \A fd \in FDs : Open(fd)' <=> Open(fd)
      /\ \A fd \in FDs : HasName(fd)' <=> HasName(fd)
      /\ \A x \in Conns : Spent(x) => Spent(x)'
  BY DEF Expects, Has, Open, HasName, Spent
<1>b. \A fd \in FDs : Somewhere(fd)' <=> Somewhere(fd)
  BY <1>a DEF Somewhere
<1>c. \A fd \in FDs : Somewhere(fd) /\ Spent(sock[fd]) => Spent(sock[fd])'
  BY <1>a DEF OwnInv, PlaceInv, Open, Spent, SocketsTypeOK
<1>1. OnceInv'
  <2>1. \A x \in Conns : rx'[x] # <<>> =>
            asked'[x] = 1 /\ \E r \in Requests : r.type = "join" /\ rx'[x] = <<r>>
    BY DEF OwnInv, OnceInv
  <2>2. ASSUME frames[Lobby] # <<>>
        PROVE  \E fd \in interest[Lobby], r \in Requests :
                  /\ r.type = "join" /\ Spent(sock[fd])' /\ fd \notin events[Lobby]
                  /\ frames[Lobby] = <<[fd |-> fd, who |-> sock[fd], req |-> r]>>
    <3>1. PICK fd \in interest[Lobby], r \in Requests :
                  /\ r.type = "join" /\ Spent(sock[fd]) /\ fd \notin events[Lobby]
                  /\ frames[Lobby] = <<[fd |-> fd, who |-> sock[fd], req |-> r]>>
      BY <2>2 DEF OwnInv, OnceInv
    <3>2. fd \in FDs /\ Somewhere(fd)
      BY LobbyApart DEF SocketsTypeOK, Somewhere, Has
    <3> QED BY <1>c, <3>1, <3>2
  <2> QED BY <2>1, <2>2 DEF OnceInv, Spent
<1>2. SilentInv'
  BY DEF OwnInv, SilentInv, FromReport
<1>3. SpentInv'
  <2>1. ASSUME NEW c \in Channels, NEW fd \in FDs, fd \in interest[c] \/ Expects(c, fd)
        PROVE  Spent(sock[fd])'
    <3>1. Somewhere(fd) /\ Spent(sock[fd])
      BY <2>1, LobbyApart DEF OwnInv, SpentInv, Somewhere, Has
    <3> QED BY <1>c, <3>1
  <2>2. ASSUME pc[Lobby] \in AtTransfer
        PROVE  Spent(sock[job.fd])
    BY <2>2 DEF OwnInv, SpentInv
  <2>3. ASSUME pc[Lobby] \in AtTransfer
        PROVE  asked'[sock[job.fd]] = 1 /\ rx'[sock[job.fd]] = <<>>
    <3>1. job.fd \in FDs /\ Somewhere(job.fd)
      BY <2>3, LobbyHas, LobbyApart DEF OwnInv, MoveInv, Somewhere, Has
    <3>2. sock[job.fd] \in Conns
      BY <3>1 DEF OwnInv, PlaceInv, Open, SocketsTypeOK
    <3> QED BY <2>2, <2>3, <3>2 DEF Spent
  <2> QED BY <1>a, <2>1, <2>3 DEF SpentInv, Spent
<1>4. PlaceInv'
  <2>1. \A s \in Servers, c \in Channels, fd \in FDs :
            Has(s, fd)' /\ Expects(c, fd)' =>
               s = Lobby /\ pc'[Lobby] = "detach" /\ job'.fd = fd /\ job'.to = c
    BY <1>a DEF OwnInv, PlaceInv
  <2>2. \A c, d \in Channels : \A e \in Entries(c)', f \in Entries(d)' :
            e.fd = f.fd => c = d /\ e = f
    BY DEF OwnInv, PlaceInv
  <2>3. /\ \A s \in Servers : clients'[s] = interest'[s] /\ interest'[s] \cap cur'[s] = {}
        /\ \A s, t \in Servers, fd \in FDs : Has(s, fd)' /\ Has(t, fd)' => s = t
        /\ \A fd \in FDs : Somewhere(fd)' => Open(fd)'
    BY <1>a, <1>b DEF OwnInv, PlaceInv
  <2> QED BY <2>1, <2>2, <2>3 DEF PlaceInv
<1>5. NameInv'
  <2>1. ASSUME NEW fd \in FDs, HasName(fd)'
        PROVE  name_map'[fd] = sock'[fd] /\ Somewhere(fd)'
    BY <1>a, <1>b, <2>1 DEF OwnInv, NameInv
  <2>2. ASSUME NEW s \in Servers, pc'[s] = "close", NEW fd \in cur'[s]
        PROVE  ~HasName(fd)'
    <3>1. fd \in FDs /\ ~HasName(fd)
      BY <2>2 DEF OwnInv, NameInv, TickTypeOK
    <3> QED BY <1>a, <3>1
  <2> QED BY <2>1, <2>2 DEF NameInv
<1>6. MoveInv'
  <2>1. ASSUME pc'[Lobby] \in AtTransfer
        PROVE  /\ job'.fd \in interest'[Lobby] \ events'[Lobby]
               /\ HasName(job.fd)'
               /\ pc'[Lobby] = "detach" => Expects(job.to, job.fd)'
    <3>1. /\ pc[Lobby] \in AtTransfer /\ job'.fd = job.fd
          /\ events'[Lobby] = events[Lobby]
      BY <2>1
    <3>2. /\ job.fd \in interest[Lobby] \ events[Lobby] /\ HasName(job.fd)
          /\ pc[Lobby] = "detach" => Expects(job.to, job.fd)
      BY <3>1 DEF OwnInv, MoveInv
    <3>3. HasName(job.fd)'
      BY <3>1, <3>2 DEF HasName
    <3>4. pc[Lobby] = "detach" => Expects(job.to, job.fd)'
      BY <3>1, <3>2, LobbyHas DEF Expects
    <3> QED BY <3>1, <3>2, <3>3, <3>4
  <2> QED BY <2>1 DEF MoveInv, AtTransfer, Holding
<1> QED BY <1>1, <1>2, <1>3, <1>4, <1>5, <1>6

\* TickInv is kept if it is kept for the one server whose thread goes on.
LEMMA TickKept ==
    ASSUME TickInv, NEW s \in Servers,
           \A t \in Servers \ {s} :
               /\ pc'[t] = pc[t] /\ events'[t] = events[t] /\ cur'[t] = cur[t]
               /\ doomed'[t] = doomed[t] /\ next_deletion'[t] = next_deletion[t]
               /\ interest'[t] = interest[t],
           \A c \in Channels \ {s} :
               join_pool'[c] = join_pool[c] /\ local_q'[c] = local_q[c],
           LoopsAt(s)', s \in Channels => RoomAt(s)'
    PROVE  TickInv'
<1>1. ASSUME NEW t \in Servers, t # s
      PROVE  LoopsAt(t)'
  BY <1>1 DEF TickInv, LoopsAt
<1>2. ASSUME NEW c \in Channels, c # s
      PROVE  RoomAt(c)'
  <2>1. /\ pc'[c] = pc[c] /\ doomed'[c] = doomed[c] /\ interest'[c] = interest[c]
        /\ next_deletion'[c] = next_deletion[c]
        /\ join_pool'[c] = join_pool[c] /\ local_q'[c] = local_q[c]
    BY <1>2
  <2>2. RoomAt(c)
    BY DEF TickInv
  <2> QED BY <2>1, <2>2 DEF RoomAt
<1> QED BY <1>1, <1>2 DEF TickInv

\* OwnInv is kept when one thread goes on and moves no descriptor.
LEMMA ThreadStays ==
    ASSUME TypeOK, OwnInv, NEW s \in Servers,
           \A t \in Servers \ {s} :
               /\ pc'[t] = pc[t] /\ events'[t] = events[t]
               /\ doomed'[t] = doomed[t] /\ next_deletion'[t] = next_deletion[t],
           UNCHANGED <<sock, name_map, interest, clients, cur, asked, frames,
                       leave_pool>>,
           \A x \in Conns : rx'[x] = rx[x] \/ rx'[x] = <<>>,
           reports' = <<>>, batch' = <<>>, job'.from = job.from,
           \A c \in Channels : Entries(c)' = Entries(c),
           \A c \in Channels \ {s} :
               join_pool'[c] = join_pool[c] /\ local_q'[c] = local_q[c],
           s # Lobby => job' = job,
           s = Lobby =>
               /\ pc[Lobby] # "frames"
               /\ pc'[Lobby] \notin {"full", "leave", "detach"} /\ pc[Lobby] # "detach"
               /\ pc'[Lobby] \in AtTransfer =>
                      /\ pc[Lobby] \in AtTransfer /\ job'.fd = job.fd
                      /\ events'[Lobby] = events[Lobby],
           pc'[s] = "close" => pc[s] = "close",
           LoopsAt(s)', s \in Channels => RoomAt(s)', LockHasHolder'
    PROVE  OwnInv'
<1>1. TickInv'
  BY TickKept DEF OwnInv
<1>2. \A t \in Servers : pc'[t] = "close" => pc[t] = "close"
  OBVIOUS
<1>3. CASE s = Lobby
  <2>1. frames[Lobby] = <<>>
    BY <1>3 DEF OwnInv, OnceInv
  <2>2. OnceInv' /\ SilentInv' /\ SpentInv' /\ PlaceInv' /\ NameInv' /\ MoveInv'
    BY <1>2, <1>3, <2>1, Stays
  <2> QED BY <1>1, <2>2 DEF OwnInv
<1>4. CASE s # Lobby
  <2>1. pc'[Lobby] = pc[Lobby] /\ events'[Lobby] = events[Lobby] /\ job' = job
    BY <1>4, LobbyApart
  <2>2. pc[Lobby] \notin {"full", "leave"}
    BY DEF OwnInv, SilentInv
  <2>3. frames[Lobby] # <<>> => pc[Lobby] = "frames"
    BY DEF OwnInv, OnceInv
  <2>4. OnceInv' /\ SilentInv' /\ SpentInv' /\ PlaceInv' /\ NameInv' /\ MoveInv'
    BY <1>2, <2>1, <2>2, <2>3, Stays
  <2> QED BY <1>1, <2>4 DEF OwnInv
<1> QED BY <1>3, <1>4

\* The main thread holds no pool outside of a transfer.
LEMMA NoneHeld ==
    ASSUME OwnInv, pc[Lobby] \notin Holding
    PROVE  \A c \in Channels : pool_mtx[c] # "main"
BY DEF OwnInv, LockHasHolder

\* What OwnInv says of the tick of a server.
LEMMA AtTick ==
    ASSUME OwnInv, NEW s \in Servers
    PROVE  LoopsAt(s) /\ (s \in Channels => RoomAt(s))
BY DEF OwnInv, TickInv

\* Nothing is reported.
LEMMA NothingReported ==
    ASSUME OwnInv
    PROVE  reports = <<>> /\ batch = <<>>
BY DEF OwnInv, SilentInv

-----------------------------------------------------------------------------
(* The steps of the main thread that move no descriptor.                   *)

\* OwnInv is kept when consume_report finds that there is no report.
LEMMA PopReportsOwns ==
    ASSUME TypeOK, OwnInv, PopReports
    PROVE  OwnInv'
<1>1. pc[Lobby] = "pre" /\ pc'[Lobby] = "reports"
      /\ \A t \in Servers \ {Lobby} : pc'[t] = pc[t]
  BY Goes, LobbyApart DEF PopReports
<1>2. UNCHANGED <<sockVars, clients, name_map, events, frames, doomed, cur,
                  poolVars, clientVars, job>>
  BY DEF PopReports
<1>3. \A t \in Servers \ {Lobby} : next_deletion'[t] = next_deletion[t]
  BY DEF PopReports, TickTypeOK
<1>4. reports' = <<>> /\ batch' = <<>>
  BY NothingReported DEF PopReports
<1>5. LoopsAt(Lobby)'
  BY <1>1, <1>2, AtTick DEF LoopsAt
<1>6. LockHasHolder'
  BY <1>1, <1>2, NoneHeld DEF LockHasHolder, Holding
<1>7. \A c \in Channels : Entries(c)' = Entries(c)
  BY <1>2 DEF Entries
<1> QED BY <1>1, <1>2, <1>3, <1>4, <1>5, <1>6, <1>7, ThreadStays, LobbyApart
        DEF AtTransfer, Holding

\* OwnInv is kept when the main thread polls: epoll_wait reports what it watches.
LEMMA LobbyPollsOwns ==
    ASSUME TypeOK, OwnInv, LobbyPolls
    PROVE  OwnInv'
<1>1. pc[Lobby] = "reports" /\ pc'[Lobby] = "events"
      /\ \A t \in Servers \ {Lobby} : pc'[t] = pc[t]
  BY Goes, LobbyApart DEF LobbyPolls, Poll
<1>2. UNCHANGED <<sockVars, clients, name_map, next_deletion, frames, doomed,
                  cur, channelVars, clientVars, lobbyVars>>
  BY DEF LobbyPolls
<1>3. /\ events'[Lobby] = Ready(Lobby)
      /\ \A t \in Servers \ {Lobby} : events'[t] = events[t]
  BY DEF LobbyPolls, Poll, TickTypeOK
<1>4. reports' = <<>> /\ batch' = <<>>
  BY <1>2, NothingReported
<1>5. LoopsAt(Lobby)'
  BY <1>1, <1>2, <1>3, AtTick DEF LoopsAt, Ready
<1>6. LockHasHolder'
  BY <1>1, <1>2, NoneHeld DEF LockHasHolder, Holding
<1>7. \A c \in Channels : Entries(c)' = Entries(c)
  BY <1>2 DEF Entries
<1> QED BY <1>1, <1>2, <1>3, <1>4, <1>5, <1>6, <1>7, ThreadStays, LobbyApart
        DEF AtTransfer, Holding

\* OwnInv is kept when the constructor of a channel registers resolve_pool.
LEMMA RegisterOwns ==
    ASSUME TypeOK, OwnInv, NEW c \in Channels, Register(c)
    PROVE  OwnInv'
<1>1. /\ pc[Lobby] = "register" /\ pc'[Lobby] \in {"lookup", "fresh"}
      /\ \A t \in Servers \ {Lobby} : pc'[t] = pc[t]
  BY Goes, LobbyApart DEF Register
<1>2. UNCHANGED <<sockVars, clients, name_map, next_deletion, events, frames,
                  doomed, cur, stop_flag, pool_mtx, join_pool, leave_pool,
                  local_q, reports, clientVars, lobbyVars>>
  BY DEF Register
<1>4. reports' = <<>> /\ batch' = <<>>
  BY <1>2, NothingReported
<1>5. LoopsAt(Lobby)'
  BY <1>1, <1>2, AtTick DEF LoopsAt
<1>6. LockHasHolder'
  BY <1>1, <1>2, NoneHeld DEF LockHasHolder, Holding
<1>7. \A d \in Channels : Entries(d)' = Entries(d)
  BY <1>2 DEF Entries
<1> QED BY <1>1, <1>2, <1>4, <1>5, <1>6, <1>7, ThreadStays, LobbyApart
        DEF AtTransfer, Holding

\* OwnInv is kept when find_or_create_channel goes on to another channel.
LEMMA TryNextOwns ==
    ASSUME TypeOK, OwnInv, TryNext
    PROVE  OwnInv'
<1>1. pc[Lobby] = "lookup" /\ job'.fd = job.fd /\ job'.from = job.from
  BY DEF TryNext, LobbyTypeOK
<1>2. UNCHANGED <<sockVars, clients, name_map, tickVars, channelVars,
                  clientVars, last_act, batch>>
  BY DEF TryNext
<1>4. reports' = <<>> /\ batch' = <<>>
  BY <1>2, NothingReported
<1>5. LoopsAt(Lobby)'
  BY <1>1, <1>2, AtTick DEF LoopsAt
<1>6. LockHasHolder'
  BY <1>1, <1>2, NoneHeld DEF LockHasHolder, Holding
<1>7. \A d \in Channels : Entries(d)' = Entries(d)
  BY <1>2 DEF Entries
<1> QED BY <1>1, <1>2, <1>4, <1>5, <1>6, <1>7, ThreadStays, LobbyApart
        DEF AtTransfer, Holding

\* OwnInv is kept when the main thread takes the lock of its target, for a first
\* join: a report there is not.
LEMMA LockOwns ==
    ASSUME TypeOK, OwnInv, LockTarget \/ LockFresh
    PROVE  OwnInv'
<1>0. ~FromReport
  BY DEF OwnInv, SilentInv
<1>1. /\ pc[Lobby] \in {"lookup", "fresh"} /\ pc'[Lobby] = "join"
      /\ \A t \in Servers \ {Lobby} : pc'[t] = pc[t]
  <2>1. pc[Lobby] \in {"lookup", "fresh"} /\ Goto(Lobby, "join")
    BY <1>0 DEF LockTarget, LockFresh
  <2> QED BY <2>1, Goes, LobbyApart
<1>2. UNCHANGED <<sockVars, clients, name_map, next_deletion, events, frames,
                  doomed, cur, stop_flag, join_pool, leave_pool,
                  local_q, reports, clientVars, lobbyVars>>
  BY DEF LockTarget, LockFresh
<1>3. job.to \in Channels /\ \A c \in Channels \ {job.to} : pool_mtx'[c] = pool_mtx[c]
  BY <1>1, LobbyHas DEF LockTarget, LockFresh, Hold, AtTransfer, ChannelTypeOK
<1>4. reports' = <<>> /\ batch' = <<>>
  BY <1>2, NothingReported
<1>5. LoopsAt(Lobby)'
  BY <1>1, <1>2, AtTick DEF LoopsAt
<1>6. LockHasHolder'
  BY <1>1, <1>2, <1>3, NoneHeld DEF LockHasHolder, Holding
<1>7. \A d \in Channels : Entries(d)' = Entries(d)
  BY <1>2 DEF Entries
<1> QED BY <1>1, <1>2, <1>4, <1>5, <1>6, <1>7, ThreadStays, LobbyApart
        DEF AtTransfer, Holding

\* OwnInv is kept when check_lobby condemns those who are late.
LEMMA CheckLobbyOwns ==
    ASSUME TypeOK, OwnInv, CheckLobby
    PROVE  OwnInv'
<1>1. /\ pc[Lobby] = "events" /\ events[Lobby] = {} /\ pc'[Lobby] = "channels"
      /\ \A t \in Servers \ {Lobby} : pc'[t] = pc[t]
  BY Goes, LobbyApart DEF CheckLobby
<1>2. UNCHANGED <<sockVars, clients, name_map, events, frames, doomed, cur,
                  channelVars, clientVars, jobVars>>
  BY DEF CheckLobby
<1>3. \A t \in Servers \ {Lobby} : next_deletion'[t] = next_deletion[t]
  BY DEF CheckLobby, Condemn, TickTypeOK
<1>4. reports' = <<>> /\ batch' = <<>>
  BY <1>2, NothingReported
<1>5. LoopsAt(Lobby)'
  BY <1>1, <1>2, AtTick DEF LoopsAt
<1>6. LockHasHolder'
  BY <1>1, <1>2, NoneHeld DEF LockHasHolder, Holding
<1>7. \A d \in Channels : Entries(d)' = Entries(d)
  BY <1>2 DEF Entries
<1> QED BY <1>1, <1>2, <1>3, <1>4, <1>5, <1>6, <1>7, ThreadStays, LobbyApart
        DEF AtTransfer, Holding

\* OwnInv is kept when the deletion loop of the lobby begins.
LEMMA ChecksDoneOwns ==
    ASSUME TypeOK, OwnInv, ChecksDone
    PROVE  OwnInv'
<1>1. /\ pc[Lobby] = "channels" /\ pc'[Lobby] \in {"pre", "dels"}
      /\ \A t \in Servers \ {Lobby} : pc'[t] = pc[t]
  BY Goes, LobbyApart DEF ChecksDone, StartDeletion
<1>2. UNCHANGED <<sockVars, clients, name_map, next_deletion, events, frames,
                  cur, channelVars, clientVars, lobbyVars>>
  BY DEF ChecksDone
<1>3. \A t \in Servers \ {Lobby} : doomed'[t] = doomed[t]
  BY DEF ChecksDone, StartDeletion, TickTypeOK
<1>4. reports' = <<>> /\ batch' = <<>>
  BY <1>2, NothingReported
<1>5. LoopsAt(Lobby)'
  BY <1>1, <1>2, AtTick DEF LoopsAt
<1>6. LockHasHolder'
  BY <1>1, <1>2, NoneHeld DEF LockHasHolder, Holding
<1>7. \A d \in Channels : Entries(d)' = Entries(d)
  BY <1>2 DEF Entries
<1> QED BY <1>1, <1>2, <1>3, <1>4, <1>5, <1>6, <1>7, ThreadStays, LobbyApart
        DEF AtTransfer, Holding

\* OwnInv is kept when the main thread makes a channel.
LEMMA CreateOwns ==
    ASSUME TypeOK, OwnInv, NEW c \in Channels, Create(c)
    PROVE  OwnInv'
<1>1. /\ pc[Lobby] = "lookup" /\ pc[c] = "none"
      /\ pc'[Lobby] = "register" /\ pc'[c] = "pre"
      /\ \A t \in Servers \ {Lobby, c} : pc'[t] = pc[t]
  BY SocketsAssumption DEF Create, Lacking, channels, TickTypeOK
<1>2. UNCHANGED <<sock, rx, interest, clients, name_map, next_deletion, events,
                  frames, doomed, cur, channelVars, clientVars, lobbyVars>>
  BY DEF Create
<1>3. reports' = <<>> /\ batch' = <<>>
  BY <1>2, NothingReported
<1>4. TickInv'
  <2>1. ASSUME NEW s \in Servers
        PROVE  LoopsAt(s)'
    <3>1. pc'[s] \in {"joins", "leaves", "cast", "channels", "dels", "unname", "close"}
              => pc'[s] = pc[s]
      BY <1>1
    <3>2. pc[s] \in {"unname", "close"} => pc'[s] = pc[s]
      BY <1>1
    <3> QED BY <1>2, <3>1, <3>2, AtTick DEF LoopsAt
  <2>2. ASSUME NEW d \in Channels
        PROVE  RoomAt(d)'
    <3>1. pc'[d] \in {"events", "frames", "joins", "leaves", "cast"} => pc'[d] = pc[d]
      BY <1>1, SocketsAssumption
    <3>2. pc[d] = "joins" => pc'[d] = pc[d]
      BY <1>1, SocketsAssumption
    <3> QED BY <1>2, <3>1, <3>2, AtTick DEF RoomAt
  <2> QED BY <2>1, <2>2 DEF TickInv
<1>5. LockHasHolder'
  BY <1>1, <1>2, NoneHeld DEF LockHasHolder, Holding
<1>6. \A d \in Channels : Entries(d)' = Entries(d)
  BY <1>2 DEF Entries
<1>7. \A s \in Servers : pc'[s] = "close" => pc[s] = "close"
  BY <1>1
<1>8. frames[Lobby] = <<>>
  BY <1>1 DEF OwnInv, OnceInv
<1>9. OnceInv' /\ SilentInv' /\ SpentInv' /\ PlaceInv' /\ NameInv' /\ MoveInv'
  BY <1>1, <1>2, <1>3, <1>6, <1>7, <1>8, Stays DEF AtTransfer, Holding
<1> QED BY <1>4, <1>5, <1>9 DEF OwnInv

\* OwnInv is kept when join starts the worker of a stopped channel anew.
LEMMA JoinRestartsOwns ==
    ASSUME TypeOK, OwnInv, JoinRestarts
    PROVE  OwnInv'
<1>1. /\ pc[Lobby] = "join" /\ pc[job.to] = "dead" /\ job.to \in Channels
      /\ pc'[Lobby] = "restarted" /\ pc'[job.to] = "pre"
      /\ \A t \in Servers \ {Lobby, job.to} : pc'[t] = pc[t]
  BY LobbyHas, SocketsAssumption DEF JoinRestarts, TickTypeOK, AtTransfer, Holding
<1>2. UNCHANGED <<sockVars, clients, name_map, next_deletion, events, frames,
                  doomed, cur, channelVars, clientVars, last_act, batch>>
  BY DEF JoinRestarts
<1>3. reports' = <<>> /\ batch' = <<>>
  BY <1>2, NothingReported
<1>4. TickInv'
  <2>1. ASSUME NEW s \in Servers
        PROVE  LoopsAt(s)'
    <3>1. pc'[s] \in {"joins", "leaves", "cast", "channels", "dels", "unname", "close"}
              => pc'[s] = pc[s]
      BY <1>1
    <3>2. pc[s] \in {"unname", "close"} => pc'[s] = pc[s]
      BY <1>1
    <3> QED BY <1>2, <3>1, <3>2, AtTick DEF LoopsAt
  <2>2. ASSUME NEW d \in Channels
        PROVE  RoomAt(d)'
    <3>1. pc'[d] \in {"events", "frames", "joins", "leaves", "cast"} => pc'[d] = pc[d]
      BY <1>1, SocketsAssumption
    <3>2. pc[d] = "joins" => pc'[d] = pc[d]
      BY <1>1, SocketsAssumption
    <3> QED BY <1>2, <3>1, <3>2, AtTick DEF RoomAt
  <2> QED BY <2>1, <2>2 DEF TickInv
<1>a. job'.fd = job.fd /\ job'.to = job.to /\ job'.from = job.from
  BY DEF JoinRestarts, LobbyTypeOK
<1>5. LockHasHolder'
  <2>1. \A c \in Channels : pool_mtx'[c] = "main" => job.to = c
    BY <1>2 DEF OwnInv, LockHasHolder
  <2> QED BY <1>1, <1>a, <2>1 DEF LockHasHolder, Holding
<1>6. \A d \in Channels : Entries(d)' = Entries(d)
  BY <1>2 DEF Entries
<1>7. \A s \in Servers : pc'[s] = "close" => pc[s] = "close"
  BY <1>1
<1>8. frames[Lobby] = <<>>
  BY <1>1 DEF OwnInv, OnceInv
<1>9. OnceInv' /\ SilentInv' /\ SpentInv' /\ PlaceInv' /\ NameInv' /\ MoveInv'
  BY <1>1, <1>2, <1>3, <1>a, <1>6, <1>7, <1>8, Stays DEF AtTransfer, Holding
<1> QED BY <1>4, <1>5, <1>9 DEF OwnInv

-----------------------------------------------------------------------------
(* The steps of any thread that move no descriptor.                        *)

\* A worker's step that leaves the locks of the main thread alone keeps
\* LockHasHolder.
LEMMA LocksStay ==
    ASSUME OwnInv, pc'[Lobby] = pc[Lobby], job' = job,
           \A c \in Channels : pool_mtx'[c] = "main" => pool_mtx[c] = "main"
    PROVE  LockHasHolder'
BY DEF OwnInv, LockHasHolder

\* OwnInv is kept when an event says that a client is gone, or is void: only
\* clients of the server are condemned.
LEMMA EventOwns ==
    ASSUME TypeOK, OwnInv, NEW s \in Servers,
           \/ \E fd \in FDs : EventEnds(s, fd) \/ EventEmpty(s, fd)
           \/ EventAcceptFails(s),
           UNCHANGED <<channelVars, clientVars, lobbyVars>>
    PROVE  OwnInv'
<1>1. /\ pc[s] = "events"
      /\ UNCHANGED <<sockVars, clients, name_map, pc, frames, doomed, cur,
                     channelVars, clientVars, lobbyVars>>
  BY DEF EventEnds, EventEmpty, EventAcceptFails
<1>2. /\ events'[s] \subseteq events[s]
      /\ \A t \in Servers \ {s} : events'[t] = events[t]
  BY DEF EventEnds, EventEmpty, EventAcceptFails, Handled, TickTypeOK
<1>3. /\ next_deletion'[s] \subseteq next_deletion[s] \cup (events[s] \cap FDs)
      /\ \A t \in Servers \ {s} : next_deletion'[t] = next_deletion[t]
  <2>1. ASSUME NEW fd \in FDs, EventEnds(s, fd)
        PROVE  /\ next_deletion'[s] \subseteq next_deletion[s] \cup (events[s] \cap FDs)
               /\ \A t \in Servers \ {s} : next_deletion'[t] = next_deletion[t]
    BY <2>1 DEF EventEnds, Handled, Condemn, TickTypeOK
  <2>2. ASSUME ~\E fd \in FDs : EventEnds(s, fd)
        PROVE  next_deletion' = next_deletion
    BY <2>2 DEF EventEmpty, EventAcceptFails
  <2> QED BY <2>1, <2>2
<1>4. reports' = <<>> /\ batch' = <<>>
  BY <1>1, NothingReported
<1>5. LoopsAt(s)'
  BY <1>1, <1>2, AtTick DEF LoopsAt
<1>6. s \in Channels => RoomAt(s)'
  <2>1. events[s] \subseteq interest[s] \cup {Listener}
    BY AtTick DEF LoopsAt
  <2>2. s \in Channels => next_deletion'[s] \subseteq interest[s]
    BY <1>1, <1>3, <2>1, AtTick, SocketsAssumption DEF RoomAt
  <2> QED BY <1>1, <2>2, AtTick DEF RoomAt
<1>7. LockHasHolder'
  BY <1>1, LocksStay
<1>8. \A d \in Channels : Entries(d)' = Entries(d)
  BY <1>1 DEF Entries
<1> QED BY <1>1, <1>2, <1>3, <1>4, <1>5, <1>6, <1>7, <1>8, ThreadStays
        DEF AtTransfer, Holding

\* OwnInv is kept when a worker ends or begins its next run.
LEMMA WorkerStartsOwns ==
    ASSUME TypeOK, OwnInv, NEW c \in Channels, WorkerExits(c) \/ WorkerPolls(c),
           UNCHANGED lobbyVars
    PROVE  OwnInv'
<1>1. /\ pc[c] = "pre" /\ pc'[c] \in {"dead", "events"}
      /\ \A t \in Servers \ {c} : pc'[t] = pc[t]
  BY Goes, LobbyApart DEF WorkerExits, WorkerPolls, Poll
<1>2. UNCHANGED <<sockVars, clients, name_map, frames, doomed, cur,
                  channelVars, clientVars, lobbyVars>>
  BY DEF WorkerExits, WorkerPolls
<1>3. \A t \in Servers \ {c} : events'[t] = events[t]
      /\ next_deletion'[t] = next_deletion[t]
  BY DEF WorkerExits, WorkerPolls, Poll, TickTypeOK
<1>4. /\ events'[c] = events[c] \/ events'[c] = Ready(c)
      /\ pc'[c] = "events" => next_deletion'[c] = {}
  <2>1. CASE WorkerExits(c)
    BY <2>1, Goes, LobbyApart DEF WorkerExits
  <2>2. CASE WorkerPolls(c)
    BY <2>2, LobbyApart DEF WorkerPolls, Poll, TickTypeOK
  <2> QED BY <2>1, <2>2
<1>5. reports' = <<>> /\ batch' = <<>>
  BY <1>2, NothingReported
<1>6. LoopsAt(c)'
  <2>1. events'[c] \subseteq interest[c] \cup {Listener}
    BY <1>4, AtTick, LobbyApart DEF LoopsAt, Ready
  <2> QED BY <1>1, <1>2, <2>1, AtTick, LobbyApart DEF LoopsAt
<1>7. RoomAt(c)'
  BY <1>1, <1>2, <1>4, AtTick, LobbyApart DEF RoomAt
<1>8. LockHasHolder'
  BY <1>1, <1>2, LocksStay, LobbyApart
<1>9. \A d \in Channels : Entries(d)' = Entries(d)
  BY <1>2 DEF Entries
<1> QED BY <1>1, <1>2, <1>3, <1>5, <1>6, <1>7, <1>8, <1>9, ThreadStays, LobbyApart

\* OwnInv is kept when resolve_pool takes the lock: local_q has been empty.
LEMMA LockPoolOwns ==
    ASSUME TypeOK, OwnInv, NEW c \in Channels, LockPool(c), UNCHANGED lobbyVars
    PROVE  OwnInv'
<1>1. /\ pc[c] = "events" /\ events[c] = {} /\ pc'[c] = "joins"
      /\ \A t \in Servers \ {c} : pc'[t] = pc[t]
  BY Goes, LobbyApart DEF LockPool
<1>2. UNCHANGED <<sockVars, clients, name_map, next_deletion, events, frames,
                  doomed, cur, leave_pool, reports, clientVars, lobbyVars>>
  BY DEF LockPool
<1>3. /\ local_q'[c] = join_pool[c] /\ join_pool'[c] = {}
      /\ \A d \in Channels \ {c} : local_q'[d] = local_q[d] /\ join_pool'[d] = join_pool[d]
      /\ \A d \in Channels : pool_mtx'[d] = "main" => pool_mtx[d] = "main"
  BY DEF LockPool, LeftByMove, ChannelTypeOK
<1>4. LoopsAt(c) /\ RoomAt(c)
  BY AtTick, LobbyApart
<1>5. reports' = <<>> /\ batch' = <<>>
  BY <1>2, NothingReported
<1>6. LoopsAt(c)'
  BY <1>1, <1>2, <1>4 DEF LoopsAt
<1>7. RoomAt(c)'
  BY <1>1, <1>2, <1>3, <1>4 DEF RoomAt
<1>8. LockHasHolder'
  BY <1>1, <1>2, <1>3, LocksStay, LobbyApart
<1>9. \A d \in Channels : Entries(d)' = Entries(d)
  <2>1. local_q[c] = {}
    BY <1>1, <1>4 DEF RoomAt
  <2> QED BY <1>3, <2>1 DEF Entries
<1> QED BY <1>1, <1>2, <1>3, <1>5, <1>6, <1>7, <1>8, <1>9, ThreadStays, LobbyApart

\* OwnInv is kept when resolve_pool moves leave_pool out: it is empty.
LEMMA MoveLeavesOwns ==
    ASSUME TypeOK, OwnInv, NEW c \in Channels, MoveLeaves(c), UNCHANGED lobbyVars
    PROVE  OwnInv'
<1>1. /\ pc[c] = "joins" /\ pc'[c] = "leaves"
      /\ \A t \in Servers \ {c} : pc'[t] = pc[t]
  BY Goes, LobbyApart DEF MoveLeaves, MovingLeaves
<1>2. UNCHANGED <<sockVars, clients, name_map, next_deletion, events, frames,
                  doomed, cur, join_pool, pool_mtx, reports, clientVars, lobbyVars>>
  BY DEF MoveLeaves
<1>3. UNCHANGED <<local_q, leave_pool>>
  <2>1. local_q[c] = {} /\ leave_pool[c] = {}
    BY DEF MoveLeaves, MovingLeaves, OwnInv, SilentInv
  <2> QED BY <2>1 DEF MoveLeaves, LeftByMove, ChannelTypeOK
<1>4. LoopsAt(c) /\ RoomAt(c)
  BY AtTick, LobbyApart
<1>5. reports' = <<>> /\ batch' = <<>>
  BY <1>2, NothingReported
<1>6. LoopsAt(c)'
  BY <1>1, <1>2, <1>4 DEF LoopsAt
<1>7. RoomAt(c)'
  BY <1>1, <1>2, <1>3, <1>4 DEF RoomAt, MoveLeaves, MovingLeaves
<1>8. LockHasHolder'
  BY <1>1, <1>2, LocksStay, LobbyApart
<1>9. \A d \in Channels : Entries(d)' = Entries(d)
  BY <1>2, <1>3 DEF Entries
<1> QED BY <1>1, <1>2, <1>3, <1>5, <1>6, <1>7, <1>8, <1>9, ThreadStays, LobbyApart

\* OwnInv is kept when resolve_pool ends, or is not in the tick yet.
LEMMA PoolEndsOwns ==
    ASSUME TypeOK, OwnInv, NEW c \in Channels, NoPoolTask(c) \/ UnlockPool(c),
           UNCHANGED lobbyVars
    PROVE  OwnInv'
<1>1. /\ pc[c] = "leaves" \/ (pc[c] = "events" /\ events[c] = {})
      /\ pc'[c] = "cast"
      /\ \A t \in Servers \ {c} : pc'[t] = pc[t]
  BY Goes, LobbyApart DEF NoPoolTask, UnlockPool
<1>2. UNCHANGED <<sockVars, clients, name_map, next_deletion, events, frames,
                  doomed, cur, join_pool, leave_pool, local_q, reports,
                  clientVars, lobbyVars>>
  BY DEF NoPoolTask, UnlockPool
<1>3. \A d \in Channels : pool_mtx'[d] = "main" => pool_mtx[d] = "main"
  BY DEF NoPoolTask, UnlockPool, ChannelTypeOK
<1>4. LoopsAt(c) /\ RoomAt(c)
  BY AtTick, LobbyApart
<1>5. reports' = <<>> /\ batch' = <<>>
  BY <1>2, NothingReported
<1>6. LoopsAt(c)'
  BY <1>1, <1>2, <1>4 DEF LoopsAt
<1>7. RoomAt(c)'
  BY <1>1, <1>2, <1>4 DEF RoomAt
<1>8. LockHasHolder'
  BY <1>1, <1>2, <1>3, LocksStay, LobbyApart
<1>9. \A d \in Channels : Entries(d)' = Entries(d)
  BY <1>2 DEF Entries
<1> QED BY <1>1, <1>2, <1>5, <1>6, <1>7, <1>8, <1>9, ThreadStays, LobbyApart

\* OwnInv is kept when a channel broadcasts: those whose send fails are its own
\* clients.
LEMMA BroadcastOwns ==
    ASSUME TypeOK, OwnInv, NEW c \in Channels, Broadcast(c), UNCHANGED lobbyVars
    PROVE  OwnInv'
<1>1. /\ pc[c] = "cast" /\ pc'[c] \in {"pre", "dels"}
      /\ \A t \in Servers \ {c} : pc'[t] = pc[t]
  BY Goes, LobbyApart DEF Broadcast, StartDeletion
<1>2. UNCHANGED <<sockVars, clients, name_map, events, frames, cur, poolVars,
                  reports, asked, lobbyVars>>
  BY DEF Broadcast
<1>3. LoopsAt(c) /\ RoomAt(c) /\ clients[c] = interest[c]
  BY AtTick, LobbyApart DEF OwnInv, PlaceInv
<1>4. /\ doomed'[c] \subseteq next_deletion[c] \cup clients[c]
      /\ \A t \in Servers \ {c} :
             doomed'[t] = doomed[t] /\ next_deletion'[t] = next_deletion[t]
  BY DEF Broadcast, Condemn, StartDeletion, TickTypeOK
<1>5. reports' = <<>> /\ batch' = <<>>
  BY <1>2, NothingReported
<1>6. LoopsAt(c)'
  BY <1>1, <1>2, <1>3 DEF LoopsAt
<1>7. RoomAt(c)'
  BY <1>1, <1>2, <1>3, <1>4 DEF RoomAt
<1>8. LockHasHolder'
  BY <1>1, <1>2, LocksStay, LobbyApart
<1>9. \A d \in Channels : Entries(d)' = Entries(d)
  BY <1>2 DEF Entries
<1> QED BY <1>1, <1>2, <1>4, <1>5, <1>6, <1>7, <1>8, <1>9, ThreadStays, LobbyApart

-----------------------------------------------------------------------------
(* A connection comes in, is heard and is handed over.                     *)

\* OwnInv is kept when a connection is accepted and given to no server: by a
\* channel, or by a lobby that is full.
LEMMA StrayOwns ==
    ASSUME TypeOK, OwnInv, NEW s \in Servers, NEW x \in Conns, NEW fd \in FDs,
           \/ s = Lobby /\ LobbyRefuses(x, fd)
           \/ s \in Channels /\ ChannelAccepts(s, x, fd) /\ UNCHANGED lobbyVars
    PROVE  OwnInv'
<1>1. /\ pc[s] = "events" /\ pc'[s] \in {"events", "pre"}
      /\ s \in Channels => pc' = pc
      /\ \A t \in Servers \ {s} : pc'[t] = pc[t]
  <2>1. CASE s = Lobby
    BY <2>1, LobbyApart, Goes DEF LobbyRefuses
  <2>2. CASE s \in Channels
    BY <2>2, LobbyApart DEF ChannelAccepts
  <2> QED BY <2>1, <2>2
<1>2. UNCHANGED <<peer, rx, interest, acceptors, clients, name_map, frames,
                  doomed, cur, channelVars, clientVars, lobbyVars>>
  BY LobbyApart DEF LobbyRefuses, ChannelAccepts
<1>3. /\ events'[s] \subseteq events[s]
      /\ s \in Channels => next_deletion'[s] = next_deletion[s]
      /\ \A t \in Servers \ {s} :
             events'[t] = events[t] /\ next_deletion'[t] = next_deletion[t]
  <2>1. CASE s = Lobby
    BY <2>1, LobbyApart DEF LobbyRefuses, Condemn, TickTypeOK
  <2>2. CASE s \in Channels
    BY <2>2, LobbyApart DEF ChannelAccepts, Handled, TickTypeOK
  <2> QED BY <2>1, <2>2
<1>4. /\ ~Open(fd)
      /\ \A g \in FDs \ {fd} : sock'[g] = sock[g]
      /\ ~Somewhere(fd) /\ ~HasName(fd)
  <2>1. ~Open(fd) /\ sock' = [sock EXCEPT ![fd] = x]
    BY LobbyApart DEF LobbyRefuses, ChannelAccepts, Accept
  <2> QED BY <2>1, ClosedIsNowhere DEF SocketsTypeOK
<1>5. /\ \A c \in Channels, g \in FDs : Expects(c, g)' <=> Expects(c, g)
      /\ \A t \in Servers, g \in FDs : Has(t, g)' <=> Has(t, g)
      /\ \A g \in FDs : Somewhere(g)' <=> Somewhere(g)
      /\ \A g \in FDs : HasName(g)' <=> HasName(g)
      /\ \A y \in Conns : Spent(y)' <=> Spent(y)
  BY <1>2 DEF Expects, Entries, Has, Somewhere, HasName, Spent
<1>6. frames[Lobby] = <<>> \/ (s # Lobby /\ pc'[Lobby] = "frames"
      /\ events'[Lobby] = events[Lobby])
  BY <1>1, <1>3, LobbyApart DEF OwnInv, OnceInv
<1>7. pc'[Lobby] \in AtTransfer => s # Lobby /\ pc'[Lobby] = pc[Lobby]
      /\ events'[Lobby] = events[Lobby]
  BY <1>1, <1>3, LobbyApart DEF AtTransfer, Holding
<1>8. \A g \in FDs : Somewhere(g) => sock'[g] = sock[g]
  BY <1>4
<1>11. OnceInv'
  <2>1. \A y \in Conns : rx'[y] # <<>> =>
            asked'[y] = 1 /\ \E r \in Requests : r.type = "join" /\ rx'[y] = <<r>>
    BY <1>2 DEF OwnInv, OnceInv
  <2>2. ASSUME frames[Lobby] # <<>>
        PROVE  \E g \in interest[Lobby], r \in Requests :
                  /\ r.type = "join" /\ Spent(sock'[g]) /\ g \notin events[Lobby]
                  /\ frames[Lobby] = <<[fd |-> g, who |-> sock'[g], req |-> r]>>
    <3>1. PICK g \in interest[Lobby], r \in Requests :
                  /\ r.type = "join" /\ Spent(sock[g]) /\ g \notin events[Lobby]
                  /\ frames[Lobby] = <<[fd |-> g, who |-> sock[g], req |-> r]>>
      BY <2>2 DEF OwnInv, OnceInv
    <3>2. sock'[g] = sock[g]
      BY <1>8, LobbyApart DEF Somewhere, Has, SocketsTypeOK
    <3> QED BY <3>1, <3>2
  <2> QED BY <1>2, <1>6, <2>1, <2>2 DEF OnceInv, Spent
<1>12. SilentInv'
  BY <1>1, <1>2, LobbyApart DEF OwnInv, SilentInv, FromReport
<1>13. SpentInv'
  <2>1. ASSUME NEW c \in Channels, NEW g \in FDs, g \in interest[c] \/ Expects(c, g)
        PROVE  Spent(sock'[g])
    <3>1. Somewhere(g)
      BY <2>1, LobbyApart DEF Somewhere, Has
    <3>2. Spent(sock[g])
      BY <2>1 DEF OwnInv, SpentInv
    <3> QED BY <1>8, <3>1, <3>2
  <2>2. ASSUME pc'[Lobby] \in AtTransfer
        PROVE  Spent(sock'[job.fd])
    <3>1. Somewhere(job.fd) /\ job.fd \in FDs
      BY <1>7, <2>2, LobbyHas, LobbyApart DEF OwnInv, MoveInv, Somewhere, Has
    <3>2. Spent(sock[job.fd])
      BY <1>7, <2>2 DEF OwnInv, SpentInv
    <3> QED BY <1>8, <3>1, <3>2
  <2> QED BY <1>2, <1>5, <2>1, <2>2 DEF SpentInv, Spent
<1>14. PlaceInv'
  <2>1. /\ \A t \in Servers : clients'[t] = interest'[t] /\ interest'[t] \cap cur'[t] = {}
        /\ \A t, u \in Servers, g \in FDs : Has(t, g)' /\ Has(u, g)' => t = u
        /\ \A t \in Servers, c \in Channels, g \in FDs : Has(t, g) /\ Expects(c, g) =>
               t = Lobby /\ pc[Lobby] = "detach" /\ job.fd = g /\ job.to = c
        /\ \A c, d \in Channels : \A e \in Entries(c), f \in Entries(d) :
               e.fd = f.fd => c = d /\ e = f
    BY <1>2, <1>5 DEF OwnInv, PlaceInv
  <2>2. pc[Lobby] = "detach" => pc'[Lobby] = "detach"
    BY <1>1, LobbyApart
  <2>3. \A g \in FDs : Somewhere(g)' => Open(g)'
    BY <1>5, <1>8 DEF OwnInv, PlaceInv, Open
  <2>4. \A t \in Servers, c \in Channels, g \in FDs : Has(t, g)' /\ Expects(c, g)' =>
               t = Lobby /\ pc'[Lobby] = "detach" /\ job'.fd = g /\ job'.to = c
    BY <1>2, <1>5, <2>1, <2>2
  <2>5. \A c, d \in Channels : \A e \in Entries(c)', f \in Entries(d)' :
               e.fd = f.fd => c = d /\ e = f
    BY <1>2, <2>1 DEF Entries
  <2> QED BY <2>1, <2>3, <2>4, <2>5 DEF PlaceInv
<1>15. NameInv'
  <2>1. \A g \in FDs : HasName(g)' => name_map'[g] = sock'[g] /\ Somewhere(g)'
    BY <1>2, <1>5, <1>8 DEF OwnInv, NameInv
  <2>2. \A t \in Servers : pc'[t] = "close" => pc[t] = "close"
    BY <1>1
  <2>3. \A t \in Servers : pc'[t] = "close" => \A g \in cur'[t] : ~HasName(g)'
    BY <1>2, <1>5, <2>2 DEF OwnInv, NameInv, TickTypeOK
  <2> QED BY <2>1, <2>3 DEF NameInv
<1>16. MoveInv'
  BY <1>2, <1>7 DEF OwnInv, MoveInv, HasName, Expects, Entries
<1>17. TickInv'
  <2>1. LoopsAt(s)'
    BY <1>1, <1>2, <1>3, AtTick DEF LoopsAt
  <2>2. s \in Channels => RoomAt(s)'
    BY <1>1, <1>2, <1>3, AtTick DEF RoomAt
  <2> QED BY <1>1, <1>2, <1>3, <2>1, <2>2, TickKept DEF OwnInv
<1>18. LockHasHolder'
  BY <1>1, <1>2, LobbyApart DEF OwnInv, LockHasHolder, Holding
<1> QED BY <1>11, <1>12, <1>13, <1>14, <1>15, <1>16, <1>17, <1>18 DEF OwnInv

\* OwnInv is kept when the lobby accepts a connection: its descriptor was closed,
\* and so nowhere.
LEMMA LobbyAcceptsOwns ==
    ASSUME TypeOK, OwnInv, NEW x \in Conns, NEW fd \in FDs, LobbyAccepts(x, fd)
    PROVE  OwnInv'
<1>1. /\ pc[Lobby] = "events" /\ frames[Lobby] = <<>>
      /\ UNCHANGED <<peer, rx, acceptors, pc, next_deletion, frames, doomed,
                     cur, channelVars, clientVars, jobVars>>
  BY DEF LobbyAccepts, OwnInv, OnceInv
<1>2. /\ ~Open(fd) /\ sock' = [sock EXCEPT ![fd] = x]
      /\ add_client(Lobby, fd) /\ set_user_name(fd, x)
      /\ Handled(Lobby, Listener)
  BY DEF LobbyAccepts, Accept
<1>3. /\ ~Somewhere(fd) /\ ~HasName(fd)
      /\ \A s \in Servers : ~Has(s, fd)
      /\ \A c \in Channels : ~Expects(c, fd)
  BY <1>2, ClosedIsNowhere
<1>4. /\ sock'[fd] = x /\ name_map'[fd] = x /\ x # NoConn
      /\ \A g \in FDs \ {fd} : sock'[g] = sock[g] /\ name_map'[g] = name_map[g]
  BY <1>2, SocketsAssumption DEF SocketsTypeOK, UserTypeOK, set_user_name
<1>5. /\ interest'[Lobby] = interest[Lobby] \cup {fd}
      /\ clients'[Lobby] = clients[Lobby] \cup {fd}
      /\ \A s \in Servers \ {Lobby} : interest'[s] = interest[s] /\ clients'[s] = clients[s]
  BY <1>2 DEF SocketsTypeOK, TrackerTypeOK, add_client
<1>6. /\ events'[Lobby] \subseteq events[Lobby]
      /\ \A s \in Servers \ {Lobby} : events'[s] = events[s]
  BY <1>2 DEF Handled, TickTypeOK
<1>7. /\ \A c \in Channels, g \in FDs : Expects(c, g)' <=> Expects(c, g)
      /\ \A s \in Servers, g \in FDs : Has(s, g)' <=> Has(s, g) \/ (s = Lobby /\ g = fd)
      /\ \A g \in FDs \ {fd} : HasName(g)' <=> HasName(g)
      /\ \A y \in Conns : Spent(y)' <=> Spent(y)
  BY <1>1, <1>4, <1>5 DEF Expects, Entries, Has, HasName, Spent
<1>8. \A g \in FDs : Somewhere(g)' <=> Somewhere(g) \/ g = fd
  BY <1>7 DEF Somewhere
<1>11. OnceInv'
  BY <1>1 DEF OwnInv, OnceInv
<1>12. SilentInv'
  BY <1>1, LobbyApart DEF OwnInv, SilentInv, FromReport
<1>13. SpentInv'
  <2>1. ASSUME NEW c \in Channels, NEW g \in FDs, g \in interest'[c] \/ Expects(c, g)'
        PROVE  Spent(sock'[g])
    <3>1. g \in interest[c] \/ Expects(c, g)
      BY <1>5, <1>7, <2>1, LobbyApart
    <3>2. g # fd /\ Spent(sock[g])
      BY <1>3, <3>1, LobbyApart DEF OwnInv, SpentInv, Has
    <3> QED BY <1>4, <3>2
  <2> QED BY <1>1, <1>7, <2>1 DEF SpentInv, Spent, AtTransfer, Holding
<1>14. PlaceInv'
  <2>1. \A s \in Servers : clients'[s] = interest'[s] /\ interest'[s] \cap cur'[s] = {}
    <3>1. \A s \in Servers : fd \notin cur[s]
      BY <1>3 DEF Has
    <3> QED BY <1>1, <1>5, <3>1 DEF OwnInv, PlaceInv
  <2>2. \A s, t \in Servers, g \in FDs : Has(s, g)' /\ Has(t, g)' => s = t
    BY <1>3, <1>7 DEF OwnInv, PlaceInv
  <2>3. \A s \in Servers, c \in Channels, g \in FDs : ~(Has(s, g)' /\ Expects(c, g)')
    BY <1>1, <1>3, <1>7 DEF OwnInv, PlaceInv
  <2>4. \A c, d \in Channels : \A e \in Entries(c)', f \in Entries(d)' :
               e.fd = f.fd => c = d /\ e = f
    BY <1>1 DEF OwnInv, PlaceInv, Entries
  <2>5. \A g \in FDs : Somewhere(g)' => Open(g)'
    BY <1>4, <1>8 DEF OwnInv, PlaceInv, Open
  <2> QED BY <2>1, <2>2, <2>3, <2>4, <2>5 DEF PlaceInv
<1>15. NameInv'
  <2>1. \A g \in FDs : HasName(g)' => name_map'[g] = sock'[g] /\ Somewhere(g)'
    BY <1>4, <1>7, <1>8 DEF OwnInv, NameInv
  <2>2. ASSUME NEW s \in Servers, pc'[s] = "close", NEW g \in cur'[s]
        PROVE  ~HasName(g)'
    <3>1. g \in FDs /\ g # fd /\ ~HasName(g)
      BY <1>1, <1>3, <2>2 DEF OwnInv, NameInv, TickTypeOK, Has
    <3> QED BY <1>7, <3>1
  <2> QED BY <2>1, <2>2 DEF NameInv
<1>16. MoveInv'
  BY <1>1 DEF MoveInv, AtTransfer, Holding
<1>17. TickInv'
  <2>1. LoopsAt(Lobby)'
    BY <1>1, <1>5, <1>6, AtTick, LobbyApart DEF LoopsAt
  <2> QED BY <1>1, <1>5, <1>6, <2>1, TickKept, LobbyApart DEF OwnInv
<1>18. LockHasHolder'
  BY <1>1 DEF OwnInv, LockHasHolder
<1> QED BY <1>11, <1>12, <1>13, <1>14, <1>15, <1>16, <1>17, <1>18 DEF OwnInv

\* What the lobby has in its hands in the loop of on_recv: one frame, the first
\* join of the client it read it from.
LEMMA FirstJoin ==
    ASSUME TypeOK, OwnInv, pc[Lobby] = "frames"
    PROVE  /\ Frame(Lobby).fd \in interest[Lobby] \ events[Lobby]
           /\ Frame(Lobby).fd \in FDs
           /\ Frame(Lobby).who = sock[Frame(Lobby).fd]
           /\ Frame(Lobby).req.type = "join"
           /\ Spent(sock[Frame(Lobby).fd])
           /\ Tail(frames[Lobby]) = <<>>
<1>1. frames[Lobby] # <<>>
  BY DEF TickTypeOK
<1>2. PICK fd \in interest[Lobby], r \in Requests :
          /\ r.type = "join" /\ Spent(sock[fd]) /\ fd \notin events[Lobby]
          /\ frames[Lobby] = <<[fd |-> fd, who |-> sock[fd], req |-> r]>>
  BY <1>1 DEF OwnInv, OnceInv
<1>3. Frame(Lobby) = [fd |-> fd, who |-> sock[fd], req |-> r]
  BY <1>2 DEF Frame
<1>4. Tail(frames[Lobby]) = <<>>
  BY <1>2
<1>5. fd \in FDs
  BY <1>2 DEF SocketsTypeOK
<1> QED BY <1>2, <1>3, <1>4, <1>5

\* OwnInv is kept when the lobby hears a first join and begins the transfer.
LEMMA HearFirstJoinOwns ==
    ASSUME TypeOK, OwnInv, HearFirstJoin
    PROVE  OwnInv'
<1>1. /\ pc[Lobby] = "frames" /\ pc'[Lobby] = "lookup"
      /\ \A t \in Servers \ {Lobby} : pc'[t] = pc[t]
  BY Goes, LobbyApart DEF HearFirstJoin
<1>2. UNCHANGED <<sockVars, clients, next_deletion, events, doomed, cur,
                  channelVars, clientVars, last_act, batch>>
  BY DEF HearFirstJoin
<1>3. PICK fd \in FDs :
          /\ fd \in interest[Lobby] \ events[Lobby] /\ Spent(sock[fd])
          /\ job'.fd = fd /\ job'.from = NoChannel
          /\ set_user_name(fd, sock[fd])
  BY <1>1, FirstJoin DEF HearFirstJoin
<1>4. /\ frames'[Lobby] = <<>>
      /\ \A t \in Servers \ {Lobby} : frames'[t] = frames[t]
  BY <1>1, FirstJoin DEF HearFirstJoin, TakeFrame, TickTypeOK
<1>5. Somewhere(fd) /\ Open(fd)
  BY <1>3, LobbyApart DEF Somewhere, Has, OwnInv, PlaceInv
<1>6. /\ name_map'[fd] = sock[fd]
      /\ \A g \in FDs \ {fd} : name_map'[g] = name_map[g]
  BY <1>3 DEF UserTypeOK, set_user_name
<1>7. /\ \A c \in Channels, g \in FDs : Expects(c, g)' <=> Expects(c, g)
      /\ \A s \in Servers, g \in FDs : Has(s, g)' <=> Has(s, g)
      /\ \A g \in FDs : Open(g)' <=> Open(g)
      /\ \A y \in Conns : Spent(y)' <=> Spent(y)
      /\ HasName(fd)' /\ \A g \in FDs \ {fd} : HasName(g)' <=> HasName(g)
  BY <1>2, <1>5, <1>6 DEF Expects, Entries, Has, Open, Spent, HasName
<1>8. \A g \in FDs : Somewhere(g)' <=> Somewhere(g)
  BY <1>7 DEF Somewhere
<1>11. OnceInv'
  BY <1>2, <1>4 DEF OwnInv, OnceInv
<1>12. SilentInv'
  BY <1>1, <1>2, <1>3, <1>4, LobbyApart DEF OwnInv, SilentInv, FromReport
<1>13. SpentInv'
  BY <1>2, <1>3, <1>7 DEF OwnInv, SpentInv, Spent
<1>14. PlaceInv'
  <2>1. \A s \in Servers, c \in Channels, g \in FDs : ~(Has(s, g)' /\ Expects(c, g)')
    BY <1>1, <1>7 DEF OwnInv, PlaceInv
  <2>2. \A c, d \in Channels : \A e \in Entries(c)', f \in Entries(d)' :
               e.fd = f.fd => c = d /\ e = f
    BY <1>2 DEF OwnInv, PlaceInv, Entries
  <2>3. /\ \A s \in Servers : clients'[s] = interest'[s] /\ interest'[s] \cap cur'[s] = {}
        /\ \A s, t \in Servers, g \in FDs : Has(s, g)' /\ Has(t, g)' => s = t
        /\ \A g \in FDs : Somewhere(g)' => Open(g)'
    BY <1>2, <1>7, <1>8 DEF OwnInv, PlaceInv
  <2> QED BY <2>1, <2>2, <2>3 DEF PlaceInv
<1>15. NameInv'
  <2>1. \A g \in FDs : HasName(g)' => name_map'[g] = sock'[g] /\ Somewhere(g)'
    BY <1>2, <1>5, <1>6, <1>7, <1>8 DEF OwnInv, NameInv
  <2>2. ASSUME NEW s \in Servers, pc'[s] = "close", NEW g \in cur'[s]
        PROVE  ~HasName(g)'
    <3>1. g \in FDs /\ ~HasName(g) /\ s # Lobby /\ g \in cur[s]
      BY <1>1, <1>2, <2>2 DEF OwnInv, NameInv, TickTypeOK
    <3>2. g # fd
      BY <1>3, <3>1, LobbyApart DEF OwnInv, PlaceInv, Has
    <3> QED BY <1>7, <3>1, <3>2
  <2> QED BY <2>1, <2>2 DEF NameInv
<1>16. MoveInv'
  BY <1>1, <1>2, <1>3, <1>7 DEF MoveInv, HasName
<1>17. TickInv'
  <2>1. LoopsAt(Lobby)'
    BY <1>1, <1>2, AtTick, LobbyApart DEF LoopsAt
  <2> QED BY <1>1, <1>2, <2>1, TickKept, LobbyApart DEF OwnInv
<1>18. LockHasHolder'
  BY <1>1, <1>2, NoneHeld DEF LockHasHolder, Holding
<1> QED BY <1>11, <1>12, <1>13, <1>14, <1>15, <1>16, <1>17, <1>18 DEF OwnInv

\* OwnInv is kept when the lobby reads what a client has sent: its first join, so
\* that from now on it is spent.
LEMMA LobbyReceivesOwns ==
    ASSUME TypeOK, OwnInv, NEW fd \in FDs, EventReceives(Lobby, fd),
           UNCHANGED <<channelVars, clientVars, lobbyVars>>
    PROVE  OwnInv'
<1>1. /\ pc[Lobby] = "events" /\ pc'[Lobby] = "frames"
      /\ \A t \in Servers \ {Lobby} : pc'[t] = pc[t]
  BY Goes, LobbyApart DEF EventReceives
<1>2. UNCHANGED <<sock, peer, backlog, interest, acceptors, clients, name_map,
                  next_deletion, doomed, cur, channelVars, clientVars, lobbyVars>>
  BY DEF EventReceives
<1>3. /\ events'[Lobby] = events[Lobby] \ {fd} /\ fd \in events[Lobby]
      /\ \A t \in Servers \ {Lobby} : events'[t] = events[t]
  BY LobbyApart DEF EventReceives, Handled, TickTypeOK
<1>4. fd \in interest[Lobby]
  BY <1>3, AtTick, LobbyApart, SocketsAssumption DEF LoopsAt
<1>5. sock[fd] \in Conns /\ rx[sock[fd]] # <<>>
  BY DEF EventReceives, RecvData, Open, SocketsTypeOK
<1>6. PICK r \in Requests : r.type = "join" /\ rx[sock[fd]] = <<r>>
  BY <1>5 DEF OwnInv, OnceInv
<1>7. /\ frames'[Lobby] = <<[fd |-> fd, who |-> sock[fd], req |-> r]>>
      /\ \A t \in Servers \ {Lobby} : frames'[t] = frames[t]
  <2>1. frames' = [frames EXCEPT ![Lobby] = [i \in DOMAIN rx[sock[fd]] |->
                      [fd |-> fd, who |-> sock[fd], req |-> rx[sock[fd]][i]]]]
    BY DEF EventReceives
  <2>2. [i \in DOMAIN rx[sock[fd]] |->
            [fd |-> fd, who |-> sock[fd], req |-> rx[sock[fd]][i]]]
        = <<[fd |-> fd, who |-> sock[fd], req |-> r]>>
    <3> DEFINE R == rx[sock[fd]]
    <3>1. DOMAIN R = {1} /\ R[1] = r
      BY <1>6
    <3> QED BY <3>1
  <2> QED BY <2>1, <2>2, LobbyApart DEF TickTypeOK
<1>8. /\ rx'[sock[fd]] = <<>> /\ asked[sock[fd]] = 1
      /\ \A y \in Conns \ {sock[fd]} : rx'[y] = rx[y]
  BY <1>5 DEF EventReceives, SocketsTypeOK, OwnInv, OnceInv
<1>9. /\ \A c \in Channels, g \in FDs : Expects(c, g)' <=> Expects(c, g)
      /\ \A s \in Servers, g \in FDs : Has(s, g)' <=> Has(s, g)
      /\ \A g \in FDs : Open(g)' <=> Open(g)
      /\ \A g \in FDs : HasName(g)' <=> HasName(g)
  BY <1>2 DEF Expects, Entries, Has, Open, HasName
<1>10. \A g \in FDs : Somewhere(g)' <=> Somewhere(g)
  BY <1>9 DEF Somewhere
<1>a. asked'[sock[fd]] = 1 /\ rx'[sock[fd]] = <<>>
  BY <1>2, <1>8
<1>11. OnceInv'
  <2>1. \A y \in Conns : rx'[y] # <<>> =>
            asked'[y] = 1 /\ \E q \in Requests : q.type = "join" /\ rx'[y] = <<q>>
    BY <1>2, <1>8 DEF OwnInv, OnceInv
  <2>2. /\ r.type = "join" /\ Spent(sock[fd])' /\ fd \notin events'[Lobby]
        /\ frames'[Lobby] = <<[fd |-> fd, who |-> sock'[fd], req |-> r]>>
    BY <1>2, <1>3, <1>6, <1>7, <1>a DEF Spent
  <2> QED BY <1>1, <1>2, <1>4, <2>1, <2>2 DEF OnceInv, Spent
<1>12. SilentInv'
  BY <1>1, <1>2, <1>7, LobbyApart DEF OwnInv, SilentInv, FromReport
<1>13. SpentInv'
  <2>1. ASSUME NEW c \in Channels, NEW g \in FDs, g \in interest'[c] \/ Expects(c, g)'
        PROVE  asked'[sock'[g]] = 1 /\ rx'[sock'[g]] = <<>>
    <3>1. Spent(sock[g]) /\ Open(g)
      BY <1>2, <1>9, <2>1, LobbyApart DEF OwnInv, SpentInv, PlaceInv, Somewhere, Has
    <3> QED BY <1>2, <1>8, <1>a, <3>1 DEF Spent, Open, SocketsTypeOK
  <2> QED BY <1>1, <2>1 DEF SpentInv, Spent, AtTransfer, Holding
<1>14. PlaceInv'
  <2>1. \A s \in Servers, c \in Channels, g \in FDs : ~(Has(s, g)' /\ Expects(c, g)')
    BY <1>1, <1>9 DEF OwnInv, PlaceInv
  <2>2. \A c, d \in Channels : \A e \in Entries(c)', f \in Entries(d)' :
               e.fd = f.fd => c = d /\ e = f
    BY <1>2 DEF OwnInv, PlaceInv, Entries
  <2>3. /\ \A s \in Servers : clients'[s] = interest'[s] /\ interest'[s] \cap cur'[s] = {}
        /\ \A s, t \in Servers, g \in FDs : Has(s, g)' /\ Has(t, g)' => s = t
        /\ \A g \in FDs : Somewhere(g)' => Open(g)'
    BY <1>2, <1>9, <1>10 DEF OwnInv, PlaceInv
  <2> QED BY <2>1, <2>2, <2>3 DEF PlaceInv
<1>15. NameInv'
  <2>1. \A g \in FDs : HasName(g)' => name_map'[g] = sock'[g] /\ Somewhere(g)'
    BY <1>2, <1>9, <1>10 DEF OwnInv, NameInv
  <2>2. \A s \in Servers : pc'[s] = "close" => \A g \in cur'[s] : ~HasName(g)'
    BY <1>1, <1>2, <1>9 DEF OwnInv, NameInv, TickTypeOK
  <2> QED BY <2>1, <2>2 DEF NameInv
<1>16. MoveInv'
  BY <1>1 DEF MoveInv, AtTransfer, Holding
<1>17. TickInv'
  <2>1. LoopsAt(Lobby)'
    BY <1>1, <1>2, <1>3, AtTick, LobbyApart DEF LoopsAt
  <2> QED BY <1>1, <1>2, <1>3, <2>1, TickKept, LobbyApart DEF OwnInv
<1>18. LockHasHolder'
  BY <1>1, <1>2, NoneHeld DEF LockHasHolder, Holding
<1> QED BY <1>11, <1>12, <1>13, <1>14, <1>15, <1>16, <1>17, <1>18 DEF OwnInv

\* OwnInv is kept by Channel::join, at either of the two places that reach it:
\* the descriptor is not expected anywhere yet.
LEMMA JoinOwns ==
    ASSUME TypeOK, PoolInv, OwnInv, pc[Lobby] \in {"join", "restarted"},
           NEW who \in Conns, join(job.to, job.fd, who), Goto(Lobby, AfterJoin),
           UNCHANGED <<sockVars, clients, name_map, next_deletion, events, frames,
                       doomed, cur, pool_mtx, leave_pool, local_q, reports,
                       clientVars, lobbyVars>>
    PROVE  OwnInv'
<1> DEFINE g == job.fd
           c == job.to
           new == [fd |-> g, who |-> who]
<1>1. /\ pc'[Lobby] = "detach"
      /\ \A t \in Servers \ {Lobby} : pc'[t] = pc[t]
  <2>1. AfterJoin = "detach"
    BY DEF AfterJoin, OwnInv, SilentInv
  <2> QED BY <2>1, Goes, LobbyApart
<1>2. /\ g \in FDs /\ c \in Channels
      /\ g \in interest[Lobby] \ events[Lobby] /\ HasName(g)
      /\ Spent(sock[g])
  BY LobbyHas DEF OwnInv, MoveInv, SpentInv, AtTransfer, Holding
<1>3. Has(Lobby, g) /\ \A d \in Channels : ~Expects(d, g)
  BY <1>2, LobbyApart DEF OwnInv, PlaceInv, Has
<1>4. /\ join_pool'[c] = join_pool[c] \cup {new}
      /\ \A d \in Channels \ {c} : join_pool'[d] = join_pool[d]
  BY <1>2, <1>3 DEF join, Emplace, ChannelTypeOK, Expects, Entries
<1>5. /\ Entries(c)' = Entries(c) \cup {new}
      /\ \A d \in Channels \ {c} : Entries(d)' = Entries(d)
  BY <1>4 DEF Entries
<1>6. new.fd = g
  OBVIOUS
<1>7. /\ \A d \in Channels, h \in FDs : Expects(d, h)' <=> Expects(d, h) \/ (d = c /\ h = g)
      /\ \A s \in Servers, h \in FDs : Has(s, h)' <=> Has(s, h)
      /\ \A h \in FDs : Open(h)' <=> Open(h)
      /\ \A h \in FDs : HasName(h)' <=> HasName(h)
      /\ \A y \in Conns : Spent(y)' <=> Spent(y)
  <2>1. \A d \in Channels, h \in FDs : Expects(d, h)' <=> Expects(d, h) \/ (d = c /\ h = g)
    BY <1>2, <1>5, <1>6 DEF Expects
  <2> QED BY <2>1 DEF Has, Open, HasName, Spent
<1>8. \A h \in FDs : Somewhere(h)' <=> Somewhere(h)
  BY <1>2, <1>3, <1>7, LobbyApart DEF Somewhere
<1>9. frames[Lobby] = <<>>
  BY DEF OwnInv, OnceInv
<1>11. OnceInv'
  BY <1>9 DEF OwnInv, OnceInv
<1>12. SilentInv'
  BY <1>1, LobbyApart DEF OwnInv, SilentInv, FromReport
<1>13. SpentInv'
  <2>1. ASSUME NEW d \in Channels, NEW h \in FDs, h \in interest[d] \/ Expects(d, h)'
        PROVE  Spent(sock[h])
    BY <1>2, <1>7, <2>1 DEF OwnInv, SpentInv
  <2> QED BY <1>2, <2>1 DEF SpentInv, Spent
<1>14. PlaceInv'
  <2>1. \A s \in Servers, d \in Channels, h \in FDs : Has(s, h)' /\ Expects(d, h)' =>
            s = Lobby /\ pc'[Lobby] = "detach" /\ job'.fd = h /\ job'.to = d
    BY <1>1, <1>2, <1>3, <1>7, LobbyApart DEF OwnInv, PlaceInv
  <2>2. ASSUME NEW d \in Channels, NEW d2 \in Channels,
               NEW e \in Entries(d)', NEW f \in Entries(d2)', e.fd = f.fd
        PROVE  d = d2 /\ e = f
    <3>1. /\ e \in Entries(d) \/ (d = c /\ e = new)
          /\ f \in Entries(d2) \/ (d2 = c /\ f = new)
      BY <1>5, <2>2
    <3>2. \A h \in Entries(d) \cup Entries(d2) : h.fd # g
      BY <1>3 DEF Expects
    <3> QED BY <1>6, <2>2, <3>1, <3>2 DEF OwnInv, PlaceInv
  <2>3. /\ \A s \in Servers : clients'[s] = interest'[s] /\ interest'[s] \cap cur'[s] = {}
        /\ \A s, t \in Servers, h \in FDs : Has(s, h)' /\ Has(t, h)' => s = t
        /\ \A h \in FDs : Somewhere(h)' => Open(h)'
    BY <1>7, <1>8 DEF OwnInv, PlaceInv
  <2> QED BY <2>1, <2>2, <2>3 DEF PlaceInv
<1>15. NameInv'
  <2>1. \A h \in FDs : HasName(h)' => name_map'[h] = sock'[h] /\ Somewhere(h)'
    BY <1>7, <1>8 DEF OwnInv, NameInv
  <2>2. \A s \in Servers : pc'[s] = "close" => \A h \in cur'[s] : ~HasName(h)'
    BY <1>1, <1>7 DEF OwnInv, NameInv, TickTypeOK
  <2> QED BY <2>1, <2>2 DEF NameInv
<1>16. MoveInv'
  <2>1. HasName(g)' /\ Expects(c, g)'
    BY <1>2, <1>7
  <2> QED BY <1>2, <2>1 DEF MoveInv
<1>17. TickInv'
  <2>1. \A s \in Servers : LoopsAt(s)'
    <3>1. ASSUME NEW s \in Servers
          PROVE  LoopsAt(s)'
      <4>1. pc'[s] = pc[s] \/ (pc'[s] = "detach" /\ pc[s] \in {"join", "restarted"})
        BY <1>1
      <4> QED BY <4>1, AtTick DEF LoopsAt
    <3> QED BY <3>1
  <2>2. \A d \in Channels \ {c} : RoomAt(d)'
    BY <1>1, <1>4, AtTick, LobbyApart DEF RoomAt
  <2>3. RoomAt(c)'
    <3>1. pool_mtx[c] = "main" /\ pc[c] # "joins"
      BY <1>2 DEF PoolInv, LockInv, Holding
    <3>2. local_q[c] = {}
      BY <1>2, <3>1, AtTick, LobbyApart DEF RoomAt
    <3> QED BY <1>1, <1>2, <3>2, AtTick, LobbyApart DEF RoomAt
  <2> QED BY <2>1, <2>2, <2>3 DEF TickInv
<1>18. LockHasHolder'
  BY <1>1 DEF OwnInv, LockHasHolder, Holding
<1> QED BY <1>11, <1>12, <1>13, <1>14, <1>15, <1>16, <1>17, <1>18 DEF OwnInv

\* OwnInv is kept when a first join goes into the pool of a running channel, or
\* of one that runs again.
LEMMA JoinsOwns ==
    ASSUME TypeOK, PoolInv, OwnInv, JoinRunning \/ JoinRestarted
    PROVE  OwnInv'
<1>1. job.fd \in FDs
  BY LobbyHas DEF JoinRunning, JoinRestarted, AtTransfer, Holding
<1>2. CASE JoinRunning
  <2>1. get_user_name(job.fd) \in Conns
    BY <1>1, <1>2 DEF JoinRunning, HasName, get_user_name, UserTypeOK
  <2> QED BY <1>2, <2>1, JoinOwns DEF JoinRunning
<1>3. CASE JoinRestarted
  <2>1. job.who \in Conns
    BY <1>3 DEF JoinRestarted, LobbyTypeOK
  <2> QED BY <1>3, <2>1, JoinOwns DEF JoinRestarted
<1> QED BY <1>2, <1>3

\* OwnInv is kept when the lobby lets go of a client that a channel expects.
LEMMA DetachOwns ==
    ASSUME TypeOK, OwnInv, Detach
    PROVE  OwnInv'
<1> DEFINE g == job.fd
           c == job.to
<1>1. /\ pc[Lobby] = "detach" /\ frames[Lobby] = <<>> /\ pc'[Lobby] = "events"
      /\ \A t \in Servers \ {Lobby} : pc'[t] = pc[t]
  <2>1. pc[Lobby] = "detach" /\ frames[Lobby] = <<>>
    BY DEF Detach, OwnInv, OnceInv
  <2> QED BY <2>1, Goes, LobbyApart DEF Detach, AfterFrame
<1>2. UNCHANGED <<sock, peer, rx, backlog, acceptors, name_map, next_deletion,
                  events, frames, doomed, cur, join_pool, leave_pool, local_q,
                  reports, clientVars, batch, tried>>
  BY DEF Detach
<1>3. /\ g \in FDs /\ c \in Channels
      /\ g \in interest[Lobby] \ events[Lobby] /\ Expects(c, g)
  BY <1>1, LobbyHas DEF OwnInv, MoveInv, AtTransfer, Holding
<1>4. /\ interest'[Lobby] = interest[Lobby] \ {g}
      /\ clients'[Lobby] = clients[Lobby] \ {g}
      /\ \A s \in Servers \ {Lobby} : interest'[s] = interest[s] /\ clients'[s] = clients[s]
  BY DEF Detach, delete_client, SocketsTypeOK, TrackerTypeOK
<1>5. job'.from = NoChannel /\ job' = NoJob
  BY DEF Detach, NoJob
<1>6. g \notin cur[Lobby]
  BY <1>3, LobbyApart DEF OwnInv, PlaceInv
<1>7. /\ \A d \in Channels, h \in FDs : Expects(d, h)' <=> Expects(d, h)
      /\ \A s \in Servers, h \in FDs : Has(s, h)' <=> Has(s, h) /\ (s # Lobby \/ h # g)
      /\ \A h \in FDs : Open(h)' <=> Open(h)
      /\ \A h \in FDs : HasName(h)' <=> HasName(h)
      /\ \A y \in Conns : Spent(y)' <=> Spent(y)
  BY <1>2, <1>4, <1>6 DEF Expects, Entries, Has, Open, HasName, Spent
<1>8. \A h \in FDs : Somewhere(h)' <=> Somewhere(h)
  BY <1>3, <1>7 DEF Somewhere
<1>11. OnceInv'
  BY <1>1, <1>2 DEF OwnInv, OnceInv
<1>12. SilentInv'
  BY <1>1, <1>2, <1>5, LobbyApart DEF OwnInv, SilentInv, FromReport
<1>13. SpentInv'
  BY <1>1, <1>2, <1>4, <1>7, LobbyApart DEF OwnInv, SpentInv, Spent, AtTransfer, Holding
<1>14. PlaceInv'
  <2>1. \A s \in Servers, d \in Channels, h \in FDs : ~(Has(s, h)' /\ Expects(d, h)')
    BY <1>7 DEF OwnInv, PlaceInv
  <2>2. \A d, d2 \in Channels : \A e \in Entries(d)', f \in Entries(d2)' :
               e.fd = f.fd => d = d2 /\ e = f
    BY <1>2 DEF OwnInv, PlaceInv, Entries
  <2>3. /\ \A s, t \in Servers, h \in FDs : Has(s, h)' /\ Has(t, h)' => s = t
        /\ \A h \in FDs : Somewhere(h)' => Open(h)'
    BY <1>7, <1>8 DEF OwnInv, PlaceInv
  <2>4. \A s \in Servers : clients'[s] = interest'[s] /\ interest'[s] \cap cur'[s] = {}
    BY <1>2, <1>4 DEF OwnInv, PlaceInv
  <2> QED BY <2>1, <2>2, <2>3, <2>4 DEF PlaceInv
<1>15. NameInv'
  <2>1. \A h \in FDs : HasName(h)' => name_map'[h] = sock'[h] /\ Somewhere(h)'
    BY <1>2, <1>7, <1>8 DEF OwnInv, NameInv
  <2>2. \A s \in Servers : pc'[s] = "close" => \A h \in cur'[s] : ~HasName(h)'
    BY <1>1, <1>2, <1>7 DEF OwnInv, NameInv, TickTypeOK
  <2> QED BY <2>1, <2>2 DEF NameInv
<1>16. MoveInv'
  BY <1>1 DEF MoveInv, AtTransfer, Holding
<1>17. TickInv'
  <2>1. LoopsAt(Lobby)'
    BY <1>1, <1>2, <1>3, <1>4, AtTick, LobbyApart DEF LoopsAt
  <2> QED BY <1>1, <1>2, <1>4, <2>1, TickKept, LobbyApart DEF OwnInv
<1>18. LockHasHolder'
  <2>1. \A d \in Channels : pool_mtx[d] = "main" => d = c
    BY DEF OwnInv, LockHasHolder
  <2>2. \A d \in Channels : pool_mtx'[d] # "main"
    BY <1>3, <2>1 DEF Detach, Release, ChannelTypeOK
  <2> QED BY <2>2 DEF LockHasHolder
<1> QED BY <1>11, <1>12, <1>13, <1>14, <1>15, <1>16, <1>17, <1>18 DEF OwnInv

\* OwnInv is kept when a channel takes a client in: it was expected here and
\* nowhere else, and the lobby has let go of it.
LEMMA TakeInOwns ==
    ASSUME TypeOK, PoolInv, OwnInv, NEW c \in Channels, NEW e \in local_q[c],
           TakeIn(c, e), UNCHANGED lobbyVars
    PROVE  OwnInv'
<1> DEFINE g == e.fd
<1>1. /\ pc[c] = "joins"
      /\ UNCHANGED <<sock, peer, rx, backlog, acceptors, name_map, tickVars,
                     pool_mtx, join_pool, leave_pool, reports, clientVars, lobbyVars>>
  BY DEF TakeIn
<1>2. e \in Entries(c) /\ g \in FDs /\ Expects(c, g)
  <2>1. e \in Entries(c) /\ e \in PoolEntries
    BY DEF Entries, ChannelTypeOK
  <2>2. g \in FDs
    BY <2>1 DEF PoolEntries
  <2> QED BY <2>1, <2>2 DEF Expects
<1>3. pc[Lobby] = "detach" => job.to # c
  BY <1>1 DEF PoolInv, LockInv, Holding
<1>4. \A s \in Servers : ~Has(s, g)
  BY <1>2, <1>3 DEF OwnInv, PlaceInv
<1>5. Open(g)
  BY <1>2 DEF OwnInv, PlaceInv, Somewhere
<1>6. /\ interest'[c] = interest[c] \cup {g} /\ clients'[c] = clients[c] \cup {g}
      /\ \A s \in Servers \ {c} : interest'[s] = interest[s] /\ clients'[s] = clients[s]
  <2>1. CanAdd(c, g)
    BY <1>1, <1>4, <1>5, TakeInHasRoom, LobbyApart DEF CanAdd, Has
  <2>2. add_client(c, g)
    BY <2>1 DEF TakeIn
  <2> QED BY <2>2, LobbyApart DEF add_client, SocketsTypeOK, TrackerTypeOK
<1>7. /\ local_q'[c] = local_q[c] \ {e} /\ join_pool[c] = {}
      /\ \A d \in Channels \ {c} : local_q'[d] = local_q[d]
  BY AtTick, LobbyApart DEF TakeIn, ChannelTypeOK, RoomAt
<1>8. /\ Entries(c)' = Entries(c) \ {e}
      /\ \A d \in Channels \ {c} : Entries(d)' = Entries(d)
  BY <1>1, <1>7 DEF Entries
<1>9. \A d \in Channels : \A f \in Entries(d) : f.fd = g => d = c /\ f = e
  BY <1>2 DEF OwnInv, PlaceInv
<1>10. /\ \A d \in Channels, h \in FDs : Expects(d, h)' <=> Expects(d, h) /\ h # g
       /\ \A s \in Servers, h \in FDs : Has(s, h)' <=> Has(s, h) \/ (s = c /\ h = g)
       /\ \A h \in FDs : HasName(h)' <=> HasName(h)
  <2>1. \A d \in Channels, h \in FDs : Expects(d, h)' <=> Expects(d, h) /\ h # g
    BY <1>8, <1>9 DEF Expects
  <2> QED BY <1>1, <1>6, <2>1 DEF Has, HasName
<1>a. \A h \in FDs : Somewhere(h)' <=> Somewhere(h)
  BY <1>2, <1>10, LobbyApart DEF Somewhere
<1>11. OnceInv'
  BY <1>1, <1>6, LobbyApart DEF OwnInv, OnceInv, Spent
<1>12. SilentInv'
  BY <1>1 DEF OwnInv, SilentInv, FromReport
<1>13. SpentInv'
  <2>1. ASSUME NEW d \in Channels, NEW h \in FDs, h \in interest'[d] \/ Expects(d, h)'
        PROVE  Spent(sock[h])
    <3>1. h \in interest[d] \/ Expects(d, h)
      BY <1>2, <1>6, <1>10, <2>1, LobbyApart
    <3> QED BY <3>1 DEF OwnInv, SpentInv
  <2>2. pc[Lobby] \in AtTransfer => Spent(sock[job.fd])
    BY DEF OwnInv, SpentInv
  <2> QED BY <1>1, <2>1, <2>2 DEF SpentInv, Spent
<1>14. PlaceInv'
  <2>1. \A s \in Servers, d \in Channels, h \in FDs : Has(s, h)' /\ Expects(d, h)' =>
            s = Lobby /\ pc'[Lobby] = "detach" /\ job'.fd = h /\ job'.to = d
    BY <1>1, <1>10 DEF OwnInv, PlaceInv
  <2>2. \A d, d2 \in Channels : \A f \in Entries(d)', f2 \in Entries(d2)' :
               f.fd = f2.fd => d = d2 /\ f = f2
    BY <1>8 DEF OwnInv, PlaceInv
  <2>3. \A s, t \in Servers, h \in FDs : Has(s, h)' /\ Has(t, h)' => s = t
    BY <1>4, <1>10 DEF OwnInv, PlaceInv
  <2>4. \A h \in FDs : Somewhere(h)' => Open(h)'
    BY <1>1, <1>a DEF OwnInv, PlaceInv, Open
  <2>5. \A s \in Servers : clients'[s] = interest'[s] /\ interest'[s] \cap cur'[s] = {}
    <3>1. g \notin cur[c]
      BY <1>4, LobbyApart DEF Has
    <3>2. \A s \in Servers : clients[s] = interest[s] /\ interest[s] \cap cur[s] = {}
      BY DEF OwnInv, PlaceInv
    <3>3. cur' = cur
      BY <1>1
    <3>4. ASSUME NEW s \in Servers
          PROVE  clients'[s] = interest'[s] /\ interest'[s] \cap cur[s] = {}
      <4>1. CASE s = c
        BY <1>6, <3>1, <3>2, <4>1
      <4>2. CASE s # c
        BY <1>6, <3>2, <4>2
      <4> QED BY <4>1, <4>2
    <3> QED BY <3>3, <3>4
  <2> QED BY <2>1, <2>2, <2>3, <2>4, <2>5 DEF PlaceInv
<1>15. NameInv'
  <2>1. \A h \in FDs : HasName(h)' => name_map'[h] = sock'[h] /\ Somewhere(h)'
    BY <1>1, <1>10, <1>a DEF OwnInv, NameInv
  <2>2. \A s \in Servers : pc'[s] = "close" => \A h \in cur'[s] : ~HasName(h)'
    BY <1>1, <1>10 DEF OwnInv, NameInv, TickTypeOK
  <2> QED BY <2>1, <2>2 DEF NameInv
<1>16. MoveInv'
  <2>1. ASSUME pc[Lobby] \in AtTransfer
        PROVE  /\ job.fd \in interest'[Lobby] \ events[Lobby] /\ HasName(job.fd)'
               /\ pc[Lobby] = "detach" => Expects(job.to, job.fd)'
    <3>1. /\ job.fd \in interest[Lobby] \ events[Lobby] /\ HasName(job.fd)
          /\ pc[Lobby] = "detach" => Expects(job.to, job.fd)
      BY <2>1 DEF OwnInv, MoveInv
    <3>2. job.fd # g
      BY <1>4, <3>1, LobbyApart DEF Has
    <3>3. HasName(job.fd)'
      BY <1>1, <3>1 DEF HasName
    <3>4. ASSUME pc[Lobby] = "detach"
          PROVE  Expects(job.to, job.fd)'
      <4>1. Entries(job.to)' = Entries(job.to)
        BY <1>1, <1>3, <1>8, <2>1, <3>4, LobbyHas DEF Entries
      <4> QED BY <1>1, <3>1, <3>4, <4>1 DEF Expects
    <3> QED BY <1>6, <3>1, <3>3, <3>4, LobbyApart
  <2> QED BY <1>1, <2>1 DEF MoveInv
<1>17. TickInv'
  <2>1. LoopsAt(c)'
    BY <1>1, <1>6, AtTick, LobbyApart DEF LoopsAt
  <2>2. RoomAt(c)'
    BY <1>1, <1>6, <1>7, AtTick, LobbyApart DEF RoomAt
  <2> QED BY <1>1, <1>6, <1>7, <2>1, <2>2, TickKept, LobbyApart DEF OwnInv
<1>18. LockHasHolder'
  BY <1>1, LocksStay
<1> QED BY <1>11, <1>12, <1>13, <1>14, <1>15, <1>16, <1>17, <1>18 DEF OwnInv

-----------------------------------------------------------------------------
(* The deletion loop, and the clients.                                     *)

\* OwnInv is kept when a server's deletion loop lets go of a client: it goes from
\* the server to the server's loop.
LEMMA DeletesOwns ==
    ASSUME TypeOK, OwnInv, NEW s \in Servers, NEW fd \in FDs,
           pc[s] = "dels", fd \in interest[s], delete_client(s, fd),
           cur' = [cur EXCEPT ![s] = {fd}],
           doomed' = [doomed EXCEPT ![s] = @ \ {fd}],
           Goto(s, "unname"),
           UNCHANGED <<sock, peer, rx, backlog, acceptors, name_map,
                       next_deletion, events, frames, poolVars, reports,
                       clientVars, lobbyVars>>
    PROVE  OwnInv'
<1>1. /\ pc'[s] = "unname" /\ cur[s] = {} /\ events[s] = {}
      /\ \A t \in Servers \ {s} : pc'[t] = pc[t]
  BY Goes, AtTick DEF LoopsAt
<1>2. /\ interest'[s] = interest[s] \ {fd} /\ clients'[s] = clients[s] \ {fd}
      /\ \A t \in Servers \ {s} : interest'[t] = interest[t] /\ clients'[t] = clients[t]
  BY DEF delete_client, CanDelete, SocketsTypeOK, TrackerTypeOK
<1>3. /\ cur'[s] = {fd} /\ doomed'[s] = doomed[s] \ {fd}
      /\ \A t \in Servers \ {s} : cur'[t] = cur[t] /\ doomed'[t] = doomed[t]
  BY DEF TickTypeOK
<1>4. /\ \A c \in Channels, g \in FDs : Expects(c, g)' <=> Expects(c, g)
      /\ \A t \in Servers, g \in FDs : Has(t, g)' <=> Has(t, g)
      /\ \A g \in FDs : Open(g)' <=> Open(g)
      /\ \A g \in FDs : HasName(g)' <=> HasName(g)
      /\ \A y \in Conns : Spent(y)' <=> Spent(y)
  <2>1. \A t \in Servers, g \in FDs : Has(t, g)' <=> Has(t, g)
    BY <1>1, <1>2, <1>3 DEF Has
  <2> QED BY <2>1 DEF Expects, Entries, Open, HasName, Spent
<1>5. \A g \in FDs : Somewhere(g)' <=> Somewhere(g)
  BY <1>4 DEF Somewhere
<1>6. s # Lobby => interest'[Lobby] = interest[Lobby] /\ pc'[Lobby] = pc[Lobby]
  BY <1>1, <1>2, LobbyApart
<1>7. pc'[Lobby] \in AtTransfer \/ frames[Lobby] # <<>> => s # Lobby
  BY <1>1 DEF OwnInv, OnceInv, AtTransfer, Holding
<1>11. OnceInv'
  BY <1>6, <1>7 DEF OwnInv, OnceInv, Spent
<1>12. SilentInv'
  BY <1>1, LobbyApart DEF OwnInv, SilentInv, FromReport
<1>13. SpentInv'
  <2>1. ASSUME NEW c \in Channels, NEW g \in FDs, g \in interest'[c] \/ Expects(c, g)'
        PROVE  Spent(sock[g])
    <3>1. g \in interest[c] \/ Expects(c, g)
      BY <1>2, <1>4, <2>1, LobbyApart
    <3> QED BY <3>1 DEF OwnInv, SpentInv
  <2>2. pc'[Lobby] \in AtTransfer => Spent(sock[job.fd])
    BY <1>6, <1>7 DEF OwnInv, SpentInv
  <2> QED BY <2>1, <2>2 DEF SpentInv, Spent
<1>14. PlaceInv'
  <2>1. \A t \in Servers, c \in Channels, g \in FDs : Has(t, g)' /\ Expects(c, g)' =>
            t = Lobby /\ pc'[Lobby] = "detach" /\ job'.fd = g /\ job'.to = c
    <3>1. pc[Lobby] = "detach" => pc'[Lobby] = "detach"
      BY <1>1, LobbyApart
    <3> QED BY <1>4, <3>1 DEF OwnInv, PlaceInv
  <2>2. \A c, d \in Channels : \A e \in Entries(c)', f \in Entries(d)' :
               e.fd = f.fd => c = d /\ e = f
    BY DEF OwnInv, PlaceInv, Entries
  <2>3. /\ \A t, u \in Servers, g \in FDs : Has(t, g)' /\ Has(u, g)' => t = u
        /\ \A g \in FDs : Somewhere(g)' => Open(g)'
    BY <1>4, <1>5 DEF OwnInv, PlaceInv
  <2>4. ASSUME NEW t \in Servers
        PROVE  clients'[t] = interest'[t] /\ interest'[t] \cap cur'[t] = {}
    <3>1. clients[t] = interest[t] /\ interest[t] \cap cur[t] = {}
      BY DEF OwnInv, PlaceInv
    <3>2. CASE t = s
      BY <1>2, <1>3, <3>1, <3>2
    <3>3. CASE t # s
      BY <1>2, <1>3, <3>1, <3>3
    <3> QED BY <3>2, <3>3
  <2> QED BY <2>1, <2>2, <2>3, <2>4 DEF PlaceInv
<1>15. NameInv'
  <2>1. \A g \in FDs : HasName(g)' => name_map'[g] = sock'[g] /\ Somewhere(g)'
    BY <1>4, <1>5 DEF OwnInv, NameInv
  <2>2. ASSUME NEW t \in Servers, pc'[t] = "close", NEW g \in cur'[t]
        PROVE  ~HasName(g)'
    <3>1. t # s
      BY <1>1, <2>2
    <3>2. g \in FDs /\ ~HasName(g)
      BY <1>1, <1>3, <2>2, <3>1 DEF OwnInv, NameInv, TickTypeOK
    <3> QED BY <1>4, <3>2
  <2> QED BY <2>1, <2>2 DEF NameInv
<1>16. MoveInv'
  BY <1>6, <1>7 DEF OwnInv, MoveInv, HasName, Expects, Entries
<1>17. TickInv'
  <2>1. LoopsAt(s)'
    BY <1>1 DEF LoopsAt
  <2>2. s \in Channels => RoomAt(s)'
    BY <1>1, <1>2, <1>3, AtTick DEF RoomAt
  <2> QED BY <1>1, <1>2, <1>3, <2>1, <2>2, TickKept DEF OwnInv
<1>18. LockHasHolder'
  BY <1>1, LobbyApart DEF OwnInv, LockHasHolder, Holding
<1> QED BY <1>11, <1>12, <1>13, <1>14, <1>15, <1>16, <1>17, <1>18 DEF OwnInv

\* OwnInv is kept when resolve_deletion of the lobby calls delete_client, which
\* throws for whom the lobby does not have.
LEMMA LobbyDeletesOwns ==
    ASSUME TypeOK, OwnInv, NEW fd \in FDs, LobbyDeletes(fd)
    PROVE  OwnInv'
<1>1. CASE CanDelete(Lobby, fd)
  BY <1>1, DeletesOwns, LobbyApart DEF LobbyDeletes, CanDelete
<1>2. CASE ~CanDelete(Lobby, fd)
  <2>1. /\ pc[Lobby] = "dels" /\ pc'[Lobby] \in {"pre", "dels"}
        /\ \A t \in Servers \ {Lobby} : pc'[t] = pc[t]
    BY <1>2, Goes, LobbyApart DEF LobbyDeletes, StartDeletion
  <2>2. UNCHANGED <<sockVars, clients, name_map, next_deletion, events, frames,
                    cur, channelVars, clientVars, lobbyVars>>
    BY <1>2 DEF LobbyDeletes, delete_client
  <2>3. \A t \in Servers \ {Lobby} : doomed'[t] = doomed[t]
    BY <1>2 DEF LobbyDeletes, StartDeletion, TickTypeOK
  <2>4. reports' = <<>> /\ batch' = <<>>
    BY <2>2, NothingReported
  <2>5. LoopsAt(Lobby)'
    BY <2>1, <2>2, AtTick DEF LoopsAt
  <2>6. LockHasHolder'
    BY <2>1, <2>2, NoneHeld DEF LockHasHolder, Holding
  <2>7. \A d \in Channels : Entries(d)' = Entries(d)
    BY <2>2 DEF Entries
  <2> QED BY <2>1, <2>2, <2>3, <2>4, <2>5, <2>6, <2>7, ThreadStays, LobbyApart
          DEF AtTransfer, Holding
<1> QED BY <1>1, <1>2

\* OwnInv is kept when resolve_deletion of a channel calls delete_client: only
\* clients of the channel are condemned.
LEMMA ChannelDeletesOwns ==
    ASSUME TypeOK, OwnInv, NEW c \in Channels, NEW fd \in FDs,
           ChannelDeletes(c, fd), UNCHANGED lobbyVars
    PROVE  OwnInv'
<1>1. fd \in interest[c]
  BY AtTick, LobbyApart DEF ChannelDeletes, RoomAt
<1> QED BY <1>1, DeletesOwns, LobbyApart DEF ChannelDeletes

\* OwnInv is kept when resolve_deletion forgets a name: it is that of a client
\* this server alone has.
LEMMA RemoveUserNameOwns ==
    ASSUME TypeOK, OwnInv, NEW s \in Servers, RemoveUserName(s),
           UNCHANGED <<channelVars, clientVars, lobbyVars>>
    PROVE  OwnInv'
<1>1. /\ pc[s] = "unname" /\ pc'[s] = "close"
      /\ \A t \in Servers \ {s} : pc'[t] = pc[t]
  BY Goes DEF RemoveUserName
<1>2. UNCHANGED <<sockVars, clients, next_deletion, events, frames, doomed, cur,
                  channelVars, clientVars, lobbyVars>>
  BY DEF RemoveUserName
<1>3. \A g \in FDs : name_map'[g] = IF g \in cur[s] THEN NoConn ELSE name_map[g]
  BY DEF RemoveUserName
<1>4. /\ \A c \in Channels, g \in FDs : Expects(c, g)' <=> Expects(c, g)
      /\ \A t \in Servers, g \in FDs : Has(t, g)' <=> Has(t, g)
      /\ \A g \in FDs : Open(g)' <=> Open(g)
      /\ \A g \in FDs : HasName(g)' <=> HasName(g) /\ g \notin cur[s]
      /\ \A y \in Conns : Spent(y)' <=> Spent(y)
  BY <1>2, <1>3 DEF Expects, Entries, Has, Open, HasName, Spent
<1>5. \A g \in FDs : Somewhere(g)' <=> Somewhere(g)
  BY <1>4 DEF Somewhere
<1>6. pc'[Lobby] \in AtTransfer \/ frames[Lobby] # <<>> => s # Lobby
      /\ pc'[Lobby] = pc[Lobby]
  BY <1>1, LobbyApart DEF OwnInv, OnceInv, AtTransfer, Holding
<1>11. OnceInv'
  BY <1>2, <1>6 DEF OwnInv, OnceInv, Spent
<1>12. SilentInv'
  BY <1>1, <1>2, LobbyApart DEF OwnInv, SilentInv, FromReport
<1>13. SpentInv'
  BY <1>2, <1>4, <1>6 DEF OwnInv, SpentInv, Spent
<1>14. PlaceInv'
  <2>1. \A t \in Servers, c \in Channels, g \in FDs : Has(t, g)' /\ Expects(c, g)' =>
            t = Lobby /\ pc'[Lobby] = "detach" /\ job'.fd = g /\ job'.to = c
    <3>1. pc[Lobby] = "detach" => pc'[Lobby] = "detach"
      BY <1>1, LobbyApart
    <3> QED BY <1>2, <1>4, <3>1 DEF OwnInv, PlaceInv
  <2>2. \A c, d \in Channels : \A e \in Entries(c)', f \in Entries(d)' :
               e.fd = f.fd => c = d /\ e = f
    BY <1>2 DEF OwnInv, PlaceInv, Entries
  <2>3. /\ \A t \in Servers : clients'[t] = interest'[t] /\ interest'[t] \cap cur'[t] = {}
        /\ \A t, u \in Servers, g \in FDs : Has(t, g)' /\ Has(u, g)' => t = u
        /\ \A g \in FDs : Somewhere(g)' => Open(g)'
    BY <1>2, <1>4, <1>5 DEF OwnInv, PlaceInv
  <2> QED BY <2>1, <2>2, <2>3 DEF PlaceInv
<1>15. NameInv'
  <2>1. \A g \in FDs : HasName(g)' => name_map'[g] = sock'[g] /\ Somewhere(g)'
    BY <1>2, <1>3, <1>4, <1>5 DEF OwnInv, NameInv
  <2>2. ASSUME NEW t \in Servers, pc'[t] = "close", NEW g \in cur'[t]
        PROVE  ~HasName(g)'
    <3>1. g \in cur[t] /\ g \in FDs
      BY <1>2, <2>2 DEF TickTypeOK
    <3>2. CASE t = s
      BY <1>4, <3>1, <3>2
    <3>3. CASE t # s
      BY <1>1, <1>4, <2>2, <3>1, <3>3 DEF OwnInv, NameInv
    <3> QED BY <3>2, <3>3
  <2> QED BY <2>1, <2>2 DEF NameInv
<1>16. MoveInv'
  <2>1. ASSUME pc'[Lobby] \in AtTransfer
        PROVE  HasName(job.fd)'
    <3>1. job.fd \in FDs /\ Has(Lobby, job.fd) /\ HasName(job.fd) /\ s # Lobby
      BY <1>6, <2>1, LobbyHas DEF OwnInv, MoveInv, Has
    <3>2. job.fd \notin cur[s]
      BY <3>1, LobbyApart DEF OwnInv, PlaceInv, Has
    <3> QED BY <1>2, <1>4, <3>1, <3>2 DEF HasName
  <2> QED BY <1>2, <1>6, <2>1 DEF OwnInv, MoveInv, Expects, Entries
<1>17. TickInv'
  <2>1. LoopsAt(s)'
    BY <1>1, <1>2, AtTick DEF LoopsAt
  <2>2. s \in Channels => RoomAt(s)'
    BY <1>1, <1>2, AtTick DEF RoomAt
  <2> QED BY <1>1, <1>2, <2>1, <2>2, TickKept DEF OwnInv
<1>18. LockHasHolder'
  BY <1>1, <1>2, LobbyApart DEF OwnInv, LockHasHolder, Holding
<1> QED BY <1>11, <1>12, <1>13, <1>14, <1>15, <1>16, <1>17, <1>18 DEF OwnInv

\* OwnInv is kept when resolve_deletion closes a descriptor: it has no name any
\* more, and is with no other server.
LEMMA CloseClientOwns ==
    ASSUME TypeOK, OwnInv, NEW s \in Servers, CloseClient(s),
           UNCHANGED <<channelVars, clientVars, lobbyVars>>
    PROVE  OwnInv'
<1>1. /\ pc[s] = "close" /\ pc'[s] \in {"pre", "dels"} /\ events[s] = {}
      /\ \A t \in Servers \ {s} : pc'[t] = pc[t]
  BY Goes, AtTick DEF CloseClient, LoopsAt
<1>2. UNCHANGED <<backlog, acceptors, clients, name_map, next_deletion, events,
                  frames, doomed, channelVars, clientVars, lobbyVars>>
  BY DEF CloseClient
<1>3. /\ cur'[s] = {} /\ \A t \in Servers \ {s} : cur'[t] = cur[t]
      /\ cur[s] \subseteq FDs
  BY DEF CloseClient, TickTypeOK
<1>4. \A g \in cur[s] : /\ Has(s, g) /\ ~HasName(g)
                        /\ \A t \in Servers : g \notin interest[t]
                        /\ \A t \in Servers \ {s} : ~Has(t, g)
                        /\ \A c \in Channels : ~Expects(c, g)
  <2>1. \A g \in cur[s] : Has(s, g) /\ ~HasName(g) /\ g \notin interest[s]
    BY <1>1, <1>3 DEF OwnInv, NameInv, PlaceInv, Has
  <2>2. \A g \in cur[s] : \A t \in Servers \ {s} : ~Has(t, g)
    BY <1>3, <2>1 DEF OwnInv, PlaceInv
  <2>3. \A g \in cur[s] : \A c \in Channels : ~Expects(c, g)
    BY <1>1, <1>3, <2>1 DEF OwnInv, PlaceInv
  <2>4. \A g \in cur[s] : \A t \in Servers : g \notin interest[t]
    BY <2>1, <2>2 DEF Has
  <2> QED BY <2>1, <2>2, <2>3, <2>4
<1>5. \A t \in Servers : interest'[t] = interest[t]
  BY <1>4 DEF CloseClient, Close
<1>6. \A g \in FDs : sock'[g] = IF g \in cur[s] THEN NoConn ELSE sock[g]
  BY DEF CloseClient, Close
<1>7. \A y \in Conns : rx'[y] = rx[y] \/ rx'[y] = <<>>
  BY DEF CloseClient, Close
<1>8. /\ \A c \in Channels, g \in FDs : Expects(c, g)' <=> Expects(c, g)
      /\ \A t \in Servers, g \in FDs : Has(t, g)' <=> Has(t, g) /\ g \notin cur[s]
      /\ \A g \in FDs : HasName(g)' <=> HasName(g)
      /\ \A y \in Conns : Spent(y) => Spent(y)'
  <2>1. \A t \in Servers, g \in FDs : Has(t, g)' <=> Has(t, g) /\ g \notin cur[s]
    <3>1. ASSUME NEW t \in Servers, NEW g \in FDs
          PROVE  Has(t, g)' <=> Has(t, g) /\ g \notin cur[s]
      <4>1. CASE t = s
        BY <1>3, <1>4, <1>5, <4>1 DEF Has
      <4>2. CASE t # s
        BY <1>3, <1>4, <1>5, <4>2 DEF Has
      <4> QED BY <4>1, <4>2
    <3> QED BY <3>1
  <2>2. \A y \in Conns : Spent(y) => Spent(y)'
    BY <1>2, <1>7 DEF Spent
  <2> QED BY <1>2, <2>1, <2>2 DEF Expects, Entries, HasName
<1>9. \A g \in FDs : Somewhere(g)' <=> Somewhere(g) /\ g \notin cur[s]
  BY <1>4, <1>8 DEF Somewhere
<1>10. ASSUME NEW g \in FDs, Somewhere(g), g \notin cur[s], Spent(sock[g])
       PROVE  Spent(sock[g])' /\ sock'[g] = sock[g]
  <2>1. sock[g] \in Conns /\ sock'[g] = sock[g]
    BY <1>6, <1>10 DEF OwnInv, PlaceInv, Open, SocketsTypeOK
  <2>2. asked'[sock[g]] = 1 /\ rx'[sock[g]] = <<>>
    BY <1>2, <1>7, <1>10, <2>1 DEF Spent
  <2> QED BY <2>1, <2>2 DEF Spent
<1>a. pc'[Lobby] \in AtTransfer \/ frames[Lobby] # <<>> => s # Lobby
      /\ pc'[Lobby] = pc[Lobby]
  BY <1>1, LobbyApart DEF OwnInv, OnceInv, AtTransfer, Holding
<1>11. OnceInv'
  <2>1. \A x \in Conns : rx'[x] # <<>> =>
            asked'[x] = 1 /\ \E r \in Requests : r.type = "join" /\ rx'[x] = <<r>>
    BY <1>2, <1>7 DEF OwnInv, OnceInv
  <2>2. ASSUME frames[Lobby] # <<>>
        PROVE  \E g \in interest[Lobby], r \in Requests :
                  /\ r.type = "join" /\ Spent(sock[g])' /\ g \notin events[Lobby]
                  /\ frames[Lobby] = <<[fd |-> g, who |-> sock'[g], req |-> r]>>
    <3>1. PICK g \in interest[Lobby], r \in Requests :
                  /\ r.type = "join" /\ Spent(sock[g]) /\ g \notin events[Lobby]
                  /\ frames[Lobby] = <<[fd |-> g, who |-> sock[g], req |-> r]>>
      BY <2>2 DEF OwnInv, OnceInv
    <3>2. g \in FDs /\ Somewhere(g) /\ g \notin cur[s]
      BY <1>4, LobbyApart DEF SocketsTypeOK, Somewhere, Has
    <3> QED BY <1>10, <3>1, <3>2
  <2>3. interest'[Lobby] = interest[Lobby] /\ frames' = frames /\ events' = events
    BY <1>2, <1>5, LobbyApart
  <2>4. frames[Lobby] # <<>> => pc'[Lobby] = "frames"
    BY <1>a DEF OwnInv, OnceInv
  <2> QED BY <2>1, <2>2, <2>3, <2>4 DEF OnceInv, Spent
<1>12. SilentInv'
  BY <1>1, <1>2, LobbyApart DEF OwnInv, SilentInv, FromReport
<1>13. SpentInv'
  <2>1. ASSUME NEW c \in Channels, NEW g \in FDs, g \in interest'[c] \/ Expects(c, g)'
        PROVE  Spent(sock[g])'
    <3>1. g \in interest[c] \/ Expects(c, g)
      BY <1>5, <1>8, <2>1, LobbyApart
    <3>2. Somewhere(g) /\ g \notin cur[s] /\ Spent(sock[g])
      BY <1>4, <3>1, LobbyApart DEF OwnInv, SpentInv, Somewhere, Has
    <3> QED BY <1>10, <3>2
  <2>2. ASSUME pc'[Lobby] \in AtTransfer
        PROVE  asked'[sock'[job.fd]] = 1 /\ rx'[sock'[job.fd]] = <<>>
    <3>1. job.fd \in FDs /\ Somewhere(job.fd) /\ job.fd \notin cur[s] /\ Spent(sock[job.fd])
      BY <1>4, <1>a, <2>2, LobbyHas, LobbyApart
         DEF OwnInv, MoveInv, SpentInv, Somewhere, Has
    <3>2. sock[job.fd] \in Conns /\ sock'[job.fd] = sock[job.fd]
      BY <1>6, <3>1 DEF OwnInv, PlaceInv, Open, SocketsTypeOK
    <3> QED BY <1>2, <1>7, <3>1, <3>2 DEF Spent
  <2> QED BY <1>2, <2>1, <2>2 DEF SpentInv, Spent
<1>14. PlaceInv'
  <2>1. \A t \in Servers, c \in Channels, g \in FDs : Has(t, g)' /\ Expects(c, g)' =>
            t = Lobby /\ pc'[Lobby] = "detach" /\ job'.fd = g /\ job'.to = c
    <3>1. pc[Lobby] = "detach" => pc'[Lobby] = "detach"
      BY <1>1, LobbyApart
    <3> QED BY <1>2, <1>8, <3>1 DEF OwnInv, PlaceInv
  <2>2. \A c, d \in Channels : \A e \in Entries(c)', f \in Entries(d)' :
               e.fd = f.fd => c = d /\ e = f
    BY <1>2 DEF OwnInv, PlaceInv, Entries
  <2>3. \A t, u \in Servers, g \in FDs : Has(t, g)' /\ Has(u, g)' => t = u
    BY <1>8 DEF OwnInv, PlaceInv
  <2>4. \A t \in Servers : clients'[t] = interest'[t] /\ interest'[t] \cap cur'[t] = {}
    BY <1>2, <1>3, <1>5 DEF OwnInv, PlaceInv
  <2>5. \A g \in FDs : Somewhere(g)' => Open(g)'
    BY <1>6, <1>9 DEF OwnInv, PlaceInv, Open
  <2> QED BY <2>1, <2>2, <2>3, <2>4, <2>5 DEF PlaceInv
<1>15. NameInv'
  <2>1. \A g \in FDs : HasName(g)' => name_map'[g] = sock'[g] /\ Somewhere(g)'
    BY <1>2, <1>4, <1>6, <1>8, <1>9 DEF OwnInv, NameInv
  <2>2. ASSUME NEW t \in Servers, pc'[t] = "close", NEW g \in cur'[t]
        PROVE  ~HasName(g)'
    <3>1. t # s
      BY <1>1, <2>2
    <3>2. g \in FDs /\ ~HasName(g)
      BY <1>1, <1>3, <2>2, <3>1 DEF OwnInv, NameInv, TickTypeOK
    <3> QED BY <1>8, <3>2
  <2> QED BY <2>1, <2>2 DEF NameInv
<1>16. MoveInv'
  BY <1>2, <1>5, <1>a, LobbyApart DEF OwnInv, MoveInv, HasName, Expects, Entries
<1>17. TickInv'
  <2>1. LoopsAt(s)'
    BY <1>1, <1>2, <1>3 DEF LoopsAt
  <2>2. s \in Channels => RoomAt(s)'
    BY <1>1, <1>2, <1>5, AtTick DEF RoomAt
  <2> QED BY <1>1, <1>2, <1>3, <1>5, <2>1, <2>2, TickKept DEF OwnInv
<1>18. LockHasHolder'
  BY <1>1, <1>2, LobbyApart DEF OwnInv, LockHasHolder, Holding
<1> QED BY <1>11, <1>12, <1>13, <1>14, <1>15, <1>16, <1>17, <1>18 DEF OwnInv

\* OwnInv is kept when check_channels deletes a channel: it has nobody.
LEMMA DestroyOwns ==
    ASSUME TypeOK, PoolInv, OwnInv, NEW c \in Channels, DestroyChannel(c)
    PROVE  OwnInv'
<1>1. /\ pc[Lobby] = "channels" /\ pc[c] = "dead" /\ stop_flag[c] /\ pc'[c] = "none"
      /\ \A t \in Servers \ {c} : pc'[t] = pc[t]
  BY Goes, LobbyApart DEF DestroyChannel, Expired
<1>2. UNCHANGED <<sock, name_map, events, frames, doomed, cur, local_q, reports,
                  clientVars, lobbyVars>>
  BY DEF DestroyChannel
<1>3. /\ clients[c] = {} /\ join_pool[c] = {} /\ leave_pool[c] = {}
      /\ interest[c] = {}
  BY <1>1, LobbyApart DEF PoolInv, StopInv, OwnInv, SilentInv, PlaceInv
<1>4. UNCHANGED <<interest, clients, join_pool, leave_pool>>
  BY <1>3 DEF DestroyChannel, SocketsTypeOK, TrackerTypeOK, ChannelTypeOK
<1>5. /\ next_deletion'[c] = {}
      /\ \A t \in Servers \ {c} : next_deletion'[t] = next_deletion[t]
  BY LobbyApart DEF DestroyChannel, TickTypeOK
<1>6. \A x \in Conns : rx'[x] = rx[x] \/ rx'[x] = <<>>
  BY DEF DestroyChannel, CloseListener
<1>7. reports' = <<>> /\ batch' = <<>>
  BY <1>2, NothingReported
<1>8. LoopsAt(c)'
  BY <1>1, <1>2, <1>4, AtTick, LobbyApart DEF LoopsAt
<1>9. RoomAt(c)'
  BY <1>1, <1>2, <1>4, AtTick, LobbyApart DEF RoomAt
<1>10. LockHasHolder'
  <2>1. \A d \in Channels : pool_mtx'[d] = "main" => pool_mtx[d] = "main"
    BY DEF DestroyChannel, ChannelTypeOK
  <2> QED BY <1>1, <1>2, <2>1, LocksStay, LobbyApart
<1>11. \A d \in Channels : Entries(d)' = Entries(d)
  BY <1>2, <1>4 DEF Entries
<1> QED BY <1>1, <1>2, <1>4, <1>5, <1>6, <1>7, <1>8, <1>9, <1>10, <1>11, ThreadStays,
           LobbyApart

\* OwnInv is kept when a client sends: it has not asked before, so that it is not
\* on its way to a channel.
LEMMA SendRequestOwns ==
    ASSUME AskOnce, TypeOK, OwnInv, NEW x \in Conns, SendRequest(x),
           UNCHANGED <<clients, name_map, tickVars, channelVars, lobbyVars>>
    PROVE  OwnInv'
<1>1. asked[x] = 0
  <2>1. asked[x] \in Nat /\ Quota[x] \in Nat /\ asked[x] < Quota[x] /\ Quota[x] <= 1
    BY ClientAssumption DEF SendRequest, AskOnce, ClientTypeOK
  <2> QED BY <2>1
<1>2. rx[x] = <<>> /\ ~Spent(x)
  BY <1>1 DEF OwnInv, OnceInv, Spent
<1>3. PICK r \in Requests : r.type = "join" /\ rx' = [rx EXCEPT ![x] = Append(@, r)]
  <2>1. \A r \in Wants(x) : r \in Requests /\ r.type = "join"
    BY <1>1, ClientAssumption DEF Wants, Requests
  <2> QED BY <2>1 DEF SendRequest
<1>4. /\ rx'[x] = <<r>> /\ asked'[x] = 1
      /\ \A y \in Conns \ {x} : rx'[y] = rx[y] /\ asked'[y] = asked[y]
  <2>1. rx'[x] = Append(rx[x], r)
    BY <1>3 DEF SocketsTypeOK
  <2>2. Append(<<>>, r) = <<r>>
    OBVIOUS
  <2>3. asked'[x] = 1
    BY <1>1 DEF SendRequest, ClientTypeOK
  <2> QED BY <1>2, <1>3, <2>1, <2>2, <2>3 DEF SendRequest, SocketsTypeOK, ClientTypeOK
<1>5. UNCHANGED <<sock, peer, backlog, interest, acceptors, clients, name_map,
                  tickVars, channelVars, lobbyVars>>
  BY DEF SendRequest
<1>6. /\ \A c \in Channels, g \in FDs : Expects(c, g)' <=> Expects(c, g)
      /\ \A t \in Servers, g \in FDs : Has(t, g)' <=> Has(t, g)
      /\ \A g \in FDs : Open(g)' <=> Open(g)
      /\ \A g \in FDs : HasName(g)' <=> HasName(g)
  BY <1>5 DEF Expects, Entries, Has, Open, HasName
<1>7. \A g \in FDs : Somewhere(g)' <=> Somewhere(g)
  BY <1>6 DEF Somewhere
<1>8. ASSUME NEW g \in FDs, Somewhere(g), Spent(sock[g])
      PROVE  asked'[sock[g]] = 1 /\ rx'[sock[g]] = <<>>
  <2>1. sock[g] \in Conns \ {x}
    BY <1>2, <1>8 DEF OwnInv, PlaceInv, Open, SocketsTypeOK
  <2> QED BY <1>4, <1>8, <2>1 DEF Spent
<1>11. OnceInv'
  <2>1. \A y \in Conns : rx'[y] # <<>> =>
            asked'[y] = 1 /\ \E q \in Requests : q.type = "join" /\ rx'[y] = <<q>>
    BY <1>3, <1>4 DEF OwnInv, OnceInv
  <2>2. ASSUME frames[Lobby] # <<>>
        PROVE  /\ pc[Lobby] = "frames"
               /\ \E g \in interest[Lobby], q \in Requests :
                  /\ q.type = "join" /\ asked'[sock[g]] = 1 /\ rx'[sock[g]] = <<>>
                  /\ g \notin events[Lobby]
                  /\ frames[Lobby] = <<[fd |-> g, who |-> sock[g], req |-> q]>>
    <3>1. pc[Lobby] = "frames"
      BY <2>2 DEF OwnInv, OnceInv
    <3>2. PICK g \in interest[Lobby], q \in Requests :
                  /\ q.type = "join" /\ Spent(sock[g]) /\ g \notin events[Lobby]
                  /\ frames[Lobby] = <<[fd |-> g, who |-> sock[g], req |-> q]>>
      BY <2>2 DEF OwnInv, OnceInv
    <3>3. g \in FDs /\ Somewhere(g)
      BY LobbyApart DEF SocketsTypeOK, Somewhere, Has
    <3>4. asked'[sock[g]] = 1 /\ rx'[sock[g]] = <<>>
      BY <1>8, <3>2, <3>3
    <3> QED BY <3>1, <3>2, <3>4
  <2> QED BY <1>5, <2>1, <2>2 DEF OnceInv, Spent
<1>12. SilentInv'
  BY <1>5 DEF OwnInv, SilentInv, FromReport
<1>13. SpentInv'
  <2>1. ASSUME NEW c \in Channels, NEW g \in FDs, g \in interest[c] \/ Expects(c, g)
        PROVE  asked'[sock[g]] = 1 /\ rx'[sock[g]] = <<>>
    <3>1. Somewhere(g) /\ Spent(sock[g])
      BY <2>1, LobbyApart DEF OwnInv, SpentInv, Somewhere, Has
    <3> QED BY <1>8, <3>1
  <2>2. ASSUME pc[Lobby] \in AtTransfer
        PROVE  asked'[sock[job.fd]] = 1 /\ rx'[sock[job.fd]] = <<>>
    <3>1. job.fd \in FDs /\ Somewhere(job.fd) /\ Spent(sock[job.fd])
      BY <2>2, LobbyHas, LobbyApart DEF OwnInv, MoveInv, SpentInv, Somewhere, Has
    <3> QED BY <1>8, <3>1
  <2> QED BY <1>5, <1>6, <2>1, <2>2 DEF SpentInv, Spent
<1>14. PlaceInv'
  <2>1. \A t \in Servers, c \in Channels, g \in FDs : Has(t, g)' /\ Expects(c, g)' =>
            t = Lobby /\ pc'[Lobby] = "detach" /\ job'.fd = g /\ job'.to = c
    BY <1>5, <1>6 DEF OwnInv, PlaceInv
  <2>2. \A c, d \in Channels : \A e \in Entries(c)', f \in Entries(d)' :
               e.fd = f.fd => c = d /\ e = f
    BY <1>5 DEF OwnInv, PlaceInv, Entries
  <2>3. /\ \A t \in Servers : clients'[t] = interest'[t] /\ interest'[t] \cap cur'[t] = {}
        /\ \A t, u \in Servers, g \in FDs : Has(t, g)' /\ Has(u, g)' => t = u
        /\ \A g \in FDs : Somewhere(g)' => Open(g)'
    BY <1>5, <1>6, <1>7 DEF OwnInv, PlaceInv
  <2> QED BY <2>1, <2>2, <2>3 DEF PlaceInv
<1>15. NameInv'
  <2>1. \A g \in FDs : HasName(g)' => name_map'[g] = sock'[g] /\ Somewhere(g)'
    BY <1>5, <1>6, <1>7 DEF OwnInv, NameInv
  <2>2. \A t \in Servers : pc'[t] = "close" => \A g \in cur'[t] : ~HasName(g)'
    BY <1>5, <1>6 DEF OwnInv, NameInv, TickTypeOK
  <2> QED BY <2>1, <2>2 DEF NameInv
<1>16. MoveInv'
  BY <1>5 DEF OwnInv, MoveInv, HasName, Expects, Entries
<1>17. TickInv'
  <2>1. \A t \in Servers : LoopsAt(t)'
    BY <1>5, AtTick DEF LoopsAt
  <2>2. \A c \in Channels : RoomAt(c)'
    BY <1>5, AtTick, LobbyApart DEF RoomAt
  <2> QED BY <2>1, <2>2 DEF TickInv
<1>18. LockHasHolder'
  BY <1>5 DEF OwnInv, LockHasHolder
<1> QED BY <1>11, <1>12, <1>13, <1>14, <1>15, <1>16, <1>17, <1>18 DEF OwnInv

\* OwnInv is kept when a client connects or goes away.
LEMMA ComesOrGoesOwns ==
    ASSUME TypeOK, OwnInv, NEW x \in Conns, Connect(x) \/ Hangup(x),
           UNCHANGED <<clients, name_map, tickVars, channelVars, lobbyVars>>
    PROVE  OwnInv'
<1>1. UNCHANGED <<sock, rx, interest, clientVars, clients, name_map, tickVars,
                  channelVars, lobbyVars>>
  BY DEF Connect, Hangup
<1>2. reports' = <<>> /\ batch' = <<>>
  BY <1>1, NothingReported
<1>3. LoopsAt(Lobby)'
  BY <1>1, AtTick, LobbyApart DEF LoopsAt
<1>4. TickInv'
  BY <1>1, <1>3, TickKept, LobbyApart DEF OwnInv
<1>5. LockHasHolder'
  BY <1>1, LocksStay
<1>6. \A d \in Channels : Entries(d)' = Entries(d)
  BY <1>1 DEF Entries
<1>7. /\ pc[Lobby] \notin {"full", "leave"}
      /\ frames[Lobby] # <<>> => pc[Lobby] = "frames"
  BY DEF OwnInv, SilentInv, OnceInv
<1>8. OnceInv' /\ SilentInv' /\ SpentInv' /\ PlaceInv' /\ NameInv' /\ MoveInv'
  BY <1>1, <1>2, <1>6, <1>7, Stays
<1> QED BY <1>4, <1>5, <1>8 DEF OwnInv

-----------------------------------------------------------------------------
(* OwnInv is inductive.                                                    *)

\* Without a switch there is nothing to report and nobody to refuse, and the
\* transfer of a first join goes through.
LEMMA NeverHappens ==
    ASSUME TypeOK, OwnInv
    PROVE  /\ ~NextReport /\ ~RefuseJoin /\ ~RefuseThrows /\ ~LeaveSource
           /\ ~JoinNameless /\ ~DetachThrows /\ ~IgnoreFrame
<1>1. ~NextReport /\ ~RefuseJoin /\ ~RefuseThrows /\ ~LeaveSource
  BY DEF OwnInv, SilentInv, NextReport, RefuseJoin, RefuseThrows, LeaveSource
<1>2. pc[Lobby] \in {"join", "detach"} => HasName(job.fd) /\ job.fd \in interest[Lobby]
  BY DEF OwnInv, MoveInv, AtTransfer, Holding
<1>3. ~JoinNameless /\ ~DetachThrows
  BY <1>2 DEF JoinNameless, DetachThrows, CanDelete
<1>4. ~IgnoreFrame
  BY FirstJoin DEF IgnoreFrame
<1> QED BY <1>1, <1>3, <1>4

\* A channel hears nothing, and lets nobody go but those who are gone.
LEMMA ChannelIsSilent ==
    ASSUME TypeOK, OwnInv, NEW c \in Channels
    PROVE  /\ ~HearMessage(c) /\ ~HearJoin(c)
           /\ \A fd \in FDs : ~EventReceives(c, fd)
           /\ \A e \in local_q[c] : ~LetGo(c, e)
<1>1. pc[c] # "frames"
  BY LobbyApart DEF OwnInv, SilentInv, TickTypeOK
<1>2. ASSUME NEW fd \in FDs, EventReceives(c, fd)
      PROVE  FALSE
  <2>1. fd \in events[c] /\ rx[sock[fd]] # <<>>
    BY <1>2 DEF EventReceives, Handled, RecvData
  <2>2. fd \in interest[c]
    BY <2>1, AtTick, LobbyApart, SocketsAssumption DEF LoopsAt
  <2>3. Spent(sock[fd])
    BY <2>2 DEF OwnInv, SpentInv
  <2> QED BY <2>1, <2>3 DEF Spent
<1>3. ASSUME NEW e \in local_q[c], LetGo(c, e)
      PROVE  FALSE
  <2>1. pc[c] = "joins"
    BY AtTick, LobbyApart DEF RoomAt
  <2> QED BY <1>3, <2>1 DEF LetGo
<1> QED BY <1>1, <1>2, <1>3 DEF HearMessage, HearJoin

\* At first nobody is anywhere.
LEMMA InitOwns ==
    ASSUME Init
    PROVE  OwnInv
<1> USE DEF Init, SocketsInit, TrackerInit, UserInit, TickInit, ChannelInit,
            ClientInit
<1>1. pc[Lobby] = "pre" /\ \A c \in Channels : pc[c] = "none"
  BY LobbyApart
<1>2. /\ \A s \in Servers, fd \in FDs : ~Has(s, fd)
      /\ \A c \in Channels : Entries(c) = {}
      /\ \A c \in Channels, fd \in FDs : ~Expects(c, fd)
      /\ \A fd \in FDs : ~HasName(fd)
  BY DEF Has, Entries, Expects, HasName
<1>3. \A fd \in FDs : ~Somewhere(fd)
  BY <1>2 DEF Somewhere
<1>4. OnceInv
  BY LobbyApart DEF OnceInv
<1>5. SilentInv
  BY <1>1, LobbyApart DEF SilentInv, FromReport, NoJob
<1>6. SpentInv
  BY <1>1, <1>2, LobbyApart DEF SpentInv, AtTransfer, Holding
<1>7. PlaceInv
  BY <1>2, <1>3 DEF PlaceInv
<1>8. NameInv
  BY <1>2 DEF NameInv
<1>9. MoveInv
  BY <1>1 DEF MoveInv, AtTransfer, Holding
<1>10. TickInv
  BY LobbyApart DEF TickInv, LoopsAt, RoomAt
<1>11. LockHasHolder
  BY DEF LockHasHolder
<1> QED BY <1>4, <1>5, <1>6, <1>7, <1>8, <1>9, <1>10, <1>11 DEF OwnInv

\* A step of the whole server keeps OwnInv.
LEMMA NextOwns ==
    ASSUME AskOnce, TypeOK, PoolInv, OwnInv, [Next]_vars
    PROVE  OwnInv'
<1>1. CASE Main
  <2>1. CASE PopReports \/ LobbyPolls
    BY <2>1, PopReportsOwns, LobbyPollsOwns
  <2>2. CASE \E c \in Channels : Create(c) \/ Register(c) \/ DestroyChannel(c)
    BY <2>2, CreateOwns, RegisterOwns, DestroyOwns
  <2>3. CASE LockTarget \/ TryNext \/ LockFresh
    BY <2>3, LockOwns, TryNextOwns
  <2>4. CASE JoinRunning \/ JoinRestarts \/ JoinRestarted
    BY <2>4, JoinsOwns, JoinRestartsOwns
  <2>5. CASE Detach
    BY <2>5, DetachOwns
  <2>6. ASSUME NEW x \in Conns, NEW fd \in FDs,
               LobbyAccepts(x, fd) \/ LobbyRefuses(x, fd)
        PROVE  OwnInv'
    BY <2>6, LobbyAcceptsOwns, StrayOwns, LobbyApart
  <2>7. CASE \E fd \in FDs : LobbyDeletes(fd)
    BY <2>7, LobbyDeletesOwns
  <2>8. CASE HearFirstJoin \/ CheckLobby \/ ChecksDone
    BY <2>8, HearFirstJoinOwns, CheckLobbyOwns, ChecksDoneOwns
  <2>9. CASE LobbyTick
    <3>1. UNCHANGED <<channelVars, clientVars, lobbyVars>>
      BY <2>9 DEF LobbyTick
    <3>2. ASSUME NEW fd \in FDs, EventReceives(Lobby, fd)
          PROVE  OwnInv'
      BY <3>1, <3>2, LobbyReceivesOwns
    <3>3. CASE (\E fd \in FDs : EventEnds(Lobby, fd) \/ EventEmpty(Lobby, fd))
               \/ EventAcceptFails(Lobby)
      BY <3>1, <3>3, EventOwns, LobbyApart
    <3>4. CASE RemoveUserName(Lobby) \/ CloseClient(Lobby)
      BY <3>1, <3>4, RemoveUserNameOwns, CloseClientOwns, LobbyApart
    <3> QED BY <2>9, <3>2, <3>3, <3>4 DEF LobbyTick
  <2> QED BY <1>1, <2>1, <2>2, <2>3, <2>4, <2>5, <2>6, <2>7, <2>8, <2>9,
             NeverHappens
          DEF Main
<1>2. ASSUME NEW c \in Channels, Worker(c)
      PROVE  OwnInv'
  <2>0. UNCHANGED lobbyVars
    BY <1>2 DEF Worker
  <2>1. CASE WorkerExits(c) \/ WorkerPolls(c)
    BY <2>0, <2>1, WorkerStartsOwns
  <2>2. ASSUME NEW x \in Conns, NEW fd \in FDs, ChannelAccepts(c, x, fd)
        PROVE  OwnInv'
    BY <2>0, <2>2, StrayOwns, LobbyApart
  <2>3. ASSUME NEW fd \in FDs, ChannelDeletes(c, fd)
        PROVE  OwnInv'
    BY <2>0, <2>3, ChannelDeletesOwns
  <2>4. CASE NoPoolTask(c) \/ UnlockPool(c)
    BY <2>0, <2>4, PoolEndsOwns
  <2>5. CASE LockPool(c)
    BY <2>0, <2>5, LockPoolOwns
  <2>6. CASE MoveLeaves(c)
    BY <2>0, <2>6, MoveLeavesOwns
  <2>7. ASSUME NEW e \in local_q[c], TakeIn(c, e)
        PROVE  OwnInv'
    BY <2>0, <2>7, TakeInOwns
  <2>8. CASE Broadcast(c)
    BY <2>0, <2>8, BroadcastOwns
  <2>9. CASE WorkerTick(c)
    <3>1. UNCHANGED <<channelVars, clientVars, lobbyVars>>
      BY <2>0, <2>9 DEF WorkerTick
    <3>2. CASE (\E fd \in FDs : EventEnds(c, fd) \/ EventEmpty(c, fd))
               \/ EventAcceptFails(c)
      BY <3>1, <3>2, EventOwns, LobbyApart
    <3>3. CASE RemoveUserName(c) \/ CloseClient(c)
      BY <3>1, <3>3, RemoveUserNameOwns, CloseClientOwns, LobbyApart
    <3> QED BY <2>9, <3>2, <3>3, ChannelIsSilent DEF WorkerTick
  <2> QED BY <1>2, <2>1, <2>2, <2>3, <2>4, <2>5, <2>6, <2>7, <2>8, <2>9,
             ChannelIsSilent
          DEF Worker
<1>3. ASSUME NEW x \in Conns, User(x)
      PROVE  OwnInv'
  <2>1. UNCHANGED <<clients, name_map, tickVars, channelVars, lobbyVars>>
    BY <1>3 DEF User
  <2>2. CASE SendRequest(x)
    BY <2>1, <2>2, SendRequestOwns
  <2>3. CASE Connect(x) \/ Hangup(x)
    BY <2>1, <2>3, ComesOrGoesOwns
  <2> QED BY <1>3, <2>2, <2>3 DEF User
<1>4. CASE UNCHANGED vars
  <2>1. UNCHANGED <<sockVars, clients, name_map, tickVars, channelVars, clientVars,
                    lobbyVars>>
    BY <1>4 DEF vars
  <2>2. TickInv'
    BY <2>1, TickKept, AtTick, LobbyApart DEF OwnInv, LoopsAt
  <2>3. LockHasHolder'
    BY <2>1, LocksStay
  <2>4. \A d \in Channels : Entries(d)' = Entries(d)
    BY <2>1 DEF Entries
  <2>5. /\ pc[Lobby] \notin {"full", "leave"}
        /\ frames[Lobby] # <<>> => pc[Lobby] = "frames"
        /\ reports' = <<>> /\ batch' = <<>>
    BY <2>1 DEF OwnInv, SilentInv, OnceInv
  <2>6. OnceInv' /\ SilentInv' /\ SpentInv' /\ PlaceInv' /\ NameInv' /\ MoveInv'
    BY <2>1, <2>4, <2>5, Stays
  <2> QED BY <2>2, <2>3, <2>6 DEF OwnInv
<1> QED BY <1>1, <1>2, <1>3, <1>4 DEF Next

-----------------------------------------------------------------------------
(* The theorems, of clients that do not switch.                            *)

\* OwnInv is an invariant of the server.
THEOREM OwnInvHolds ==
    ASSUME AskOnce
    PROVE  Spec => []OwnInv
<1>1. Init => OwnInv
  BY InitOwns
<1>2. TypeOK /\ PoolInv /\ OwnInv /\ [Next]_vars => OwnInv'
  BY NextOwns
<1> QED BY <1>1, <1>2, TypesHold, PoolInvHolds, PTL DEF Spec

\* No connection is read by two servers (channel_server.cpp:99, channel.cpp:122):
\* a descriptor is at one place at a time.
THEOREM OneReaderHolds ==
    ASSUME AskOnce
    PROVE  Spec => []OneReader
<1>1. TypeOK /\ OwnInv => OneReader
  BY DEF OwnInv, PlaceInv, OneReader, Has, SocketsTypeOK
<1> QED BY <1>1, TypesHold, OwnInvHolds, PTL

\* In particular none is read by the lobby and a channel.
THEOREM LobbyOrChannelHolds ==
    ASSUME AskOnce
    PROVE  Spec => []LobbyOrChannel
<1>1. OneReader => LobbyOrChannel
  BY LobbyApart DEF OneReader, LobbyOrChannel
<1> QED BY <1>1, OneReaderHolds, PTL

\* The name recorded for a descriptor is that of the connection behind it, however
\* often the number is given out again (channel.cpp:109-110,
\* channel_server.cpp:55-56): a name goes before its connection.
THEOREM NamesMatchHolds ==
    ASSUME AskOnce
    PROVE  Spec => []NamesMatch
<1>1. OwnInv => NamesMatch
  BY DEF OwnInv, NameInv, NamesMatch
<1> QED BY <1>1, OwnInvHolds, PTL

\* No connection is forgotten on its way to a channel: whoever has a name is with
\* a server, in a pool, or about to be closed.
THEOREM NamedIsOwnedHolds ==
    ASSUME AskOnce
    PROVE  Spec => []NamedIsOwned
<1>1. ASSUME OwnInv, NEW fd \in FDs, HasName(fd)
      PROVE  \/ \E s \in Servers : fd \in clients[s] \cup cur[s]
             \/ \E c \in Channels : \E e \in join_pool[c] \cup local_q[c] : e.fd = fd
  <2>1. Somewhere(fd)
    BY <1>1 DEF OwnInv, NameInv
  <2>2. \A s \in Servers : clients[s] = interest[s]
    BY <1>1 DEF OwnInv, PlaceInv
  <2> QED BY <2>1, <2>2 DEF Somewhere, Has, Expects, Entries
<1>2. OwnInv => NamedIsOwned
  BY <1>1 DEF NamedIsOwned
<1> QED BY <1>2, OwnInvHolds, PTL

\* A server closes no descriptor that is another server's client
\* (channel.cpp:110).
THEOREM NoStrayCloseHolds ==
    ASSUME AskOnce
    PROVE  Spec => []NoStrayClose
<1>1. ASSUME TypeOK, OwnInv, NEW s \in Servers, NEW t \in Servers, s # t,
             NEW fd \in cur[s]
      PROVE  fd \notin clients[t]
  <2>1. fd \in FDs /\ clients[t] = interest[t]
    BY <1>1 DEF OwnInv, PlaceInv, TickTypeOK
  <2> QED BY <1>1, <2>1 DEF OwnInv, PlaceInv, Has
<1>2. TypeOK /\ OwnInv => NoStrayClose
  BY <1>1 DEF NoStrayClose
<1> QED BY <1>2, TypesHold, OwnInvHolds, PTL

\* A server watches every client it counts (connection_tracker.cpp:64, 79): no
\* other thread closes the descriptor of a client.
THEOREM NoGhostHolds ==
    ASSUME AskOnce
    PROVE  Spec => []NoGhost
<1>1. OwnInv => NoGhost
  BY DEF OwnInv, PlaceInv, NoGhost
<1> QED BY <1>1, OwnInvHolds, PTL

\* The main thread leaves no pool locked behind (channel_server.cpp:102, 129,
\* 136): delete_client does not throw under the lock.
THEOREM LockHasHolderHolds ==
    ASSUME AskOnce
    PROVE  Spec => []LockHasHolder
<1>1. OwnInv => LockHasHolder
  BY DEF OwnInv
<1> QED BY <1>1, OwnInvHolds, PTL
=============================================================================

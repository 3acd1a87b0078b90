------------------------ MODULE ChannelServerRoomsProof ------------------------
(***************************************************************************)
(* The server implements Rooms, for all values of the constants: Init maps *)
(* to an initial state of Rooms, and every step to a step of one room or   *)
(* to none.  PoolInv is what makes the guards of Rooms hold: RoomInv has   *)
(* the place that Promise asks for, StopInv the open and the deserted room.*)
(***************************************************************************)
EXTENDS ChannelServerRooms, ChannelServerSafety

USE DEF Servers, NoChannel, TypeOK, sockVars, tickVars, channelVars, poolVars,
        clientVars, lobbyVars, jobVars, RoomState, Members, Taking

\* What Rooms sees of one channel.
Status(c) == IF pc[c] = "none" THEN "none"
             ELSE IF stop_flag[c] THEN "stopped" ELSE "open"
Batch(c) == IF pc[c] = "joins" THEN local_q[c] ELSE {}

\* Rooms sees no difference in channel c.
Kept(c) == /\ Status(c)' = Status(c) /\ Batch(c)' = Batch(c)
           /\ clients'[c] = clients[c] /\ join_pool'[c] = join_pool[c]

\* A step of which Rooms sees nothing in any channel is a stutter of Rooms.
LEMMA RoomsStutter ==
    ASSUME \A c \in Channels : Kept(c), UNCHANGED join_pool
    PROVE  UNCHANGED Room!roomVars
<1>1. RoomState' = RoomState
  BY DEF Kept, Status
<1>2. Members' = Members
  BY DEF Kept
<1>3. Taking' = Taking
  BY DEF Kept, Batch
<1> QED BY <1>1, <1>2, <1>3 DEF Room!roomVars

\* Where no client moves and no thread enters or leaves the first loop of
\* resolve_pool, Rooms sees nothing.
LEMMA Elsewhere ==
    ASSUME \A c \in Channels :
               /\ clients'[c] = clients[c]
               /\ pc'[c] = "none" <=> pc[c] = "none"
               /\ pc'[c] = "joins" <=> pc[c] = "joins",
           UNCHANGED <<stop_flag, join_pool, local_q>>
    PROVE  UNCHANGED Room!roomVars
<1>1. \A c \in Channels : Kept(c)
  BY DEF Kept, Status, Batch
<1> QED BY <1>1, RoomsStutter

\* The main thread goes on, and no room changes.
LEMMA MainStutters ==
    ASSUME TypeOK, NEW l, Goto(Lobby, l) \/ UNCHANGED pc,
           \A c \in Channels : clients'[c] = clients[c],
           UNCHANGED <<stop_flag, join_pool, local_q>>
    PROVE  UNCHANGED Room!roomVars
<1>1. \A c \in Channels : pc'[c] = pc[c]
  BY SocketsAssumption DEF Goto, TickTypeOK
<1> QED BY <1>1, Elsewhere

\* A worker goes on outside resolve_pool, and no client leaves.
LEMMA WorkerStutters ==
    ASSUME TypeOK, NEW c \in Channels, NEW l, l \notin {"none", "joins"},
           pc[c] \notin {"none", "joins"}, Goto(c, l),
           UNCHANGED <<clients, stop_flag, join_pool, local_q>>
    PROVE  UNCHANGED Room!roomVars
<1>1. \A d \in Channels : pc'[d] = IF d = c THEN l ELSE pc[d]
  BY DEF Goto, TickTypeOK
<1> QED BY <1>1, Elsewhere

-----------------------------------------------------------------------------

\* The constructor of a channel makes a room (channel_server.cpp:155, 181).
LEMMA CreateMakes ==
    ASSUME TypeOK, PoolInv, NEW c \in Channels, Create(c)
    PROVE  Room!Make(c)
<1>1. /\ pc[c] = "none" /\ ~stop_flag[c]
      /\ UNCHANGED <<clients, join_pool, local_q, stop_flag>>
  BY DEF Create, Lacking, channels, PoolInv, StopInv
<1>2. \A d \in Channels : pc'[d] = IF d = c THEN "pre" ELSE pc[d]
  BY SocketsAssumption DEF Create, TickTypeOK
<1>3. RoomState[c] = "none"
  BY <1>1
<1>4. RoomState' = [RoomState EXCEPT ![c] = "open"]
  BY <1>1, <1>2
<1>5. Members' = Members /\ Taking' = Taking
  BY <1>1, <1>2
<1> QED BY <1>1, <1>3, <1>4, <1>5 DEF Room!Make

\* check_channels discards a room that has stopped (channel_server.cpp:212).
LEMMA DestroyDiscards ==
    ASSUME TypeOK, PoolInv, NEW c \in Channels, DestroyChannel(c)
    PROVE  Room!Discard(c)
<1>1. /\ pc[c] = "dead" /\ stop_flag[c] /\ clients[c] = {} /\ join_pool[c] = {}
  BY DEF DestroyChannel, Expired, PoolInv, StopInv
<1>2. /\ clients' = clients /\ join_pool' = join_pool
      /\ local_q' = local_q /\ stop_flag' = [stop_flag EXCEPT ![c] = FALSE]
  BY <1>1 DEF DestroyChannel, TrackerTypeOK, ChannelTypeOK
<1>3. \A d \in Channels : pc'[d] = IF d = c THEN "none" ELSE pc[d]
  BY DEF DestroyChannel, Goto, TickTypeOK
<1>4. RoomState[c] = "stopped" /\ Room!Deserted(c)
  BY <1>1 DEF Room!Deserted
<1>5. RoomState' = [RoomState EXCEPT ![c] = "none"]
  BY <1>2, <1>3 DEF ChannelTypeOK
<1>6. Members' = Members /\ Taking' = Taking
  BY <1>1, <1>2, <1>3
<1> QED BY <1>2, <1>4, <1>5, <1>6 DEF Room!Discard

\* What Rooms counts is what Promised counts.
LEMMA TakenIsPromised ==
    ASSUME TypeOK, PoolInv, NEW c \in Channels
    PROVE  Room!Taken(c) = Promised(c)
<1>0. \A S : Room!Cardinality(S) = Cardinality(S)
  BY DEF Room!Cardinality, Cardinality
<1>1. CASE pc[c] = "joins"
  BY <1>0, <1>1 DEF Room!Taken, Promised, get_client_count
<1>2. CASE pc[c] # "joins"
  <2>1. get_client_count(c) \in Nat /\ Cardinality(join_pool[c]) \in Nat
    BY PromisedNat DEF PoolInv
  <2>2. Taking[c] = {} /\ Cardinality({}) = 0
    BY <1>2, FS_EmptySet
  <2> QED BY <1>0, <1>2, <2>1, <2>2 DEF Room!Taken, Promised, get_client_count
<1> QED BY <1>1, <1>2

\* Channel::join promises a place that ping_pool has found, and opens the room
\* if it has stopped (channel.cpp:34-42); of a descriptor that waits already it
\* promises none.
LEMMA JoinPromises ==
    ASSUME TypeOK, PoolInv, pc[Lobby] \in {"join", "restarted"},
           NEW who \in Conns, join(job.to, job.fd, who),
           NEW l, Goto(Lobby, l),
           stop_flag' = [stop_flag EXCEPT ![job.to] = FALSE],
           UNCHANGED <<clients, local_q>>
    PROVE  \/ \E r \in Channels, g \in PoolEntries : Room!Promise(r, g)
           \/ UNCHANGED Room!roomVars
<1>a. PICK c \in Channels : c = job.to
  BY DEF LobbyTypeOK, AtTransfer, Holding
<1>b. PICK g \in PoolEntries : g = [fd |-> job.fd, who |-> who]
  BY DEF LobbyTypeOK, AtTransfer, Holding, PoolEntries
<1>1. pc[c] # "none" /\ Promised(c) < ChMaxFd
  <2>1. pc[job.to] # "none" /\ Promised(job.to) < ChMaxFd
    BY DEF Holding, PoolInv, FreshInv, RoomInv
  <2> QED BY <1>a, <2>1 DEF Promised, get_client_count
<1>2. \A d \in Channels : pc'[d] = pc[d]
  BY SocketsAssumption DEF Goto, TickTypeOK
<1>3. Members' = Members /\ Taking' = Taking
  BY <1>2
<1>4. RoomState' = [RoomState EXCEPT ![c] = "open"]
  BY <1>a, <1>1, <1>2 DEF ChannelTypeOK
<1>5. CASE \E e \in join_pool[c] : e.fd = job.fd
  <2>1. join_pool' = join_pool
    BY <1>a, <1>5 DEF join, Emplace, ChannelTypeOK
  <2>2. RoomState[c] = "open"
    BY <1>1, <1>5 DEF PoolInv, StopInv
  <2>3. RoomState' = RoomState
    BY <1>4, <2>2
  <2> QED BY <1>3, <2>1, <2>3 DEF Room!roomVars
<1>6. CASE ~ \E e \in join_pool[c] : e.fd = job.fd
  <2>1. join_pool' = [join_pool EXCEPT ![c] = @ \cup {g}] /\ g \notin join_pool[c]
    BY <1>a, <1>b, <1>6 DEF join, Emplace, ChannelTypeOK
  <2>2. Room!Taken(c) < ChMaxFd
    BY <1>1, TakenIsPromised
  <2>3. RoomState[c] # "none"
    BY <1>1
  <2>4. Room!Promise(c, g)
    BY <1>3, <1>4, <2>1, <2>2, <2>3 DEF Room!Promise
  <2> QED BY <2>4
<1> QED BY <1>5, <1>6

-----------------------------------------------------------------------------

\* resolve_pool moves join_pool out: the guests are called
\* (channel.cpp:116-119).
LEMMA LockPoolCalls ==
    ASSUME TypeOK, PoolInv, NEW c \in Channels, LockPool(c)
    PROVE  Room!Call(c)
<1>1. /\ pc[c] = "events" /\ ~stop_flag[c]
      /\ local_q' = [local_q EXCEPT ![c] = join_pool[c]]
      /\ join_pool' = [join_pool EXCEPT ![c] = {}]
      /\ UNCHANGED <<clients, stop_flag>>
  BY DEF LockPool, LeftByMove, PoolInv, StopInv
<1>2. \A d \in Channels : pc'[d] = IF d = c THEN "joins" ELSE pc[d]
  BY DEF LockPool, Goto, TickTypeOK
<1>3. RoomState[c] = "open" /\ Taking[c] = {}
  BY <1>1
<1>4. RoomState' = RoomState /\ Members' = Members
  BY <1>1, <1>2
<1>5. Taking' = [Taking EXCEPT ![c] = join_pool[c]]
  BY <1>1, <1>2 DEF ChannelTypeOK
<1> QED BY <1>1, <1>3, <1>4, <1>5 DEF Room!Call

\* A turn of the first loop takes in a guest or forgets it (channel.cpp:120-127).
LEMMA TakeInTakes ==
    ASSUME TypeOK, PoolInv, NEW c \in Channels, NEW e \in local_q[c], TakeIn(c, e)
    PROVE  Room!TakeIn(c, e) \/ Room!Forget(c, e)
<1>1. /\ pc[c] = "joins" /\ ~stop_flag[c]
      /\ local_q' = [local_q EXCEPT ![c] = @ \ {e}]
      /\ UNCHANGED <<pc, stop_flag, join_pool>>
  BY DEF TakeIn, PoolInv, StopInv
<1>2. RoomState[c] = "open" /\ e \in Taking[c] /\ RoomState' = RoomState
  BY <1>1
<1>3. Taking' = [Taking EXCEPT ![c] = @ \ {e}]
  BY <1>1 DEF ChannelTypeOK
<1>4. \/ Members' = Members
      \/ Members' = [Members EXCEPT ![c] = @ \cup {e.fd}]
  BY DEF TakeIn, add_client, TrackerTypeOK
<1> QED BY <1>1, <1>2, <1>3, <1>4 DEF Room!TakeIn, Room!Forget

\* delete_client on a channel makes a member leave, or nobody
\* (channel.cpp:105, 134).
LEMMA DeleteLeaves ==
    ASSUME TypeOK, PoolInv, NEW c \in Channels, NEW fd \in FDs,
           delete_client(c, fd),
           UNCHANGED <<stop_flag, join_pool>>,
           \A d \in Channels : /\ pc'[d] = "none" <=> pc[d] = "none"
                               /\ Batch(d)' = Batch(d)
    PROVE  Room!Leave(c, fd) \/ UNCHANGED Room!roomVars
<1>1. RoomState' = RoomState /\ Taking' = Taking
  BY DEF Batch
<1>2. CASE CanDelete(c, fd)
  <2>1. Members' = [Members EXCEPT ![c] = @ \ {fd}]
    BY <1>2 DEF delete_client, TrackerTypeOK
  <2>2. fd \in Members[c]
    BY <1>2 DEF CanDelete, PoolInv, WatchInv
  <2> QED BY <1>1, <2>1, <2>2 DEF Room!Leave
<1>3. CASE ~CanDelete(c, fd)
  BY <1>1, <1>3 DEF delete_client, Room!roomVars
<1> QED BY <1>2, <1>3

\* The second loop of resolve_pool is nothing to Rooms until it lets a client go.
LEMMA MoveLeavesStutters ==
    ASSUME TypeOK, NEW c \in Channels, MoveLeaves(c)
    PROVE  UNCHANGED Room!roomVars
<1>1. /\ pc[c] = "joins" /\ local_q[c] = {}
      /\ \A d \in Channels : pc'[d] = IF d = c THEN "leaves" ELSE pc[d]
      /\ \A d \in Channels \ {c} : local_q'[d] = local_q[d]
      /\ UNCHANGED <<clients, stop_flag, join_pool>>
  BY DEF MoveLeaves, MovingLeaves, Goto, TickTypeOK, ChannelTypeOK
<1>2. \A d \in Channels : Kept(d)
  BY <1>1 DEF Kept, Status, Batch
<1> QED BY <1>1, <1>2, RoomsStutter

\* The end of resolve_pool stops a deserted room (channel.cpp:140-143).
LEMMA UnlockPoolStops ==
    ASSUME TypeOK, PoolInv, NEW c \in Channels, UnlockPool(c)
    PROVE  Room!Stop(c) \/ UNCHANGED Room!roomVars
<1>0. pc[c] = "leaves" /\ ~stop_flag[c]
  BY DEF UnlockPool, PoolInv, StopInv, ChannelTypeOK
<1>1. /\ \A d \in Channels : stop_flag'[d] = IF d = c THEN Idle(c) ELSE stop_flag[d]
      /\ UNCHANGED <<clients, join_pool, local_q>>
  BY <1>0 DEF UnlockPool, Idle, ChannelTypeOK
<1>2. \A d \in Channels : pc'[d] = IF d = c THEN "cast" ELSE pc[d]
  BY DEF UnlockPool, Goto, TickTypeOK
<1>3. Members' = Members /\ Taking' = Taking
  BY <1>0, <1>1, <1>2
<1>4. CASE Idle(c)
  <2>1. RoomState' = [RoomState EXCEPT ![c] = "stopped"]
    BY <1>0, <1>1, <1>2, <1>4
  <2>2. RoomState[c] = "open" /\ Room!Deserted(c)
    BY <1>0, <1>4 DEF Idle, Room!Deserted
  <2> QED BY <1>1, <1>3, <2>1, <2>2 DEF Room!Stop
<1>5. CASE ~Idle(c)
  <2>1. RoomState' = RoomState
    BY <1>0, <1>1, <1>2, <1>5
  <2> QED BY <1>1, <1>3, <2>1 DEF Room!roomVars
<1> QED BY <1>4, <1>5

-----------------------------------------------------------------------------

\* Every step that a server shares with all others is a stutter of Rooms.
LEMMA TickStutters ==
    ASSUME TypeOK, NEW s \in Servers, UNCHANGED channelVars,
           \/ \E fd \in FDs :
                  EventEnds(s, fd) \/ EventEmpty(s, fd) \/ EventReceives(s, fd)
           \/ EventAcceptFails(s)
           \/ RemoveUserName(s)
           \/ CloseClient(s)
    PROVE  UNCHANGED Room!roomVars
<1>1. UNCHANGED clients
  BY DEF EventEnds, EventEmpty, EventReceives, EventAcceptFails,
         RemoveUserName, CloseClient
<1>2. \/ UNCHANGED pc
      \/ \E l \in {"frames", "close", "pre", "dels"} :
             Goto(s, l) /\ pc[s] \in {"events", "unname", "close"}
  BY DEF EventEnds, EventEmpty, EventReceives, EventAcceptFails,
         RemoveUserName, CloseClient
<1>3. CASE UNCHANGED pc
  BY <1>1, <1>3, MainStutters
<1>4. CASE s = Lobby
  BY <1>1, <1>2, <1>4, MainStutters
<1>5. CASE s \in Channels
  BY <1>1, <1>2, <1>5, MainStutters, WorkerStutters
<1> QED BY <1>4, <1>5

\* Every step of a worker is a step of its room, or a stutter.
LEMMA WorkerRefines ==
    ASSUME TypeOK, PoolInv, NEW c \in Channels, Worker(c)
    PROVE  Room!Next \/ UNCHANGED Room!roomVars
<1>1. CASE WorkerExits(c) \/ WorkerPolls(c)
  BY <1>1, WorkerStutters DEF WorkerExits, WorkerPolls, Poll
<1>2. CASE HearMessage(c) \/ HearJoin(c)
  <2>1. PICK l \in {"events", "frames"} : Goto(c, l) /\ pc[c] = "frames"
    BY <1>2 DEF HearMessage, HearJoin, AfterFrame
  <2> QED BY <1>2, <2>1, WorkerStutters DEF HearMessage, HearJoin
<1>3. ASSUME NEW x \in Conns, NEW fd \in FDs, ChannelAccepts(c, x, fd)
      PROVE  UNCHANGED Room!roomVars
  BY <1>3, MainStutters DEF ChannelAccepts
<1>4. CASE NoPoolTask(c)
  BY <1>4, WorkerStutters DEF NoPoolTask
<1>5. CASE LockPool(c)
  BY <1>5, LockPoolCalls DEF Room!Next
<1>6. ASSUME NEW e \in local_q[c], TakeIn(c, e)
      PROVE  Room!Next
  <2>1. e \in PoolEntries
    BY <1>6 DEF ChannelTypeOK
  <2> QED BY <1>6, <2>1, TakeInTakes DEF Room!Next
<1>7. CASE MoveLeaves(c)
  BY <1>7, MoveLeavesStutters
<1>8. ASSUME NEW e \in local_q[c], LetGo(c, e)
      PROVE  Room!Next \/ UNCHANGED Room!roomVars
  <2>1. e.fd \in FDs
    BY <1>8 DEF ChannelTypeOK, PoolEntries
  <2>2. \A d \in Channels : Batch(d)' = Batch(d)
    BY <1>8 DEF LetGo, Batch, ChannelTypeOK
  <2>3. UNCHANGED <<pc, stop_flag, join_pool>> /\ delete_client(c, e.fd)
    BY <1>8 DEF LetGo
  <2>4. PICK fd \in FDs : fd = e.fd
    BY <2>1
  <2>5. Room!Leave(c, fd) \/ UNCHANGED Room!roomVars
    BY <2>2, <2>3, <2>4, DeleteLeaves
  <2> QED BY <2>5 DEF Room!Next
<1>9. CASE UnlockPool(c)
  BY <1>9, UnlockPoolStops DEF Room!Next
<1>10. CASE Broadcast(c)
  <2>1. PICK l \in {"pre", "dels"} : Goto(c, l) /\ pc[c] = "cast"
    BY <1>10 DEF Broadcast, StartDeletion
  <2> QED BY <1>10, <2>1, WorkerStutters DEF Broadcast
<1>11. ASSUME NEW fd \in FDs, ChannelDeletes(c, fd)
       PROVE  Room!Next \/ UNCHANGED Room!roomVars
  <2>1. \A d \in Channels : pc'[d] = IF d = c THEN "unname" ELSE pc[d]
    BY <1>11 DEF ChannelDeletes, Goto, TickTypeOK
  <2>2. /\ pc[c] = "dels" /\ delete_client(c, fd)
        /\ UNCHANGED <<stop_flag, join_pool, local_q>>
    BY <1>11 DEF ChannelDeletes
  <2>3. Room!Leave(c, fd) \/ UNCHANGED Room!roomVars
    BY <2>1, <2>2, DeleteLeaves DEF Batch
  <2> QED BY <2>3 DEF Room!Next
<1>12. CASE WorkerTick(c)
  BY <1>12, TickStutters DEF WorkerTick
<1> QED BY <1>1, <1>2, <1>3, <1>4, <1>5, <1>6, <1>7, <1>8, <1>9, <1>10, <1>11,
           <1>12 DEF Worker

\* Every step of the main thread is a step of one room, or a stutter.
LEMMA MainRefines ==
    ASSUME TypeOK, PoolInv, Main
    PROVE  Room!Next \/ UNCHANGED Room!roomVars
<1>1. CASE PopReports \/ NextReport \/ LobbyPolls \/ IgnoreFrame \/ HearFirstJoin
  BY <1>1, MainStutters
     DEF PopReports, NextReport, LobbyPolls, Poll, IgnoreFrame, HearFirstJoin
<1>2. CASE CheckLobby \/ ChecksDone
  BY <1>2, MainStutters DEF CheckLobby, ChecksDone, StartDeletion
<1>3. CASE \E c \in Channels : Create(c)
  BY <1>3, CreateMakes DEF Room!Next
<1>4. CASE \E c \in Channels : Register(c)
  BY <1>4, MainStutters DEF Register
<1>5. CASE \E c \in Channels : DestroyChannel(c)
  BY <1>5, DestroyDiscards DEF Room!Next
<1>6. CASE LockTarget \/ TryNext \/ LockFresh \/ RefuseJoin \/ RefuseThrows
  BY <1>6, MainStutters
     DEF LockTarget, TryNext, LockFresh, RefuseJoin, RefuseThrows
<1>7. CASE JoinNameless \/ LeaveSource \/ DetachThrows
  BY <1>7, MainStutters DEF JoinNameless, LeaveSource, DetachThrows
<1>8. CASE JoinRunning
  <2>1. PICK who \in Conns : join(job.to, job.fd, who)
    BY <1>8 DEF JoinRunning, HasName, get_user_name, UserTypeOK, LobbyTypeOK,
                AtTransfer, Holding
  <2>2. stop_flag' = [stop_flag EXCEPT ![job.to] = FALSE]
    BY <1>8 DEF JoinRunning, ChannelTypeOK, LobbyTypeOK, AtTransfer, Holding
  <2>3. \/ \E r \in Channels, g \in PoolEntries : Room!Promise(r, g)
        \/ UNCHANGED Room!roomVars
    BY <1>8, <2>1, <2>2, JoinPromises DEF JoinRunning
  <2> QED BY <2>3 DEF Room!Next
<1>9. CASE JoinRestarted
  <2>1. PICK who \in Conns : join(job.to, job.fd, who)
    BY <1>9 DEF JoinRestarted, LobbyTypeOK
  <2>2. \/ \E r \in Channels, g \in PoolEntries : Room!Promise(r, g)
        \/ UNCHANGED Room!roomVars
    BY <1>9, <2>1, JoinPromises DEF JoinRestarted
  <2> QED BY <2>2 DEF Room!Next
<1>10. CASE JoinRestarts
  <2>1. /\ pc[job.to] = "dead"
        /\ \A d \in Channels : pc'[d] = IF d = job.to THEN "pre" ELSE pc[d]
        /\ UNCHANGED <<clients, stop_flag, join_pool, local_q>>
    BY <1>10, SocketsAssumption DEF JoinRestarts, TickTypeOK
  <2> QED BY <2>1, Elsewhere
<1>11. CASE Detach \/ \E fd \in FDs : LobbyDeletes(fd)
  <2>1. \A c \in Channels : clients'[c] = clients[c]
    BY <1>11, SocketsAssumption
       DEF Detach, LobbyDeletes, delete_client, TrackerTypeOK
  <2> QED BY <1>11, <2>1, MainStutters DEF Detach, LobbyDeletes, StartDeletion
<1>12. CASE \E x \in Conns, fd \in FDs : LobbyAccepts(x, fd) \/ LobbyRefuses(x, fd)
  <2>1. \A c \in Channels : clients'[c] = clients[c]
    BY <1>12, SocketsAssumption
       DEF LobbyAccepts, LobbyRefuses, add_client, TrackerTypeOK
  <2> QED BY <1>12, <2>1, MainStutters DEF LobbyAccepts, LobbyRefuses
<1>13. CASE LobbyTick
  BY <1>13, TickStutters DEF LobbyTick
<1> QED BY <1>1, <1>2, <1>3, <1>4, <1>5, <1>6, <1>7, <1>8, <1>9, <1>10, <1>11,
           <1>12, <1>13 DEF Main

\* At the start there is no room and nobody in one.
LEMMA InitRefines ==
    ASSUME Init
    PROVE  Room!Init
<1>1. \A c \in Channels : /\ pc[c] = "none" /\ clients[c] = {}
                          /\ join_pool[c] = {}
  BY SocketsAssumption DEF Init, TickInit, TrackerInit, ChannelInit
<1>2. join_pool = [c \in Channels |-> {}]
  BY DEF Init, ChannelInit
<1> QED BY <1>1, <1>2 DEF Room!Init

\* The server implements Rooms (channel.cpp:34, 74, 116, channel_server.cpp:113,
\* 155, 204): its steps, seen from the rooms, are those of Rooms, for any
\* number of clients, descriptors and channels.
THEOREM ImplementsRoomsHolds == Spec => ImplementsRooms
<1>1. Init => Room!Init
  BY InitRefines
<1>2. TypeOK /\ PoolInv /\ [Next]_vars => [Room!Next]_Room!roomVars
  <2> SUFFICES ASSUME TypeOK, PoolInv, [Next]_vars
               PROVE  Room!Next \/ UNCHANGED Room!roomVars
    OBVIOUS
  <2>1. CASE Main
    BY <2>1, MainRefines
  <2>2. CASE \E c \in Channels : Worker(c)
    BY <2>2, WorkerRefines
  <2>3. CASE \E x \in Conns : User(x)
    BY <2>3, MainStutters DEF User
  <2>4. CASE UNCHANGED vars
    BY <2>4, MainStutters DEF vars
  <2> QED BY <2>1, <2>2, <2>3, <2>4 DEF Next
<1> QED BY <1>1, <1>2, TypesHold, PoolInvHolds, PTL
        DEF Spec, ImplementsRooms, Room!Spec
=============================================================================

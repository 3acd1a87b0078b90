------------------------- MODULE ChannelServerSafety -------------------------
(***************************************************************************)
(* Capacity, StoppedIsEmpty, AdmittedIsTaken and DestroyedIsEmpty hold of  *)
(* ChannelServer!Spec, for all values of the constants.                    *)
(*                                                                         *)
(* None of them is inductive.  The main thread looks at a room (ping_pool, *)
(* stop_flag) in one step and acts on what it saw in a later one, and the  *)
(* worker takes in what it has moved out of the pool before; what makes    *)
(* this right is who holds pool_mtx where.  PoolInv says it: it is kept by *)
(* every step (NextSafe), and the four properties follow from it.          *)
(***************************************************************************)
EXTENDS ChannelServerProperties, ChannelServerTypes, FiniteSetTheorems

USE DEF Servers, NoChannel, TypeOK, sockVars, tickVars, channelVars, poolVars,
        clientVars, lobbyVars, jobVars

\* The worker holds the pool exactly while it is in resolve_pool; the main
\* thread holds that of its target throughout the transfer.
LockInv ==
    /\ \A c \in Channels :
           pool_mtx[c] = "worker" <=> pc[c] \in {"joins", "leaves"}
    /\ pc[Lobby] \in Holding => pool_mtx[job.to] = "main"

\* Nobody is in the room or on the way into it.
Empty(c) == /\ clients[c] = {} /\ join_pool[c] = {}
            /\ pc[c] = "joins" => local_q[c] = {}

\* A transfer that has tried some channel is a first join; the channel made
\* because the others are full, and one that is no more, are empty.
FreshInv ==
    /\ pc[Lobby] \in {"lookup", "register", "fresh"} /\ tried # {}
           => ~FromReport
    /\ pc[Lobby] = "fresh" \/ (pc[Lobby] = "register" /\ tried # {})
           => Empty(job.to) /\ pc[job.to] # "none"
    /\ pc[Lobby] \in Holding => pc[job.to] # "none"
    /\ \A c \in Channels : pc[c] = "none" => Empty(c)

\* A stopped channel is there and empty, and its worker is past resolve_pool for
\* good.
StopInv ==
    \A c \in Channels : stop_flag[c] =>
        /\ clients[c] = {} /\ join_pool[c] = {}
        /\ pc[c] \notin {"none", "events", "frames", "joins", "leaves"}

\* What a server watches it counts.
WatchInv == \A s \in Servers : interest[s] \subseteq clients[s]

\* The places taken and promised fit in the room, with one to spare for the
\* join that ping_pool has let through.
RoomInv ==
    /\ \A c \in Channels :
           /\ IsFiniteSet(join_pool[c])
           /\ pc[c] = "joins" => IsFiniteSet(local_q[c])
           /\ Promised(c) <= ChMaxFd
    /\ pc[Lobby] \in {"join", "restarted"} => Promised(job.to) < ChMaxFd

\* The inductive invariant; LockInv, FreshInv and StopInv are what RoomInv and
\* the four properties need to be kept.
PoolInv == LockInv /\ FreshInv /\ StopInv /\ WatchInv /\ RoomInv

\* A set gets at most one element more.
LEMMA AddOne ==
    ASSUME NEW S, IsFiniteSet(S), NEW x, NEW T, T = S \/ T = S \cup {x}
    PROVE  /\ IsFiniteSet(T) /\ Cardinality(T) \in Nat
           /\ Cardinality(T) <= Cardinality(S) + 1
<1>1. Cardinality(S) \in Nat
  BY FS_CardinalityType
<1>2. CASE T = S
  BY <1>1, <1>2
<1>3. CASE T = S \cup {x}
  <2>1. IsFiniteSet(T)
    BY <1>3, FS_AddElement
  <2>2. Cardinality(T) = IF x \in S THEN Cardinality(S) ELSE Cardinality(S) + 1
    BY <1>3, FS_AddElement
  <2> QED BY <1>1, <2>1, <2>2
<1> QED BY <1>2, <1>3

\* What a channel has and what it has promised are numbers.
LEMMA PromisedNat ==
    ASSUME TypeOK, RoomInv, NEW c \in Channels
    PROVE  /\ IsFiniteSet(clients[c]) /\ get_client_count(c) \in Nat
           /\ Cardinality(join_pool[c]) \in Nat
           /\ pc[c] = "joins" => Cardinality(local_q[c]) \in Nat
           /\ Promised(c) \in Nat
<1>1. IsFiniteSet(clients[c])
  <2>1. clients[c] \in SUBSET FDs /\ IsFiniteSet(FDs)
    BY SocketsAssumption DEF TrackerTypeOK
  <2> QED BY <2>1, FS_Subset
<1>2. IsFiniteSet(join_pool[c]) /\ (pc[c] = "joins" => IsFiniteSet(local_q[c]))
  BY DEF RoomInv
<1>3. /\ get_client_count(c) \in Nat /\ Cardinality(join_pool[c]) \in Nat
      /\ pc[c] = "joins" => Cardinality(local_q[c]) \in Nat
  BY <1>1, <1>2, FS_CardinalityType DEF get_client_count
<1> QED BY <1>1, <1>3 DEF Promised

\* A step of another thread, or one by which a channel loses a client, promises
\* no place.
LEMMA PromisedShrinks ==
    ASSUME TypeOK, RoomInv, NEW c \in Channels,
           clients'[c] \subseteq clients[c], join_pool'[c] = join_pool[c],
           pc'[c] = "joins" => pc[c] = "joins" /\ local_q'[c] = local_q[c]
    PROVE  Promised(c)' \in Nat /\ Promised(c)' <= Promised(c)
<1>1. get_client_count(c)' <= get_client_count(c) /\ get_client_count(c)' \in Nat
  BY PromisedNat, FS_Subset, FS_CardinalityType DEF get_client_count
<1> QED BY <1>1, PromisedNat DEF Promised

\* RoomInv is kept by a step in which no channel takes a client in and no pool
\* is touched.
LEMMA RoomShrinks ==
    ASSUME TypeOK, RoomInv,
           \A c \in Channels :
               /\ clients'[c] \subseteq clients[c] /\ join_pool'[c] = join_pool[c]
               /\ pc'[c] = "joins" => pc[c] = "joins" /\ local_q'[c] = local_q[c],
           pc'[Lobby] \in {"join", "restarted"} =>
               pc[Lobby] \in {"join", "restarted"} /\ job'.to = job.to
    PROVE  RoomInv'
<1>1. \A c \in Channels : /\ Promised(c) \in Nat /\ Promised(c)' \in Nat
                          /\ Promised(c)' <= Promised(c)
  BY PromisedShrinks, PromisedNat
<1>2. \A c \in Channels : Promised(c)' <= ChMaxFd
  BY <1>1, TrackerAssumption DEF RoomInv
<1>3. ASSUME pc'[Lobby] \in {"join", "restarted"}
      PROVE  Promised(job.to)' < ChMaxFd
  <2>1. job.to \in Channels /\ job'.to = job.to /\ Promised(job.to) < ChMaxFd
    BY <1>3 DEF RoomInv, LobbyTypeOK, AtTransfer, Holding
  <2> QED BY <1>1, <2>1, TrackerAssumption
<1>4. \A c \in Channels : /\ IsFiniteSet(join_pool'[c])
                          /\ pc'[c] = "joins" => IsFiniteSet(local_q'[c])
  BY DEF RoomInv
<1> QED BY <1>2, <1>3, <1>4 DEF RoomInv

\* A worker goes on, outside resolve_pool.
LEMMA WorkerMoves ==
    ASSUME TypeOK, PoolInv, NEW c \in Channels,
           NEW l \in WorkerPcs \ {"none", "joins", "leaves"}, Goto(c, l),
           pc[c] \notin {"none", "joins", "leaves"},
           l \in {"events", "frames"} => ~stop_flag[c],
           clients'[c] \subseteq clients[c],
           \A d \in Channels \ {c} : clients'[d] = clients[d],
           UNCHANGED <<join_pool, local_q, pool_mtx, stop_flag, job, tried>>,
           WatchInv'
    PROVE  PoolInv'
<1>1. /\ pc'[c] = l /\ pc'[Lobby] = pc[Lobby]
      /\ \A d \in Channels \ {c} : pc'[d] = pc[d]
  BY SocketsAssumption DEF TickTypeOK, Goto
<1>2. LockInv'
  BY <1>1 DEF PoolInv, LockInv
<1>3. FreshInv'
  BY <1>1
     DEF PoolInv, FreshInv, Empty, FromReport, LobbyTypeOK, AtTransfer, Holding
<1>4. StopInv'
  BY <1>1 DEF PoolInv, StopInv
<1>5. RoomInv'
  BY <1>1, RoomShrinks DEF PoolInv
<1> QED BY <1>2, <1>3, <1>4, <1>5 DEF PoolInv

\* The main thread goes on, away from any room.
LEMMA MainMoves ==
    ASSUME TypeOK, PoolInv,
           NEW l \in LobbyPcs \ (Holding \cup {"register", "fresh"}), Goto(Lobby, l),
           l = "lookup" => tried' = {} \/ ~FromReport',
           \A c \in Channels : clients'[c] = clients[c],
           \A c \in Channels : pool_mtx'[c] = "worker" <=> pool_mtx[c] = "worker",
           UNCHANGED <<join_pool, local_q, stop_flag>>,
           WatchInv'
    PROVE  PoolInv'
<1>1. /\ pc'[Lobby] = l
      /\ \A c \in Channels : pc'[c] = pc[c]
  BY SocketsAssumption DEF TickTypeOK, Goto
<1>2. LockInv'
  BY <1>1 DEF PoolInv, LockInv
<1>3. FreshInv'
  BY <1>1 DEF PoolInv, FreshInv, Empty, Holding
<1>4. StopInv'
  BY <1>1 DEF PoolInv, StopInv
<1>5. RoomInv'
  BY <1>1, RoomShrinks DEF PoolInv, Holding
<1> QED BY <1>2, <1>3, <1>4, <1>5 DEF PoolInv

\* Nobody goes on.
LEMMA NobodyMoves ==
    ASSUME TypeOK, PoolInv,
           \A c \in Channels : clients'[c] = clients[c],
           UNCHANGED <<pc, join_pool, local_q, pool_mtx, stop_flag, job, tried>>,
           WatchInv'
    PROVE  PoolInv'
<1>1. LockInv'
  BY DEF PoolInv, LockInv
<1>2. FreshInv'
  BY DEF PoolInv, FreshInv, Empty, FromReport, LobbyTypeOK, AtTransfer
<1>3. StopInv'
  BY DEF PoolInv, StopInv
<1>4. RoomInv'
  BY RoomShrinks DEF PoolInv
<1> QED BY <1>1, <1>2, <1>3, <1>4 DEF PoolInv

-----------------------------------------------------------------------------

\* PoolInv is kept when the main thread makes a channel: it is empty, and the
\* one that is asked for if the others are full.
LEMMA CreateSafe ==
    ASSUME TypeOK, PoolInv, NEW c \in Channels, Create(c)
    PROVE  PoolInv'
<1>1. pc[c] = "none" /\ pc[Lobby] = "lookup" /\ c \in {job.from, job.to}
  BY DEF Create, Lacking, channels
<1>2. /\ pc'[c] = "pre" /\ pc'[Lobby] = "register"
      /\ \A d \in Channels \ {c} : pc'[d] = pc[d]
  BY SocketsAssumption DEF Create, TickTypeOK
<1>3. LockInv'
  BY <1>1, <1>2 DEF PoolInv, LockInv, Create, Holding
<1>4. FreshInv'
  <2>1. Empty(c)'
    BY <1>1, <1>2 DEF PoolInv, FreshInv, Empty, Create
  <2>2. tried # {} => ~FromReport /\ job.to = c
    BY <1>1, SocketsAssumption DEF PoolInv, FreshInv, FromReport
  <2>3. UNCHANGED <<clients, join_pool, local_q, job, tried>>
    BY DEF Create
  <2> QED BY <1>1, <1>2, <2>1, <2>2, <2>3
             DEF PoolInv, FreshInv, Empty, FromReport, Holding
<1>5. StopInv'
  BY <1>1, <1>2 DEF PoolInv, StopInv, Create
<1>6. WatchInv'
  BY DEF PoolInv, WatchInv, Create
<1>7. RoomInv'
  BY <1>2, RoomShrinks DEF PoolInv, Create
<1> QED BY <1>3, <1>4, <1>5, <1>6, <1>7 DEF PoolInv

\* PoolInv is kept when the constructor of a channel registers resolve_pool.
LEMMA RegisterSafe ==
    ASSUME TypeOK, PoolInv, NEW c \in Channels, Register(c)
    PROVE  PoolInv'
<1>1. PICK l \in {"lookup", "fresh"} :
        Goto(Lobby, l) /\ (l = "fresh" <=> tried # {})
  BY DEF Register
<1>2. /\ pc'[Lobby] = l
      /\ \A d \in Channels : pc'[d] = pc[d]
  BY <1>1, SocketsAssumption DEF TickTypeOK, Goto
<1>3. LockInv'
  BY <1>2 DEF PoolInv, LockInv, Register, Holding
<1>4. FreshInv'
  BY <1>1, <1>2
     DEF PoolInv, FreshInv, Empty, Register, FromReport, Holding, LobbyTypeOK,
         AtTransfer
<1>5. StopInv'
  BY <1>2 DEF PoolInv, StopInv, Register
<1>6. WatchInv'
  BY DEF PoolInv, WatchInv, Register
<1>7. RoomInv'
  BY <1>2, RoomShrinks DEF PoolInv, Register
<1> QED BY <1>3, <1>4, <1>5, <1>6, <1>7 DEF PoolInv

\* PoolInv is kept when check_channels deletes a channel: stop_flag says that it
\* was empty already.
LEMMA DestroySafe ==
    ASSUME TypeOK, PoolInv, NEW c \in Channels, DestroyChannel(c)
    PROVE  PoolInv'
<1>1. pc[c] = "dead" /\ stop_flag[c] /\ pc[Lobby] = "channels"
  BY DEF DestroyChannel, Expired
<1>2. /\ pc'[c] = "none" /\ pc'[Lobby] = pc[Lobby]
      /\ \A d \in Channels \ {c} : pc'[d] = pc[d]
  BY SocketsAssumption DEF DestroyChannel, Goto, TickTypeOK
<1>3. /\ clients'[c] = {} /\ join_pool'[c] = {}
      /\ clients[c] = {} /\ join_pool[c] = {}
      /\ \A d \in Channels \ {c} :
             clients'[d] = clients[d] /\ join_pool'[d] = join_pool[d]
      /\ UNCHANGED local_q
  BY <1>1 DEF DestroyChannel, TrackerTypeOK, ChannelTypeOK, PoolInv, StopInv
<1>4. LockInv'
  BY <1>1, <1>2 DEF PoolInv, LockInv, DestroyChannel, ChannelTypeOK, Holding
<1>5. FreshInv'
  BY <1>1, <1>2, <1>3 DEF PoolInv, FreshInv, Empty, Holding
<1>6. StopInv'
  BY <1>2, <1>3 DEF PoolInv, StopInv, DestroyChannel, ChannelTypeOK
<1>7. WatchInv'
  BY
     DEF PoolInv, WatchInv, DestroyChannel, CloseListener, SocketsTypeOK,
         TrackerTypeOK
<1>8. RoomInv'
  BY <1>1, <1>2, <1>3, RoomShrinks DEF PoolInv
<1> QED BY <1>4, <1>5, <1>6, <1>7, <1>8 DEF PoolInv

\* PoolInv is kept when find_or_create_channel goes on to another channel.
LEMMA TryNextSafe ==
    ASSUME TypeOK, PoolInv, TryNext
    PROVE  PoolInv'
<1>1. pc[Lobby] = "lookup" /\ ~FromReport /\ ~FromReport'
  BY DEF TryNext, FromReport, LobbyTypeOK
<1>2. LockInv'
  BY <1>1 DEF PoolInv, LockInv, TryNext, Holding
<1>3. FreshInv'
  BY <1>1 DEF PoolInv, FreshInv, Empty, TryNext, Holding
<1>4. StopInv'
  BY DEF PoolInv, StopInv, TryNext
<1>5. WatchInv'
  BY DEF PoolInv, WatchInv, TryNext
<1>6. RoomInv'
  BY <1>1, RoomShrinks DEF PoolInv, TryNext
<1> QED BY <1>2, <1>3, <1>4, <1>5, <1>6 DEF PoolInv

\* PoolInv is kept when the main thread takes the lock of its target: if it goes
\* on to join, ping_pool has seen every place the channel promised, because a
\* worker without the lock has nothing in local_q to take in.
LEMMA LockSafe ==
    ASSUME TypeOK, PoolInv, NEW l \in {"join", "full"}, Goto(Lobby, l),
           pc[Lobby] \in {"lookup", "fresh"}, pc[job.to] # "none", Hold(job.to),
           l = "join" => ping_pool(job.to),
           UNCHANGED <<clients, interest, stop_flag, join_pool, local_q, job, tried>>
    PROVE  PoolInv'
<1>1. job.to \in Channels
  BY DEF LobbyTypeOK, AtTransfer
<1>2. /\ pc'[Lobby] = l
      /\ \A d \in Channels : pc'[d] = pc[d]
  BY SocketsAssumption DEF TickTypeOK, Goto
<1>3. LockInv'
  BY <1>1, <1>2 DEF PoolInv, LockInv, Hold, ChannelTypeOK
<1>4. FreshInv'
  BY <1>1, <1>2 DEF PoolInv, FreshInv, Empty, FromReport
<1>5. StopInv'
  BY <1>2 DEF PoolInv, StopInv
<1>6. WatchInv'
  BY DEF PoolInv, WatchInv
<1>7. \A c \in Channels : Promised(c)' = Promised(c)
  BY <1>2 DEF Promised, get_client_count
<1>8. pc[job.to] # "joins"
  BY <1>1 DEF PoolInv, LockInv, Hold
<1>9. l = "join" => Promised(job.to) < ChMaxFd
  BY <1>1, <1>8, PromisedNat, SocketsAssumption
     DEF PoolInv, ping_pool, get_max_fd, Promised
<1>10. RoomInv'
  BY <1>1, <1>2, <1>7, <1>9 DEF PoolInv, RoomInv
<1> QED BY <1>3, <1>4, <1>5, <1>6, <1>10 DEF PoolInv

\* PoolInv is kept when wait_stop_pooling returns.
LEMMA LockTargetSafe ==
    ASSUME TypeOK, PoolInv, LockTarget
    PROVE  PoolInv'
<1>1. pc[job.to] # "none"
  BY SocketsAssumption
     DEF LockTarget, Lacking, channels, LobbyTypeOK, AtTransfer
<1>2. PICK l \in {"join", "full"} : Goto(Lobby, l) /\ (l = "join" => ping_pool(job.to))
  BY DEF LockTarget
<1> QED BY <1>1, <1>2, LockSafe DEF LockTarget

\* PoolInv is kept when find_or_create_channel locks the channel it has made:
\* nobody can have used it before, so that it needs no ping_pool.
LEMMA LockFreshSafe ==
    ASSUME TypeOK, PoolInv, LockFresh
    PROVE  PoolInv'
<1>1. job.to \in Channels /\ Empty(job.to) /\ pc[job.to] # "none"
  BY DEF LockFresh, PoolInv, FreshInv, LobbyTypeOK, AtTransfer
<1>2. ping_pool(job.to)
  BY <1>1, FS_EmptySet, SocketsAssumption, TrackerAssumption
     DEF Empty, ping_pool, get_client_count, get_max_fd
<1> QED BY <1>1, <1>2, LockSafe DEF LockFresh

\* PoolInv is kept when join_and_logging has nobody to join.
LEMMA JoinNamelessSafe ==
    ASSUME TypeOK, PoolInv, JoinNameless
    PROVE  PoolInv'
<1>1. PICK l \in {"leave", "detach"} : Goto(Lobby, l)
  BY DEF JoinNameless, AfterJoin
<1>2. /\ pc'[Lobby] = l /\ pc[Lobby] = "join"
      /\ \A d \in Channels : pc'[d] = pc[d]
  BY <1>1, SocketsAssumption DEF JoinNameless, TickTypeOK, Goto
<1>3. LockInv'
  BY <1>2 DEF PoolInv, LockInv, JoinNameless, Holding
<1>4. FreshInv'
  BY <1>2
     DEF PoolInv, FreshInv, Empty, JoinNameless, Holding, LobbyTypeOK,
         AtTransfer
<1>5. StopInv'
  BY <1>2 DEF PoolInv, StopInv, JoinNameless
<1>6. WatchInv'
  BY DEF PoolInv, WatchInv, JoinNameless
<1>7. RoomInv'
  BY <1>2, RoomShrinks DEF PoolInv, JoinNameless
<1> QED BY <1>3, <1>4, <1>5, <1>6, <1>7 DEF PoolInv

\* PoolInv is kept by Channel::join, at either of the two places of
\* ChannelServer that reach it: the place it promises is one ping_pool found.
LEMMA JoinSafe ==
    ASSUME TypeOK, PoolInv, pc[Lobby] \in {"join", "restarted"},
           NEW fd, NEW who, join(job.to, fd, who), ~stop_flag'[job.to],
           NEW l \in {"leave", "detach"}, Goto(Lobby, l),
           \A c \in Channels \ {job.to} : stop_flag'[c] = stop_flag[c],
           UNCHANGED <<clients, interest, pool_mtx, local_q, job, tried>>
    PROVE  PoolInv'
<1>1. job.to \in Channels /\ pc[Lobby] \in Holding
  BY DEF LobbyTypeOK, AtTransfer, Holding
<1>2. /\ pc'[Lobby] = l
      /\ \A d \in Channels : pc'[d] = pc[d]
  BY SocketsAssumption DEF TickTypeOK, Goto
<1>3. /\ pool_mtx[job.to] = "main" /\ pc[job.to] \notin {"joins", "leaves", "none"}
  BY <1>1 DEF PoolInv, LockInv, FreshInv
<1>4. /\ join_pool'[job.to] = Emplace(join_pool[job.to], fd, who)
      /\ \A c \in Channels \ {job.to} : join_pool'[c] = join_pool[c]
  BY <1>1 DEF join, ChannelTypeOK
<1>5. LockInv'
  BY <1>1, <1>2 DEF PoolInv, LockInv
<1>6. FreshInv'
  BY <1>1, <1>2, <1>3, <1>4 DEF PoolInv, FreshInv, Empty
<1>7. StopInv'
  BY <1>2, <1>4 DEF PoolInv, StopInv
<1>8. WatchInv'
  BY DEF PoolInv, WatchInv
<1>9. /\ IsFiniteSet(join_pool'[job.to])
      /\ Promised(job.to)' <= ChMaxFd
  <2>1. IsFiniteSet(join_pool[job.to]) /\ Promised(job.to) < ChMaxFd
    BY <1>1 DEF PoolInv, RoomInv
  <2>2. /\ IsFiniteSet(join_pool'[job.to])
        /\ Cardinality(join_pool'[job.to]) \in Nat
        /\ Cardinality(join_pool'[job.to]) <= Cardinality(join_pool[job.to]) + 1
    <3>1. \/ join_pool'[job.to] = join_pool[job.to]
          \/ join_pool'[job.to] = join_pool[job.to] \cup {[fd |-> fd, who |-> who]}
      BY <1>4 DEF Emplace
    <3> QED BY <2>1, <3>1, AddOne
  <2>3. /\ Promised(job.to) = get_client_count(job.to) + Cardinality(join_pool[job.to])
        /\ Promised(job.to)' = get_client_count(job.to) + Cardinality(join_pool'[job.to])
        /\ get_client_count(job.to) \in Nat /\ Cardinality(join_pool[job.to]) \in Nat
    BY <1>1, <1>2, <1>3, <2>2, PromisedNat
       DEF PoolInv, Promised, get_client_count
  <2> QED BY <2>1, <2>2, <2>3, TrackerAssumption
<1>10. \A c \in Channels \ {job.to} : Promised(c)' = Promised(c)
  BY <1>2, <1>4 DEF Promised, get_client_count
<1>11. RoomInv'
  BY <1>2, <1>4, <1>9, <1>10 DEF PoolInv, RoomInv
<1> QED BY <1>5, <1>6, <1>7, <1>8, <1>11 DEF PoolInv

\* PoolInv is kept when join starts the worker of a stopped channel anew: the
\* old one is dead, so that the new one is not in resolve_pool.
LEMMA JoinRestartsSafe ==
    ASSUME TypeOK, PoolInv, JoinRestarts
    PROVE  PoolInv'
<1>1. job.to \in Channels /\ job'.to = job.to /\ pc[job.to] = "dead" /\ pc[Lobby] = "join"
  BY DEF JoinRestarts, LobbyTypeOK, AtTransfer, Holding
<1>2. /\ pc'[Lobby] = "restarted" /\ pc'[job.to] = "pre"
      /\ \A d \in Channels \ {job.to} : pc'[d] = pc[d]
  BY <1>1, SocketsAssumption DEF JoinRestarts, TickTypeOK
<1>3. LockInv'
  BY <1>1, <1>2 DEF PoolInv, LockInv, JoinRestarts, Holding
<1>4. FreshInv'
  BY <1>1, <1>2 DEF PoolInv, FreshInv, Empty, JoinRestarts, Holding
<1>5. StopInv'
  BY <1>1, <1>2 DEF PoolInv, StopInv, JoinRestarts
<1>6. WatchInv'
  BY DEF PoolInv, WatchInv, JoinRestarts
<1>7. RoomInv'
  BY <1>1, <1>2, RoomShrinks DEF PoolInv, JoinRestarts
<1> QED BY <1>3, <1>4, <1>5, <1>6, <1>7 DEF PoolInv

-----------------------------------------------------------------------------

\* PoolInv is kept when resolve_pool moves join_pool out: what was promised there
\* is promised in local_q now.
LEMMA LockPoolSafe ==
    ASSUME TypeOK, PoolInv, NEW c \in Channels, LockPool(c),
           UNCHANGED lobbyVars
    PROVE  PoolInv'
<1>1. /\ pc'[c] = "joins" /\ pc[c] = "events" /\ pc'[Lobby] = pc[Lobby]
      /\ \A d \in Channels \ {c} : pc'[d] = pc[d]
  BY SocketsAssumption DEF LockPool, TickTypeOK, Goto
<1>2. /\ local_q'[c] = join_pool[c] /\ join_pool'[c] = {}
      /\ \A d \in Channels \ {c} : local_q'[d] = local_q[d] /\ join_pool'[d] = join_pool[d]
      /\ UNCHANGED <<clients, job, tried>>
  BY DEF LockPool, LeftByMove, ChannelTypeOK
<1>3. LockInv'
  BY <1>1 DEF PoolInv, LockInv, LockPool, ChannelTypeOK
<1>4. FreshInv'
  BY <1>1, <1>2
     DEF PoolInv, FreshInv, Empty, FromReport, LobbyTypeOK, AtTransfer
<1>5. StopInv'
  BY <1>1, <1>2 DEF PoolInv, StopInv, LockPool
<1>6. WatchInv'
  BY DEF PoolInv, WatchInv, LockPool
<1>7. \A d \in Channels : Promised(d)' = Promised(d)
  <2>1. ASSUME NEW d \in Channels, d # c
        PROVE  Promised(d)' = Promised(d)
    BY <1>1, <1>2, <2>1 DEF Promised, get_client_count
  <2>2. Promised(c)' = Promised(c)
    <3>1. Promised(c) = get_client_count(c) + Cardinality(join_pool[c])
      BY <1>1, PromisedNat DEF PoolInv, Promised
    <3>2. Promised(c)' = get_client_count(c) + Cardinality({}) + Cardinality(join_pool[c])
      BY <1>1, <1>2 DEF Promised, get_client_count
    <3> QED BY <3>1, <3>2, FS_EmptySet, PromisedNat DEF PoolInv
  <2> QED BY <2>1, <2>2
<1>8. \A d \in Channels : /\ IsFiniteSet(join_pool'[d])
                          /\ pc'[d] = "joins" => IsFiniteSet(local_q'[d])
  BY <1>1, <1>2, FS_EmptySet DEF PoolInv, RoomInv
<1>9. RoomInv'
  <2>1. \A d \in Channels : Promised(d)' <= ChMaxFd
    BY <1>7 DEF PoolInv, RoomInv
  <2>2. ASSUME pc'[Lobby] \in {"join", "restarted"}
        PROVE  Promised(job.to)' < ChMaxFd
    <3>1. job.to \in Channels /\ Promised(job.to) < ChMaxFd
      BY <1>1, <2>2 DEF PoolInv, RoomInv, LobbyTypeOK, AtTransfer, Holding
    <3> QED BY <1>7, <3>1
  <2> QED BY <1>8, <2>1, <2>2 DEF RoomInv
<1> QED BY <1>3, <1>4, <1>5, <1>6, <1>9 DEF PoolInv

\* PoolInv is kept when resolve_pool takes a client in: its place is no longer
\* promised, and the main thread, without the lock, is about to join nobody here.
LEMMA TakeInSafe ==
    ASSUME TypeOK, PoolInv, NEW c \in Channels, NEW e \in local_q[c],
           TakeIn(c, e),
           UNCHANGED lobbyVars
    PROVE  PoolInv'
<1>1. /\ pc[c] = "joins" /\ ~stop_flag[c] /\ pool_mtx[c] = "worker"
      /\ UNCHANGED <<pc, stop_flag, pool_mtx, join_pool, job, tried>>
  BY DEF TakeIn, PoolInv, StopInv, LockInv
<1>2. /\ local_q'[c] = local_q[c] \ {e}
      /\ \A d \in Channels \ {c} : local_q'[d] = local_q[d]
  BY DEF TakeIn, ChannelTypeOK
<1>3. /\ \/ clients'[c] = clients[c]
         \/ clients'[c] = clients[c] \cup {e.fd}
      /\ \A d \in Servers \ {c} : clients'[d] = clients[d]
  BY DEF TakeIn, add_client, TrackerTypeOK
<1>4. LockInv'
  BY <1>1 DEF PoolInv, LockInv
<1>5. FreshInv'
  <2>1. ~Empty(c) /\ pc[c] # "none"
    BY <1>1 DEF Empty
  <2>2. \A d \in Channels \ {c} : Empty(d)' <=> Empty(d)
    BY <1>1, <1>2, <1>3 DEF Empty
  <2> QED BY <1>1, <2>1, <2>2
             DEF PoolInv, FreshInv, FromReport, LobbyTypeOK, AtTransfer
<1>6. StopInv'
  BY <1>1, <1>3 DEF PoolInv, StopInv
<1>7. WatchInv'
  <2>1. CASE add_client(c, e.fd)
    BY <2>1 DEF PoolInv, WatchInv, add_client, SocketsTypeOK, TrackerTypeOK
  <2>2. CASE UNCHANGED <<interest, clients>>
    BY <2>2 DEF PoolInv, WatchInv
  <2> QED BY <2>1, <2>2 DEF TakeIn
<1>8. IsFiniteSet(local_q'[c]) /\ Promised(c)' <= Promised(c) /\ Promised(c)' \in Nat
  <2>1. IsFiniteSet(local_q[c]) /\ IsFiniteSet(clients[c])
    BY <1>1, PromisedNat DEF PoolInv, RoomInv
  <2>2. /\ IsFiniteSet(local_q'[c])
        /\ Cardinality(local_q'[c]) = Cardinality(local_q[c]) - 1
        /\ Cardinality(local_q'[c]) \in Nat
    BY <1>2, <2>1, FS_RemoveElement, FS_CardinalityType
  <2>3. get_client_count(c)' \in Nat /\ get_client_count(c)' <= get_client_count(c) + 1
    BY <1>3, <2>1, AddOne DEF get_client_count
  <2> QED BY <1>1, <2>2, <2>3, PromisedNat DEF PoolInv, Promised
<1>9. \A d \in Channels \ {c} : Promised(d)' = Promised(d)
  BY <1>1, <1>2, <1>3 DEF Promised, get_client_count
<1>10. pc[Lobby] \in {"join", "restarted"} => job.to \in Channels \ {c}
  BY <1>1 DEF PoolInv, LockInv, LobbyTypeOK, AtTransfer, Holding
<1>11. RoomInv'
  <2>1. \A d \in Channels : Promised(d)' <= ChMaxFd
    BY <1>8, <1>9, PromisedNat, TrackerAssumption DEF PoolInv, RoomInv
  <2>2. \A d \in Channels : /\ IsFiniteSet(join_pool'[d])
                            /\ pc'[d] = "joins" => IsFiniteSet(local_q'[d])
    BY <1>1, <1>2, <1>8 DEF PoolInv, RoomInv
  <2> QED BY <1>1, <1>9, <1>10, <2>1, <2>2 DEF PoolInv, RoomInv
<1> QED BY <1>4, <1>5, <1>6, <1>7, <1>11 DEF PoolInv

\* delete_client on a channel takes at most one client from it, never leaving the
\* descriptor watched but not counted.
LEMMA LosesClient ==
    ASSUME TypeOK, PoolInv, NEW c \in Channels, NEW fd, delete_client(c, fd)
    PROVE  /\ clients'[c] \subseteq clients[c]
           /\ \A s \in Servers \ {c} : clients'[s] = clients[s]
           /\ WatchInv'
<1>1. CASE CanDelete(c, fd)
  BY <1>1 DEF delete_client, PoolInv, WatchInv, SocketsTypeOK, TrackerTypeOK
<1>2. CASE ~CanDelete(c, fd)
  BY <1>2 DEF delete_client, PoolInv, WatchInv
<1> QED BY <1>1, <1>2

\* PoolInv is kept when resolve_pool moves leave_pool out.
LEMMA MoveLeavesSafe ==
    ASSUME TypeOK, PoolInv, NEW c \in Channels, MoveLeaves(c),
           UNCHANGED lobbyVars
    PROVE  PoolInv'
<1>1. /\ pc'[c] = "leaves" /\ pc[c] = "joins" /\ pc'[Lobby] = pc[Lobby]
      /\ \A d \in Channels \ {c} : pc'[d] = pc[d]
  BY SocketsAssumption DEF MoveLeaves, MovingLeaves, TickTypeOK, Goto
<1>2. /\ \A d \in Channels \ {c} : local_q'[d] = local_q[d]
      /\ UNCHANGED <<clients, interest, join_pool, pool_mtx, stop_flag, job, tried>>
  BY DEF MoveLeaves, ChannelTypeOK
<1>3. LockInv'
  BY <1>1, <1>2 DEF PoolInv, LockInv
<1>4. FreshInv'
  BY <1>1, <1>2
     DEF PoolInv, FreshInv, Empty, FromReport, LobbyTypeOK, AtTransfer
<1>5. StopInv'
  BY <1>1, <1>2 DEF PoolInv, StopInv
<1>6. WatchInv'
  BY <1>2 DEF PoolInv, WatchInv
<1>7. RoomInv'
  BY <1>1, <1>2, RoomShrinks DEF PoolInv
<1> QED BY <1>3, <1>4, <1>5, <1>6, <1>7 DEF PoolInv

\* PoolInv is kept when resolve_pool lets a client go.
LEMMA LetGoSafe ==
    ASSUME TypeOK, PoolInv, NEW c \in Channels, NEW e \in local_q[c], LetGo(c,
           e),
           UNCHANGED lobbyVars
    PROVE  PoolInv'
<1>1. /\ pc[c] = "leaves"
      /\ \A d \in Channels \ {c} : local_q'[d] = local_q[d]
      /\ UNCHANGED <<pc, join_pool, pool_mtx, stop_flag, job, tried>>
  BY DEF LetGo, ChannelTypeOK
<1>2. /\ clients'[c] \subseteq clients[c]
      /\ \A s \in Servers \ {c} : clients'[s] = clients[s]
      /\ WatchInv'
  BY LosesClient DEF LetGo
<1>3. LockInv'
  BY <1>1 DEF PoolInv, LockInv
<1>4. FreshInv'
  BY <1>1, <1>2
     DEF PoolInv, FreshInv, Empty, FromReport, LobbyTypeOK, AtTransfer
<1>5. StopInv'
  BY <1>1, <1>2 DEF PoolInv, StopInv
<1>6. RoomInv'
  BY <1>1, <1>2, RoomShrinks DEF PoolInv
<1> QED BY <1>2, <1>3, <1>4, <1>5, <1>6 DEF PoolInv

\* PoolInv is kept when resolve_pool ends: only an empty channel stops.
LEMMA UnlockPoolSafe ==
    ASSUME TypeOK, PoolInv, NEW c \in Channels, UnlockPool(c),
           UNCHANGED lobbyVars
    PROVE  PoolInv'
<1>1. /\ pc'[c] = "cast" /\ pc[c] = "leaves" /\ pc'[Lobby] = pc[Lobby]
      /\ \A d \in Channels \ {c} : pc'[d] = pc[d]
  BY SocketsAssumption DEF UnlockPool, TickTypeOK, Goto
<1>2. LockInv'
  BY <1>1
     DEF PoolInv, LockInv, UnlockPool, ChannelTypeOK, LobbyTypeOK, AtTransfer,
         Holding
<1>3. FreshInv'
  BY <1>1
     DEF PoolInv, FreshInv, Empty, FromReport, LobbyTypeOK, AtTransfer,
         UnlockPool
<1>4. StopInv'
  BY <1>1 DEF PoolInv, StopInv, UnlockPool, Idle, ChannelTypeOK
<1>5. WatchInv'
  BY DEF PoolInv, WatchInv, UnlockPool
<1>6. RoomInv'
  BY <1>1, RoomShrinks DEF PoolInv, UnlockPool
<1> QED BY <1>2, <1>3, <1>4, <1>5, <1>6 DEF PoolInv

-----------------------------------------------------------------------------

\* PoolInv is kept by the steps that every server has in its tick.
LEMMA TickSafe ==
    ASSUME TypeOK, PoolInv, NEW s \in Servers,
           UNCHANGED <<channelVars, clientVars, lobbyVars>>,
           \/ \E fd \in FDs :
                  EventEnds(s, fd) \/ EventEmpty(s, fd) \/ EventReceives(s, fd)
           \/ EventAcceptFails(s)
           \/ RemoveUserName(s)
           \/ CloseClient(s)
    PROVE  PoolInv'
<1>1. CASE \E fd \in FDs : EventEnds(s, fd) \/ EventEmpty(s, fd)
  BY <1>1, NobodyMoves DEF EventEnds, EventEmpty, PoolInv, WatchInv
<1>2. CASE EventAcceptFails(s)
  BY <1>2, NobodyMoves DEF EventAcceptFails, PoolInv, WatchInv
<1>3. CASE \E fd \in FDs : EventReceives(s, fd)
  <2>1. PICK fd \in FDs : EventReceives(s, fd)
    BY <1>3
  <2>2. UNCHANGED <<interest, clients>> /\ pc[s] = "events" /\ Goto(s, "frames")
    BY <2>1 DEF EventReceives
  <2>3. WatchInv'
    BY <2>2 DEF PoolInv, WatchInv
  <2>4. CASE s = Lobby
    BY <2>2, <2>3, <2>4, MainMoves DEF LobbyPcs, Holding
  <2>5. CASE s \in Channels
    BY <2>2, <2>3, <2>5, WorkerMoves DEF WorkerPcs, PoolInv, StopInv
  <2> QED BY <2>4, <2>5
<1>4. CASE RemoveUserName(s)
  <2>1. UNCHANGED <<interest, clients>> /\ pc[s] = "unname" /\ Goto(s, "close")
    BY <1>4 DEF RemoveUserName
  <2>2. WatchInv'
    BY <2>1 DEF PoolInv, WatchInv
  <2>3. CASE s = Lobby
    BY <2>1, <2>2, <2>3, MainMoves DEF LobbyPcs, Holding
  <2>4. CASE s \in Channels
    BY <2>1, <2>2, <2>4, WorkerMoves DEF WorkerPcs
  <2> QED BY <2>3, <2>4
<1>5. CASE CloseClient(s)
  <2>1. PICK l \in {"pre", "dels"} : pc[s] = "close" /\ Goto(s, l)
    BY <1>5 DEF CloseClient
  <2>2. WatchInv' /\ UNCHANGED clients
    BY <1>5 DEF CloseClient, Close, PoolInv, WatchInv
  <2>3. CASE s = Lobby
    BY <2>1, <2>2, <2>3, MainMoves DEF LobbyPcs, Holding
  <2>4. CASE s \in Channels
    BY <2>1, <2>2, <2>4, WorkerMoves DEF WorkerPcs
  <2> QED BY <2>3, <2>4
<1> QED BY <1>1, <1>2, <1>3, <1>4, <1>5

\* PoolInv is kept by every step of a channel's worker.
LEMMA WorkerSafe ==
    ASSUME TypeOK, PoolInv, NEW c \in Channels, Worker(c)
    PROVE  PoolInv'
<1> UNCHANGED lobbyVars
  BY DEF Worker
<1>0. UNCHANGED <<clients, interest>> => WatchInv'
  BY DEF PoolInv, WatchInv
<1>1. CASE WorkerExits(c)
  BY <1>1, <1>0, WorkerMoves DEF WorkerExits, WorkerPcs
<1>2. CASE WorkerPolls(c)
  BY <1>2, <1>0, WorkerMoves DEF WorkerPolls, Poll, WorkerPcs
<1>3. ASSUME NEW x \in Conns, NEW fd \in FDs, ChannelAccepts(c, x, fd)
      PROVE  PoolInv'
  BY <1>3, <1>0, NobodyMoves DEF ChannelAccepts
<1>4. CASE HearMessage(c)
  <2>1. PICK l \in {"events", "frames"} : Goto(c, l) /\ pc[c] = "frames"
    BY <1>4 DEF HearMessage, AfterFrame
  <2> QED BY <1>4, <1>0, <2>1, WorkerMoves
             DEF HearMessage, WorkerPcs, PoolInv, StopInv
<1>5. CASE HearJoin(c)
  <2>1. PICK l \in {"events", "frames"} : Goto(c, l) /\ pc[c] = "frames"
    BY <1>5 DEF HearJoin, AfterFrame
  <2> QED BY <1>5, <1>0, <2>1, WorkerMoves
             DEF HearJoin, WorkerPcs, PoolInv, StopInv
<1>6. CASE NoPoolTask(c)
  BY <1>6, <1>0, WorkerMoves DEF NoPoolTask, WorkerPcs
<1>7. CASE LockPool(c)
  BY <1>7, LockPoolSafe
<1>8. CASE MoveLeaves(c)
  BY <1>8, MoveLeavesSafe
<1>9. CASE UnlockPool(c)
  BY <1>9, UnlockPoolSafe
<1>10. ASSUME NEW e \in local_q[c], TakeIn(c, e)
       PROVE  PoolInv'
  BY <1>10, TakeInSafe
<1>11. ASSUME NEW e \in local_q[c], LetGo(c, e)
       PROVE  PoolInv'
  BY <1>11, LetGoSafe
<1>12. CASE Broadcast(c)
  <2>1. PICK l \in {"pre", "dels"} : Goto(c, l)
    BY <1>12 DEF Broadcast, StartDeletion
  <2> QED BY <1>12, <1>0, <2>1, WorkerMoves DEF Broadcast, WorkerPcs
<1>13. ASSUME NEW fd \in FDs, ChannelDeletes(c, fd)
       PROVE  PoolInv'
  BY <1>13, LosesClient, WorkerMoves DEF ChannelDeletes, WorkerPcs
<1>14. CASE WorkerTick(c)
  BY <1>14, TickSafe DEF WorkerTick
<1> QED BY <1>1, <1>2, <1>3, <1>4, <1>5, <1>6, <1>7, <1>8, <1>9, <1>10, <1>11,
           <1>12, <1>13, <1>14 DEF Worker

-----------------------------------------------------------------------------

\* The main thread goes on and alters nothing that a room depends on.
LEMMA MainQuiet ==
    ASSUME TypeOK, PoolInv,
           NEW l \in LobbyPcs \ (Holding \cup {"register", "fresh"}), Goto(Lobby, l),
           l = "lookup" => tried' = {} \/ ~FromReport',
           UNCHANGED <<clients, interest, pool_mtx, join_pool, local_q, stop_flag>>
    PROVE  PoolInv'
<1>1. WatchInv'
  BY DEF PoolInv, WatchInv
<1> QED BY <1>1, MainMoves

\* PoolInv is kept when the lobby deletes one of its clients.
LEMMA LobbyDeletesSafe ==
    ASSUME TypeOK, PoolInv, NEW fd \in FDs, LobbyDeletes(fd)
    PROVE  PoolInv'
<1>1. PICK l \in {"unname", "pre", "dels"} : Goto(Lobby, l)
  BY DEF LobbyDeletes, StartDeletion
<1>2. WatchInv' /\ \A c \in Channels : clients'[c] = clients[c]
  <2>1. CASE CanDelete(Lobby, fd)
    BY <2>1, SocketsAssumption
       DEF LobbyDeletes, delete_client, PoolInv, WatchInv, SocketsTypeOK,
           TrackerTypeOK
  <2>2. CASE ~CanDelete(Lobby, fd)
    BY <2>2 DEF LobbyDeletes, delete_client, PoolInv, WatchInv
  <2> QED BY <2>1, <2>2
<1> QED BY <1>1, <1>2, MainMoves DEF LobbyDeletes, LobbyPcs, Holding

\* PoolInv is kept when the lobby lets go of a client it has handed over.
LEMMA DetachSafe ==
    ASSUME TypeOK, PoolInv, Detach
    PROVE  PoolInv'
<1>1. PICK l \in {"events", "frames"} : Goto(Lobby, l)
  BY DEF Detach, AfterFrame
<1>2. WatchInv' /\ \A c \in Channels : clients'[c] = clients[c]
  BY SocketsAssumption
     DEF Detach, delete_client, PoolInv, WatchInv, SocketsTypeOK, TrackerTypeOK
<1>3. \A c \in Channels : pool_mtx'[c] = "worker" <=> pool_mtx[c] = "worker"
  BY DEF Detach, Release, PoolInv, LockInv, Holding, ChannelTypeOK
<1> QED BY <1>1, <1>2, <1>3, MainMoves DEF Detach, LobbyPcs, Holding

\* PoolInv is kept when the lobby accepts a connection.
LEMMA LobbyAcceptsSafe ==
    ASSUME TypeOK, PoolInv, NEW x \in Conns, NEW fd \in FDs, LobbyAccepts(x,
           fd)
    PROVE  PoolInv'
<1>1. WatchInv' /\ \A c \in Channels : clients'[c] = clients[c]
  BY SocketsAssumption
     DEF LobbyAccepts, add_client, PoolInv, WatchInv, SocketsTypeOK,
         TrackerTypeOK
<1> QED BY <1>1, NobodyMoves DEF LobbyAccepts

\* PoolInv is kept when the lobby accepts a connection it has no room for.
LEMMA LobbyRefusesSafe ==
    ASSUME TypeOK, PoolInv, NEW x \in Conns, NEW fd \in FDs, LobbyRefuses(x,
           fd)
    PROVE  PoolInv'
<1>1. UNCHANGED <<clients, interest, channelVars, lobbyVars>> /\ WatchInv'
  BY DEF LobbyRefuses, PoolInv, WatchInv
<1>2. CASE UNCHANGED pc
  BY <1>1, <1>2, NobodyMoves
<1>3. CASE Goto(Lobby, "pre")
  BY <1>1, <1>3, MainQuiet DEF LobbyPcs, Holding
<1> QED BY <1>2, <1>3 DEF LobbyRefuses

\* PoolInv is kept when a transfer ends, with the target's lock released or left
\* behind.
LEMMA TransferEndsSafe ==
    ASSUME TypeOK, PoolInv,
           RefuseJoin \/ RefuseThrows \/ LeaveSource \/ DetachThrows
    PROVE  PoolInv'
<1>1. PICK l \in {"reports", "pre", "events"} : Goto(Lobby, l)
  BY DEF RefuseJoin, RefuseThrows, LeaveSource, DetachThrows
<1>2. UNCHANGED <<clients, interest, join_pool, local_q, stop_flag>> /\ WatchInv'
  BY DEF RefuseJoin, RefuseThrows, LeaveSource, DetachThrows, PoolInv, WatchInv
<1>3. \A c \in Channels : pool_mtx'[c] = "worker" <=> pool_mtx[c] = "worker"
  BY DEF RefuseJoin, RefuseThrows, LeaveSource, DetachThrows, Release,
         PoolInv, LockInv, Holding, ChannelTypeOK
<1> QED BY <1>1, <1>2, <1>3, MainMoves DEF LobbyPcs, Holding

\* PoolInv is kept by the steps of the main thread away from every room.
LEMMA MainAwaySafe ==
    ASSUME TypeOK, PoolInv,
           \/ PopReports \/ NextReport \/ LobbyPolls
           \/ IgnoreFrame \/ HearFirstJoin \/ CheckLobby \/ ChecksDone
    PROVE  PoolInv'
<1>1. CASE PopReports
  BY <1>1, MainQuiet DEF PopReports, LobbyPcs, Holding
<1>2. CASE NextReport
  BY <1>2, MainQuiet DEF NextReport, LobbyPcs, Holding
<1>3. CASE LobbyPolls
  BY <1>3, MainQuiet DEF LobbyPolls, Poll, LobbyPcs, Holding
<1>4. CASE IgnoreFrame
  <2>1. PICK l \in {"events", "frames"} : Goto(Lobby, l)
    BY <1>4 DEF IgnoreFrame, AfterFrame
  <2> QED BY <1>4, <2>1, MainQuiet DEF IgnoreFrame, LobbyPcs, Holding
<1>5. CASE HearFirstJoin
  BY <1>5, MainQuiet DEF HearFirstJoin, LobbyPcs, Holding
<1>6. CASE CheckLobby
  BY <1>6, MainQuiet DEF CheckLobby, LobbyPcs, Holding
<1>7. CASE ChecksDone
  <2>1. PICK l \in {"pre", "dels"} : Goto(Lobby, l)
    BY <1>7 DEF ChecksDone, StartDeletion
  <2> QED BY <1>7, <2>1, MainQuiet DEF ChecksDone, LobbyPcs, Holding
<1> QED BY <1>1, <1>2, <1>3, <1>4, <1>5, <1>6, <1>7

\* PoolInv is kept by every step of the main thread.
LEMMA MainSafe ==
    ASSUME TypeOK, PoolInv, Main
    PROVE  PoolInv'
<1>1. CASE PopReports \/ NextReport \/ LobbyPolls
           \/ IgnoreFrame \/ HearFirstJoin \/ CheckLobby \/ ChecksDone
  BY <1>1, MainAwaySafe
<1>2. CASE \E c \in Channels : Create(c) \/ Register(c) \/ DestroyChannel(c)
  BY <1>2, CreateSafe, RegisterSafe, DestroySafe
<1>3. CASE LockTarget \/ TryNext \/ LockFresh \/ JoinNameless \/ JoinRestarts
  BY <1>3, LockTargetSafe, TryNextSafe, LockFreshSafe, JoinNamelessSafe,
     JoinRestartsSafe
<1>4. CASE RefuseJoin \/ RefuseThrows \/ LeaveSource \/ DetachThrows
  BY <1>4, TransferEndsSafe
<1>5. CASE JoinRunning
  <2>1. PICK l \in {"leave", "detach"} : Goto(Lobby, l)
    BY <1>5 DEF JoinRunning, AfterJoin
  <2> QED BY <1>5, <2>1, JoinSafe DEF JoinRunning
<1>6. CASE JoinRestarted
  <2>1. PICK l \in {"leave", "detach"} : Goto(Lobby, l)
    BY <1>6 DEF JoinRestarted, AfterJoin
  <2>2. ~stop_flag'[job.to]
    BY <1>6 DEF JoinRestarted, ChannelTypeOK, LobbyTypeOK, AtTransfer, Holding
  <2>3. \A c \in Channels \ {job.to} : stop_flag'[c] = stop_flag[c]
    BY <1>6 DEF JoinRestarted, ChannelTypeOK
  <2>4. pc[Lobby] = "restarted" /\ join(job.to, job.fd, job.who)
    BY <1>6 DEF JoinRestarted
  <2>5. UNCHANGED <<clients, interest, pool_mtx, local_q, job, tried>>
    BY <1>6 DEF JoinRestarted
  <2> QED BY <2>1, <2>2, <2>3, <2>4, <2>5, JoinSafe
<1>7. CASE Detach
  BY <1>7, DetachSafe
<1>8. CASE \E x \in Conns, fd \in FDs : LobbyAccepts(x, fd) \/ LobbyRefuses(x, fd)
  BY <1>8, LobbyAcceptsSafe, LobbyRefusesSafe
<1>9. CASE \E fd \in FDs : LobbyDeletes(fd)
  BY <1>9, LobbyDeletesSafe
<1>10. CASE LobbyTick
  BY <1>10, TickSafe DEF LobbyTick
<1> QED BY <1>1, <1>2, <1>3, <1>4, <1>5, <1>6, <1>7, <1>8, <1>9, <1>10 DEF Main

\* PoolInv is kept by every step of a client.
LEMMA UserSafe ==
    ASSUME TypeOK, PoolInv, NEW x \in Conns, User(x)
    PROVE  PoolInv'
<1>1. UNCHANGED <<clients, interest, tickVars, channelVars, lobbyVars>>
  BY DEF User, Connect, SendRequest, Hangup
<1>2. WatchInv'
  BY <1>1 DEF PoolInv, WatchInv
<1> QED BY <1>1, <1>2, NobodyMoves

\* PoolInv holds at the start, when there is no channel.
LEMMA InitSafe ==
    ASSUME Init
    PROVE  PoolInv
<1>1. /\ \A c \in Channels :
             /\ pc[c] = "none" /\ clients[c] = {} /\ join_pool[c] = {}
             /\ ~stop_flag[c] /\ pool_mtx[c] = "free"
      /\ pc[Lobby] = "pre" /\ \A s \in Servers : interest[s] = {}
  BY SocketsAssumption
     DEF Init, SocketsInit, TrackerInit, TickInit, ChannelInit
<1>2. LockInv
  BY <1>1 DEF LockInv, Holding
<1>3. FreshInv
  BY <1>1 DEF FreshInv, Empty, Holding
<1>4. StopInv /\ WatchInv
  BY <1>1 DEF StopInv, WatchInv
<1>5. RoomInv
  <2>1. ASSUME NEW c \in Channels
        PROVE  IsFiniteSet(join_pool[c]) /\ Promised(c) <= ChMaxFd
    <3>1. Promised(c) = Cardinality({}) + Cardinality({}) + 0
      BY <1>1 DEF Promised, get_client_count
    <3> QED BY <1>1, <3>1, FS_EmptySet, TrackerAssumption
  <2> QED BY <1>1, <2>1 DEF RoomInv
<1> QED BY <1>2, <1>3, <1>4, <1>5 DEF PoolInv

\* PoolInv is kept by every step of the server and of its clients.
LEMMA NextSafe ==
    ASSUME TypeOK, PoolInv, [Next]_vars
    PROVE  PoolInv'
<1>1. CASE Main
  BY <1>1, MainSafe
<1>2. CASE \E c \in Channels : Worker(c)
  BY <1>2, WorkerSafe
<1>3. CASE \E x \in Conns : User(x)
  BY <1>3, UserSafe
<1>4. CASE UNCHANGED vars
  <2>1. UNCHANGED <<clients, interest, tickVars, channelVars, lobbyVars>>
    BY <1>4 DEF vars
  <2>2. WatchInv'
    BY <2>1 DEF PoolInv, WatchInv
  <2> QED BY <2>1, <2>2, NobodyMoves
<1> QED BY <1>1, <1>2, <1>3, <1>4 DEF Next

\* PoolInv is an invariant: what the main thread and the workers know of a room
\* under its lock stays true until they use it.
THEOREM PoolInvHolds == Spec => []PoolInv
<1>1. Spec => []TypeOK
  BY TypesHold
<1>2. Init => PoolInv
  BY InitSafe
<1>3. TypeOK /\ PoolInv /\ [Next]_vars => PoolInv'
  BY NextSafe
<1> QED BY <1>1, <1>2, <1>3, PTL DEF Spec

-----------------------------------------------------------------------------

\* A channel never has and promises more than max_fd places (channel.cpp:74, 116):
\* Capacity is part of RoomInv.
THEOREM CapacityHolds == Spec => []Capacity
<1>1. PoolInv => Capacity
  BY DEF PoolInv, RoomInv, Capacity
<1> QED BY <1>1, PoolInvHolds, PTL

\* A stopped channel has no client and promises no place (channel.cpp:35, 140):
\* StoppedIsEmpty is part of StopInv.
THEOREM StoppedIsEmptyHolds == Spec => []StoppedIsEmpty
<1>1. PoolInv => StoppedIsEmpty
  BY DEF PoolInv, StopInv, StoppedIsEmpty
<1> QED BY <1>1, PoolInvHolds, PTL

-----------------------------------------------------------------------------

\* The main thread leaves alone what the workers have moved out.
LEMMA MainKeepsLocal ==
    ASSUME Main
    PROVE  UNCHANGED local_q
<1>1. CASE PopReports \/ NextReport \/ LobbyPolls \/ IgnoreFrame \/ HearFirstJoin
  BY <1>1 DEF PopReports, NextReport, LobbyPolls, IgnoreFrame, HearFirstJoin
<1>2. CASE CheckLobby \/ ChecksDone \/ LobbyTick \/ \E fd \in FDs : LobbyDeletes(fd)
  BY <1>2 DEF CheckLobby, ChecksDone, LobbyTick, LobbyDeletes
<1>3. CASE \E c \in Channels : Create(c) \/ Register(c) \/ DestroyChannel(c)
  BY <1>3 DEF Create, Register, DestroyChannel
<1>4. CASE LockTarget \/ TryNext \/ LockFresh \/ RefuseJoin \/ RefuseThrows
  BY <1>4 DEF LockTarget, TryNext, LockFresh, RefuseJoin, RefuseThrows
<1>5. CASE JoinNameless \/ JoinRunning \/ JoinRestarts \/ JoinRestarted
  BY <1>5 DEF JoinNameless, JoinRunning, JoinRestarts, JoinRestarted
<1>6. CASE LeaveSource \/ Detach \/ DetachThrows
  BY <1>6 DEF LeaveSource, Detach, DetachThrows
<1>7. CASE \E x \in Conns, fd \in FDs : LobbyAccepts(x, fd) \/ LobbyRefuses(x, fd)
  BY <1>7 DEF LobbyAccepts, LobbyRefuses
<1> QED BY <1>1, <1>2, <1>3, <1>4, <1>5, <1>6, <1>7 DEF Main

\* A worker in the first loop of resolve_pool handles one entry at a time.
LEMMA OnlyTakeIn ==
    ASSUME TypeOK, NEW c \in Channels, NEW d \in Channels, Worker(d),
           pc[c] = "joins", local_q[c] # {}, local_q'[c] # local_q[c]
    PROVE  \E e \in local_q[c] : TakeIn(c, e)
<1>1. ASSUME UNCHANGED local_q
      PROVE  FALSE
  BY <1>1
<1>2. CASE WorkerExits(d) \/ WorkerPolls(d) \/ HearMessage(d) \/ HearJoin(d)
  BY <1>1, <1>2 DEF WorkerExits, WorkerPolls, HearMessage, HearJoin
<1>3. CASE NoPoolTask(d) \/ UnlockPool(d) \/ Broadcast(d) \/ WorkerTick(d)
  BY <1>1, <1>3 DEF NoPoolTask, UnlockPool, Broadcast, WorkerTick
<1>4. CASE \/ \E x \in Conns, fd \in FDs : ChannelAccepts(d, x, fd)
           \/ \E fd \in FDs : ChannelDeletes(d, fd)
  BY <1>1, <1>4 DEF ChannelAccepts, ChannelDeletes
<1>5. CASE LockPool(d)
  BY <1>5 DEF LockPool, ChannelTypeOK
<1>6. CASE MoveLeaves(d)
  BY <1>6 DEF MoveLeaves, MovingLeaves, ChannelTypeOK
<1>7. CASE \E e \in local_q[d] : LetGo(d, e)
  BY <1>7 DEF LetGo, ChannelTypeOK
<1>8. CASE \E e \in local_q[d] : TakeIn(d, e)
  <2>1. PICK e \in local_q[d] : TakeIn(d, e)
    BY <1>8
  <2>2. local_q' = [local_q EXCEPT ![d] = local_q[d] \ {e}]
    BY <2>1 DEF TakeIn
  <2>3. c = d
    <3>1. local_q \in [Channels -> SUBSET PoolEntries]
      BY DEF TypeOK, ChannelTypeOK
    <3> QED BY <2>2, <3>1
  <2> QED BY <2>1, <2>3
<1> QED BY <1>2, <1>3, <1>4, <1>5, <1>6, <1>7, <1>8 DEF Worker

\* In the first loop of resolve_pool there is room for every entry.
LEMMA TakeInHasRoom ==
    ASSUME TypeOK, PoolInv, NEW c \in Channels, NEW e \in local_q[c],
           pc[c] = "joins"
    PROVE  ~PoolFull(c)
<1>1. IsFiniteSet(local_q[c])
  BY DEF PoolInv, RoomInv
<1>2. Cardinality(local_q[c]) \in Nat /\ Cardinality(local_q[c]) # 0
  BY <1>1, FS_CardinalityType, FS_EmptySet
<1>3. /\ Promised(c) <= ChMaxFd /\ get_client_count(c) \in Nat
      /\ Cardinality(join_pool[c]) \in Nat
  BY PromisedNat DEF PoolInv, RoomInv
<1>4. get_client_count(c) < ChMaxFd
  BY <1>2, <1>3, TrackerAssumption DEF Promised
<1> QED BY <1>4, SocketsAssumption, <1>3, TrackerAssumption
           DEF PoolFull, get_max_fd

\* Whoever ping_pool admitted finds room in resolve_pool (channel.cpp:122): as
\* long as the entry is in local_q its place is promised, so the channel is not
\* full.
THEOREM AdmittedIsTakenHolds == Spec => AdmittedIsTaken
<1>1. ASSUME TypeOK, PoolInv, Next
      PROVE  TakesAdmitted
  <2> SUFFICES ASSUME NEW c \in Channels, NEW e \in local_q[c],
                      pc[c] = "joins", e \notin local_q'[c],
                      Open(e.fd), e.fd \notin interest[c]
               PROVE  e.fd \in clients'[c]
    BY DEF TakesAdmitted
  <2>1. ~Main /\ \A x \in Conns : ~User(x)
    BY MainKeepsLocal DEF User
  <2>2. PICK d \in Channels : Worker(d)
    BY <1>1, <2>1 DEF Next
  <2>3. PICK f \in local_q[c] : TakeIn(c, f)
    BY <1>1, <2>2, OnlyTakeIn
  <2>4. e = f
    BY <1>1, <2>3 DEF TakeIn, ChannelTypeOK
  <2>5. add_client(c, e.fd)
    BY <1>1, <2>3, <2>4, TakeInHasRoom DEF TakeIn, CanAdd
  <2> QED BY <1>1, <2>5 DEF add_client, TrackerTypeOK
<1>2. TypeOK /\ PoolInv /\ [Next]_vars => [TakesAdmitted]_vars
  BY <1>1
<1> QED BY <1>2, TypesHold, PoolInvHolds, PTL DEF Spec, AdmittedIsTaken

-----------------------------------------------------------------------------

\* Only check_channels makes a channel disappear.
LEMMA OnlyDestroy ==
    ASSUME TypeOK, Next, NEW c \in Channels, pc[c] # "none", pc'[c] = "none"
    PROVE  DestroyChannel(c)
<1>0. pc \in [Servers -> LobbyPcs \cup WorkerPcs] /\ c # Lobby
  BY SocketsAssumption DEF TickTypeOK
<1>1. ASSUME UNCHANGED pc \/ \E l : Goto(Lobby, l)
      PROVE  FALSE
  BY <1>0, <1>1 DEF Goto
<1>2. ASSUME NEW d \in Channels, NEW l, l # "none", Goto(d, l)
      PROVE  FALSE
  BY <1>0, <1>2 DEF Goto
<1>3. CASE PopReports \/ NextReport \/ LobbyPolls \/ IgnoreFrame \/ HearFirstJoin
  BY <1>1, <1>3
     DEF PopReports, NextReport, LobbyPolls, Poll, IgnoreFrame, HearFirstJoin
<1>4. CASE CheckLobby \/ ChecksDone \/ \E fd \in FDs : LobbyDeletes(fd)
  BY <1>1, <1>4 DEF CheckLobby, ChecksDone, LobbyDeletes, StartDeletion
<1>5. CASE \E d \in Channels : Create(d)
  BY <1>0, <1>5 DEF Create
<1>6. CASE \E d \in Channels : Register(d)
  BY <1>1, <1>6 DEF Register
<1>7. CASE \E d \in Channels : DestroyChannel(d)
  BY <1>0, <1>7 DEF DestroyChannel, Goto
<1>8. CASE LockTarget \/ TryNext \/ LockFresh \/ RefuseJoin \/ RefuseThrows
  BY <1>1, <1>8 DEF LockTarget, TryNext, LockFresh, RefuseJoin, RefuseThrows
<1>9. CASE JoinNameless \/ JoinRunning \/ JoinRestarted
  BY <1>1, <1>9 DEF JoinNameless, JoinRunning, JoinRestarted
<1>10. CASE JoinRestarts
  BY <1>0, <1>10 DEF JoinRestarts
<1>11. CASE LeaveSource \/ Detach \/ DetachThrows
  BY <1>1, <1>11 DEF LeaveSource, Detach, DetachThrows
<1>12. CASE \E x \in Conns, fd \in FDs : LobbyAccepts(x, fd) \/ LobbyRefuses(x, fd)
  BY <1>1, <1>12 DEF LobbyAccepts, LobbyRefuses
<1>13. ASSUME NEW s \in Servers,
              \/ \E fd \in FDs :
                     EventEnds(s, fd) \/ EventEmpty(s, fd) \/ EventReceives(s, fd)
              \/ EventAcceptFails(s)
              \/ RemoveUserName(s)
              \/ CloseClient(s)
       PROVE  FALSE
  <2>1. UNCHANGED pc \/ \E l \in {"frames", "close", "pre", "dels"} : Goto(s, l)
    BY <1>13 DEF EventEnds, EventEmpty, EventReceives, EventAcceptFails,
                 RemoveUserName, CloseClient
  <2> QED BY <1>1, <1>2, <2>1
<1>14. CASE LobbyTick
  BY <1>13, <1>14 DEF LobbyTick
<1>15. CASE Main
  BY <1>3, <1>4, <1>5, <1>6, <1>7, <1>8, <1>9, <1>10, <1>11, <1>12, <1>14,
     <1>15
     DEF Main
<1>16. ASSUME NEW d \in Channels, Worker(d)
       PROVE  FALSE
  <2>1. CASE WorkerExits(d) \/ WorkerPolls(d) \/ HearMessage(d) \/ HearJoin(d)
    BY <1>2, <2>1
       DEF WorkerExits, WorkerPolls, Poll, HearMessage, HearJoin, AfterFrame
  <2>2. CASE NoPoolTask(d) \/ LockPool(d) \/ MoveLeaves(d) \/ UnlockPool(d)
    BY <1>2, <2>2 DEF NoPoolTask, LockPool, MoveLeaves, UnlockPool
  <2>3. CASE \E e \in local_q[d] : TakeIn(d, e) \/ LetGo(d, e)
    BY <1>1, <2>3 DEF TakeIn, LetGo
  <2>4. CASE Broadcast(d) \/ \E fd \in FDs : ChannelDeletes(d, fd)
    BY <1>2, <2>4 DEF Broadcast, StartDeletion, ChannelDeletes
  <2>5. CASE \E x \in Conns, fd \in FDs : ChannelAccepts(d, x, fd)
    BY <1>1, <2>5 DEF ChannelAccepts
  <2>6. CASE WorkerTick(d)
    BY <1>13, <2>6 DEF WorkerTick
  <2> QED BY <1>16, <2>1, <2>2, <2>3, <2>4, <2>5, <2>6 DEF Worker
<1>17. CASE \E x \in Conns : User(x)
  BY <1>1, <1>17 DEF User
<1> QED BY <1>15, <1>16, <1>17 DEF Next

\* check_channels deletes only channels that have nobody and watch nobody
\* (channel_server.cpp:208): stop_flag is still set then, and StopInv applies.
THEOREM DestroyedIsEmptyHolds == Spec => DestroyedIsEmpty
<1>1. ASSUME TypeOK, PoolInv, Next
      PROVE  DestroysEmpty
  <2> SUFFICES ASSUME NEW c \in Channels, c \in channels, pc'[c] = "none"
               PROVE  clients[c] = {} /\ interest[c] = {} /\ join_pool[c] = {}
    BY DEF DestroysEmpty
  <2>1. stop_flag[c]
    BY <1>1, OnlyDestroy DEF DestroyChannel, Expired, channels
  <2> QED BY <1>1, <2>1 DEF PoolInv, StopInv, WatchInv
<1>2. TypeOK /\ PoolInv /\ [Next]_vars => [DestroysEmpty]_vars
  BY <1>1
<1> QED BY <1>2, TypesHold, PoolInvHolds, PTL DEF Spec, DestroyedIsEmpty

=============================================================================

----------------------------- MODULE ChannelServer -----------------------------
(***************************************************************************)
(* ChannelServer (src/server/channel_server.cpp): the lobby, which accepts *)
(* connections, hands each one over to a channel at its first join, moves  *)
(* it from channel to channel as the channels report, times out who does   *)
(* not join, and creates and destroys channels.  It runs on the main       *)
(* thread.  This module composes it with the channels' workers and the     *)
(* clients; Spec is the whole server.                                      *)
(*                                                                         *)
(* Further places of the main thread (see ServerBase): "reports" between   *)
(* two reports of consume_report, "lookup" in get_channel and about to     *)
(* lock the target's pool, "register" in the constructor of a channel,     *)
(* "fresh" with a channel made because the others are full, "full" holding *)
(* the lock of a target with no room, "join", "restarted", "leave" and     *)
(* "detach" holding the lock of a target with room, "channels" in          *)
(* check_channels.                                                         *)
(***************************************************************************)
EXTENDS Channel

VARIABLES
    last_act,   \* lobby clients under the 5 s limit
    batch,      \* reports consume_report has popped and not handled
    job,        \* the transfer at hand
    tried       \* channels find_or_create_channel has found full

jobVars == <<batch, job, tried>>
lobbyVars == <<last_act, jobVars>>
vars == <<sockVars, clients, name_map, tickVars, channelVars, clientVars,
          lobbyVars>>

NoJob == [fd |-> NoConn, who |-> NoName, from |-> NoChannel, to |-> NoChannel]

\* Where the main thread has a transfer at hand, and where it also holds the
\* pool of its target.
Holding   == {"full", "join", "restarted", "leave", "detach"}
AtTransfer == {"lookup", "register", "fresh"} \cup Holding

LobbyTypeOK ==
    /\ last_act \in SUBSET FDs
    /\ batch \in Seq(Reports)
    /\ tried \in SUBSET Channels
    /\ job \in [fd : FDs \cup {NoConn}, who : Conns \cup {NoName},
                from : Channels \cup {NoChannel}, to : Channels \cup {NoChannel}]
    /\ pc[Lobby] \in AtTransfer => job.fd \in FDs /\ job.to \in Channels
    /\ pc[Lobby] = "leave" => job.from \in Channels
    /\ pc[Lobby] = "restarted" => job.who \in Conns

TypeOK ==
    /\ SocketsTypeOK /\ TrackerTypeOK /\ UserTypeOK /\ TickTypeOK
    /\ ChannelTypeOK /\ ClientTypeOK /\ LobbyTypeOK

Init ==
    /\ SocketsInit /\ TrackerInit /\ UserInit /\ TickInit
    /\ ChannelInit /\ ClientInit
    /\ last_act = {} /\ tried = {}
    /\ batch = <<>>
    /\ job = NoJob

\* ChannelServer::channels
channels == {c \in Channels : pc[c] # "none"}

\* The transfer comes from a report, not from a first join in the lobby.
FromReport == job.from # NoChannel

-----------------------------------------------------------------------------
(* TS_PRE: consume_report.                                                 *)

PopReports ==
    /\ pc[Lobby] = "pre"
    /\ next_deletion' = [next_deletion EXCEPT ![Lobby] = {}]
    /\ batch' = reports
    /\ reports' = <<>>
    /\ Goto(Lobby, "reports")
    /\ UNCHANGED <<sockVars, clients, name_map, events, frames, doomed, cur,
                   poolVars, mq, clientVars, last_act, job, tried>>

NextReport ==
    /\ pc[Lobby] = "reports"
    /\ batch # <<>>
    /\ batch' = Tail(batch)
    /\ job' = [fd |-> Head(batch).fd, who |-> NoName,
               from |-> Head(batch).from, to |-> Head(batch).to]
    /\ tried' = {}
    /\ Goto(Lobby, "lookup")
    /\ UNCHANGED <<sockVars, clients, name_map, next_deletion, events, frames,
                   doomed, cur, channelVars, clientVars, last_act>>

LobbyPolls ==
    /\ pc[Lobby] = "reports"
    /\ batch = <<>>
    /\ Poll(Lobby)
    /\ UNCHANGED <<sockVars, clients, name_map, next_deletion, frames, doomed,
                   cur, channelVars, clientVars, lobbyVars>>

-----------------------------------------------------------------------------
(* get_channel, find_or_create_channel.                                    *)

Lacking == {job.from, job.to} \ (channels \cup {NoChannel})

\* new Channel: its epoll watches the listening socket too, which set_network
\* makes anew if it has been closed; the worker thread starts.
Create(c) ==
    /\ pc[Lobby] = "lookup"
    /\ c \in Lacking
    /\ c = job.to => job.from \notin Lacking
    /\ acceptors' = acceptors \cup {c}
    /\ pc' = [pc EXCEPT ![c] = "pre", ![Lobby] = "register"]
    /\ UNCHANGED <<sock, peer, rx, backlog, interest, clients, name_map,
                   next_deletion, events, frames, doomed, cur, channelVars,
                   clientVars, lobbyVars>>

\* The constructor's pushf waits for the mutex that the worker holds during a
\* run of its tasks.
Register(c) ==
    /\ pc[Lobby] = "register"
    /\ pc[c] = "pre"
    /\ ~has_task[c]
    /\ has_task' = [has_task EXCEPT ![c] = TRUE]
    /\ Goto(Lobby, IF tried = {} THEN "lookup" ELSE "fresh")
    /\ UNCHANGED <<sockVars, clients, name_map, next_deletion, events, frames,
                   doomed, cur, stop_flag, pool_mtx, join_pool, leave_pool,
                   local_q, mq, reports, clientVars, lobbyVars>>

Hold(c) ==
    /\ pool_mtx[c] = "free"
    /\ pool_mtx' = [pool_mtx EXCEPT ![c] = "main"]

\* wait_stop_pooling, and ping_pool finds room, or a report finds none.
LockTarget ==
    /\ pc[Lobby] = "lookup"
    /\ Lacking = {}
    /\ Hold(job.to)
    /\ \/ ping_pool(job.to) /\ Goto(Lobby, "join")
       \/ ~ping_pool(job.to) /\ FromReport /\ Goto(Lobby, "full")
    /\ UNCHANGED <<sockVars, clients, name_map, next_deletion, events, frames,
                   doomed, cur, has_task, stop_flag, join_pool, leave_pool,
                   local_q, mq, reports, clientVars, lobbyVars>>

\* The lowest id no channel has.
IsNewId(c) == /\ c \in Channels \ channels
              /\ \A d \in Channels : d < c => d \in channels

\* Where find_or_create_channel looks when it has found the channels full full.
\* The variant returns without making the new channel.
CandidatesOrNull(full) ==
    IF channels \ full # {} THEN channels \ full ELSE {NoChannel}
Candidates(full) ==
    IF channels \ full # {} THEN channels \ full ELSE {c \in Channels : IsNewId(c)}

\* find_or_create_channel locks a full channel, unlocks it, and goes on to one
\* it has not tried or, when there is none, to a new one.
TryNext ==
    /\ pc[Lobby] = "lookup"
    /\ Lacking = {}
    /\ ~FromReport
    /\ pool_mtx[job.to] = "free"
    /\ ~ping_pool(job.to)
    /\ tried' = tried \cup {job.to}
    /\ \E c \in Candidates(tried') : job' = [job EXCEPT !.to = c]
    /\ UNCHANGED <<sockVars, clients, name_map, tickVars, channelVars,
                   clientVars, last_act, batch>>

\* The channel made because no other had room is not pinged.
LockFresh ==
    /\ pc[Lobby] = "fresh"
    /\ Hold(job.to)
    /\ Goto(Lobby, "join")
    /\ UNCHANGED <<sockVars, clients, name_map, next_deletion, events, frames,
                   doomed, cur, has_task, stop_flag, join_pool, leave_pool,
                   local_q, mq, reports, clientVars, lobbyVars>>

-----------------------------------------------------------------------------
(* The transfer, under the target's pool_mtx.                              *)

\* start_pooling; the variant forgets it.
ReleaseForgotten == UNCHANGED pool_mtx
Release == pool_mtx' = [pool_mtx EXCEPT ![job.to] = "free"]

\* consume_report, no room: the error is sent and the report is done with ...
RefuseJoin ==
    /\ pc[Lobby] = "full"
    /\ ~SendFails(job.fd)
    /\ Release
    /\ Goto(Lobby, "reports")
    /\ job' = NoJob
    /\ UNCHANGED <<sockVars, clients, name_map, next_deletion, events, frames,
                   doomed, cur, has_task, stop_flag, join_pool, leave_pool,
                   local_q, mq, reports, clientVars, last_act, batch, tried>>

\* ... or the send fails: its exception ends the tick, the reports popped with
\* this one are lost and the lock is not released.
RefuseThrows ==
    /\ pc[Lobby] = "full"
    /\ SendMayFail(job.fd)
    /\ Goto(Lobby, "pre")
    /\ batch' = <<>>
    /\ job' = NoJob
    /\ UNCHANGED <<sockVars, clients, name_map, next_deletion, events, frames,
                   doomed, cur, channelVars, clientVars, last_act, tried>>

AfterJoin == IF FromReport THEN "leave" ELSE "detach"

\* join_and_logging: a descriptor without a name does not join ...
JoinNameless ==
    /\ pc[Lobby] = "join"
    /\ ~HasName(job.fd)
    /\ Goto(Lobby, AfterJoin)
    /\ UNCHANGED <<sockVars, clients, name_map, next_deletion, events, frames,
                   doomed, cur, channelVars, clientVars, lobbyVars>>

\* ... one with a name goes into the pool of a running channel ...
JoinRunning ==
    /\ pc[Lobby] = "join"
    /\ HasName(job.fd)
    /\ ~stop_flag[job.to]
    /\ join(job.to, job.fd, get_user_name(job.fd))
    /\ Goto(Lobby, AfterJoin)
    /\ UNCHANGED <<sockVars, clients, name_map, next_deletion, events, frames,
                   doomed, cur, has_task, stop_flag, pool_mtx, leave_pool,
                   local_q, mq, reports, clientVars, lobbyVars>>

\* ... and for a stopped one the old thread is awaited and a new one started,
\* which may look at stop_flag before it is cleared.
JoinRestarts ==
    /\ pc[Lobby] = "join"
    /\ HasName(job.fd)
    /\ stop_flag[job.to]
    /\ pc[job.to] = "dead"
    /\ pc' = [pc EXCEPT ![job.to] = "pre", ![Lobby] = "restarted"]
    /\ job' = [job EXCEPT !.who = get_user_name(job.fd)]
    /\ UNCHANGED <<sockVars, clients, name_map, next_deletion, events, frames,
                   doomed, cur, channelVars, clientVars, last_act, batch,
                   tried>>

JoinRestarted ==
    /\ pc[Lobby] = "restarted"
    /\ stop_flag' = [stop_flag EXCEPT ![job.to] = FALSE]
    /\ join(job.to, job.fd, job.who)
    /\ Goto(Lobby, AfterJoin)
    /\ UNCHANGED <<sockVars, clients, name_map, next_deletion, events, frames,
                   doomed, cur, has_task, pool_mtx, leave_pool, local_q, mq,
                   reports, clientVars, lobbyVars>>

\* leave_and_logging on the channel that reported, and start_pooling of the
\* target.  Neither pool_mtx of the former nor its TaskRunner is held: an
\* emplace that races with the worker's move may be lost, an insert that races
\* with the worker's deletion loop may be seen by it or not.
LeaveSource ==
    /\ pc[Lobby] = "leave"
    /\ IF HasName(job.fd)
       THEN /\ \/ leave(job.from, job.fd, get_user_name(job.fd))
               \/ MovingLeaves(job.from) /\ UNCHANGED leave_pool
            /\ UNCHANGED <<next_deletion, doomed>>
       ELSE /\ Condemn(job.from, {job.fd})
            /\ \E seen \in SUBSET ({job.fd} \ next_deletion[job.from]) :
                   /\ seen # {} => pc[job.from] \in {"dels", "unname", "close"}
                   /\ doomed' = [doomed EXCEPT ![job.from] = @ \cup seen]
            /\ UNCHANGED leave_pool
    /\ Release
    /\ Goto(Lobby, "reports")
    /\ job' = NoJob
    /\ UNCHANGED <<sockVars, clients, name_map, events, frames, cur, has_task,
                   stop_flag, join_pool, local_q, mq, reports, clientVars,
                   last_act, batch, tried>>

\* on_req in the lobby: the lobby lets go of the client ...
Detach ==
    /\ pc[Lobby] = "detach"
    /\ CanDelete(Lobby, job.fd)
    /\ delete_client(Lobby, job.fd)
    /\ last_act' = last_act \ {job.fd}
    /\ Release
    /\ Goto(Lobby, AfterFrame(Lobby, frames[Lobby]))
    /\ job' = NoJob
    /\ UNCHANGED <<sock, peer, rx, backlog, acceptors, name_map,
                   next_deletion, events, frames, doomed, cur, has_task,
                   stop_flag, join_pool, leave_pool, local_q, mq, reports,
                   clientVars, batch, tried>>

\* ... or delete_client throws, because an earlier join of the same batch has
\* let go of it: on_recv catches, the lock is not released.
DetachThrows ==
    /\ pc[Lobby] = "detach"
    /\ ~CanDelete(Lobby, job.fd)
    /\ Condemn(Lobby, {job.fd})
    /\ frames' = [frames EXCEPT ![Lobby] = <<>>]
    /\ job' = NoJob
    /\ Goto(Lobby, "events")
    /\ UNCHANGED <<sockVars, clients, name_map, events, doomed, cur,
                   channelVars, clientVars, last_act, batch, tried>>

-----------------------------------------------------------------------------
(* TS_POLL: the events of the lobby.                                       *)

\* accept and on_accept: the connection becomes a lobby client under a
\* temporary name and its 5 s begin.  If the backlog is empty accept blocks.
LobbyAccepts(x, fd) ==
    /\ pc[Lobby] = "events"
    /\ Handled(Lobby, Listener)
    /\ Accept(x, fd)
    /\ ~PoolFull(Lobby)
    /\ add_client(Lobby, fd)
    /\ set_user_name(fd, x)
    /\ last_act' = last_act \cup {fd}
    /\ UNCHANGED <<peer, rx, acceptors, pc, next_deletion, frames, doomed,
                   cur, channelVars, clientVars, jobVars>>

\* on_accept with a full lobby: the error is sent and the descriptor marked for
\* deletion, or the send throws, out of the whole tick.
LobbyRefuses(x, fd) ==
    /\ pc[Lobby] = "events"
    /\ Listener \in events[Lobby]
    /\ Accept(x, fd)
    /\ PoolFull(Lobby)
    /\ \/ /\ events' = [events EXCEPT ![Lobby] = @ \ {Listener}]
          /\ Condemn(Lobby, {fd})
          /\ UNCHANGED pc
       \/ /\ peer[x] = "gone"
          /\ events' = [events EXCEPT ![Lobby] = {}]
          /\ Goto(Lobby, "pre")
          /\ UNCHANGED next_deletion
    /\ UNCHANGED <<peer, rx, interest, acceptors, clients, name_map, frames,
                   doomed, cur, channelVars, clientVars, lobbyVars>>

\* on_req ignores a message, and a join without a name is malformed.
IgnoreFrame ==
    /\ pc[Lobby] = "frames"
    /\ Frame(Lobby).req.type # "join"
    /\ TakeFrame(Lobby)
    /\ Goto(Lobby, AfterFrame(Lobby, Tail(frames[Lobby])))
    /\ UNCHANGED <<sockVars, clients, name_map, next_deletion, events, doomed,
                   cur, channelVars, clientVars, lobbyVars>>

\* on_req, a join, up to the look for a channel.
HearFirstJoin ==
    /\ pc[Lobby] = "frames"
    /\ LET f == Frame(Lobby)
       IN  /\ f.req.type = "join"
           /\ set_user_name(f.fd, f.who)
           /\ job' = [fd |-> f.fd, who |-> f.who, from |-> NoChannel,
                      to |-> f.req.ch]
    /\ TakeFrame(Lobby)
    /\ tried' = {}
    /\ Goto(Lobby, "lookup")
    /\ UNCHANGED <<sockVars, clients, next_deletion, events, doomed, cur,
                   channelVars, clientVars, last_act, batch>>

-----------------------------------------------------------------------------
(* TS_LOGIC: the task throttled to once a second, resolve_deletion.        *)

\* check_lobby: any of the lobby's clients may have been there for 5 s; none,
\* if the second is not over.
CheckLobby ==
    /\ pc[Lobby] = "events"
    /\ events[Lobby] = {}
    /\ \E late \in SUBSET last_act :
           /\ Condemn(Lobby, late)
           /\ last_act' = last_act \ late
    /\ Goto(Lobby, "channels")
    /\ UNCHANGED <<sockVars, clients, name_map, events, frames, doomed, cur,
                   channelVars, clientVars, jobVars>>

\* The channel has stopped, and its worker ended, long enough ago.  The variant
\* asks only for the end of the worker.
ExpiredNoFlag(c) == pc[c] = "dead"
Expired(c) == stop_flag[c] /\ pc[c] = "dead"

\* check_channels: a channel stopped for 5 minutes is deleted.  Its destructor
\* waits for the worker, then that of ServerBase closes the listening socket
\* of all servers.
DestroyChannel(c) ==
    /\ pc[Lobby] = "channels"
    /\ Expired(c)
    /\ CloseListener
    /\ Goto(c, "none")
    /\ interest' = [interest EXCEPT ![c] = {}]
    /\ clients' = [clients EXCEPT ![c] = {}]
    /\ next_deletion' = [next_deletion EXCEPT ![c] = {}]
    /\ has_task' = [has_task EXCEPT ![c] = FALSE]
    /\ stop_flag' = [stop_flag EXCEPT ![c] = FALSE]
    /\ pool_mtx' = [pool_mtx EXCEPT ![c] = "free"]
    /\ join_pool' = [join_pool EXCEPT ![c] = {}]
    /\ leave_pool' = [leave_pool EXCEPT ![c] = {}]
    /\ mq' = [mq EXCEPT ![c] = {}]
    /\ UNCHANGED <<sock, name_map, events, frames, doomed, cur, local_q,
                   reports, clientVars, lobbyVars>>

ChecksDone ==
    /\ pc[Lobby] = "channels"
    /\ StartDeletion(Lobby, next_deletion[Lobby])
    /\ UNCHANGED <<sockVars, clients, name_map, next_deletion, events, frames,
                   cur, channelVars, clientVars, lobbyVars>>

\* resolve_deletion: if delete_client throws, nothing else is done for fd.
LobbyDeletes(fd) ==
    /\ pc[Lobby] = "dels"
    /\ fd \in doomed[Lobby]
    /\ delete_client(Lobby, fd)
    /\ IF CanDelete(Lobby, fd)
       THEN /\ cur' = [cur EXCEPT ![Lobby] = {fd}]
            /\ doomed' = [doomed EXCEPT ![Lobby] = @ \ {fd}]
            /\ Goto(Lobby, "unname")
       ELSE /\ StartDeletion(Lobby, doomed[Lobby] \ {fd})
            /\ UNCHANGED cur
    /\ UNCHANGED <<sock, peer, rx, backlog, acceptors, name_map,
                   next_deletion, events, frames, channelVars, clientVars,
                   lobbyVars>>

-----------------------------------------------------------------------------
\* What the main thread shares with every server.
LobbyTick ==
    /\ \/ \E fd \in FDs : \/ EventEnds(Lobby, fd)
                          \/ EventEmpty(Lobby, fd)
                          \/ EventReceives(Lobby, fd)
       \/ EventAcceptFails(Lobby)
       \/ RemoveUserName(Lobby)
       \/ CloseClient(Lobby)
    /\ UNCHANGED <<channelVars, clientVars, lobbyVars>>

Main ==
    \/ PopReports \/ NextReport \/ LobbyPolls
    \/ \E c \in Channels : Create(c) \/ Register(c) \/ DestroyChannel(c)
    \/ LockTarget \/ TryNext \/ LockFresh
    \/ RefuseJoin \/ RefuseThrows
    \/ JoinNameless \/ JoinRunning \/ JoinRestarts \/ JoinRestarted
    \/ LeaveSource \/ Detach \/ DetachThrows
    \/ \E x \in Conns, fd \in FDs : LobbyAccepts(x, fd) \/ LobbyRefuses(x, fd)
    \/ \E fd \in FDs : LobbyDeletes(fd)
    \/ IgnoreFrame \/ HearFirstJoin \/ CheckLobby \/ ChecksDone
    \/ LobbyTick

Worker(c) ==
    /\ \/ WorkerExits(c) \/ WorkerPolls(c)
       \/ \E x \in Conns, fd \in FDs : ChannelAccepts(c, x, fd)
       \/ \E fd \in FDs : ChannelDeletes(c, fd)
       \/ HearMessage(c) \/ HearJoin(c)
       \/ NoPoolTask(c) \/ LockPool(c) \/ MoveLeaves(c) \/ UnlockPool(c)
       \/ \E e \in local_q[c] : TakeIn(c, e) \/ LetGo(c, e)
       \/ Broadcast(c)
       \/ WorkerTick(c)
    /\ UNCHANGED lobbyVars

User(x) ==
    /\ Connect(x) \/ SendRequest(x) \/ Hangup(x)
    /\ UNCHANGED <<clients, name_map, tickVars, channelVars, lobbyVars>>

Next == Main \/ (\E c \in Channels : Worker(c)) \/ (\E x \in Conns : User(x))

Spec == Init /\ [][Next]_vars
=============================================================================

-------------------------------- MODULE Channel --------------------------------
(***************************************************************************)
(* Channel (src/server/channel.cpp, with what it inherits from             *)
(* ChatServer): a chat room with a worker thread of its own.  The worker's *)
(* tick is: clear next_deletion and cur_msgs, poll, handle the events,     *)
(* resolve_pool (take in join_pool, let go leave_pool, stop when empty),   *)
(* broadcast, resolve_deletion.  join, leave and the functions around them *)
(* are called by the main thread: here they are operators, and the actions *)
(* of ChannelServer use them.                                              *)
(*                                                                         *)
(* Further places of a worker (see ServerBase): "none" no such channel,    *)
(* "joins" and "leaves" in resolve_pool, "cast" about to broadcast, "dead" *)
(* proc has returned.                                                      *)
(***************************************************************************)
EXTENDS ServerBase, ChatClient

VARIABLES
    has_task,   \* channel -> its constructor has registered resolve_pool
    stop_flag,  \* channel -> Channel::stop_flag; empty_since > 0 with it
    pool_mtx,   \* channel -> "free", or held by "main" or by the "worker"
    join_pool,  \* channel -> Channel::join_pool, its key fd unique
    leave_pool, \* channel -> Channel::leave_pool, its key fd unique
    local_q,    \* channel -> what resolve_pool has moved out and not handled
    mq,         \* channel -> notices queued for the next broadcast
    reports     \* ChannelServer::reports

poolVars == <<has_task, stop_flag, pool_mtx, join_pool, leave_pool, local_q>>
channelVars == <<poolVars, mq, reports>>

\* An entry of a pool: the descriptor and the name its announcement bears.
PoolEntries == [fd : FDs, who : Conns]
NoName      == NoConn
Notices     == [event : {"join", "leave", "message"}, who : Conns \cup {NoName}]
Reports     == [fd : FDs, from : Channels, to : Channels]

ChannelTypeOK ==
    /\ has_task \in [Channels -> BOOLEAN]
    /\ stop_flag \in [Channels -> BOOLEAN]
    /\ pool_mtx \in [Channels -> {"free", "main", "worker"}]
    /\ join_pool \in [Channels -> SUBSET PoolEntries]
    /\ leave_pool \in [Channels -> SUBSET PoolEntries]
    /\ local_q \in [Channels -> SUBSET PoolEntries]
    /\ mq \in [Channels -> SUBSET Notices]
    /\ reports \in Seq(Reports)

ChannelInit ==
    /\ has_task = [c \in Channels |-> FALSE]
    /\ stop_flag = [c \in Channels |-> FALSE]
    /\ pool_mtx = [c \in Channels |-> "free"]
    /\ join_pool = [c \in Channels |-> {}]
    /\ leave_pool = [c \in Channels |-> {}]
    /\ local_q = [c \in Channels |-> {}]
    /\ mq = [c \in Channels |-> {}]
    /\ reports = <<>>

-----------------------------------------------------------------------------
(* What the main thread calls.                                             *)

\* unordered_map::emplace: an entry that is there stays as it is.
Emplace(pool, fd, who) ==
    IF \E e \in pool : e.fd = fd THEN pool
    ELSE pool \cup {[fd |-> fd, who |-> who]}

\* The variant counts one place too many.
ping_pool_off_by_one(c) ==
    get_client_count(c) + Cardinality(join_pool[c]) <= get_max_fd(c)
ping_pool(c) == get_client_count(c) + Cardinality(join_pool[c]) < get_max_fd(c)

join(c, fd, who) ==
    join_pool' = [join_pool EXCEPT ![c] = Emplace(@, fd, who)]

leave(c, fd, who) ==
    leave_pool' = [leave_pool EXCEPT ![c] = Emplace(@, fd, who)]

\* The worker is about to move leave_pool out: an emplace of the main thread,
\* which does not hold pool_mtx, races with the move.
MovingLeaves(c) == pc[c] = "joins" /\ local_q[c] = {}

-----------------------------------------------------------------------------
(* The worker.                                                             *)

\* mq.push
Announce(c, event, who) ==
    mq' = [mq EXCEPT ![c] = @ \cup {[event |-> event, who |-> who]}]

\* proc: the loop condition fails and the thread ends.
WorkerExits(c) ==
    /\ pc[c] = "pre"
    /\ stop_flag[c]
    /\ Goto(c, "dead")
    /\ UNCHANGED <<sockVars, clients, name_map, next_deletion, events, frames,
                   doomed, cur, channelVars, clientVars>>

\* proc: another run begins; TS_PRE and the poll.  The variant does not look at
\* stop_flag.
WorkerPollsOn(c) ==
    /\ pc[c] = "pre"
    /\ next_deletion' = [next_deletion EXCEPT ![c] = {}]
    /\ Poll(c)
    /\ UNCHANGED <<sockVars, clients, name_map, frames, doomed, cur,
                   channelVars, clientVars>>
WorkerPolls(c) ==
    /\ pc[c] = "pre"
    /\ ~stop_flag[c]
    /\ next_deletion' = [next_deletion EXCEPT ![c] = {}]
    /\ Poll(c)
    /\ UNCHANGED <<sockVars, clients, name_map, frames, doomed, cur,
                   channelVars, clientVars>>

\* handle_events on the listening socket: accept, and on_accept does nothing.
\* If the backlog is empty accept blocks the worker.
ChannelAccepts(c, x, fd) ==
    /\ pc[c] = "events"
    /\ Handled(c, Listener)
    /\ Accept(x, fd)
    /\ UNCHANGED <<peer, rx, interest, acceptors, clients, name_map, pc,
                   next_deletion, frames, doomed, cur, channelVars,
                   clientVars>>

\* on_req, a message: it is queued if its sender has a name.
HearMessage(c) ==
    /\ pc[c] = "frames"
    /\ Frame(c).req.type = "message"
    /\ IF HasName(Frame(c).fd)
       THEN Announce(c, "message", get_user_name(Frame(c).fd))
       ELSE UNCHANGED mq
    /\ TakeFrame(c)
    /\ Goto(c, AfterFrame(c, Tail(frames[c])))
    /\ UNCHANGED <<sockVars, clients, name_map, next_deletion, events, doomed,
                   cur, poolVars, reports, clientVars>>

\* on_req, a join: it is reported to the ChannelServer unless it names this
\* channel, for which nothing happens.
HearJoin(c) ==
    /\ pc[c] = "frames"
    /\ LET f == Frame(c)
       IN  /\ f.req.type # "message"
           /\ IF f.req.ch = c
              THEN UNCHANGED reports
              ELSE reports' = Append(reports,
                                     [fd |-> f.fd, from |-> c, to |-> f.req.ch])
    /\ TakeFrame(c)
    /\ Goto(c, AfterFrame(c, Tail(frames[c])))
    /\ UNCHANGED <<sockVars, clients, name_map, next_deletion, events, doomed,
                   cur, poolVars, mq, clientVars>>

\* What std::move leaves of a pool; the variant copies the pool instead.
LeftByCopy(pool) == pool
LeftByMove(pool) == {}

\* resolve_pool takes the lock and moves join_pool out.
LockPool(c) ==
    /\ pc[c] = "events"
    /\ events[c] = {}
    /\ has_task[c]
    /\ pool_mtx[c] = "free"
    /\ pool_mtx' = [pool_mtx EXCEPT ![c] = "worker"]
    /\ local_q' = [local_q EXCEPT ![c] = join_pool[c]]
    /\ join_pool' = [join_pool EXCEPT ![c] = LeftByMove(@)]
    /\ Goto(c, "joins")
    /\ UNCHANGED <<sockVars, clients, name_map, next_deletion, events, frames,
                   doomed, cur, has_task, stop_flag, leave_pool, mq, reports,
                   clientVars>>

\* Until the constructor has registered it, resolve_pool is not in the tick.
NoPoolTask(c) ==
    /\ pc[c] = "events"
    /\ events[c] = {}
    /\ ~has_task[c]
    /\ Goto(c, "cast")
    /\ UNCHANGED <<sockVars, clients, name_map, next_deletion, events, frames,
                   doomed, cur, channelVars, clientVars>>

\* One turn of the first loop of resolve_pool: the client is taken in and its
\* join announced, or add_client throws and the entry is forgotten.
TakeIn(c, e) ==
    /\ pc[c] = "joins"
    /\ e \in local_q[c]
    /\ local_q' = [local_q EXCEPT ![c] = @ \ {e}]
    /\ IF CanAdd(c, e.fd)
       THEN add_client(c, e.fd) /\ Announce(c, "join", e.who)
       ELSE UNCHANGED <<interest, clients, mq>>
    /\ UNCHANGED <<sock, peer, rx, backlog, acceptors, name_map, tickVars,
                   has_task, stop_flag, pool_mtx, join_pool, leave_pool,
                   reports, clientVars>>

\* Between the loops leave_pool is moved out.
MoveLeaves(c) ==
    /\ MovingLeaves(c)
    /\ local_q' = [local_q EXCEPT ![c] = leave_pool[c]]
    /\ leave_pool' = [leave_pool EXCEPT ![c] = LeftByMove(@)]
    /\ Goto(c, "leaves")
    /\ UNCHANGED <<sockVars, clients, name_map, next_deletion, events, frames,
                   doomed, cur, has_task, stop_flag, pool_mtx, join_pool, mq,
                   reports, clientVars>>

\* One turn of the second loop: the client is let go and its leave announced,
\* or delete_client throws and the entry is forgotten.
LetGo(c, e) ==
    /\ pc[c] = "leaves"
    /\ e \in local_q[c]
    /\ local_q' = [local_q EXCEPT ![c] = @ \ {e}]
    /\ delete_client(c, e.fd)
    /\ IF CanDelete(c, e.fd) THEN Announce(c, "leave", e.who) ELSE UNCHANGED mq
    /\ UNCHANGED <<sock, peer, rx, backlog, acceptors, name_map, tickVars,
                   has_task, stop_flag, pool_mtx, join_pool, leave_pool,
                   reports, clientVars>>

\* Nobody is in the channel or about to be.  The variant forgets the clients.
IdleNoClients(c) == join_pool[c] = {}
Idle(c) == clients[c] = {} /\ join_pool[c] = {}

\* resolve_pool ends: an empty channel stops; the lock is released.
UnlockPool(c) ==
    /\ pc[c] = "leaves"
    /\ local_q[c] = {}
    /\ stop_flag' = [stop_flag EXCEPT ![c] = @ \/ Idle(c)]
    /\ pool_mtx' = [pool_mtx EXCEPT ![c] = "free"]
    /\ Goto(c, "cast")
    /\ UNCHANGED <<sockVars, clients, name_map, next_deletion, events, frames,
                   doomed, cur, has_task, join_pool, leave_pool, local_q, mq,
                   reports, clientVars>>

\* resolve_timestamps and resolve_broadcast: everything queued goes to every
\* client; those whose send fails, and they alone, are condemned.
Broadcast(c) ==
    /\ pc[c] = "cast"
    /\ \E failed \in SUBSET {fd \in clients[c] : SendMayFail(fd)} :
           /\ {fd \in clients[c] : SendFails(fd)} \subseteq failed
           /\ Condemn(c, failed)
           /\ StartDeletion(c, next_deletion[c] \cup failed)
           /\ Deliver(c, {n.who : n \in {m \in mq[c] : m.event = "join"}},
                         {sock[fd] : fd \in clients[c] \ failed})
    /\ mq' = [mq EXCEPT ![c] = {}]
    /\ UNCHANGED <<sockVars, clients, name_map, events, frames, cur, poolVars,
                   reports, asked>>

\* resolve_deletion: the leave is queued and delete_client called; when it
\* throws the loop goes on all the same.
ChannelDeletes(c, fd) ==
    /\ pc[c] = "dels"
    /\ fd \in doomed[c]
    /\ doomed' = [doomed EXCEPT ![c] = @ \ {fd}]
    /\ cur' = [cur EXCEPT ![c] = {fd}]
    /\ Announce(c, "leave", name_map[fd])
    /\ delete_client(c, fd)
    /\ Goto(c, "unname")
    /\ UNCHANGED <<sock, peer, rx, backlog, acceptors, name_map,
                   next_deletion, events, frames, poolVars, reports,
                   clientVars>>

\* What the worker shares with every server.
WorkerTick(c) ==
    /\ \/ \E fd \in FDs :
              EventEnds(c, fd) \/ EventEmpty(c, fd) \/ EventReceives(c, fd)
       \/ EventAcceptFails(c)
       \/ RemoveUserName(c)
       \/ CloseClient(c)
    /\ UNCHANGED <<channelVars, clientVars>>
=============================================================================

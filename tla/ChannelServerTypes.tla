------------------------- MODULE ChannelServerTypes -------------------------
(***************************************************************************)
(* TypeOK is an invariant of ChannelServer!Spec, for all values of the     *)
(* constants.  It is inductive as it stands: besides the types it says     *)
(* that a server in "frames" has a frame, that the main thread in the      *)
(* middle of a transfer has a descriptor and a target, that it is in       *)
(* "leave" only for a report, and that the name it carries through         *)
(* "restarted" is a name.                                                  *)
(***************************************************************************)
EXTENDS ChannelServer, SequenceTheorems, TLAPS

USE DEF Servers, NoChannel, TypeOK, sockVars, tickVars, channelVars, poolVars,
        clientVars, lobbyVars, jobVars

-----------------------------------------------------------------------------
(* Facts about the operators the actions are built from.                   *)

\* What the loop of on_recv takes is a frame with its parts.
LEMMA FrameTypes ==
    ASSUME TypeOK, NEW s \in Servers, pc[s] = "frames"
    PROVE  /\ Frame(s) \in Frames
           /\ Frame(s).fd \in FDs /\ Frame(s).who \in Conns
           /\ Frame(s).req \in Requests
           /\ Frame(s).req.type # "message" => Frame(s).req.ch \in Channels
           /\ Tail(frames[s]) \in Seq(Frames)
<1>1. frames[s] \in Seq(Frames) /\ frames[s] # <<>>
  BY DEF TickTypeOK
<1>2. Frame(s) \in Frames /\ Tail(frames[s]) \in Seq(Frames)
  BY <1>1 DEF Frame
<1>3. Frame(s).fd \in FDs /\ Frame(s).who \in Conns /\ Frame(s).req \in Requests
  BY <1>2 DEF Frames
<1>4. Frame(s).req.type # "message" => Frame(s).req.ch \in Channels
  BY <1>3 DEF Requests
<1> QED BY <1>2, <1>3, <1>4

\* A jump to a place that the thread of s has changes no other place.
LEMMA GotoTypes ==
    ASSUME TypeOK, NEW s \in Servers, NEW l, Goto(s, l),
           IF s = Lobby THEN l \in LobbyPcs ELSE l \in WorkerPcs
    PROVE  /\ pc' \in [Servers -> LobbyPcs \cup WorkerPcs]
           /\ pc'[Lobby] \in LobbyPcs
           /\ \A c \in Channels : pc'[c] \in WorkerPcs
           /\ pc'[s] = l
           /\ \A t \in Servers \ {s} : pc'[t] = pc[t]
BY SocketsAssumption DEF TickTypeOK, Goto

\* What consume_report takes up makes a transfer with a source.
LEMMA ReportTypes ==
    ASSUME TypeOK, NextReport
    PROVE  /\ job'.fd \in FDs /\ job'.from \in Channels /\ job'.to \in Channels
           /\ job' \in [fd : FDs, who : {NoName}, from : Channels, to : Channels]
           /\ batch' \in Seq(Reports)
<1>1. batch \in Seq(Reports) /\ batch # <<>>
  BY DEF LobbyTypeOK, NextReport
<1>2. Head(batch) \in Reports /\ Tail(batch) \in Seq(Reports)
  BY <1>1
<1> QED BY <1>2 DEF NextReport, Reports, NoName

\* An emplace keeps a pool a pool.
LEMMA EmplaceTypes ==
    \A pool \in SUBSET PoolEntries, fd \in FDs, who \in Conns :
        Emplace(pool, fd, who) \in SUBSET PoolEntries
BY DEF Emplace, PoolEntries

\* A step of on_recv from one frame to whatever comes after it.
LEMMA TakeFrameTypes ==
    ASSUME TypeOK, NEW s \in Servers, pc[s] = "frames", TakeFrame(s),
           NEW l \in {"events", "frames", "lookup"}, Goto(s, l),
           l = "lookup" => s = Lobby,
           l = "frames" => Tail(frames[s]) # <<>>,
           UNCHANGED <<next_deletion, events, doomed, cur>>
    PROVE  TickTypeOK'
<1>1. frames' \in [Servers -> Seq(Frames)]
  BY DEF TickTypeOK, TakeFrame
<1>2. \A t \in Servers : pc'[t] = "frames" => frames'[t] # <<>>
  BY DEF TickTypeOK, TakeFrame, Goto
<1>3. IF s = Lobby THEN l \in LobbyPcs ELSE l \in WorkerPcs
  BY DEF LobbyPcs, WorkerPcs
<1> QED BY <1>1, <1>2, <1>3, GotoTypes DEF TickTypeOK

\* delete_client keeps the interest list and the clients what they are.
LEMMA DeleteTypes ==
    ASSUME TypeOK, NEW s \in Servers, NEW fd \in FDs, delete_client(s, fd)
    PROVE  interest' \in [Servers -> SUBSET FDs] /\ TrackerTypeOK'
<1>1. CASE CanDelete(s, fd)
  <2>1. interest' \in [Servers -> SUBSET FDs]
    BY <1>1 DEF SocketsTypeOK, delete_client
  <2>2. TrackerTypeOK'
    BY <1>1 DEF TrackerTypeOK, delete_client
  <2> QED BY <2>1, <2>2
<1>2. CASE ~CanDelete(s, fd)
  BY <1>2 DEF SocketsTypeOK, TrackerTypeOK, delete_client
<1> QED BY <1>1, <1>2

-----------------------------------------------------------------------------
(* The steps that take more than one leaf.                                 *)

\* TypeOK is kept: consume_report pops the reports.
LEMMA PopReportsTypes ==
    ASSUME TypeOK, PopReports
    PROVE  TypeOK'
<1>1. SocketsTypeOK' /\ TrackerTypeOK' /\ UserTypeOK' /\ ClientTypeOK'
  BY DEF SocketsTypeOK, TrackerTypeOK, UserTypeOK, ClientTypeOK, PopReports
<1>2. TickTypeOK'
  BY SocketsAssumption DEF TickTypeOK, LobbyPcs, WorkerPcs, PopReports, Goto
<1>3. ChannelTypeOK'
  BY DEF ChannelTypeOK, PopReports
<1>4. LobbyTypeOK'
  BY DEF LobbyTypeOK, AtTransfer, Holding, ChannelTypeOK, PopReports, Goto
<1> QED BY <1>1, <1>2, <1>3, <1>4

\* TypeOK is kept: consume_report takes up a report.
LEMMA NextReportTypes ==
    ASSUME TypeOK, NextReport
    PROVE  TypeOK'
<1>1. LobbyTypeOK'
  BY ReportTypes DEF LobbyTypeOK, NextReport, Goto
<1>2. /\ SocketsTypeOK'
      /\ TrackerTypeOK'
      /\ UserTypeOK'
      /\ ChannelTypeOK'
      /\ ClientTypeOK'
  BY DEF SocketsTypeOK, TrackerTypeOK, UserTypeOK, ChannelTypeOK, ClientTypeOK,
         NextReport
<1>3. TickTypeOK'
  BY DEF TickTypeOK, LobbyPcs, WorkerPcs, NextReport, Goto
<1> QED BY <1>1, <1>2, <1>3

\* TypeOK is kept: check_channels deletes a channel.
LEMMA DestroyChannelTypes ==
    ASSUME TypeOK, NEW c \in Channels, DestroyChannel(c)
    PROVE  TypeOK'
<1>1. UserTypeOK' /\ ClientTypeOK'
  BY DEF UserTypeOK, ClientTypeOK, DestroyChannel
<1>2. SocketsTypeOK'
  BY DEF SocketsTypeOK, DestroyChannel, CloseListener, Expired
<1>3. TrackerTypeOK'
  BY DEF TrackerTypeOK, DestroyChannel, CloseListener, Expired
<1>4. TickTypeOK'
  BY DEF TickTypeOK, WorkerPcs, DestroyChannel, CloseListener, Expired, Goto
<1>5. ChannelTypeOK'
  BY DEF ChannelTypeOK, DestroyChannel, CloseListener, Expired
<1>6. LobbyTypeOK'
  BY DEF LobbyTypeOK, DestroyChannel, CloseListener, Expired, Goto
<1> QED BY <1>1, <1>2, <1>3, <1>4, <1>5, <1>6

\* TypeOK is kept: the target is locked.
LEMMA LockTargetTypes ==
    ASSUME TypeOK, LockTarget
    PROVE  TypeOK'
<1>1. PICK l \in {"join", "full"} : Goto(Lobby, l)
  BY DEF LockTarget
<1>2. TickTypeOK'
  BY <1>1 DEF TickTypeOK, LobbyPcs, WorkerPcs, Goto, LockTarget
<1>3. SocketsTypeOK' /\ TrackerTypeOK' /\ UserTypeOK' /\ ClientTypeOK'
  BY DEF SocketsTypeOK, TrackerTypeOK, UserTypeOK, ClientTypeOK, LockTarget
<1>4. ChannelTypeOK'
  BY DEF ChannelTypeOK, LockTarget, FromReport, Hold, Lacking, channels
<1>5. LobbyTypeOK'
  BY DEF LobbyTypeOK, AtTransfer, Holding, TickTypeOK, LockTarget, FromReport,
         Goto, Hold, Lacking, channels
<1> QED BY <1>2, <1>3, <1>4, <1>5

\* TypeOK is kept: find_or_create_channel goes on to another channel.
LEMMA TryNextTypes ==
    ASSUME TypeOK, TryNext
    PROVE  TypeOK'
<1>1. PICK c \in Candidates(tried') : job' = [job EXCEPT !.to = c]
  BY DEF TryNext
<1>2. c \in Channels
  BY <1>1 DEF Candidates, channels
<1>3. tried' \in SUBSET Channels
  BY DEF LobbyTypeOK, TryNext, AtTransfer
<1>4. /\ job' \in [fd : FDs \cup {NoConn}, who : Conns \cup {NoName},
                    from : Channels \cup {NoChannel},
                    to : Channels \cup {NoChannel}]
      /\ job'.fd = job.fd /\ job'.to = c
  BY <1>1, <1>2 DEF LobbyTypeOK
<1>5. LobbyTypeOK'
  BY <1>2, <1>3, <1>4 DEF LobbyTypeOK, TryNext
<1>6. /\ SocketsTypeOK'
      /\ TrackerTypeOK'
      /\ UserTypeOK'
      /\ TickTypeOK'
      /\ ChannelTypeOK'
      /\ ClientTypeOK'
  BY DEF SocketsTypeOK, TrackerTypeOK, UserTypeOK, TickTypeOK, ChannelTypeOK,
         ClientTypeOK, TryNext
<1> QED BY <1>5, <1>6

\* TypeOK is kept: the answer to a refused report throws.
LEMMA RefuseThrowsTypes ==
    ASSUME TypeOK, RefuseThrows
    PROVE  TypeOK'
<1>1. /\ SocketsTypeOK'
      /\ TrackerTypeOK'
      /\ UserTypeOK'
      /\ ChannelTypeOK'
      /\ ClientTypeOK'
  BY DEF SocketsTypeOK, TrackerTypeOK, UserTypeOK, ChannelTypeOK, ClientTypeOK,
         RefuseThrows
<1>2. TickTypeOK'
  BY DEF TickTypeOK, LobbyPcs, WorkerPcs, RefuseThrows, Goto, NoJob, Open
<1>3. LobbyTypeOK'
  BY DEF LobbyTypeOK, AtTransfer, Holding, TickTypeOK, RefuseThrows, Goto, NoJob,
         Open
<1> QED BY <1>1, <1>2, <1>3

\* TypeOK is kept: a join to a running channel.
LEMMA JoinRunningTypes ==
    ASSUME TypeOK, JoinRunning
    PROVE  TypeOK'
<1>1. job.fd \in FDs /\ job.to \in Channels /\ get_user_name(job.fd) \in Conns
  BY DEF LobbyTypeOK, UserTypeOK, JoinRunning, HasName, get_user_name,
         AtTransfer, Holding
<1>2. join_pool' \in [Channels -> SUBSET PoolEntries]
  BY <1>1, EmplaceTypes DEF ChannelTypeOK, JoinRunning, join
<1>3. ChannelTypeOK'
  BY <1>2 DEF ChannelTypeOK, JoinRunning
<1>4. SocketsTypeOK' /\ TrackerTypeOK' /\ UserTypeOK' /\ ClientTypeOK'
  BY DEF SocketsTypeOK, TrackerTypeOK, UserTypeOK, ClientTypeOK, JoinRunning
<1>5. TickTypeOK'
  BY DEF TickTypeOK, LobbyPcs, WorkerPcs, JoinRunning, AfterJoin, Goto, HasName,
         get_user_name, join, FromReport, Emplace
<1>6. LobbyTypeOK'
  BY DEF LobbyTypeOK, AtTransfer, Holding, JoinRunning, AfterJoin, Goto, HasName,
         get_user_name, join, FromReport, Emplace
<1> QED BY <1>3, <1>4, <1>5, <1>6

\* TypeOK is kept: a join to a channel started again.
LEMMA JoinRestartedTypes ==
    ASSUME TypeOK, JoinRestarted
    PROVE  TypeOK'
<1>1. job.fd \in FDs /\ job.to \in Channels /\ job.who \in Conns
  BY DEF LobbyTypeOK, JoinRestarted, AtTransfer, Holding
<1>2. join_pool' \in [Channels -> SUBSET PoolEntries]
  BY <1>1, EmplaceTypes DEF ChannelTypeOK, JoinRestarted, join
<1>3. ChannelTypeOK'
  BY <1>1, <1>2 DEF ChannelTypeOK, JoinRestarted
<1>4. SocketsTypeOK' /\ TrackerTypeOK' /\ UserTypeOK' /\ ClientTypeOK'
  BY DEF SocketsTypeOK, TrackerTypeOK, UserTypeOK, ClientTypeOK, JoinRestarted
<1>5. TickTypeOK'
  BY DEF TickTypeOK, LobbyPcs, WorkerPcs, JoinRestarted, AfterJoin, Goto, join,
         FromReport, Emplace
<1>6. LobbyTypeOK'
  BY DEF LobbyTypeOK, AtTransfer, Holding, JoinRestarted, AfterJoin, Goto, join,
         FromReport, Emplace
<1> QED BY <1>3, <1>4, <1>5, <1>6

\* TypeOK is kept: the leave of the reporting channel.
LEMMA LeaveSourceTypes ==
    ASSUME TypeOK, LeaveSource
    PROVE  TypeOK'
<1>1. job.fd \in FDs /\ job.from \in Channels /\ job.to \in Channels
  BY DEF LobbyTypeOK, LeaveSource, AtTransfer, Holding
<1>2. leave_pool' \in [Channels -> SUBSET PoolEntries]
  <2>1. CASE UNCHANGED leave_pool
    BY <2>1 DEF ChannelTypeOK
  <2>2. CASE HasName(job.fd) /\ leave(job.from, job.fd, get_user_name(job.fd))
    <3>1. get_user_name(job.fd) \in Conns
      BY <1>1, <2>2 DEF UserTypeOK, HasName, get_user_name
    <3> QED BY <1>1, <2>2, <3>1, EmplaceTypes DEF ChannelTypeOK, leave
  <2> QED BY <2>1, <2>2 DEF LeaveSource
<1>3. pool_mtx' \in [Channels -> {"free", "main", "worker"}]
  BY DEF ChannelTypeOK, LeaveSource, Release
<1>4. next_deletion' \in [Servers -> SUBSET FDs] /\ doomed' \in [Servers -> SUBSET FDs]
  <2>1. CASE UNCHANGED <<next_deletion, doomed>>
    BY <2>1 DEF TickTypeOK
  <2>2. CASE /\ Condemn(job.from, {job.fd})
             /\ \E seen \in SUBSET {job.fd} :
                    doomed' = [doomed EXCEPT ![job.from] = @ \cup seen]
    BY <1>1, <2>2 DEF TickTypeOK, Condemn
  <2> QED BY <2>1, <2>2 DEF LeaveSource
<1>5. TickTypeOK'
  BY <1>4 DEF TickTypeOK, LeaveSource, Goto, LobbyPcs, WorkerPcs
<1>6. ChannelTypeOK'
  BY <1>2, <1>3 DEF ChannelTypeOK, LeaveSource
<1>7. TickTypeOK' /\ ChannelTypeOK'
  BY <1>5, <1>6
<1>8. SocketsTypeOK' /\ TrackerTypeOK' /\ UserTypeOK' /\ ClientTypeOK'
  BY DEF SocketsTypeOK, TrackerTypeOK, UserTypeOK, ClientTypeOK, LeaveSource
<1>9. LobbyTypeOK'
  BY DEF LobbyTypeOK, AtTransfer, Holding, TickTypeOK, LeaveSource, Condemn,
         Goto, HasName, MovingLeaves, NoJob, Release, get_user_name, leave,
         Emplace
<1> QED BY <1>7, <1>8, <1>9

\* TypeOK is kept: on_req of the lobby lets go of the client.
LEMMA DetachTypes ==
    ASSUME TypeOK, Detach
    PROVE  TypeOK'
<1>1. UserTypeOK' /\ ClientTypeOK'
  BY DEF UserTypeOK, ClientTypeOK, Detach
<1>2. SocketsTypeOK'
  BY DEF SocketsTypeOK, Detach, AfterFrame, CanDelete, NoJob, Release,
         delete_client
<1>3. TrackerTypeOK'
  BY DEF TrackerTypeOK, Detach, AfterFrame, CanDelete, NoJob, Release,
         delete_client
<1>4. TickTypeOK'
  BY DEF TickTypeOK, LobbyPcs, WorkerPcs, Detach, AfterFrame, CanDelete, Goto,
         NoJob, Release, delete_client
<1>5. ChannelTypeOK'
  BY DEF ChannelTypeOK, Detach, AfterFrame, CanDelete, NoJob, Release,
         delete_client
<1>6. LobbyTypeOK'
  BY DEF LobbyTypeOK, AtTransfer, Holding, TickTypeOK, Detach, AfterFrame,
         CanDelete, Goto, NoJob, Release, delete_client
<1> QED BY <1>1, <1>2, <1>3, <1>4, <1>5, <1>6

\* TypeOK is kept: delete_client throws in on_req.
LEMMA DetachThrowsTypes ==
    ASSUME TypeOK, DetachThrows
    PROVE  TypeOK'
<1>1. job.fd \in FDs
  BY DEF LobbyTypeOK, DetachThrows, AtTransfer, Holding
<1>2. next_deletion' \in [Servers -> SUBSET FDs] /\ frames' \in [Servers -> Seq(Frames)]
  BY <1>1 DEF TickTypeOK, DetachThrows, Condemn
<1>3. TickTypeOK'
  BY <1>2 DEF TickTypeOK, DetachThrows, Goto, LobbyPcs, WorkerPcs
<1>4. /\ SocketsTypeOK'
      /\ TrackerTypeOK'
      /\ UserTypeOK'
      /\ ChannelTypeOK'
      /\ ClientTypeOK'
  BY DEF SocketsTypeOK, TrackerTypeOK, UserTypeOK, ChannelTypeOK, ClientTypeOK,
         DetachThrows
<1>5. LobbyTypeOK'
  BY DEF LobbyTypeOK, AtTransfer, Holding, TickTypeOK, DetachThrows, CanDelete,
         Condemn, Goto, NoJob
<1> QED BY <1>3, <1>4, <1>5

\* TypeOK is kept: the lobby is full.
LEMMA LobbyRefusesTypes ==
    ASSUME TypeOK, NEW x \in Conns, NEW fd \in FDs, LobbyRefuses(x, fd)
    PROVE  TypeOK'
<1>1. ASSUME Condemn(Lobby, {fd}), UNCHANGED pc
      PROVE  TickTypeOK'
  BY <1>1 DEF TickTypeOK, LobbyRefuses, Condemn
<1>2. ASSUME Goto(Lobby, "pre"), UNCHANGED next_deletion
      PROVE  TickTypeOK'
  BY <1>2, GotoTypes DEF TickTypeOK, LobbyRefuses, LobbyPcs
<1>3. TickTypeOK'
  BY <1>1, <1>2 DEF LobbyRefuses
<1>4. TrackerTypeOK' /\ UserTypeOK' /\ ChannelTypeOK' /\ ClientTypeOK'
  BY DEF TrackerTypeOK, UserTypeOK, ChannelTypeOK, ClientTypeOK, LobbyRefuses
<1>5. SocketsTypeOK'
  BY DEF SocketsTypeOK, LobbyRefuses, Accept, Condemn, Open
<1>6. LobbyTypeOK'
  BY DEF LobbyTypeOK, AtTransfer, Holding, TickTypeOK, LobbyRefuses, Accept,
         Condemn, Goto, Open
<1> QED BY <1>3, <1>4, <1>5, <1>6

\* TypeOK is kept: a turn of the deletion loop of the lobby.
LEMMA LobbyDeletesTypes ==
    ASSUME TypeOK, NEW fd \in FDs, LobbyDeletes(fd)
    PROVE  TypeOK'
<1>1. PICK l \in LobbyPcs \ {"frames"} : Goto(Lobby, l)
  BY DEF LobbyDeletes, StartDeletion, LobbyPcs
<1>2. doomed' \in [Servers -> SUBSET FDs] /\ cur' \in [Servers -> SUBSET FDs]
  BY DEF TickTypeOK, LobbyDeletes, StartDeletion
<1>3. TickTypeOK'
  BY <1>1, <1>2, GotoTypes DEF TickTypeOK, LobbyDeletes

\* A step that takes a frame
<1>4. UserTypeOK' /\ ChannelTypeOK' /\ ClientTypeOK'
  BY DEF UserTypeOK, ChannelTypeOK, ClientTypeOK, LobbyDeletes
<1>5. SocketsTypeOK'
  BY DEF SocketsTypeOK, LobbyDeletes, CanDelete, StartDeletion, delete_client
<1>6. TrackerTypeOK'
  BY DEF TrackerTypeOK, LobbyDeletes, CanDelete, StartDeletion, delete_client
<1>7. LobbyTypeOK'
  BY DEF LobbyTypeOK, AtTransfer, Holding, TickTypeOK, LobbyDeletes, CanDelete,
         Goto, StartDeletion, delete_client
<1> QED BY <1>3, <1>4, <1>5, <1>6, <1>7

\* TypeOK is kept: the lobby ignores a frame.
LEMMA IgnoreFrameTypes ==
    ASSUME TypeOK, IgnoreFrame
    PROVE  TypeOK'
<1>1. TickTypeOK'
  BY TakeFrameTypes DEF IgnoreFrame, AfterFrame
<1>2. /\ SocketsTypeOK'
      /\ TrackerTypeOK'
      /\ UserTypeOK'
      /\ ChannelTypeOK'
      /\ ClientTypeOK'
  BY DEF SocketsTypeOK, TrackerTypeOK, UserTypeOK, ChannelTypeOK, ClientTypeOK,
         IgnoreFrame
<1>3. LobbyTypeOK'
  BY DEF LobbyTypeOK, AtTransfer, Holding, IgnoreFrame, AfterFrame, Frame, Goto,
         TakeFrame
<1> QED BY <1>1, <1>2, <1>3

\* TypeOK is kept: on_req of the lobby.
LEMMA HearFirstJoinTypes ==
    ASSUME TypeOK, HearFirstJoin
    PROVE  TypeOK'
<1>1. TickTypeOK'
  BY TakeFrameTypes DEF HearFirstJoin
<1>2. UserTypeOK'
  BY FrameTypes DEF UserTypeOK, HearFirstJoin, set_user_name
<1>3. LobbyTypeOK'
  BY FrameTypes DEF LobbyTypeOK, HearFirstJoin, Goto
<1>4. TickTypeOK' /\ UserTypeOK' /\ LobbyTypeOK'
  BY <1>1, <1>2, <1>3
<1>5. SocketsTypeOK' /\ TrackerTypeOK' /\ ChannelTypeOK' /\ ClientTypeOK'
  BY DEF SocketsTypeOK, TrackerTypeOK, ChannelTypeOK, ClientTypeOK, HearFirstJoin
<1> QED BY <1>4, <1>5

\* TypeOK is kept: check_lobby.
LEMMA CheckLobbyTypes ==
    ASSUME TypeOK, CheckLobby
    PROVE  TypeOK'
<1>1. next_deletion' \in [Servers -> SUBSET FDs]
  BY DEF TickTypeOK, LobbyTypeOK, CheckLobby, Condemn
<1>2. TickTypeOK'
  BY <1>1, GotoTypes DEF TickTypeOK, CheckLobby, LobbyPcs
<1>3. /\ SocketsTypeOK'
      /\ TrackerTypeOK'
      /\ UserTypeOK'
      /\ ChannelTypeOK'
      /\ ClientTypeOK'
  BY DEF SocketsTypeOK, TrackerTypeOK, UserTypeOK, ChannelTypeOK, ClientTypeOK,
         CheckLobby
<1>4. LobbyTypeOK'
  BY DEF LobbyTypeOK, AtTransfer, Holding, CheckLobby, Condemn, Goto
<1> QED BY <1>2, <1>3, <1>4

\* TypeOK is kept: a turn of the deletion loop of a channel.
LEMMA ChannelDeletesTypes ==
    ASSUME TypeOK, NEW c \in Channels, NEW fd \in FDs, ChannelDeletes(c, fd),
           UNCHANGED lobbyVars
    PROVE  TypeOK'
<1>1. SocketsTypeOK' /\ TrackerTypeOK'
  BY DeleteTypes DEF SocketsTypeOK, ChannelDeletes
<1>2. UserTypeOK' /\ ClientTypeOK'
  BY DEF UserTypeOK, ClientTypeOK, ChannelDeletes
<1>3. TickTypeOK'
  BY DEF TickTypeOK, LobbyPcs, WorkerPcs, ChannelDeletes, Announce, Goto,
         delete_client, CanDelete
<1>4. ChannelTypeOK'
  BY DEF ChannelTypeOK, Reports, Notices, NoName, UserTypeOK, ChannelDeletes,
         Announce, delete_client, CanDelete
<1>5. LobbyTypeOK'
  BY DEF LobbyTypeOK, AtTransfer, Holding, ChannelDeletes, Announce, Goto,
         delete_client, CanDelete
<1> QED BY <1>1, <1>2, <1>3, <1>4, <1>5

\* TypeOK is kept: on_req of a channel, a message.
LEMMA HearMessageTypes ==
    ASSUME TypeOK, NEW c \in Channels, HearMessage(c), UNCHANGED lobbyVars
    PROVE  TypeOK'
<1>1. TickTypeOK'
  BY TakeFrameTypes DEF HearMessage, AfterFrame
<1>2. mq' \in [Channels -> SUBSET Notices]
  <2>1. CASE UNCHANGED mq
    BY <2>1 DEF ChannelTypeOK
  <2>2. CASE /\ HasName(Frame(c).fd)
             /\ Announce(c, "message", get_user_name(Frame(c).fd))
    <3>1. get_user_name(Frame(c).fd) \in Conns
      BY <2>2, FrameTypes DEF UserTypeOK, HearMessage, HasName, get_user_name
    <3> QED BY <2>2, <3>1 DEF ChannelTypeOK, Announce, Notices
  <2> QED BY <2>1, <2>2 DEF HearMessage
<1>3. ChannelTypeOK'
  BY <1>2 DEF ChannelTypeOK, HearMessage
<1>4. TickTypeOK' /\ ChannelTypeOK'
  BY <1>1, <1>3
<1>5. SocketsTypeOK' /\ TrackerTypeOK' /\ UserTypeOK' /\ ClientTypeOK'
  BY DEF SocketsTypeOK, TrackerTypeOK, UserTypeOK, ClientTypeOK, HearMessage
<1>6. LobbyTypeOK'
  BY DEF LobbyTypeOK, AtTransfer, Holding, HearMessage, AfterFrame, Announce,
         Frame, Goto, HasName, TakeFrame, get_user_name
<1> QED BY <1>4, <1>5, <1>6

\* TypeOK is kept: on_req of a channel, a join.
LEMMA HearJoinTypes ==
    ASSUME TypeOK, NEW c \in Channels, HearJoin(c), UNCHANGED lobbyVars
    PROVE  TypeOK'
<1>1. TickTypeOK'
  BY TakeFrameTypes DEF HearJoin, AfterFrame
<1>2. reports' \in Seq(Reports)
  <2>1. CASE UNCHANGED reports
    BY <2>1 DEF ChannelTypeOK
  <2>2. CASE reports' = Append(reports, [fd |-> Frame(c).fd, from |-> c,
                                         to |-> Frame(c).req.ch])
    <3>1. [fd |-> Frame(c).fd, from |-> c, to |-> Frame(c).req.ch] \in Reports
      BY FrameTypes DEF HearJoin, Reports
    <3> QED BY <2>2, <3>1 DEF ChannelTypeOK
  <2> QED BY <2>1, <2>2 DEF HearJoin
<1>3. ChannelTypeOK'
  BY <1>2 DEF ChannelTypeOK, HearJoin
<1>4. TickTypeOK' /\ ChannelTypeOK'
  BY <1>1, <1>3
<1>5. SocketsTypeOK' /\ TrackerTypeOK' /\ UserTypeOK' /\ ClientTypeOK'
  BY DEF SocketsTypeOK, TrackerTypeOK, UserTypeOK, ClientTypeOK, HearJoin
<1>6. LobbyTypeOK'
  BY DEF LobbyTypeOK, AtTransfer, Holding, HearJoin, AfterFrame, Frame, Goto,
         TakeFrame
<1> QED BY <1>4, <1>5, <1>6

\* TypeOK is kept: a turn of the first loop of resolve_pool.
LEMMA TakeInTypes ==
    ASSUME TypeOK, NEW c \in Channels, NEW e \in local_q[c], TakeIn(c, e),
           UNCHANGED lobbyVars
    PROVE  TypeOK'
<1>1. e.fd \in FDs /\ e.who \in Conns
  BY DEF ChannelTypeOK, PoolEntries
<1>2. ASSUME add_client(c, e.fd), Announce(c, "join", e.who)
      PROVE  SocketsTypeOK' /\ TrackerTypeOK' /\ ChannelTypeOK'
  BY <1>1, <1>2
     DEF SocketsTypeOK, TrackerTypeOK, ChannelTypeOK, Notices, TakeIn,
         add_client, Announce
<1>3. ASSUME UNCHANGED <<interest, clients, mq>>
      PROVE  SocketsTypeOK' /\ TrackerTypeOK' /\ ChannelTypeOK'
  BY <1>1, <1>3 DEF SocketsTypeOK, TrackerTypeOK, ChannelTypeOK, TakeIn
<1>4. SocketsTypeOK' /\ TrackerTypeOK' /\ ChannelTypeOK'
  BY <1>2, <1>3 DEF TakeIn
<1>5. UserTypeOK' /\ TickTypeOK' /\ ClientTypeOK' /\ LobbyTypeOK'
  BY DEF UserTypeOK, TickTypeOK, ClientTypeOK, LobbyTypeOK, TakeIn
<1> QED BY <1>4, <1>5

\* TypeOK is kept: a turn of the second loop of resolve_pool.
LEMMA LetGoTypes ==
    ASSUME TypeOK, NEW c \in Channels, NEW e \in local_q[c], LetGo(c, e),
           UNCHANGED lobbyVars
    PROVE  TypeOK'
<1>1. e.fd \in FDs /\ e.who \in Conns
  BY DEF ChannelTypeOK, PoolEntries
<1>2. interest' \in [Servers -> SUBSET FDs] /\ TrackerTypeOK'
  BY <1>1, DeleteTypes DEF LetGo
<1>3. mq' \in [Channels -> SUBSET Notices]
  BY <1>1 DEF ChannelTypeOK, Notices, LetGo, Announce
<1>4. SocketsTypeOK' /\ TrackerTypeOK' /\ ChannelTypeOK'
  BY <1>2, <1>3 DEF SocketsTypeOK, ChannelTypeOK, LetGo
<1>5. UserTypeOK' /\ TickTypeOK' /\ ClientTypeOK' /\ LobbyTypeOK'
  BY DEF UserTypeOK, TickTypeOK, ClientTypeOK, LobbyTypeOK, LetGo
<1> QED BY <1>4, <1>5

\* TypeOK is kept: the broadcast of a channel.
LEMMA BroadcastTypes ==
    ASSUME TypeOK, NEW c \in Channels, Broadcast(c), UNCHANGED lobbyVars
    PROVE  TypeOK'
<1>1. PICK failed \in SUBSET {fd \in clients[c] : SendMayFail(fd)} :
         Condemn(c, failed) /\ StartDeletion(c, next_deletion[c] \cup failed)
  BY DEF Broadcast
<1>2. failed \in SUBSET FDs
  BY DEF TrackerTypeOK
<1>3. next_deletion' \in [Servers -> SUBSET FDs] /\ doomed' \in [Servers -> SUBSET FDs]
  BY <1>1, <1>2 DEF TickTypeOK, Condemn, StartDeletion
<1>4. PICK l \in {"pre", "dels"} : Goto(c, l)
  BY <1>1 DEF StartDeletion
<1>5. c # Lobby /\ l \in WorkerPcs
  BY SocketsAssumption DEF WorkerPcs
<1>6. TickTypeOK'
  BY <1>3, <1>4, <1>5, GotoTypes DEF TickTypeOK, Broadcast
<1>7. SocketsTypeOK' /\ TrackerTypeOK' /\ UserTypeOK'
  BY DEF SocketsTypeOK, TrackerTypeOK, UserTypeOK, Broadcast
<1>8. ChannelTypeOK'
  BY DEF ChannelTypeOK, Broadcast, Condemn, Deliver, StartDeletion, Open
<1>9. ClientTypeOK'
  BY DEF ClientTypeOK, Broadcast, Condemn, Deliver, StartDeletion, Open
<1>10. LobbyTypeOK'
  BY DEF LobbyTypeOK, AtTransfer, Holding, Broadcast, Condemn, Deliver,
         StartDeletion, Open, Goto
<1> QED BY <1>6, <1>7, <1>8, <1>9, <1>10

\* TypeOK is kept: recv_frame.
LEMMA EventReceivesTypes ==
    ASSUME TypeOK, NEW s \in Servers, NEW fd \in FDs, EventReceives(s, fd),
           UNCHANGED <<channelVars, clientVars, lobbyVars>>
    PROVE  TypeOK'
<1> DEFINE x == sock[fd]
           got == [i \in DOMAIN rx[x] |-> [fd |-> fd, who |-> x, req |-> rx[x][i]]]
<1>1. x \in Conns /\ rx[x] \in Seq(Requests) /\ rx[x] # <<>>
  BY DEF SocketsTypeOK, EventReceives, RecvData, Open
<1>2. got \in Seq(Frames) /\ got # <<>>
  <2>1. DOMAIN rx[x] = 1..Len(rx[x]) /\ Len(rx[x]) \in Nat /\ Len(rx[x]) # 0
    BY <1>1
  <2>2. \A i \in 1..Len(rx[x]) : got[i] \in Frames
    BY <1>1, <2>1 DEF Frames
  <2>3. got \in [1..Len(rx[x]) -> Frames]
    BY <2>1, <2>2
  <2>4. got \in Seq(Frames) /\ Len(got) = Len(rx[x])
    <3> HIDE DEF got
    <3> QED BY <2>1, <2>3
  <2>5. got # <<>>
    <3> HIDE DEF got
    <3> QED BY <2>1, <2>4
  <2> QED BY <2>4, <2>5
<1>3. frames' = [frames EXCEPT ![s] = got]
  BY DEF EventReceives
<1> HIDE DEF got
<1>4. events' \in [Servers -> SUBSET (FDs \cup {Listener})]
  BY DEF TickTypeOK, EventReceives, Handled
<1>5. TickTypeOK'
  BY <1>2, <1>3, <1>4 DEF TickTypeOK, EventReceives, Goto, LobbyPcs, WorkerPcs
<1>6. TrackerTypeOK' /\ UserTypeOK' /\ ChannelTypeOK' /\ ClientTypeOK'
  BY DEF TrackerTypeOK, UserTypeOK, ChannelTypeOK, ClientTypeOK, EventReceives
<1>7. SocketsTypeOK'
  BY DEF SocketsTypeOK, EventReceives, Handled, RecvData, Open
<1>8. LobbyTypeOK'
  BY DEF LobbyTypeOK, AtTransfer, Holding, EventReceives, Goto, Handled,
         RecvData, Open
<1> QED BY <1>5, <1>6, <1>7, <1>8

\* TypeOK is kept: resolve_deletion closes a descriptor.
LEMMA CloseClientTypes ==
    ASSUME TypeOK, NEW s \in Servers, CloseClient(s),
           UNCHANGED <<channelVars, clientVars, lobbyVars>>
    PROVE  TypeOK'
<1>1. TrackerTypeOK' /\ UserTypeOK' /\ ChannelTypeOK' /\ ClientTypeOK'
  BY DEF TrackerTypeOK, UserTypeOK, ChannelTypeOK, ClientTypeOK, CloseClient
<1>2. SocketsTypeOK'
  BY DEF SocketsTypeOK, CloseClient, Close
<1>3. TickTypeOK'
  BY DEF TickTypeOK, LobbyPcs, WorkerPcs, CloseClient, Close, Goto
<1>4. LobbyTypeOK'
  BY DEF LobbyTypeOK, AtTransfer, Holding, CloseClient, Close, Goto
<1> QED BY <1>1, <1>2, <1>3, <1>4

\* TypeOK is kept: a client sends a request.
LEMMA SendRequestTypes ==
    ASSUME TypeOK, NEW x \in Conns, SendRequest(x),
           UNCHANGED <<clients, name_map, tickVars, channelVars, lobbyVars>>
    PROVE  TypeOK'
<1>1. PICK r \in Wants(x) : rx' = [rx EXCEPT ![x] = Append(@, r)]
  BY DEF SendRequest
<1>2. r \in Requests
  BY <1>1, ClientAssumption DEF Wants, Requests
<1>3. SocketsTypeOK'
  BY <1>1, <1>2 DEF SocketsTypeOK, SendRequest
<1>4. /\ TrackerTypeOK'
      /\ UserTypeOK'
      /\ TickTypeOK'
      /\ ChannelTypeOK'
      /\ LobbyTypeOK'
  BY DEF TrackerTypeOK, UserTypeOK, TickTypeOK, ChannelTypeOK, LobbyTypeOK,
         SendRequest
<1>5. ClientTypeOK'
  BY DEF ClientTypeOK, SendRequest, Wants
<1> QED BY <1>3, <1>4, <1>5

-----------------------------------------------------------------------------
(* Every step.                                                             *)

\* TypeOK is kept by what every server has in its tick.
LEMMA TickTypes ==
    ASSUME TypeOK, NEW s \in Servers,
           UNCHANGED <<channelVars, clientVars, lobbyVars>>,
           \/ \E fd \in FDs :
                  EventEnds(s, fd) \/ EventEmpty(s, fd) \/ EventReceives(s, fd)
           \/ EventAcceptFails(s)
           \/ RemoveUserName(s)
           \/ CloseClient(s)
    PROVE  TypeOK'
<1> USE DEF SocketsTypeOK, TrackerTypeOK, UserTypeOK, TickTypeOK, ChannelTypeOK,
            ClientTypeOK, LobbyTypeOK, LobbyPcs, WorkerPcs, Goto
<1>1. ASSUME NEW fd \in FDs, EventEnds(s, fd) PROVE TypeOK'
  BY <1>1 DEF EventEnds, Condemn, Handled, Open, PoolEntries
<1>2. ASSUME NEW fd \in FDs, EventEmpty(s, fd) PROVE TypeOK'
  BY <1>2 DEF EventEmpty, Handled, Open, PoolEntries
<1>3. ASSUME NEW fd \in FDs, EventReceives(s, fd) PROVE TypeOK'
  BY <1>3, EventReceivesTypes
<1>4. CASE EventAcceptFails(s)
  BY <1>4 DEF EventAcceptFails, Handled, Open, PoolEntries
<1>5. CASE RemoveUserName(s)
  BY <1>5 DEF RemoveUserName, PoolEntries, AtTransfer, Holding
<1>6. CASE CloseClient(s)
  BY <1>6, CloseClientTypes
<1> QED BY <1>1, <1>2, <1>3, <1>4, <1>5, <1>6

\* TypeOK is kept by the main thread.
LEMMA MainTypes ==
    ASSUME TypeOK, Main
    PROVE  TypeOK'
<1> USE DEF SocketsTypeOK, TrackerTypeOK, UserTypeOK, TickTypeOK, ChannelTypeOK,
            ClientTypeOK, LobbyTypeOK, LobbyPcs, WorkerPcs, Goto
<1>1. CASE PopReports
  BY <1>1, PopReportsTypes
<1>2. CASE NextReport
  BY <1>2, NextReportTypes
<1>3. CASE LobbyPolls
  BY <1>3 DEF LobbyPolls, Poll, Ready, PoolEntries, AtTransfer, Holding
<1>4. ASSUME NEW c \in Channels, Create(c) PROVE TypeOK'
  BY <1>4 DEF Create, channels, PoolEntries, AtTransfer, Holding
<1>5. ASSUME NEW c \in Channels, Register(c) PROVE TypeOK'
  BY <1>5 DEF Register, PoolEntries, AtTransfer, Holding
<1>6. ASSUME NEW c \in Channels, DestroyChannel(c) PROVE TypeOK'
  BY <1>6, DestroyChannelTypes
<1>7. CASE LockTarget
  BY <1>7, LockTargetTypes
<1>8. CASE TryNext
  BY <1>8, TryNextTypes
<1>9. CASE LockFresh
  BY <1>9 DEF LockFresh, Hold, PoolEntries, AtTransfer, Holding
<1>10. CASE RefuseJoin
  BY <1>10
     DEF RefuseJoin, NoJob, Release, Open, PoolEntries, AtTransfer, Holding
<1>11. CASE RefuseThrows
  BY <1>11, RefuseThrowsTypes
<1>12. CASE JoinNameless
  BY <1>12
     DEF JoinNameless, AfterJoin, HasName, FromReport, PoolEntries, AtTransfer,
         Holding
<1>13. CASE JoinRunning
  BY <1>13, JoinRunningTypes
<1>14. CASE JoinRestarts
  BY <1>14
     DEF JoinRestarts, HasName, get_user_name, PoolEntries, AtTransfer, Holding
<1>15. CASE JoinRestarted
  BY <1>15, JoinRestartedTypes
<1>16. CASE LeaveSource
  BY <1>16, LeaveSourceTypes
<1>17. CASE Detach
  BY <1>17, DetachTypes
<1>18. CASE DetachThrows
  BY <1>18, DetachThrowsTypes
<1>19. ASSUME NEW x \in Conns, NEW fd \in FDs, LobbyAccepts(x, fd) PROVE TypeOK'
  BY <1>19
     DEF LobbyAccepts, Accept, Handled, add_client, set_user_name, Open,
         PoolEntries
<1>20. ASSUME NEW x \in Conns, NEW fd \in FDs, LobbyRefuses(x, fd) PROVE TypeOK'
  BY <1>20, LobbyRefusesTypes
<1>21. ASSUME NEW fd \in FDs, LobbyDeletes(fd) PROVE TypeOK'
  BY <1>21, LobbyDeletesTypes
<1>22. CASE IgnoreFrame
  BY <1>22, IgnoreFrameTypes
<1>23. CASE HearFirstJoin
  BY <1>23, HearFirstJoinTypes
<1>24. CASE CheckLobby
  BY <1>24, CheckLobbyTypes
<1>25. CASE ChecksDone
  BY <1>25 DEF ChecksDone, StartDeletion, PoolEntries, AtTransfer, Holding
<1>26. CASE LobbyTick
  BY <1>26, TickTypes DEF LobbyTick
<1> QED BY <1>1, <1>2, <1>3, <1>4, <1>5, <1>6, <1>7, <1>8, <1>9, <1>10, <1>11, <1>12,
           <1>13, <1>14, <1>15, <1>16, <1>17, <1>18, <1>19, <1>20, <1>21, <1>22, <1>23,
           <1>24, <1>25, <1>26
           DEF Main

\* TypeOK is kept by the worker of a channel.
LEMMA WorkerTypes ==
    ASSUME TypeOK, NEW c \in Channels, Worker(c)
    PROVE  TypeOK'
<1> USE DEF SocketsTypeOK, TrackerTypeOK, UserTypeOK, TickTypeOK, ChannelTypeOK,
            ClientTypeOK, LobbyTypeOK, LobbyPcs, WorkerPcs, Goto
<1> UNCHANGED lobbyVars
  BY DEF Worker
<1>1. CASE WorkerExits(c)
  BY <1>1, SocketsAssumption DEF WorkerExits, PoolEntries
<1>2. CASE WorkerPolls(c)
  BY <1>2 DEF WorkerPolls, Poll, Ready, PoolEntries, AtTransfer, Holding
<1>3. ASSUME NEW x \in Conns, NEW fd \in FDs, ChannelAccepts(c, x, fd) PROVE TypeOK'
  BY <1>3 DEF ChannelAccepts, Accept, Handled, Open, PoolEntries
<1>4. ASSUME NEW fd \in FDs, ChannelDeletes(c, fd) PROVE TypeOK'
  BY <1>4, ChannelDeletesTypes
<1>5. CASE HearMessage(c)
  BY <1>5, HearMessageTypes
<1>6. CASE HearJoin(c)
  BY <1>6, HearJoinTypes
<1>7. CASE NoPoolTask(c)
  BY <1>7, SocketsAssumption DEF NoPoolTask, PoolEntries
<1>8. CASE LockPool(c)
  BY <1>8, SocketsAssumption DEF LockPool, LeftByMove, PoolEntries
<1>9. CASE MoveLeaves(c)
  BY <1>9 DEF MoveLeaves, LeftByMove, MovingLeaves, PoolEntries
<1>10. CASE UnlockPool(c)
  BY <1>10 DEF UnlockPool, PoolEntries
<1>11. ASSUME NEW e \in local_q[c], TakeIn(c, e) PROVE TypeOK'
  BY <1>11, TakeInTypes
<1>12. ASSUME NEW e \in local_q[c], LetGo(c, e) PROVE TypeOK'
  BY <1>12, LetGoTypes
<1>13. CASE Broadcast(c)
  BY <1>13, BroadcastTypes
<1>14. CASE WorkerTick(c)
  BY <1>14, TickTypes DEF WorkerTick
<1> QED BY <1>1, <1>2, <1>3, <1>4, <1>5, <1>6, <1>7, <1>8, <1>9, <1>10, <1>11, <1>12,
           <1>13, <1>14
           DEF Worker

\* TypeOK is kept by the clients.
LEMMA UserTypes ==
    ASSUME TypeOK, NEW x \in Conns, User(x)
    PROVE  TypeOK'
<1> USE DEF SocketsTypeOK, TrackerTypeOK, UserTypeOK, TickTypeOK, ChannelTypeOK,
            ClientTypeOK, LobbyTypeOK, LobbyPcs, WorkerPcs, Goto
<1> UNCHANGED <<clients, name_map, tickVars, channelVars, lobbyVars>>
  BY DEF User
<1>1. CASE Connect(x)
  BY <1>1 DEF Connect, PoolEntries
<1>2. CASE SendRequest(x)
  BY <1>2, SendRequestTypes
<1>3. CASE Hangup(x)
  BY <1>3 DEF Hangup, PoolEntries
<1> QED BY <1>1, <1>2, <1>3 DEF User

\* Every variable of the server keeps the type its declaration gives it, and
\* a thread in the middle of an operation has what the operation needs.
THEOREM TypesHold == Spec => []TypeOK
<1>1. Init => TypeOK
  BY DEF Init, SocketsInit, TrackerInit, UserInit, TickInit, ChannelInit,
         ClientInit, SocketsTypeOK, TrackerTypeOK, UserTypeOK, TickTypeOK,
         ChannelTypeOK, ClientTypeOK, LobbyTypeOK, NoJob, AtTransfer, Holding,
         LobbyPcs, WorkerPcs
<1>2. TypeOK /\ [Next]_vars => TypeOK'
  <2> SUFFICES ASSUME TypeOK, [Next]_vars
               PROVE  TypeOK'
    OBVIOUS
  <2>1. CASE Main
    BY <2>1, MainTypes
  <2>2. ASSUME NEW c \in Channels, Worker(c)
        PROVE  TypeOK'
    BY <2>2, WorkerTypes
  <2>3. ASSUME NEW x \in Conns, User(x)
        PROVE  TypeOK'
    BY <2>3, UserTypes
  <2>4. CASE UNCHANGED vars
    BY <2>4
       DEF vars, SocketsTypeOK, TrackerTypeOK, UserTypeOK, TickTypeOK,
           ChannelTypeOK, ClientTypeOK, LobbyTypeOK
  <2> QED BY <2>1, <2>2, <2>3, <2>4 DEF Next
<1> QED BY <1>1, <1>2, PTL DEF Spec
=============================================================================

------------------------------ MODULE ChatWindow ------------------------------
(***************************************************************************)
(* ChatServer (src/server/chat_server.cpp) in a Channel, and the clients   *)
(* (client/client.cpp, client/client_win.cpp): how what is said reaches    *)
(* every screen.  In each tick the worker reads what its members have      *)
(* sent, takes in and lets go as resolve_pool does, sorts what it has      *)
(* heard by timestamp into a window, sends the window to every member,     *)
(* even if it is empty, and closes those that are gone or too slow for a   *)
(* window of that size.                                                    *)
(*                                                                         *)
(* send_frame makes two sends of a frame, the header and the payload; a    *)
(* send waits when the socket is full.  Capacity of the channels, locks    *)
(* and threads that stop are the matter of ChannelServer.                  *)
(***************************************************************************)
EXTENDS Naturals, FiniteSets, SequencesExt

CONSTANTS
    Channels,
    Posix,      \* clients that run client.cpp: they read the answer first
    Win,        \* clients that run client_win.cpp: they show all they read
    LobbyMax,   \* clients the lobby has room for
    Stamps,     \* timestamps that messages bear
    Now,        \* the timestamp of joins and leaves
    MaxFrame,   \* notices a window of MAX_FRAME_SIZE holds
    Buffer,     \* frames a socket holds
    Quota,      \* bound: client -> messages it sends
    Leavers     \* bound: clients that may be stopped at any time

Clients == Posix \cup Win

ASSUME WindowAssumption ==
    /\ Posix \cap Win = {} /\ IsFiniteSet(Clients)
    /\ Stamps \subseteq Nat /\ Now \in Nat
    /\ {LobbyMax, MaxFrame, Buffer} \subseteq Nat \ {0}
    /\ Quota \in [Clients -> Nat] /\ Leavers \subseteq Clients

VARIABLES
    phase,          \* client -> "start", "handshake", "chat" or "end"
    said,           \* client -> messages it has sent
    req,            \* client -> frames under way from it
    wire,           \* client -> sends under way to it
    shown,          \* client -> notices on its screen
    unseen,         \* client -> notices its handshake has read and dropped
    lobby,          \* clients of the lobby
    join_pool,      \* channel -> clients to take in, with a timestamp
    leave_pool,     \* channel -> clients to let go, with a timestamp
    members,        \* channel -> ConnectionTracker::clients
    closed,         \* clients whose connection the server has closed
    pc,             \* channel -> "poll", "events", "send"
    events,         \* channel -> members epoll has reported
    mq,             \* channel -> notices not yet in a window
    cur_msgs,       \* channel -> notices of the window, by timestamp
    todo,           \* channel -> members the window is still to be sent to
    half,           \* channel -> members that have got its header only
    next_deletion,  \* channel -> members to close at the end of the tick
    heard           \* channel -> how many notices it has made

clientVars == <<phase, said, shown, unseen>>
netVars    == <<req, wire, closed>>
poolVars   == <<lobby, join_pool, leave_pool, members>>
tickVars   == <<pc, events, mq, cur_msgs, todo, half, next_deletion, heard>>
vars == <<clientVars, netVars, poolVars, tickVars>>

\* A notice is known by its channel and its number there; k is the number of
\* the message with its client, 0 for a join or a leave.
Notices == [ch : Channels, n : Nat, type : {"user", "join", "leave"},
            from : Clients, k : Nat, stamp : Nat]
Error   == [type |-> "error"]
Entries == [who : Clients, stamp : Nat]

\* cur_msgs is ordered by timestamp.
Sorted(q) == \A i, j \in DOMAIN q : i < j => q[i].stamp <= q[j].stamp

TypeOK ==
    /\ phase \in [Clients -> {"start", "handshake", "chat", "end"}]
    /\ said \in [Clients -> Nat]
    /\ req \in [Clients -> Seq([type : {"join", "message"}, k : Nat, stamp : Nat])]
    /\ wire \in [Clients -> Seq([part : {"head", "body"},
                                 win : Seq(Notices \cup {Error})])]
    /\ shown \in [Clients -> Seq(Notices \cup {Error})]
    /\ unseen \in [Clients -> SUBSET (Notices \cup {Error})]
    /\ lobby \subseteq Clients /\ closed \subseteq Clients
    /\ {join_pool, leave_pool} \subseteq [Channels -> SUBSET Entries]
    /\ members \in [Channels -> SUBSET Clients]
    /\ pc \in [Channels -> {"poll", "events", "send"}]
    /\ {events, todo, half, next_deletion} \subseteq [Channels -> SUBSET Clients]
    /\ {mq, cur_msgs} \subseteq [Channels -> Seq(Notices)]
    /\ heard \in [Channels -> Nat]
    /\ \A c \in Channels : Sorted(cur_msgs[c])
    /\ \A c \in Channels : half[c] \subseteq todo[c] /\ Cardinality(half[c]) <= 1

Init ==
    /\ phase = [x \in Clients |-> "start"]
    /\ said = [x \in Clients |-> 0]
    /\ req = [x \in Clients |-> <<>>] /\ wire = [x \in Clients |-> <<>>]
    /\ shown = [x \in Clients |-> <<>>] /\ unseen = [x \in Clients |-> {}]
    /\ lobby = {} /\ closed = {}
    /\ join_pool = [c \in Channels |-> {}] /\ leave_pool = [c \in Channels |-> {}]
    /\ members = [c \in Channels |-> {}]
    /\ pc = [c \in Channels |-> "poll"]
    /\ events = [c \in Channels |-> {}] /\ todo = [c \in Channels |-> {}]
    /\ half = [c \in Channels |-> {}] /\ next_deletion = [c \in Channels |-> {}]
    /\ mq = [c \in Channels |-> <<>>] /\ cur_msgs = [c \in Channels |-> <<>>]
    /\ heard = [c \in Channels |-> 0]

FrameOf(win) == <<[part |-> "head", win |-> win], [part |-> "body", win |-> win]>>

-----------------------------------------------------------------------------
(* The clients.                                                            *)

\* connect_tcp, and the first join.  A lobby that is full answers at once, and
\* never reads the join.
Connect(x) ==
    /\ phase[x] = "start"
    /\ phase' = [phase EXCEPT ![x] = IF x \in Posix THEN "handshake" ELSE "chat"]
    /\ req' = [req EXCEPT ![x] = <<[type |-> "join", k |-> 0, stamp |-> Now]>>]
    /\ IF Cardinality(lobby) < LobbyMax
       THEN lobby' = lobby \cup {x} /\ UNCHANGED wire
       ELSE wire' = [wire EXCEPT ![x] = FrameOf(<<Error>>)] /\ UNCHANGED lobby
    /\ UNCHANGED <<said, shown, unseen, closed, join_pool, leave_pool, members,
                   tickVars>>

\* A line is typed that is no command.
Say(x) ==
    /\ phase[x] = "chat"
    /\ said[x] < Quota[x]
    /\ said' = [said EXCEPT ![x] = @ + 1]
    /\ \E t \in Stamps :
           req' = [req EXCEPT ![x] =
               Append(@, [type |-> "message", k |-> said'[x], stamp |-> t])]
    /\ UNCHANGED <<phase, shown, unseen, wire, closed, poolVars, tickVars>>

\* A frame is there in full.
FrameReady(x) ==
    /\ Len(wire[x]) >= 2
    /\ wire[x][1].part = "head"
    /\ wire[x][2] = [wire[x][1] EXCEPT !.part = "body"]

IsJoin(m) == m.type = "join"
IsError(m) == m.type = "error"

\* recv_frames and display_message: every notice of the frame is printed.
Show(x) ==
    /\ phase[x] = "chat"
    /\ FrameReady(x)
    /\ shown' = [shown EXCEPT ![x] = @ \o wire[x][1].win]
    /\ wire' = [wire EXCEPT ![x] = SubSeq(@, 3, Len(@))]
    /\ UNCHANGED <<phase, said, unseen, req, closed, poolVars, tickVars>>

\* One recv of the handshake: all frames it has brought are looked through for
\* a join, of whomever, and none is shown; an error ends the program.
Handshake(x) ==
    /\ phase[x] = "handshake"
    /\ \E f \in 1..(Len(wire[x]) \div 2) :
           LET got == FlattenSeq([i \in 1..f |-> wire[x][2 * i].win])
           IN  /\ \A i \in 1..f : wire[x][2 * i] =
                      [wire[x][2 * i - 1] EXCEPT !.part = "body"]
               /\ wire' = [wire EXCEPT ![x] = SubSeq(@, 2 * f + 1, Len(@))]
               /\ unseen' = [unseen EXCEPT ![x] = @ \cup ToSet(got)]
               /\ phase' = [phase EXCEPT ![x] =
                      IF \E i \in DOMAIN got : IsError(got[i]) THEN "end"
                      ELSE IF \E i \in DOMAIN got : IsJoin(got[i]) THEN "chat"
                      ELSE @]
    /\ UNCHANGED <<said, shown, req, closed, poolVars, tickVars>>

\* The program ends: it is stopped ...
End(x) ==
    /\ phase[x] \in {"handshake", "chat"}
    /\ phase' = [phase EXCEPT ![x] = "end"]
    /\ UNCHANGED <<said, shown, unseen, netVars, poolVars, tickVars>>

Quit(x) == x \in Leavers /\ End(x)

\* ... or it has read to the end of a connection that the server has closed.
SeeEnd(x) == x \in closed /\ wire[x] = <<>> /\ End(x)

-----------------------------------------------------------------------------
(* The lobby.                                                              *)

\* on_recv of the lobby: the join moves the client to a channel; what was read
\* with it is for nobody.
LobbyReads(x) ==
    /\ x \in lobby
    /\ \E f \in DOMAIN req[x], c \in Channels :
           /\ req[x][1].type = "join"
           /\ req' = [req EXCEPT ![x] = SubSeq(@, f + 1, Len(@))]
           /\ join_pool' = [join_pool EXCEPT ![c] =
                  @ \cup {[who |-> x, stamp |-> req[x][1].stamp]}]
    /\ lobby' = lobby \ {x}
    /\ UNCHANGED <<clientVars, wire, closed, leave_pool, members, tickVars>>

\* The client is gone, or has not been read from for 5 s.
LobbyDrops(x) ==
    /\ x \in lobby
    /\ lobby' = lobby \ {x}
    /\ closed' = closed \cup {x}
    /\ UNCHANGED <<clientVars, req, wire, join_pool, leave_pool, members, tickVars>>

-----------------------------------------------------------------------------
(* A tick of a channel's worker.                                           *)

Open(x) == x \notin closed

\* Clearing, then epoll.  The variant forgets the window of the last tick.
WindowKept(c)    == cur_msgs[c]
WindowCleared(c) == <<>>

Poll(c) ==
    /\ pc[c] = "poll"
    /\ members[c] # {} \/ join_pool[c] # {} \/ mq[c] # <<>>
    /\ pc' = [pc EXCEPT ![c] = "events"]
    /\ next_deletion' = [next_deletion EXCEPT ![c] = {}]
    /\ cur_msgs' = [cur_msgs EXCEPT ![c] = WindowCleared(c)]
    /\ events' = [events EXCEPT ![c] =
           {x \in members[c] : Open(x) /\ (req[x] # <<>> \/ phase[x] = "end")}]
    /\ UNCHANGED <<clientVars, netVars, poolVars, mq, todo, half, heard>>

\* The notices that s, a sequence of records, makes in channel c.
Numbered(c, s) ==
    [i \in DOMAIN s |-> [ch |-> c, n |-> heard[c] + i, type |-> s[i].type,
                         from |-> s[i].from, k |-> s[i].k, stamp |-> s[i].stamp]]

Push(c, s) ==
    /\ mq' = [mq EXCEPT ![c] = @ \o Numbered(c, s)]
    /\ heard' = [heard EXCEPT ![c] = @ + Len(s)]

\* on_recv: some of the frames under way have been read, messages are heard.
MessagesIn(x, fs) ==
    FlattenSeq([i \in DOMAIN fs |->
        IF fs[i].type = "message"
        THEN <<[type |-> "user", from |-> x, k |-> fs[i].k, stamp |-> fs[i].stamp]>>
        ELSE <<>>])

Hear(c, x) ==
    /\ pc[c] = "events"
    /\ x \in events[c]
    /\ events' = [events EXCEPT ![c] = @ \ {x}]
    /\ \E f \in DOMAIN req[x] :
           /\ req' = [req EXCEPT ![x] = SubSeq(@, f + 1, Len(@))]
           /\ Push(c, MessagesIn(x, SubSeq(req[x], 1, f)))
    /\ UNCHANGED <<clientVars, wire, closed, poolVars, pc, cur_msgs, todo, half,
                   next_deletion>>

\* The end of the connection, or an error of it.
HearEnd(c, x) ==
    /\ pc[c] = "events"
    /\ x \in events[c]
    /\ phase[x] = "end" \/ ~Open(x)
    /\ events' = [events EXCEPT ![c] = @ \ {x}]
    /\ next_deletion' = [next_deletion EXCEPT ![c] = @ \cup {x}]
    /\ UNCHANGED <<clientVars, netVars, poolVars, pc, mq, cur_msgs, todo, half, heard>>

\* cur_msgs is a multimap: the key is the timestamp, and a notice goes behind those
\* with the same key.  The variants put it before them, or do not sort.
BeforeReversed(m, p) == m.stamp < p.stamp \/ (m.stamp = p.stamp /\ m.n > p.n)
BeforeUnsorted(m, p) == m.n < p.n
Before(m, p) == m.stamp < p.stamp \/ (m.stamp = p.stamp /\ m.n < p.n)

\* emplace takes every notice; the variant is that of a map, which keeps the first
\* of a key.
EmplacedOnce(S) == {m \in S : \A p \in S : p.stamp = m.stamp => m.n <= p.n}
Emplaced(S) == S

Windows(S) == {w \in SetToSeqs(Emplaced(S)) :
                   \A i, j \in DOMAIN w : i < j => Before(w[i], w[j])}

System(type, e) == [type |-> type, from |-> e.who, k |-> 0, stamp |-> e.stamp]

\* resolve_timestamps takes all that is in mq; the variant what was there before
\* resolve_pool.
PoppedEarly(before, all) == before
Popped(before, all) == all

\* The variant lets a window through that is too large.
TooLargeOffByOne(win) == Len(win) >= MaxFrame
TooLarge(win) == Len(win) > MaxFrame

\* resolve_pool, resolve_timestamps and the making of the window.  add_client
\* and delete_client throw for who is closed or in already, or not in.
Resolve(c) ==
    /\ pc[c] = "events"
    /\ events[c] = {}
    /\ LET new  == {e \in join_pool[c] : Open(e.who) /\ e.who \notin members[c]}
           now  == members[c] \cup {e.who : e \in new}
           gone == {e \in leave_pool[c] : Open(e.who) /\ e.who \in now}
       IN  /\ members' = [members EXCEPT ![c] = now \ {e.who : e \in gone}]
           /\ \E joins \in SetToSeqs(new), leaves \in SetToSeqs(gone) :
                  LET made == [i \in DOMAIN joins |-> System("join", joins[i])]
                              \o [i \in DOMAIN leaves |-> System("leave", leaves[i])]
                      all == mq[c] \o Numbered(c, made)
                      p   == Popped(Len(mq[c]), Len(all))
                      in  == ToSet(cur_msgs[c]) \cup ToSet(SubSeq(all, 1, p))
                  IN  /\ heard' = [heard EXCEPT ![c] = @ + Len(made)]
                      /\ mq' = [mq EXCEPT ![c] = SubSeq(all, p + 1, Len(all))]
                      /\ \E w \in Windows(in) : cur_msgs' = [cur_msgs EXCEPT ![c] = w]
    /\ join_pool' = [join_pool EXCEPT ![c] = {}]
    /\ leave_pool' = [leave_pool EXCEPT ![c] = {}]
    /\ IF TooLarge(cur_msgs'[c])
       THEN /\ next_deletion' = [next_deletion EXCEPT ![c] = @ \cup members'[c]]
            /\ UNCHANGED todo
       ELSE /\ todo' = [todo EXCEPT ![c] = members'[c]]
            /\ UNCHANGED next_deletion
    /\ pc' = [pc EXCEPT ![c] = "send"]
    /\ UNCHANGED <<clientVars, netVars, lobby, events, half>>

Sending(c, x) ==
    /\ pc[c] = "send"
    /\ x \in todo[c]
    /\ half[c] \subseteq {x}

\* send_frame, of the header ...
SendHead(c, x) ==
    /\ Sending(c, x) /\ half[c] = {}
    /\ phase[x] # "end" /\ Open(x)
    /\ Len(wire[x]) < 2 * Buffer
    /\ wire' = [wire EXCEPT ![x] = Append(@, [part |-> "head", win |-> cur_msgs[c]])]
    /\ half' = [half EXCEPT ![c] = {x}]
    /\ UNCHANGED <<clientVars, req, closed, poolVars, pc, events, mq, cur_msgs, todo,
                   next_deletion, heard>>

\* ... and of the payload.
SendBody(c, x) ==
    /\ Sending(c, x) /\ half[c] = {x}
    /\ phase[x] # "end" /\ Open(x)
    /\ Len(wire[x]) < 2 * Buffer
    /\ wire' = [wire EXCEPT ![x] = Append(@, [part |-> "body", win |-> cur_msgs[c]])]
    /\ half' = [half EXCEPT ![c] = {}]
    /\ todo' = [todo EXCEPT ![c] = @ \ {x}]
    /\ UNCHANGED <<clientVars, req, closed, poolVars, pc, events, mq, cur_msgs,
                   next_deletion, heard>>

\* To who is gone a send goes into the void, or fails.
SendLost(c, x) ==
    /\ Sending(c, x)
    /\ phase[x] = "end" \/ ~Open(x)
    /\ todo' = [todo EXCEPT ![c] = @ \ {x}]
    /\ half' = [half EXCEPT ![c] = {}]
    /\ \/ next_deletion' = [next_deletion EXCEPT ![c] = @ \cup {x}]
       \/ Open(x) /\ UNCHANGED next_deletion
    /\ UNCHANGED <<clientVars, netVars, poolVars, pc, events, mq, cur_msgs, heard>>

\* resolve_deletion.
Delete(c) ==
    /\ pc[c] = "send"
    /\ todo[c] = {}
    /\ \E order \in SetToSeqs({[who |-> x, stamp |-> Now] : x \in next_deletion[c]}) :
           Push(c, [i \in DOMAIN order |-> System("leave", order[i])])
    /\ members' = [members EXCEPT ![c] = @ \ next_deletion[c]]
    /\ closed' = closed \cup next_deletion[c]
    /\ pc' = [pc EXCEPT ![c] = "poll"]
    /\ UNCHANGED <<clientVars, req, wire, lobby, join_pool, leave_pool, events,
                   cur_msgs, todo, half, next_deletion>>

-----------------------------------------------------------------------------
Client(x) == Connect(x) \/ Say(x) \/ Quit(x)
Reader(x) == Show(x) \/ Handshake(x) \/ SeeEnd(x)
Lobby     == \E x \in Clients : LobbyReads(x) \/ LobbyDrops(x)
Worker(c) ==
    \/ Poll(c) \/ Resolve(c) \/ Delete(c)
    \/ \E x \in Clients : \/ Hear(c, x) \/ HearEnd(c, x)
                          \/ SendHead(c, x) \/ SendBody(c, x) \/ SendLost(c, x)

Next ==
    \/ \E x \in Clients : Client(x) \/ Reader(x)
    \/ Lobby
    \/ \E c \in Channels : Worker(c)

Spec == Init /\ [][Next]_vars

\* The clients read, the threads run.
Fairness ==
    /\ \A x \in Clients : WF_vars(Reader(x))
    /\ \A c \in Channels : WF_vars(Worker(c))
    /\ WF_vars(Lobby)

FairSpec == Spec /\ Fairness

-----------------------------------------------------------------------------
(* What the people in a channel may rely on.                               *)

\* All that has been sent to x in whole frames, or is under way.
Received(x) ==
    ToSet(shown[x]) \cup unseen[x]
        \cup UNION {ToSet(wire[x][i].win) : i \in {i \in DOMAIN wire[x] :
                                                  wire[x][i].part = "body"}}
NumbersAt(x, c) == {m.n : m \in {m \in Received(x) : ~IsError(m) /\ m.ch = c}}

\* Two messages of one sender stand on a screen in the order in which they were
\* sent, unless the second bears an earlier time (chat_server.cpp:44: equal
\* times are the usual case).
SenderInOrder ==
    \A y \in Clients : \A i, j \in DOMAIN shown[y] :
        (/\ i < j
         /\ shown[y][i].type = "user" /\ shown[y][j].type = "user"
         /\ shown[y][i].from = shown[y][j].from)
            => \/ shown[y][i].k < shown[y][j].k
               \/ shown[y][i].stamp < shown[y][j].stamp

\* What is on two screens is there in the same order, and nothing is on a screen
\* twice (chat_server.cpp:9, 86).
ScreensAgree ==
    \A y, z \in Clients :
        \A i, j \in DOMAIN shown[y], p, q \in DOMAIN shown[z] :
            i < j /\ shown[y][i] = shown[z][p] /\ shown[y][j] = shown[z][q] => p < q

\* A client gets the notices of a channel without a gap, from its first window on
\* (channel.cpp:93-144, chat_server.cpp:38-46).
NoGap ==
    \A x \in Clients, c \in Channels :
        \A a, b \in NumbersAt(x, c) : a..b \subseteq NumbersAt(x, c)

\* The first window a client gets has its own join: the handshake ends with it
\* (channel.cpp:9, 122-123, client.cpp:257).
JoinIsFirst(x) ==
    \A i \in (DOMAIN wire'[x]) \ DOMAIN wire[x] :
        \/ \E m \in Received(x) : IsJoin(m) /\ m.from = x
        \/ \E k \in DOMAIN wire'[x][i].win :
               LET m == wire'[x][i].win[k]
               IN  IsError(m) \/ (IsJoin(m) /\ m.from = x)

AnsweredFirst == [][\A x \in Clients : JoinIsFirst(x)]_vars

\* Somebody who is still there is given up only together with the whole channel,
\* for a window that no frame holds (communication.cpp:58, chat_server.cpp:86).
GivenUp(c) == {x \in next_deletion'[c] \ next_deletion[c] : phase[x] # "end" /\ Open(x)}

GivenUpTogether ==
    [][\A c \in Channels : GivenUp(c) # {} =>
           members'[c] \subseteq next_deletion'[c] /\ Len(cur_msgs'[c]) > MaxFrame]_vars

\* A message of a member comes to the screen of every member who is past the
\* handshake, if both stay and are not given up (chat_server.h:12).
SaidTo(c, x, y) == {x, y} \subseteq members[c] /\ phase[x] = "chat" /\ phase[y] = "chat"
Lost(x) == phase[x] = "end" \/ ~Open(x)

MessageShown ==
    \A c \in Channels, x, y \in Clients : \A k \in 1..Quota[x] :
        (SaidTo(c, x, y) /\ \E i \in DOMAIN req[x] : req[x][i].k = k)
            ~> (\/ \E i \in DOMAIN shown[y] : /\ ~IsError(shown[y][i])
                                            /\ shown[y][i].from = x
                                            /\ shown[y][i].k = k
                \/ Lost(x) \/ Lost(y))
=============================================================================

------------------------------ MODULE FrameStream ------------------------------
(***************************************************************************)
(* Communication (src/libs/communication.cpp): how the bytes of a          *)
(* connection become frames again, in the hands of a lobby and channels    *)
(* that hand the connection over while bytes are on their way.  Each       *)
(* server object has a Communication of its own, with an accumulation      *)
(* buffer per descriptor number.  One number is modelled; the connections  *)
(* have it one after the other.                                            *)
(*                                                                         *)
(* A byte is known by the connection, the frame and the place in the frame *)
(* it belongs to, header included: that tells bytes lost, mixed up or read *)
(* twice from bytes in order, and nothing else matters of them.            *)
(*                                                                         *)
(* Places of a server: "wait" in epoll, or anywhere else outside           *)
(* recv_frame, "recv" and "parse" in its two loops, "frames" in the loop   *)
(* of on_recv over what it has returned.                                   *)
(***************************************************************************)
EXTENDS Naturals, FiniteSets, SequencesExt

CONSTANTS
    Count,          \* connections that have the number, one after the other
    Channels,       \* channels
    Lobby,          \* the ChannelServer
    HeaderSize,     \* bytes of a header (4)
    BufSize,        \* bytes one recv takes at most (4096)
    MaxFrame,       \* MAX_FRAME_SIZE
    Lengths,        \* lengths of the frames the clients send
    Quota,          \* bound: connection -> frames its client sends
    Moves,          \* bound: connection -> how many of them are joins
    Awaits          \* what a client that has sent a join waits for: "answer",
                    \* or "move", that the server it was at has let go of it

\* Connections are numbered in the order in which they get the number; 0 is none.
Conns  == 1..Count
NoConn == 0

ASSUME FrameAssumption ==
    /\ {Count, HeaderSize, BufSize, MaxFrame} \subseteq Nat \ {0}
    /\ Quota \in [Conns -> Nat] /\ Moves \in [Conns -> Nat]
    /\ Lengths \subseteq 0..(MaxFrame + 1)
    /\ Lobby \notin Channels
    /\ Awaits \in {"answer", "move"}

Servers == {Lobby} \cup Channels

VARIABLES
    sent,       \* connection -> frames its client has sent
    net,        \* connection -> bytes under way to the server
    rx,         \* connection -> bytes in the socket's receive buffer
    peer,       \* connection -> "new", "up", "closed", "reset", or "over"
    answered,   \* connection -> joins that have been answered
    holder,     \* the connection that has the number, or NoConn
    watch,      \* servers whose epoll instance has the number
    taking,     \* channels that have the number in join_pool
    dropping,   \* channels that have it in leave_pool
    condemned,  \* servers that have it in next_deletion
    pc,         \* server -> where it is
    rbuf,       \* server -> Communication::rbuf of the number
    filled,     \* server -> this recv_frame has read a full buffer
    batch,      \* server -> frames recv_frame has parsed
    handled,    \* connection -> frames on_frame was called with
    ended       \* connection -> why a server condemned it, "no" if none did

clientSide == <<sent, net, peer, answered>>
places     == <<holder, watch, taking, dropping>>
reading    == <<pc, rbuf, filled, batch>>
vars == <<clientSide, rx, places, condemned, reading, handled, ended>>

\* A frame: its length and whether it is a join (or a switch).
Frames == [len : Lengths, move : BOOLEAN]
Bytes  == [con : Conns, frame : Nat \ {0}, at : 1..(HeaderSize + MaxFrame + 1)]

BytesOf(x, k, f) ==
    [i \in 1..(HeaderSize + f.len) |-> [con |-> x, frame |-> k, at |-> i]]

\* What on_frame gets: a frame of a client that is not empty, or something else
\* made of pieces.
Garbage == [con |-> NoConn, frame |-> 0]
Parsed  == {Garbage} \cup
    UNION {{[con |-> x, frame |-> k] :
                k \in {k \in DOMAIN sent[x] : sent[x][k].len # 0}} : x \in Conns}

TypeOK ==
    /\ sent \in [Conns -> Seq(Frames)]
    /\ {net, rx} \subseteq [Conns -> Seq(Bytes)]
    /\ peer \in [Conns -> {"new", "up", "closed", "reset", "over"}]
    /\ answered \in [Conns -> Nat]
    /\ holder \in Conns \cup {NoConn}
    /\ watch \subseteq Servers /\ condemned \subseteq Servers
    /\ taking \subseteq Channels /\ dropping \subseteq Channels
    /\ pc \in [Servers -> {"wait", "recv", "parse", "frames"}]
    /\ rbuf \in [Servers -> Seq(Bytes)]
    /\ filled \in [Servers -> BOOLEAN]
    /\ batch \in [Servers -> Seq(Parsed)]
    /\ handled \in [Conns -> Seq(Parsed)]
    /\ ended \in [Conns -> {"no", "fin", "reset", "bad", "thrown", "late"}]

Init ==
    /\ sent = [x \in Conns |-> <<>>]
    /\ net = [x \in Conns |-> <<>>] /\ rx = [x \in Conns |-> <<>>]
    /\ peer = [x \in Conns |-> "new"]
    /\ answered = [x \in Conns |-> 0]
    /\ holder = NoConn
    /\ watch = {} /\ taking = {} /\ dropping = {} /\ condemned = {}
    /\ pc = [s \in Servers |-> "wait"]
    /\ rbuf = [s \in Servers |-> <<>>]
    /\ filled = [s \in Servers |-> FALSE]
    /\ batch = [s \in Servers |-> <<>>]
    /\ handled = [x \in Conns |-> <<>>]
    /\ ended = [x \in Conns |-> "no"]

-----------------------------------------------------------------------------
(* The clients and the network.                                            *)

MovesOf(x) == Cardinality({k \in DOMAIN sent[x] : sent[x][k].move})

\* send_frame: the first frame is a join.
Send(x) ==
    /\ peer[x] = "up"
    /\ Len(sent[x]) < Quota[x]
    /\ answered[x] = MovesOf(x)
    /\ Awaits = "move" => dropping = {}
    /\ \E f \in Frames :
           /\ sent[x] = <<>> => f.move
           /\ f.move => f.len > 0 /\ MovesOf(x) < Moves[x]
           /\ sent' = [sent EXCEPT ![x] = Append(@, f)]
           /\ net' = [net EXCEPT ![x] = @ \o BytesOf(x, Len(sent'[x]), f)]
    /\ UNCHANGED <<rx, peer, answered, places, condemned, reading, handled, ended>>

\* The network delivers some bytes, in order.
Arrive(x) ==
    /\ peer[x] \in {"up", "closed"}
    /\ \E n \in 1..Len(net[x]) :
           /\ rx' = [rx EXCEPT ![x] = @ \o SubSeq(net[x], 1, n)]
           /\ net' = [net EXCEPT ![x] = SubSeq(@, n + 1, Len(@))]
    /\ UNCHANGED <<sent, peer, answered, places, condemned, reading, handled, ended>>

\* The client closes, after which what it has sent still arrives ...
CloseEnd(x) ==
    /\ peer[x] = "up"
    /\ peer' = [peer EXCEPT ![x] = "closed"]
    /\ UNCHANGED <<sent, net, rx, answered, places, condemned, reading, handled, ended>>

\* ... or its connection is reset, and it does not.
Reset(x) ==
    /\ peer[x] \in {"up", "closed"}
    /\ peer' = [peer EXCEPT ![x] = "reset"]
    /\ net' = [net EXCEPT ![x] = <<>>]
    /\ rx' = [rx EXCEPT ![x] = <<>>]
    /\ UNCHANGED <<sent, answered, places, condemned, reading, handled, ended>>

\* A client connects and the lobby accepts it under the number.
Accept(x) ==
    /\ peer[x] = "new"
    /\ holder = NoConn
    /\ \A y \in 1..(x - 1) : peer[y] = "over"
    /\ pc[Lobby] = "wait"
    /\ holder' = x
    /\ watch' = {Lobby}
    /\ peer' = [peer EXCEPT ![x] = "up"]
    /\ UNCHANGED <<sent, net, rx, answered, taking, dropping, condemned, reading,
                   handled, ended>>

-----------------------------------------------------------------------------
(* recv_frame.                                                             *)

\* The peer has closed and there is nothing left to read.
AtEnd(x) == peer[x] = "closed" /\ rx[x] = <<>> /\ net[x] = <<>>

\* Server s gives the connection up for the reason why.
CondemnFor(s, why) ==
    /\ condemned' = condemned \cup {s}
    /\ ended' = [x \in Conns |->
           IF x = holder /\ ended[x] = "no" THEN why ELSE ended[x]]

\* recv_frame throws: on_recv catches, what it has parsed is lost.
Throw(s, why) ==
    /\ CondemnFor(s, why)
    /\ pc' = [pc EXCEPT ![s] = "wait"]
    /\ batch' = [batch EXCEPT ![s] = <<>>]
    /\ UNCHANGED filled

\* epoll reports the number to s and on_recv calls recv_frame.
StartRead(s) ==
    /\ pc[s] = "wait"
    /\ s \in watch \ condemned
    /\ rx[holder] # <<>> \/ AtEnd(holder)
    /\ pc' = [pc EXCEPT ![s] = "recv"]
    /\ filled' = [filled EXCEPT ![s] = FALSE]
    /\ UNCHANGED <<clientSide, rx, places, condemned, rbuf, batch, handled, ended>>

\* EPOLLERR, or recv fails: also when another server has closed the number.
ReadFails(s) ==
    /\ \/ pc[s] = "wait" /\ s \in watch \ condemned /\ peer[holder] = "reset"
       \/ pc[s] = "recv" /\ (holder # NoConn => peer[holder] = "reset")
    /\ Throw(s, "reset")
    /\ UNCHANGED <<clientSide, rx, places, rbuf, handled>>

\* recv returns 0: the exception leaves the bytes of earlier turns in rbuf.
RecvEnd(s) ==
    /\ pc[s] = "recv" /\ holder # NoConn
    /\ AtEnd(holder)
    /\ Throw(s, "fin")
    /\ UNCHANGED <<clientSide, rx, places, rbuf, handled>>

\* recv returns n bytes: as many as there are and as fit.  The variant goes on
\* after a short read as well.
ReadsOnAlways(n) == TRUE
ReadsOn(n) == n = BufSize

RecvBytes(s) ==
    /\ pc[s] = "recv" /\ holder # NoConn
    /\ rx[holder] # <<>>
    /\ LET n == IF Len(rx[holder]) < BufSize THEN Len(rx[holder]) ELSE BufSize
       IN  /\ rbuf' = [rbuf EXCEPT ![s] = @ \o SubSeq(rx[holder], 1, n)]
           /\ rx' = [rx EXCEPT ![holder] = SubSeq(@, n + 1, Len(@))]
           /\ filled' = [filled EXCEPT ![s] = @ \/ n = BufSize]
           /\ pc' = [pc EXCEPT ![s] = IF ReadsOn(n) THEN "recv" ELSE "parse"]
    /\ UNCHANGED <<clientSide, places, condemned, batch, handled, ended>>

\* recv returns EAGAIN: after a full buffer, or because another server has read
\* what epoll announced.
RecvAgain(s) ==
    /\ pc[s] = "recv" /\ holder # NoConn
    /\ rx[holder] = <<>> /\ peer[holder] # "reset" /\ ~AtEnd(holder)
    /\ pc' = [pc EXCEPT ![s] = "parse"]
    /\ UNCHANGED <<clientSide, rx, places, condemned, rbuf, filled, batch, handled,
                   ended>>

\* The bytes begin with the header of a frame.
Aligned(b) ==
    /\ b # <<>>
    /\ \A i \in 1..Len(b) :
           i <= HeaderSize => b[i] = [b[1] EXCEPT !.at = i]

\* What stoul makes of the first bytes: the length of the frame, or, when they
\* are no header, any number; or it throws.
NoNumber == MaxFrame + 2
HeaderValues(b) ==
    IF Aligned(b) THEN {sent[b[1].con][b[1].frame].len}
    ELSE 0..(MaxFrame + 1) \cup {NoNumber}

\* The variant refuses a frame of the size that is just allowed.
TooLargeOffByOne(n) == n >= MaxFrame
TooLarge(n) == n > MaxFrame

\* The frame that the first bytes of b, n of them after the header, make.
FrameAt(b, n) ==
    LET f == SubSeq(b, 1, HeaderSize + n)
    IN  IF f = BytesOf(b[1].con, b[1].frame, [len |-> n])
        THEN [con |-> b[1].con, frame |-> b[1].frame]
        ELSE Garbage

\* After a frame the loop goes on; the variant returns with the first frame.
AfterOneFrame == "frames"
AfterFrame    == "parse"

\* The variant hands on empty frames as well.
EmptyToo(n) == TRUE
HandedOn(n) == n # 0

\* A turn of the second loop: an invalid header or a frame too large throws, an
\* empty frame is dropped, a frame that is there in full is taken off.
Parse(s) ==
    /\ pc[s] = "parse"
    /\ Len(rbuf[s]) >= HeaderSize
    /\ \E n \in HeaderValues(rbuf[s]) :
           \/ /\ TooLarge(n)
              /\ Throw(s, "bad")
              /\ UNCHANGED rbuf
           \/ /\ ~TooLarge(n)
              /\ Len(rbuf[s]) >= HeaderSize + n
              /\ rbuf' = [rbuf EXCEPT ![s] = SubSeq(@, HeaderSize + n + 1, Len(@))]
              /\ batch' = [batch EXCEPT ![s] =
                     IF HandedOn(n) THEN Append(@, FrameAt(rbuf[s], n)) ELSE @]
              /\ pc' = [pc EXCEPT ![s] = AfterFrame]
              /\ UNCHANGED <<filled, condemned, ended>>
           \/ /\ ~TooLarge(n)
              /\ Len(rbuf[s]) < HeaderSize + n
              /\ pc' = [pc EXCEPT ![s] = "frames"]
              /\ UNCHANGED <<rbuf, filled, batch, condemned, ended>>
    /\ UNCHANGED <<clientSide, rx, places, handled>>

\* Less than a header is left.
ParseEnds(s) ==
    /\ pc[s] = "parse"
    /\ Len(rbuf[s]) < HeaderSize
    /\ pc' = [pc EXCEPT ![s] = "frames"]
    /\ UNCHANGED <<clientSide, rx, places, condemned, rbuf, filled, batch, handled,
                   ended>>

-----------------------------------------------------------------------------
(* on_frame, and who has the number next.                                  *)

IsMove(p) == p # Garbage /\ sent[p.con][p.frame].move
NextFrame(s) == pc[s] = "frames" /\ batch[s] # <<>>

TakeFrame(s) ==
    /\ batch' = [batch EXCEPT ![s] = Tail(@)]
    /\ LET f == Head(batch[s])
           owner == IF f = Garbage THEN holder ELSE f.con
       IN  handled' = [x \in Conns |->
               IF x = owner THEN Append(handled[x], f) ELSE handled[x]]

FramesDone(s) ==
    /\ pc[s] = "frames"
    /\ batch[s] = <<>>
    /\ pc' = [pc EXCEPT ![s] = "wait"]
    /\ UNCHANGED <<clientSide, rx, places, condemned, rbuf, filled, batch, handled,
                   ended>>

\* A message, or something that is no JSON; the lobby does nothing with either.
OnFrame(s) ==
    /\ NextFrame(s) /\ ~IsMove(Head(batch[s]))
    /\ TakeFrame(s)
    /\ UNCHANGED <<clientSide, rx, places, condemned, pc, rbuf, filled, ended>>

\* A first join: the lobby puts the number into the pool of a channel and lets
\* go of it.  (It has it: the client has sent nothing since.)
OnJoin(c) ==
    /\ NextFrame(Lobby) /\ IsMove(Head(batch[Lobby]))
    /\ Lobby \in watch
    /\ TakeFrame(Lobby)
    /\ taking' = taking \cup {c}
    /\ watch' = watch \ {Lobby}
    /\ UNCHANGED <<clientSide, rx, holder, dropping, condemned, pc, rbuf, filled,
                   ended>>

\* A switch: in the end the number is in the pools of the one channel and the
\* other.
OnSwitch(c, d) ==
    /\ NextFrame(c) /\ IsMove(Head(batch[c]))
    /\ TakeFrame(c)
    /\ taking' = taking \cup {d}
    /\ dropping' = dropping \cup {c}
    /\ UNCHANGED <<clientSide, rx, holder, watch, condemned, pc, rbuf, filled, ended>>

\* resolve_pool takes the number in, and the broadcast answers the join; or it
\* is closed, or watched already, and the entry is forgotten.
TakeIn(c) ==
    /\ pc[c] = "wait"
    /\ c \in taking
    /\ taking' = taking \ {c}
    /\ IF holder # NoConn /\ c \notin watch
       THEN /\ watch' = watch \cup {c}
            /\ answered' = [answered EXCEPT ![holder] = @ + 1]
       ELSE UNCHANGED <<watch, answered>>
    /\ UNCHANGED <<sent, net, peer, rx, holder, dropping, condemned, reading, handled,
                   ended>>

\* resolve_pool lets the number go.  What is in rbuf stays there.
LetGo(c) ==
    /\ pc[c] = "wait"
    /\ c \in dropping
    /\ dropping' = dropping \ {c}
    /\ watch' = watch \ {c}
    /\ UNCHANGED <<clientSide, rx, holder, taking, condemned, reading, handled, ended>>

\* check_lobby: 5 s without a join.
TimeOut ==
    /\ pc[Lobby] = "wait"
    /\ Lobby \in watch
    /\ CondemnFor(Lobby, "late")
    /\ UNCHANGED <<clientSide, rx, places, reading, handled>>

\* clear_buffer; the variant forgets it.
ClearNothing(s) == UNCHANGED rbuf
clear_buffer(s) == rbuf' = [rbuf EXCEPT ![s] = <<>>]

\* resolve_deletion: the number is closed and free again.  The lobby does so
\* only if delete_client has found it.
Delete(s) ==
    /\ pc[s] = "wait"
    /\ s \in condemned
    /\ condemned' = condemned \ {s}
    /\ IF s = Lobby /\ Lobby \notin watch
       THEN UNCHANGED <<clientSide, rx, holder, watch, rbuf>>
       ELSE /\ clear_buffer(s)
            /\ holder' = NoConn
            /\ watch' = {}
            /\ peer' = [x \in Conns |-> IF x = holder THEN "over" ELSE peer[x]]
            /\ rx' = [x \in Conns |-> IF x = holder THEN <<>> ELSE rx[x]]
            /\ net' = [x \in Conns |-> IF x = holder THEN <<>> ELSE net[x]]
            /\ UNCHANGED <<sent, answered>>
    /\ UNCHANGED <<taking, dropping, pc, filled, batch, handled, ended>>

-----------------------------------------------------------------------------
Client(x) == Send(x) \/ CloseEnd(x) \/ Reset(x) \/ Accept(x)

Server(s) ==
    \/ StartRead(s) \/ ReadFails(s)
    \/ RecvEnd(s) \/ RecvBytes(s) \/ RecvAgain(s)
    \/ Parse(s) \/ ParseEnds(s)
    \/ OnFrame(s) \/ FramesDone(s) \/ Delete(s)

Lobbying == \/ \E c \in Channels : OnJoin(c)
            \/ Server(Lobby)

Working(c) == \/ TakeIn(c) \/ LetGo(c) \/ Server(c)
              \/ \E d \in Channels \ {c} : OnSwitch(c, d)

Next ==
    \/ \E x \in Conns : Client(x) \/ Arrive(x)
    \/ Lobbying \/ TimeOut
    \/ \E c \in Channels : Working(c)

Spec == Init /\ [][Next]_vars

\* Threads get the processor and bytes arrive.
Fairness ==
    /\ WF_vars(Lobbying)
    /\ \A c \in Channels : WF_vars(Working(c))
    /\ \A x \in Conns : WF_vars(Arrive(x))

FairSpec == Spec /\ Fairness

-----------------------------------------------------------------------------
(* What the two ends may rely on.                                          *)

\* The frames 1..k of x that on_frame is to see: an empty one is no frame.
FramesOf(x, k) ==
    FlattenSeq([i \in 1..k |-> IF sent[x][i].len = 0 THEN <<>>
                               ELSE <<[con |-> x, frame |-> i]>>])

\* The bytes of the frames of x after the k-th.
BytesAfter(x, k) ==
    FlattenSeq([i \in 1..(Len(sent[x]) - k) |-> BytesOf(x, k + i, sent[x][k + i])])

\* What all servers together have of q, if only one of them has any.
InHand(q) == LET has == {s \in Servers : q[s] # <<>>}
             IN  IF has = {} THEN <<>> ELSE q[CHOOSE s \in has : TRUE]

\* As long as nobody gives the connection up, every byte the client has sent is
\* in exactly one place, in order: in the frames handed on, in the buffer of one
\* server, in the socket or under way; and the frames handed on are those that
\* were sent, whatever pieces they came in and whoever read them
\* (communication.cpp:18-51, server_base.cpp:185).
ReadWhole ==
    \A x \in Conns :
        holder = x /\ ended[x] = "no" /\ peer[x] \in {"up", "closed"} =>
            \E k \in 0..Len(sent[x]) :
                /\ handled[x] \o InHand(batch) = FramesOf(x, k)
                /\ InHand(rbuf) \o rx[x] \o net[x] = BytesAfter(x, k)

\* The accumulation buffer is per connection (communication.h:18): a server that
\* does not have the connection has no bytes of it, nor of an earlier one under
\* the same number.
BufferFollows == \A s \in Servers : rbuf[s] # <<>> => s \in watch

\* No frame that has been read waits in the buffer for another to arrive: epoll
\* would not tell of it (communication.cpp:30).
NoFrameWaits ==
    \A s \in Servers :
        pc[s] = "wait" /\ s \notin condemned /\ Len(rbuf[s]) >= HeaderSize =>
            \A n \in HeaderValues(rbuf[s]) : Len(rbuf[s]) < HeaderSize + n

\* Nobody is thrown out as malformed who has sent well formed frames of the size
\* allowed (communication.cpp:33-39).
BadIsBad ==
    \A x \in Conns :
        ended[x] = "bad" => \E k \in DOMAIN sent[x] : sent[x][k].len > MaxFrame

\* A client that closes after its last frame loses frames only if recv_frame has
\* just read a full buffer and looks for more (communication.cpp:23, 27).
FinLosesLittle ==
    \A s \in Servers, x \in Conns :
        holder = x /\ s \in condemned' \ condemned /\ ended[x] = "no" /\ ended'[x] = "fin"
            => filled[s] \/ handled[x] = FramesOf(x, Len(sent[x]))

FinLosesOnlyAfterFull == [][FinLosesLittle]_vars

\* What a client has sent is handled in the end, unless the client goes away, is
\* thrown out for not having joined in time, or sends a frame that is too large:
\* that takes frames read with it down as well (communication.cpp:39,
\* server_base.cpp:189).
FrameArrives ==
    \A x \in Conns :
        (peer[x] = "up" /\ handled[x] # FramesOf(x, Len(sent[x])))
            ~> (\/ handled[x] = FramesOf(x, Len(sent[x]))
                \/ peer[x] \in {"closed", "reset"} \/ ended[x] = "late"
                \/ \E i \in DOMAIN sent[x] : sent[x][i].len > MaxFrame)
=============================================================================

------------------------------ MODULE ChatSwitch ------------------------------
(***************************************************************************)
(* ChatWindow with clients that switch between channels.  From the moment  *)
(* the one channel takes a client in until the other lets it go, the       *)
(* workers of both send to it; the main thread sends to it when it refuses *)
(* the switch.                                                             *)
(***************************************************************************)
EXTENDS ChatWindow

CONSTANT ChMax      \* clients a channel has room for

VARIABLE report     \* client -> "none", "join": a report of it is in the queue,
                    \* "half": the header of the refusal has been sent

switchVars == <<vars, report>>

SwitchInit == Init /\ report = [x \in Clients |-> "none"]

\* The client asks for another channel, and its channel reports it.
Ask(x) ==
    /\ phase[x] = "chat"
    /\ \E c \in Channels : x \in members[c] /\ pc[c] = "events"
    /\ report[x] = "none"
    /\ report' = [report EXCEPT ![x] = "join"]
    /\ UNCHANGED vars

\* ping_pool.
Room(d) == Cardinality(members[d]) + Cardinality(join_pool[d]) < ChMax

\* consume_report: the client is put into the pools of both channels ...
Move(x, c, d) ==
    /\ report[x] = "join"
    /\ x \in members[c] \ members[d]
    /\ Room(d)
    /\ report' = [report EXCEPT ![x] = "none"]
    /\ join_pool' = [join_pool EXCEPT ![d] = @ \cup {[who |-> x, stamp |-> Now]}]
    /\ leave_pool' = [leave_pool EXCEPT ![c] = @ \cup {[who |-> x, stamp |-> Now]}]
    /\ UNCHANGED <<clientVars, netVars, lobby, members, tickVars>>

\* ... or told that the other one is full, in two sends.
RefuseHead(x) ==
    /\ report[x] = "join" /\ Open(x)
    /\ \E d \in Channels : x \notin members[d] /\ ~Room(d)
    /\ Len(wire[x]) < 2 * Buffer
    /\ report' = [report EXCEPT ![x] = "half"]
    /\ wire' = [wire EXCEPT ![x] = Append(@, FrameOf(<<Error>>)[1])]
    /\ UNCHANGED <<clientVars, req, closed, poolVars, tickVars>>

RefuseBody(x) ==
    /\ report[x] = "half" /\ Open(x)
    /\ Len(wire[x]) < 2 * Buffer
    /\ report' = [report EXCEPT ![x] = "none"]
    /\ wire' = [wire EXCEPT ![x] = Append(@, FrameOf(<<Error>>)[2])]
    /\ UNCHANGED <<clientVars, req, closed, poolVars, tickVars>>

SwitchNext ==
    \/ Next /\ UNCHANGED report
    \/ \E x \in Clients :
           \/ Ask(x) \/ RefuseHead(x) \/ RefuseBody(x)
           \/ \E c, d \in Channels : Move(x, c, d)

SwitchSpec == SwitchInit /\ [][SwitchNext]_switchVars

\* What is sent to a client is a sequence of frames, each a header and the payload
\* it is the length of (README.md:10): the client has no other way to tell where
\* a frame begins (communication.cpp:65-72).
FramesWhole ==
    \A x \in Clients : \A i \in DOMAIN wire[x] :
        IF i % 2 = 1 THEN wire[x][i].part = "head"
        ELSE wire[x][i] = [wire[x][i - 1] EXCEPT !.part = "body"]
=============================================================================

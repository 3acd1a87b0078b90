------------------------------ MODULE ChatClient ------------------------------
(***************************************************************************)
(* The clients (src/client/client.cpp, src/client/client_win.cpp): each    *)
(* opens one connection, names a channel, then switches channels or talks  *)
(* and may go away at any moment.  client.cpp sends nothing between its    *)
(* first join and the answer to it (Patient); client_win.cpp and           *)
(* multi_clients.py send on without waiting.                               *)
(***************************************************************************)
EXTENDS Sockets

CONSTANTS
    Quota,      \* bound: how many requests each client sends
    Targets,    \* channels the clients ask for
    Talk,       \* whether the clients also send messages
    Patient     \* whether every client waits for the answer to its first join

ASSUME ClientAssumption ==
    /\ Quota \in [Conns -> Nat]
    /\ Targets \subseteq Channels
    /\ {Talk, Patient} \subseteq BOOLEAN

VARIABLES
    asked,      \* connection -> requests its client has sent
    view        \* connection -> g_channel_id, NoChannel before the first answer

clientVars == <<asked, view>>

ClientTypeOK ==
    /\ asked \in [Conns -> Nat]
    /\ view \in [Conns -> Channels \cup {NoChannel}]

ClientInit ==
    /\ asked = [x \in Conns |-> 0]
    /\ view = [x \in Conns |-> NoChannel]

\* connect_tcp
Connect(x) ==
    /\ peer[x] = "new"
    /\ Listening
    /\ peer' = [peer EXCEPT ![x] = "up"]
    /\ backlog' = backlog \cup {x}
    /\ UNCHANGED <<sock, rx, interest, acceptors, clientVars>>

\* The first join carries the user's name; the joins of "/join n" do not.
Wants(x) ==
    IF asked[x] = 0
    THEN [type : {"join"}, ch : Targets]
    ELSE [type : {"switch"}, ch : Targets]
         \cup [type : {"message"}, ch : IF Talk THEN {NoChannel} ELSE {}]
         \cup [type : {"join"}, ch : IF Patient THEN {} ELSE Targets]

\* send_frame of one request.
SendRequest(x) ==
    /\ peer[x] = "up"
    /\ asked[x] < Quota[x]
    /\ Patient => asked[x] = 0 \/ view[x] # NoChannel
    /\ \E r \in Wants(x) : rx' = [rx EXCEPT ![x] = Append(@, r)]
    /\ asked' = [asked EXCEPT ![x] = @ + 1]
    /\ UNCHANGED <<sock, peer, backlog, interest, acceptors, view>>

\* The client closes its connection or dies.
Hangup(x) ==
    /\ peer[x] = "up"
    /\ peer' = [peer EXCEPT ![x] = "gone"]
    /\ UNCHANGED <<sock, rx, backlog, interest, acceptors, clientVars>>

\* The broadcast of the joins of the names who of channel c reaches the
\* connections to.  A client in its handshake takes any join for its own; later
\* it takes those that bear its name.
\* The variant does not take the answer during the handshake.
DeliverAfterHandshake(c, who, to) ==
    view' = [x \in Conns |->
        IF x \in to /\ x \in who /\ view[x] # NoChannel THEN c ELSE view[x]]
Deliver(c, who, to) ==
    view' = [x \in Conns |->
        IF x \in to /\ (x \in who \/ (view[x] = NoChannel /\ who # {}))
        THEN c ELSE view[x]]
=============================================================================

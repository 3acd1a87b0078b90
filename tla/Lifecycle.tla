------------------------------- MODULE Lifecycle -------------------------------
(***************************************************************************)
(* Time and the end: the throttled housekeeping of the main thread         *)
(* (check_lobby, check_channels; src/server/channel_server.cpp), the       *)
(* stopping, restarting and deleting of channels, and the shutdown         *)
(* (src/server/server.cpp).                                                *)
(*                                                                         *)
(* Times are kept as ages, how long ago they were, in units of the period  *)
(* of the throttle: an age is what "now - then" yields.  The system clock  *)
(* may be set back, which makes an age negative; the code computes in      *)
(* unsigned numbers, so that such an age is enormous.  An age grows no     *)
(* further than it matters.                                                *)
(*                                                                         *)
(* Who is let into which channel, and the capacity, are the matter of      *)
(* ChannelServer.                                                          *)
(***************************************************************************)
EXTENDS Integers, FiniteSets

CONSTANTS
    Channels,
    Clients,
    LobbyLimit,     \* 5000 ms in the lobby
    Period,         \* 1000 ms between two checks
    Quiet,          \* 300000 ms without a client
    MaxBack         \* bound: how far the clock is set back, once

Huge == Quiet + LobbyLimit + 2 * Period + MaxBack   \* more than any limit
Never == Huge                               \* the age of the throttle's first last, 0
NoEntry == -1                               \* no entry in last_act
Zero == -MaxBack - 1                        \* an empty_since of 0, which is no time

ASSUME TimeAssumption ==
    /\ {LobbyLimit, Period, Quiet} \subseteq Nat \ {0}
    /\ MaxBack \in Nat

VARIABLES
    is_running,     \* ServerBase::is_running of the ChannelServer
    main,           \* where the main thread is
    at,             \* the channel it deals with
    who,            \* the client it moves
    todo,           \* channels it has still to look at
    rested,         \* it has come round since the time advanced
    back,           \* how far the clock has been set back
    last_age,       \* age of the throttle's last
    now_age,        \* age of the now that check_channels has read
    lobby,          \* clients in the lobby
    last_act,       \* client -> age of its entry in last_act, or NoEntry
    doomed,         \* ChannelServer::next_deletion
    exists,         \* channels of the map
    worker,         \* channel -> where its worker is
    pool_mtx,       \* channel -> "free", "main" or "worker"
    stop_flag,      \* channel -> Channel::stop_flag
    empty_age,      \* channel -> age of empty_since, or Zero
    join_pool,      \* channel -> clients to take in
    members,        \* channel -> clients
    idle_age        \* channel -> steady time since the worker found it empty

timeVars    == <<rested, back, last_age, now_age>>
mainVars    == <<is_running, main, at, who, todo>>
lobbyVars   == <<lobby, last_act, doomed>>
channelVars == <<exists, worker, pool_mtx, stop_flag, empty_age, join_pool, members,
                 idle_age>>
vars == <<timeVars, mainVars, lobbyVars, channelVars>>

MainPlaces   == {"top", "poll", "lock", "join", "clear", "reset", "checks", "judge",
                 "delete", "resolve", "end", "reap", "over"}
Checks       == {"checks", "judge", "delete"}       \* now is in use
WorkerPlaces == {"none", "top", "tick", "stop", "rest", "dead"}
Ages         == -MaxBack..Huge

TypeOK ==
    /\ is_running \in BOOLEAN /\ rested \in BOOLEAN /\ back \in 0..MaxBack
    /\ main \in MainPlaces
    /\ at \in Channels /\ who \in Clients /\ todo \subseteq exists
    /\ {last_age, now_age} \subseteq Ages
    /\ lobby \subseteq Clients /\ doomed \subseteq Clients
    /\ last_act \in [Clients -> NoEntry..Huge]
    /\ exists \subseteq Channels
    /\ worker \in [Channels -> WorkerPlaces]
    /\ pool_mtx \in [Channels -> {"free", "main", "worker"}]
    /\ stop_flag \in [Channels -> BOOLEAN]
    /\ empty_age \in [Channels -> Ages \cup {Zero}]
    /\ idle_age \in [Channels -> 0..Huge]
    /\ {join_pool, members} \subseteq [Channels -> SUBSET Clients]
    /\ \A c \in Channels :
           /\ pool_mtx[c] = "worker" <=> worker[c] = "stop"
           /\ pool_mtx[c] = "main" <=> main \in {"join", "clear", "reset"} /\ at = c

Init ==
    /\ is_running = TRUE /\ main = "top"
    /\ at \in Channels /\ who \in Clients /\ todo = {}
    /\ rested = TRUE /\ back = 0 /\ last_age = Never /\ now_age = 0
    /\ lobby = {} /\ last_act = [x \in Clients |-> NoEntry] /\ doomed = {}
    /\ exists = {}
    /\ worker = [c \in Channels |-> "none"]
    /\ pool_mtx = [c \in Channels |-> "free"]
    /\ stop_flag = [c \in Channels |-> FALSE]
    /\ empty_age = [c \in Channels |-> Zero]
    /\ idle_age = [c \in Channels |-> 0]
    /\ join_pool = [c \in Channels |-> {}] /\ members = [c \in Channels |-> {}]

-----------------------------------------------------------------------------
(* The clocks.                                                             *)

Older(a)   == IF a < Huge THEN a + 1 ELSE a
Younger(a, by) == IF a < Huge THEN a - by ELSE a

\* A tick of the main thread takes less than a unit of time.
Advance ==
    /\ rested /\ main # "over"
    /\ rested' = FALSE
    /\ last_age' = Older(last_age)
    /\ now_age' = IF main \in Checks THEN Older(now_age) ELSE 0
    /\ last_act' = [x \in Clients |-> IF last_act[x] = NoEntry THEN NoEntry
                                      ELSE Older(last_act[x])]
    /\ empty_age' = [c \in Channels |-> IF empty_age[c] = Zero THEN Zero
                                        ELSE Older(empty_age[c])]
    /\ idle_age' = [c \in Channels |-> IF stop_flag[c] THEN Older(idle_age[c])
                                       ELSE 0]
    /\ UNCHANGED <<back, mainVars, lobby, doomed, exists, worker, pool_mtx, stop_flag,
                   join_pool, members>>

\* The system clock is set back; last_act is on the steady clock.
SetBack(by) ==
    /\ back = 0 /\ main # "over"
    /\ back' = by
    /\ last_age' = Younger(last_age, by)
    /\ now_age' = IF main \in Checks THEN Younger(now_age, by) ELSE 0
    /\ empty_age' = [c \in Channels |-> IF empty_age[c] = Zero THEN Zero
                                        ELSE Younger(empty_age[c], by)]
    /\ UNCHANGED <<rested, mainVars, lobbyVars, exists, worker, pool_mtx, stop_flag,
                   join_pool, members, idle_age>>

\* now - then: a difference below 0 is a number close to 2^64.  The variant
\* computes in signed numbers.
SignedSince(age) == age
Since(age) == IF age < 0 THEN Huge ELSE age

-----------------------------------------------------------------------------
(* The main thread: proc, the lobby, joins.                                *)

\* signal_handler, stop.
Stop ==
    /\ is_running
    /\ is_running' = FALSE
    /\ UNCHANGED <<timeVars, main, at, who, todo, lobbyVars, channelVars>>

\* proc goes round, or main returns and ~ChannelServer begins.
Loop ==
    /\ main = "top"
    /\ IF is_running THEN main' = "poll" /\ UNCHANGED todo
                     ELSE main' = "end" /\ todo' = exists
    /\ rested' = TRUE
    /\ UNCHANGED <<back, last_age, now_age, is_running, at, who, lobbyVars, channelVars>>

Elsewhere(x) == x \in lobby \/ \E c \in Channels : x \in join_pool[c] \cup members[c]

\* on_accept.
Enter(x) ==
    /\ main = "poll"
    /\ ~Elsewhere(x)
    /\ lobby' = lobby \cup {x}
    /\ last_act' = [last_act EXCEPT ![x] = 0]
    /\ UNCHANGED <<timeVars, mainVars, doomed, channelVars>>

\* on_disconnect; last_act keeps the entry.
LobbyEnd(x) ==
    /\ main = "poll"
    /\ x \in lobby \ doomed
    /\ doomed' = doomed \cup {x}
    /\ UNCHANGED <<timeVars, mainVars, lobby, last_act, channelVars>>

\* on_req: find_or_create_channel finds c, or makes it and starts its worker; what
\* has not been made is as it will be made.
AskJoin(x, c) ==
    /\ main = "poll"
    /\ x \in lobby \ doomed
    /\ main' = "lock" /\ at' = c /\ who' = x
    /\ IF c \in exists THEN UNCHANGED channelVars
       ELSE /\ exists' = exists \cup {c}
            /\ worker' = [worker EXCEPT ![c] = "top"]
            /\ UNCHANGED <<pool_mtx, stop_flag, empty_age, join_pool, members, idle_age>>
    /\ UNCHANGED <<timeVars, is_running, todo, lobbyVars>>

\* wait_stop_pooling.
TakeLock ==
    /\ main = "lock"
    /\ pool_mtx[at] = "free"
    /\ pool_mtx' = [pool_mtx EXCEPT ![at] = "main"]
    /\ main' = "join"
    /\ UNCHANGED <<timeVars, is_running, at, who, todo, lobbyVars, exists, worker,
                   stop_flag, empty_age, join_pool, members, idle_age>>

\* The end of join, and of on_req.
Queue ==
    /\ join_pool' = [join_pool EXCEPT ![at] = @ \cup {who}]
    /\ lobby' = lobby \ {who}
    /\ last_act' = [last_act EXCEPT ![who] = NoEntry]
    /\ pool_mtx' = [pool_mtx EXCEPT ![at] = "free"]
    /\ main' = "poll"

JoinRunning ==
    /\ main = "join" /\ ~stop_flag[at]
    /\ Queue
    /\ UNCHANGED <<timeVars, is_running, at, who, todo, doomed, exists, worker,
                   stop_flag, empty_age, members, idle_age>>

\* std::thread::join returns when the thread has ended.  The variant does not wait.
NotJoined(c) == TRUE
Joined(c) == worker[c] = "dead"

\* join: a channel that has stopped gets a new worker ...
JoinRestarts ==
    /\ main = "join" /\ stop_flag[at]
    /\ Joined(at)
    /\ worker' = [worker EXCEPT ![at] = "top"]
    /\ main' = "clear"
    /\ UNCHANGED <<timeVars, is_running, at, who, todo, lobbyVars, exists, pool_mtx,
                   stop_flag, empty_age, join_pool, members, idle_age>>

\* ... only then is stop_flag cleared ...
ClearFlag ==
    /\ main = "clear"
    /\ stop_flag' = [stop_flag EXCEPT ![at] = FALSE]
    /\ main' = "reset"
    /\ UNCHANGED <<timeVars, is_running, at, who, todo, lobbyVars, exists, worker,
                   pool_mtx, empty_age, join_pool, members, idle_age>>

\* ... and empty_since; the variant leaves it.
OldTime(c) == empty_age[c]
NoTime(c)  == Zero

ResetTime ==
    /\ main = "reset"
    /\ empty_age' = [empty_age EXCEPT ![at] = NoTime(at)]
    /\ Queue
    /\ UNCHANGED <<timeVars, is_running, at, who, todo, doomed, exists, worker,
                   stop_flag, members, idle_age>>

-----------------------------------------------------------------------------
(* The main thread: housekeeping.                                          *)

\* AsThrottle, check_lobby, and the first line of check_channels.
Check ==
    /\ main = "poll"
    /\ IF Since(last_age) < Period
       THEN main' = "resolve" /\ UNCHANGED <<last_age, now_age, todo, last_act, doomed>>
       ELSE /\ main' = "checks" /\ last_age' = 0 /\ now_age' = 0 /\ todo' = exists
            /\ LET old == {x \in Clients : last_act[x] >= LobbyLimit}
               IN  /\ doomed' = doomed \cup old
                   /\ last_act' = [x \in Clients |-> IF x \in old THEN NoEntry
                                                     ELSE last_act[x]]
    /\ UNCHANGED <<rested, back, is_running, at, who, lobby, channelVars>>

\* is_stopped.
Look(c) ==
    /\ main = "checks"
    /\ c \in todo
    /\ todo' = todo \ {c}
    /\ at' = c
    /\ main' = IF stop_flag[c] THEN "judge" ELSE "checks"
    /\ UNCHANGED <<timeVars, is_running, who, lobbyVars, channelVars>>

\* get_empty_since, against the now that was read before.
Expired(c) == empty_age[c] # Zero /\ Since(empty_age[c] - now_age) > Quiet

Judge ==
    /\ main = "judge"
    /\ main' = IF Expired(at) THEN "delete" ELSE "checks"
    /\ UNCHANGED <<timeVars, is_running, at, who, todo, lobbyVars, channelVars>>

\* What ~Channel leaves when its worker has been joined: ~ConnectionTracker closes
\* the members.
Free(c) ==
    /\ exists' = exists \ {c}
    /\ worker' = [worker EXCEPT ![c] = IF @ = "dead" THEN "none" ELSE @]
    /\ join_pool' = [join_pool EXCEPT ![c] = {}]
    /\ members' = [members EXCEPT ![c] = {}]
    /\ stop_flag' = [stop_flag EXCEPT ![c] = FALSE]
    /\ empty_age' = [empty_age EXCEPT ![c] = Zero]
    /\ idle_age' = [idle_age EXCEPT ![c] = 0]
    /\ UNCHANGED pool_mtx

Destroy ==
    /\ main = "delete"
    /\ Joined(at)
    /\ Free(at)
    /\ main' = "checks"
    /\ UNCHANGED <<timeVars, is_running, at, who, todo, lobbyVars>>

ChecksDone ==
    /\ main = "checks" /\ todo = {}
    /\ main' = "resolve"
    /\ now_age' = 0
    /\ UNCHANGED <<rested, back, last_age, is_running, at, who, todo, lobbyVars,
                   channelVars>>

\* resolve_deletion; of those marked only who is still in the lobby is closed.
Resolve ==
    /\ main = "resolve"
    /\ lobby' = lobby \ doomed
    /\ doomed' = {}
    /\ main' = "top"
    /\ UNCHANGED <<timeVars, is_running, at, who, todo, last_act, channelVars>>

-----------------------------------------------------------------------------
(* The main thread: ~ChannelServer.                                        *)

\* ~Channel sets stop_flag; the variant forgets it.
LeftRunning == FALSE
ToldToStop  == TRUE

Tell(c) ==
    /\ main = "end"
    /\ c \in todo
    /\ todo' = todo \ {c}
    /\ at' = c
    /\ stop_flag' = [stop_flag EXCEPT ![c] = @ \/ ToldToStop]
    /\ main' = "reap"
    /\ UNCHANGED <<timeVars, is_running, who, lobbyVars, exists, worker, pool_mtx,
                   empty_age, join_pool, members, idle_age>>

Reap ==
    /\ main = "reap"
    /\ Joined(at)
    /\ Free(at)
    /\ main' = "end"
    /\ UNCHANGED <<timeVars, is_running, at, who, todo, lobbyVars>>

\* ~ServerBase closes who is left in the lobby.
Exit ==
    /\ main = "end" /\ todo = {}
    /\ main' = "over"
    /\ lobby' = {}
    /\ UNCHANGED <<timeVars, is_running, at, who, todo, last_act, doomed, channelVars>>

-----------------------------------------------------------------------------
(* The worker of a channel.                                                *)

\* proc.
Round(c) ==
    /\ worker[c] = "top"
    /\ worker' = [worker EXCEPT ![c] = IF stop_flag[c] THEN "dead" ELSE "tick"]
    /\ UNCHANGED <<timeVars, mainVars, lobbyVars, exists, pool_mtx, stop_flag, empty_age,
                   join_pool, members, idle_age>>

\* resolve_pool: if nobody is there, stop_flag is set ...
Pool(c) ==
    /\ worker[c] = "tick"
    /\ pool_mtx[c] = "free"
    /\ members' = [members EXCEPT ![c] = @ \cup join_pool[c]]
    /\ join_pool' = [join_pool EXCEPT ![c] = {}]
    /\ IF members'[c] = {}
       THEN /\ stop_flag' = [stop_flag EXCEPT ![c] = TRUE]
            /\ pool_mtx' = [pool_mtx EXCEPT ![c] = "worker"]
            /\ worker' = [worker EXCEPT ![c] = "stop"]
            /\ idle_age' = [idle_age EXCEPT ![c] = 0]
       ELSE /\ worker' = [worker EXCEPT ![c] = "rest"]
            /\ UNCHANGED <<stop_flag, pool_mtx, idle_age>>
    /\ UNCHANGED <<timeVars, mainVars, lobbyVars, exists, empty_age>>

\* ... and then the time; the variant leaves that out.
NotStamped(c) == empty_age[c]
Stamped(c)    == 0

StampEmpty(c) ==
    /\ worker[c] = "stop"
    /\ empty_age' = [empty_age EXCEPT ![c] = Stamped(c)]
    /\ pool_mtx' = [pool_mtx EXCEPT ![c] = "free"]
    /\ worker' = [worker EXCEPT ![c] = "rest"]
    /\ UNCHANGED <<timeVars, mainVars, lobbyVars, exists, stop_flag, join_pool, members,
                   idle_age>>

\* The rest of the tick, in which members may go.
Rest(c) ==
    /\ worker[c] = "rest"
    /\ \E gone \in SUBSET members[c] :
           members' = [members EXCEPT ![c] = @ \ gone]
    /\ worker' = [worker EXCEPT ![c] = "top"]
    /\ UNCHANGED <<timeVars, mainVars, lobbyVars, exists, pool_mtx, stop_flag, empty_age,
                   join_pool, idle_age>>

-----------------------------------------------------------------------------
Joining == TakeLock \/ JoinRunning \/ JoinRestarts \/ ClearFlag \/ ResetTime
Housekeeping ==
    Check \/ Judge \/ Destroy \/ ChecksDone \/ Resolve \/ \E c \in Channels : Look(c)
Shutdown == Reap \/ Exit \/ \E c \in Channels : Tell(c)
Main == Loop \/ Joining \/ Housekeeping \/ Shutdown

Requests == \E x \in Clients :
    Enter(x) \/ LobbyEnd(x) \/ \E c \in Channels : AskJoin(x, c)

Worker(c) == Round(c) \/ Pool(c) \/ StampEmpty(c) \/ Rest(c)

Next ==
    \/ Advance \/ Stop \/ \E by \in 1..MaxBack : SetBack(by)
    \/ Main \/ Requests
    \/ \E c \in Channels : Worker(c)

Spec == Init /\ [][Next]_vars

\* Time goes on and the threads run; a poll yields a finite number of events, after
\* which the main thread goes on (server_base.cpp:34, 36).
Fairness ==
    /\ WF_vars(Advance) /\ WF_vars(Main) /\ SF_vars(Check)
    /\ \A c \in Channels : WF_vars(Worker(c))

FairSpec == Spec /\ Fairness

-----------------------------------------------------------------------------
(* What housekeeping and shutdown promise.                                 *)

\* Nobody is in the lobby for longer than the limit, a period and the round in which
\* the check falls due, unless this very round closes the connection: the throttle
\* catches up even when the clock has been set back (channel_server.cpp:10, 189,
\* task_runner.h:52).
LobbyBounded ==
    \A x \in lobby \ doomed :
        last_act[x] # NoEntry /\ last_act[x] <= LobbyLimit + 2 * Period + 1

\* A worker never outlives its channel, whichever way that goes (channel.cpp:13,
\* 36, channel_server.cpp:16, 212).
WorkerHasChannel == \A c \in Channels : c \notin exists => worker[c] = "none"

\* As long as the clock is not set back, a channel is deleted only after 5 minutes
\* without a client, with one exception: its worker has stopped after check_channels
\* read the clock, and the difference is below 0 (channel_server.cpp:205, 210).
QuietBeforeDelete ==
    [][\A c \in Channels :
           c \in exists \ exists' /\ main = "delete" =>
               idle_age[c] > Quiet \/ empty_age[c] < now_age \/ back > 0]_vars

\* A channel whose worker has ended for want of clients is deleted in the end, or
\* a client comes, or the server is stopped (channel_server.cpp:204).
EmptyIsDeleted ==
    \A c \in Channels :
        (worker[c] = "dead" /\ stop_flag[c])
            ~> (c \notin exists \/ ~stop_flag[c] \/ ~is_running)

\* After a signal the process ends: every worker is told to, and does (server.cpp:9,
\* channel.cpp:13).
Ends == ~is_running ~> main = "over"
=============================================================================

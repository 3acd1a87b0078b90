---------------------------- MODULE LifecycleSafety ----------------------------
(***************************************************************************)
(* Proofs about Lifecycle: types, that no worker outlives its channel,     *)
(* that check_channels deletes no channel before its time, and that nobody *)
(* stays in the lobby beyond the limit.                                    *)
(*                                                                         *)
(* The third rests on the order in which three flags of a channel change.  *)
(* While stop_flag is clear empty_since is 0, but for the moment in which  *)
(* join has cleared the one and not the other; the worker cannot stop in   *)
(* that moment, because join holds pool_mtx.  So a time that is not 0 has  *)
(* been stored after stop_flag was set for the last time, and is no older  *)
(* than the emptiness.                                                     *)
(*                                                                         *)
(* The last is a matter of counting: how often time can advance until the  *)
(* next check, how long ago the last one was, and how far the clock may be *)
(* set back in between (LobbyInv).                                         *)
(***************************************************************************)
EXTENDS Lifecycle, TLAPS

Ending == {"end", "reap", "over"}

\* A channel that does not exist is as it will be made; the main thread deals with
\* one that exists, and not again with one it has finished with.
ExistsInv ==
    /\ \A c \in Channels : c \notin exists =>
           worker[c] = "none" /\ ~stop_flag[c] /\ empty_age[c] = Zero
    /\ main \in {"lock", "join", "clear", "reset", "judge", "delete"} => at \in exists
    /\ main \in {"judge", "delete", "reap"} => at \notin todo

\* Who sets stop_flag, who clears it, and what empty_since is meanwhile.
FlagInv ==
    /\ main \in {"clear", "judge", "delete"} => stop_flag[at]
    /\ main = "delete" => empty_age[at] # Zero
    /\ main \notin Ending => \A c \in Channels :
           /\ worker[c] = "tick" => ~stop_flag[c]
           /\ worker[c] = "stop" => stop_flag[c]
           /\ ~stop_flag[c] \/ worker[c] = "stop" =>
                  empty_age[c] = Zero \/ (main = "reset" /\ at = c)

\* Before the clock is set back no time is in the future; a check is over before
\* the next unit of time but one; a time that is stored is no older than the
\* emptiness.
TimeInv == back = 0 =>
    /\ last_age >= 0 /\ now_age >= 0
    /\ main \in Checks => now_age <= IF rested THEN 0 ELSE 1
    /\ \A c \in Channels : empty_age[c] # Zero =>
           /\ empty_age[c] >= 0
           /\ main \notin Ending /\ stop_flag[c] => idle_age[c] >= empty_age[c]

\* What check_channels has found out about the channel it deletes.
DueInv == main = "delete" =>
    idle_age[at] > Quiet \/ empty_age[at] < now_age \/ back > 0

Inv == TypeOK /\ ExistsInv /\ FlagInv /\ TimeInv /\ DueInv

-----------------------------------------------------------------------------
\* The invariant holds when the server has been made.
LEMMA InitInv == Init => Inv
  BY TimeAssumption
  DEF Init, Inv, TypeOK, ExistsInv, FlagInv, TimeInv, DueInv, Ages, MainPlaces,
      WorkerPlaces, Huge, Never, NoEntry, Zero, Checks, Ending

\* Times stay within their bounds.
LEMMA OlderBounded ==
    /\ \A a \in Ages : Older(a) \in Ages /\ Older(a) # Zero
    /\ \A a \in 0..Huge : Older(a) \in 0..Huge
  BY TimeAssumption DEF Older, Ages, Huge, Zero

-----------------------------------------------------------------------------
\* The signal and the main thread: the lobby, joins.

LEMMA StopInv ==
    ASSUME Inv, Stop
    PROVE  Inv'
<1>1. TypeOK'
  BY DEF Inv, TypeOK, Stop, timeVars, lobbyVars, channelVars
<1>2. ExistsInv'
  BY DEF Inv, ExistsInv, Stop, channelVars
<1>3. FlagInv'
  BY DEF Inv, FlagInv, Stop, channelVars
<1>4. TimeInv'
  BY DEF Inv, TimeInv, Stop, timeVars, channelVars
<1>5. DueInv'
  BY DEF Inv, DueInv, Stop, timeVars, channelVars
<1> QED BY <1>1, <1>2, <1>3, <1>4, <1>5 DEF Inv

LEMMA LoopInv ==
    ASSUME Inv, Loop
    PROVE  Inv'
<1>1. TypeOK'
  BY DEF Inv, TypeOK, MainPlaces, Loop, lobbyVars, channelVars
<1>2. ExistsInv'
  BY DEF Inv, ExistsInv, Loop, channelVars
<1>3. FlagInv'
  BY DEF Inv, FlagInv, Ending, Loop, channelVars
<1>4. TimeInv'
  BY DEF Inv, TimeInv, Checks, Ending, Loop, channelVars
<1>5. DueInv'
  BY DEF Inv, DueInv, Loop
<1> QED BY <1>1, <1>2, <1>3, <1>4, <1>5 DEF Inv

LEMMA EnterInv ==
    ASSUME NEW x \in Clients, Inv, Enter(x)
    PROVE  Inv'
<1>1. TypeOK'
  BY TimeAssumption DEF Inv, TypeOK, Huge, NoEntry, Enter, timeVars, mainVars,
         channelVars
<1>2. ExistsInv'
  BY DEF Inv, ExistsInv, Enter, mainVars, channelVars
<1>3. FlagInv'
  BY DEF Inv, FlagInv, Enter, mainVars, channelVars
<1>4. TimeInv'
  BY DEF Inv, TimeInv, Enter, timeVars, mainVars, channelVars
<1>5. DueInv'
  BY DEF Inv, DueInv, Enter, mainVars
<1> QED BY <1>1, <1>2, <1>3, <1>4, <1>5 DEF Inv

LEMMA LobbyEndInv ==
    ASSUME NEW x \in Clients, Inv, LobbyEnd(x)
    PROVE  Inv'
<1>1. TypeOK'
  BY DEF Inv, TypeOK, LobbyEnd, timeVars, mainVars, channelVars
<1>2. ExistsInv'
  BY DEF Inv, ExistsInv, LobbyEnd, mainVars, channelVars
<1>3. FlagInv'
  BY DEF Inv, FlagInv, LobbyEnd, mainVars, channelVars
<1>4. TimeInv'
  BY DEF Inv, TimeInv, LobbyEnd, timeVars, mainVars, channelVars
<1>5. DueInv'
  BY DEF Inv, DueInv, LobbyEnd, mainVars
<1> QED BY <1>1, <1>2, <1>3, <1>4, <1>5 DEF Inv

LEMMA AskJoinInv ==
    ASSUME NEW x \in Clients, NEW c \in Channels, Inv, AskJoin(x, c)
    PROVE  Inv'
<1>1. TypeOK'
  BY DEF Inv, TypeOK, MainPlaces, WorkerPlaces, ExistsInv, AskJoin, timeVars,
         lobbyVars, channelVars
<1>2. ExistsInv'
  BY DEF Inv, TypeOK, ExistsInv, AskJoin, channelVars
<1>3. FlagInv'
  BY DEF Inv, TypeOK, FlagInv, Ending, AskJoin, channelVars
<1>4. TimeInv'
  BY DEF Inv, TimeInv, Checks, Ending, AskJoin, timeVars, channelVars
<1>5. DueInv'
  BY DEF Inv, DueInv, AskJoin
<1> QED BY <1>1, <1>2, <1>3, <1>4, <1>5 DEF Inv

LEMMA TakeLockInv ==
    ASSUME Inv, TakeLock
    PROVE  Inv'
<1>1. TypeOK'
  BY DEF Inv, TypeOK, MainPlaces, TakeLock, timeVars, lobbyVars
<1>2. ExistsInv'
  BY DEF Inv, ExistsInv, TakeLock
<1>3. FlagInv'
  BY DEF Inv, FlagInv, Ending, TakeLock
<1>4. TimeInv'
  BY DEF Inv, TimeInv, Checks, Ending, TakeLock, timeVars
<1>5. DueInv'
  BY DEF Inv, DueInv, TakeLock
<1> QED BY <1>1, <1>2, <1>3, <1>4, <1>5 DEF Inv

LEMMA JoinRunningInv ==
    ASSUME Inv, JoinRunning
    PROVE  Inv'
<1>1. TypeOK'
  BY TimeAssumption DEF Inv, TypeOK, MainPlaces, Huge, NoEntry, JoinRunning, Queue,
         timeVars
<1>2. ExistsInv'
  BY DEF Inv, ExistsInv, JoinRunning, Queue
<1>3. FlagInv'
  BY DEF Inv, FlagInv, Ending, JoinRunning, Queue
<1>4. TimeInv'
  BY DEF Inv, TimeInv, Checks, Ending, JoinRunning, Queue, timeVars
<1>5. DueInv'
  BY DEF Inv, DueInv, JoinRunning, Queue
<1> QED BY <1>1, <1>2, <1>3, <1>4, <1>5 DEF Inv

LEMMA JoinRestartsInv ==
    ASSUME Inv, JoinRestarts
    PROVE  Inv'
<1>1. TypeOK'
  BY DEF Inv, TypeOK, MainPlaces, WorkerPlaces, JoinRestarts, timeVars, lobbyVars
<1>2. ExistsInv'
  BY DEF Inv, ExistsInv, JoinRestarts
<1>3. FlagInv'
  BY DEF Inv, FlagInv, Ending, JoinRestarts
<1>4. TimeInv'
  BY DEF Inv, TimeInv, Checks, Ending, JoinRestarts, timeVars
<1>5. DueInv'
  BY DEF Inv, DueInv, JoinRestarts
<1> QED BY <1>1, <1>2, <1>3, <1>4, <1>5 DEF Inv

LEMMA ClearFlagInv ==
    ASSUME Inv, ClearFlag
    PROVE  Inv'
<1>1. TypeOK'
  BY DEF Inv, TypeOK, MainPlaces, ClearFlag, timeVars, lobbyVars
<1>2. ExistsInv'
  BY DEF Inv, ExistsInv, ClearFlag
<1>3. FlagInv'
  BY DEF Inv, TypeOK, FlagInv, Ending, ClearFlag
<1>4. TimeInv'
  BY DEF Inv, TimeInv, Checks, Ending, ClearFlag, timeVars
<1>5. DueInv'
  BY DEF Inv, DueInv, ClearFlag
<1> QED BY <1>1, <1>2, <1>3, <1>4, <1>5 DEF Inv

LEMMA ResetTimeInv ==
    ASSUME Inv, ResetTime
    PROVE  Inv'
<1>1. TypeOK'
  BY TimeAssumption DEF Inv, TypeOK, MainPlaces, Huge, NoEntry, ResetTime, Queue,
         NoTime, timeVars
<1>2. ExistsInv'
  BY DEF Inv, ExistsInv, ResetTime, Queue, NoTime
<1>3. FlagInv'
  BY DEF Inv, TypeOK, FlagInv, Ending, ResetTime, Queue, NoTime
<1>4. TimeInv'
  BY DEF Inv, TimeInv, Checks, Ending, ResetTime, Queue, NoTime, timeVars
<1>5. DueInv'
  BY DEF Inv, DueInv, ResetTime, Queue, NoTime
<1> QED BY <1>1, <1>2, <1>3, <1>4, <1>5 DEF Inv

-----------------------------------------------------------------------------
\* The main thread: housekeeping.

LEMMA CheckInv ==
    ASSUME Inv, Check
    PROVE  Inv'
<1>1. TypeOK'
  BY TimeAssumption DEF Inv, TypeOK, Ages, MainPlaces, Huge, NoEntry, Check,
         channelVars
<1>2. ExistsInv'
  BY DEF Inv, ExistsInv, Check, channelVars
<1>3. FlagInv'
  BY DEF Inv, FlagInv, Ending, Check, channelVars
<1>4. TimeInv'
  BY DEF Inv, TimeInv, Checks, Ending, Check, channelVars
<1>5. DueInv'
  BY DEF Inv, DueInv, Check
<1> QED BY <1>1, <1>2, <1>3, <1>4, <1>5 DEF Inv

LEMMA LookInv ==
    ASSUME NEW c \in Channels, Inv, Look(c)
    PROVE  Inv'
<1>1. TypeOK'
  BY DEF Inv, TypeOK, MainPlaces, Look, timeVars, lobbyVars, channelVars
<1>2. ExistsInv'
  BY DEF Inv, ExistsInv, Look, channelVars
<1>3. FlagInv'
  BY DEF Inv, FlagInv, Ending, Look, channelVars
<1>4. TimeInv'
  BY DEF Inv, TimeInv, Checks, Ending, Look, timeVars, channelVars
<1>5. DueInv'
  BY DEF Inv, DueInv, Look
<1> QED BY <1>1, <1>2, <1>3, <1>4, <1>5 DEF Inv

LEMMA JudgeInv ==
    ASSUME Inv, Judge
    PROVE  Inv'
<1>1. TypeOK'
  BY DEF Inv, TypeOK, MainPlaces, Judge, timeVars, lobbyVars, channelVars
<1>2. ExistsInv'
  BY DEF Inv, ExistsInv, Judge, channelVars
<1>3. FlagInv'
  BY DEF Inv, FlagInv, Ending, Judge, Expired, Since, channelVars
<1>4. TimeInv'
  BY DEF Inv, TimeInv, Checks, Ending, Judge, timeVars, channelVars
<1>5. DueInv'
  BY TimeAssumption DEF Inv, TypeOK, DueInv, TimeInv, FlagInv, Ages, Ending, Judge,
         Expired, Since, timeVars, channelVars
<1> QED BY <1>1, <1>2, <1>3, <1>4, <1>5 DEF Inv

LEMMA DestroyInv ==
    ASSUME Inv, Destroy
    PROVE  Inv'
<1>1. TypeOK'
  BY TimeAssumption DEF Inv, TypeOK, MainPlaces, WorkerPlaces, Huge, ExistsInv,
         Destroy, Joined, Free, timeVars, lobbyVars
<1>2. ExistsInv'
  BY DEF Inv, TypeOK, ExistsInv, Destroy, Joined, Free
<1>3. FlagInv'
  BY DEF Inv, TypeOK, FlagInv, Ending, Destroy, Joined, Free
<1>4. TimeInv'
  BY DEF Inv, TypeOK, TimeInv, Checks, Ending, Destroy, Joined, Free, timeVars
<1>5. DueInv'
  BY DEF Inv, DueInv, Destroy
<1> QED BY <1>1, <1>2, <1>3, <1>4, <1>5 DEF Inv

LEMMA ChecksDoneInv ==
    ASSUME Inv, ChecksDone
    PROVE  Inv'
<1>1. TypeOK'
  BY TimeAssumption DEF Inv, TypeOK, Ages, MainPlaces, Huge, ChecksDone, lobbyVars,
         channelVars
<1>2. ExistsInv'
  BY DEF Inv, ExistsInv, ChecksDone, channelVars
<1>3. FlagInv'
  BY DEF Inv, FlagInv, Ending, ChecksDone, channelVars
<1>4. TimeInv'
  BY DEF Inv, TimeInv, Ending, ChecksDone, channelVars
<1>5. DueInv'
  BY DEF Inv, DueInv, ChecksDone
<1> QED BY <1>1, <1>2, <1>3, <1>4, <1>5 DEF Inv

LEMMA ResolveInv ==
    ASSUME Inv, Resolve
    PROVE  Inv'
<1>1. TypeOK'
  BY DEF Inv, TypeOK, MainPlaces, Resolve, timeVars, channelVars
<1>2. ExistsInv'
  BY DEF Inv, ExistsInv, Resolve, channelVars
<1>3. FlagInv'
  BY DEF Inv, FlagInv, Ending, Resolve, channelVars
<1>4. TimeInv'
  BY DEF Inv, TimeInv, Checks, Ending, Resolve, timeVars, channelVars
<1>5. DueInv'
  BY DEF Inv, DueInv, Resolve
<1> QED BY <1>1, <1>2, <1>3, <1>4, <1>5 DEF Inv

-----------------------------------------------------------------------------
\* The main thread: shutdown.

LEMMA TellInv ==
    ASSUME NEW c \in Channels, Inv, Tell(c)
    PROVE  Inv'
<1>1. TypeOK'
  BY DEF Inv, TypeOK, MainPlaces, Tell, timeVars, lobbyVars
<1>2. ExistsInv'
  BY DEF Inv, TypeOK, ExistsInv, Tell
<1>3. FlagInv'
  BY DEF Inv, FlagInv, Ending, Tell
<1>4. TimeInv'
  BY DEF Inv, TimeInv, Checks, Ending, Tell, timeVars
<1>5. DueInv'
  BY DEF Inv, DueInv, Tell
<1> QED BY <1>1, <1>2, <1>3, <1>4, <1>5 DEF Inv

LEMMA ReapInv ==
    ASSUME Inv, Reap
    PROVE  Inv'
<1>1. TypeOK'
  BY TimeAssumption DEF Inv, TypeOK, MainPlaces, WorkerPlaces, Huge, ExistsInv, Reap,
         Joined, Free, timeVars, lobbyVars
<1>2. ExistsInv'
  BY DEF Inv, TypeOK, ExistsInv, Reap, Joined, Free
<1>3. FlagInv'
  BY DEF Inv, FlagInv, Ending, Reap
<1>4. TimeInv'
  BY DEF Inv, TimeInv, Checks, Ending, Reap, Joined, Free, timeVars
<1>5. DueInv'
  BY DEF Inv, DueInv, Reap
<1> QED BY <1>1, <1>2, <1>3, <1>4, <1>5 DEF Inv

LEMMA ExitInv ==
    ASSUME Inv, Exit
    PROVE  Inv'
<1>1. TypeOK'
  BY DEF Inv, TypeOK, MainPlaces, Exit, timeVars, channelVars
<1>2. ExistsInv'
  BY DEF Inv, ExistsInv, Exit, channelVars
<1>3. FlagInv'
  BY DEF Inv, FlagInv, Ending, Exit
<1>4. TimeInv'
  BY DEF Inv, TimeInv, Checks, Ending, Exit, timeVars, channelVars
<1>5. DueInv'
  BY DEF Inv, DueInv, Exit
<1> QED BY <1>1, <1>2, <1>3, <1>4, <1>5 DEF Inv

-----------------------------------------------------------------------------
\* The worker of a channel.

LEMMA RoundInv ==
    ASSUME NEW c \in Channels, Inv, Round(c)
    PROVE  Inv'
<1>1. TypeOK'
  BY DEF Inv, TypeOK, WorkerPlaces, Round, timeVars, mainVars, lobbyVars
<1>2. ExistsInv'
  BY DEF Inv, ExistsInv, Round, mainVars
<1>3. FlagInv'
  BY DEF Inv, FlagInv, Round, mainVars
<1>4. TimeInv'
  BY DEF Inv, TimeInv, Round, timeVars, mainVars
<1>5. DueInv'
  BY DEF Inv, DueInv, Round, timeVars, mainVars
<1> QED BY <1>1, <1>2, <1>3, <1>4, <1>5 DEF Inv

LEMMA PoolInv ==
    ASSUME NEW c \in Channels, Inv, Pool(c)
    PROVE  Inv'
<1>1. TypeOK'
  <2>1. /\ members' \in [Channels -> SUBSET Clients]
        /\ join_pool' \in [Channels -> SUBSET Clients]
    BY DEF Inv, TypeOK, Pool
  <2>2. CASE members'[c] = {}
    <3>1. idle_age' \in [Channels -> 0..Huge]
      BY <2>2, TimeAssumption DEF Inv, TypeOK, Pool, Huge
    <3>2. /\ stop_flag' \in [Channels -> BOOLEAN]
          /\ worker' \in [Channels -> WorkerPlaces]
          /\ pool_mtx' \in [Channels -> {"free", "main", "worker"}]
      BY <2>2 DEF Inv, TypeOK, Pool, WorkerPlaces
    <3>3. \A d \in Channels :
              /\ pool_mtx'[d] = "worker" <=> worker'[d] = "stop"
              /\ pool_mtx'[d] = "main" <=> pool_mtx[d] = "main"
      BY <2>2 DEF Inv, TypeOK, Pool
    <3> QED BY <2>1, <3>1, <3>2, <3>3 DEF Inv, TypeOK, Pool, timeVars, mainVars, lobbyVars
  <2>3. CASE members'[c] # {}
    BY <2>1, <2>3 DEF Inv, TypeOK, Pool, WorkerPlaces, timeVars, mainVars, lobbyVars
  <2> QED BY <2>2, <2>3
<1>2. ExistsInv'
  BY DEF Inv, TypeOK, ExistsInv, Pool, mainVars
<1>3. FlagInv'
  BY DEF Inv, TypeOK, FlagInv, Pool, mainVars
<1>4. TimeInv'
  BY DEF Inv, TypeOK, TimeInv, FlagInv, Pool, timeVars, mainVars
<1>5. DueInv'
  BY DEF Inv, TypeOK, DueInv, FlagInv, Ending, Pool, timeVars, mainVars
<1> QED BY <1>1, <1>2, <1>3, <1>4, <1>5 DEF Inv

LEMMA StampEmptyInv ==
    ASSUME NEW c \in Channels, Inv, StampEmpty(c)
    PROVE  Inv'
<1>1. TypeOK'
  BY TimeAssumption DEF Inv, TypeOK, Ages, WorkerPlaces, Huge, StampEmpty, Stamped,
         timeVars, mainVars, lobbyVars
<1>2. ExistsInv'
  BY DEF Inv, ExistsInv, StampEmpty, mainVars
<1>3. FlagInv'
  BY DEF Inv, TypeOK, FlagInv, Ending, StampEmpty, mainVars
<1>4. TimeInv'
  BY DEF Inv, TypeOK, TimeInv, StampEmpty, Stamped, timeVars, mainVars
<1>5. DueInv'
  BY DEF Inv, DueInv, FlagInv, Ending, StampEmpty, timeVars, mainVars
<1> QED BY <1>1, <1>2, <1>3, <1>4, <1>5 DEF Inv

LEMMA RestInv ==
    ASSUME NEW c \in Channels, Inv, Rest(c)
    PROVE  Inv'
<1>1. TypeOK'
  BY DEF Inv, TypeOK, WorkerPlaces, Rest, timeVars, mainVars, lobbyVars
<1>2. ExistsInv'
  BY DEF Inv, ExistsInv, Rest, mainVars
<1>3. FlagInv'
  BY DEF Inv, FlagInv, Rest, mainVars
<1>4. TimeInv'
  BY DEF Inv, TimeInv, Rest, timeVars, mainVars
<1>5. DueInv'
  BY DEF Inv, DueInv, Rest, timeVars, mainVars
<1> QED BY <1>1, <1>2, <1>3, <1>4, <1>5 DEF Inv

-----------------------------------------------------------------------------
\* The clocks.

LEMMA AdvanceInv ==
    ASSUME Inv, Advance
    PROVE  Inv'
<1>1. TypeOK'
  <2>1. last_age' \in Ages /\ now_age' \in Ages
    BY OlderBounded, TimeAssumption DEF Inv, TypeOK, Advance, Ages, Huge
  <2>2. last_act' \in [Clients -> NoEntry..Huge]
    <3>1. \A x \in Clients : last_act[x] # NoEntry => last_act[x] \in 0..Huge
      BY TimeAssumption DEF Inv, TypeOK, NoEntry, Huge
    <3>2. \A x \in Clients : last_act[x] # NoEntry => Older(last_act[x]) \in NoEntry..Huge
      BY <3>1, OlderBounded, TimeAssumption DEF NoEntry, Huge
    <3> QED BY <3>2, TimeAssumption DEF Advance, NoEntry, Huge
  <2>3. empty_age' \in [Channels -> Ages \cup {Zero}]
    <3>1. \A c \in Channels : empty_age[c] # Zero => empty_age[c] \in Ages
      BY DEF Inv, TypeOK
    <3> QED BY <3>1, OlderBounded DEF Advance
  <2>4. idle_age' \in [Channels -> 0..Huge]
    <3>1. \A c \in Channels : Older(idle_age[c]) \in 0..Huge
      BY OlderBounded DEF Inv, TypeOK
    <3> QED BY <3>1, TimeAssumption DEF Advance, Huge
  <2> QED BY <2>1, <2>2, <2>3, <2>4 DEF Inv, TypeOK, Advance, mainVars
<1>2. ExistsInv'
  BY DEF Inv, ExistsInv, Advance, mainVars
<1>3. FlagInv'
  BY TimeAssumption DEF Inv, TypeOK, FlagInv, Ages, Zero, Advance, Older, mainVars
<1>4. TimeInv'
  BY DEF Inv, TypeOK, TimeInv, Ages, Advance, Older, mainVars
<1>5. DueInv'
  BY TimeAssumption DEF Inv, TypeOK, DueInv, TimeInv, FlagInv, Checks, Ages, Advance,
         Older, mainVars
<1> QED BY <1>1, <1>2, <1>3, <1>4, <1>5 DEF Inv

LEMMA SetBackInv ==
    ASSUME NEW by \in 1..MaxBack, Inv, SetBack(by)
    PROVE  Inv'
<1>1. TypeOK'
  BY TimeAssumption DEF Inv, TypeOK, Ages, Huge, TimeInv, SetBack, Younger, mainVars,
         lobbyVars
<1>2. ExistsInv'
  BY DEF Inv, ExistsInv, SetBack, mainVars
<1>3. FlagInv'
  BY TimeAssumption DEF Inv, TypeOK, FlagInv, TimeInv, Ages, Zero, SetBack, Younger,
         mainVars
<1>4. TimeInv'
  BY DEF Inv, TimeInv, SetBack
<1>5. DueInv'
  BY DEF Inv, DueInv, SetBack
<1> QED BY <1>1, <1>2, <1>3, <1>4, <1>5 DEF Inv

-----------------------------------------------------------------------------

\* A step of any thread, or of the clocks, keeps the invariant.
LEMMA NextInv == Inv /\ [Next]_vars => Inv'
<1> SUFFICES ASSUME Inv, [Next]_vars PROVE Inv'
  OBVIOUS
<1>1. CASE Joining
  BY <1>1, TakeLockInv, JoinRunningInv, JoinRestartsInv, ClearFlagInv, ResetTimeInv
     DEF Joining
<1>2. CASE Housekeeping
  BY <1>2, CheckInv, LookInv, JudgeInv, DestroyInv, ChecksDoneInv, ResolveInv
     DEF Housekeeping
<1>3. CASE Shutdown
  BY <1>3, TellInv, ReapInv, ExitInv DEF Shutdown
<1>4. CASE Requests
  BY <1>4, EnterInv, LobbyEndInv, AskJoinInv DEF Requests
<1>5. CASE \E c \in Channels : Worker(c)
  BY <1>5, RoundInv, PoolInv, StampEmptyInv, RestInv DEF Worker
<1>6. CASE Loop \/ Stop \/ Advance \/ \E by \in 1..MaxBack : SetBack(by)
  BY <1>6, LoopInv, StopInv, AdvanceInv, SetBackInv
<1>7. CASE UNCHANGED vars
  <2>1. TypeOK'
    BY <1>7 DEF Inv, TypeOK, vars, timeVars, mainVars, lobbyVars, channelVars
  <2>2. ExistsInv' /\ DueInv'
    BY <1>7 DEF Inv, ExistsInv, DueInv, vars, timeVars, mainVars, channelVars
  <2>3. FlagInv'
    BY <1>7 DEF Inv, FlagInv, vars, mainVars, channelVars
  <2>4. TimeInv'
    BY <1>7 DEF Inv, TimeInv, vars, timeVars, mainVars, channelVars
  <2> QED BY <2>1, <2>2, <2>3, <2>4 DEF Inv
<1> QED BY <1>1, <1>2, <1>3, <1>4, <1>5, <1>6, <1>7 DEF Next, Main

\* The invariant holds in every state of the program.
THEOREM LifecycleInvHolds == Spec => []Inv
<1> QED BY InitInv, NextInv, PTL DEF Spec

\* Every variable has its type; a channel's pool_mtx is held by the worker exactly
\* while it stops, and by the main thread exactly while it joins that channel.
THEOREM LifecycleTypesHold == Spec => []TypeOK
<1>1. Inv => TypeOK
  BY DEF Inv
<1> QED BY <1>1, LifecycleInvHolds, PTL

\* No worker outlives its channel: ~Channel waits for it, whether the channel is
\* deleted by check_channels or at the end of the process.
THEOREM WorkerHasChannelHolds == Spec => []WorkerHasChannel
<1>1. Inv => WorkerHasChannel
  BY DEF Inv, ExistsInv, WorkerHasChannel
<1> QED BY <1>1, LifecycleInvHolds, PTL

-----------------------------------------------------------------------------
\* Only Destroy removes a channel while the main thread is at "delete", and it
\* removes the one that was found due.
LEMMA OnlyDueGo ==
    ASSUME Inv, Next, main = "delete", NEW c \in exists \ exists'
    PROVE  Destroy /\ c = at
<1>1. CASE Destroy
  BY <1>1 DEF Destroy, Free
<1>2. CASE Joining \/ Shutdown \/ Loop
  BY <1>2 DEF Joining, TakeLock, JoinRunning, JoinRestarts, ClearFlag, ResetTime,
              Shutdown, Tell, Reap, Exit, Loop
<1>3. CASE Check \/ Judge \/ ChecksDone \/ Resolve \/ \E d \in Channels : Look(d)
  BY <1>3 DEF Check, Judge, ChecksDone, Resolve, Look
<1>4. CASE Requests
  BY <1>4 DEF Requests, Enter, LobbyEnd, AskJoin
<1>5. CASE \E d \in Channels : Worker(d)
  BY <1>5 DEF Worker, Round, Pool, StampEmpty, Rest
<1>6. CASE Stop \/ Advance \/ \E by \in 1..MaxBack : SetBack(by)
  BY <1>6 DEF Stop, Advance, SetBack, channelVars
<1> QED BY <1>1, <1>2, <1>3, <1>4, <1>5, <1>6 DEF Next, Main, Housekeeping

\* check_channels deletes a channel only after 5 minutes without a client, unless
\* the clock has been set back, or the worker stopped after the clock was read.
THEOREM QuietBeforeDeleteHolds == Spec => QuietBeforeDelete
<1>1. Inv /\ [Next]_vars =>
          [\A c \in Channels :
              c \in exists \ exists' /\ main = "delete" =>
                  idle_age[c] > Quiet \/ empty_age[c] < now_age \/ back > 0]_vars
  BY OnlyDueGo DEF Inv, DueInv
<1> QED BY <1>1, LifecycleInvHolds, PTL DEF Spec, QuietBeforeDelete

-----------------------------------------------------------------------------
(* The lobby.                                                              *)

\* How often time can advance before the main thread is at a check: once if it has
\* come round since the last time, once more after it comes round again.
Left == (IF rested THEN 1 ELSE 0)
        + (IF main \in Checks \cup {"resolve", "top"} THEN 1 ELSE 0)

\* A check is due a period after the last one, give or take a round.  Whoever stays
\* in the lobby at a check has been there for less than the limit, and is older
\* now by the time since; once the clock has been set back last_age falls short of
\* that time, by no more than a period and a round, and when it is negative the
\* next check comes at once.
LobbyInv ==
    /\ last_age # Never => last_age + Left <= Period + 1
    /\ \A x \in lobby \ doomed :
           /\ last_act[x] # NoEntry
           /\ last_age = Never => last_act[x] + Left <= 2
           /\ last_age # Never /\ back = 0 => last_act[x] < LobbyLimit + last_age
           /\ last_age # Never /\ back > 0 =>
                  IF last_age >= 0 THEN last_act[x] <= LobbyLimit + Period + last_age
                                   ELSE last_act[x] + Left <= LobbyLimit + Period

\* Time can advance twice at most.
LEMMA LeftType == Left \in 0..2
  BY DEF Left

\* The lobby's times are as they were, and nobody enters.
LEMMA LobbyStays ==
    ASSUME LobbyInv, UNCHANGED <<rested, back, last_age>>,
           main' \in Checks \cup {"resolve", "top"}
               <=> main \in Checks \cup {"resolve", "top"},
           \A x \in lobby' \ doomed' :
               x \in lobby \ doomed /\ last_act'[x] = last_act[x]
    PROVE  LobbyInv'
<1>1. Left' = Left
  BY DEF Left
<1> QED BY <1>1 DEF LobbyInv

LEMMA EnterLobby ==
    ASSUME Inv, LobbyInv, NEW x \in Clients, Enter(x)
    PROVE  LobbyInv'
<1>1. Left \in 0..1 /\ Left' = Left
  BY DEF Enter, Left, Checks, timeVars, mainVars
<1>2. last_act' = [last_act EXCEPT ![x] = 0] /\ last_act \in [Clients -> NoEntry..Huge]
      /\ lobby' = lobby \cup {x} /\ UNCHANGED <<last_age, back, doomed>>
      /\ last_age \in Int /\ (back = 0 => last_age >= 0) /\ lobby \subseteq Clients
  BY DEF Enter, Inv, TypeOK, TimeInv, Ages, timeVars
<1>3. ASSUME NEW y \in lobby' \ doomed'
      PROVE  (y \in lobby \ doomed /\ last_act'[y] = last_act[y]) \/ last_act'[y] = 0
  BY <1>2
<1> QED BY <1>1, <1>2, <1>3, TimeAssumption DEF LobbyInv, NoEntry

LEMMA AdvanceLobby ==
    ASSUME Inv, LobbyInv, Advance
    PROVE  LobbyInv'
<1>1. Left' = Left - 1 /\ Left \in 1..2
  BY DEF Advance, Left, mainVars
<1>2. /\ last_age \in Ages /\ back \in Nat /\ (back = 0 => last_age >= 0)
      /\ lobby \subseteq Clients /\ last_act \in [Clients -> NoEntry..Huge]
  BY DEF Inv, TypeOK, TimeInv
<1>3. \/ last_age = Never /\ last_age' = Never
      \/ last_age # Never /\ last_age' = last_age + 1
  <2>1. last_age' = Older(last_age)
    BY DEF Advance
  <2> QED BY <1>2, <2>1, TimeAssumption DEF Older, Never, Huge, Ages
<1>4. last_age # Never => last_age' # Never
  BY <1>1, <1>2, <1>3, TimeAssumption DEF LobbyInv, Never, Huge, Ages
<1>5. ASSUME NEW x \in lobby \ doomed
      PROVE  last_act'[x] \in 0..last_act[x] + 1 /\ last_act[x] # NoEntry
  BY <1>2, TimeAssumption DEF LobbyInv, Advance, Older, NoEntry, Huge
<1>6. UNCHANGED <<lobby, doomed, back>>
  BY DEF Advance
<1> QED BY <1>1, <1>2, <1>3, <1>4, <1>5, <1>6, TimeAssumption
        DEF LobbyInv, NoEntry, Ages, Huge

LEMMA SetBackLobby ==
    ASSUME Inv, LobbyInv, NEW by \in 1..MaxBack, SetBack(by)
    PROVE  LobbyInv'
<1>1. Left' = Left /\ UNCHANGED <<lobby, doomed, last_act>>
  BY DEF SetBack, Left, mainVars, lobbyVars
<1>2. /\ last_age \in Ages /\ last_age >= 0 /\ back = 0 /\ back' > 0
      /\ lobby \subseteq Clients /\ last_act \in [Clients -> NoEntry..Huge]
  BY TimeAssumption DEF Inv, TypeOK, TimeInv, SetBack
<1>3. \/ last_age = Never /\ last_age' = Never
      \/ last_age # Never /\ last_age' \in -MaxBack..last_age - 1
  BY <1>2, TimeAssumption DEF SetBack, Younger, Never, Huge, Ages
<1>4. last_age # Never => last_age' # Never
  BY <1>2, <1>3, TimeAssumption DEF Never, Huge, Ages
<1> QED BY <1>1, <1>2, <1>3, <1>4, LeftType, TimeAssumption
        DEF LobbyInv, NoEntry, Ages, Huge

LEMMA LoopLobby ==
    ASSUME Inv, LobbyInv, Loop
    PROVE  LobbyInv'
<1>1. Left' <= Left /\ Left \in 0..2 /\ Left' \in 0..2
  BY DEF Loop, Left, Checks
<1>2. UNCHANGED <<last_age, back, lobby, doomed, last_act>>
  BY DEF Loop, lobbyVars
<1>3. /\ last_age \in Ages
      /\ lobby \subseteq Clients /\ last_act \in [Clients -> NoEntry..Huge]
  BY DEF Inv, TypeOK
<1> QED BY <1>1, <1>2, <1>3, TimeAssumption DEF LobbyInv, NoEntry, Ages, Huge

LEMMA CheckLobbyBound ==
    ASSUME Inv, LobbyInv, Check
    PROVE  LobbyInv'
<1>1. Left' \in 0..2 /\ Left' = Left + 1 /\ back' = back /\ lobby' = lobby
  BY DEF Check, Left, Checks
<1>2. /\ last_age \in Ages /\ back \in Nat /\ (back = 0 => last_age >= 0)
      /\ lobby \subseteq Clients /\ last_act \in [Clients -> NoEntry..Huge]
  BY DEF Inv, TypeOK, TimeInv
<1>3. CASE Since(last_age) < Period
  <2>1. last_age \in 0..Period - 1
    BY <1>2, <1>3, TimeAssumption DEF Since, Huge, Ages
  <2>2. UNCHANGED <<last_age, last_act, doomed>>
    BY <1>3 DEF Check
  <2>3. last_age # Never
    BY <2>1, TimeAssumption DEF Never, Huge
  <2> QED BY <1>1, <1>2, <2>1, <2>2, <2>3, TimeAssumption DEF LobbyInv
<1>4. CASE ~(Since(last_age) < Period)
  <2>1. last_age' = 0 /\ 0 # Never
    BY <1>4, TimeAssumption DEF Check, Never, Huge
  <2>2. ASSUME NEW x \in lobby' \ doomed'
        PROVE  last_act'[x] \in 0..LobbyLimit - 1
    <3>1. x \in lobby \ doomed /\ x \in Clients /\ ~(last_act[x] >= LobbyLimit)
      BY <1>1, <1>2, <1>4 DEF Check
    <3>2. last_act'[x] = last_act[x]
      BY <1>4, <3>1 DEF Check
    <3> QED BY <1>2, <3>1, <3>2, TimeAssumption DEF LobbyInv, NoEntry, Huge
  <2> QED BY <1>1, <1>2, <2>1, <2>2, TimeAssumption DEF LobbyInv, NoEntry
<1> QED BY <1>3, <1>4

LEMMA NextLobby == Inv /\ LobbyInv /\ [Next]_vars => LobbyInv'
<1> SUFFICES ASSUME Inv, LobbyInv, [Next]_vars PROVE LobbyInv'
  OBVIOUS
<1>1. CASE Joining
  <2>1. CASE TakeLock \/ JoinRestarts \/ ClearFlag
    BY <2>1, LobbyStays
       DEF TakeLock, JoinRestarts, ClearFlag, Checks, timeVars, lobbyVars
  <2>2. CASE JoinRunning \/ ResetTime
    <3>1. \A x \in lobby' : x \in lobby /\ last_act'[x] = last_act[x]
      BY <2>2 DEF Inv, TypeOK, JoinRunning, ResetTime, Queue
    <3> QED BY <2>2, <3>1, LobbyStays
            DEF JoinRunning, ResetTime, Queue, Checks, timeVars
  <2> QED BY <1>1, <2>1, <2>2 DEF Joining
<1>2. CASE Housekeeping
  <2>1. CASE Judge \/ Destroy \/ ChecksDone \/ Resolve \/ \E c \in Channels : Look(c)
    BY <2>1, LobbyStays
       DEF Judge, Destroy, ChecksDone, Resolve, Look, Checks, timeVars, lobbyVars
  <2> QED BY <1>2, <2>1, CheckLobbyBound DEF Housekeeping
<1>3. CASE Shutdown
  BY <1>3, LobbyStays DEF Shutdown, Tell, Reap, Exit, Checks, timeVars, lobbyVars
<1>4. CASE Requests
  <2>1. ASSUME NEW x \in Clients, LobbyEnd(x) \/ \E c \in Channels : AskJoin(x, c)
        PROVE  LobbyInv'
    BY <2>1, LobbyStays DEF LobbyEnd, AskJoin, Checks, timeVars, mainVars, lobbyVars
  <2> QED BY <1>4, <2>1, EnterLobby DEF Requests
<1>5. CASE \E c \in Channels : Worker(c)
  BY <1>5, LobbyStays
     DEF Worker, Round, Pool, StampEmpty, Rest, timeVars, mainVars, lobbyVars
<1>6. CASE Stop
  BY <1>6, LobbyStays DEF Stop, timeVars, lobbyVars
<1>7. CASE UNCHANGED vars
  BY <1>7, LobbyStays DEF vars, timeVars, mainVars, lobbyVars
<1> QED BY <1>1, <1>2, <1>3, <1>4, <1>5, <1>6, <1>7, LoopLobby, AdvanceLobby,
           SetBackLobby
        DEF Next, Main

\* check_lobby catches in time whoever does not ask for a channel, even when the
\* clock is set back (channel_server.cpp:10, 189, task_runner.h:52).
THEOREM LobbyBoundedHolds == Spec => []LobbyBounded
<1>1. Init => LobbyInv
  BY DEF Init, LobbyInv
<1>2. Inv /\ LobbyInv => LobbyBounded
  <2> SUFFICES ASSUME Inv, LobbyInv, NEW x \in lobby \ doomed
               PROVE  last_act[x] # NoEntry
                      /\ last_act[x] <= LobbyLimit + 2 * Period + 1
    BY DEF LobbyBounded
  <2>1. /\ last_age \in Ages /\ back \in Nat /\ (back = 0 => last_age >= 0)
        /\ lobby \subseteq Clients /\ last_act \in [Clients -> NoEntry..Huge]
    BY DEF Inv, TypeOK, TimeInv
  <2> QED BY <2>1, LeftType, TimeAssumption DEF LobbyInv, NoEntry, Ages, Huge
<1> QED BY <1>1, <1>2, NextLobby, LifecycleInvHolds, PTL DEF Spec

===============================================================================

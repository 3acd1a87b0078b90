------------------------------ MODULE ServerBase ------------------------------
(***************************************************************************)
(* ServerBase (src/server/server_base.cpp) and the tick every server runs: *)
(* TaskRunner::run calls the tasks of TS_PRE, TS_POLL and TS_LOGIC in      *)
(* order, over and over.  The lobby runs its tick on the main thread, each *)
(* channel on its worker; pc says where in the tick a thread is:           *)
(*   "pre"      between two runs, about to clear next_deletion             *)
(*   "events"   in the loop over the events epoll_wait returned            *)
(*   "frames"   there, in the loop of on_recv over the frames of a client  *)
(*   "dels"     in the loop of resolve_deletion, between two descriptors   *)
(*   "unname"   there, about to forget the name of the descriptor cur      *)
(*   "close"    there, about to close cur                                  *)
(* and the places that only the lobby or only a channel has.               *)
(***************************************************************************)
EXTENDS ConnectionTracker, UserManager

VARIABLES
    pc,             \* server -> where its thread is
    next_deletion,  \* server -> ServerBase::next_deletion
    events,         \* server -> events the loop of TS_POLL has not handled
    frames,         \* server -> frames recv_frame returned, on_frame not called
    doomed,         \* server -> descriptors the deletion loop has not reached
    cur             \* server -> descriptors the deletion loop is at (0 or 1)

tickVars == <<pc, next_deletion, events, frames, doomed, cur>>

\* A frame, with the descriptor it was read from and the user it names.
Frames == [fd : FDs, who : Conns, req : Requests]

LobbyPcs  == {"pre", "reports", "lookup", "register", "fresh", "full", "join",
              "restarted", "leave", "detach", "events", "frames", "channels",
              "dels", "unname", "close"}
WorkerPcs == {"none", "pre", "events", "frames", "joins", "leaves", "cast",
              "dels", "unname", "close", "dead"}

TickTypeOK ==
    /\ pc \in [Servers -> LobbyPcs \cup WorkerPcs]
    /\ pc[Lobby] \in LobbyPcs
    /\ \A c \in Channels : pc[c] \in WorkerPcs
    /\ next_deletion \in [Servers -> SUBSET FDs]
    /\ events \in [Servers -> SUBSET (FDs \cup {Listener})]
    /\ frames \in [Servers -> Seq(Frames)]
    /\ \A s \in Servers : pc[s] = "frames" => frames[s] # <<>>
    /\ doomed \in [Servers -> SUBSET FDs]
    /\ cur \in [Servers -> SUBSET FDs]

TickInit ==
    /\ pc = [s \in Servers |-> IF s = Lobby THEN "pre" ELSE "none"]
    /\ next_deletion = [s \in Servers |-> {}]
    /\ events = [s \in Servers |-> {}]
    /\ frames = [s \in Servers |-> <<>>]
    /\ doomed = [s \in Servers |-> {}]
    /\ cur = [s \in Servers |-> {}]

-----------------------------------------------------------------------------
Goto(s, l) == pc' = [pc EXCEPT ![s] = l]

Handled(s, e) == /\ e \in events[s]
                 /\ events' = [events EXCEPT ![s] = @ \ {e}]

\* next_deletion.insert; the variant forgets it.
CondemnForgotten(s, S) == UNCHANGED next_deletion
Condemn(s, S) == next_deletion' = [next_deletion EXCEPT ![s] = @ \cup S]

\* TS_POLL: epoll_wait, then the loop over what it returned.
Poll(s) ==
    /\ events' = [events EXCEPT ![s] = Ready(s)]
    /\ Goto(s, "events")

\* handle_events: EPOLLHUP (on_disconnect) or a recv that fails (on_recv).
EventEnds(s, fd) ==
    /\ pc[s] = "events"
    /\ Handled(s, fd)
    /\ RecvEnds(fd)
    /\ Condemn(s, {fd})
    /\ UNCHANGED <<sockVars, clients, name_map, pc, frames, doomed, cur>>

\* on_recv: another thread has read what the event announced.
EventEmpty(s, fd) ==
    /\ pc[s] = "events"
    /\ Handled(s, fd)
    /\ RecvNothing(fd)
    /\ UNCHANGED <<sockVars, clients, name_map, pc, next_deletion, frames,
                   doomed, cur>>

\* on_recv: recv_frame returns everything the client has sent.
EventReceives(s, fd) ==
    /\ pc[s] = "events"
    /\ Handled(s, fd)
    /\ RecvData(fd)
    /\ LET x == sock[fd]
       IN  /\ frames' = [frames EXCEPT ![s] = [i \in DOMAIN rx[x] |->
                            [fd |-> fd, who |-> x, req |-> rx[x][i]]]]
           /\ rx' = [rx EXCEPT ![x] = <<>>]
    /\ Goto(s, "frames")
    /\ UNCHANGED <<sock, peer, backlog, interest, acceptors, clients,
                   name_map, next_deletion, doomed, cur>>

\* on_recv calls on_frame for the next frame.  When the handler is done with
\* the last one, the loop over the events goes on.
Frame(s) == Head(frames[s])
TakeFrame(s) == frames' = [frames EXCEPT ![s] = Tail(@)]
AfterFrame(s, left) == IF left = <<>> THEN "events" ELSE "frames"

\* handle_events: accept fails.
EventAcceptFails(s) ==
    /\ pc[s] = "events"
    /\ Handled(s, Listener)
    /\ NoFreeFd
    /\ UNCHANGED <<sockVars, clients, name_map, pc, next_deletion, frames,
                   doomed, cur>>

-----------------------------------------------------------------------------
\* The tick goes to the deletion loop over S, or ends if there is none.
StartDeletion(s, S) ==
    /\ doomed' = [doomed EXCEPT ![s] = S]
    /\ Goto(s, IF S = {} THEN "pre" ELSE "dels")

\* resolve_deletion: remove_user_name.  The variant keeps the name.
KeepUserName(s) ==
    /\ pc[s] = "unname"
    /\ Goto(s, "close")
    /\ UNCHANGED <<sockVars, clients, name_map, next_deletion, events, frames,
                   doomed, cur>>
RemoveUserName(s) ==
    /\ pc[s] = "unname"
    /\ name_map' = [fd \in FDs |-> IF fd \in cur[s] THEN NoConn ELSE name_map[fd]]
    /\ Goto(s, "close")
    /\ UNCHANGED <<sockVars, clients, next_deletion, events, frames, doomed,
                   cur>>

\* resolve_deletion: close and clear_buffer, then the next descriptor.
CloseClient(s) ==
    /\ pc[s] = "close"
    /\ Close(cur[s])
    /\ cur' = [cur EXCEPT ![s] = {}]
    /\ Goto(s, IF doomed[s] = {} THEN "pre" ELSE "dels")
    /\ UNCHANGED <<backlog, acceptors, clients, name_map, next_deletion,
                   events, frames, doomed>>
=============================================================================

-------------------------- MODULE ChannelServerRooms --------------------------
(***************************************************************************)
(* The whole server as an implementation of Rooms.  A room is a channel; a *)
(* promised place is an entry of its join_pool; the batch being taken in   *)
(* is what resolve_pool has moved out and not handled; a room is stopped   *)
(* when stop_flag is set.                                                  *)
(***************************************************************************)
EXTENDS ChannelServerProperties

RoomState ==
    [c \in Channels |-> IF pc[c] = "none" THEN "none"
                        ELSE IF stop_flag[c] THEN "stopped" ELSE "open"]
Members == [c \in Channels |-> clients[c]]
Taking  == [c \in Channels |-> IF pc[c] = "joins" THEN local_q[c] ELSE {}]

Room == INSTANCE Rooms
        WITH Rms <- Channels, Seats <- FDs, Guests <- PoolEntries,
             Size <- ChMaxFd,
             state <- RoomState, members <- Members, promised <- join_pool,
             taking <- Taking

\* To its clients the server is a set of rooms: whatever the interleaving of
\* the main thread and the workers, nobody is in a channel who was not promised
\* a place, no place is promised twice, and a channel stops, restarts and goes
\* only as a room does (channel.cpp:34, 74, 116, channel_server.cpp:113, 155,
\* 204).
ImplementsRooms == Room!Spec
=============================================================================

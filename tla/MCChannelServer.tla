---------------------------- MODULE MCChannelServer ----------------------------
(***************************************************************************)
(* The whole server for TLC: finite sets for the constants and symmetry.   *)
(* Descriptors and connections are interchangeable; channel ids are not,   *)
(* find_or_create_channel takes the lowest free one.                       *)
(***************************************************************************)
EXTENDS ChannelServerRooms, TLC

OneChannel == {1}
TwoChannels == {1, 2}

\* How much each client asks for.
One   == [x \in Conns |-> 1]
Two   == [x \in Conns |-> 2]
Three == [x \in Conns |-> 3]

Symmetry == Permutations(FDs) \cup Permutations(Conns)
=============================================================================

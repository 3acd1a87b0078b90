----------------------------- MODULE MCChatSwitch -----------------------------
(***************************************************************************)
(* ChatSwitch for TLC: nobody says anything.                               *)
(***************************************************************************)
EXTENDS ChatSwitch

Silence == [x \in Clients |-> 0]
=============================================================================

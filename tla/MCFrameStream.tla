---------------------------- MODULE MCFrameStream ----------------------------
(***************************************************************************)
(* FrameStream for TLC.  Two connections: the first joins, or leaves bytes *)
(* behind, the second joins, switches and sends a message.                 *)
(***************************************************************************)
EXTENDS FrameStream

OneThenThree == <<1, 3>>
OneThenTwo   == <<1, 2>>
=============================================================================

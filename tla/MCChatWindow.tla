----------------------------- MODULE MCChatWindow -----------------------------
(***************************************************************************)
(* ChatWindow for TLC: the client of client_win.cpp says two things.       *)
(***************************************************************************)
EXTENDS ChatWindow

WinSaysTwo == [x \in Clients |-> IF x \in Win THEN 2 ELSE 0]
=============================================================================

----------------------------- MODULE UserManager -----------------------------
(***************************************************************************)
(* UserManager (src/server/user_manager.cpp): the process-wide map from    *)
(* descriptors to user names, every method under one shared_mutex.  A name *)
(* stands for the connection it was recorded for, so that a name left over *)
(* from an earlier connection on the same descriptor can be told from the  *)
(* name of the present one.                                                *)
(***************************************************************************)
EXTENDS Sockets

VARIABLE name_map   \* descriptor -> name, NoConn if none is recorded

UserTypeOK == name_map \in [FDs -> Conns \cup {NoConn}]
UserInit   == name_map = [fd \in FDs |-> NoConn]

HasName(fd) == name_map[fd] # NoConn
get_user_name(fd) == name_map[fd]
set_user_name(fd, x) == name_map' = [name_map EXCEPT ![fd] = x]
=============================================================================

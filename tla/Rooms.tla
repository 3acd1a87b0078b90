--------------------------------- MODULE Rooms ---------------------------------
(***************************************************************************)
(* What the channels promise, without threads, locks, sockets or reports:  *)
(* a set of rooms of bounded size.  A room is made, promises places while  *)
(* it has any, takes in those it has promised one to, loses members, stops *)
(* when it is empty, is opened again by the next promise, and goes only    *)
(* after it has stopped.  ChannelServer implements it: see                 *)
(* ChannelServerRooms.                                                     *)
(***************************************************************************)
EXTENDS Naturals, FiniteSets

CONSTANTS
    Rms,        \* the rooms that may be
    Seats,      \* who may be a member
    Guests,     \* records with a field fd \in Seats: who a place is promised to
    Size        \* places of a room

VARIABLES
    state,      \* room -> "none", "open" or "stopped"
    members,    \* room -> members
    promised,   \* room -> guests that wait to be taken in
    taking      \* room -> guests of the batch that is being taken in

roomVars == <<state, members, promised, taking>>

Init ==
    /\ state = [r \in Rms |-> "none"]
    /\ members = [r \in Rms |-> {}]
    /\ promised = [r \in Rms |-> {}]
    /\ taking = [r \in Rms |-> {}]

Taken(r) == Cardinality(members[r]) + Cardinality(promised[r])
            + Cardinality(taking[r])

\* Nobody is in the room or expected.
Deserted(r) == members[r] = {} /\ promised[r] = {} /\ taking[r] = {}

-----------------------------------------------------------------------------
Make(r) ==
    /\ state[r] = "none"
    /\ state' = [state EXCEPT ![r] = "open"]
    /\ UNCHANGED <<members, promised, taking>>

\* A place is promised only if there is one, and opens a stopped room.
Promise(r, g) ==
    /\ state[r] # "none"
    /\ Taken(r) < Size
    /\ g \notin promised[r]
    /\ state' = [state EXCEPT ![r] = "open"]
    /\ promised' = [promised EXCEPT ![r] = @ \cup {g}]
    /\ UNCHANGED <<members, taking>>

\* The guests that wait become the batch to take in.
Call(r) ==
    /\ state[r] = "open"
    /\ taking[r] = {}
    /\ taking' = [taking EXCEPT ![r] = promised[r]]
    /\ promised' = [promised EXCEPT ![r] = {}]
    /\ UNCHANGED <<state, members>>

\* Nobody becomes a member who has not been promised a place.
TakeIn(r, g) ==
    /\ state[r] = "open"
    /\ g \in taking[r]
    /\ taking' = [taking EXCEPT ![r] = @ \ {g}]
    /\ members' = [members EXCEPT ![r] = @ \cup {g.fd}]
    /\ UNCHANGED <<state, promised>>

\* A guest may be gone before it is taken in.
Forget(r, g) ==
    /\ state[r] = "open"
    /\ g \in taking[r]
    /\ taking' = [taking EXCEPT ![r] = @ \ {g}]
    /\ UNCHANGED <<state, members, promised>>

Leave(r, s) ==
    /\ s \in members[r]
    /\ members' = [members EXCEPT ![r] = @ \ {s}]
    /\ UNCHANGED <<state, promised, taking>>

Stop(r) ==
    /\ state[r] = "open"
    /\ Deserted(r)
    /\ state' = [state EXCEPT ![r] = "stopped"]
    /\ UNCHANGED <<members, promised, taking>>

Discard(r) ==
    /\ state[r] = "stopped"
    /\ Deserted(r)
    /\ state' = [state EXCEPT ![r] = "none"]
    /\ UNCHANGED <<members, promised, taking>>

Next ==
    \E r \in Rms :
        \/ Make(r) \/ Call(r) \/ Stop(r) \/ Discard(r)
        \/ \E g \in Guests : Promise(r, g) \/ TakeIn(r, g) \/ Forget(r, g)
        \/ \E s \in Seats : Leave(r, s)

Spec == Init /\ [][Next]_roomVars
=============================================================================

------------------------------- MODULE RoomMap -------------------------------
(***************************************************************************)
(* What AppState.rooms promises to the rest of the server, without its     *)
(* Vec of pairs: for every room a map from users to at most one connection *)
(* each, and a send that reaches, at once, every connection in the map     *)
(* whose receiver is still there and forgets the others.                   *)
(***************************************************************************)
EXTENDS Naturals

CONSTANTS Users, Sessions, Rooms, NoSession, Messages, Notice

VARIABLES
  members,  \* members[r][u]: where u's copy of room r's messages goes
  open,     \* connections whose receiver exists
  heard     \* heard[s][m]: how often connection s was sent m live

vars == <<members, open, heard>>

Init ==
  /\ members = [r \in Rooms |-> [u \in Users |-> NoSession]]
  /\ open = {}
  /\ heard = [s \in Sessions |-> [m \in Messages |-> 0]]

Enter(r, u, s) ==
  /\ members'[r][u] = s
  /\ members' = [members EXCEPT ![r] = [@ EXCEPT ![u] = s]]
  /\ UNCHANGED <<open, heard>>

Drop(r, u) ==
  /\ members'[r][u] # members[r][u]
  /\ members' = [members EXCEPT ![r] = [@ EXCEPT ![u] = NoSession]]
  /\ UNCHANGED <<open, heard>>

DropEverywhere(u) ==
  /\ \E r \in Rooms : members'[r][u] # members[r][u]
  /\ members' = [r \in Rooms |-> [members[r] EXCEPT ![u] = NoSession]]
  /\ UNCHANGED <<open, heard>>

Reached(r) == {members[r][u] : u \in Users} \cap open

Send(r, m) ==
  /\ m # Notice => heard' # heard
  /\ heard' = [s \in Sessions |-> IF m # Notice /\ s \in Reached(r)
                                  THEN [heard[s] EXCEPT ![m] = @ + 1] ELSE heard[s]]
  /\ members' = [members EXCEPT ![r] =
       [u \in Users |-> IF @[u] \in open THEN @[u] ELSE NoSession]]
  /\ UNCHANGED open

(* Connections come and go without telling the map. *)
Opens(s)  == s \notin open /\ open' = open \cup {s} /\ UNCHANGED <<members, heard>>
Closes(s) == s \in open /\ open' = open \ {s} /\ UNCHANGED <<members, heard>>

Restart ==
  /\ members' = [r \in Rooms |-> [u \in Users |-> NoSession]]
  /\ open' = {}
  /\ UNCHANGED heard

Next ==
  \/ \E r \in Rooms, u \in Users : Drop(r, u) \/ \E s \in Sessions : Enter(r, u, s)
  \/ \E u \in Users : DropEverywhere(u)
  \/ \E r \in Rooms, m \in Messages \cup {Notice} : Send(r, m)
  \/ \E s \in Sessions : Opens(s) \/ Closes(s)
  \/ Restart

Spec == Init /\ [][Next]_vars
=============================================================================

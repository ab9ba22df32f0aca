----------------------------- MODULE ActiveRoom -----------------------------
(***************************************************************************)
(* One user's two views of the room it is in: current_room and rooms of    *)
(* the terminal client, user_rooms and room_members of the server.  The    *)
(* client changes its view at once and sends a line; the server answers    *)
(* with room lists, and names the active room only at connect.  The tasks  *)
(* of other users may at any time add the room of a DM they send.          *)
(*                                                                         *)
(* The handlers of the user's own lines run one after the other, so each   *)
(* is one step up to its send_room_list; reading the memberships and       *)
(* pushing the list are two steps more, for every task.                    *)
(***************************************************************************)
EXTENDS Naturals, Sequences, AppState

CONSTANTS
  Rooms,       \* room names the client accepts
  General,     \* the default room
  Rejected,    \* of those, the ones the server refuses: a name with a dot,
               \* the DM room of somebody who is not registered
  Targets,     \* rooms the user names in /join and /dm
  StartRooms,  \* room_members of the user at connect, the latest first
  Settled,     \* has the client handled what the server sent at connect?
  Commands,    \* the commands the user gives
  Me,          \* the user's own task
  Others,      \* tasks of other users that send it a DM
  DmOf,        \* DmOf[o]: the room of that DM
  MaxLines     \* bound: lines the client sends

Tasks == {Me} \cup Others

ASSUME ActiveRoomAssumption ==
  /\ General \in Rooms \ Rejected
  /\ Rejected \subseteq Rooms /\ Targets \subseteq Rooms
  /\ StartRooms \in Seq(Rooms \ Rejected) /\ StartRooms # <<>>
  /\ Settled \in BOOLEAN
  /\ Me \notin Others
  /\ DmOf \in [Others -> Rooms \ Rejected]
  /\ MaxLines \in Nat

VARIABLES
  current, rooms,  \* the client's current_room and sidebar
  up, down,        \* lines to the server, frames to the client
  active,          \* user_rooms
  mine,            \* room_members
  step, list,      \* where each task is, and the list it has read
  lines            \* the bounded counter

client == <<current, rooms>>
server == <<active, mine>>
vars   == <<client, up, down, server, step, list, lines>>

Listed(r, seq) == \E i \in 1..Len(seq) : seq[i] = r

RoomList(names)     == [kind |-> "RoomList", names |-> names]
SetActiveRoom(room) == [kind |-> "SetActiveRoom", names |-> <<room>>]

Init ==
  /\ active = Head(StartRooms)
  /\ mine = StartRooms
  /\ IF Settled
     THEN rooms = StartRooms /\ current = Head(StartRooms) /\ down = <<>>
     ELSE /\ rooms = <<General>> /\ current = General
          /\ down = <<RoomList(StartRooms), SetActiveRoom(Head(StartRooms))>>
  /\ up = <<>>
  /\ step = [t \in Tasks |-> "idle"]
  /\ list = [t \in Tasks |-> <<>>]
  /\ lines = 0

-----------------------------------------------------------------------------
(* The client.                                                             *)

(* The line, and the room the screen shows after it.                       *)
Send(cmd, room, shown) ==
  /\ cmd \in Commands /\ lines < MaxLines
  /\ lines' = lines + 1
  /\ up' = Append(up, [cmd |-> cmd, room |-> room, shown |-> shown])
  /\ UNCHANGED <<down, server, step, list>>

(* /join and /dm: into the room at once, and into the sidebar.             *)
Enter(cmd, room) ==
  /\ Send(cmd, room, room)
  /\ current' = room
  /\ rooms' = IF Listed(room, rooms) THEN rooms ELSE Append(rooms, room)

cmd_join(room) == Enter("join", room)
cmd_dm(room)   == Enter("msg", room)

cmd_leave ==
  /\ Len(rooms) > 1
  /\ rooms' = Without(rooms, current)
  /\ current' = Head(rooms')
  /\ Send("leave", current, current')

(* A click or Enter in the sidebar.                                        *)
select_room(room) ==
  /\ room # current /\ Listed(room, rooms)
  /\ current' = room
  /\ Send("switch", room, room)
  /\ UNCHANGED rooms

(* Plain text, with no room named.                                         *)
send_text ==
  /\ Send("text", current, current)
  /\ UNCHANGED client

(* Wrong: a list that lacks the current room changes nothing else.         *)
RoomListOnly ==
  /\ down # <<>>
  /\ down' = Tail(down)
  /\ IF Head(down).kind = "RoomList"
     THEN rooms' = Head(down).names /\ UNCHANGED current
     ELSE current' = Head(Head(down).names) /\ UNCHANGED rooms
  /\ UNCHANGED <<up, server, step, list, lines>>

handle_server_message ==
  LET names == Head(down).names IN
  /\ down # <<>>
  /\ down' = Tail(down)
  /\ \/ /\ Head(down).kind = "RoomList"
        /\ rooms' = names
        /\ current' = IF Listed(current, names) THEN current ELSE Head(names)
     \/ /\ Head(down).kind = "SetActiveRoom"
        /\ current' = Head(names)
        /\ UNCHANGED rooms
  /\ UNCHANGED <<up, server, step, list, lines>>

ClientStep ==
  \/ \E r \in Targets : cmd_join(r) \/ cmd_dm(r)
  \/ \E r \in Rooms : select_room(r)
  \/ cmd_leave \/ send_text \/ handle_server_message

-----------------------------------------------------------------------------
(* The server.                                                             *)

(* The user's own task takes a line when it is done with the last one.     *)
Take(cmd) ==
  /\ step[Me] = "idle"
  /\ up # <<>> /\ Head(up).cmd = cmd
  /\ up' = Tail(up)
  /\ UNCHANGED <<client, down, list, lines>>

ListNext(t) == step' = [step EXCEPT ![t] = "list"]

handle_join_or_msg(cmd) ==
  LET room == Head(up).room IN
  /\ Take(cmd)
  /\ \/ room \in Rejected /\ UNCHANGED <<server, step>>
     \/ /\ room \notin Rejected
        /\ active' = room
        /\ mine' = save_room_membership(mine, room)
        /\ ListNext(Me)

handle_leave_command ==
  /\ Take("leave")
  /\ \/ active = General /\ UNCHANGED <<server, step>>
     \/ /\ active # General
        /\ mine' = remove_room_membership(mine, active)
        /\ active' = LastRoomOr(mine', General)
        /\ ListNext(Me)

(* /switch takes any name, also one that /join would refuse.               *)
handle_switch_command ==
  /\ Take("switch")
  /\ active' = Head(up).room
  /\ UNCHANGED <<mine, step>>

(* get_user_room decides where the text goes.                              *)
handle_regular_message ==
  /\ Take("text")
  /\ UNCHANGED <<server, step>>

(* A /msg to the user; each of Others sends one.                           *)
DmArrives(o) ==
  /\ step[o] = "idle"
  /\ mine' = save_room_membership(mine, DmOf[o])
  /\ ListNext(o)
  /\ UNCHANGED <<client, up, down, active, list, lines>>

(* Wrong: a user without memberships gets an empty list.                   *)
ReadMembershipsOnly(t) ==
  /\ step[t] = "list"
  /\ list' = [list EXCEPT ![t] = mine]
  /\ step' = [step EXCEPT ![t] = "push"]
  /\ UNCHANGED <<client, up, down, server, lines>>

(* send_room_list: the memberships are read, and the list is pushed.       *)
ReadRoomList(t) ==
  /\ step[t] = "list"
  /\ list' = [list EXCEPT ![t] = IF mine = <<>> THEN <<General>> ELSE mine]
  /\ step' = [step EXCEPT ![t] = "push"]
  /\ UNCHANGED <<client, up, down, server, lines>>

PushRoomList(t) ==
  /\ step[t] = "push"
  /\ down' = Append(down, RoomList(list[t]))
  /\ list' = [list EXCEPT ![t] = <<>>]
  /\ step' = [step EXCEPT ![t] = IF t = Me THEN "idle" ELSE "done"]
  /\ UNCHANGED <<client, up, server, lines>>

ServerStep ==
  \/ handle_join_or_msg("join") \/ handle_join_or_msg("msg")
  \/ handle_leave_command \/ handle_switch_command \/ handle_regular_message
  \/ \E o \in Others : DmArrives(o)
  \/ \E t \in Tasks : ReadRoomList(t) \/ PushRoomList(t)

Next == ClientStep \/ ServerStep

Spec == Init /\ [][Next]_vars

-----------------------------------------------------------------------------
(* Properties.                                                             *)

Cmds   == {"join", "msg", "leave", "switch", "text"}
Lines  == [cmd : Cmds, room : Rooms, shown : Rooms]
Names  == Seq(Rooms)
Frames == [kind : {"RoomList", "SetActiveRoom"}, names : Names \ {<<>>}]

(* The types.  No list is ever empty: the client takes its first room.     *)
TypeOK ==
  /\ current \in Rooms
  /\ rooms \in Names \ {<<>>}
  /\ up \in Seq(Lines)
  /\ down \in Seq(Frames)
  /\ active \in Rooms
  /\ mine \in Seq(Rooms \ Rejected)
  /\ step \in [Tasks -> {"idle", "list", "push", "done"}]
  /\ list \in [Tasks -> Names]
  /\ \A t \in Tasks : step[t] = "push" => list[t] # <<>>
  /\ lines \in Nat

(* "Sets which room `username` is currently viewing": a text goes to the   *)
(* room on the screen when it was typed.                                   *)
RoutedWhereShown ==
  [][handle_regular_message => active = Head(up).shown]_vars

(* "current_room is always a member of rooms".                             *)
CurrentInRooms == Listed(current, rooms)
=============================================================================

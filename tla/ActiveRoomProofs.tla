-------------------------- MODULE ActiveRoomProofs --------------------------
(***************************************************************************)
(* Theorems about ActiveRoom, for every set of rooms and of other users,   *)
(* every order of the memberships and every number of lines.               *)
(***************************************************************************)
EXTENDS ActiveRoom, SequenceTheorems, TLAPS

-----------------------------------------------------------------------------
(* Facts about lists of rooms.                                             *)

(* A room is taken out of a list once, if it is there.                     *)
LEMMA WithoutType ==
  ASSUME NEW S, NEW names \in Seq(S), NEW r
  PROVE  /\ Without(names, r) \in Seq(S)
         /\ Len(names) > 1 => Without(names, r) # <<>>
<1>1. Len(names) \in Nat
  BY LenProperties
<1>2. CASE \E i \in 1..Len(names) : names[i] = r
  <2> DEFINE i == CHOOSE j \in 1..Len(names) : names[j] = r
             before == SubSeq(names, 1, i-1)
             after  == SubSeq(names, i+1, Len(names))
  <2>1. i \in 1..Len(names)
    BY <1>2
  <2>2. Without(names, r) = before \o after
    BY <1>2 DEF Without, RemoveAt
  <2> HIDE DEF i
  <2>3. before \in Seq(S) /\ Len(before) = i - 1
    <3>1. \A j \in 1..(i-1) : names[j] \in S
      BY <1>1, <2>1, ElementOfSeq
    <3>2. QED
      BY <1>1, <2>1, <3>1, SubSeqProperties
  <2>4. after \in Seq(S) /\ Len(after) = Len(names) - i
    <3>1. \A j \in (i+1)..Len(names) : names[j] \in S
      BY <1>1, <2>1, ElementOfSeq
    <3>2. QED
      BY <1>1, <2>1, <3>1, SubSeqProperties
  <2> HIDE DEF before, after
  <2>5. before \o after \in Seq(S) /\ Len(before \o after) = Len(names) - 1
    BY <1>1, <2>1, <2>3, <2>4, ConcatProperties
  <2>6. QED
    BY <1>1, <2>2, <2>5, EmptySeq
<1>3. CASE ~ \E i \in 1..Len(names) : names[i] = r
  BY <1>1, <1>3, EmptySeq DEF Without
<1>4. QED
  BY <1>2, <1>3

(* A list that is not empty has its first room.                            *)
LEMMA FirstIsListed ==
  ASSUME NEW S, NEW names \in Seq(S), names # <<>>
  PROVE  Head(names) \in S /\ Listed(Head(names), names)
<1>1. Len(names) \in Nat /\ Len(names) >= 1
  BY LenProperties, EmptySeq
<1>2. Head(names) = names[1] /\ Head(names) \in S
  BY HeadTailProperties
<1>3. QED
  BY <1>1, <1>2 DEF Listed

(* A room put at the end is listed, and so are those there before.         *)
LEMMA AppendedIsListed ==
  ASSUME NEW S, NEW names \in Seq(S), NEW r \in S
  PROVE  /\ Append(names, r) \in Seq(S) \ {<<>>}
         /\ Listed(r, Append(names, r))
<1>1. Len(names) \in Nat
  BY LenProperties
<1>2. /\ Append(names, r) \in Seq(S)
      /\ Len(Append(names, r)) = Len(names) + 1
      /\ Append(names, r)[Len(names) + 1] = r
  BY AppendProperties
<1>3. QED
  BY <1>1, <1>2, EmptySeq DEF Listed

LEMMA MembershipType ==
  ASSUME NEW S, NEW names \in Seq(S), NEW r \in S
  PROVE  save_room_membership(names, r) \in Seq(S)
<1>1. <<r>> \in Seq(S)
  OBVIOUS
<1>2. QED
  BY <1>1, WithoutType, ConcatProperties DEF save_room_membership

-----------------------------------------------------------------------------
(* Type correctness.                                                       *)

LEMMA SendType ==
  ASSUME TypeOK, NEW cmd \in Cmds, NEW room \in Rooms, NEW shown \in Rooms,
         Send(cmd, room, shown), current' \in Rooms, rooms' \in Names \ {<<>>}
  PROVE  TypeOK'
<1>1. [cmd |-> cmd, room |-> room, shown |-> shown] \in Lines
  BY DEF Lines
<1>2. up' \in Seq(Lines)
  BY <1>1, AppendProperties DEF Send, TypeOK
<1>3. lines' \in Nat
  BY DEF Send, TypeOK
<1>4. UNCHANGED <<down, active, mine, step, list>>
  BY DEF Send, server
<1>5. QED
  BY <1>2, <1>3, <1>4 DEF TypeOK

(* The frame the client handles next.                                      *)
LEMMA NextFrame ==
  ASSUME TypeOK, down # <<>>
  PROVE  /\ Head(down) \in Frames
         /\ Head(down).names \in Names \ {<<>>}
         /\ Tail(down) \in Seq(Frames)
<1>1. Head(down) \in Frames /\ Tail(down) \in Seq(Frames)
  BY HeadTailProperties DEF TypeOK
<1>2. QED
  BY <1>1 DEF Frames

(* What the client's own steps leave: a room, in a list that has it.       *)
LEMMA ClientType ==
  ASSUME TypeOK, ClientStep
  PROVE  TypeOK'
<1> USE DEF TypeOK
<1>1. ASSUME NEW cmd \in Cmds, NEW r \in Targets, Enter(cmd, r)
      PROVE  TypeOK'
  <2>1. r \in Rooms
    BY ActiveRoomAssumption
  <2>2. rooms' \in Names \ {<<>>}
    BY <1>1, <2>1, AppendedIsListed DEF Enter, Names
  <2>3. Send(cmd, r, r) /\ current' = r
    BY <1>1 DEF Enter
  <2>4. QED
    BY <2>1, <2>2, <2>3, SendType
<1>2. ASSUME NEW r \in Targets, cmd_join(r) \/ cmd_dm(r)
      PROVE  TypeOK'
  BY <1>1, <1>2 DEF cmd_join, cmd_dm, Cmds
<1>3. ASSUME NEW r \in Rooms, select_room(r)
      PROVE  TypeOK'
  <2>1. Send("switch", r, r) /\ current' = r /\ rooms' = rooms
    BY <1>3 DEF select_room
  <2>2. QED
    BY <2>1, SendType DEF Cmds
<1>4. CASE cmd_leave
  <2>1. rooms' \in Names \ {<<>>}
    BY <1>4, WithoutType DEF cmd_leave, Names
  <2>2. current' \in Rooms
    BY <1>4, <2>1, FirstIsListed DEF cmd_leave, Names
  <2>3. Send("leave", current, current')
    BY <1>4 DEF cmd_leave
  <2>4. QED
    BY <2>1, <2>2, <2>3, SendType DEF Cmds
<1>5. CASE send_text
  <2>1. Send("text", current, current) /\ current' = current /\ rooms' = rooms
    BY <1>5 DEF send_text, client
  <2>2. QED
    BY <2>1, SendType DEF Cmds
<1>6. CASE handle_server_message
  <2>1. UNCHANGED <<up, active, mine, step, list, lines>>
    BY <1>6 DEF handle_server_message, server
  <2>2. /\ Head(down).names \in Names \ {<<>>}
        /\ down' \in Seq(Frames)
    BY <1>6, NextFrame DEF handle_server_message
  <2>3. Head(Head(down).names) \in Rooms
    BY <2>2, FirstIsListed DEF Names
  <2>4. current' \in Rooms /\ rooms' \in Names \ {<<>>}
    BY <1>6, <2>2, <2>3 DEF handle_server_message
  <2>5. QED
    BY <2>1, <2>2, <2>4
<1>7. QED
  BY <1>2, <1>3, <1>4, <1>5, <1>6 DEF ClientStep

LEMMA TakeType ==
  ASSUME TypeOK, NEW cmd, Take(cmd)
  PROVE  /\ Head(up).room \in Rooms
         /\ up' \in Seq(Lines)
         /\ UNCHANGED <<current, rooms, down, list, lines>>
<1>1. Head(up) \in Lines /\ Tail(up) \in Seq(Lines)
  BY HeadTailProperties DEF Take, TypeOK
<1>2. QED
  BY <1>1 DEF Take, Lines, client

LEMMA ListNextType ==
  ASSUME TypeOK, NEW t \in Tasks, ListNext(t), list' = list
  PROVE  /\ step' \in [Tasks -> {"idle", "list", "push", "done"}]
         /\ \A s \in Tasks : step'[s] = "push" => list'[s] # <<>>
BY DEF ListNext, TypeOK

LEMMA ServerType ==
  ASSUME TypeOK, ServerStep
  PROVE  TypeOK'
<1> USE DEF TypeOK
<1>a. Me \in Tasks /\ General \in Rooms \ Rejected
  BY ActiveRoomAssumption DEF Tasks
<1>1. ASSUME NEW cmd, handle_join_or_msg(cmd)
      PROVE  TypeOK'
  <2> DEFINE room == Head(up).room
  <2>1. Take(cmd)
    BY <1>1 DEF handle_join_or_msg
  <2>2. CASE room \in Rejected /\ UNCHANGED <<server, step>>
    BY <2>1, <2>2, TakeType DEF server
  <2>3. CASE /\ room \notin Rejected
             /\ active' = room
             /\ mine' = save_room_membership(mine, room)
             /\ ListNext(Me)
    <3>1. mine' \in Seq(Rooms \ Rejected)
      BY <2>1, <2>3, TakeType, MembershipType
    <3>2. QED
      BY <1>a, <2>1, <2>3, <3>1, TakeType, ListNextType
  <2>4. QED
    BY <1>1, <2>2, <2>3 DEF handle_join_or_msg
<1>2. CASE handle_leave_command
  <2>1. Take("leave")
    BY <1>2 DEF handle_leave_command
  <2>2. CASE UNCHANGED <<server, step>>
    BY <2>1, <2>2, TakeType DEF server
  <2>3. CASE /\ mine' = remove_room_membership(mine, active)
             /\ active' = LastRoomOr(mine', General)
             /\ ListNext(Me)
    <3>1. mine' \in Seq(Rooms \ Rejected)
      BY <2>3, WithoutType DEF remove_room_membership
    <3>2. active' \in Rooms
      BY <1>a, <2>3, <3>1, FirstIsListed DEF LastRoomOr
    <3>3. QED
      BY <1>a, <2>1, <2>3, <3>1, <3>2, TakeType, ListNextType
  <2>4. QED
    BY <1>2, <2>2, <2>3 DEF handle_leave_command
<1>3. CASE handle_switch_command
  BY <1>3, TakeType DEF handle_switch_command
<1>4. CASE handle_regular_message
  BY <1>4, TakeType DEF handle_regular_message, server
<1>5. ASSUME NEW o \in Others, DmArrives(o)
      PROVE  TypeOK'
  <2>1. o \in Tasks /\ DmOf[o] \in Rooms \ Rejected
    BY ActiveRoomAssumption DEF Tasks
  <2>2. mine' \in Seq(Rooms \ Rejected)
    BY <1>5, <2>1, MembershipType DEF DmArrives
  <2>3. ListNext(o) /\ UNCHANGED <<current, rooms, up, down, active, list, lines>>
    BY <1>5 DEF DmArrives, client
  <2>4. QED
    BY <2>1, <2>2, <2>3, ListNextType
<1>6. ASSUME NEW t \in Tasks, ReadRoomList(t)
      PROVE  TypeOK'
  <2>1. UNCHANGED <<current, rooms, up, down, active, mine, lines>>
    BY <1>6 DEF ReadRoomList, client, server
  <2>2. mine \in Names /\ <<General>> \in Names /\ <<General>> # <<>>
    <3>1. mine \in Seq(Rooms)
      <4>1. \A i \in 1..Len(mine) : mine[i] \in Rooms
        BY ElementOfSeq
      <4>2. QED
        BY <4>1
    <3>2. QED
      BY <1>a, <3>1 DEF Names
  <2> DEFINE read == IF mine = <<>> THEN <<General>> ELSE mine
  <2>3. read \in Names /\ read # <<>>
    BY <2>2
  <2>4. list' = [list EXCEPT ![t] = read] /\ step' = [step EXCEPT ![t] = "push"]
    BY <1>6 DEF ReadRoomList
  <2> HIDE DEF read
  <2>5. QED
    BY <2>1, <2>3, <2>4
<1>7. ASSUME NEW t \in Tasks, PushRoomList(t)
      PROVE  TypeOK'
  <2>1. UNCHANGED <<current, rooms, up, active, mine, lines>>
    BY <1>7 DEF PushRoomList, client, server
  <2>2. RoomList(list[t]) \in Frames
    BY <1>7 DEF PushRoomList, RoomList, Frames
  <2>3. down' \in Seq(Frames)
    BY <1>7, <2>2, AppendProperties DEF PushRoomList
  <2>4. /\ list' = [list EXCEPT ![t] = <<>>]
        /\ step' = [step EXCEPT ![t] = IF t = Me THEN "idle" ELSE "done"]
    BY <1>7 DEF PushRoomList
  <2>5. list' \in [Tasks -> Names]
    BY <2>4 DEF Names
  <2>6. QED
    BY <2>1, <2>3, <2>4, <2>5
<1>8. QED
  BY <1>1, <1>2, <1>3, <1>4, <1>5, <1>6, <1>7 DEF ServerStep

LEMMA InitType == Init => TypeOK
<1> SUFFICES ASSUME Init PROVE TypeOK
  OBVIOUS
<1>1. /\ StartRooms \in Seq(Rooms \ Rejected) /\ StartRooms # <<>>
      /\ General \in Rooms
  BY ActiveRoomAssumption
<1>2. StartRooms \in Names \ {<<>>}
  <2>1. \A i \in 1..Len(StartRooms) : StartRooms[i] \in Rooms
    BY <1>1, ElementOfSeq
  <2>2. QED
    BY <1>1, <2>1 DEF Names
<1>3. Head(StartRooms) \in Rooms
  BY <1>1, FirstIsListed
<1>4. <<General>> \in Names \ {<<>>} /\ <<Head(StartRooms)>> \in Names \ {<<>>}
  BY <1>1, <1>3 DEF Names
<1>5. /\ RoomList(StartRooms) \in Frames
      /\ SetActiveRoom(Head(StartRooms)) \in Frames
  BY <1>2, <1>4 DEF RoomList, SetActiveRoom, Frames
<1>6. down \in Seq(Frames)
  <2> DEFINE f == RoomList(StartRooms)
             g == SetActiveRoom(Head(StartRooms))
  <2>1. f \in Frames /\ g \in Frames
    BY <1>5
  <2>2. down = <<>> \/ down = <<f, g>>
    BY DEF Init
  <2> HIDE DEF f, g
  <2>3. <<f, g>> \in Seq(Frames)
    <3>1. \A i \in 1..2 : <<f, g>>[i] \in Frames
      BY <2>1
    <3>2. QED
      BY <3>1
  <2>4. <<>> \in Seq(Frames)
    OBVIOUS
  <2>5. QED
    BY <2>2, <2>3, <2>4, Zenon
<1>7. current \in Rooms /\ rooms \in Names \ {<<>>}
  BY <1>1, <1>2, <1>3, <1>4 DEF Init
<1>8. active \in Rooms /\ mine \in Seq(Rooms \ Rejected) /\ up \in Seq(Lines)
  BY <1>1, <1>3 DEF Init
<1>9. /\ step \in [Tasks -> {"idle", "list", "push", "done"}]
      /\ list \in [Tasks -> Names]
      /\ \A t \in Tasks : step[t] = "push" => list[t] # <<>>
      /\ lines \in Nat
  BY DEF Init, Names
<1>10. QED
  BY <1>6, <1>7, <1>8, <1>9 DEF TypeOK

LEMMA NextType == TypeOK /\ [Next]_vars => TypeOK'
<1>1. CASE UNCHANGED vars
  BY <1>1 DEF TypeOK, vars, client, server
<1>2. QED
  BY <1>1, ClientType, ServerType DEF Next

(* No list of rooms is ever empty, on the screen or on its way to it, so   *)
(* the client may take its first room (server_msg.rs, cmd_leave).          *)
THEOREM ActiveRoomTypeCorrect == Spec => []TypeOK
<1>1. QED
  BY InitType, NextType, PTL DEF Spec

-----------------------------------------------------------------------------
(* The current room is in the sidebar.                                     *)

(* After the connect the server sends room lists only.                     *)
OnlyLists == \A i \in 1..Len(down) : down[i].kind = "RoomList"

ShownInv == TypeOK /\ CurrentInRooms /\ OnlyLists

LEMMA OnlyListsAppended ==
  ASSUME TypeOK, OnlyLists, NEW names, down' = Append(down, RoomList(names)),
         RoomList(names) \in Frames
  PROVE  OnlyLists'
<1>1. Len(down) \in Nat
  BY LenProperties DEF TypeOK
<1>2. ASSUME NEW i \in 1..Len(down')
      PROVE  down'[i].kind = "RoomList"
  <2>1. /\ Len(down') = Len(down) + 1
        /\ \A j \in 1..Len(down) : down'[j] = down[j]
        /\ down'[Len(down) + 1] = RoomList(names)
    BY AppendProperties DEF TypeOK
  <2>2. CASE i \in 1..Len(down)
    BY <2>1, <2>2 DEF OnlyLists
  <2>3. CASE i = Len(down) + 1
    BY <2>1, <2>3 DEF RoomList
  <2>4. QED
    BY <1>1, <2>1, <2>2, <2>3
<1>3. QED
  BY <1>2 DEF OnlyLists

LEMMA NextShown ==
  ASSUME TypeOK, CurrentInRooms, OnlyLists, [Next]_vars
  PROVE  (CurrentInRooms /\ OnlyLists)'
<1>1. CASE UNCHANGED <<current, rooms, down>>
  BY <1>1 DEF CurrentInRooms, OnlyLists, Listed
<1>2. ASSUME NEW cmd, NEW r \in Targets, Enter(cmd, r)
      PROVE  (CurrentInRooms /\ OnlyLists)'
  <2>1. r \in Rooms /\ rooms \in Seq(Rooms)
    BY ActiveRoomAssumption DEF TypeOK, Names
  <2>2. CASE Listed(r, rooms)
    BY <1>2, <2>2 DEF Enter, Send, CurrentInRooms, Listed, OnlyLists
  <2>3. CASE ~ Listed(r, rooms)
    <3>1. Listed(r, Append(rooms, r))
      BY <2>1, AppendedIsListed
    <3>2. current' = r /\ rooms' = Append(rooms, r) /\ down' = down
      BY <1>2, <2>3 DEF Enter, Send
    <3>3. QED
      BY <3>1, <3>2 DEF CurrentInRooms, Listed, OnlyLists
  <2>4. QED
    BY <2>2, <2>3
<1>3. ASSUME NEW r \in Rooms, select_room(r)
      PROVE  (CurrentInRooms /\ OnlyLists)'
  BY <1>3 DEF select_room, Send, CurrentInRooms, Listed, OnlyLists
<1>4. CASE cmd_leave
  <2>1. rooms' \in Seq(Rooms) \ {<<>>}
    BY <1>4, WithoutType DEF cmd_leave, TypeOK, Names
  <2>2. Listed(Head(rooms'), rooms')
    BY <2>1, FirstIsListed
  <2>3. current' = Head(rooms') /\ down' = down
    BY <1>4 DEF cmd_leave, Send
  <2>4. QED
    BY <2>2, <2>3 DEF CurrentInRooms, Listed, OnlyLists
<1>5. CASE send_text
  BY <1>1, <1>5 DEF send_text, Send, client
<1>6. CASE handle_server_message
  <2> DEFINE names == Head(down).names
  <2>1. Len(down) \in Nat /\ down \in Seq(Frames) /\ down # <<>>
    BY <1>6, LenProperties DEF handle_server_message, TypeOK
  <2>2. /\ Head(down) = down[1]
        /\ Len(down) >= 1
        /\ Len(Tail(down)) = Len(down) - 1
        /\ \A i \in 1..Len(Tail(down)) : Tail(down)[i] = down[i+1]
    BY <2>1, HeadTailProperties, EmptySeq
  <2>3. Head(down).kind = "RoomList"
    BY <2>1, <2>2 DEF OnlyLists
  <2>4. names \in Seq(Rooms) /\ Listed(Head(names), names)
    BY <2>1, NextFrame, FirstIsListed DEF Names
  <2>5. /\ rooms' = names
        /\ current' = IF Listed(current, names) THEN current ELSE Head(names)
        /\ down' = Tail(down)
    BY <1>6, <2>3 DEF handle_server_message
  <2>6. CurrentInRooms'
    BY <2>4, <2>5 DEF CurrentInRooms, Listed
  <2>7. OnlyLists'
    BY <2>1, <2>2, <2>5 DEF OnlyLists
  <2>8. QED
    BY <2>6, <2>7
<1>7. ASSUME NEW t \in Tasks, PushRoomList(t)
      PROVE  (CurrentInRooms /\ OnlyLists)'
  <2>1. RoomList(list[t]) \in Frames
    BY <1>7 DEF PushRoomList, RoomList, Frames, TypeOK
  <2>2. UNCHANGED <<current, rooms>> /\ down' = Append(down, RoomList(list[t]))
    BY <1>7 DEF PushRoomList, client
  <2>3. OnlyLists'
    BY <2>1, <2>2, OnlyListsAppended
  <2>4. QED
    BY <2>2, <2>3 DEF CurrentInRooms, Listed
<1>8. CASE ServerStep /\ ~ \E t \in Tasks : PushRoomList(t)
  <2>1. UNCHANGED <<current, rooms, down>>
    BY <1>8 DEF ServerStep, handle_join_or_msg, handle_leave_command, handle_switch_command,
                handle_regular_message, Take, DmArrives, ReadRoomList, client
  <2>2. QED
    BY <1>1, <2>1
<1>9. CASE UNCHANGED vars
  BY <1>1, <1>9 DEF vars, client
<1>10. QED
  BY <1>2, <1>3, <1>4, <1>5, <1>6, <1>7, <1>8, <1>9
  DEF Next, ClientStep, cmd_join, cmd_dm

(* Once the client has handled what the server sends at connect, the room  *)
(* on the screen is always one of the sidebar: the comment in tests.rs,    *)
(* on what select_room and cmd_leave keep.                                 *)
THEOREM ScreenIsInSidebar ==
  ASSUME Settled
  PROVE  Spec => []CurrentInRooms
<1>1. Init => ShownInv
  <2> SUFFICES ASSUME Init PROVE ShownInv
    OBVIOUS
  <2>1. current = Head(StartRooms) /\ rooms = StartRooms /\ down = <<>>
    BY DEF Init
  <2>2. CurrentInRooms
    BY <2>1, ActiveRoomAssumption, FirstIsListed DEF CurrentInRooms
  <2>3. OnlyLists
    BY <2>1 DEF OnlyLists
  <2>4. QED
    BY <2>2, <2>3, InitType DEF ShownInv
<1>2. ShownInv /\ [Next]_vars => ShownInv'
  BY NextType, NextShown DEF ShownInv
<1>3. ShownInv => CurrentInRooms
  BY DEF ShownInv
<1>4. QED
  BY <1>1, <1>2, <1>3, PTL DEF Spec
=============================================================================

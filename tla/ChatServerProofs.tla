-------------------------- MODULE ChatServerProofs --------------------------
(***************************************************************************)
(* Theorems about ChatServer, for every set of users, connections and      *)
(* channels and every value of the bounds.                                 *)
(***************************************************************************)
EXTENDS ChatServer, SequenceTheorems, FiniteSetTheorems, TLAPS

-----------------------------------------------------------------------------
(* Facts about the operators.                                              *)

(* General is a room, and so is every DM room.                             *)
LEMMA RoomFacts ==
  /\ General \in Rooms
  /\ \A u, v \in Users : u # v => dm_room(u, v) \in DmRooms /\ dm_room(u, v) \in Rooms
<1>1. General \in Rooms
  BY ServerAssumption DEF Rooms
<1>2. ASSUME NEW u \in Users, NEW v \in Users, u # v
      PROVE  dm_room(u, v) \in DmRooms
  <2>1. dm_room(u, v) \in {dm_room(u, w) : w \in Users \ {u}}
    BY <1>2
  <2>2. QED
    BY <2>1 DEF DmRooms
<1>3. QED
  BY <1>1, <1>2 DEF Rooms

(* A call built from typed parts is a call of its task.                    *)
LEMMA CallType ==
  ASSUME NEW s \in Sessions,
         NEW op \in Ops, NEW u \in Users, NEW t \in Sessions, NEW r \in Rooms,
         NEW m \in MessageIds \cup {Notice},
         op \in {"insert", "insert_ok"} => m # Notice,
         op \in {"register", "set_active", "remove", "unsubscribe", "leave_all", "unregister"}
           => u = Owner[s],
         op = "save" => u = Owner[s] \/ r \in DmRooms,
         op = "get_sender" => r \in DmRooms,
         op = "subscribe" => Owner[t] = u /\ (t = s \/ r \in DmRooms)
  PROVE  Call(op, u, t, r, m) \in CallsOf(s)
BY DEF Call, Calls, CallsOf

LEMMA OwnType ==
  ASSUME NEW s \in Sessions, NEW op \in Ops \ {"insert", "insert_ok", "get_sender"}, NEW r \in Rooms
  PROVE  Own(s, op, r) \in CallsOf(s)
<1>1. Owner[s] \in Users
  BY ServerAssumption
<1>2. QED
  BY <1>1, CallType DEF Own

(* A user's row for a room can be taken out of its sequence of rooms.      *)
LEMMA WithoutType ==
  ASSUME NEW S, NEW mine \in Seq(S), NEW r
  PROVE  Without(mine, r) \in Seq(S)
<1>1. CASE \E i \in 1..Len(mine) : mine[i] = r
  <2> DEFINE i == CHOOSE j \in 1..Len(mine) : mine[j] = r
  <2>1. i \in 1..Len(mine)
    BY <1>1
  <2>2. SubSeq(mine, 1, i-1) \in Seq(S) /\ SubSeq(mine, i+1, Len(mine)) \in Seq(S)
    <3> HIDE DEF i
    <3>1. Len(mine) \in Nat /\ i \in Nat
      BY <2>1, LenProperties
    <3>2. \A j \in 1..(i-1) : mine[j] \in S
      BY <2>1, <3>1, ElementOfSeq
    <3>3. \A j \in (i+1)..Len(mine) : mine[j] \in S
      BY <2>1, <3>1, ElementOfSeq
    <3>4. QED
      BY <3>1, <3>2, <3>3, SubSeqProperties
  <2>3. Without(mine, r) = SubSeq(mine, 1, i-1) \o SubSeq(mine, i+1, Len(mine))
    BY <1>1 DEF Without, RemoveAt
  <2>4. QED
    BY <2>2, <2>3, ConcatProperties
<1>2. CASE ~ \E i \in 1..Len(mine) : mine[i] = r
  BY <1>2 DEF Without
<1>3. QED
  BY <1>1, <1>2

LEMMA LastRoomType ==
  ASSUME NEW mine \in Seq(Rooms)
  PROVE  LastRoomOr(mine, General) \in Rooms
BY RoomFacts, HeadTailProperties DEF LastRoomOr

(* What a history replay pushes into a channel.                            *)
LEMMA HistoryType ==
  ASSUME TypeOK, NEW r \in Rooms
  PROVE  History(r) \in Seq(Items)
<1> DEFINE rows == table[r]
<1>1. rows \in Seq(MessageIds)
  BY DEF TypeOK
<1>2. Len(rows) \in Nat
  BY <1>1, LenProperties
<1> DEFINE first == IF Len(rows) > HistoryLimit THEN Len(rows) - HistoryLimit + 1 ELSE 1
<1>3. first \in Nat /\ first >= 1
  BY <1>2, ServerAssumption
<1>4. \A i \in first..Len(rows) : rows[i] \in MessageIds
  <2> HIDE DEF first, rows
  <2> QED BY <1>1, <1>2, <1>3, ElementOfSeq
<1>5. Latest(rows) \in Seq(MessageIds)
  <2>1. Latest(rows) = SubSeq(rows, first, Len(rows))
    BY DEF Latest
  <2> HIDE DEF first, rows
  <2> QED BY <2>1, <1>2, <1>3, <1>4, SubSeqProperties
<1>6. \A i \in 1..Len(Latest(rows)) :
        [msg |-> Latest(rows)[i], is_history |-> TRUE] \in Items
  BY <1>5, ElementOfSeq DEF Items
<1>7. Len(Latest(rows)) \in Nat
  BY <1>5, LenProperties
<1>8. QED
  BY <1>6, <1>7, IsASeq DEF History

-----------------------------------------------------------------------------
(* Type correctness.                                                       *)

(* What a task is about to call, and what is left after it.                *)
LEMMA NextCallType ==
  ASSUME TypeOK, NEW s \in Sessions, todo[s] # <<>>
  PROVE  /\ NextCall(s) \in CallsOf(s)
         /\ NextCall(s).user \in Users
         /\ NextCall(s).tx \in Sessions
         /\ NextCall(s).room \in Rooms
         /\ NextCall(s).msg \in MessageIds \cup {Notice}
         /\ NextCall(s).op \in {"insert", "insert_ok"} => NextCall(s).msg \in MessageIds
         /\ NextCall(s).op = "subscribe" => Owner[NextCall(s).tx] = NextCall(s).user
         /\ NextCall(s).op \in {"register", "set_active", "remove", "unsubscribe",
                                "leave_all", "unregister"} => NextCall(s).user = Owner[s]
         /\ NextCall(s).op = "get_sender" => NextCall(s).room \in DmRooms
         /\ Tail(todo[s]) \in Seq(CallsOf(s))
<1>1. todo[s] \in Seq(CallsOf(s))
  BY DEF TypeOK, TodoOK
<1>2. NextCall(s) \in CallsOf(s) /\ Tail(todo[s]) \in Seq(CallsOf(s))
  BY <1>1, HeadTailProperties DEF NextCall
<1>3. QED
  BY <1>2 DEF Calls, CallsOf

(* Giving one task another sequence of its calls.                          *)
LEMMA TodoType ==
  ASSUME TypeOK, NEW s \in Sessions, NEW calls \in Seq(CallsOf(s)),
         todo' = [todo EXCEPT ![s] = calls]
  PROVE  TodoOK'
<1>1. calls \in Seq(Calls)
  BY SeqMonotonic DEF CallsOf
<1>2. QED
  BY <1>1 DEF TypeOK, TodoOK

LEMMA ThenType ==
  ASSUME TypeOK, NEW s \in Sessions, todo[s] # <<>>,
         NEW more \in Seq(CallsOf(s)), Then(s, more)
  PROVE  TodoOK'
<1>1. more \o Tail(todo[s]) \in Seq(CallsOf(s))
  BY NextCallType, ConcatProperties
<1>2. todo' = [todo EXCEPT ![s] = more \o Tail(todo[s])]
  BY DEF Then
<1>3. QED
  BY <1>1, <1>2, TodoType

LEMMA ReturnType ==
  ASSUME TypeOK, NEW s \in Sessions, todo[s] # <<>>, Return(s)
  PROVE  TodoOK'
BY ThenType, EmptySeq DEF Return

LEMMA RoomsType ==
  ASSUME TypeOK, NEW new \in [Rooms -> [Entries -> Nat]], RoomsBecome(new)
  PROVE  /\ rooms' \in [Rooms -> [Entries -> Nat]]
         /\ replayed' \in [Sessions -> SUBSET Rooms]
BY DEF RoomsBecome, TypeOK

(* The calls a handler puts in front of a task are typed.                  *)
LEMMA MembershipCalls ==
  ASSUME NEW s \in Sessions, NEW found \in Seq(Rooms)
  PROVE  <<Own(s, "resume", General)>> \o
           [i \in 1..Len(found) |-> Own(s, "subscribe", found[i])] \in Seq(CallsOf(s))
<1>1. \A i \in 1..Len(found) : Own(s, "subscribe", found[i]) \in CallsOf(s)
  BY OwnType, ElementOfSeq DEF Ops
<1>2. [i \in 1..Len(found) |-> Own(s, "subscribe", found[i])] \in Seq(CallsOf(s))
  BY <1>1, IsASeq, LenProperties
<1>3. <<Own(s, "resume", General)>> \in Seq(CallsOf(s))
  BY OwnType, RoomFacts DEF Ops
<1>4. QED
  BY <1>2, <1>3, ConcatProperties

LEMMA ResumeType ==
  ASSUME TypeOK, NEW s \in Sessions, todo[s] # <<>>, NEW room \in Rooms,
         ResumeIn(s, room)
  PROVE  TodoOK'
<1> DEFINE pending == Tail(todo[s])
           listed == \E i \in 1..Len(pending) : pending[i].room = room
           entry == IF listed THEN <<>> ELSE <<Own(s, "subscribe", room)>>
           last == <<Own(s, "set_active", room), Own(s, "save", room),
                     Own(s, "replay", room), Own(s, "broadcast", room)>>
<1>1. entry \in Seq(CallsOf(s))
  <2>1. Own(s, "subscribe", room) \in CallsOf(s)
    BY OwnType DEF Ops
  <2>2. QED
    BY <2>1
<1>2. last \in Seq(CallsOf(s))
  <2>1. /\ Own(s, "set_active", room) \in CallsOf(s) /\ Own(s, "save", room) \in CallsOf(s)
        /\ Own(s, "replay", room) \in CallsOf(s) /\ Own(s, "broadcast", room) \in CallsOf(s)
    BY OwnType DEF Ops
  <2>2. QED
    BY <2>1
<1>3. pending \in Seq(CallsOf(s))
  BY NextCallType
<1>4. pending \o entry \o last \in Seq(CallsOf(s))
  <2> HIDE DEF pending, entry, last
  <2> QED BY <1>1, <1>2, <1>3, ConcatProperties
<1>5. todo' = [todo EXCEPT ![s] = pending \o entry \o last]
  BY DEF ResumeIn
<1>6. QED
  <2> HIDE DEF pending, entry, last
  <2> QED BY <1>4, <1>5, TodoType

LEMMA FallbackType ==
  ASSUME TypeOK, NEW s \in Sessions, todo[s] # <<>>, NEW room \in Rooms,
         FallBackTo(s, room)
  PROVE  TodoOK'
<1>1. /\ Own(s, "subscribe", room) \in CallsOf(s) /\ Own(s, "set_active", room) \in CallsOf(s)
      /\ Own(s, "replay", room) \in CallsOf(s)
  BY OwnType DEF Ops
<1>2. <<Own(s, "subscribe", room), Own(s, "set_active", room),
        Own(s, "replay", room)>> \in Seq(CallsOf(s))
  BY <1>1
<1>3. QED
  BY <1>2, ThenType DEF FallBackTo

(* The registry's operators keep the type of AppState.rooms.               *)
LEMMA RegistryType ==
  ASSUME TypeOK, NEW u \in Users, NEW t \in Sessions, NEW r \in Rooms
  PROVE  /\ Owner[t] = u => subscribe_room(rooms, u, r, t) \in [Rooms -> [Entries -> Nat]]
         /\ unsubscribe_room(rooms, u, r) \in [Rooms -> [Entries -> Nat]]
         /\ leave_all_rooms(rooms, u) \in [Rooms -> [Entries -> Nat]]
         /\ send_to_room(rooms, r, Open) \in [Rooms -> [Entries -> Nat]]
<1>0. rooms \in [Rooms -> [Entries -> Nat]]
  BY DEF TypeOK
<1> DEFINE kept == retain_others(rooms[r], u)
<1>1. \A q \in Rooms : retain_others(rooms[q], u) \in [Entries -> Nat]
  BY <1>0 DEF retain_others
<1>2. Owner[t] = u => push(kept, <<u, t>>) \in [Entries -> Nat]
  <2>1. \A m \in [Entries -> Nat] : \A e \in Entries : push(m, e) \in [Entries -> Nat]
    BY DEF push
  <2>2. Owner[t] = u => <<u, t>> \in Entries
    BY DEF Entries
  <2>3. QED
    BY <1>1, <2>1, <2>2
<1>3. Owner[t] = u => subscribe_room(rooms, u, r, t) \in [Rooms -> [Entries -> Nat]]
  <2>1. subscribe_room(rooms, u, r, t) = [rooms EXCEPT ![r] = push(kept, <<u, t>>)]
    BY <1>0 DEF subscribe_room
  <2> HIDE DEF kept
  <2>2. QED
    BY <1>0, <1>2, <2>1
<1>4. unsubscribe_room(rooms, u, r) \in [Rooms -> [Entries -> Nat]]
  BY <1>0, <1>1 DEF unsubscribe_room
<1>5. leave_all_rooms(rooms, u) \in [Rooms -> [Entries -> Nat]]
  BY <1>0, <1>1 DEF leave_all_rooms
<1>6. send_to_room(rooms, r, Open) \in [Rooms -> [Entries -> Nat]]
  <2>1. [e \in Entries |-> IF e[2] \in Open THEN rooms[r][e] ELSE 0] \in [Entries -> Nat]
    BY <1>0
  <2>2. QED
    BY <1>0, <2>1 DEF send_to_room
<1>7. QED
  BY <1>3, <1>4, <1>5, <1>6

(* The order in which the leave notices go out is a sequence of rooms.     *)
LEMMA GoodbyeOrder ==
  ASSUME TypeOK, NEW u \in Users,
         NEW order \in SetToSeqs(get_user_subscribed_rooms(rooms, u))
  PROVE  order \in Seq(Rooms)
<1> DEFINE mine == get_user_subscribed_rooms(rooms, u)
<1>1. mine \subseteq Rooms
  BY DEF get_user_subscribed_rooms, TypeOK
<1>2. Cardinality(mine) \in Nat
  BY <1>1, ServerAssumption, FS_Subset, FS_CardinalityType
<1>3. order \in [1..Cardinality(mine) -> Rooms]
  BY <1>1 DEF SetToSeqs
<1>4. QED
  BY <1>2, <1>3

(* Every call of a handler keeps the types.                                *)
LEMMA HandlerStepType ==
  ASSUME TypeOK, NEW s \in Sessions, HandlerStep(s)
  PROVE  TypeOK'
<1> DEFINE c == NextCall(s)
<1> USE DEF registry, database, bounds
<1>0. /\ todo[s] # <<>>
      /\ c.user \in Users /\ c.tx \in Sessions /\ c.room \in Rooms
      /\ c.msg \in MessageIds \cup {Notice}
      /\ Owner[s] \in Users
      /\ c.op = "subscribe" => Owner[c.tx] = c.user
      /\ c.op \in {"register", "leave_all", "unregister"} => c.user = Owner[s]
  <2>1. todo[s] # <<>>
    BY DEF HandlerStep, About, RegisterSender, ReadMemberships, ReadLastRoom,
           SubscribeRoom, SetActiveRoom, SaveMembership, ReplayHistory, SendToRoom,
           InsertMessage, GetSender, RemoveMembership, UnsubscribeRoom,
           ReadFallback, ReadSubscribedRooms, LeaveAllRooms, UnregisterSender
  <2>2. QED
    BY <2>1, NextCallType, ServerAssumption
<1>1. CASE RegisterSender(s)
  BY <1>0, <1>1, ReturnType DEF RegisterSender, About, TypeOK, SendersOK
<1>2. CASE ReadMemberships(s)
  <2>1. memberships[Owner[s]] \in Seq(Rooms)
    BY <1>0 DEF TypeOK, SendersOK
  <2>2. TodoOK'
    BY <1>0, <1>2, <2>1, MembershipCalls, ThenType DEF ReadMemberships, MembershipsAre
  <2>3. QED
    BY <1>2, <2>2 DEF ReadMemberships, TypeOK, SendersOK
<1>3. CASE ReadLastRoom(s)
  <2>1. LastRoomOr(memberships[Owner[s]], General) \in Rooms
    BY <1>0, LastRoomType DEF TypeOK, SendersOK
  <2>2. TodoOK'
    BY <1>0, <1>3, <2>1, ResumeType DEF ReadLastRoom
  <2>3. QED
    BY <1>3, <2>2 DEF ReadLastRoom, TypeOK, SendersOK
<1>4. CASE SubscribeRoom(s)
  <2>1. /\ rooms' \in [Rooms -> [Entries -> Nat]]
        /\ replayed' \in [Sessions -> SUBSET Rooms]
    BY <1>0, <1>4, RegistryType, RoomsType DEF SubscribeRoom, About
  <2>2. TodoOK'
    BY <1>0, <1>4, ReturnType DEF SubscribeRoom
  <2>3. QED
    BY <1>4, <2>1, <2>2 DEF SubscribeRoom, TypeOK, SendersOK
<1>5. CASE SetActiveRoom(s)
  BY <1>0, <1>5, ReturnType DEF SetActiveRoom, TypeOK, SendersOK
<1>6. CASE SaveMembership(s)
  <2>1. save_room_membership(memberships[c.user], c.room) \in Seq(Rooms)
    <3>1. Without(memberships[c.user], c.room) \in Seq(Rooms)
      BY <1>0, WithoutType DEF TypeOK, SendersOK
    <3>2. <<c.room>> \in Seq(Rooms)
      BY <1>0
    <3>3. QED
      BY <3>1, <3>2, ConcatProperties DEF save_room_membership
  <2>2. memberships' \in [Users -> Seq(Rooms)]
    BY <1>0, <1>6, <2>1 DEF SaveMembership, TypeOK, SendersOK
  <2>3. QED
    BY <1>0, <1>6, <2>2, ReturnType DEF SaveMembership, TypeOK, SendersOK
<1>7. CASE ReplayHistory(s)
  <2>1. inbox[s] \o History(c.room) \in Seq(Items)
    BY <1>0, HistoryType, ConcatProperties DEF TypeOK, SendersOK
  <2>2. inbox' \in [Sessions -> Seq(Items)]
    BY <1>7, <2>1 DEF ReplayHistory, TypeOK, SendersOK
  <2>3. replayed' \in [Sessions -> SUBSET Rooms]
    BY <1>0, <1>7 DEF ReplayHistory, TypeOK, SendersOK
  <2>4. SentUnstored(c.room) \subseteq MessageIds
    <3>1. ASSUME NEW m \in SentUnstored(c.room)
          PROVE  m \in MessageIds
      <4>1. PICK t \in Sessions : todo[t] # <<>> /\ NextCall(t).msg = m
                                 /\ m \in 1..Len(posted)
        BY <3>1 DEF SentUnstored
      <4>2. m \in MessageIds \cup {Notice} /\ m # Notice
        BY <4>1, NextCallType DEF Notice
      <4>3. QED
        BY <4>2
    <3>2. QED
      BY <3>1
  <2>5. unseen' \in [Sessions -> SUBSET MessageIds]
    BY <1>7, <2>4 DEF ReplayHistory, TypeOK, SendersOK
  <2>6. TodoOK'
    BY <1>0, <1>7, ReturnType DEF ReplayHistory
  <2>7. QED
    BY <1>7, <2>2, <2>3, <2>5, <2>6 DEF ReplayHistory, TypeOK, SendersOK
<1>8. CASE SendToRoom(s)
  <2>1. inbox' \in [Sessions -> Seq(Items)]
    <3>1. ASSUME NEW t \in Sessions, c.msg # Notice
          PROVE  inbox[t] \o [i \in 1..Copies(c.room, t) |->
                                [msg |-> c.msg, is_history |-> FALSE]] \in Seq(Items)
      <4>1. [msg |-> c.msg, is_history |-> FALSE] \in Items
        BY <1>0, <3>1 DEF Items
      <4>2. inbox[t] \in Seq(Items)
        BY DEF TypeOK, SendersOK
      <4>3. Copies(c.room, t) \in Nat
        <5>1. <<Owner[t], t>> \in Entries
          BY ServerAssumption DEF Entries
        <5>2. QED
          BY <1>0, <5>1 DEF TypeOK, Copies
      <4> DEFINE item == [msg |-> c.msg, is_history |-> FALSE]
                 n == Copies(c.room, t)
      <4> HIDE DEF item, n
      <4>4. [i \in 1..n |-> item] \in Seq(Items)
        <5>1. n \in Nat /\ item \in Items
          BY <4>1, <4>3 DEF item, n
        <5>2. [i \in 1..n |-> item] \in [1..n -> Items]
          BY <5>1
        <5>3. QED
          BY <5>1, <5>2
      <4>5. QED
        BY <4>2, <4>4, ConcatProperties DEF item, n
    <3>2. QED
      BY <1>8, <3>1 DEF SendToRoom, Delivered, TypeOK, SendersOK
  <2>2. /\ rooms' \in [Rooms -> [Entries -> Nat]]
        /\ replayed' \in [Sessions -> SUBSET Rooms]
    BY <1>0, <1>8, RegistryType, RoomsType DEF SendToRoom
  <2>3. TodoOK'
    BY <1>0, <1>8, ReturnType DEF SendToRoom
  <2>4. QED
    BY <1>8, <2>1, <2>2, <2>3 DEF SendToRoom, TypeOK, SendersOK
<1>9. CASE InsertMessage(s)
  <2>1. c.msg \in MessageIds
    BY <1>0, <1>9, NextCallType DEF InsertMessage, About
  <2>2. table' \in [Rooms -> Seq(MessageIds)]
    <3>1. Append(table[c.room], c.msg) \in Seq(MessageIds)
      BY <1>0, <2>1 DEF TypeOK, SendersOK
    <3>2. QED
      BY <1>9, <3>1 DEF InsertMessage, TypeOK, SendersOK
  <2>3. TodoOK'
    BY <1>0, <1>9, ReturnType DEF InsertMessage
  <2>4. QED
    BY <1>9, <2>2, <2>3 DEF InsertMessage, TypeOK, SendersOK
<1>10. CASE GetSender(s)
  <2> DEFINE t == user_senders[c.user]
             more == IF t = NoSession THEN <<>> ELSE <<PassOn(s, t)>>
  <2>1. more \in Seq(CallsOf(s))
    <3>1. ASSUME t # NoSession
          PROVE  PassOn(s, t) \in CallsOf(s)
      <4>1. t \in Sessions /\ Owner[t] = c.user
        BY <1>0, <3>1 DEF TypeOK, SendersOK
      <4>2. c.room \in DmRooms
        BY <1>0, <1>10, NextCallType DEF GetSender, About
      <4>3. QED
        BY <1>0, <4>1, <4>2, CallType DEF Ops, PassOn
    <3>2. QED
      BY <3>1
  <2>2. Then(s, more)
    BY <1>10 DEF GetSender
  <2>3. TodoOK'
    <3> HIDE DEF more
    <3> QED BY <1>0, <2>1, <2>2, ThenType
  <2>4. QED
    BY <1>10, <2>3 DEF GetSender, TypeOK, SendersOK
<1>11. CASE RemoveMembership(s)
  <2>1. remove_room_membership(memberships[c.user], c.room) \in Seq(Rooms)
    BY <1>0, WithoutType DEF TypeOK, SendersOK, remove_room_membership
  <2>2. memberships' \in [Users -> Seq(Rooms)]
    BY <1>0, <1>11, <2>1 DEF RemoveMembership, TypeOK, SendersOK
  <2>3. QED
    BY <1>0, <1>11, <2>2, ReturnType DEF RemoveMembership, TypeOK, SendersOK
<1>12. CASE UnsubscribeRoom(s)
  <2>1. /\ rooms' \in [Rooms -> [Entries -> Nat]]
        /\ replayed' \in [Sessions -> SUBSET Rooms]
    BY <1>0, <1>12, RegistryType, RoomsType DEF UnsubscribeRoom
  <2>2. TodoOK'
    BY <1>0, <1>12, ReturnType DEF UnsubscribeRoom
  <2>3. QED
    BY <1>12, <2>1, <2>2 DEF UnsubscribeRoom, TypeOK, SendersOK
<1>13. CASE ReadFallback(s)
  <2>1. LastRoomOr(memberships[Owner[s]], General) \in Rooms
    BY <1>0, LastRoomType DEF TypeOK, SendersOK
  <2>2. TodoOK'
    BY <1>0, <1>13, <2>1, FallbackType DEF ReadFallback
  <2>3. QED
    BY <1>13, <2>2 DEF ReadFallback, TypeOK, SendersOK
<1>14. CASE ReadSubscribedRooms(s)
  <2> DEFINE mine == get_user_subscribed_rooms(rooms, Owner[s])
             calls(order) == [i \in 1..Len(order) |-> Own(s, "broadcast", order[i])]
  <2>1. PICK order \in SetToSeqs(mine) : Then(s, calls(order))
    BY <1>14 DEF ReadSubscribedRooms
  <2>5. order \in Seq(Rooms)
    BY <1>0, <2>1, GoodbyeOrder
  <2>6. \A i \in 1..Len(order) : Own(s, "broadcast", order[i]) \in CallsOf(s)
    BY <2>5, OwnType, ElementOfSeq DEF Ops
  <2>7. calls(order) \in Seq(CallsOf(s))
    BY <2>5, <2>6, IsASeq, LenProperties
  <2>8. TodoOK'
    <3> HIDE DEF calls
    <3> QED BY <1>0, <2>1, <2>7, ThenType
  <2>9. QED
    BY <1>14, <2>8 DEF ReadSubscribedRooms, TypeOK, SendersOK
<1>15. CASE LeaveAllRooms(s)
  <2>1. /\ rooms' \in [Rooms -> [Entries -> Nat]]
        /\ replayed' \in [Sessions -> SUBSET Rooms]
    BY <1>0, <1>15, RegistryType, RoomsType DEF LeaveAllRooms
  <2>2. TodoOK'
    BY <1>0, <1>15, ReturnType DEF LeaveAllRooms
  <2>3. QED
    BY <1>15, <2>1, <2>2 DEF LeaveAllRooms, TypeOK, SendersOK
<1>16. CASE UnregisterSender(s)
  BY <1>0, <1>16, ReturnType DEF UnregisterSender, About, TypeOK, SendersOK
<1>17. QED
  BY <1>1, <1>2, <1>3, <1>4, <1>5, <1>6, <1>7, <1>8, <1>9, <1>10, <1>11, <1>12, <1>13, <1>14, <1>15, <1>16 DEF HandlerStep

(* A failing statement keeps the types.                                    *)
LEMMA StatementFailsType ==
  ASSUME TypeOK, NEW s \in Sessions, StatementFails(s)
  PROVE  TypeOK'
<1> USE DEF registry, database, bounds
<1>0. /\ Panic(s) \/ todo[s] # <<>>
      /\ faults' = faults + 1 /\ UNCHANGED <<registry, database, inbox, unseen, lines, restarts>>
  BY DEF StatementFails, About
<1>1. /\ TodoOK'
      /\ status' \in [Sessions -> {"off", "on", "closing", "closed", "dead"}]
  <2>1. CASE Return(s) /\ UNCHANGED status /\ todo[s] # <<>>
    BY <1>0, <2>1, ReturnType DEF TypeOK, SendersOK
  <2>2. CASE MembershipsAre(s, <<>>) /\ UNCHANGED status /\ todo[s] # <<>>
    BY <1>0, <2>2, MembershipCalls, ThenType, EmptySeq DEF MembershipsAre, TypeOK, SendersOK
  <2>3. CASE ResumeIn(s, General) /\ UNCHANGED status /\ todo[s] # <<>>
    BY <1>0, <2>3, ResumeType, RoomFacts DEF TypeOK, SendersOK
  <2>4. CASE FallBackTo(s, General) /\ UNCHANGED status /\ todo[s] # <<>>
    BY <1>0, <2>4, FallbackType, RoomFacts DEF TypeOK, SendersOK
  <2>5. CASE Panic(s)
    <3>1. TodoOK'
      BY <2>5, EmptySeq, TodoType DEF Panic
    <3>2. QED
      BY <2>5, <3>1 DEF Panic, TypeOK, SendersOK
  <2>6. QED
    BY <1>0, <2>1, <2>2, <2>3, <2>4, <2>5 DEF StatementFails
<1>2. QED
  BY <1>0, <1>1 DEF TypeOK, SendersOK

(* A room id that cannot be looked up: one call returns, having done to    *)
(* the default room what it was to do to another.                          *)
LEMMA RoomIdFailsFacts ==
  ASSUME NEW s \in Sessions, RoomIdFails(s)
  PROVE  /\ Alive(s) /\ todo[s] # <<>> /\ Return(s) /\ NextCall(s).room # General
         /\ faults' = faults + 1
         /\ UNCHANGED <<status, rooms, user_rooms, user_senders, replayed, posted,
                        unseen, lines, restarts>>
         /\ \/ /\ NextCall(s).op = "save" /\ UNCHANGED <<table, inbox>>
               /\ memberships' = [memberships EXCEPT ![NextCall(s).user] =
                                    save_room_membership(@, General)]
            \/ /\ NextCall(s).op = "replay" /\ UNCHANGED <<table, memberships>>
               /\ inbox' = [inbox EXCEPT ![s] = @ \o History(General)]
            \/ /\ NextCall(s).op \in {"insert", "insert_ok"}
               /\ UNCHANGED <<memberships, inbox>>
               /\ table' = [table EXCEPT ![General] = Append(@, NextCall(s).msg)]
BY DEF RoomIdFails, About, registry

LEMMA RoomIdFailsType ==
  ASSUME TypeOK, NEW s \in Sessions, RoomIdFails(s)
  PROVE  TypeOK'
<1> DEFINE c == NextCall(s)
<1>0. /\ todo[s] # <<>> /\ Return(s) /\ General \in Rooms /\ c.user \in Users
      /\ c.op \in {"insert", "insert_ok"} => c.msg \in MessageIds
      /\ UNCHANGED <<status, rooms, user_rooms, user_senders, replayed, posted,
                     unseen, lines, restarts>>
      /\ faults' = faults + 1
  BY RoomIdFailsFacts, RoomFacts, NextCallType
<1>1. TodoOK'
  BY <1>0, ReturnType
<1>2. memberships' \in [Users -> Seq(Rooms)]
  <2>1. CASE UNCHANGED memberships
    BY <2>1 DEF TypeOK
  <2>2. CASE memberships' = [memberships EXCEPT ![c.user] = save_room_membership(@, General)]
    <3>1. Without(memberships[c.user], General) \in Seq(Rooms)
      BY <1>0, WithoutType DEF TypeOK
    <3>2. <<General>> \in Seq(Rooms)
      BY <1>0
    <3>3. save_room_membership(memberships[c.user], General) \in Seq(Rooms)
      BY <3>1, <3>2, ConcatProperties DEF save_room_membership
    <3>4. QED
      BY <1>0, <2>2, <3>3 DEF TypeOK
  <2>3. QED
    BY <2>1, <2>2, RoomIdFailsFacts
<1>3. inbox' \in [Sessions -> Seq(Items)]
  <2>1. CASE UNCHANGED inbox
    BY <2>1 DEF TypeOK
  <2>2. CASE inbox' = [inbox EXCEPT ![s] = @ \o History(General)]
    <3>1. inbox[s] \o History(General) \in Seq(Items)
      BY <1>0, HistoryType, ConcatProperties DEF TypeOK
    <3>2. QED
      BY <2>2, <3>1 DEF TypeOK
  <2>3. QED
    BY <2>1, <2>2, RoomIdFailsFacts
<1>4. table' \in [Rooms -> Seq(MessageIds)]
  <2>1. CASE UNCHANGED table
    BY <2>1 DEF TypeOK
  <2>2. CASE /\ c.op \in {"insert", "insert_ok"}
             /\ table' = [table EXCEPT ![General] = Append(@, c.msg)]
    <3>1. Append(table[General], c.msg) \in Seq(MessageIds)
      BY <1>0, <2>2 DEF TypeOK
    <3>2. QED
      BY <2>2, <3>1 DEF TypeOK
  <2>3. QED
    BY <2>1, <2>2, RoomIdFailsFacts
<1>5. QED
  BY <1>0, <1>1, <1>2, <1>3, <1>4 DEF TypeOK, SendersOK

LEMMA BeginType ==
  ASSUME TypeOK, NEW s \in Sessions, NEW calls \in Seq(CallsOf(s)), Begin(s, calls)
  PROVE  TodoOK'
BY TodoType DEF Begin

(* A new message is a message.                                             *)
LEMMA ComposeType ==
  ASSUME TypeOK, NEW s \in Sessions, NEW room \in Rooms,
         NEW path \in {"text", "dm", "media"}, Compose(s, room, path)
  PROVE  posted' \in Seq(Posts) /\ FreshId \in MessageIds /\ FreshId # Notice
<1>1. posted \in Seq(Posts) /\ Len(posted) \in Nat /\ MaxMessages \in Nat
  BY LenProperties, ServerAssumption DEF TypeOK, SendersOK
<1>2. [from |-> s, room |-> room, path |-> path] \in Posts
  BY DEF Posts
<1>3. posted' \in Seq(Posts)
  BY <1>1, <1>2 DEF Compose
<1>4. FreshId \in MessageIds /\ FreshId # Notice
  BY <1>1 DEF FreshId, MessageIds, Notice, Compose
<1>5. QED
  BY <1>3, <1>4

(* A line of the client, its connection and its EOF keep the types.        *)
LEMMA ClientStepType ==
  ASSUME TypeOK, NEW s \in Sessions, ClientStep(s)
  PROVE  TypeOK'
<1> USE DEF registry, database, bounds
<1> DEFINE u == Owner[s]
           plain == Ops \ {"insert", "insert_ok", "get_sender"}
<1>0. u \in Users /\ user_rooms[u] \in Rooms /\ General \in Rooms
  BY ServerAssumption, RoomFacts DEF TypeOK, SendersOK
<1>a. \A op \in plain : \A r \in Rooms : Own(s, op, r) \in CallsOf(s)
  BY OwnType
<1>1. CASE Connect(s)
  <2>1. <<Own(s, "register", General), Own(s, "memberships", General)>> \in Seq(CallsOf(s))
    <3>1. Own(s, "register", General) \in CallsOf(s) /\ Own(s, "memberships", General) \in CallsOf(s)
      BY <1>0, <1>a DEF Ops
    <3>2. QED
      BY <3>1
  <2>2. TodoOK'
    BY <1>1, <2>1, BeginType DEF Connect
  <2>3. QED
    BY <1>1, <2>2 DEF Connect, TypeOK, SendersOK
<1>2. CASE Leave(s)
  <2> DEFINE r == user_rooms[u]
  <2>1. <<Own(s, "remove", r), Own(s, "unsubscribe", r),
          Own(s, "broadcast", r), Own(s, "fallback", r)>> \in Seq(CallsOf(s))
    <3>1. /\ Own(s, "remove", r) \in CallsOf(s) /\ Own(s, "unsubscribe", r) \in CallsOf(s)
          /\ Own(s, "broadcast", r) \in CallsOf(s) /\ Own(s, "fallback", r) \in CallsOf(s)
      BY <1>0, <1>a DEF Ops
    <3>2. QED
      BY <3>1
  <2>2. TodoOK'
    BY <1>2, <2>1, BeginType DEF Leave, get_user_room
  <2>3. QED
    BY <1>2, <2>2 DEF Leave, ReadLine, TypeOK, SendersOK
<1>3. CASE Text(s)
  <2> DEFINE r == user_rooms[u]
  <2>1. posted' \in Seq(Posts) /\ FreshId \in MessageIds /\ FreshId # Notice
    BY <1>0, <1>3, ComposeType DEF Text, get_user_room
  <2>2. /\ Call("broadcast", u, s, r, FreshId) \in CallsOf(s)
        /\ Call("insert", u, s, r, FreshId) \in CallsOf(s)
    BY <1>0, <2>1, CallType DEF Ops
  <2>3. <<Call("broadcast", u, s, r, FreshId), Call("insert", u, s, r, FreshId)>>
          \in Seq(CallsOf(s))
    BY <2>2
  <2>4. TodoOK'
    BY <1>3, <2>3, BeginType DEF Text, get_user_room
  <2>5. QED
    BY <1>3, <2>1, <2>4 DEF Text, ReadLine, TypeOK, SendersOK
<1>4. CASE Media(s)
  <2> DEFINE r == user_rooms[u]
  <2>1. posted' \in Seq(Posts) /\ FreshId \in MessageIds /\ FreshId # Notice
    BY <1>0, <1>4, ComposeType DEF Media, get_user_room
  <2>2. /\ Call("broadcast", u, s, r, FreshId) \in CallsOf(s)
        /\ Call("insert_ok", u, s, r, FreshId) \in CallsOf(s)
    BY <1>0, <2>1, CallType DEF Ops
  <2>3. <<Call("insert_ok", u, s, r, FreshId), Call("broadcast", u, s, r, FreshId)>>
          \in Seq(CallsOf(s))
    BY <2>2
  <2>4. TodoOK'
    BY <1>4, <2>3, BeginType DEF Media, get_user_room
  <2>5. QED
    BY <1>4, <2>1, <2>4 DEF Media, ReadLine, TypeOK, SendersOK
<1>5. CASE Disconnect(s)
  <2>1. <<Own(s, "goodbye", General), Own(s, "leave_all", General),
          Own(s, "unregister", General)>> \in Seq(CallsOf(s))
    <3>1. /\ Own(s, "goodbye", General) \in CallsOf(s) /\ Own(s, "leave_all", General) \in CallsOf(s)
          /\ Own(s, "unregister", General) \in CallsOf(s)
      BY <1>0, <1>a DEF Ops
    <3>2. QED
      BY <3>1
  <2>2. TodoOK'
    BY <1>5, <2>1, BeginType DEF Disconnect
  <2>3. QED
    BY <1>5, <2>2 DEF Disconnect, TypeOK, SendersOK
<1>6. ASSUME NEW r \in Visible(u), Join(s, r)
      PROVE  TypeOK'
  <2> DEFINE entering == <<Own(s, "subscribe", r), Own(s, "set_active", r),
                           Own(s, "save", r), Own(s, "replay", r)>>
  <2>0. r \in Rooms
    BY DEF Visible
  <2>1. /\ Own(s, "subscribe", r) \in CallsOf(s) /\ Own(s, "set_active", r) \in CallsOf(s)
        /\ Own(s, "save", r) \in CallsOf(s) /\ Own(s, "replay", r) \in CallsOf(s)
        /\ Own(s, "broadcast", r) \in CallsOf(s)
    BY <1>a, <2>0 DEF Ops
  <2>2. entering \in Seq(CallsOf(s)) /\ <<Own(s, "broadcast", r)>> \in Seq(CallsOf(s))
        /\ <<>> \in Seq(CallsOf(s))
    BY <2>1
  <2>3. /\ entering \o <<Own(s, "broadcast", r)>> \in Seq(CallsOf(s))
        /\ entering \o <<>> \in Seq(CallsOf(s))
    <3> HIDE DEF entering
    <3> QED BY <2>2, ConcatProperties
  <2>4. TodoOK'
    <3>1. \/ Begin(s, entering \o <<Own(s, "broadcast", r)>>)
          \/ Begin(s, entering \o <<>>)
      BY <1>6 DEF Join
    <3> HIDE DEF entering
    <3>2. QED
      BY <2>3, <3>1, BeginType
  <2>5. QED
    BY <1>6, <2>4 DEF Join, ReadLine, TypeOK, SendersOK
<1>7. ASSUME NEW r \in Visible(u), Switch(s, r)
      PROVE  TypeOK'
  <2>1. user_rooms' \in [Users -> Rooms]
    BY <1>0, <1>7 DEF Switch, TypeOK, SendersOK, Visible
  <2>2. QED
    BY <1>7, <2>1 DEF Switch, ReadLine, TypeOK, SendersOK, TodoOK
<1>8. ASSUME NEW r \in Visible(u), Signal(s, r)
      PROVE  TypeOK'
  <2>1. Own(s, "broadcast", r) \in CallsOf(s)
    BY <1>a DEF Ops, Visible
  <2>2. <<Own(s, "broadcast", r)>> \in Seq(CallsOf(s))
    BY <2>1
  <2>3. TodoOK'
    BY <1>8, <2>2, BeginType DEF Signal
  <2>4. QED
    BY <1>8, <2>3 DEF Signal, ReadLine, TypeOK, SendersOK
<1>9. ASSUME NEW v \in Users, Msg(s, v)
      PROVE  TypeOK'
  <2> DEFINE dm == dm_room(u, v)
             calls == <<Own(s, "subscribe", dm), Own(s, "set_active", dm),
                        Own(s, "save", dm), Own(s, "replay", dm),
                        Call("insert", u, s, dm, FreshId),
                        Call("save", v, s, dm, Notice),
                        Call("get_sender", v, s, dm, Notice),
                        Call("broadcast", u, s, dm, FreshId)>>
  <2>1. dm \in Rooms /\ dm \in DmRooms
    BY <1>0, <1>9, RoomFacts DEF Msg
  <2>2. posted' \in Seq(Posts) /\ FreshId \in MessageIds /\ FreshId # Notice
    BY <1>9, <2>1, ComposeType DEF Msg
  <2>3. /\ Own(s, "subscribe", dm) \in CallsOf(s) /\ Own(s, "set_active", dm) \in CallsOf(s)
        /\ Own(s, "save", dm) \in CallsOf(s) /\ Own(s, "replay", dm) \in CallsOf(s)
    BY <1>a, <2>1 DEF Ops
  <2>4. /\ Call("insert", u, s, dm, FreshId) \in CallsOf(s)
        /\ Call("save", v, s, dm, Notice) \in CallsOf(s)
        /\ Call("get_sender", v, s, dm, Notice) \in CallsOf(s)
        /\ Call("broadcast", u, s, dm, FreshId) \in CallsOf(s)
    BY <1>0, <2>1, <2>2, CallType DEF Ops
  <2>5. calls \in Seq(CallsOf(s))
    BY <2>3, <2>4
  <2>6. TodoOK'
    <3>1. Begin(s, calls)
      BY <1>9 DEF Msg
    <3> HIDE DEF calls
    <3>2. QED
      BY <2>5, <3>1, BeginType
  <2>7. /\ UNCHANGED <<status, rooms, user_rooms, user_senders, replayed, memberships,
                       table, inbox, unseen, faults, restarts>>
        /\ lines' = lines + 1
    BY <1>9 DEF Msg, ReadLine
  <2>8. QED
    BY <2>2, <2>6, <2>7 DEF TypeOK, SendersOK
<1>10. QED
  BY <1>1, <1>2, <1>3, <1>4, <1>5, <1>6, <1>7, <1>8, <1>9 DEF ClientStep

LEMMA RestartType ==
  ASSUME TypeOK, ServerRestart
  PROVE  TypeOK'
<1>1. TodoOK'
  BY EmptySeq DEF ServerRestart, TodoOK
<1>2. SendersOK'
  BY DEF ServerRestart, SendersOK
<1>3. QED
  BY <1>1, <1>2, RoomFacts DEF ServerRestart, Nobody, TypeOK, SendersOK, registry, database, bounds

LEMMA InitType == Init => TypeOK
<1> SUFFICES ASSUME Init PROVE TypeOK
  OBVIOUS
<1>1. TodoOK
  BY EmptySeq DEF Init, TodoOK
<1>2. SendersOK
  BY DEF Init, SendersOK
<1>3. /\ <<>> \in Seq(Posts) /\ <<>> \in Seq(MessageIds) /\ <<>> \in Seq(Items)
  BY EmptySeq
<1>4. QED
  BY <1>1, <1>2, <1>3, RoomFacts, ServerAssumption DEF Init, Nobody, TypeOK, SendersOK

LEMMA NextType ==
  ASSUME TypeOK, [Next]_vars
  PROVE  TypeOK'
<1>1. ASSUME NEW s \in Sessions, HandlerStep(s) \/ ClientStep(s) \/ StatementFails(s) \/ RoomIdFails(s)
      PROVE  TypeOK'
  BY <1>1, HandlerStepType, ClientStepType, StatementFailsType, RoomIdFailsType
<1>2. CASE ServerRestart
  BY <1>2, RestartType
<1>3. CASE UNCHANGED vars
  BY <1>3 DEF TypeOK, SendersOK, TodoOK, vars, registry, database, bounds
<1>4. QED
  BY <1>1, <1>2, <1>3 DEF Next

(* The variables keep their types: no handler leaves the registry, the     *)
(* tables or a channel holding anything it should not.                     *)
THEOREM TypeCorrect == Spec => []TypeOK
<1>1. QED
  BY InitType, NextType, PTL DEF Spec

-----------------------------------------------------------------------------
(* One entry per user.                                                     *)

(* Only a subscribe call adds an entry to a room.                          *)
Subscribes(s) ==
  /\ About(s, "subscribe")
  /\ rooms' = subscribe_room(rooms, NextCall(s).user, NextCall(s).room, NextCall(s).tx)

LEMMA RoomsStep ==
  ASSUME TypeOK, [Next]_vars
  PROVE  \/ \E s \in Sessions : Subscribes(s)
         \/ \A r \in Rooms : \A e \in Entries : rooms'[r][e] <= rooms[r][e]
<1> USE DEF registry, database, bounds
<1> DEFINE Shrinks == \A r \in Rooms : \A e \in Entries : rooms'[r][e] <= rooms[r][e]
<1>0. rooms \in [Rooms -> [Entries -> Nat]]
  BY DEF TypeOK
<1>a. UNCHANGED rooms => Shrinks
  <2>1. \A r \in Rooms : \A e \in Entries : rooms[r][e] \in Nat
    BY <1>0
  <2>2. \A n \in Nat : n <= n
    OBVIOUS
  <2>3. QED
    BY <2>1, <2>2
<1>1. ASSUME NEW s \in Sessions, HandlerStep(s)
      PROVE  Subscribes(s) \/ Shrinks
  <2>1. CASE SubscribeRoom(s)
    BY <2>1 DEF SubscribeRoom, Subscribes, RoomsBecome
  <2>2. CASE SendToRoom(s)
    BY <1>0, <2>2 DEF SendToRoom, RoomsBecome, send_to_room
  <2>3. CASE UnsubscribeRoom(s)
    BY <1>0, <2>3 DEF UnsubscribeRoom, RoomsBecome, unsubscribe_room, retain_others
  <2>4. CASE LeaveAllRooms(s)
    BY <1>0, <2>4 DEF LeaveAllRooms, RoomsBecome, leave_all_rooms, retain_others
  <2>5. CASE UNCHANGED rooms
    BY <1>a, <2>5
  <2>6. QED
    BY <1>1, <2>1, <2>2, <2>3, <2>4, <2>5
       DEF HandlerStep, RegisterSender, ReadMemberships, ReadLastRoom, SetActiveRoom,
           SaveMembership, ReplayHistory, InsertMessage, GetSender, RemoveMembership,
           ReadFallback, ReadSubscribedRooms, UnregisterSender
<1>2. ASSUME NEW s \in Sessions, ClientStep(s) \/ StatementFails(s) \/ RoomIdFails(s)
      PROVE  UNCHANGED rooms
  BY <1>2 DEF ClientStep, StatementFails, RoomIdFails, Connect, Leave, Text, Media, Disconnect, Join,
              Switch, Signal, Msg
<1>3. CASE ServerRestart
  BY <1>0, <1>3 DEF ServerRestart, Nobody
<1>4. CASE UNCHANGED vars
  BY <1>a, <1>4 DEF vars
<1>5. QED
  BY <1>a, <1>1, <1>2, <1>3, <1>4 DEF Next

(* retain, then push: whoever was there under the name is replaced.        *)
LEMMA SubscribeKeepsOneEntry ==
  ASSUME TypeOK, OneEntryPerUser, NEW u \in Users, NEW t \in Sessions, NEW room \in Rooms,
         rooms' = subscribe_room(rooms, u, room, t)
  PROVE  OneEntryPerUser'
<1> SUFFICES ASSUME NEW r \in Rooms, NEW d \in Entries, NEW e \in Entries
             PROVE  /\ rooms'[r][e] <= 1
                    /\ Subscribed(rooms', r, d) /\ Subscribed(rooms', r, e) /\ d[1] = e[1]
                         => d = e
  BY DEF OneEntryPerUser
<1>0. rooms \in [Rooms -> [Entries -> Nat]]
  BY DEF TypeOK
<1>1. CASE r # room
  <2>1. rooms'[r] = rooms[r]
    BY <1>0, <1>1 DEF subscribe_room
  <2>2. QED
    BY <2>1 DEF OneEntryPerUser, Subscribed
<1>2. CASE r = room
  <2>1. \A f \in Entries : rooms'[r][f] = IF f = <<u, t>> THEN 1
                                          ELSE IF f[1] = u THEN 0 ELSE rooms[r][f]
    <3>1. rooms[room] \in [Entries -> Nat] /\ DOMAIN rooms[room] = Entries
      BY <1>0
    <3>2. rooms'[r] = push(retain_others(rooms[room], u), <<u, t>>)
      BY <1>0, <1>2 DEF subscribe_room
    <3>3. /\ retain_others(rooms[room], u)
               = [f \in Entries |-> IF f[1] = u THEN 0 ELSE rooms[room][f]]
          /\ <<u, t>>[1] = u
      BY <3>1 DEF retain_others
    <3>4. QED
      BY <1>2, <3>2, <3>3 DEF push
  <2>2. rooms'[r][e] <= 1
    BY <1>0, <2>1 DEF OneEntryPerUser
  <2>3. ASSUME Subscribed(rooms', r, d), Subscribed(rooms', r, e), d[1] = e[1]
        PROVE  d = e
    <3>1. CASE d[1] = u
      <4>1. \A f \in {d, e} : rooms'[r][f] > 0
        BY <2>3 DEF Subscribed
      <4>2. ~(0 > 0)
        OBVIOUS
      <4>3. \A f \in {d, e} : f = <<u, t>>
        BY <2>1, <2>3, <3>1, <4>1, <4>2
      <4>4. QED
        BY <4>3
    <3>2. CASE d[1] # u
      <4>1. rooms'[r][d] = rooms[r][d] /\ rooms'[r][e] = rooms[r][e]
        BY <2>1, <2>3, <3>2
      <4>2. QED
        BY <2>3, <4>1 DEF OneEntryPerUser, Subscribed
    <3>3. QED
      BY <3>1, <3>2
  <2>4. QED
    BY <2>2, <2>3
<1>3. QED
  BY <1>1, <1>2

LEMMA OneEntryStep ==
  ASSUME TypeOK, OneEntryPerUser, [Next]_vars
  PROVE  OneEntryPerUser'
<1>1. CASE \E s \in Sessions : Subscribes(s)
  <2>1. PICK s \in Sessions : Subscribes(s)
    BY <1>1
  <2>2. /\ NextCall(s).user \in Users /\ NextCall(s).tx \in Sessions
        /\ NextCall(s).room \in Rooms
    BY <2>1, NextCallType DEF Subscribes, About
  <2>3. QED
    BY <2>1, <2>2, SubscribeKeepsOneEntry DEF Subscribes
<1>2. CASE \A r \in Rooms : \A e \in Entries : rooms'[r][e] <= rooms[r][e]
  <2>1. /\ rooms \in [Rooms -> [Entries -> Nat]]
        /\ rooms' \in [Rooms -> [Entries -> Nat]]
    BY NextType DEF TypeOK
  <2>2. QED
    BY <1>2, <2>1 DEF OneEntryPerUser, Subscribed
<1>3. QED
  BY <1>1, <1>2, RoomsStep

(* However many connections a user opens and whoever subscribes them, a    *)
(* room never holds two entries for one name, so no send reaches a user    *)
(* twice.                                                                  *)
THEOREM OneEntry == Spec => []OneEntryPerUser
<1>1. Init => OneEntryPerUser
  BY DEF Init, OneEntryPerUser, Nobody, Subscribed
<1>2. QED
  BY <1>1, OneEntryStep, InitType, NextType, PTL DEF Spec

-----------------------------------------------------------------------------
(* Nothing is left of a connection that went through cleanup_disconnect.   *)
(*                                                                         *)
(* The invariant that makes it inductive says how far a task is: one that  *)
(* serves its client has no cleanup call ahead, and one that is closing    *)
(* has leave_all and then unregister as its last two calls, with nothing   *)
(* before them that could subscribe it again.  Past leave_all, and for     *)
(* ever after, no channel has an entry with its tx.                        *)

Cleanup == {"goodbye", "leave_all", "unregister"}

OutOfChannels(s) == \A r \in Channels : ~Live(s, r)

OpsIn(q, P) == \A i \in 1..Len(q) : q[i].op \in P

WindingDown(q) ==
  /\ q # <<>>
  /\ q[Len(q)].op = "unregister"
  /\ Len(q) > 1 => q[Len(q) - 1].op = "leave_all"
  /\ \A i \in 1..(Len(q) - 2) : q[i].op \in {"goodbye", "broadcast"}

Stage(s) ==
  /\ status[s] \in {"off", "closed", "dead"} => todo[s] = <<>>
  /\ status[s] = "on" => OpsIn(todo[s], Ops \ Cleanup)
  /\ status[s] = "closing" => WindingDown(todo[s])
  /\ status[s] = "closing" /\ Len(todo[s]) = 1 => OutOfChannels(s)
  /\ status[s] = "closed" => OutOfChannels(s) /\ user_senders[Owner[s]] # s

StageInv == \A s \in Sessions : Stage(s)

(* A connection that is winding down or closed is not put into a channel:  *)
(* only its own task subscribes it to one.                                 *)
LEMMA StaysOutOfChannels ==
  ASSUME TypeOK, StageInv, [Next]_vars, NEW s \in Sessions,
         status[s] \in {"closing", "closed"}, OutOfChannels(s)
  PROVE  OutOfChannels(s)'
<1> DEFINE e == <<Owner[s], s>>
<1> SUFFICES ASSUME NEW r \in Channels, rooms'[r][e] > 0
             PROVE  FALSE
  BY DEF OutOfChannels, Live, Subscribed
<1>0. /\ r \in Rooms /\ r \notin DmRooms /\ e \in Entries
      /\ rooms \in [Rooms -> [Entries -> Nat]]
      /\ rooms' \in [Rooms -> [Entries -> Nat]]
  BY ServerAssumption, NextType DEF Rooms, Entries, TypeOK
<1>1. rooms[r][e] = 0
  <2>1. rooms[r][e] \in Nat /\ ~(rooms[r][e] > 0)
    BY <1>0 DEF OutOfChannels, Live, Subscribed
  <2>2. \A n \in Nat : ~(n > 0) => n = 0
    OBVIOUS
  <2>3. QED
    BY <2>1, <2>2
<1>2. PICK t \in Sessions : Subscribes(t)
  BY <1>0, <1>1, RoomsStep
<1> DEFINE c == NextCall(t)
<1>3. c \in CallsOf(t) /\ c.op = "subscribe" /\ todo[t] # <<>>
  BY <1>2, NextCallType DEF Subscribes, About
<1>4. c.tx = s /\ c.room = r
  <2>1. rooms' = [rooms EXCEPT ![c.room] = push(retain_others(@, c.user), <<c.user, c.tx>>)]
    BY <1>2 DEF Subscribes, subscribe_room
  <2>2. c.room = r
    BY <1>0, <1>1, <2>1
  <2>3. <<c.user, c.tx>> = e
    BY <1>0, <1>1, <2>1, <2>2 DEF retain_others, push
  <2>4. QED
    BY <2>2, <2>3
<1>5. t = s
  BY <1>0, <1>3, <1>4 DEF CallsOf
<1>6. todo[s] \in Seq(CallsOf(s)) /\ Len(todo[s]) \in Nat /\ Len(todo[s]) >= 1
  BY <1>3, <1>5, EmptySeq DEF TypeOK, TodoOK
<1>7. todo[s][1].op = "subscribe"
  BY <1>3, <1>5, <1>6 DEF NextCall
<1>8. WindingDown(todo[s])
  BY <1>3, <1>5 DEF StageInv, Stage
<1>9. todo[s][1].op \in {"goodbye", "broadcast", "leave_all", "unregister"}
  BY <1>6, <1>8 DEF WindingDown
<1>10. QED
  BY <1>7, <1>9

(* The calls of a sequence that is put together from others.               *)
LEMMA OpsOfTail ==
  ASSUME NEW S, NEW q \in Seq(S), q # <<>>, NEW P, OpsIn(q, P)
  PROVE  Tail(q) \in Seq(S) /\ OpsIn(Tail(q), P)
<1>1. /\ Tail(q) \in Seq(S) /\ Len(Tail(q)) = Len(q) - 1
      /\ \A i \in 1..Len(Tail(q)) : Tail(q)[i] = q[i+1]
  BY HeadTailProperties
<1>2. Len(q) \in Nat
  BY LenProperties
<1>3. QED
  BY <1>1, <1>2 DEF OpsIn

LEMMA OpsOfConcat ==
  ASSUME NEW S, NEW q \in Seq(S), NEW r \in Seq(S), NEW P, OpsIn(q, P), OpsIn(r, P)
  PROVE  q \o r \in Seq(S) /\ OpsIn(q \o r, P)
<1>1. Len(q) \in Nat /\ Len(r) \in Nat
  BY LenProperties
<1>2. /\ q \o r \in Seq(S) /\ Len(q \o r) = Len(q) + Len(r)
      /\ \A i \in 1..(Len(q) + Len(r)) :
           (q \o r)[i] = IF i <= Len(q) THEN q[i] ELSE r[i - Len(q)]
  BY ConcatProperties
<1>3. ASSUME NEW i \in 1..Len(q \o r)
      PROVE  (q \o r)[i].op \in P
  <2>1. CASE i <= Len(q)
    BY <1>1, <1>2, <2>1 DEF OpsIn
  <2>2. CASE ~ (i <= Len(q))
    <3>1. i - Len(q) \in 1..Len(r) /\ (q \o r)[i] = r[i - Len(q)]
      BY <1>1, <1>2, <2>2
    <3>2. QED
      BY <3>1 DEF OpsIn
  <2>3. QED
    BY <2>1, <2>2
<1>4. QED
  BY <1>2, <1>3 DEF OpsIn

(* A step of another task leaves this one where it is.                     *)
LEMMA OthersStep ==
  ASSUME TypeOK, NEW s \in Sessions, NEW t \in Sessions, t # s,
         HandlerStep(t) \/ ClientStep(t) \/ StatementFails(t) \/ RoomIdFails(t)
  PROVE  /\ status'[s] = status[s] /\ todo'[s] = todo[s]
         /\ \A u \in Users : user_senders'[u] = s => user_senders[u] = s
<1> USE DEF registry, database, bounds, TypeOK, TodoOK, SendersOK
<1>1. CASE HandlerStep(t)
  <2>1. CASE RegisterSender(t)
    BY <2>1 DEF RegisterSender, Return, Then
  <2>2. CASE UnregisterSender(t)
    <3>1. NoSession # s
      BY ServerAssumption
    <3>2. QED
      BY <2>2, <3>1 DEF UnregisterSender, Return, Then
  <2>3. CASE ReadMemberships(t) \/ ReadLastRoom(t) \/ ReadFallback(t) \/ GetSender(t)
    BY <2>3 DEF ReadMemberships, ReadLastRoom, ReadFallback, GetSender, Then,
                MembershipsAre, ResumeIn, FallBackTo
  <2>4. CASE ReadSubscribedRooms(t)
    BY <2>4 DEF ReadSubscribedRooms, Then
  <2>5. CASE SubscribeRoom(t) \/ UnsubscribeRoom(t) \/ LeaveAllRooms(t) \/ SendToRoom(t)
    BY <2>5 DEF SubscribeRoom, UnsubscribeRoom, LeaveAllRooms, SendToRoom, Return, Then
  <2>6. CASE SetActiveRoom(t) \/ SaveMembership(t) \/ ReplayHistory(t) \/ InsertMessage(t)
               \/ RemoveMembership(t)
    BY <2>6 DEF SetActiveRoom, SaveMembership, ReplayHistory, InsertMessage,
                RemoveMembership, Return, Then
  <2>7. QED
    BY <1>1, <2>1, <2>2, <2>3, <2>4, <2>5, <2>6 DEF HandlerStep
<1>2. CASE ClientStep(t)
  BY <1>2 DEF ClientStep, Connect, Leave, Text, Media, Disconnect, Join, Switch, Signal,
              Msg, ReadLine, Begin
<1>3. CASE StatementFails(t)
  BY <1>3 DEF StatementFails, Return, Then, MembershipsAre, ResumeIn, FallBackTo, Panic
<1>4. CASE RoomIdFails(t)
  BY <1>4 DEF RoomIdFails, Return, Then
<1>5. QED
  BY <1>1, <1>2, <1>3, <1>4

(* A task serving its client stays clear of the cleanup calls.             *)
LEMMA ServingStage ==
  ASSUME NEW s \in Sessions, status'[s] = "on", OpsIn(todo'[s], Ops \ Cleanup)
  PROVE  Stage(s)'
BY DEF Stage

LEMMA ThenServes ==
  ASSUME NEW s \in Sessions, TypeOK, Stage(s), status[s] = "on", status'[s] = "on",
         todo[s] # <<>>, NEW more \in Seq(CallsOf(s)), OpsIn(more, Ops \ Cleanup),
         Then(s, more)
  PROVE  Stage(s)'
<1>1. todo[s] \in Seq(CallsOf(s)) /\ todo'[s] = more \o Tail(todo[s])
  BY DEF TypeOK, TodoOK, Then
<1>2. OpsIn(todo[s], Ops \ Cleanup)
  BY DEF Stage
<1>3. Tail(todo[s]) \in Seq(CallsOf(s)) /\ OpsIn(Tail(todo[s]), Ops \ Cleanup)
  BY <1>1, <1>2, OpsOfTail
<1>4. OpsIn(more \o Tail(todo[s]), Ops \ Cleanup)
  BY <1>3, OpsOfConcat
<1>5. QED
  BY <1>1, <1>4, ServingStage

(* What the reads put in front of a task while it serves.                  *)
LEMMA MembershipsServe ==
  ASSUME NEW s \in Sessions, TypeOK, Stage(s), status[s] = "on", status'[s] = "on",
         todo[s] # <<>>, NEW found \in Seq(Rooms), MembershipsAre(s, found)
  PROVE  Stage(s)'
<1> DEFINE serve == Ops \ Cleanup
           subs == [i \in 1..Len(found) |-> Own(s, "subscribe", found[i])]
<1>1. subs \in Seq(CallsOf(s)) /\ OpsIn(subs, serve)
  <2>1. \A i \in 1..Len(found) : Own(s, "subscribe", found[i]) \in CallsOf(s)
    BY OwnType, ElementOfSeq DEF Ops
  <2>2. subs \in Seq(CallsOf(s)) /\ Len(found) \in Nat
    BY <2>1, IsASeq, LenProperties
  <2>3. Len(subs) = Len(found)
    BY <2>2, LenProperties
  <2>4. QED
    BY <2>2, <2>3 DEF OpsIn, Own, Call, Ops, Cleanup
<1>2. <<Own(s, "resume", General)>> \in Seq(CallsOf(s))
      /\ OpsIn(<<Own(s, "resume", General)>>, serve)
  BY OwnType, RoomFacts DEF OpsIn, Own, Call, Ops, Cleanup
<1>3. Then(s, <<Own(s, "resume", General)>> \o subs)
  BY DEF MembershipsAre
<1>4. QED
  <2> HIDE DEF subs
  <2>1. <<Own(s, "resume", General)>> \o subs \in Seq(CallsOf(s))
        /\ OpsIn(<<Own(s, "resume", General)>> \o subs, serve)
    BY <1>1, <1>2, OpsOfConcat
  <2>2. QED
    BY <1>3, <2>1, ThenServes

LEMMA ResumeServes ==
  ASSUME NEW s \in Sessions, TypeOK, Stage(s), status[s] = "on", status'[s] = "on",
         todo[s] # <<>>, NEW room \in Rooms, ResumeIn(s, room)
  PROVE  Stage(s)'
<1> DEFINE serve == Ops \ Cleanup
           pending == Tail(todo[s])
           listed == \E i \in 1..Len(pending) : pending[i].room = room
           entry == IF listed THEN <<>> ELSE <<Own(s, "subscribe", room)>>
           last == <<Own(s, "set_active", room), Own(s, "save", room),
                     Own(s, "replay", room), Own(s, "broadcast", room)>>
<1>1. pending \in Seq(CallsOf(s)) /\ OpsIn(pending, serve)
  BY OpsOfTail DEF Stage, TypeOK, TodoOK
<1>2. entry \in Seq(CallsOf(s)) /\ OpsIn(entry, serve)
  <2>1. /\ <<Own(s, "subscribe", room)>> \in Seq(CallsOf(s))
        /\ OpsIn(<<Own(s, "subscribe", room)>>, serve)
    BY OwnType DEF OpsIn, Own, Call, Ops, Cleanup
  <2>2. <<>> \in Seq(CallsOf(s)) /\ OpsIn(<<>>, serve)
    BY DEF OpsIn
  <2>3. QED
    BY <2>1, <2>2
<1>3. last \in Seq(CallsOf(s)) /\ OpsIn(last, serve)
  <2>1. /\ Own(s, "set_active", room) \in CallsOf(s) /\ Own(s, "save", room) \in CallsOf(s)
        /\ Own(s, "replay", room) \in CallsOf(s) /\ Own(s, "broadcast", room) \in CallsOf(s)
    BY OwnType DEF Ops
  <2>2. last \in Seq(CallsOf(s)) /\ Len(last) = 4
    BY <2>1
  <2>3. /\ last[1].op = "set_active" /\ last[2].op = "save"
        /\ last[3].op = "replay" /\ last[4].op = "broadcast"
    BY DEF Own, Call
  <2>4. QED
    <3> HIDE DEF last
    <3> QED BY <2>2, <2>3 DEF OpsIn, Ops, Cleanup
<1>4. pending \o entry \o last \in Seq(CallsOf(s)) /\ OpsIn(pending \o entry \o last, serve)
  <2> HIDE DEF pending, entry, last
  <2>1. pending \o entry \in Seq(CallsOf(s)) /\ OpsIn(pending \o entry, serve)
    BY <1>1, <1>2, OpsOfConcat
  <2>2. QED
    BY <1>3, <2>1, OpsOfConcat
<1>5. todo'[s] = pending \o entry \o last
  BY DEF ResumeIn, TypeOK, TodoOK
<1>6. QED
  <2> HIDE DEF pending, entry, last
  <2> QED BY <1>4, <1>5, ServingStage

LEMMA FallbackServes ==
  ASSUME NEW s \in Sessions, TypeOK, Stage(s), status[s] = "on", status'[s] = "on",
         todo[s] # <<>>, NEW room \in Rooms, FallBackTo(s, room)
  PROVE  Stage(s)'
<1> DEFINE more == <<Own(s, "subscribe", room), Own(s, "set_active", room),
                     Own(s, "replay", room)>>
<1>1. /\ Own(s, "subscribe", room) \in CallsOf(s) /\ Own(s, "set_active", room) \in CallsOf(s)
      /\ Own(s, "replay", room) \in CallsOf(s)
  BY OwnType DEF Ops
<1>2. more \in Seq(CallsOf(s)) /\ Len(more) = 3
  BY <1>1
<1>3. more[1].op = "subscribe" /\ more[2].op = "set_active" /\ more[3].op = "replay"
  BY DEF Own, Call
<1>4. Then(s, more)
  BY DEF FallBackTo
<1>5. QED
  <2> HIDE DEF more
  <2>1. OpsIn(more, Ops \ Cleanup)
    BY <1>2, <1>3 DEF OpsIn, Ops, Cleanup
  <2>2. QED
    BY <1>2, <1>4, <2>1, ThenServes

(* Every call made while serving leads to calls made while serving.        *)
LEMMA ServingStep ==
  ASSUME TypeOK, NEW s \in Sessions, Stage(s), status[s] = "on", HandlerStep(s)
  PROVE  Stage(s)'
<1> DEFINE serve == Ops \ Cleanup
<1> USE DEF registry, database, bounds
<1>1. /\ todo[s] # <<>> /\ OpsIn(todo[s], serve) /\ todo[s] \in Seq(CallsOf(s))
      /\ NextCall(s).op \in serve
  <2>1. todo[s] # <<>>
    BY DEF HandlerStep, About, RegisterSender, ReadMemberships, ReadLastRoom,
           SubscribeRoom, SetActiveRoom, SaveMembership, ReplayHistory, SendToRoom,
           InsertMessage, GetSender, RemoveMembership, UnsubscribeRoom,
           ReadFallback, ReadSubscribedRooms, LeaveAllRooms, UnregisterSender
  <2>2. OpsIn(todo[s], serve) /\ todo[s] \in Seq(CallsOf(s))
    BY DEF Stage, TypeOK, TodoOK
  <2>3. NextCall(s) = todo[s][1] /\ Len(todo[s]) \in Nat /\ Len(todo[s]) >= 1
    BY <2>1, <2>2, EmptySeq DEF NextCall
  <2>4. QED
    BY <2>1, <2>2, <2>3 DEF OpsIn
<1>2. ~ReadSubscribedRooms(s) /\ ~LeaveAllRooms(s) /\ ~UnregisterSender(s)
  BY <1>1 DEF ReadSubscribedRooms, LeaveAllRooms, UnregisterSender, About, Cleanup
<1>3. status' = status
  BY <1>2 DEF HandlerStep, About, RegisterSender, ReadMemberships, ReadLastRoom,
           SubscribeRoom, SetActiveRoom, SaveMembership, ReplayHistory, SendToRoom,
           InsertMessage, GetSender, RemoveMembership, UnsubscribeRoom, ReadFallback
<1>4. ASSUME NEW more \in Seq(CallsOf(s)), OpsIn(more, serve), Then(s, more)
      PROVE  Stage(s)'
  BY <1>1, <1>3, <1>4, ThenServes
<1>5. CASE Return(s)
  <2>1. <<>> \in Seq(CallsOf(s)) /\ OpsIn(<<>>, serve)
    BY DEF OpsIn
  <2>2. QED
    BY <1>4, <1>5, <2>1 DEF Return
<1>6. CASE ReadMemberships(s)
  BY <1>1, <1>3, <1>6, MembershipsServe, ServerAssumption DEF ReadMemberships, TypeOK
<1>7. CASE ReadLastRoom(s)
  <2>1. LastRoomOr(memberships[Owner[s]], General) \in Rooms
    BY ServerAssumption, LastRoomType DEF TypeOK
  <2>2. QED
    BY <1>1, <1>3, <1>7, <2>1, ResumeServes DEF ReadLastRoom
<1>8. CASE GetSender(s)
  <2> DEFINE t == user_senders[NextCall(s).user]
             more == IF t = NoSession THEN <<>> ELSE <<PassOn(s, t)>>
  <2>1. more \in Seq(CallsOf(s)) /\ OpsIn(more, serve)
    <3>1. CASE t = NoSession
      BY <3>1 DEF OpsIn
    <3>2. CASE t # NoSession
      <4>1. /\ NextCall(s).user \in Users /\ NextCall(s).room \in DmRooms
            /\ NextCall(s).room \in Rooms
        BY <1>1, <1>8, NextCallType DEF GetSender, About
      <4>2. t \in Sessions /\ Owner[t] = NextCall(s).user
        BY <3>2, <4>1 DEF TypeOK, SendersOK
      <4>3. PassOn(s, t) \in CallsOf(s)
        BY <4>1, <4>2, CallType DEF Ops, PassOn
      <4>4. PassOn(s, t).op \in serve
        BY DEF PassOn, Call, Ops, Cleanup
      <4>5. QED
        BY <3>2, <4>3, <4>4 DEF OpsIn
    <3>3. QED
      BY <3>1, <3>2
  <2>2. Then(s, more)
    BY <1>8 DEF GetSender
  <2>3. QED
    <3> HIDE DEF more
    <3> QED BY <1>4, <2>1, <2>2
<1>9. CASE ReadFallback(s)
  <2>1. LastRoomOr(memberships[Owner[s]], General) \in Rooms
    BY ServerAssumption, LastRoomType DEF TypeOK
  <2>2. QED
    BY <1>1, <1>3, <1>9, <2>1, FallbackServes DEF ReadFallback
<1>10. QED
  BY <1>2, <1>5, <1>6, <1>7, <1>8, <1>9
     DEF HandlerStep, RegisterSender, SubscribeRoom, SetActiveRoom, SaveMembership,
         ReplayHistory, SendToRoom, InsertMessage, RemoveMembership, UnsubscribeRoom

(* A call that just returns leaves the rest of the sequence.               *)
LEMMA ReturnsTail ==
  ASSUME TypeOK, NEW s \in Sessions, Return(s)
  PROVE  todo'[s] = Tail(todo[s])
<1>1. todo'[s] = <<>> \o Tail(todo[s])
  BY DEF Return, Then, TypeOK, TodoOK
<1>2. <<>> \o Tail(todo[s]) = Tail(todo[s])
  OBVIOUS
<1>3. QED
  BY <1>1, <1>2

(* What is next in a winding-down sequence, and what is left after it.     *)
LEMMA WindingFacts ==
  ASSUME NEW S, NEW q \in Seq(S), WindingDown(q)
  PROVE  /\ q # <<>>
         /\ q[1].op \in Cleanup \cup {"broadcast"}
         /\ q[1].op \in {"goodbye", "broadcast"} => Len(q) > 2
         /\ q[1].op = "leave_all" => Len(q) = 2
         /\ q[1].op = "unregister" => Len(q) = 1
<1>1. q # <<>> /\ Len(q) \in Nat /\ Len(q) >= 1
  BY EmptySeq, LenProperties DEF WindingDown
<1>2. Len(q) = 1 => q[1].op = "unregister"
  BY DEF WindingDown
<1>3. Len(q) = 2 => q[1].op = "leave_all"
  BY DEF WindingDown
<1>4. Len(q) > 2 => q[1].op \in {"goodbye", "broadcast"}
  <2>1. Len(q) > 2 => 1 \in 1..(Len(q) - 2)
    BY <1>1
  <2>2. QED
    BY <2>1 DEF WindingDown
<1>5. Len(q) = 1 \/ Len(q) = 2 \/ Len(q) > 2
  <2>1. \A n \in Nat : n >= 1 => n = 1 \/ n = 2 \/ n > 2
    OBVIOUS
  <2>2. QED
    BY <1>1, <2>1
<1>6. QED
  BY <1>1, <1>2, <1>3, <1>4, <1>5 DEF Cleanup

LEMMA WindingTail ==
  ASSUME NEW S, NEW q \in Seq(S), WindingDown(q)
  PROVE  /\ Tail(q) \in Seq(S) /\ Len(Tail(q)) = Len(q) - 1
         /\ Len(q) > 1 => WindingDown(Tail(q))
         /\ Len(q) = 1 => Tail(q) = <<>>
<1>1. q # <<>> /\ Len(q) \in Nat /\ Len(q) >= 1
  BY EmptySeq, LenProperties DEF WindingDown
<1> DEFINE tl == Tail(q)
<1>2. /\ tl \in Seq(S) /\ Len(tl) = Len(q) - 1
      /\ \A i \in 1..(Len(q) - 1) : tl[i] = q[i+1]
  BY <1>1, HeadTailProperties
<1> HIDE DEF tl
<1>3. ASSUME Len(q) > 1
      PROVE  WindingDown(tl)
  <2>1. tl # <<>>
    BY <1>1, <1>2, <1>3, EmptySeq
  <2>2. tl[Len(tl)] = q[Len(q)]
    BY <1>1, <1>2, <1>3
  <2>3. Len(tl) > 1 => tl[Len(tl) - 1] = q[Len(q) - 1]
    BY <1>1, <1>2, <1>3
  <2>4. \A i \in 1..(Len(tl) - 2) : i + 1 \in 1..(Len(q) - 2) /\ tl[i] = q[i+1]
    BY <1>1, <1>2, <1>3
  <2>5. QED
    BY <1>1, <1>2, <1>3, <2>1, <2>2, <2>3, <2>4 DEF WindingDown
<1>4. Len(q) = 1 => tl = <<>>
  BY <1>2, EmptySeq
<1>5. QED
  BY <1>2, <1>3, <1>4 DEF tl

(* The leave notices go in front of leave_all and unregister.              *)
LEMMA NoticesWind ==
  ASSUME NEW S, NEW p \in Seq(S), NEW q \in Seq(S), OpsIn(p, {"broadcast"}),
         WindingDown(q), Len(q) > 1
  PROVE  WindingDown(p \o q) /\ Len(p \o q) > 1
<1> DEFINE n == Len(p)
           k == Len(q)
           r == p \o q
<1>1. n \in Nat /\ k \in Nat /\ k > 1
  BY LenProperties
<1>2. /\ r \in Seq(S) /\ Len(r) = n + k
      /\ \A i \in 1..(n + k) : r[i] = IF i <= n THEN p[i] ELSE q[i - n]
  BY ConcatProperties
<1>3. /\ q[k].op = "unregister" /\ q[k-1].op = "leave_all"
      /\ \A i \in 1..(k - 2) : q[i].op \in {"goodbye", "broadcast"}
      /\ \A i \in 1..n : p[i].op = "broadcast"
  BY <1>1 DEF WindingDown, OpsIn
<1> HIDE DEF n, k, r
<1>4. r[n + k] = q[k] /\ r[n + k - 1] = q[k - 1]
  <2>1. \A a, b \in Nat : b > 1 =>
          /\ a + b \in 1..(a + b) /\ a + b - 1 \in 1..(a + b)
          /\ ~(a + b <= a) /\ ~(a + b - 1 <= a)
          /\ a + b - a = b /\ a + b - 1 - a = b - 1
    OBVIOUS
  <2>2. r[n + k] = q[n + k - n] /\ r[n + k - 1] = q[n + k - 1 - n]
    BY <1>1, <1>2, <2>1
  <2>3. QED
    BY <1>1, <2>1, <2>2
<1>5. ASSUME NEW i \in 1..(n + k - 2)
      PROVE  r[i].op \in {"goodbye", "broadcast"}
  <2>1. CASE i <= n
    <3>1. i \in 1..n /\ i \in 1..(n + k)
      BY <1>1, <2>1
    <3>2. r[i] = p[i]
      BY <1>2, <2>1, <3>1
    <3>3. QED
      BY <1>3, <3>1, <3>2
  <2>2. CASE ~(i <= n)
    <3>1. i - n \in 1..(k - 2) /\ r[i] = q[i - n]
      BY <1>1, <1>2, <2>2
    <3>2. QED
      BY <1>3, <3>1
  <2>3. QED
    BY <2>1, <2>2
<1>6. r # <<>> /\ Len(r) > 1
  BY <1>1, <1>2, EmptySeq
<1>7. WindingDown(r)
  BY <1>1, <1>2, <1>3, <1>4, <1>5, <1>6 DEF WindingDown
<1>8. QED
  BY <1>6, <1>7 DEF r

(* The three calls of cleanup_disconnect, in order, and what each leaves   *)
(* behind.                                                                 *)
LEMMA WindingStep ==
  ASSUME TypeOK, NEW s \in Sessions, Stage(s), status[s] = "closing", HandlerStep(s),
         OutOfChannels(s) => OutOfChannels(s)'
  PROVE  Stage(s)'
<1> USE DEF registry, database, bounds
<1>1. todo[s] \in Seq(CallsOf(s)) /\ WindingDown(todo[s]) /\ todo[s] # <<>>
  BY WindingFacts DEF Stage, TypeOK, TodoOK
<1>2. NextCall(s) = todo[s][1]
  BY <1>1 DEF NextCall
<1>3. ReadSubscribedRooms(s) \/ LeaveAllRooms(s) \/ UnregisterSender(s) \/ SendToRoom(s)
  <2>1. NextCall(s).op \in Cleanup \cup {"broadcast"}
    BY <1>1, <1>2, WindingFacts
  <2>2. QED
    BY <2>1 DEF HandlerStep, About, Cleanup, RegisterSender, ReadMemberships, ReadLastRoom,
           SubscribeRoom, SetActiveRoom, SaveMembership, ReplayHistory,
           InsertMessage, GetSender, RemoveMembership, UnsubscribeRoom, ReadFallback
<1> DEFINE tl == Tail(todo[s])
<1>4. /\ tl \in Seq(CallsOf(s)) /\ Len(tl) = Len(todo[s]) - 1
      /\ Len(todo[s]) > 1 => WindingDown(tl)
      /\ Len(todo[s]) = 1 => tl = <<>>
      /\ Len(todo[s]) \in Nat
  BY <1>1, WindingTail, LenProperties
<1>5. Return(s) => todo'[s] = tl
  BY ReturnsTail
<1>6. CASE SendToRoom(s)
  <2>1. Len(todo[s]) > 2
    BY <1>1, <1>2, <1>6, WindingFacts DEF SendToRoom, About
  <2>2. todo'[s] = tl /\ status'[s] = "closing"
    BY <1>5, <1>6 DEF SendToRoom
  <2> HIDE DEF tl
  <2>3. WindingDown(tl) /\ Len(tl) # 1
    <3>1. \A n \in Nat : n > 2 => n > 1 /\ n - 1 # 1
      OBVIOUS
    <3>2. QED
      BY <1>4, <2>1, <3>1
  <2>4. QED
    BY <2>2, <2>3 DEF Stage
<1>7. CASE ReadSubscribedRooms(s)
  <2>1. Len(todo[s]) > 2
    BY <1>1, <1>2, <1>7, WindingFacts DEF ReadSubscribedRooms, About
  <2>2. PICK order \in SetToSeqs(get_user_subscribed_rooms(rooms, Owner[s])) :
          Then(s, [i \in 1..Len(order) |-> Own(s, "broadcast", order[i])])
    BY <1>7 DEF ReadSubscribedRooms
  <2> DEFINE notices == [i \in 1..Len(order) |-> Own(s, "broadcast", order[i])]
  <2>3. notices \in Seq(CallsOf(s)) /\ OpsIn(notices, {"broadcast"})
    <3>1. order \in Seq(Rooms)
      BY <2>2, GoodbyeOrder, ServerAssumption
    <3>2. \A i \in 1..Len(order) : Own(s, "broadcast", order[i]) \in CallsOf(s)
      BY <3>1, OwnType, ElementOfSeq DEF Ops
    <3>3. Len(order) \in Nat /\ notices \in Seq(CallsOf(s))
      BY <3>1, <3>2, IsASeq, LenProperties
    <3>4. Len(notices) = Len(order)
      BY <3>3, LenProperties
    <3>5. QED
      BY <3>3, <3>4 DEF OpsIn, Own, Call
  <2>4. todo'[s] = notices \o tl /\ status'[s] = "closing"
    BY <1>7, <2>2 DEF Then, ReadSubscribedRooms, TypeOK, TodoOK
  <2> HIDE DEF tl, notices
  <2>5. WindingDown(tl) /\ Len(tl) > 1
    BY <1>4, <2>1
  <2>6. WindingDown(notices \o tl) /\ Len(notices \o tl) > 1
    BY <1>4, <2>3, <2>5, NoticesWind
  <2>7. notices \o tl \in Seq(CallsOf(s))
    BY <1>4, <2>3, ConcatProperties
  <2> DEFINE r == notices \o tl
  <2>8. WindingDown(r) /\ Len(r) \in Nat /\ Len(r) > 1 /\ todo'[s] = r
    BY <2>4, <2>6, <2>7, LenProperties
  <2> HIDE DEF r
  <2>9. Len(todo'[s]) # 1
    <3>1. \A n \in Nat : n > 1 => n # 1
      OBVIOUS
    <3>2. QED
      BY <2>8, <3>1
  <2>10. QED
    BY <2>4, <2>8, <2>9 DEF Stage
<1>8. CASE LeaveAllRooms(s)
  <2>1. NextCall(s).op = "leave_all" /\ NextCall(s).user = Owner[s] /\ Owner[s] \in Users
    BY <1>1, <1>8, NextCallType, ServerAssumption DEF LeaveAllRooms, About
  <2>2. Len(todo[s]) = 2
    BY <1>1, <1>2, <2>1, WindingFacts
  <2>3. todo'[s] = tl /\ status'[s] = "closing"
    BY <1>5, <1>8 DEF LeaveAllRooms
  <2>4. OutOfChannels(s)'
    <3>0. <<Owner[s], s>> \in Entries
      BY <2>1 DEF Entries
    <3>1. rooms' = leave_all_rooms(rooms, Owner[s])
      BY <1>8, <2>1 DEF LeaveAllRooms, RoomsBecome
    <3>2. rooms \in [Rooms -> [Entries -> Nat]] /\ Channels \subseteq Rooms
      BY DEF TypeOK, Rooms
    <3>3. QED
      BY <3>1, <3>2, <3>0 DEF OutOfChannels, Live, Subscribed, leave_all_rooms, retain_others
  <2>5. WindingDown(tl)
    BY <1>4, <2>2
  <2>6. QED
    BY <2>3, <2>4, <2>5 DEF Stage
<1>9. CASE UnregisterSender(s)
  <2>1. NextCall(s).op = "unregister" /\ NextCall(s).user = Owner[s] /\ Owner[s] \in Users
    BY <1>1, <1>9, NextCallType, ServerAssumption DEF UnregisterSender, About
  <2>2. Len(todo[s]) = 1
    BY <1>1, <1>2, <2>1, WindingFacts
  <2>3. todo'[s] = <<>>
    BY <1>4, <1>5, <1>9, <2>2 DEF UnregisterSender
  <2>4. status'[s] = "closed"
    BY <1>9 DEF UnregisterSender, TypeOK
  <2>5. user_senders'[Owner[s]] = NoSession /\ NoSession # s
    BY <1>9, <2>1, ServerAssumption DEF UnregisterSender, TypeOK, SendersOK
  <2>6. OutOfChannels(s)
    BY <2>2 DEF Stage
  <2>7. QED
    BY <2>3, <2>4, <2>5, <2>6 DEF Stage
<1>10. QED
  BY <1>3, <1>6, <1>7, <1>8, <1>9

(* A task takes a line only when nothing is pending, and a connection that *)
(* ends turns to its cleanup.                                              *)
LEMMA ClientStage ==
  ASSUME TypeOK, TypeOK', NEW s \in Sessions, Stage(s), ClientStep(s)
  PROVE  Stage(s)'
<1> DEFINE serve == Ops \ Cleanup
<1> USE DEF registry, database, bounds
<1>1. CASE Disconnect(s)
  <2>1. /\ status'[s] = "closing"
        /\ todo'[s] = <<Own(s, "goodbye", General), Own(s, "leave_all", General),
                        Own(s, "unregister", General)>>
    BY <1>1 DEF Disconnect, Begin, TypeOK, TodoOK
  <2>2. WindingDown(todo'[s]) /\ Len(todo'[s]) = 3
    BY <2>1 DEF WindingDown, Own, Call
  <2>3. QED
    BY <2>1, <2>2 DEF Stage
<1>2. CASE ~Disconnect(s)
  <2>1. status'[s] = "on"
    BY <1>2 DEF ClientStep, Connect, Leave, Text, Media, Join, Switch, Signal, Msg,
                ReadLine, Idle, TypeOK
  <2>2. todo \in [Sessions -> Seq(Calls)]
    BY DEF TypeOK, TodoOK
  <2>3. OpsIn(todo'[s], serve)
    <3>1. CASE Connect(s)
      BY <2>2, <3>1 DEF Connect, Begin, OpsIn, Own, Call, Ops, Cleanup
    <3>2. CASE Leave(s)
      BY <2>2, <3>2 DEF Leave, Begin, OpsIn, Own, Call, Ops, Cleanup
    <3>3. CASE Text(s) \/ Media(s)
      BY <2>2, <3>3 DEF Text, Media, Begin, OpsIn, Own, Call, Ops, Cleanup
    <3>4. ASSUME NEW r \in Visible(Owner[s]), Join(s, r)
          PROVE  OpsIn(todo'[s], serve)
      BY <2>2, <3>4 DEF Join, Begin, OpsIn, Own, Call, Ops, Cleanup
    <3>5. ASSUME NEW r \in Visible(Owner[s]), Switch(s, r)
          PROVE  OpsIn(todo'[s], serve)
      BY <2>2, <3>5 DEF Switch, ReadLine, Idle, OpsIn
    <3>6. ASSUME NEW r \in Visible(Owner[s]), Signal(s, r)
          PROVE  OpsIn(todo'[s], serve)
      BY <2>2, <3>6 DEF Signal, Begin, OpsIn, Own, Call, Ops, Cleanup
    <3>7. ASSUME NEW v \in Users, Msg(s, v)
          PROVE  OpsIn(todo'[s], serve)
      BY <2>2, <3>7 DEF Msg, Begin, OpsIn, Own, Call, Ops, Cleanup
    <3>8. QED
      BY <1>2, <3>1, <3>2, <3>3, <3>4, <3>5, <3>6, <3>7 DEF ClientStep
  <2>4. QED
    BY <2>1, <2>3, ServingStage
<1>3. QED
  BY <1>1, <1>2

(* A statement fails only while a task serves: none runs in the cleanup.   *)
LEMMA FailureStage ==
  ASSUME TypeOK, NEW s \in Sessions, Stage(s), StatementFails(s)
  PROVE  Stage(s)'
<1> USE DEF registry, database, bounds
<1>1. CASE Panic(s)
  BY <1>1 DEF Panic, Stage, TypeOK, TodoOK
<1>2. CASE ~Panic(s)
  <2>1. /\ todo[s] # <<>> /\ todo[s] \in Seq(CallsOf(s)) /\ Alive(s) /\ status' = status
        /\ NextCall(s).op \notin Cleanup \cup {"broadcast"}
    BY <1>2 DEF StatementFails, About, Cleanup, TypeOK, TodoOK
  <2>2. status[s] = "on" /\ status'[s] = "on"
    <3>1. ASSUME status[s] = "closing"
          PROVE  FALSE
      <4>1. WindingDown(todo[s])
        BY <3>1 DEF Stage
      <4>2. NextCall(s) = todo[s][1]
        BY <2>1 DEF NextCall
      <4>3. QED
        BY <2>1, <4>1, <4>2, WindingFacts
    <3>2. QED
      BY <2>1, <3>1 DEF Alive
  <2>3. CASE Return(s)
    <3>1. <<>> \in Seq(CallsOf(s)) /\ OpsIn(<<>>, Ops \ Cleanup)
      BY DEF OpsIn
    <3>2. QED
      BY <2>1, <2>2, <2>3, <3>1, ThenServes DEF Return
  <2>4. CASE MembershipsAre(s, <<>>)
    <3>1. <<>> \in Seq(Rooms)
      OBVIOUS
    <3>2. QED
      BY <2>1, <2>2, <2>4, <3>1, MembershipsServe
  <2>5. CASE ResumeIn(s, General)
    BY <2>1, <2>2, <2>5, RoomFacts, ResumeServes
  <2>6. CASE FallBackTo(s, General)
    BY <2>1, <2>2, <2>6, RoomFacts, FallbackServes
  <2>7. QED
    BY <1>2, <2>3, <2>4, <2>5, <2>6 DEF StatementFails
<1>3. QED
  BY <1>1, <1>2

LEMMA RoomIdFailsStage ==
  ASSUME TypeOK, NEW s \in Sessions, Stage(s), RoomIdFails(s)
  PROVE  Stage(s)'
<1>1. /\ todo[s] # <<>> /\ todo[s] \in Seq(CallsOf(s)) /\ Alive(s) /\ status' = status
      /\ NextCall(s).op \notin Cleanup \cup {"broadcast"} /\ Return(s)
  BY RoomIdFailsFacts DEF Cleanup, TypeOK, TodoOK
<1>2. status[s] = "on" /\ status'[s] = "on"
  <2>1. ASSUME status[s] = "closing"
        PROVE  FALSE
    <3>1. WindingDown(todo[s])
      BY <2>1 DEF Stage
    <3>2. NextCall(s) = todo[s][1]
      BY <1>1 DEF NextCall
    <3>3. QED
      BY <1>1, <3>1, <3>2, WindingFacts
  <2>2. QED
    BY <1>1, <2>1 DEF Alive
<1>3. <<>> \in Seq(CallsOf(s)) /\ OpsIn(<<>>, Ops \ Cleanup)
  BY DEF OpsIn
<1>4. QED
  BY <1>1, <1>2, <1>3, ThenServes DEF Return

(* A closed connection's name may be registered again, by another task.    *)
LEMMA StageStep ==
  ASSUME TypeOK, TypeOK', StageInv, [Next]_vars
  PROVE  StageInv'
<1> SUFFICES ASSUME NEW s \in Sessions
             PROVE  Stage(s)'
  BY DEF StageInv
<1>1. Stage(s)
  BY DEF StageInv
<1>2. status[s] \in {"closing", "closed"} /\ OutOfChannels(s) => OutOfChannels(s)'
  BY StaysOutOfChannels
<1>3. ASSUME NEW t \in Sessions, HandlerStep(t) \/ ClientStep(t) \/ StatementFails(t) \/ RoomIdFails(t)
      PROVE  Stage(s)'
  <2>1. CASE t # s
    <3>1. /\ status'[s] = status[s] /\ todo'[s] = todo[s]
          /\ user_senders'[Owner[s]] = s => user_senders[Owner[s]] = s
      BY <1>3, <2>1, OthersStep, ServerAssumption
    <3>2. QED
      BY <1>1, <1>2, <3>1 DEF Stage
  <2>2. CASE t = s /\ HandlerStep(s)
    <3>1. status[s] \in {"on", "closing"}
      BY <2>2 DEF HandlerStep, About, Alive, RegisterSender, ReadMemberships, ReadLastRoom,
           SubscribeRoom, SetActiveRoom, SaveMembership, ReplayHistory, SendToRoom,
           InsertMessage, GetSender, RemoveMembership, UnsubscribeRoom,
           ReadFallback, ReadSubscribedRooms, LeaveAllRooms, UnregisterSender
    <3>2. QED
      BY <1>1, <1>2, <2>2, <3>1, ServingStep, WindingStep
  <2>3. CASE t = s /\ ClientStep(s)
    BY <1>1, <2>3, ClientStage
  <2>4. CASE t = s /\ StatementFails(s)
    BY <1>1, <2>4, FailureStage
  <2>5. CASE t = s /\ RoomIdFails(s)
    BY <1>1, <2>5, RoomIdFailsStage
  <2>6. QED
    BY <1>3, <2>1, <2>2, <2>3, <2>4, <2>5
<1>4. CASE ServerRestart
  <2>1. todo'[s] = <<>> /\ status'[s] \in {"off", "closed", "dead"}
    BY <1>4 DEF ServerRestart, Alive, TypeOK
  <2>2. status'[s] = "closed" => OutOfChannels(s)' /\ user_senders'[Owner[s]] # s
    <3>1. <<Owner[s], s>> \in Entries
      BY ServerAssumption DEF Entries
    <3>2. QED
      BY <1>4, <3>1, ServerAssumption
         DEF ServerRestart, OutOfChannels, Live, Subscribed, Nobody, Rooms
  <2>3. QED
    BY <2>1, <2>2 DEF Stage
<1>5. CASE UNCHANGED vars
  BY <1>1, <1>5 DEF Stage, OutOfChannels, Live, vars, registry, database
<1>6. QED
  BY <1>3, <1>4, <1>5 DEF Next

(* When cleanup_disconnect has run, the connection is registered nowhere   *)
(* but perhaps in a DM, and never will be again, whatever other tasks do   *)
(* in the meantime: leave_all and unregister are the last things it does   *)
(* and nobody else puts its tx into a channel.                             *)
THEOREM NoTrace == Spec => []NoTraceAfterDisconnect
<1>1. Init => StageInv
  BY DEF Init, StageInv, Stage
<1>2. StageInv => NoTraceAfterDisconnect
  BY DEF StageInv, Stage, OutOfChannels, NoTraceAfterDisconnect
<1>3. TypeOK /\ StageInv /\ [Next]_vars => TypeOK' /\ StageInv'
  BY NextType, StageStep
<1>4. QED
  BY <1>1, <1>2, <1>3, InitType, PTL DEF Spec


-----------------------------------------------------------------------------
(* A subscription ends by its owner's doing.                               *)

(* Of the calls only send_to_room, unsubscribe_room, leave_all_rooms and   *)
(* the retain of subscribe_room take an entry out of a room.               *)
LEMMA EntryLost ==
  ASSUME TypeOK, [Next]_vars, NEW r \in Rooms, NEW e \in Entries, LosesEntry(r, e)
  PROVE  \/ restarts' # restarts
         \/ \E d \in Entries : d[1] = e[1] /\ Subscribed(rooms', r, d)
         \/ \E s \in Sessions :
              /\ Owner[s] = e[1]
              /\ About(s, "leave_all")
                 \/ (About(s, "unsubscribe") /\ NextCall(s).room = r)
<1> DEFINE kept == \/ restarts' # restarts
                   \/ \E d \in Entries : d[1] = e[1] /\ Subscribed(rooms', r, d)
                   \/ \E s \in Sessions :
                        /\ Owner[s] = e[1]
                        /\ About(s, "leave_all")
                           \/ (About(s, "unsubscribe") /\ NextCall(s).room = r)
<1> USE DEF registry, database, bounds
<1>0. /\ rooms \in [Rooms -> [Entries -> Nat]] /\ rooms' # rooms
      /\ e[2] \in Open /\ rooms[r][e] > 0 /\ ~(rooms'[r][e] > 0)
  BY DEF LosesEntry, Subscribed, TypeOK
<1>1. ASSUME NEW s \in Sessions, HandlerStep(s)
      PROVE  kept
  <2> DEFINE c == NextCall(s)
  <2>1. ~SubscribeRoom(s) /\ ~SendToRoom(s) /\ ~UnsubscribeRoom(s) /\ ~LeaveAllRooms(s)
          => UNCHANGED rooms
    BY <1>1 DEF HandlerStep, RegisterSender, ReadMemberships, ReadLastRoom, SetActiveRoom,
         SaveMembership, ReplayHistory, InsertMessage, GetSender, RemoveMembership,
         ReadFallback, ReadSubscribedRooms, UnregisterSender
  <2>2. CASE SubscribeRoom(s)
    <3>1. /\ c.user \in Users /\ c.tx \in Sessions /\ c.room \in Rooms
          /\ <<c.user, c.tx>> \in Entries
          /\ rooms' = subscribe_room(rooms, c.user, c.room, c.tx)
      BY <2>2, NextCallType DEF SubscribeRoom, RoomsBecome, About, Entries
    <3> DEFINE d == <<c.user, c.tx>>
    <3>2. r = c.room
      BY <1>0, <3>1 DEF subscribe_room
    <3>3. \A f \in Entries : rooms'[r][f] = IF f = d THEN retain_others(rooms[r], c.user)[f] + 1
                                            ELSE IF f[1] = c.user THEN 0 ELSE rooms[r][f]
      BY <1>0, <3>1, <3>2 DEF subscribe_room, push, retain_others
    <3>4. e[1] = c.user
      <4>1. e # d => rooms'[r][e] = IF e[1] = c.user THEN 0 ELSE rooms[r][e]
        BY <3>3
      <4>2. CASE e = d
        BY <4>2
      <4>3. QED
        BY <1>0, <4>1, <4>2
    <3>5. retain_others(rooms[r], c.user)[d] = 0
      BY <1>0, <3>1, <3>2 DEF retain_others
    <3>6. Subscribed(rooms', r, d) /\ d[1] = e[1]
      BY <3>1, <3>3, <3>4, <3>5 DEF Subscribed
    <3>7. QED
      BY <3>1, <3>6
  <2>3. CASE SendToRoom(s)
    BY <1>0, <2>3 DEF SendToRoom, RoomsBecome, send_to_room
  <2>4. CASE UnsubscribeRoom(s)
    <3>1. c.user = Owner[s] /\ rooms' = unsubscribe_room(rooms, c.user, c.room)
      BY <2>4, NextCallType DEF UnsubscribeRoom, RoomsBecome, About
    <3>2. r = c.room /\ e[1] = Owner[s]
      BY <1>0, <3>1 DEF unsubscribe_room, retain_others
    <3>3. QED
      BY <2>4, <3>2 DEF UnsubscribeRoom
  <2>5. CASE LeaveAllRooms(s)
    <3>1. c.user = Owner[s] /\ rooms' = leave_all_rooms(rooms, c.user)
      BY <2>5, NextCallType DEF LeaveAllRooms, RoomsBecome, About
    <3>2. e[1] = Owner[s]
      BY <1>0, <3>1 DEF leave_all_rooms, retain_others
    <3>3. QED
      BY <2>5, <3>2 DEF LeaveAllRooms
  <2>6. QED
    BY <1>0, <2>1, <2>2, <2>3, <2>4, <2>5
<1>2. ASSUME NEW s \in Sessions, ClientStep(s) \/ StatementFails(s) \/ RoomIdFails(s)
      PROVE  UNCHANGED rooms
  BY <1>2 DEF ClientStep, StatementFails, RoomIdFails, Connect, Leave, Text, Media, Disconnect, Join,
              Switch, Signal, Msg
<1>3. CASE ServerRestart
  BY <1>3 DEF ServerRestart, TypeOK
<1>4. CASE UNCHANGED vars
  BY <1>0, <1>4 DEF vars
<1>5. QED
  BY <1>0, <1>1, <1>2, <1>3, <1>4 DEF Next

(* A connection whose task is alive stays subscribed to a room until its   *)
(* own user leaves the room or disconnects, another connection of the user *)
(* takes its place, or the process restarts: no other user's command, and  *)
(* no send_to_room, takes it out.                                          *)
THEOREM SubscriptionsLast == Spec => SubscriptionsAreKept
<1>1. TypeOK /\ [Next]_vars =>
        [\A r \in Rooms : \A e \in Entries : LosesEntry(r, e) =>
           \/ restarts' # restarts
           \/ \E d \in Entries : d[1] = e[1] /\ Subscribed(rooms', r, d)
           \/ \E s \in Sessions :
                /\ Owner[s] = e[1]
                /\ About(s, "leave_all")
                   \/ (About(s, "unsubscribe") /\ NextCall(s).room = r)]_vars
  BY EntryLost
<1>2. QED
  BY <1>1, TypeCorrect, PTL DEF Spec, SubscriptionsAreKept

-----------------------------------------------------------------------------
(* AppState.rooms is a map.                                                *)
(*                                                                         *)
(* The entry a room has for a user is determined by OneEntryPerUser: the   *)
(* CHOOSE of EntryOf names it whenever there is one.                       *)

EntriesAreNamed ==
  \A r \in Rooms : \A u \in Users :
    /\ EntryOf(r, u) \in Sessions \cup {NoSession}
    /\ \A s \in Sessions : EntryOf(r, u) = s <=> Owner[s] = u /\ Live(s, r)

LEMMA EntryIs == TypeOK /\ OneEntryPerUser => EntriesAreNamed
<1> SUFFICES ASSUME TypeOK, OneEntryPerUser, NEW r \in Rooms, NEW u \in Users
             PROVE  /\ EntryOf(r, u) \in Sessions \cup {NoSession}
                    /\ \A s \in Sessions : EntryOf(r, u) = s <=> Owner[s] = u /\ Live(s, r)
  BY DEF EntriesAreNamed
<1> DEFINE mine(s) == Owner[s] = u /\ Live(s, r)
<1>1. NoSession \notin Sessions
  BY ServerAssumption
<1>2. CASE \E s \in Sessions : mine(s)
  <2> DEFINE t == CHOOSE s \in Sessions : mine(s)
  <2>1. t \in Sessions /\ mine(t)
    BY <1>2
  <2>2. EntryOf(r, u) = t
    BY <1>2 DEF EntryOf
  <2> HIDE DEF t
  <2>3. ASSUME NEW s \in Sessions, mine(s)
        PROVE  s = t
    <3>1. <<u, s>> \in Entries /\ <<u, t>> \in Entries
      BY <2>1, <2>3 DEF Entries
    <3>2. Subscribed(rooms, r, <<u, s>>) /\ Subscribed(rooms, r, <<u, t>>)
      BY <2>1, <2>3 DEF Live
    <3>3. <<u, s>> = <<u, t>>
      BY <3>1, <3>2 DEF OneEntryPerUser
    <3>4. QED
      BY <3>3
  <2>4. QED
    BY <2>1, <2>2, <2>3
<1>3. CASE ~ \E s \in Sessions : mine(s)
  BY <1>1, <1>3 DEF EntryOf
<1>4. QED
  BY <1>2, <1>3

(* Two names of entries are equal when they name the same connections.     *)
LEMMA SameEntry ==
  ASSUME NEW x \in Sessions \cup {NoSession}, NEW y \in Sessions \cup {NoSession},
         \A s \in Sessions : x = s <=> y = s
  PROVE  x = y
OBVIOUS

EntriesOf == [r \in Rooms |-> [u \in Users |-> EntryOf(r, u)]]
HeardBy   == [s \in Sessions |-> [m \in MessageIds |-> TimesHeard(s, m)]]

(* What a step does to the map, room by room and user by user.             *)
LEMMA EntryStays ==
  ASSUME EntriesAreNamed, EntriesAreNamed',
         NEW r \in Rooms, NEW u \in Users,
         \A s \in Sessions : Owner[s] = u => (Live(s, r)' <=> Live(s, r))
  PROVE  EntryOf(r, u)' = EntryOf(r, u)
<1>1. /\ EntryOf(r, u) \in Sessions \cup {NoSession}
      /\ \A s \in Sessions : EntryOf(r, u) = s <=> Owner[s] = u /\ Live(s, r)
  BY DEF EntriesAreNamed
<1>2. /\ EntryOf(r, u)' \in Sessions \cup {NoSession}
      /\ \A s \in Sessions : EntryOf(r, u)' = s <=> Owner[s] = u /\ Live(s, r)'
  BY DEF EntriesAreNamed
<1>3. \A s \in Sessions : EntryOf(r, u)' = s <=> EntryOf(r, u) = s
  BY <1>1, <1>2
<1>4. QED
  BY <1>1, <1>2, <1>3, SameEntry

LEMMA EntryGoes ==
  ASSUME EntriesAreNamed', NEW r \in Rooms, NEW u \in Users,
         \A s \in Sessions : Owner[s] = u => ~Live(s, r)'
  PROVE  EntryOf(r, u)' = NoSession
<1>1. /\ EntryOf(r, u)' \in Sessions \cup {NoSession}
      /\ \A s \in Sessions : EntryOf(r, u)' = s <=> Owner[s] = u /\ Live(s, r)'
  BY DEF EntriesAreNamed
<1>2. QED
  BY <1>1

LEMMA EntryBecomes ==
  ASSUME EntriesAreNamed', NEW r \in Rooms, NEW t \in Sessions, Owner[t] \in Users,
         Live(t, r)'
  PROVE  EntryOf(r, Owner[t])' = t
BY DEF EntriesAreNamed

(* The rooms unchanged, the map is: and a connection that hears nothing    *)
(* live has heard what it had.                                             *)
Places(q, x) == {i \in 1..Len(q) : q[i] = x}

LEMMA PlacesOfConcat ==
  ASSUME NEW S, NEW q \in Seq(S), NEW p \in Seq(S), NEW x
  PROVE  /\ IsFiniteSet(Places(q, x)) /\ Cardinality(Places(q, x)) \in Nat
         /\ (\A i \in 1..Len(p) : p[i] # x) => Places(q \o p, x) = Places(q, x)
         /\ Len(p) = 1 /\ p[1] = x =>
              Cardinality(Places(q \o p, x)) = Cardinality(Places(q, x)) + 1
<1> DEFINE r == q \o p
<1>1. Len(q) \in Nat /\ Len(p) \in Nat
  BY LenProperties
<1>2. /\ Len(r) = Len(q) + Len(p)
      /\ \A i \in 1..(Len(q) + Len(p)) :
           r[i] = IF i <= Len(q) THEN q[i] ELSE p[i - Len(q)]
  BY ConcatProperties
<1> HIDE DEF r
<1>3. IsFiniteSet(Places(q, x)) /\ Cardinality(Places(q, x)) \in Nat
  <2>1. IsFiniteSet(1..Len(q))
    BY <1>1, FS_Interval
  <2>2. Places(q, x) \subseteq 1..Len(q)
    BY DEF Places
  <2>3. QED
    BY <2>1, <2>2, FS_Subset, FS_CardinalityType
<1>4. ASSUME \A i \in 1..Len(p) : p[i] # x
      PROVE  Places(r, x) = Places(q, x)
  <2>1. ASSUME NEW i \in Places(r, x)
        PROVE  i \in Places(q, x)
    <3>1. i \in 1..(Len(q) + Len(p)) /\ r[i] = x
      BY <1>2, <2>1 DEF Places
    <3>2. i <= Len(q)
      <4>1. ASSUME ~(i <= Len(q))
            PROVE  FALSE
        <5>1. i - Len(q) \in 1..Len(p) /\ r[i] = p[i - Len(q)]
          BY <1>1, <1>2, <3>1, <4>1
        <5>2. QED
          BY <1>4, <3>1, <5>1
      <4>2. QED
        BY <4>1
    <3>3. i \in 1..Len(q) /\ r[i] = q[i]
      BY <1>1, <1>2, <3>1, <3>2
    <3>4. QED
      BY <3>1, <3>3 DEF Places
  <2>2. ASSUME NEW i \in Places(q, x)
        PROVE  i \in Places(r, x)
    <3>1. i \in 1..Len(q) /\ q[i] = x
      BY <2>2 DEF Places
    <3>2. i \in 1..(Len(q) + Len(p)) /\ i <= Len(q)
      BY <1>1, <3>1
    <3>3. QED
      BY <1>2, <3>1, <3>2 DEF Places
  <2>3. QED
    BY <2>1, <2>2
<1>5. ASSUME Len(p) = 1, p[1] = x
      PROVE  Cardinality(Places(r, x)) = Cardinality(Places(q, x)) + 1
  <2> DEFINE n == Len(q) + 1
  <2>1. \A i \in 1..n : r[i] = IF i <= Len(q) THEN q[i] ELSE p[i - Len(q)]
    BY <1>2, <1>5
  <2>2. r[n] = x /\ Len(r) = n
    BY <1>1, <1>2, <1>5, <2>1
  <2>3. \A i \in 1..Len(q) : i \in 1..n /\ i # n /\ r[i] = q[i]
    BY <1>1, <2>1
  <2>4. 1..n = (1..Len(q)) \cup {n}
    BY <1>1
  <2> HIDE DEF n
  <2>5. Places(r, x) = Places(q, x) \cup {n}
    BY <2>2, <2>3, <2>4 DEF Places
  <2>6. n \notin Places(q, x)
    BY <2>3 DEF Places
  <2>7. QED
    BY <1>3, <2>5, <2>6, FS_AddElement
<1>6. QED
  BY <1>3, <1>4, <1>5 DEF r

LiveItem(m) == [msg |-> m, is_history |-> FALSE]

LEMMA TimesHeardIs ==
  ASSUME NEW s, NEW m
  PROVE  TimesHeard(s, m) = Cardinality(Places(inbox[s], LiveItem(m)))
BY DEF TimesHeard, Places, LiveItem

LEMMA QuietStep ==
  ASSUME EntriesAreNamed, EntriesAreNamed', UNCHANGED <<rooms, inbox>>
  PROVE  EntriesOf' = EntriesOf /\ HeardBy' = HeardBy
<1>1. \A r \in Rooms : \A u \in Users : EntryOf(r, u)' = EntryOf(r, u)
  <2>1. \A r \in Rooms : \A s \in Sessions : Live(s, r)' <=> Live(s, r)
    BY DEF Live
  <2>2. QED
    BY <2>1, EntryStays
<1>2. \A s \in Sessions : \A m \in MessageIds : TimesHeard(s, m)' = TimesHeard(s, m)
  BY DEF TimesHeard
<1>3. QED
  BY <1>1, <1>2 DEF EntriesOf, HeardBy

-----------------------------------------------------------------------------
(* The steps of the map, in terms of what they do to it.                   *)

LEMMA MapStutters ==
  ASSUME EntriesOf' = EntriesOf, Open' = Open, HeardBy' = HeardBy
  PROVE  UNCHANGED Map!vars
BY DEF Map!vars, EntriesOf, HeardBy

LEMMA MapOpens ==
  ASSUME NEW s \in Sessions, s \notin Open, Open' = Open \cup {s},
         EntriesOf' = EntriesOf, HeardBy' = HeardBy
  PROVE  Map!Next
BY DEF Map!Next, Map!Opens, EntriesOf, HeardBy

LEMMA MapCloses ==
  ASSUME NEW s \in Sessions, s \in Open, Open' = Open \ {s},
         EntriesOf' = EntriesOf, HeardBy' = HeardBy
  PROVE  Map!Next
BY DEF Map!Next, Map!Closes, EntriesOf, HeardBy

LEMMA MapEnter ==
  ASSUME NEW r \in Rooms, NEW u \in Users, NEW s \in Sessions,
         EntriesOf' = [EntriesOf EXCEPT ![r] = [@ EXCEPT ![u] = s]],
         Open' = Open, HeardBy' = HeardBy
  PROVE  Map!Next
<1>1. EntriesOf'[r][u] = s
  BY DEF EntriesOf
<1>2. Map!Enter(r, u, s)
  BY <1>1 DEF Map!Enter, EntriesOf, HeardBy
<1>3. QED
  BY <1>2 DEF Map!Next

LEMMA MapDrop ==
  ASSUME NEW r \in Rooms, NEW u \in Users,
         EntriesOf' = [EntriesOf EXCEPT ![r] = [@ EXCEPT ![u] = NoSession]],
         Open' = Open, HeardBy' = HeardBy
  PROVE  [Map!Next]_(Map!vars)
<1>1. CASE EntriesOf'[r][u] # EntriesOf[r][u]
  <2>1. Map!Drop(r, u)
    BY <1>1 DEF Map!Drop, EntriesOf, HeardBy
  <2>2. QED
    BY <2>1 DEF Map!Next
<1>2. CASE EntriesOf'[r][u] = EntriesOf[r][u]
  <2>1. EntriesOf[r][u] = NoSession
    BY <1>2 DEF EntriesOf
  <2>2. EntriesOf' = EntriesOf
    BY <2>1 DEF EntriesOf
  <2>3. QED
    BY <2>2, MapStutters
<1>3. QED
  BY <1>1, <1>2

LEMMA MapDropEverywhere ==
  ASSUME NEW u \in Users,
         EntriesOf' = [r \in Rooms |-> [EntriesOf[r] EXCEPT ![u] = NoSession]],
         Open' = Open, HeardBy' = HeardBy
  PROVE  [Map!Next]_(Map!vars)
<1>1. CASE \E r \in Rooms : EntriesOf'[r][u] # EntriesOf[r][u]
  <2>1. Map!DropEverywhere(u)
    BY <1>1 DEF Map!DropEverywhere, EntriesOf, HeardBy
  <2>2. QED
    BY <2>1 DEF Map!Next
<1>2. CASE \A r \in Rooms : EntriesOf'[r][u] = EntriesOf[r][u]
  <2>0. EntriesOf \in [Rooms -> [Users -> {EntriesOf[r][v] : r \in Rooms, v \in Users}]]
    BY DEF EntriesOf
  <2>1. \A r \in Rooms : EntriesOf[r][u] = NoSession
    BY <1>2, <2>0
  <2>2. EntriesOf' = EntriesOf
    BY <2>0, <2>1
  <2>3. QED
    BY <2>2, MapStutters
<1>3. QED
  BY <1>1, <1>2

Reached(r) == {EntriesOf[r][u] : u \in Users} \cap Open

LEMMA MapSend ==
  ASSUME NEW r \in Rooms, NEW m \in MessageIds \cup {Notice},
         EntriesOf' = [EntriesOf EXCEPT ![r] =
                         [u \in Users |-> IF @[u] \in Open THEN @[u] ELSE NoSession]],
         HeardBy' = [s \in Sessions |-> IF m # Notice /\ s \in Reached(r)
                                         THEN [HeardBy[s] EXCEPT ![m] = @ + 1] ELSE HeardBy[s]],
         m # Notice => HeardBy' # HeardBy,
         Open' = Open
  PROVE  Map!Next
<1>1. Reached(r) = Map!Reached(r)
  BY DEF Reached, Map!Reached, EntriesOf
<1>2. Map!Send(r, m)
  BY <1>1 DEF Map!Send, EntriesOf, HeardBy
<1>3. QED
  BY <1>2 DEF Map!Next

LEMMA MapRestart ==
  ASSUME EntriesOf' = [r \in Rooms |-> [u \in Users |-> NoSession]], Open' = {},
         HeardBy' = HeardBy
  PROVE  Map!Next
BY DEF Map!Next, Map!Restart, EntriesOf, HeardBy

-----------------------------------------------------------------------------
(* The calls on the registry.                                              *)

NamedBefore == TypeOK /\ OneEntryPerUser /\ EntriesAreNamed

LEMMA SubscribeMaps ==
  ASSUME NamedBefore, NamedBefore', NEW s \in Sessions, SubscribeRoom(s)
  PROVE  Map!Next
<1>0. PICK u \in Users, t \in Sessions, r \in Rooms :
        /\ Owner[t] = u /\ rooms' = subscribe_room(rooms, u, r, t)
        /\ UNCHANGED <<status, inbox>>
  BY NextCallType DEF NamedBefore, SubscribeRoom, RoomsBecome, About
<1> DEFINE d == <<u, t>>
<1>1. d \in Entries
  BY <1>0 DEF Entries
<1>2. rooms' = subscribe_room(rooms, u, r, t) /\ UNCHANGED <<status, inbox>>
  BY <1>0
<1>3. rooms \in [Rooms -> [Entries -> Nat]]
  BY DEF NamedBefore, TypeOK
<1>4. ASSUME NEW q \in Rooms, NEW x \in Sessions, q # r \/ Owner[x] # u
      PROVE  Live(x, q)' <=> Live(x, q)
  <2>1. <<Owner[x], x>> \in Entries /\ <<Owner[x], x>>[1] = Owner[x]
    BY ServerAssumption DEF Entries
  <2>2. rooms'[q][<<Owner[x], x>>] = rooms[q][<<Owner[x], x>>]
    BY <1>1, <1>2, <1>3, <1>4, <2>1 DEF subscribe_room, push, retain_others
  <2>3. QED
    BY <2>2 DEF Live, Subscribed
<1>5. Live(t, r)'
  <2>1. retain_others(rooms[r], u)[d] = 0
    BY <1>1, <1>3 DEF retain_others
  <2>2. rooms'[r] = push(retain_others(rooms[r], u), d)
    BY <1>1, <1>2, <1>3 DEF subscribe_room
  <2>3. DOMAIN retain_others(rooms[r], u) = Entries
    BY <1>1, <1>3 DEF retain_others
  <2>4. rooms'[r][d] = 1
    BY <1>1, <2>1, <2>2, <2>3 DEF push
  <2>5. QED
    BY <1>0, <2>4 DEF Live, Subscribed
<1>6. EntryOf(r, u)' = t
  BY <1>0, <1>5, EntryBecomes DEF NamedBefore
<1>7. \A q \in Rooms : \A v \in Users :
        q # r \/ v # u => EntryOf(q, v)' = EntryOf(q, v)
  BY <1>4, EntryStays DEF NamedBefore
<1>8. EntriesOf' = [EntriesOf EXCEPT ![r] = [@ EXCEPT ![u] = t]]
  BY <1>1, <1>6, <1>7 DEF EntriesOf
<1>9. HeardBy' = HeardBy /\ Open' = Open
  BY <1>2 DEF HeardBy, TimesHeard, Open, Alive
<1>10. QED
  BY <1>1, <1>8, <1>9, MapEnter

LEMMA UnsubscribeMaps ==
  ASSUME NamedBefore, NamedBefore', NEW s \in Sessions, UnsubscribeRoom(s)
  PROVE  [Map!Next]_(Map!vars)
<1>1. PICK u \in Users, r \in Rooms :
        rooms' = unsubscribe_room(rooms, u, r) /\ UNCHANGED <<status, inbox>>
  BY NextCallType DEF NamedBefore, UnsubscribeRoom, RoomsBecome, About
<1>2. rooms' = unsubscribe_room(rooms, u, r) /\ UNCHANGED <<status, inbox>>
  BY <1>1
<1>3. rooms \in [Rooms -> [Entries -> Nat]]
  BY DEF NamedBefore, TypeOK
<1>4. ASSUME NEW q \in Rooms, NEW x \in Sessions
      PROVE  Live(x, q)' <=> Live(x, q) /\ ~(q = r /\ Owner[x] = u)
  <2>1. <<Owner[x], x>> \in Entries /\ <<Owner[x], x>>[1] = Owner[x]
    BY ServerAssumption DEF Entries
  <2>2. rooms'[q][<<Owner[x], x>>] =
          IF q = r /\ Owner[x] = u THEN 0 ELSE rooms[q][<<Owner[x], x>>]
    BY <1>1, <1>2, <1>3, <2>1 DEF unsubscribe_room, retain_others
  <2>3. ~(0 > 0)
    OBVIOUS
  <2>4. QED
    BY <2>2, <2>3 DEF Live, Subscribed
<1>5. EntryOf(r, u)' = NoSession
  BY <1>1, <1>4, EntryGoes DEF NamedBefore
<1>6. \A q \in Rooms : \A v \in Users :
        q # r \/ v # u => EntryOf(q, v)' = EntryOf(q, v)
  BY <1>4, EntryStays DEF NamedBefore
<1>7. EntriesOf' = [EntriesOf EXCEPT ![r] = [@ EXCEPT ![u] = NoSession]]
  BY <1>1, <1>5, <1>6 DEF EntriesOf
<1>8. HeardBy' = HeardBy /\ Open' = Open
  BY <1>2 DEF HeardBy, TimesHeard, Open, Alive
<1>9. QED
  BY <1>1, <1>7, <1>8, MapDrop

LEMMA LeaveAllMaps ==
  ASSUME NamedBefore, NamedBefore', NEW s \in Sessions, LeaveAllRooms(s)
  PROVE  [Map!Next]_(Map!vars)
<1>1. PICK u \in Users : rooms' = leave_all_rooms(rooms, u) /\ UNCHANGED <<status, inbox>>
  BY NextCallType DEF NamedBefore, LeaveAllRooms, RoomsBecome, About
<1>2. rooms' = leave_all_rooms(rooms, u) /\ UNCHANGED <<status, inbox>>
  BY <1>1
<1>3. rooms \in [Rooms -> [Entries -> Nat]]
  BY DEF NamedBefore, TypeOK
<1>4. ASSUME NEW r \in Rooms, NEW t \in Sessions
      PROVE  Live(t, r)' <=> Live(t, r) /\ Owner[t] # u
  <2>1. <<Owner[t], t>> \in Entries /\ <<Owner[t], t>>[1] = Owner[t]
    BY ServerAssumption DEF Entries
  <2>2. rooms'[r][<<Owner[t], t>>] = IF Owner[t] = u THEN 0 ELSE rooms[r][<<Owner[t], t>>]
    BY <1>1, <1>2, <1>3, <2>1 DEF leave_all_rooms, retain_others
  <2>3. ~(0 > 0)
    OBVIOUS
  <2>4. QED
    BY <2>2, <2>3 DEF Live, Subscribed
<1>5. \A r \in Rooms : EntryOf(r, u)' = NoSession
  BY <1>1, <1>4, EntryGoes DEF NamedBefore
<1>6. \A r \in Rooms : \A v \in Users : v # u => EntryOf(r, v)' = EntryOf(r, v)
  BY <1>4, EntryStays DEF NamedBefore
<1>7. EntriesOf' = [r \in Rooms |-> [EntriesOf[r] EXCEPT ![u] = NoSession]]
  BY <1>1, <1>5, <1>6 DEF EntriesOf
<1>8. HeardBy' = HeardBy /\ Open' = Open
  BY <1>2 DEF HeardBy, TimesHeard, Open, Alive
<1>9. QED
  BY <1>1, <1>7, <1>8, MapDropEverywhere

(* What send_to_room puts into a channel: a live copy of the message, once,*)
(* if the connection's entry is in the room and its receiver exists.       *)
LEMMA CopiesAre ==
  ASSUME TypeOK, OneEntryPerUser, NEW r \in Rooms, NEW t \in Sessions
  PROVE  Copies(r, t) = IF t \in Open /\ Live(t, r) THEN 1 ELSE 0
<1>1. <<Owner[t], t>> \in Entries
  BY ServerAssumption DEF Entries
<1>2. rooms[r][<<Owner[t], t>>] \in Nat /\ rooms[r][<<Owner[t], t>>] <= 1
  BY <1>1 DEF TypeOK, OneEntryPerUser
<1>3. \A n \in Nat : n <= 1 => n = IF n > 0 THEN 1 ELSE 0
  OBVIOUS
<1>4. QED
  BY <1>2, <1>3 DEF Copies, Live, Subscribed

LEMMA SendToInbox ==
  ASSUME TypeOK, OneEntryPerUser, NEW s \in Sessions, SendToRoom(s), NEW t \in Sessions
  PROVE  LET c == NextCall(s) IN
         /\ c.room \in Rooms /\ c.msg \in MessageIds \cup {Notice}
         /\ inbox'[t] = IF c.msg # Notice /\ t \in Open /\ Live(t, c.room)
                        THEN Append(inbox[t], LiveItem(c.msg)) ELSE inbox[t]
<1> DEFINE c == NextCall(s)
           x == LiveItem(c.msg)
<1>1. c.room \in Rooms /\ c.msg \in MessageIds \cup {Notice}
  BY NextCallType DEF SendToRoom, About
<1>2. inbox'[t] = IF c.msg = Notice THEN inbox[t]
                  ELSE inbox[t] \o [i \in 1..Copies(c.room, t) |-> x]
  BY DEF SendToRoom, Delivered, LiveItem
<1>3. c.msg # Notice => x \in Items
  BY <1>1 DEF LiveItem, Items
<1>4. inbox[t] \in Seq(Items)
  BY DEF TypeOK
<1>5. Copies(c.room, t) = IF t \in Open /\ Live(t, c.room) THEN 1 ELSE 0
  BY <1>1, CopiesAre
<1> HIDE DEF c, x
<1>6. c.msg # Notice => inbox[t] \o [i \in 1..0 |-> x] = inbox[t]
  <2>1. [i \in 1..0 |-> x] = <<>>
    OBVIOUS
  <2>2. QED
    BY <1>4, <2>1
<1>7. c.msg # Notice => inbox[t] \o [i \in 1..1 |-> x] = Append(inbox[t], x)
  <2>1. [i \in 1..1 |-> x] = <<x>>
    OBVIOUS
  <2>2. QED
    BY <1>3, <1>4, <2>1
<1>8. inbox'[t] = IF c.msg # Notice /\ t \in Open /\ Live(t, c.room)
                  THEN Append(inbox[t], x) ELSE inbox[t]
  BY <1>2, <1>5, <1>6, <1>7
<1>9. QED
  BY <1>1, <1>8 DEF c, x

(* A message on its way is counted once more where it is heard.            *)
LEMMA SendCounts ==
  ASSUME TypeOK, OneEntryPerUser, NEW s \in Sessions, SendToRoom(s), NEW t \in Sessions,
         NEW m \in MessageIds
  PROVE  LET c == NextCall(s) IN
         /\ TimesHeard(t, m) \in Nat
         /\ TimesHeard(t, m)' = IF c.msg = m /\ t \in Open /\ Live(t, c.room)
                                THEN TimesHeard(t, m) + 1 ELSE TimesHeard(t, m)
<1> DEFINE c == NextCall(s)
           q == inbox[t]
           p == <<LiveItem(c.msg)>>
           x == LiveItem(m)
<1>1. /\ c.msg \in MessageIds \cup {Notice}
      /\ inbox'[t] = IF c.msg # Notice /\ t \in Open /\ Live(t, c.room)
                     THEN Append(q, LiveItem(c.msg)) ELSE q
  BY SendToInbox
<1>2. q \in Seq(Items)
  BY DEF TypeOK
<1>3. m # Notice
  BY ServerAssumption DEF MessageIds, Notice
<1>4. /\ TimesHeard(t, m) = Cardinality(Places(q, x))
      /\ TimesHeard(t, m)' = Cardinality(Places(inbox'[t], x))
  BY DEF TimesHeard, Places, LiveItem
<1> HIDE DEF c, q
<1>5. ASSUME c.msg # Notice
      PROVE  /\ p \in Seq(Items) /\ Append(q, LiveItem(c.msg)) = q \o p
             /\ Len(p) = 1 /\ p[1] = LiveItem(c.msg)
  <2>1. LiveItem(c.msg) \in Items
    BY <1>1, <1>5 DEF LiveItem, Items
  <2>2. QED
    BY <1>2, <2>1
<1>6. LiveItem(c.msg) = x <=> c.msg = m
  BY DEF LiveItem
<1>7. Cardinality(Places(q, x)) \in Nat
  BY <1>2, EmptySeq, PlacesOfConcat
<1> HIDE DEF p, x
<1>8. CASE c.msg # Notice /\ t \in Open /\ Live(t, c.room)
  <2>1. inbox'[t] = q \o p
    BY <1>1, <1>5, <1>8
  <2>2. CASE c.msg = m
    BY <1>2, <1>4, <1>5, <1>6, <1>7, <1>8, <2>1, <2>2, PlacesOfConcat DEF c
  <2>3. CASE c.msg # m
    <3>1. \A i \in 1..Len(p) : p[i] # x
      BY <1>5, <1>6, <1>8, <2>3
    <3>2. Places(q \o p, x) = Places(q, x)
      BY <1>2, <1>5, <1>8, <3>1, PlacesOfConcat
    <3>3. QED
      BY <1>4, <1>7, <2>1, <2>3, <3>2 DEF c
  <2>4. QED
    BY <2>2, <2>3
<1>9. CASE ~(c.msg # Notice /\ t \in Open /\ Live(t, c.room))
  BY <1>1, <1>3, <1>4, <1>7, <1>9 DEF c
<1>10. QED
  BY <1>8, <1>9

LEMMA SendMaps ==
  ASSUME NamedBefore, NamedBefore', NEW s \in Sessions, SendToRoom(s)
  PROVE  Map!Next
<1>1. PICK r \in Rooms, m \in MessageIds \cup {Notice} : r = NextCall(s).room /\ m = NextCall(s).msg
  BY NextCallType DEF NamedBefore, SendToRoom, About
<1>2. rooms' = send_to_room(rooms, r, Open) /\ Open' = Open
  BY <1>1 DEF SendToRoom, RoomsBecome, Open, Alive
<1>3. rooms \in [Rooms -> [Entries -> Nat]]
  BY DEF NamedBefore, TypeOK
<1>4. ASSUME NEW q \in Rooms, NEW x \in Sessions
      PROVE  Live(x, q)' <=> Live(x, q) /\ (q = r => x \in Open)
  <2>1. <<Owner[x], x>> \in Entries /\ <<Owner[x], x>>[2] = x
    BY ServerAssumption DEF Entries
  <2>2. rooms'[q][<<Owner[x], x>>] =
          IF q = r /\ x \notin Open THEN 0 ELSE rooms[q][<<Owner[x], x>>]
    BY <1>1, <1>2, <1>3, <2>1 DEF send_to_room
  <2>3. ~(0 > 0)
    OBVIOUS
  <2>4. QED
    BY <2>2, <2>3 DEF Live, Subscribed
<1>5. \A q \in Rooms : \A v \in Users : q # r => EntryOf(q, v)' = EntryOf(q, v)
  BY <1>4, EntryStays DEF NamedBefore
<1>6. ASSUME NEW v \in Users
      PROVE  EntryOf(r, v)' = IF EntryOf(r, v) \in Open THEN EntryOf(r, v) ELSE NoSession
  <2>1. /\ EntryOf(r, v) \in Sessions \cup {NoSession}
        /\ \A x \in Sessions : EntryOf(r, v) = x <=> Owner[x] = v /\ Live(x, r)
    BY DEF NamedBefore, EntriesAreNamed
  <2>2. CASE EntryOf(r, v) \in Open
    <3>1. \A x \in Sessions : Owner[x] = v => (Live(x, r)' <=> Live(x, r))
      BY <1>4, <2>1, <2>2
    <3>2. QED
      BY <2>2, <3>1, EntryStays DEF NamedBefore
  <2>3. CASE EntryOf(r, v) \notin Open
    <3>1. \A x \in Sessions : Owner[x] = v => ~Live(x, r)'
      BY <1>4, <2>1, <2>3
    <3>2. QED
      BY <2>3, <3>1, EntryGoes DEF NamedBefore
  <2>4. QED
    BY <2>2, <2>3
<1>7. EntriesOf' = [EntriesOf EXCEPT ![r] =
                      [u \in Users |-> IF @[u] \in Open THEN @[u] ELSE NoSession]]
  BY <1>5, <1>6 DEF EntriesOf
<1>8. ASSUME NEW x \in Sessions
      PROVE  x \in Reached(r) <=> x \in Open /\ Live(x, r)
  <2>1. Owner[x] \in Users
    BY ServerAssumption
  <2>2. \A u \in Users : EntriesOf[r][u] = x <=> Owner[x] = u /\ Live(x, r)
    BY DEF NamedBefore, EntriesAreNamed, EntriesOf
  <2>3. QED
    BY <2>1, <2>2 DEF Reached
<1>9. \A x \in Sessions, n \in MessageIds :
        /\ TimesHeard(x, n) \in Nat
        /\ TimesHeard(x, n)' = IF m = n /\ x \in Reached(r)
                               THEN TimesHeard(x, n) + 1 ELSE TimesHeard(x, n)
  BY <1>1, <1>8, SendCounts DEF NamedBefore
<1>10. Notice \notin MessageIds
  BY ServerAssumption DEF MessageIds, Notice
<1>11. HeardBy' = [x \in Sessions |-> IF m # Notice /\ x \in Reached(r)
                                      THEN [HeardBy[x] EXCEPT ![m] = @ + 1] ELSE HeardBy[x]]
  BY <1>9, <1>10 DEF HeardBy
<1>12. CASE m = Notice
  BY <1>2, <1>7, <1>11, <1>12, MapSend
<1>13. CASE m # Notice /\ Reached(r) # {}
  <2>1. PICK x \in Sessions : x \in Reached(r)
    BY <1>13 DEF Reached, Open
  <2>2. HeardBy'[x][m] = HeardBy[x][m] + 1 /\ HeardBy[x][m] \in Nat
    BY <1>9, <1>13, <2>1 DEF HeardBy
  <2>3. HeardBy' # HeardBy
    BY <2>2
  <2>4. QED
    BY <1>2, <1>7, <1>11, <2>3, MapSend
<1>14. CASE m # Notice /\ Reached(r) = {}
  <2>1. HeardBy' = HeardBy
    BY <1>11, <1>14 DEF HeardBy
  <2>2. HeardBy' = [x \in Sessions |-> IF Notice # Notice /\ x \in Reached(r)
                                       THEN [HeardBy[x] EXCEPT ![Notice] = @ + 1] ELSE HeardBy[x]]
    BY <2>1 DEF HeardBy
  <2>3. QED
    BY <1>2, <1>7, <2>2, MapSend
<1>15. QED
  BY <1>12, <1>13, <1>14

(* A history replay pushes nothing live.                                   *)
LEMMA HistoryIsNotLive ==
  ASSUME TypeOK, NEW s \in Sessions, NEW room \in Rooms,
         inbox' = [inbox EXCEPT ![s] = @ \o History(room)], NEW t \in Sessions, NEW m
  PROVE  Places(inbox'[t], LiveItem(m)) = Places(inbox[t], LiveItem(m))
<1> DEFINE h == History(room)
<1>1. h \in Seq(Items) /\ inbox[t] \in Seq(Items)
  BY HistoryType DEF TypeOK
<1>2. \A i \in 1..Len(h) : h[i] # LiveItem(m)
  <2>1. \A i \in DOMAIN h : h[i].is_history = TRUE
    BY DEF History
  <2>2. DOMAIN h = 1..Len(h)
    BY <1>1, LenProperties
  <2>3. LiveItem(m).is_history = FALSE
    BY DEF LiveItem
  <2>4. QED
    BY <2>1, <2>2, <2>3
<1>3. inbox'[t] = IF t = s THEN inbox[t] \o h ELSE inbox[t]
  BY DEF TypeOK
<1> HIDE DEF h
<1>4. QED
  BY <1>1, <1>2, <1>3, PlacesOfConcat

LEMMA ReplayMaps ==
  ASSUME NamedBefore, NamedBefore', NEW s \in Sessions, NEW room \in Rooms,
         inbox' = [inbox EXCEPT ![s] = @ \o History(room)], UNCHANGED <<status, rooms>>
  PROVE  [Map!Next]_(Map!vars)
<1>1. \A t \in Sessions : \A m \in MessageIds : TimesHeard(t, m)' = TimesHeard(t, m)
  BY HistoryIsNotLive DEF NamedBefore, TimesHeard, Places, LiveItem
<1>2. \A r \in Rooms : \A u \in Users : EntryOf(r, u)' = EntryOf(r, u)
  <2>1. \A r \in Rooms : \A t \in Sessions : Live(t, r)' <=> Live(t, r)
    BY DEF Live
  <2>2. QED
    BY <2>1, EntryStays DEF NamedBefore
<1>3. EntriesOf' = EntriesOf /\ HeardBy' = HeardBy
  BY <1>1, <1>2 DEF EntriesOf, HeardBy
<1>4. Open' = Open
  BY DEF Open, Alive
<1>5. QED
  BY <1>3, <1>4, MapStutters

LEMMA HandlerMaps ==
  ASSUME NamedBefore, NamedBefore', NEW s \in Sessions, HandlerStep(s)
  PROVE  [Map!Next]_(Map!vars)
<1> USE DEF registry, database, bounds
<1>1. CASE SubscribeRoom(s) \/ UnsubscribeRoom(s) \/ LeaveAllRooms(s) \/ SendToRoom(s)
  BY <1>1, SubscribeMaps, UnsubscribeMaps, LeaveAllMaps, SendMaps
<1>2. CASE ReplayHistory(s)
  <2>1. NextCall(s).room \in Rooms
    BY <1>2, NextCallType DEF ReplayHistory, About, NamedBefore
  <2>2. QED
    BY <1>2, <2>1, ReplayMaps DEF ReplayHistory
<1>3. CASE UnregisterSender(s)
  <2>1. EntriesOf' = EntriesOf /\ HeardBy' = HeardBy
    BY <1>3, QuietStep DEF UnregisterSender, NamedBefore
  <2>2. s \in Open /\ Open' = Open \ {s}
    BY <1>3 DEF UnregisterSender, About, Open, Alive, NamedBefore, TypeOK
  <2>3. QED
    BY <2>1, <2>2, MapCloses
<1>4. CASE \/ RegisterSender(s) \/ ReadMemberships(s) \/ ReadLastRoom(s) \/ SetActiveRoom(s)
           \/ SaveMembership(s) \/ InsertMessage(s) \/ GetSender(s) \/ RemoveMembership(s)
           \/ ReadFallback(s) \/ ReadSubscribedRooms(s)
  <2>1. UNCHANGED <<status, rooms, inbox>>
    BY <1>4 DEF RegisterSender, ReadMemberships, ReadLastRoom, SetActiveRoom, SaveMembership,
         InsertMessage, GetSender, RemoveMembership, ReadFallback, ReadSubscribedRooms
  <2>2. EntriesOf' = EntriesOf /\ HeardBy' = HeardBy /\ Open' = Open
    BY <2>1, QuietStep DEF NamedBefore, Open, Alive
  <2>3. QED
    BY <2>2, MapStutters
<1>5. QED
  BY <1>1, <1>2, <1>3, <1>4 DEF HandlerStep

LEMMA RoomIdFailsMaps ==
  ASSUME NamedBefore, NamedBefore', NEW s \in Sessions, RoomIdFails(s)
  PROVE  [Map!Next]_(Map!vars)
<1>1. General \in Rooms /\ UNCHANGED <<status, rooms>>
  BY RoomIdFailsFacts, RoomFacts
<1>2. CASE inbox' = [inbox EXCEPT ![s] = @ \o History(General)]
  BY <1>1, <1>2, ReplayMaps
<1>3. CASE UNCHANGED inbox
  <2>1. EntriesOf' = EntriesOf /\ HeardBy' = HeardBy /\ Open' = Open
    BY <1>1, <1>3, QuietStep DEF NamedBefore, Open, Alive
  <2>2. QED
    BY <2>1, MapStutters
<1>4. QED
  BY <1>2, <1>3, RoomIdFailsFacts

(* The registry is not told of a task that starts or ends.                 *)
LEMMA OthersMap ==
  ASSUME NamedBefore, NamedBefore', NEW s \in Sessions, ClientStep(s) \/ StatementFails(s)
  PROVE  [Map!Next]_(Map!vars)
<1> USE DEF registry, database, bounds
<1>1. UNCHANGED <<rooms, inbox>>
  BY DEF ClientStep, StatementFails, Connect, Leave, Text, Media, Disconnect, Join,
         Switch, Signal, Msg, ReadLine
<1>2. EntriesOf' = EntriesOf /\ HeardBy' = HeardBy
  BY <1>1, QuietStep DEF NamedBefore
<1>3. \/ Open' = Open
      \/ s \notin Open /\ Open' = Open \cup {s}
      \/ s \in Open /\ Open' = Open \ {s}
  <2>1. status \in [Sessions -> {"off", "on", "closing", "closed", "dead"}]
    BY DEF NamedBefore, TypeOK
  <2>2. CASE Connect(s)
    BY <2>1, <2>2 DEF Connect, Open, Alive
  <2>3. CASE Disconnect(s)
    BY <2>1, <2>3 DEF Disconnect, Open, Alive, Idle
  <2>4. CASE StatementFails(s)
    BY <2>1, <2>4 DEF StatementFails, Panic, About, Open, Alive, Idle
  <2>5. CASE UNCHANGED status
    BY <2>5 DEF Open, Alive
  <2>6. QED
    BY <2>2, <2>3, <2>4, <2>5 DEF ClientStep, Leave, Text, Media, Join, Switch, Signal, Msg,
                                 ReadLine
<1>4. QED
  BY <1>2, <1>3, MapStutters, MapOpens, MapCloses

LEMMA RestartMaps ==
  ASSUME NamedBefore, NamedBefore', ServerRestart
  PROVE  Map!Next
<1>1. ASSUME NEW r \in Rooms, NEW u \in Users
      PROVE  EntryOf(r, u)' = NoSession
  <2>1. \A t \in Sessions : <<Owner[t], t>> \in Entries
    BY ServerAssumption DEF Entries
  <2>2. \A t \in Sessions : ~Live(t, r)'
    BY <2>1 DEF ServerRestart, Live, Subscribed, Nobody
  <2>3. QED
    BY <2>2, EntryGoes DEF NamedBefore
<1>2. EntriesOf' = [r \in Rooms |-> [u \in Users |-> NoSession]]
  BY <1>1 DEF EntriesOf
<1>3. Open' = {} /\ HeardBy' = HeardBy
  BY DEF ServerRestart, Open, Alive, HeardBy, TimesHeard, NamedBefore, TypeOK
<1>4. QED
  BY <1>2, <1>3, MapRestart

LEMMA InitMaps == Init => Map!Init
<1> SUFFICES ASSUME Init PROVE Map!Init
  OBVIOUS
<1>1. ASSUME NEW r \in Rooms, NEW u \in Users
      PROVE  EntryOf(r, u) = NoSession
  <2>1. \A t \in Sessions : <<Owner[t], t>> \in Entries
    BY ServerAssumption DEF Entries
  <2>2. \A t \in Sessions : ~Live(t, r)
    BY <2>1 DEF Init, Live, Subscribed, Nobody
  <2>3. QED
    BY <2>2 DEF EntryOf
<1>2. Open = {}
  BY DEF Init, Open, Alive
<1>3. ASSUME NEW t \in Sessions, NEW m \in MessageIds
      PROVE  TimesHeard(t, m) = 0
  <2>1. Places(inbox[t], LiveItem(m)) = {}
    BY DEF Init, Places
  <2>2. QED
    BY <2>1, TimesHeardIs, FS_EmptySet
<1>4. QED
  BY <1>1, <1>2, <1>3 DEF Map!Init

(* AppState.rooms, with its Vec of pairs under every room, is a map from   *)
(* users to connections, and send_to_room a send that reaches everyone in  *)
(* it at once, exactly once: every call of every handler is a step of      *)
(* RoomMap or leaves it alone.                                             *)
THEOREM RegistryIsMap == Spec => RefinesRoomMap
<1>1. Init => OneEntryPerUser
  BY DEF Init, OneEntryPerUser, Nobody, Subscribed
<1>2. TypeOK /\ OneEntryPerUser => NamedBefore
  BY EntryIs DEF NamedBefore
<1>3. NamedBefore => TypeOK /\ OneEntryPerUser
  BY DEF NamedBefore
<1>4. TypeOK /\ OneEntryPerUser /\ [Next]_vars => TypeOK' /\ OneEntryPerUser'
  BY NextType, OneEntryStep
<1>5. NamedBefore /\ NamedBefore' /\ [Next]_vars => [Map!Next]_(Map!vars)
  <2> SUFFICES ASSUME NamedBefore, NamedBefore', [Next]_vars
               PROVE  [Map!Next]_(Map!vars)
    OBVIOUS
  <2>1. ASSUME NEW s \in Sessions, HandlerStep(s) \/ ClientStep(s) \/ StatementFails(s) \/ RoomIdFails(s)
        PROVE  [Map!Next]_(Map!vars)
    BY <2>1, HandlerMaps, OthersMap, RoomIdFailsMaps
  <2>2. CASE ServerRestart
    BY <2>2, RestartMaps
  <2>3. CASE UNCHANGED vars
    <3>1. EntriesOf' = EntriesOf /\ HeardBy' = HeardBy /\ Open' = Open
      BY <2>3, QuietStep DEF vars, registry, NamedBefore, Open, Alive
    <3>2. QED
      BY <3>1, MapStutters
  <2>4. QED
    BY <2>1, <2>2, <2>3 DEF Next
<1>6. QED
  BY <1>1, <1>2, <1>3, <1>4, <1>5, InitType, InitMaps, PTL DEF Spec, RefinesRoomMap, Map!Spec

-----------------------------------------------------------------------------
(* The calls a task has still to make, and the order they are in.          *)
(*                                                                         *)
(* Every handler fits one relation between a call and a later one.  A task *)
(* has one message in hand at most.  A text is sent and then stored, any   *)
(* other message is stored and then sent.  A room is not replayed before   *)
(* it is subscribed to, and what may lead to a replay comes before the     *)
(* message in hand is stored.  A room is unsubscribed from right after its *)
(* membership is removed.                                                  *)

CallsIn(q) == {q[i] : i \in 1..Len(q)}

Stores   == {"insert", "insert_ok"}
Entering == {"memberships", "resume", "fallback", "replay"}

(* T is the set of the texts, R that of the messages stored.               *)
After(T, R, c, d) ==
  /\ c.op # "fallback"
  /\ c.op \in {"replay", "save"} => d.op # "subscribe"
  /\ c.op = "get_sender" => d.op = "broadcast"
  /\ c.op \in {"memberships", "resume"} => d.op = "subscribe" /\ d.msg = Notice
  /\ d.op = "unsubscribe" => c.op = "remove" /\ c.room = d.room
  /\ c.op = "unsubscribe" => d.op \in {"broadcast", "fallback"}
  /\ c.op \in Entering /\ d.msg # Notice => d.msg \notin R
  /\ c.msg # Notice /\ d.msg # Notice => c.msg = d.msg
  /\ c.op \in Stores => d.op \in {"save", "get_sender", "subscribe", "broadcast"}
  /\ c.op = "broadcast" /\ c.msg # Notice =>
       d.op = "insert" /\ d.msg = c.msg /\ c.msg \in T
  /\ d.op = "insert" /\ d.msg \in T => c.op = "broadcast" /\ c.msg = d.msg

Ordered(T, R, q) == \A i, j \in 1..Len(q) : i < j => After(T, R, q[i], q[j])

LEMMA CallsInTail ==
  ASSUME NEW S, NEW q \in Seq(S), q # <<>>
  PROVE  /\ Head(q) \in S /\ Tail(q) \in Seq(S)
         /\ CallsIn(q) = {Head(q)} \cup CallsIn(Tail(q))
         /\ CallsIn(q) \subseteq S
<1> DEFINE tl == Tail(q)
<1>1. /\ tl \in Seq(S) /\ Len(tl) = Len(q) - 1
      /\ \A i \in 1..Len(tl) : tl[i] = q[i+1]
      /\ Head(q) = q[1] /\ Head(q) \in S
  BY HeadTailProperties
<1>2. Len(q) \in Nat /\ Len(q) >= 1
  BY EmptySeq, LenProperties
<1> HIDE DEF tl
<1>3. ASSUME NEW c \in CallsIn(q)
      PROVE  c \in {Head(q)} \cup CallsIn(tl) /\ c \in S
  <2>1. PICK i \in 1..Len(q) : c = q[i]
    BY <1>3 DEF CallsIn
  <2>2. CASE i = 1
    BY <1>1, <2>1, <2>2
  <2>3. CASE i # 1
    <3>1. i - 1 \in 1..Len(tl) /\ tl[i - 1] = q[i]
      BY <1>1, <1>2, <2>3
    <3>2. tl[i - 1] \in S
      BY <1>1, <3>1, ElementOfSeq
    <3>3. QED
      BY <2>1, <3>1, <3>2 DEF CallsIn
  <2>4. QED
    BY <2>2, <2>3
<1>4. Head(q) \in CallsIn(q)
  BY <1>1, <1>2 DEF CallsIn
<1>5. ASSUME NEW c \in CallsIn(tl)
      PROVE  c \in CallsIn(q)
  <2>1. PICK i \in 1..Len(tl) : c = tl[i]
    BY <1>5 DEF CallsIn
  <2>2. i + 1 \in 1..Len(q) /\ c = q[i + 1]
    BY <1>1, <1>2, <2>1
  <2>3. QED
    BY <2>2 DEF CallsIn
<1>6. QED
  BY <1>1, <1>3, <1>4, <1>5 DEF tl

LEMMA CallsInConcat ==
  ASSUME NEW S, NEW p \in Seq(S), NEW q \in Seq(S)
  PROVE  p \o q \in Seq(S) /\ CallsIn(p \o q) = CallsIn(p) \cup CallsIn(q)
<1> DEFINE r == p \o q
<1>1. Len(p) \in Nat /\ Len(q) \in Nat
  BY LenProperties
<1>2. /\ r \in Seq(S) /\ Len(r) = Len(p) + Len(q)
      /\ \A i \in 1..(Len(p) + Len(q)) :
           r[i] = IF i <= Len(p) THEN p[i] ELSE q[i - Len(p)]
  BY ConcatProperties
<1> HIDE DEF r
<1>3. ASSUME NEW c \in CallsIn(r)
      PROVE  c \in CallsIn(p) \cup CallsIn(q)
  <2>1. PICK i \in 1..Len(r) : c = r[i]
    BY <1>3 DEF CallsIn
  <2>2. (i \in 1..Len(p) /\ c = p[i]) \/ (i - Len(p) \in 1..Len(q) /\ c = q[i - Len(p)])
    BY <1>1, <1>2, <2>1
  <2>3. QED
    BY <2>2 DEF CallsIn
<1>4. ASSUME NEW c \in CallsIn(p)
      PROVE  c \in CallsIn(r)
  <2>1. PICK i \in 1..Len(p) : c = p[i]
    BY <1>4 DEF CallsIn
  <2>2. i \in 1..Len(r) /\ r[i] = c
    BY <1>1, <1>2, <2>1
  <2>3. QED
    BY <2>2 DEF CallsIn
<1>5. ASSUME NEW c \in CallsIn(q)
      PROVE  c \in CallsIn(r)
  <2>1. PICK i \in 1..Len(q) : c = q[i]
    BY <1>5 DEF CallsIn
  <2>2. i + Len(p) \in 1..Len(r) /\ r[i + Len(p)] = c
    <3>1. ~(i + Len(p) <= Len(p)) /\ i + Len(p) \in 1..(Len(p) + Len(q))
      BY <1>1, <2>1
    <3>2. i + Len(p) - Len(p) = i
      BY <1>1, <2>1
    <3>3. QED
      BY <1>2, <2>1, <3>1, <3>2
  <2>3. QED
    BY <2>2 DEF CallsIn
<1>6. QED
  BY <1>2, <1>3, <1>4, <1>5 DEF r

LEMMA OrderedTail ==
  ASSUME NEW T, NEW R, NEW S, NEW q \in Seq(S), q # <<>>, Ordered(T, R, q)
  PROVE  Ordered(T, R, Tail(q)) /\ \A d \in CallsIn(Tail(q)) : After(T, R, Head(q), d)
<1> DEFINE tl == Tail(q)
<1>1. /\ tl \in Seq(S) /\ Len(tl) = Len(q) - 1
      /\ \A i \in 1..Len(tl) : tl[i] = q[i+1]
      /\ Head(q) = q[1]
  BY HeadTailProperties
<1>2. Len(q) \in Nat /\ Len(q) >= 1
  BY EmptySeq, LenProperties
<1> HIDE DEF tl
<1>3. ASSUME NEW i \in 1..Len(tl), NEW j \in 1..Len(tl), i < j
      PROVE  After(T, R, tl[i], tl[j])
  <2>1. /\ i + 1 \in 1..Len(q) /\ j + 1 \in 1..Len(q) /\ i + 1 < j + 1
        /\ tl[i] = q[i + 1] /\ tl[j] = q[j + 1]
    BY <1>1, <1>2, <1>3
  <2>2. QED
    BY <2>1 DEF Ordered
<1>4. ASSUME NEW d \in CallsIn(tl)
      PROVE  After(T, R, Head(q), d)
  <2>1. PICK i \in 1..Len(tl) : d = tl[i]
    BY <1>4 DEF CallsIn
  <2>2. 1 \in 1..Len(q) /\ i + 1 \in 1..Len(q) /\ 1 < i + 1 /\ d = q[i + 1]
    BY <1>1, <1>2, <2>1
  <2>3. After(T, R, q[1], q[i + 1])
    BY <2>2 DEF Ordered
  <2>4. QED
    BY <1>1, <2>2, <2>3
<1>5. QED
  BY <1>3, <1>4 DEF Ordered, tl

LEMMA OrderedConcat ==
  ASSUME NEW T, NEW R, NEW S, NEW p \in Seq(S), NEW q \in Seq(S), Ordered(T, R, p), Ordered(T, R, q),
         \A c \in CallsIn(p), d \in CallsIn(q) : After(T, R, c, d)
  PROVE  Ordered(T, R, p \o q)
<1> DEFINE r == p \o q
<1>1. Len(p) \in Nat /\ Len(q) \in Nat
  BY LenProperties
<1>2. /\ Len(r) = Len(p) + Len(q)
      /\ \A i \in 1..(Len(p) + Len(q)) :
           r[i] = IF i <= Len(p) THEN p[i] ELSE q[i - Len(p)]
  BY ConcatProperties
<1> HIDE DEF r
<1>3. ASSUME NEW i \in 1..Len(r), NEW j \in 1..Len(r), i < j
      PROVE  After(T, R, r[i], r[j])
  <2>1. CASE j <= Len(p)
    <3>1. i \in 1..Len(p) /\ j \in 1..Len(p) /\ r[i] = p[i] /\ r[j] = p[j]
      BY <1>1, <1>2, <1>3, <2>1
    <3>2. QED
      BY <1>3, <3>1 DEF Ordered
  <2>2. CASE ~(i <= Len(p))
    <3>1. /\ i - Len(p) \in 1..Len(q) /\ j - Len(p) \in 1..Len(q) /\ i - Len(p) < j - Len(p)
          /\ r[i] = q[i - Len(p)] /\ r[j] = q[j - Len(p)]
      BY <1>1, <1>2, <1>3, <2>2
    <3>2. QED
      BY <3>1 DEF Ordered
  <2>3. CASE i <= Len(p) /\ ~(j <= Len(p))
    <3>1. /\ i \in 1..Len(p) /\ j - Len(p) \in 1..Len(q)
          /\ r[i] = p[i] /\ r[j] = q[j - Len(p)]
      BY <1>1, <1>2, <1>3, <2>3
    <3>2. p[i] \in CallsIn(p) /\ q[j - Len(p)] \in CallsIn(q)
      BY <3>1 DEF CallsIn
    <3>3. QED
      BY <3>1, <3>2
  <2>4. QED
    BY <2>1, <2>2, <2>3
<1>4. QED
  BY <1>3 DEF Ordered, r

LEMMA OneOrNone ==
  ASSUME NEW T, NEW R, NEW c
  PROVE  /\ CallsIn(<<>>) = {} /\ Ordered(T, R, <<>>)
         /\ CallsIn(<<c>>) = {c} /\ Ordered(T, R, <<c>>)
<1>1. Len(<<>>) = 0 /\ Len(<<c>>) = 1 /\ <<c>>[1] = c
  OBVIOUS
<1>2. 1..0 = {} /\ 1..1 = {1}
  OBVIOUS
<1>3. CallsIn(<<>>) = {} /\ Ordered(T, R, <<>>)
  BY <1>1, <1>2 DEF CallsIn, Ordered
<1>4. CallsIn(<<c>>) = {c}
  BY <1>1, <1>2 DEF CallsIn
<1>5. Ordered(T, R, <<c>>)
  <2>1. ~(1 < 1)
    OBVIOUS
  <2>2. QED
    BY <1>1, <1>2, <2>1 DEF Ordered
<1>6. QED
  BY <1>3, <1>4, <1>5

-----------------------------------------------------------------------------
(* What is known of a task's queue while the task goes on.                 *)

Texts          == {m \in 1..Len(posted) : posted[m].path = "text"}
StoredMessages == {m \in MessageIds : \E r \in Rooms : \E i \in 1..Len(table[r]) : table[r][i] = m}
Heard(s, m)    == \E i \in 1..Len(inbox[s]) : inbox[s][i] = LiveItem(m)
Sends(c, m)    == c.op = "broadcast" /\ c.msg = m

(* A call that carries a message carries one of the task's own, to the     *)
(* room it was posted in; nobody has heard it live before it is sent, no   *)
(* table holds it before it is stored, and what is not a text is sent      *)
(* after it is stored.                                                     *)
MessageCall(s, q, c) ==
  c.msg # Notice =>
    /\ c.op \in Stores \cup {"broadcast"}
    /\ c.msg \in 1..Len(posted) /\ posted[c.msg].from = s /\ posted[c.msg].room = c.room
    /\ c.op = "broadcast" => \A t \in Sessions : ~Heard(t, c.msg)
    /\ c.op \in Stores => c.msg \notin StoredMessages
    /\ c.op = "insert_ok" => c.msg \notin Texts
    /\ c.op \in Stores /\ c.msg \notin Texts => \E d \in CallsIn(q) : Sends(d, c.msg)

Queue(s, q) ==
  /\ Ordered(Texts, StoredMessages, q)
  /\ \A c \in CallsIn(q) : MessageCall(s, q, c)

QueuesOK == \A s \in Sessions : Queue(s, todo[s])

PostedKept == \A m \in 1..Len(posted) : m \in 1..Len(posted') /\ posted'[m] = posted[m]

(* A step leaves a queue in order when it keeps what was posted, and       *)
(* neither stores nor sends what the queue has still to store or send.     *)
LEMMA QueueStays ==
  ASSUME NEW s, NEW q, Queue(s, q), PostedKept,
         \A c \in CallsIn(q) : c.msg # Notice /\ c.msg \in StoredMessages' =>
           c.msg \in StoredMessages \/ \A d \in CallsIn(q) : d.op \notin Entering \cup Stores,
         \A c \in CallsIn(q) : c.op = "broadcast" /\ c.msg # Notice =>
           \A t \in Sessions : Heard(t, c.msg)' => Heard(t, c.msg)
  PROVE  Queue(s, q)'
<1>1. \A c \in CallsIn(q) : c.msg # Notice => (c.msg \in Texts' <=> c.msg \in Texts)
  BY DEF Queue, MessageCall, PostedKept, Texts
<1>2. ASSUME NEW i \in 1..Len(q), NEW j \in 1..Len(q), i < j
      PROVE  After(Texts', StoredMessages', q[i], q[j])
  <2>1. PICK c \in CallsIn(q), d \in CallsIn(q) : c = q[i] /\ d = q[j]
    BY DEF CallsIn
  <2>2. After(Texts, StoredMessages, c, d)
    BY <1>2, <2>1 DEF Queue, Ordered
  <2>3. c.msg # Notice => (c.msg \in Texts' <=> c.msg \in Texts)
    BY <1>1
  <2>4. d.msg # Notice => (d.msg \in Texts' <=> d.msg \in Texts)
    BY <1>1
  <2>5. c.op \in Entering /\ d.msg # Notice /\ d.msg \in StoredMessages' => d.msg \in StoredMessages
    BY DEF Entering
  <2>6. d.op = "insert" /\ d.msg \in Texts' => d.msg \in Texts
    <3>1. CASE d.msg # Notice
      BY <2>4, <3>1
    <3>2. CASE d.msg = Notice
      BY <3>2 DEF Texts, Notice
    <3>3. QED
      BY <3>1, <3>2
  <2>7. After(Texts', StoredMessages', c, d)
    BY <2>2, <2>3, <2>4, <2>5, <2>6 DEF After
  <2>8. QED
    BY <2>1, <2>7
<1>3. ASSUME NEW c \in CallsIn(q)
      PROVE  MessageCall(s, q, c)'
  <2>1. MessageCall(s, q, c)
    BY DEF Queue
  <2>2. c.msg # Notice => (c.msg \in Texts' <=> c.msg \in Texts)
    BY <1>1
  <2>3. c.op \in Stores /\ c.msg # Notice /\ c.msg \in StoredMessages' => c.msg \in StoredMessages
    OBVIOUS
  <2>4. c.op = "broadcast" /\ c.msg # Notice => \A t \in Sessions : Heard(t, c.msg)' => Heard(t, c.msg)
    OBVIOUS
  <2>5. QED
    BY <2>1, <2>2, <2>3, <2>4 DEF MessageCall, PostedKept
<1>4. QED
  BY <1>2, <1>3 DEF Queue, Ordered

(* The call at the head returned.                                          *)
LEMMA QueueTail ==
  ASSUME NEW s, NEW S, NEW q \in Seq(S), q # <<>>, Queue(s, q)
  PROVE  /\ Queue(s, Tail(q)) /\ MessageCall(s, q, Head(q))
         /\ \A d \in CallsIn(Tail(q)) : After(Texts, StoredMessages, Head(q), d)
<1> DEFINE h == Head(q)
           tl == Tail(q)
<1>1. CallsIn(q) = {h} \cup CallsIn(tl)
  BY CallsInTail
<1>2. /\ Ordered(Texts, StoredMessages, tl)
      /\ \A d \in CallsIn(tl) : After(Texts, StoredMessages, h, d)
  BY OrderedTail DEF Queue
<1>0. h = Head(q) /\ tl = Tail(q)
  OBVIOUS
<1> HIDE DEF h, tl
<1>3. ASSUME NEW c \in CallsIn(tl)
      PROVE  MessageCall(s, tl, c)
  <2>1. MessageCall(s, q, c) /\ After(Texts, StoredMessages, h, c)
    BY <1>1, <1>2 DEF Queue
  <2>2. ASSUME c.msg # Notice, c.op \in Stores, c.msg \notin Texts
        PROVE  \E d \in CallsIn(tl) : Sends(d, c.msg)
    <3>1. PICK d \in CallsIn(q) : Sends(d, c.msg)
      BY <2>1, <2>2 DEF MessageCall
    <3>2. d # h
      BY <2>1, <2>2, <3>1 DEF Sends, After
    <3>3. QED
      BY <1>1, <3>1, <3>2
  <2>3. QED
    BY <2>1, <2>2 DEF MessageCall
<1>4. MessageCall(s, q, h)
  BY <1>1 DEF Queue
<1>5. Queue(s, tl)
  BY <1>2, <1>3 DEF Queue
<1>6. QED
  BY <1>0, <1>2, <1>4, <1>5

(* Notices may be put in front of a queue, and after it, in the right      *)
(* order.                                                                  *)
LEMMA QueueBetween ==
  ASSUME NEW s, NEW S, NEW p \in Seq(S), NEW q \in Seq(S), Queue(s, p), Queue(s, q),
         \A c \in CallsIn(p), d \in CallsIn(q) : After(Texts, StoredMessages, c, d)
  PROVE  Queue(s, p \o q) /\ p \o q \in Seq(S) /\ CallsIn(p \o q) = CallsIn(p) \cup CallsIn(q)
<1>1. Ordered(Texts, StoredMessages, p \o q)
  BY OrderedConcat DEF Queue
<1>2. CallsIn(p \o q) = CallsIn(p) \cup CallsIn(q) /\ p \o q \in Seq(S)
  BY CallsInConcat
<1>3. ASSUME NEW c \in CallsIn(p \o q)
      PROVE  MessageCall(s, p \o q, c)
  BY <1>2, <1>3 DEF Queue, MessageCall
<1>4. QED
  BY <1>1, <1>2, <1>3 DEF Queue

LEMMA NoCalls ==
  ASSUME NEW s
  PROVE  Queue(s, <<>>) /\ CallsIn(<<>>) = {}
BY OneOrNone DEF Queue

LEMMA NoticeInFront ==
  ASSUME NEW s, NEW S, NEW c \in S, NEW q \in Seq(S), c.msg = Notice, Queue(s, q),
         \A d \in CallsIn(q) : After(Texts, StoredMessages, c, d)
  PROVE  /\ <<c>> \o q \in Seq(S) /\ Queue(s, <<c>> \o q)
         /\ CallsIn(<<c>> \o q) = {c} \cup CallsIn(q)
<1>1. CallsIn(<<c>>) = {c} /\ Ordered(Texts, StoredMessages, <<c>>) /\ <<c>> \in Seq(S)
  BY OneOrNone
<1>2. Queue(s, <<c>>)
  BY <1>1 DEF Queue, MessageCall
<1> DEFINE p == <<c>>
<1>3. p \in Seq(S) /\ Queue(s, p) /\ CallsIn(p) = {c} /\ p = <<c>>
  BY <1>1, <1>2
<1> HIDE DEF p
<1>4. \A b \in CallsIn(p), d \in CallsIn(q) : After(Texts, StoredMessages, b, d)
  BY <1>3
<1>5. Queue(s, p \o q)
  BY <1>3, <1>4, QueueBetween
<1>6. p \o q \in Seq(S) /\ CallsIn(p \o q) = CallsIn(p) \cup CallsIn(q)
  BY <1>3, CallsInConcat
<1>7. QED
  BY <1>3, <1>5, <1>6

-----------------------------------------------------------------------------
(* What a step of one task posts, stores and sends.                        *)

TaskStep(s) == HandlerStep(s) \/ ClientStep(s) \/ StatementFails(s) \/ RoomIdFails(s)

(* Nothing that was posted changes; a new message is the task's own.       *)
LEMMA PostedStep ==
  ASSUME TypeOK, NEW s \in Sessions, TaskStep(s)
  PROVE  PostedKept
<1> USE DEF registry, database, bounds
<1>1. posted \in Seq(Posts) /\ Len(posted) \in Nat
  BY LenProperties DEF TypeOK
<1>2. UNCHANGED posted => PostedKept
  BY DEF PostedKept
<1>3. ASSUME NEW x, x \in Posts, posted' = Append(posted, x)
      PROVE  PostedKept
  <2>1. Len(posted') = Len(posted) + 1 /\ \A i \in 1..Len(posted) : posted'[i] = posted[i]
    BY <1>1, <1>3, AppendProperties
  <2>2. QED
    BY <1>1, <2>1 DEF PostedKept
<1>4. ASSUME NEW r, NEW path \in {"text", "dm", "media"}, r \in Rooms, Compose(s, r, path)
      PROVE  PostedKept
  <2>1. [from |-> s, room |-> r, path |-> path] \in Posts
    BY <1>4 DEF Posts
  <2>2. QED
    BY <1>3, <1>4, <2>1 DEF Compose
<1>5. get_user_room(s) \in Rooms /\ Owner[s] \in Users
  BY ServerAssumption DEF get_user_room, TypeOK
<1>6. CASE HandlerStep(s)
  BY <1>2, <1>6 DEF HandlerStep, RegisterSender, ReadMemberships, ReadLastRoom, SubscribeRoom,
       SetActiveRoom, SaveMembership, ReplayHistory, SendToRoom, InsertMessage, GetSender,
       RemoveMembership, UnsubscribeRoom, ReadFallback, ReadSubscribedRooms, LeaveAllRooms,
       UnregisterSender
<1>7. CASE StatementFails(s)
  BY <1>2, <1>7 DEF StatementFails
<1>8. CASE ClientStep(s)
  <2>1. CASE Text(s)
    BY <1>4, <1>5, <2>1 DEF Text
  <2>2. CASE Media(s)
    BY <1>4, <1>5, <2>2 DEF Media
  <2>3. ASSUME NEW v \in Users, Msg(s, v)
        PROVE  PostedKept
    <3>1. dm_room(Owner[s], v) \in Rooms
      BY <1>5, <2>3, RoomFacts DEF Msg
    <3>2. QED
      BY <1>4, <2>3, <3>1 DEF Msg
  <2>4. QED
    BY <1>2, <1>8, <2>1, <2>2, <2>3 DEF ClientStep, Connect, Leave, Join, Switch, Signal,
                                        Disconnect
<1>9. CASE RoomIdFails(s)
  BY <1>2, <1>9 DEF RoomIdFails
<1>10. QED
  BY <1>6, <1>7, <1>8, <1>9 DEF TaskStep

(* A table gains the message of a store call and nothing else; it is the   *)
(* table of the room of the call, unless the id of that room was not found *)
(* and the message went to the default one.                                *)
StoresIn(s, room) ==
  /\ todo[s] # <<>> /\ NextCall(s).op \in Stores /\ NextCall(s).msg \in MessageIds
  /\ table' = [table EXCEPT ![room] = Append(@, NextCall(s).msg)]
  /\ Return(s)
  /\ UNCHANGED posted

LEMMA InsertStores ==
  ASSUME TypeOK, NEW s \in Sessions, InsertMessage(s)
  PROVE  NextCall(s).room \in Rooms /\ StoresIn(s, NextCall(s).room)
BY NextCallType DEF InsertMessage, About, Stores, StoresIn

LEMMA MisfiledStores ==
  ASSUME TypeOK, NEW s \in Sessions, RoomIdFails(s), ~UNCHANGED table
  PROVE  General \in Rooms /\ StoresIn(s, General)
<1>1. /\ NextCall(s).op \in {"insert", "insert_ok"}
      /\ table' = [table EXCEPT ![General] = Append(@, NextCall(s).msg)]
      /\ todo[s] # <<>> /\ Return(s) /\ UNCHANGED posted
  BY RoomIdFailsFacts
<1>2. QED
  BY <1>1, NextCallType, RoomFacts DEF StoresIn, Stores

LEMMA TableStep ==
  ASSUME TypeOK, NEW s \in Sessions, TaskStep(s)
  PROVE  (\E room \in Rooms : StoresIn(s, room)) \/ UNCHANGED table
<1>1. InsertMessage(s) \/ RoomIdFails(s) \/ UNCHANGED table
  BY DEF TaskStep, HandlerStep, ClientStep, StatementFails, RegisterSender, ReadMemberships,
         ReadLastRoom, SubscribeRoom, SetActiveRoom, SaveMembership, ReplayHistory, SendToRoom,
         GetSender, RemoveMembership, UnsubscribeRoom, ReadFallback, ReadSubscribedRooms,
         LeaveAllRooms, UnregisterSender, Connect, Leave, Text, Media, Disconnect, Join,
         Switch, Signal, Msg, database
<1>2. QED
  BY <1>1, InsertStores, MisfiledStores

LEMMA InsertAppends ==
  ASSUME TypeOK, NEW s \in Sessions, NEW room \in Rooms, StoresIn(s, room)
  PROVE  \A r \in Rooms :
           table'[r] = IF r = room THEN Append(table[r], NextCall(s).msg) ELSE table[r]
BY DEF StoresIn, TypeOK

LEMMA StoredStep ==
  ASSUME TypeOK, NEW s \in Sessions, TaskStep(s),
         NEW m, m \in StoredMessages', m \notin StoredMessages
  PROVE  todo[s] # <<>> /\ NextCall(s).op \in Stores /\ NextCall(s).msg = m
<1>1. PICK room \in Rooms : StoresIn(s, room)
  BY TableStep DEF StoredMessages
<1>2. PICK r \in Rooms : \E i \in 1..Len(table'[r]) : table'[r][i] = m
  BY DEF StoredMessages
<1>3. PICK i \in 1..Len(table'[r]) : table'[r][i] = m
  BY <1>2
<1> DEFINE c == NextCall(s)
<1>4. table'[r] = IF r = room THEN Append(table[r], c.msg) ELSE table[r]
  BY <1>1, InsertAppends
<1>5. \A j \in 1..Len(table[r]) : table[r][j] # m
  BY DEF StoredMessages
<1>6. table[r] \in Seq(MessageIds) /\ Len(table[r]) \in Nat /\ c.msg \in MessageIds
  BY <1>1, LenProperties DEF TypeOK, StoresIn
<1> HIDE DEF c
<1>7. table'[r] = Append(table[r], c.msg)
  BY <1>3, <1>4, <1>5
<1>8. /\ Len(table'[r]) = Len(table[r]) + 1 /\ table'[r][Len(table[r]) + 1] = c.msg
      /\ \A j \in 1..Len(table[r]) : table'[r][j] = table[r][j]
  BY <1>6, <1>7, AppendProperties
<1>9. i = Len(table[r]) + 1
  BY <1>3, <1>5, <1>6, <1>8
<1>10. QED
  BY <1>1, <1>3, <1>8, <1>9 DEF c, StoresIn

(* A channel gains one live message, or the history of a room: the default *)
(* one, if the id of the room that was entered was not found.              *)
ReplaysIn(s, room) == inbox' = [inbox EXCEPT ![s] = @ \o History(room)]

LEMMA InboxStep ==
  ASSUME TypeOK, NEW s \in Sessions, TaskStep(s)
  PROVE  \/ SendToRoom(s)
         \/ \E room \in Rooms : ReplaysIn(s, room)
         \/ UNCHANGED inbox
<1>1. SendToRoom(s) \/ ReplayHistory(s) \/ RoomIdFails(s) \/ UNCHANGED inbox
  BY DEF TaskStep, HandlerStep, ClientStep, StatementFails, RegisterSender, ReadMemberships,
         ReadLastRoom, SubscribeRoom, SetActiveRoom, SaveMembership, InsertMessage,
         GetSender, RemoveMembership, UnsubscribeRoom, ReadFallback, ReadSubscribedRooms,
         LeaveAllRooms, UnregisterSender, Connect, Leave, Text, Media, Disconnect, Join,
         Switch, Signal, Msg, ReadLine
<1>2. ReplayHistory(s) => NextCall(s).room \in Rooms /\ ReplaysIn(s, NextCall(s).room)
  BY NextCallType DEF ReplayHistory, About, ReplaysIn
<1>3. RoomIdFails(s) => General \in Rooms /\ (ReplaysIn(s, General) \/ UNCHANGED inbox)
  BY RoomIdFailsFacts, RoomFacts DEF ReplaysIn
<1>4. QED
  BY <1>1, <1>2, <1>3

LEMMA HeardIs ==
  ASSUME NEW t, NEW m
  PROVE  /\ Heard(t, m) <=> Places(inbox[t], LiveItem(m)) # {}
         /\ Heard(t, m)' <=> Places(inbox'[t], LiveItem(m)) # {}
BY DEF Heard, Places, LiveItem

LEMMA HeardStep ==
  ASSUME TypeOK, OneEntryPerUser, NEW s \in Sessions, TaskStep(s), NEW t \in Sessions,
         NEW m, Heard(t, m)', ~Heard(t, m)
  PROVE  SendToRoom(s) /\ NextCall(s).msg = m /\ m # Notice
<1>1. \A room \in Rooms : ~ReplaysIn(s, room)
  BY HistoryIsNotLive, HeardIs DEF ReplaysIn
<1>2. SendToRoom(s)
  BY <1>1, InboxStep DEF Heard
<1> DEFINE c == NextCall(s)
<1>3. inbox'[t] = IF c.msg # Notice /\ t \in Open /\ Live(t, c.room)
                  THEN Append(inbox[t], LiveItem(c.msg)) ELSE inbox[t]
  BY <1>2, SendToInbox
<1>4. inbox[t] \in Seq(Items) /\ Len(inbox[t]) \in Nat
  BY LenProperties DEF TypeOK
<1>5. c.msg \in MessageIds \cup {Notice}
  BY <1>2, SendToInbox
<1> HIDE DEF c
<1>6. c.msg # Notice /\ inbox'[t] = Append(inbox[t], LiveItem(c.msg))
  BY <1>3 DEF Heard
<1>7. LiveItem(c.msg) \in Items
  BY <1>5, <1>6 DEF LiveItem, Items
<1>8. /\ Len(inbox'[t]) = Len(inbox[t]) + 1 /\ inbox'[t][Len(inbox[t]) + 1] = LiveItem(c.msg)
      /\ \A j \in 1..Len(inbox[t]) : inbox'[t][j] = inbox[t][j]
  BY <1>4, <1>6, <1>7, AppendProperties
<1>9. PICK i \in 1..Len(inbox'[t]) : inbox'[t][i] = LiveItem(m)
  BY DEF Heard, LiveItem
<1>10. i = Len(inbox[t]) + 1
  BY <1>4, <1>8, <1>9 DEF Heard
<1>11. c.msg = m
  BY <1>8, <1>9, <1>10 DEF LiveItem
<1>12. QED
  BY <1>2, <1>6, <1>11 DEF c

-----------------------------------------------------------------------------
(* The calls a handler begins with, and their order.                       *)

LEMMA TwoCalls ==
  ASSUME NEW T, NEW R, NEW a, NEW b, After(T, R, a, b)
  PROVE  CallsIn(<<a, b>>) = {a, b} /\ Ordered(T, R, <<a, b>>)
<1>1. CallsIn(<<a, b>>) = {a, b}
  BY DEF CallsIn
<1>2. ASSUME NEW q, q = <<a, b>>, NEW i \in 1..Len(q), NEW j \in 1..Len(q), i < j
      PROVE  q[i] = a /\ q[j] = b
  BY <1>2
<1>3. QED
  BY <1>1, <1>2 DEF Ordered

LEMMA ThreeCalls ==
  ASSUME NEW T, NEW R, NEW a, NEW b, NEW c,
         \A y \in {b, c} : After(T, R, a, y), After(T, R, b, c)
  PROVE  CallsIn(<<a, b, c>>) = {a, b, c} /\ Ordered(T, R, <<a, b, c>>)
<1>1. CallsIn(<<a, b, c>>) = {a, b, c}
  BY DEF CallsIn
<1>2. ASSUME NEW q, q = <<a, b, c>>, NEW i \in 1..Len(q), NEW j \in 1..Len(q), i < j
      PROVE  \/ q[i] = a /\ q[j] \in {b, c}
             \/ q[i] = b /\ q[j] = c
  BY <1>2
<1>3. QED
  BY <1>1, <1>2 DEF Ordered

LEMMA FourCalls ==
  ASSUME NEW T, NEW R, NEW a, NEW b, NEW c, NEW d,
         \A y \in {b, c, d} : After(T, R, a, y), \A y \in {c, d} : After(T, R, b, y),
         After(T, R, c, d)
  PROVE  CallsIn(<<a, b, c, d>>) = {a, b, c, d} /\ Ordered(T, R, <<a, b, c, d>>)
<1>1. CallsIn(<<a, b, c, d>>) = {a, b, c, d}
  BY DEF CallsIn
<1>2. ASSUME NEW q, q = <<a, b, c, d>>, NEW i \in 1..Len(q), NEW j \in 1..Len(q), i < j
      PROVE  \/ q[i] = a /\ q[j] \in {b, c, d}
             \/ q[i] = b /\ q[j] \in {c, d}
             \/ q[i] = c /\ q[j] = d
  BY <1>2
<1>3. QED
  BY <1>1, <1>2 DEF Ordered

LEMMA EightCalls ==
  ASSUME NEW T, NEW R, NEW a, NEW b, NEW c, NEW d, NEW e, NEW f, NEW g, NEW h,
         \A y \in {b, c, d, e, f, g, h} : After(T, R, a, y),
         \A y \in {c, d, e, f, g, h} : After(T, R, b, y),
         \A y \in {d, e, f, g, h} : After(T, R, c, y),
         \A y \in {e, f, g, h} : After(T, R, d, y),
         \A y \in {f, g, h} : After(T, R, e, y),
         \A y \in {g, h} : After(T, R, f, y), After(T, R, g, h)
  PROVE  /\ CallsIn(<<a, b, c, d, e, f, g, h>>) = {a, b, c, d, e, f, g, h}
         /\ Ordered(T, R, <<a, b, c, d, e, f, g, h>>)
<1>1. CallsIn(<<a, b, c, d, e, f, g, h>>) = {a, b, c, d, e, f, g, h}
  BY DEF CallsIn
<1>2. ASSUME NEW q, q = <<a, b, c, d, e, f, g, h>>,
             NEW i \in 1..Len(q), NEW j \in 1..Len(q), i < j
      PROVE  \/ q[i] = a /\ q[j] \in {b, c, d, e, f, g, h}
             \/ q[i] = b /\ q[j] \in {c, d, e, f, g, h}
             \/ q[i] = c /\ q[j] \in {d, e, f, g, h}
             \/ q[i] = d /\ q[j] \in {e, f, g, h}
             \/ q[i] = e /\ q[j] \in {f, g, h}
             \/ q[i] = f /\ q[j] \in {g, h}
             \/ q[i] = g /\ q[j] = h
  BY <1>2
<1>3. ASSUME NEW q, q = <<a, b, c, d, e, f, g, h>>,
             NEW i \in 1..Len(q), NEW j \in 1..Len(q), i < j
      PROVE  After(T, R, q[i], q[j])
  BY <1>2, <1>3
<1>4. QED
  BY <1>1, <1>3 DEF Ordered

-----------------------------------------------------------------------------
(* The queues stay in order.                                               *)

(* Every row and every live copy is of a message that was posted.  A row   *)
(* need not be in the table of the room its message was posted in.         *)
RowsPosted ==
  \A r \in Rooms : \A i \in 1..Len(table[r]) : table[r][i] \in 1..Len(posted)

HeardPosted == \A t \in Sessions : \A m \in MessageIds : Heard(t, m) => m \in 1..Len(posted)

TypeAndEntries == TypeOK /\ OneEntryPerUser
QueueInv       == TypeAndEntries /\ QueuesOK /\ RowsPosted /\ HeardPosted

LEMMA HeadCall ==
  ASSUME TypeOK, QueuesOK, NEW s \in Sessions, todo[s] # <<>>
  PROVE  /\ todo[s] \in Seq(CallsOf(s)) /\ Tail(todo[s]) \in Seq(CallsOf(s))
         /\ NextCall(s) \in CallsIn(todo[s])
         /\ Queue(s, Tail(todo[s])) /\ MessageCall(s, todo[s], NextCall(s))
         /\ \A d \in CallsIn(Tail(todo[s])) : After(Texts, StoredMessages, NextCall(s), d)
<1>1. todo[s] \in Seq(CallsOf(s)) /\ Queue(s, todo[s])
  BY DEF TypeOK, TodoOK, QueuesOK
<1>2. PICK q \in Seq(CallsOf(s)) : q = todo[s]
  BY <1>1
<1>3. Tail(q) \in Seq(CallsOf(s)) /\ Head(q) \in CallsIn(q)
  BY <1>2, CallsInTail
<1>4. /\ Queue(s, Tail(q)) /\ MessageCall(s, q, Head(q))
      /\ \A d \in CallsIn(Tail(q)) : After(Texts, StoredMessages, Head(q), d)
  BY <1>1, <1>2, QueueTail
<1>5. QED
  BY <1>2, <1>3, <1>4 DEF NextCall

(* Another task's step: its messages are not this task's.                  *)
LEMMA OthersQueue ==
  ASSUME TypeAndEntries, QueuesOK, NEW s \in Sessions, NEW t \in Sessions, t # s, TaskStep(s)
  PROVE  Queue(t, todo[t])'
<1>1. PICK q : q = todo[t]
  OBVIOUS
<1>2. todo'[t] = q /\ Queue(t, q) /\ PostedKept
  BY <1>1, OthersStep, PostedStep DEF TaskStep, TypeAndEntries, QueuesOK
<1>3. \A c \in CallsIn(q) : c.msg # Notice => posted[c.msg].from = t
  BY <1>2 DEF Queue, MessageCall
<1>4. ASSUME todo[s] # <<>>, NextCall(s).msg # Notice
      PROVE  posted[NextCall(s).msg].from = s
  BY <1>4, HeadCall DEF TypeAndEntries, MessageCall
<1>5. ASSUME NEW c \in CallsIn(q), c.msg # Notice, c.msg \in StoredMessages'
      PROVE  c.msg \in StoredMessages
  <2>1. ASSUME c.msg \notin StoredMessages
        PROVE  FALSE
    <3>1. todo[s] # <<>> /\ NextCall(s).msg = c.msg
      BY <1>5, <2>1, StoredStep DEF TypeAndEntries
    <3>2. QED
      BY <1>3, <1>4, <1>5, <3>1
  <2>2. QED
    BY <2>1
<1>6. ASSUME NEW c \in CallsIn(q), c.msg # Notice, NEW x \in Sessions, Heard(x, c.msg)'
      PROVE  Heard(x, c.msg)
  <2>1. ASSUME ~Heard(x, c.msg)
        PROVE  FALSE
    <3>1. SendToRoom(s) /\ NextCall(s).msg = c.msg
      BY <1>6, <2>1, HeardStep DEF TypeAndEntries
    <3>2. todo[s] # <<>>
      BY <3>1 DEF SendToRoom, About
    <3>3. QED
      BY <1>3, <1>4, <1>6, <3>1, <3>2
  <2>2. QED
    BY <2>1
<1>7. Queue(t, q)'
  BY <1>2, <1>5, <1>6, QueueStays
<1>8. QED
  BY <1>2, <1>7

(* A call that returns: what was stored is not stored again, nor replayed  *)
(* before; what was sent is not sent again.                                *)
LEMMA ReturnedQueue ==
  ASSUME TypeAndEntries, QueuesOK, NEW s \in Sessions, TaskStep(s), todo[s] # <<>>,
         todo'[s] = Tail(todo[s])
  PROVE  Queue(s, todo[s])'
<1>1. PICK q : q = Tail(todo[s])
  OBVIOUS
<1>2. /\ todo'[s] = q /\ Queue(s, q) /\ PostedKept
      /\ \A d \in CallsIn(q) : After(Texts, StoredMessages, NextCall(s), d)
  BY <1>1, HeadCall, PostedStep DEF TypeAndEntries
<1>3. ASSUME NEW c \in CallsIn(q), c.msg \in StoredMessages', c.msg \notin StoredMessages
      PROVE  \A d \in CallsIn(q) : d.op \notin Entering \cup Stores
  <2>1. NextCall(s).op \in Stores
    BY <1>3, StoredStep DEF TypeAndEntries
  <2>2. QED
    BY <1>2, <2>1 DEF After, Stores, Entering
<1>4. ASSUME NEW c \in CallsIn(q), c.op = "broadcast", c.msg # Notice, NEW x \in Sessions,
             Heard(x, c.msg)'
      PROVE  Heard(x, c.msg)
  <2>1. ASSUME ~Heard(x, c.msg)
        PROVE  FALSE
    <3>1. NextCall(s).op = "broadcast" /\ NextCall(s).msg = c.msg
      BY <1>4, <2>1, HeardStep DEF TypeAndEntries, SendToRoom, About
    <3>2. QED
      BY <1>2, <1>4, <3>1 DEF After
  <2>2. QED
    BY <2>1
<1>5. Queue(s, q)'
  BY <1>2, <1>3, <1>4, QueueStays
<1>6. QED
  BY <1>2, <1>5

(* A read that decides the rest of the handler.                            *)
LEMMA DecidedQueue ==
  ASSUME TypeAndEntries, NEW s \in Sessions, NEW q, Queue(s, q), todo'[s] = q,
         UNCHANGED <<posted, table, inbox>>
  PROVE  Queue(s, todo[s])'
<1>1. PostedKept /\ StoredMessages' = StoredMessages
  BY DEF PostedKept, StoredMessages
<1>2. \A t \in Sessions : \A m : Heard(t, m)' <=> Heard(t, m)
  BY DEF Heard
<1>3. Queue(s, q)'
  BY <1>1, <1>2, QueueStays
<1>4. QED
  BY <1>3

(* The notices that may stand anywhere but before a text's insert.         *)
Plain == {"register", "subscribe", "set_active", "broadcast", "remove",
          "goodbye", "leave_all", "unregister"}

LEMMA PlainFirst ==
  ASSUME NEW T, NEW R, NEW c, NEW d, c.msg = Notice, c.op \in Plain,
         ~(d.op = "insert" /\ d.msg \in T), d.op # "unsubscribe"
  PROVE  After(T, R, c, d)
BY DEF After, Plain, Entering, Stores

LEMMA NoticePair ==
  ASSUME NEW T, NEW R, NEW c, NEW d, c.msg = Notice, d.msg = Notice, d.op # "insert",
         c.op \notin Stores \cup {"unsubscribe", "fallback", "get_sender"}, d.op # "unsubscribe",
         c.op \in {"replay", "save"} => d.op # "subscribe",
         c.op \in {"memberships", "resume"} => d.op = "subscribe"
  PROVE  After(T, R, c, d)
BY DEF After

LEMMA PlainNotices ==
  ASSUME NEW s, NEW q, \A c \in CallsIn(q) : c.msg = Notice /\ c.op \in Plain
  PROVE  Queue(s, q)
<1>1. \A c, d \in CallsIn(q) : After(Texts, StoredMessages, c, d)
  BY PlainFirst DEF Plain
<1>2. \A i \in 1..Len(q) : q[i] \in CallsIn(q)
  BY DEF CallsIn
<1>3. QED
  BY <1>1, <1>2 DEF Queue, Ordered, MessageCall

(* A call of the task that carries no message.                             *)
LEMMA OwnCall ==
  ASSUME NEW s \in Sessions, NEW op \in Ops \ {"insert", "insert_ok", "get_sender"}, NEW r \in Rooms
  PROVE  /\ Own(s, op, r) \in CallsOf(s) /\ Own(s, op, r).op = op
         /\ Own(s, op, r).msg = Notice /\ Own(s, op, r).room = r
<1>1. Own(s, op, r) \in CallsOf(s)
  BY OwnType
<1>2. QED
  BY <1>1 DEF Own, Call

(* A sequence of like calls, one for each room of a list.                  *)
LEMMA OwnCalls ==
  ASSUME NEW s \in Sessions, NEW op \in {"subscribe", "broadcast"}, NEW found \in Seq(Rooms)
  PROVE  LET q == [i \in 1..Len(found) |-> Own(s, op, found[i])] IN
         /\ q \in Seq(CallsOf(s))
         /\ \A c \in CallsIn(q) : c.op = op /\ c.msg = Notice
         /\ Queue(s, q)
<1> DEFINE q == [i \in 1..Len(found) |-> Own(s, op, found[i])]
<1>1. \A i \in 1..Len(found) :
        /\ Own(s, op, found[i]) \in CallsOf(s) /\ Own(s, op, found[i]).op = op
        /\ Own(s, op, found[i]).msg = Notice
  BY OwnCall, ElementOfSeq DEF Ops
<1>2. q \in Seq(CallsOf(s)) /\ Len(q) = Len(found)
  BY <1>1, IsASeq, LenProperties
<1>3. \A c \in CallsIn(q) : c.op = op /\ c.msg = Notice
  BY <1>1, <1>2 DEF CallsIn
<1> HIDE DEF q
<1>4. Queue(s, q)
  BY <1>3, PlainNotices DEF Plain
<1>5. QED
  BY <1>2, <1>3, <1>4 DEF q

(* What is left of a queue, and its place after the call at the head.      *)
LEMMA PendingCalls ==
  ASSUME TypeOK, QueuesOK, NEW s \in Sessions, todo[s] # <<>>, NEW d \in CallsIn(Tail(todo[s]))
  PROVE  d \in CallsOf(s) /\ After(Texts, StoredMessages, NextCall(s), d)
<1>1. PICK tl : tl = Tail(todo[s])
  OBVIOUS
<1>2. tl \in Seq(CallsOf(s)) /\ After(Texts, StoredMessages, NextCall(s), d) /\ d \in CallsIn(tl)
  BY <1>1, HeadCall
<1>3. QED
  BY <1>2, ElementOfSeq DEF CallsIn

(* Calls put in front of what is left.                                     *)
LEMMA PrefixQueue ==
  ASSUME TypeAndEntries, QueuesOK, NEW s \in Sessions, todo[s] # <<>>,
         NEW p \in Seq(CallsOf(s)), Queue(s, p), Then(s, p), UNCHANGED <<posted, table, inbox>>,
         \A c \in CallsIn(p), d \in CallsIn(Tail(todo[s])) : After(Texts, StoredMessages, c, d)
  PROVE  Queue(s, todo[s])'
<1>1. PICK tl : tl = Tail(todo[s])
  OBVIOUS
<1>2. tl \in Seq(CallsOf(s)) /\ Queue(s, tl)
  BY <1>1, HeadCall DEF TypeAndEntries
<1>3. \A c \in CallsIn(p), d \in CallsIn(tl) : After(Texts, StoredMessages, c, d)
  BY <1>1
<1>4. Queue(s, p \o tl)
  BY <1>2, <1>3, QueueBetween
<1>5. todo'[s] = p \o tl
  BY <1>1 DEF Then, TypeAndEntries, TypeOK, TodoOK
<1>6. QED
  BY <1>4, <1>5, DecidedQueue

LEMMA MembershipsQueue ==
  ASSUME TypeAndEntries, QueuesOK, NEW s \in Sessions, About(s, "memberships"),
         NEW found \in Seq(Rooms), MembershipsAre(s, found), UNCHANGED <<posted, table, inbox>>
  PROVE  Queue(s, todo[s])'
<1> DEFINE subs == [i \in 1..Len(found) |-> Own(s, "subscribe", found[i])]
           r == Own(s, "resume", General)
<1>1. todo[s] # <<>> /\ NextCall(s).op = "memberships"
  BY DEF About
<1>2. ASSUME NEW d \in CallsIn(Tail(todo[s]))
      PROVE  d.op = "subscribe" /\ d.msg = Notice
  BY <1>1, PendingCalls DEF TypeAndEntries, After, CallsOf
<1>3. PICK q, f : q = subs /\ f = r
  OBVIOUS
<1>4. /\ q \in Seq(CallsOf(s)) /\ Queue(s, q)
      /\ \A c \in CallsIn(q) : c.op = "subscribe" /\ c.msg = Notice
  BY <1>3, OwnCalls
<1>5. f \in CallsOf(s) /\ f.op = "resume" /\ f.msg = Notice
  BY <1>3, OwnCall, RoomFacts DEF Ops
<1>6. Then(s, <<f>> \o q)
  BY <1>3 DEF MembershipsAre
<1> HIDE DEF subs, r
<1>7. \A d \in CallsIn(q) : After(Texts, StoredMessages, f, d)
  <2>1. f.op \notin Stores
    BY <1>5 DEF Stores
  <2>2. QED
    BY <1>4, <1>5, <2>1, NoticePair
<1>8. /\ <<f>> \o q \in Seq(CallsOf(s)) /\ Queue(s, <<f>> \o q)
      /\ CallsIn(<<f>> \o q) = {f} \cup CallsIn(q)
  <2>1. f \in CallsOf(s) /\ q \in Seq(CallsOf(s)) /\ f.msg = Notice /\ Queue(s, q)
    BY <1>4, <1>5
  <2>2. QED
    BY <1>7, <2>1, NoticeInFront
<1>9. ASSUME NEW d \in CallsIn(Tail(todo[s])), NEW c \in {f} \cup CallsIn(q)
      PROVE  After(Texts, StoredMessages, c, d)
  BY <1>2, <1>4, <1>5, NoticePair DEF Stores, Entering
<1>10. PICK p : p = <<f>> \o q
  OBVIOUS
<1>11. QED
  BY <1>1, <1>6, <1>8, <1>9, <1>10, PrefixQueue

(* What a room is entered with after /leave: the insert of a text is not   *)
(* pending, nor is a subscription, and what is pending is not stored.      *)
LEMMA FallbackQueue ==
  ASSUME TypeAndEntries, QueuesOK, NEW s \in Sessions, About(s, "fallback"),
         NEW room \in Rooms, FallBackTo(s, room), UNCHANGED <<posted, table, inbox>>
  PROVE  Queue(s, todo[s])'
<1>1. todo[s] # <<>> /\ NextCall(s).op = "fallback"
  BY DEF About
<1>2. PICK a, b, c : /\ a = Own(s, "subscribe", room) /\ b = Own(s, "set_active", room)
                    /\ c = Own(s, "replay", room)
  OBVIOUS
<1>3. /\ a \in CallsOf(s) /\ a.op = "subscribe" /\ a.msg = Notice
      /\ b \in CallsOf(s) /\ b.op = "set_active" /\ b.msg = Notice
      /\ c \in CallsOf(s) /\ c.op = "replay" /\ c.msg = Notice
  BY <1>2, OwnCall DEF Ops
<1>4. /\ \A y \in {b, c} : After(Texts, StoredMessages, a, y)
      /\ After(Texts, StoredMessages, b, c)
  BY <1>3, PlainFirst DEF Plain
<1>5. PICK l : l = <<a, b, c>>
  OBVIOUS
<1>6. CallsIn(l) = {a, b, c} /\ Ordered(Texts, StoredMessages, l)
  BY <1>4, <1>5, ThreeCalls
<1>7. l \in Seq(CallsOf(s)) /\ Queue(s, l)
  BY <1>3, <1>5, <1>6 DEF Queue, MessageCall
<1>8. ASSUME NEW d \in CallsIn(Tail(todo[s])), NEW x \in {a, b, c}
      PROVE  After(Texts, StoredMessages, x, d)
  <2>1. /\ d.op # "subscribe" /\ d.op # "unsubscribe"
        /\ d.msg # Notice => d.msg \notin StoredMessages
        /\ ~(d.op = "insert" /\ d.msg \in Texts)
    BY <1>1, PendingCalls DEF TypeAndEntries, After, Entering
  <2>2. CASE x = c
    <3>1. x.op = "replay" /\ x.msg = Notice
      BY <1>3, <2>2
    <3>2. QED
      BY <2>1, <3>1 DEF After, Stores, Entering
  <2>3. CASE x # c
    BY <1>3, <1>8, <2>1, <2>3, PlainFirst DEF Plain
  <2>4. QED
    BY <2>2, <2>3
<1>9. Then(s, l)
  BY <1>2, <1>5 DEF FallBackTo
<1>10. QED
  BY <1>1, <1>6, <1>7, <1>8, <1>9, PrefixQueue

-----------------------------------------------------------------------------
(* Where a user comes back to: the list of rooms to subscribe to, then the *)
(* room itself.                                                            *)
LEMMA ResumeQueue ==
  ASSUME TypeAndEntries, QueuesOK, NEW s \in Sessions, About(s, "resume"),
         NEW room \in Rooms, ResumeIn(s, room), UNCHANGED <<posted, table, inbox>>
  PROVE  Queue(s, todo[s])'
<1>1. todo[s] # <<>> /\ NextCall(s).op = "resume"
  BY DEF About
<1>2. PICK p : p = Tail(todo[s])
  OBVIOUS
<1>3. p \in Seq(CallsOf(s)) /\ Queue(s, p)
  BY <1>1, <1>2, HeadCall DEF TypeAndEntries
<1>4. ASSUME NEW d \in CallsIn(p)
      PROVE  d.op = "subscribe" /\ d.msg = Notice
  BY <1>1, <1>2, PendingCalls DEF TypeAndEntries, After
<1>5. PICK n, a, b, c, d : /\ n = Own(s, "subscribe", room) /\ a = Own(s, "set_active", room)
                          /\ b = Own(s, "save", room) /\ c = Own(s, "replay", room)
                          /\ d = Own(s, "broadcast", room)
  OBVIOUS
<1>6. /\ n \in CallsOf(s) /\ n.op = "subscribe" /\ n.msg = Notice
      /\ a \in CallsOf(s) /\ a.op = "set_active" /\ a.msg = Notice
      /\ b \in CallsOf(s) /\ b.op = "save" /\ b.msg = Notice
      /\ c \in CallsOf(s) /\ c.op = "replay" /\ c.msg = Notice
      /\ d \in CallsOf(s) /\ d.op = "broadcast" /\ d.msg = Notice
  BY <1>5, OwnCall DEF Ops
<1>7. PICK e : e = IF \E i \in 1..Len(p) : p[i].room = room THEN <<>> ELSE <<n>>
  OBVIOUS
<1>8. PICK l : l = <<a, b, c, d>>
  OBVIOUS
<1>9. todo'[s] = p \o e \o l
  BY <1>2, <1>5, <1>7, <1>8 DEF ResumeIn, TypeAndEntries, TypeOK, TodoOK
<1>10. e \in Seq(CallsOf(s)) /\ Queue(s, e) /\ CallsIn(e) \subseteq {n}
  <2>1. <<>> \in Seq(CallsOf(s)) /\ <<n>> \in Seq(CallsOf(s))
    BY <1>6, EmptySeq
  <2>2. MessageCall(s, <<n>>, n)
    BY <1>6 DEF MessageCall
  <2>3. Queue(s, <<n>>) /\ CallsIn(<<n>>) = {n} /\ Queue(s, <<>>) /\ CallsIn(<<>>) = {}
    BY <2>2, OneOrNone DEF Queue
  <2>4. QED
    BY <1>7, <2>1, <2>3
<1>11. /\ \A y \in {b, c, d} : After(Texts, StoredMessages, a, y)
       /\ \A y \in {c, d} : After(Texts, StoredMessages, b, y)
       /\ After(Texts, StoredMessages, c, d)
  BY <1>6, NoticePair DEF Stores, Entering
<1>12. CallsIn(l) = {a, b, c, d} /\ Ordered(Texts, StoredMessages, l)
  BY <1>8, <1>11, FourCalls
<1>13. l \in Seq(CallsOf(s)) /\ Queue(s, l)
  BY <1>6, <1>8, <1>12 DEF Queue, MessageCall
<1>14. \A x \in CallsIn(p), y \in {n, a, b, c, d} : After(Texts, StoredMessages, x, y)
  BY <1>4, <1>6, NoticePair DEF Stores
<1>15. \A x \in CallsIn(e), y \in CallsIn(l) : After(Texts, StoredMessages, x, y)
  BY <1>6, <1>10, <1>12, PlainFirst DEF Plain
<1>16. PICK f : f = p \o e
  OBVIOUS
<1>17. f \in Seq(CallsOf(s)) /\ CallsIn(f) = CallsIn(p) \cup CallsIn(e)
  BY <1>3, <1>10, <1>16, CallsInConcat
<1>18. Queue(s, f)
  <2>1. \A x \in CallsIn(p), y \in CallsIn(e) : After(Texts, StoredMessages, x, y)
    BY <1>10, <1>14
  <2>2. QED
    BY <1>3, <1>10, <1>16, <2>1, QueueBetween
<1>19. \A x \in CallsIn(f), y \in CallsIn(l) : After(Texts, StoredMessages, x, y)
  BY <1>12, <1>14, <1>15, <1>17
<1>20. Queue(s, f \o l)
  BY <1>13, <1>17, <1>18, <1>19, QueueBetween
<1>21. QED
  BY <1>9, <1>16, <1>20, DecidedQueue

(* The target of a DM is looked up: nothing is left before the send.       *)
LEMMA GetSenderQueue ==
  ASSUME TypeAndEntries, QueuesOK, NEW s \in Sessions, GetSender(s)
  PROVE  Queue(s, todo[s])'
<1>1. todo[s] # <<>> /\ NextCall(s).op = "get_sender" /\ UNCHANGED <<posted, table, inbox>>
  BY DEF GetSender, About, database
<1> DEFINE tx == user_senders[NextCall(s).user]
<1>2. CASE tx = NoSession
  <2>1. todo'[s] = Tail(todo[s])
    BY <1>1, <1>2, ReturnsTail DEF GetSender, Return, TypeAndEntries
  <2>2. QED
    BY <1>1, <2>1, ReturnedQueue DEF TaskStep, HandlerStep
<1>3. CASE tx # NoSession
  <2>1. PICK c : c = PassOn(s, tx)
    OBVIOUS
  <2>2. c.op = "subscribe" /\ c.msg = Notice
    BY <2>1 DEF PassOn, Call
  <2>3. c \in CallsOf(s)
    <3>1. tx \in Sessions /\ Owner[tx] = NextCall(s).user
      BY <1>1, <1>3, NextCallType DEF TypeAndEntries, TypeOK, SendersOK
    <3>2. NextCall(s).user \in Users /\ NextCall(s).room \in DmRooms /\ NextCall(s).room \in Rooms
      BY <1>1, NextCallType DEF TypeAndEntries
    <3> HIDE DEF tx
    <3>3. QED
      BY <2>1, <3>1, <3>2, CallType DEF PassOn, Ops
  <2>4. PICK p : p = <<c>>
    OBVIOUS
  <2>5. p \in Seq(CallsOf(s)) /\ CallsIn(p) = {c} /\ Queue(s, p)
    BY <2>2, <2>3, <2>4, OneOrNone DEF Queue, MessageCall
  <2>6. ASSUME NEW d \in CallsIn(Tail(todo[s]))
        PROVE  ~(d.op = "insert" /\ d.msg \in Texts) /\ d.op # "unsubscribe"
    BY <1>1, PendingCalls DEF TypeAndEntries, After
  <2>7. \A x \in CallsIn(p), d \in CallsIn(Tail(todo[s])) : After(Texts, StoredMessages, x, d)
    BY <2>2, <2>5, <2>6, PlainFirst DEF Plain
  <2>8. Then(s, p)
    BY <1>3, <2>1, <2>4 DEF GetSender
  <2>9. QED
    BY <1>1, <2>5, <2>7, <2>8, PrefixQueue
<1>4. QED
  BY <1>2, <1>3

(* The leave notices of a connection that ends.                            *)
LEMMA GoodbyeQueue ==
  ASSUME TypeAndEntries, QueuesOK, NEW s \in Sessions, ReadSubscribedRooms(s)
  PROVE  Queue(s, todo[s])'
<1>1. todo[s] # <<>> /\ NextCall(s).op = "goodbye" /\ UNCHANGED <<posted, table, inbox>>
  BY DEF ReadSubscribedRooms, About, database
<1>2. PICK order \in SetToSeqs(get_user_subscribed_rooms(rooms, Owner[s])) :
        Then(s, [i \in 1..Len(order) |-> Own(s, "broadcast", order[i])])
  BY DEF ReadSubscribedRooms
<1>3. order \in Seq(Rooms)
  BY GoodbyeOrder, ServerAssumption DEF TypeAndEntries
<1>4. PICK p : p = [i \in 1..Len(order) |-> Own(s, "broadcast", order[i])]
  OBVIOUS
<1>5. /\ p \in Seq(CallsOf(s)) /\ Queue(s, p)
      /\ \A c \in CallsIn(p) : c.op = "broadcast" /\ c.msg = Notice
  BY <1>3, <1>4, OwnCalls
<1>6. ASSUME NEW d \in CallsIn(Tail(todo[s]))
      PROVE  ~(d.op = "insert" /\ d.msg \in Texts) /\ d.op # "unsubscribe"
  BY <1>1, PendingCalls DEF TypeAndEntries, After
<1>7. \A c \in CallsIn(p), d \in CallsIn(Tail(todo[s])) : After(Texts, StoredMessages, c, d)
  BY <1>5, <1>6, PlainFirst DEF Plain
<1>8. Then(s, p)
  BY <1>2, <1>4
<1>9. QED
  BY <1>1, <1>5, <1>7, <1>8, PrefixQueue

(* A task that panics has no calls left.                                   *)
LEMMA EmptiedQueue ==
  ASSUME NEW s \in Sessions, todo'[s] = <<>>
  PROVE  Queue(s, todo[s])'
<1>1. CallsIn(<<>>) = {} /\ Ordered(Texts', StoredMessages', <<>>)
  BY OneOrNone
<1>2. QED
  BY <1>1 DEF Queue

LEMMA HandlerQueue ==
  ASSUME TypeAndEntries, QueuesOK, NEW s \in Sessions, HandlerStep(s)
  PROVE  Queue(s, todo[s])'
<1>0. Owner[s] \in Users /\ memberships \in [Users -> Seq(Rooms)]
  BY ServerAssumption DEF TypeAndEntries, TypeOK
<1>1. CASE ReadMemberships(s)
  BY <1>0, <1>1, MembershipsQueue DEF ReadMemberships, database
<1>2. CASE ReadLastRoom(s)
  BY <1>0, <1>2, LastRoomType, ResumeQueue DEF ReadLastRoom, database
<1>3. CASE ReadFallback(s)
  BY <1>0, <1>3, LastRoomType, FallbackQueue DEF ReadFallback, database
<1>4. CASE GetSender(s)
  BY <1>4, GetSenderQueue
<1>5. CASE ReadSubscribedRooms(s)
  BY <1>5, GoodbyeQueue
<1>6. ASSUME Return(s), todo[s] # <<>>
      PROVE  Queue(s, todo[s])'
  BY <1>6, ReturnsTail, ReturnedQueue DEF TaskStep, TypeAndEntries
<1>7. QED
  BY <1>1, <1>2, <1>3, <1>4, <1>5, <1>6 DEF HandlerStep, About, RegisterSender, SubscribeRoom,
       SetActiveRoom, SaveMembership, ReplayHistory, SendToRoom, InsertMessage,
       RemoveMembership, UnsubscribeRoom, LeaveAllRooms, UnregisterSender

LEMMA FailureQueue ==
  ASSUME TypeAndEntries, QueuesOK, NEW s \in Sessions, StatementFails(s)
  PROVE  Queue(s, todo[s])'
<1>0. UNCHANGED <<posted, table, inbox>> /\ <<>> \in Seq(Rooms) /\ General \in Rooms
  BY EmptySeq, RoomFacts DEF StatementFails, database
<1>1. CASE Return(s) /\ todo[s] # <<>>
  BY <1>1, ReturnsTail, ReturnedQueue DEF TaskStep, TypeAndEntries
<1>2. CASE About(s, "memberships") /\ MembershipsAre(s, <<>>)
  BY <1>0, <1>2, MembershipsQueue
<1>3. CASE About(s, "resume") /\ ResumeIn(s, General)
  BY <1>0, <1>3, ResumeQueue
<1>4. CASE About(s, "fallback") /\ FallBackTo(s, General)
  BY <1>0, <1>4, FallbackQueue
<1>5. CASE Panic(s)
  BY <1>5, EmptiedQueue DEF Panic, TypeAndEntries, TypeOK, TodoOK
<1>6. QED
  BY <1>1, <1>2, <1>3, <1>4, <1>5 DEF StatementFails, About

LEMMA RoomIdFailsQueue ==
  ASSUME TypeAndEntries, QueuesOK, NEW s \in Sessions, RoomIdFails(s)
  PROVE  Queue(s, todo[s])'
<1>1. todo[s] # <<>> /\ Return(s)
  BY RoomIdFailsFacts
<1>2. QED
  BY <1>1, ReturnsTail, ReturnedQueue DEF TaskStep, TypeAndEntries

-----------------------------------------------------------------------------
(* What a handler begins with.                                             *)
LEMMA BegunQueue ==
  ASSUME TypeAndEntries, NEW s \in Sessions, NEW q, Begin(s, q),
         Ordered(Texts', StoredMessages', q), \A c \in CallsIn(q) : MessageCall(s, q, c)'
  PROVE  Queue(s, todo[s])'
<1>1. todo'[s] = q
  BY DEF Begin, TypeAndEntries, TypeOK, TodoOK
<1>2. QED
  BY <1>1 DEF Queue

LEMMA NoticesBegin ==
  ASSUME TypeAndEntries, NEW s \in Sessions, NEW q, Begin(s, q),
         \A T, R : Ordered(T, R, q), \A c \in CallsIn(q) : c.msg = Notice
  PROVE  Queue(s, todo[s])'
BY BegunQueue DEF MessageCall

(* A message is new when it is posted: neither stored nor heard.           *)
LEMMA ComposedMessage ==
  ASSUME TypeAndEntries, RowsPosted, HeardPosted, NEW s \in Sessions, NEW room \in Rooms,
         NEW path \in {"text", "dm", "media"}, NEW m, m = FreshId,
         Compose(s, room, path), UNCHANGED <<table, inbox>>
  PROVE  /\ m # Notice
         /\ m \in 1..Len(posted')
         /\ posted'[m].from = s
         /\ posted'[m].room = room
         /\ m \notin StoredMessages'
         /\ \A t \in Sessions : ~Heard(t, m)'
         /\ m \in Texts' <=> path = "text"
<1>1. posted \in Seq(Posts) /\ Len(posted) \in Nat
  BY LenProperties DEF TypeAndEntries, TypeOK
<1>2. PICK x : x = [from |-> s, room |-> room, path |-> path]
  OBVIOUS
<1>3. x \in Posts /\ x.from = s /\ x.room = room /\ x.path = path
  BY <1>2 DEF Posts
<1>4. /\ Len(posted') = Len(posted) + 1 /\ posted'[Len(posted) + 1] = x
      /\ Len(posted) < MaxMessages
  BY <1>1, <1>2, <1>3, AppendProperties DEF Compose
<1>5. m \in MessageIds /\ m # Notice /\ m \in 1..Len(posted') /\ posted'[m] = x
  BY <1>1, <1>2, <1>4, ServerAssumption DEF FreshId, MessageIds, Notice
<1>6. m \notin 1..Len(posted)
  BY <1>1, <1>2 DEF FreshId
<1>7. m \notin StoredMessages'
  BY <1>6 DEF RowsPosted, StoredMessages
<1>8. \A t \in Sessions : ~Heard(t, m)'
  BY <1>5, <1>6 DEF HeardPosted, Heard
<1>9. m \in Texts' <=> path = "text"
  BY <1>3, <1>5 DEF Texts
<1>10. QED
  BY <1>3, <1>5, <1>7, <1>8, <1>9

(* A call that carries a message.                                          *)
LEMMA CallParts ==
  ASSUME NEW op, NEW u, NEW t, NEW r, NEW m
  PROVE  /\ Call(op, u, t, r, m).op = op /\ Call(op, u, t, r, m).msg = m
         /\ Call(op, u, t, r, m).room = r
BY DEF Call

LEMMA TextQueue ==
  ASSUME TypeAndEntries, RowsPosted, HeardPosted, NEW s \in Sessions, Text(s)
  PROVE  Queue(s, todo[s])'
<1>1. PICK m, room, a, b :
        /\ m = FreshId /\ room = get_user_room(s)
        /\ a = Call("broadcast", Owner[s], s, room, m) /\ b = Call("insert", Owner[s], s, room, m)
  OBVIOUS
<1>2. /\ a.op = "broadcast" /\ a.msg = m /\ a.room = room
      /\ b.op = "insert" /\ b.msg = m /\ b.room = room
  BY <1>1, CallParts
<1>3. room \in Rooms
  BY <1>1, ServerAssumption DEF get_user_room, TypeAndEntries, TypeOK
<1>4. /\ m # Notice /\ m \in 1..Len(posted') /\ posted'[m].from = s /\ posted'[m].room = room
      /\ m \notin StoredMessages' /\ \A t \in Sessions : ~Heard(t, m)'
      /\ m \in Texts'
  BY <1>1, <1>3, ComposedMessage DEF Text, ReadLine
<1>5. PICK q : q = <<a, b>>
  OBVIOUS
<1>6. After(Texts', StoredMessages', a, b)
  BY <1>2, <1>4 DEF After, Stores, Entering
<1>7. CallsIn(q) = {a, b} /\ Ordered(Texts', StoredMessages', q)
  BY <1>5, <1>6, TwoCalls
<1>8. MessageCall(s, q, a)' /\ MessageCall(s, q, b)'
  BY <1>2, <1>4 DEF MessageCall, Stores
<1>9. Begin(s, q)
  BY <1>1, <1>5 DEF Text
<1>10. QED
  BY <1>7, <1>8, <1>9, BegunQueue

LEMMA MediaQueue ==
  ASSUME TypeAndEntries, RowsPosted, HeardPosted, NEW s \in Sessions, Media(s)
  PROVE  Queue(s, todo[s])'
<1>1. PICK m, room, a, b :
        /\ m = FreshId /\ room = get_user_room(s)
        /\ a = Call("insert_ok", Owner[s], s, room, m) /\ b = Call("broadcast", Owner[s], s, room, m)
  OBVIOUS
<1>2. /\ a.op = "insert_ok" /\ a.msg = m /\ a.room = room
      /\ b.op = "broadcast" /\ b.msg = m /\ b.room = room
  BY <1>1, CallParts
<1>3. room \in Rooms
  BY <1>1, ServerAssumption DEF get_user_room, TypeAndEntries, TypeOK
<1>4. /\ m # Notice /\ m \in 1..Len(posted') /\ posted'[m].from = s /\ posted'[m].room = room
      /\ m \notin StoredMessages' /\ \A t \in Sessions : ~Heard(t, m)'
      /\ m \notin Texts'
  BY <1>1, <1>3, ComposedMessage DEF Media, ReadLine
<1>5. PICK q : q = <<a, b>>
  OBVIOUS
<1>6. After(Texts', StoredMessages', a, b)
  BY <1>2, <1>4 DEF After, Stores, Entering
<1>7. CallsIn(q) = {a, b} /\ Ordered(Texts', StoredMessages', q)
  BY <1>5, <1>6, TwoCalls
<1>8. MessageCall(s, q, a)' /\ MessageCall(s, q, b)'
  BY <1>2, <1>4, <1>7 DEF MessageCall, Stores, Sends
<1>9. Begin(s, q)
  BY <1>1, <1>5 DEF Media
<1>10. QED
  BY <1>7, <1>8, <1>9, BegunQueue

LEMMA MsgQueue ==
  ASSUME TypeAndEntries, RowsPosted, HeardPosted, NEW s \in Sessions, NEW v \in Users, Msg(s, v)
  PROVE  Queue(s, todo[s])'
<1>1. PICK m, dm, u : m = FreshId /\ dm = dm_room(Owner[s], v) /\ u = Owner[s]
  OBVIOUS
<1>2. dm \in Rooms
  BY <1>1, RoomFacts, ServerAssumption DEF Msg
<1>3. /\ m # Notice /\ m \in 1..Len(posted') /\ posted'[m].from = s /\ posted'[m].room = dm
      /\ m \notin StoredMessages' /\ \A t \in Sessions : ~Heard(t, m)'
      /\ m \notin Texts'
  BY <1>1, <1>2, ComposedMessage DEF Msg, ReadLine
<1>4. PICK a, b, c, d, e, f, g, h :
        /\ a = Own(s, "subscribe", dm) /\ b = Own(s, "set_active", dm)
        /\ c = Own(s, "save", dm) /\ d = Own(s, "replay", dm)
        /\ e = Call("insert", u, s, dm, m) /\ f = Call("save", v, s, dm, Notice)
        /\ g = Call("get_sender", v, s, dm, Notice) /\ h = Call("broadcast", u, s, dm, m)
  OBVIOUS
<1>5. /\ a.op = "subscribe" /\ b.op = "set_active" /\ c.op = "save" /\ d.op = "replay"
      /\ a.msg = Notice /\ b.msg = Notice /\ c.msg = Notice /\ d.msg = Notice
  BY <1>2, <1>4, OwnCall DEF Ops
<1>6. /\ e.op = "insert" /\ e.msg = m /\ e.room = dm /\ f.op = "save" /\ f.msg = Notice
      /\ g.op = "get_sender" /\ g.msg = Notice /\ h.op = "broadcast" /\ h.msg = m /\ h.room = dm
  BY <1>4, CallParts
<1>7. PICK q : q = <<a, b, c, d, e, f, g, h>>
  OBVIOUS
<1>8. /\ \A x \in {a, b} : \A y \in {b, c, d, e, f, g, h} : After(Texts', StoredMessages', x, y)
      /\ After(Texts', StoredMessages', g, h)
  <2>1. \A x \in {a, b} : \A y \in {b, c, d, e, f, g, h} : After(Texts', StoredMessages', x, y)
    BY <1>3, <1>5, <1>6, PlainFirst DEF Plain
  <2>2. After(Texts', StoredMessages', g, h)
    BY <1>3, <1>6 DEF After, Stores, Entering
  <2>3. QED
    BY <2>1, <2>2
<1>9. ASSUME NEW x \in {c, d, f}, NEW y \in {d, e, f, g, h}
      PROVE  After(Texts', StoredMessages', x, y)
  <2>1. x.msg = Notice /\ x.op \in {"save", "replay"} /\ y.op \notin {"subscribe", "unsubscribe"}
    BY <1>5, <1>6, <1>9
  <2>2. y.msg = m \/ (y.msg = Notice /\ y.op # "insert")
    BY <1>5, <1>6, <1>9
  <2>3. QED
    BY <1>3, <2>1, <2>2 DEF After, Stores
<1>10. ASSUME NEW y \in {f, g, h}
       PROVE  After(Texts', StoredMessages', e, y)
  BY <1>3, <1>6, <1>10 DEF After, Stores, Entering
<1>11. CallsIn(q) = {a, b, c, d, e, f, g, h} /\ Ordered(Texts', StoredMessages', q)
  BY <1>7, <1>8, <1>9, <1>10, EightCalls
<1>12. \A x \in {a, b, c, d, f, g} : MessageCall(s, q, x)'
  BY <1>5, <1>6 DEF MessageCall
<1>13. MessageCall(s, q, e)' /\ MessageCall(s, q, h)'
  BY <1>3, <1>6, <1>11 DEF MessageCall, Stores, Sends
<1>14. Begin(s, q)
  BY <1>1, <1>4, <1>7 DEF Msg
<1>15. QED
  BY <1>11, <1>12, <1>13, <1>14, BegunQueue

LEMMA JoinQueue ==
  ASSUME TypeAndEntries, NEW s \in Sessions, NEW room \in Rooms, Join(s, room)
  PROVE  Queue(s, todo[s])'
<1>1. PICK a, b, c, d, e :
        /\ a = Own(s, "subscribe", room) /\ b = Own(s, "set_active", room)
        /\ c = Own(s, "save", room) /\ d = Own(s, "replay", room)
        /\ e = Own(s, "broadcast", room)
  OBVIOUS
<1>2. /\ a \in CallsOf(s) /\ a.op = "subscribe" /\ a.msg = Notice
      /\ b \in CallsOf(s) /\ b.op = "set_active" /\ b.msg = Notice
      /\ c \in CallsOf(s) /\ c.op = "save" /\ c.msg = Notice
      /\ d \in CallsOf(s) /\ d.op = "replay" /\ d.msg = Notice
      /\ e \in CallsOf(s) /\ e.op = "broadcast" /\ e.msg = Notice
  BY <1>1, OwnCall DEF Ops
<1>3. PICK p : p = <<a, b, c, d>>
  OBVIOUS
<1>4. PICK l : (l = <<e>> \/ l = <<>>) /\ Begin(s, p \o l)
  BY <1>1, <1>3 DEF Join
<1>5. p \in Seq(CallsOf(s)) /\ l \in Seq(CallsOf(s))
  <2>1. p \in Seq(CallsOf(s))
    BY <1>2, <1>3
  <2>2. <<e>> \in Seq(CallsOf(s)) /\ <<>> \in Seq(CallsOf(s))
    BY <1>2, EmptySeq
  <2>3. QED
    BY <1>4, <2>1, <2>2
<1>6. ASSUME NEW T, NEW R
      PROVE  /\ CallsIn(p) = {a, b, c, d} /\ CallsIn(l) \subseteq {e}
             /\ Ordered(T, R, p) /\ Ordered(T, R, l)
  <2>1. /\ \A y \in {b, c, d} : After(T, R, a, y)
        /\ \A y \in {c, d} : After(T, R, b, y)
        /\ After(T, R, c, d)
    BY <1>2, NoticePair DEF Stores, Entering
  <2>2. CallsIn(p) = {a, b, c, d} /\ Ordered(T, R, p)
    BY <1>3, <2>1, FourCalls
  <2>3. CallsIn(l) \subseteq {e} /\ Ordered(T, R, l)
    <3>1. /\ CallsIn(<<>>) = {} /\ Ordered(T, R, <<>>)
          /\ CallsIn(<<e>>) = {e} /\ Ordered(T, R, <<e>>)
      BY OneOrNone
    <3>2. QED
      BY <1>4, <3>1
  <2>4. QED
    BY <2>2, <2>3
<1>7. ASSUME NEW T, NEW R
      PROVE  Ordered(T, R, p \o l)
  <2>1. \A x \in {a, b, c, d} : After(T, R, x, e)
    BY <1>2, NoticePair DEF Stores, Entering
  <2>2. \A x \in CallsIn(p), y \in CallsIn(l) : After(T, R, x, y)
    BY <1>6, <2>1
  <2>3. QED
    BY <1>5, <1>6, <2>2, OrderedConcat
<1>8. \A x \in CallsIn(p \o l) : x.msg = Notice
  <2>1. CallsIn(p \o l) = CallsIn(p) \cup CallsIn(l)
    BY <1>5, CallsInConcat
  <2>2. QED
    BY <1>2, <1>6, <2>1
<1>9. QED
  BY <1>4, <1>7, <1>8, NoticesBegin

LEMMA ClientQueue ==
  ASSUME TypeAndEntries, QueuesOK, RowsPosted, HeardPosted, NEW s \in Sessions, ClientStep(s)
  PROVE  Queue(s, todo[s])'
<1>1. CASE Connect(s)
  <2>1. PICK a, b : a = Own(s, "register", General) /\ b = Own(s, "memberships", General)
    OBVIOUS
  <2>2. a.op = "register" /\ a.msg = Notice /\ b.op = "memberships" /\ b.msg = Notice
    BY <2>1, OwnCall, RoomFacts DEF Ops
  <2>3. \A T, R : After(T, R, a, b)
    BY <2>2, NoticePair DEF Stores
  <2>4. PICK q : q = <<a, b>>
    OBVIOUS
  <2>5. CallsIn(q) = {a, b} /\ \A T, R : Ordered(T, R, q)
    BY <2>3, <2>4, TwoCalls
  <2>6. Begin(s, q)
    BY <1>1, <2>1, <2>4 DEF Connect
  <2>7. QED
    BY <2>2, <2>5, <2>6, NoticesBegin
<1>2. CASE Leave(s)
  <2>1. PICK room, a, b, c, d :
          /\ room = get_user_room(s)
          /\ a = Own(s, "remove", room) /\ b = Own(s, "unsubscribe", room)
          /\ c = Own(s, "broadcast", room) /\ d = Own(s, "fallback", room)
    OBVIOUS
  <2>2. room \in Rooms
    BY <2>1, ServerAssumption DEF get_user_room, TypeAndEntries, TypeOK
  <2>3. /\ a.op = "remove" /\ a.msg = Notice /\ a.room = room
        /\ b.op = "unsubscribe" /\ b.msg = Notice /\ b.room = room
        /\ c.op = "broadcast" /\ c.msg = Notice /\ d.op = "fallback" /\ d.msg = Notice
    BY <2>1, <2>2, OwnCall DEF Ops
  <2>4. ASSUME NEW T, NEW R
        PROVE  /\ \A y \in {b, c, d} : After(T, R, a, y)
               /\ \A y \in {c, d} : After(T, R, b, y)
               /\ After(T, R, c, d)
    BY <2>3 DEF After, Stores, Entering
  <2>5. PICK q : q = <<a, b, c, d>>
    OBVIOUS
  <2>6. CallsIn(q) = {a, b, c, d} /\ \A T, R : Ordered(T, R, q)
    BY <2>4, <2>5, FourCalls
  <2>7. Begin(s, q)
    BY <1>2, <2>1, <2>5 DEF Leave
  <2>8. QED
    BY <2>3, <2>6, <2>7, NoticesBegin
<1>3. CASE Disconnect(s)
  <2>1. PICK a, b, c : /\ a = Own(s, "goodbye", General) /\ b = Own(s, "leave_all", General)
                      /\ c = Own(s, "unregister", General)
    OBVIOUS
  <2>2. /\ a.op = "goodbye" /\ a.msg = Notice /\ b.op = "leave_all" /\ b.msg = Notice
        /\ c.op = "unregister" /\ c.msg = Notice
    BY <2>1, OwnCall, RoomFacts DEF Ops
  <2>3. ASSUME NEW T, NEW R, NEW x \in {a, b}, NEW y \in {b, c}
        PROVE  After(T, R, x, y)
    BY <2>2, <2>3, PlainFirst DEF Plain
  <2>4. PICK q : q = <<a, b, c>>
    OBVIOUS
  <2>5. CallsIn(q) = {a, b, c} /\ \A T, R : Ordered(T, R, q)
    BY <2>3, <2>4, ThreeCalls
  <2>6. Begin(s, q)
    BY <1>3, <2>1, <2>4 DEF Disconnect
  <2>7. QED
    BY <2>2, <2>5, <2>6, NoticesBegin
<1>4. ASSUME NEW r \in Visible(Owner[s]), Switch(s, r)
      PROVE  Queue(s, todo[s])'
  <2>1. todo'[s] = <<>>
    BY <1>4 DEF Switch, ReadLine, Idle
  <2>2. QED
    BY <2>1, EmptiedQueue
<1>5. ASSUME NEW r \in Visible(Owner[s]), Signal(s, r)
      PROVE  Queue(s, todo[s])'
  <2>1. PICK c : c = Own(s, "broadcast", r)
    OBVIOUS
  <2>2. c.msg = Notice
    BY <2>1, OwnCall DEF Visible, Ops
  <2>3. PICK q : q = <<c>>
    OBVIOUS
  <2>4. CallsIn(q) = {c} /\ \A T, R : Ordered(T, R, q)
    BY <2>3, OneOrNone
  <2>5. Begin(s, q)
    BY <1>5, <2>1, <2>3 DEF Signal
  <2>6. QED
    BY <2>2, <2>4, <2>5, NoticesBegin
<1>6. ASSUME NEW r \in Visible(Owner[s]), Join(s, r)
      PROVE  Queue(s, todo[s])'
  BY <1>6, JoinQueue DEF Visible
<1>7. QED
  BY <1>1, <1>2, <1>3, <1>4, <1>5, <1>6, TextQueue, MediaQueue, MsgQueue DEF ClientStep

LEMMA QueuesStep ==
  ASSUME QueueInv, [Next]_vars
  PROVE  QueuesOK'
<1> SUFFICES ASSUME NEW s \in Sessions
             PROVE  Queue(s, todo[s])'
  BY DEF QueuesOK
<1>1. CASE TaskStep(s)
  BY <1>1, HandlerQueue, FailureQueue, RoomIdFailsQueue, ClientQueue DEF TaskStep, QueueInv
<1>2. ASSUME NEW t \in Sessions, t # s, TaskStep(t)
      PROVE  Queue(s, todo[s])'
  BY <1>2, OthersQueue DEF QueueInv
<1>3. CASE ServerRestart
  <2>1. todo'[s] = <<>>
    BY <1>3 DEF ServerRestart
  <2>2. QED
    BY <2>1, EmptiedQueue
<1>4. CASE UNCHANGED vars
  <2>1. PICK q : q = todo[s]
    OBVIOUS
  <2>2. todo'[s] = q /\ Queue(s, q) /\ UNCHANGED <<posted, table, inbox>>
    BY <1>4, <2>1 DEF vars, database, QueueInv, QueuesOK
  <2>3. QED
    BY <2>2, DecidedQueue DEF QueueInv
<1>5. QED
  BY <1>1, <1>2, <1>3, <1>4 DEF Next, TaskStep

-----------------------------------------------------------------------------
LEMMA RowsStep ==
  ASSUME QueueInv, [Next]_vars
  PROVE  RowsPosted'
<1>1. ASSUME UNCHANGED table, PostedKept
      PROVE  RowsPosted'
  BY <1>1 DEF QueueInv, RowsPosted, PostedKept
<1>2. ASSUME NEW s \in Sessions, NEW room \in Rooms, StoresIn(s, room)
      PROVE  RowsPosted'
  <2>1. PICK m : m = NextCall(s).msg
    OBVIOUS
  <2>2. /\ todo[s] # <<>> /\ NextCall(s).op \in Stores /\ m \in MessageIds
        /\ \A r \in Rooms : table'[r] = IF r = room THEN Append(table[r], m) ELSE table[r]
    <3>1. todo[s] # <<>> /\ NextCall(s).op \in Stores /\ m \in MessageIds
      BY <1>2, <2>1 DEF StoresIn
    <3>2. \A r \in Rooms : table'[r] = IF r = room THEN Append(table[r], m) ELSE table[r]
      BY <1>2, <2>1, InsertAppends DEF QueueInv, TypeAndEntries
    <3>3. QED
      BY <3>1, <3>2
  <2>3. m # Notice
    BY <2>2 DEF MessageIds, Notice
  <2>4. m \in 1..Len(posted)
    BY <2>1, <2>2, <2>3, HeadCall DEF QueueInv, TypeAndEntries, MessageCall
  <2>5. UNCHANGED posted
    BY <1>2 DEF StoresIn
  <2>6. ASSUME NEW r \in Rooms, NEW i \in 1..Len(table'[r])
        PROVE  table'[r][i] \in 1..Len(posted)
    <3>1. table[r] \in Seq(MessageIds) /\ Len(table[r]) \in Nat
      BY LenProperties DEF QueueInv, TypeAndEntries, TypeOK
    <3>2. CASE r # room
      <4>1. table'[r] = table[r]
        BY <2>2, <3>2
      <4>2. QED
        BY <2>6, <4>1 DEF QueueInv, RowsPosted
    <3>3. CASE r = room
      <4>0. table'[r] = Append(table[r], m) /\ m \in MessageIds
        BY <2>2, <3>3
      <4>1. /\ Len(table'[r]) = Len(table[r]) + 1 /\ table'[r][Len(table[r]) + 1] = m
            /\ \A j \in 1..Len(table[r]) : table'[r][j] = table[r][j]
        BY <3>1, <4>0, AppendProperties
      <4>2. i \in 1..Len(table[r]) \/ i = Len(table[r]) + 1
        BY <2>6, <3>1, <4>1
      <4>3. CASE i \in 1..Len(table[r])
        BY <4>1, <4>3 DEF QueueInv, RowsPosted
      <4>4. CASE i = Len(table[r]) + 1
        BY <2>4, <3>3, <4>1, <4>4
      <4>5. QED
        BY <4>2, <4>3, <4>4
    <3>4. QED
      BY <3>2, <3>3
  <2>7. QED
    BY <2>5, <2>6 DEF RowsPosted
<1>3. ASSUME UNCHANGED <<posted, table>>
      PROVE  RowsPosted'
  BY <1>3 DEF QueueInv, RowsPosted
<1>4. QED
  BY <1>1, <1>2, <1>3, TableStep, PostedStep
     DEF QueueInv, TypeAndEntries, Next, TaskStep, ServerRestart, vars, database

LEMMA HeardPostedStep ==
  ASSUME QueueInv, [Next]_vars
  PROVE  HeardPosted'
<1>1. ASSUME NEW s \in Sessions, TaskStep(s)
      PROVE  HeardPosted'
  <2>1. PostedKept
    BY <1>1, PostedStep DEF QueueInv, TypeAndEntries
  <2>2. ASSUME NEW t \in Sessions, NEW m \in MessageIds, Heard(t, m)'
        PROVE  m \in 1..Len(posted)
    <3>1. CASE Heard(t, m)
      BY <3>1 DEF QueueInv, HeardPosted
    <3>2. CASE ~Heard(t, m)
      <4>1. SendToRoom(s) /\ NextCall(s).msg = m /\ m # Notice
        BY <1>1, <2>2, <3>2, HeardStep DEF QueueInv, TypeAndEntries
      <4>2. todo[s] # <<>>
        BY <4>1 DEF SendToRoom, About
      <4>3. QED
        BY <4>1, <4>2, HeadCall DEF QueueInv, TypeAndEntries, MessageCall
    <3>3. QED
      BY <3>1, <3>2
  <2>3. QED
    BY <2>1, <2>2 DEF HeardPosted, PostedKept
<1>2. ASSUME UNCHANGED <<posted, inbox>>
      PROVE  HeardPosted'
  BY <1>2 DEF QueueInv, HeardPosted, Heard
<1>3. QED
  BY <1>1, <1>2 DEF Next, TaskStep, ServerRestart, vars, database

LEMMA QueueInvStep ==
  ASSUME QueueInv, [Next]_vars
  PROVE  QueueInv'
<1>1. TypeAndEntries'
  BY NextType, OneEntryStep DEF QueueInv, TypeAndEntries
<1>2. QED
  BY <1>1, QueuesStep, RowsStep, HeardPostedStep DEF QueueInv

LEMMA QueueInvInit == Init => QueueInv
<1> SUFFICES ASSUME Init PROVE QueueInv
  OBVIOUS
<1>1. TypeAndEntries
  <2>1. OneEntryPerUser
    BY DEF Init, OneEntryPerUser, Nobody, Subscribed
  <2>2. QED
    BY <2>1, InitType DEF TypeAndEntries
<1>2. QueuesOK
  <2>1. ASSUME NEW s \in Sessions
        PROVE  todo[s] = <<>> /\ Queue(s, <<>>)
    BY NoCalls DEF Init
  <2>2. QED
    BY <2>1 DEF QueuesOK
<1>3. RowsPosted
  <2>1. \A r \in Rooms : Len(table[r]) = 0
    BY DEF Init
  <2>2. QED
    BY <2>1 DEF RowsPosted
<1>4. HeardPosted
  <2>1. \A t \in Sessions : Len(inbox[t]) = 0
    BY DEF Init
  <2>2. QED
    BY <2>1 DEF HeardPosted, Heard
<1>5. QED
  BY <1>1, <1>2, <1>3, <1>4 DEF QueueInv

-----------------------------------------------------------------------------
(* The order of live messages.                                             *)

(* What of a channel was not there before: one message at most, that       *)
(* nobody has heard live, after everything else.                           *)
Grows(m) ==
  \A t \in Sessions : \A i \in 1..Len(inbox'[t]) : ~inbox'[t][i].is_history =>
    \/ i \in 1..Len(inbox[t]) /\ inbox'[t][i] = inbox[t][i]
    \/ i = Len(inbox[t]) + 1 /\ inbox'[t][i] = LiveItem(m) /\ \A x \in Sessions : ~Heard(x, m)

LEMMA InboxGrows ==
  ASSUME QueueInv, NEW s \in Sessions, TaskStep(s)
  PROVE  \E m : Grows(m)
<1>0. TypeOK /\ OneEntryPerUser
  BY DEF QueueInv, TypeAndEntries
<1>1. CASE UNCHANGED inbox
  BY <1>1 DEF Grows
<1>2. ASSUME NEW room \in Rooms, ReplaysIn(s, room)
      PROVE  \E m : Grows(m)
  <2> SUFFICES ASSUME NEW t \in Sessions, NEW i \in 1..Len(inbox'[t]), ~inbox'[t][i].is_history
               PROVE  i \in 1..Len(inbox[t]) /\ inbox'[t][i] = inbox[t][i]
    BY DEF Grows
  <2> DEFINE h == History(room)
  <2>1. h \in Seq(Items) /\ inbox[t] \in Seq(Items)
    BY <1>0, HistoryType DEF TypeOK
  <2>2. \A j \in 1..Len(h) : h[j].is_history
    <3>1. \A j \in DOMAIN h : h[j].is_history = TRUE
      BY DEF History
    <3>2. DOMAIN h = 1..Len(h)
      BY <2>1, LenProperties
    <3>3. QED
      BY <3>1, <3>2
  <2>3. inbox'[t] = IF t = s THEN inbox[t] \o h ELSE inbox[t]
    BY <1>0, <1>2 DEF ReplaysIn, TypeOK
  <2> HIDE DEF h
  <2>4. CASE t = s
    <3>1. Len(inbox[t]) \in Nat /\ Len(h) \in Nat
      BY <2>1, LenProperties
    <3>2. /\ Len(inbox'[t]) = Len(inbox[t]) + Len(h)
          /\ \A j \in 1..(Len(inbox[t]) + Len(h)) :
               inbox'[t][j] = IF j <= Len(inbox[t]) THEN inbox[t][j] ELSE h[j - Len(inbox[t])]
      BY <2>1, <2>3, <2>4, ConcatProperties
    <3>3. CASE i <= Len(inbox[t])
      BY <3>1, <3>2, <3>3
    <3>4. CASE ~(i <= Len(inbox[t]))
      <4>1. i - Len(inbox[t]) \in 1..Len(h) /\ inbox'[t][i] = h[i - Len(inbox[t])]
        BY <3>1, <3>2, <3>4
      <4>2. QED
        BY <2>2, <4>1
    <3>5. QED
      BY <3>3, <3>4
  <2>5. QED
    BY <2>3, <2>4
<1>3. CASE SendToRoom(s)
  <2>1. PICK m : m = NextCall(s).msg
    OBVIOUS
  <2>2. /\ m \in MessageIds \cup {Notice}
        /\ \A t \in Sessions : inbox'[t] = inbox[t]
                               \/ (m # Notice /\ inbox'[t] = Append(inbox[t], LiveItem(m)))
    BY <1>0, <1>3, <2>1, SendToInbox
  <2>3. m # Notice => \A x \in Sessions : ~Heard(x, m)
    BY <1>3, <2>1, HeadCall DEF QueueInv, TypeAndEntries, MessageCall, SendToRoom, About
  <2>4. ASSUME NEW t \in Sessions, NEW i \in 1..Len(inbox'[t])
        PROVE  \/ i \in 1..Len(inbox[t]) /\ inbox'[t][i] = inbox[t][i]
               \/ i = Len(inbox[t]) + 1 /\ inbox'[t][i] = LiveItem(m) /\ m # Notice
    <3>1. CASE inbox'[t] = inbox[t]
      BY <2>4, <3>1
    <3>2. CASE m # Notice /\ inbox'[t] = Append(inbox[t], LiveItem(m))
      <4>1. inbox[t] \in Seq(Items) /\ Len(inbox[t]) \in Nat
        BY <1>0, LenProperties DEF TypeOK
      <4>2. LiveItem(m) \in Items
        BY <2>2, <3>2 DEF LiveItem, Items
      <4>3. PICK y : y = LiveItem(m)
        OBVIOUS
      <4>4. /\ Len(inbox'[t]) = Len(inbox[t]) + 1 /\ inbox'[t][Len(inbox[t]) + 1] = y
            /\ \A j \in 1..Len(inbox[t]) : inbox'[t][j] = inbox[t][j]
        BY <3>2, <4>1, <4>2, <4>3, AppendProperties
      <4>5. i \in 1..Len(inbox[t]) \/ i = Len(inbox[t]) + 1
        BY <2>4, <4>1, <4>4
      <4>6. QED
        BY <3>2, <4>3, <4>4, <4>5
    <3>3. QED
      BY <2>2, <3>1, <3>2
  <2>5. Grows(m)
    BY <2>3, <2>4 DEF Grows
  <2>6. QED
    BY <2>5
<1>4. QED
  BY <1>0, <1>1, <1>2, <1>3, InboxStep

LEMMA LiveOrderStep ==
  ASSUME QueueInv, LiveOrderAgrees, [Next]_vars
  PROVE  LiveOrderAgrees'
<1>1. CASE UNCHANGED inbox
  BY <1>1 DEF LiveOrderAgrees
<1>2. ASSUME NEW u \in Sessions, TaskStep(u)
      PROVE  LiveOrderAgrees'
  <2>1. PICK m : Grows(m)
    BY <1>2, InboxGrows
  <2> SUFFICES ASSUME NEW s \in Sessions, NEW t \in Sessions,
                      NEW i \in 1..Len(inbox'[s]), NEW j \in 1..Len(inbox'[s]),
                      NEW k \in 1..Len(inbox'[t]), NEW l \in 1..Len(inbox'[t]),
                      i < j, inbox'[s][i] = inbox'[t][k], inbox'[s][j] = inbox'[t][l],
                      ~inbox'[s][i].is_history, ~inbox'[s][j].is_history
               PROVE  k < l
    BY DEF LiveOrderAgrees
  <2>2. Len(inbox[s]) \in Nat /\ Len(inbox[t]) \in Nat
    BY LenProperties DEF QueueInv, TypeAndEntries, TypeOK
  <2>3. /\ \/ i \in 1..Len(inbox[s]) /\ inbox'[s][i] = inbox[s][i]
           \/ /\ i = Len(inbox[s]) + 1 /\ inbox'[s][i] = LiveItem(m)
              /\ \A x \in Sessions : ~Heard(x, m)
        /\ \/ j \in 1..Len(inbox[s]) /\ inbox'[s][j] = inbox[s][j]
           \/ /\ j = Len(inbox[s]) + 1 /\ inbox'[s][j] = LiveItem(m)
              /\ \A x \in Sessions : ~Heard(x, m)
        /\ \/ k \in 1..Len(inbox[t]) /\ inbox'[t][k] = inbox[t][k]
           \/ /\ k = Len(inbox[t]) + 1 /\ inbox'[t][k] = LiveItem(m)
              /\ \A x \in Sessions : ~Heard(x, m)
        /\ \/ l \in 1..Len(inbox[t]) /\ inbox'[t][l] = inbox[t][l]
           \/ /\ l = Len(inbox[t]) + 1 /\ inbox'[t][l] = LiveItem(m)
              /\ \A x \in Sessions : ~Heard(x, m)
    BY <2>1 DEF Grows
  <2>4. (\A x \in Sessions : ~Heard(x, m)) =>
          /\ \A n \in 1..Len(inbox[s]) : inbox[s][n] # LiveItem(m)
          /\ \A n \in 1..Len(inbox[t]) : inbox[t][n] # LiveItem(m)
    BY DEF Heard
  <2>5. CASE j \in 1..Len(inbox[s]) /\ inbox'[s][j] = inbox[s][j]
    <3>1. i \in 1..Len(inbox[s]) /\ inbox'[s][i] = inbox[s][i]
      BY <2>2, <2>3, <2>5
    <3>2. /\ k \in 1..Len(inbox[t]) /\ inbox'[t][k] = inbox[t][k]
          /\ l \in 1..Len(inbox[t]) /\ inbox'[t][l] = inbox[t][l]
      BY <2>3, <2>4, <2>5, <3>1
    <3>3. QED
      BY <2>5, <3>1, <3>2 DEF LiveOrderAgrees
  <2>6. CASE j = Len(inbox[s]) + 1 /\ inbox'[s][j] = LiveItem(m) /\ \A x \in Sessions : ~Heard(x, m)
    <3>1. l = Len(inbox[t]) + 1
      BY <2>3, <2>4, <2>6
    <3>2. CASE k \in 1..Len(inbox[t])
      BY <2>2, <3>1, <3>2
    <3>3. CASE k = Len(inbox[t]) + 1 /\ inbox'[t][k] = LiveItem(m)
      <4>1. i = Len(inbox[s]) + 1
        BY <2>3, <2>4, <2>6, <3>3
      <4>2. QED
        BY <2>2, <2>6, <4>1
    <3>4. QED
      BY <2>3, <3>2, <3>3
  <2>7. QED
    BY <2>3, <2>5, <2>6
<1>3. QED
  BY <1>1, <1>2 DEF Next, TaskStep, ServerRestart, vars

(* send_to_room holds the lock of rooms while it sends, and a message is   *)
(* sent once: any two connections that both see two messages live, in any  *)
(* rooms, see them in the same order.                                      *)
THEOREM LiveOrder == Spec => []LiveOrderAgrees
<1>1. Init => LiveOrderAgrees
  <2> SUFFICES ASSUME Init PROVE LiveOrderAgrees
    OBVIOUS
  <2>1. \A t \in Sessions : Len(inbox[t]) = 0
    BY DEF Init
  <2>2. QED
    BY <2>1 DEF LiveOrderAgrees
<1>2. QED
  BY <1>1, QueueInvInit, QueueInvStep, LiveOrderStep, PTL DEF Spec

-----------------------------------------------------------------------------
(* What a history replay leaves out.                                       *)

(* A call returned, or was replaced by notices: the others are as before.  *)
(* A room to save comes only of the room to resume in, and the tx of       *)
(* another connection only of get_sender.                                  *)
Added(s, c) ==
  /\ c.msg = Notice /\ c.op \notin {"register", "memberships", "remove", "unsubscribe"}
  /\ c.op = "save" => NextCall(s).op = "resume" /\ c.user = Owner[s]
  /\ c.op = "resume" => NextCall(s).op = "memberships"
  /\ c.op = "subscribe" => c.tx = s \/ NextCall(s).op = "get_sender"

Proceeds(s) ==
  /\ todo[s] # <<>>
  /\ CallsIn(Tail(todo[s])) \subseteq CallsIn(todo'[s])
  /\ \A c \in CallsIn(todo'[s]) : c \in CallsIn(Tail(todo[s])) \/ Added(s, c)

LEMMA ReturnProceeds ==
  ASSUME TypeOK, NEW s \in Sessions, todo[s] # <<>>, Return(s)
  PROVE  Proceeds(s)
BY ReturnsTail DEF Proceeds

LEMMA ThenProceeds ==
  ASSUME TypeOK, NEW s \in Sessions, todo[s] # <<>>, NEW p \in Seq(CallsOf(s)), Then(s, p),
         \A c \in CallsIn(p) : Added(s, c)
  PROVE  Proceeds(s)
<1>1. PICK tl : tl = Tail(todo[s])
  OBVIOUS
<1>2. tl \in Seq(CallsOf(s))
  BY <1>1, NextCallType
<1>3. todo'[s] = p \o tl
  BY <1>1 DEF Then, TypeOK, TodoOK
<1>4. CallsIn(p \o tl) = CallsIn(p) \cup CallsIn(tl)
  BY <1>2, CallsInConcat
<1>5. QED
  BY <1>1, <1>3, <1>4 DEF Proceeds

(* The calls ahead once the room to come back to is known.                 *)
ResumeLast(s, room) ==
  {Own(s, op, room) : op \in {"set_active", "save", "replay", "broadcast"}}

LEMMA ResumeCalls ==
  ASSUME TypeOK, NEW s \in Sessions, todo[s] # <<>>, NEW room \in Rooms, ResumeIn(s, room)
  PROVE  CallsIn(todo'[s]) =
           CallsIn(Tail(todo[s])) \cup ResumeLast(s, room) \cup
           (IF \E c \in CallsIn(Tail(todo[s])) : c.room = room
            THEN {} ELSE {Own(s, "subscribe", room)})
<1>1. PICK p : p = Tail(todo[s])
  OBVIOUS
<1>2. p \in Seq(CallsOf(s))
  BY <1>1, NextCallType
<1>3. PICK n, a, b, c, d : /\ n = Own(s, "subscribe", room) /\ a = Own(s, "set_active", room)
                          /\ b = Own(s, "save", room) /\ c = Own(s, "replay", room)
                          /\ d = Own(s, "broadcast", room)
  OBVIOUS
<1>4. {n, a, b, c, d} \subseteq CallsOf(s) /\ ResumeLast(s, room) = {a, b, c, d}
  BY <1>3, OwnCall DEF Ops, ResumeLast
<1>5. PICK e : e = IF \E i \in 1..Len(p) : p[i].room = room THEN <<>> ELSE <<n>>
  OBVIOUS
<1>6. PICK l : l = <<a, b, c, d>>
  OBVIOUS
<1>7. todo'[s] = p \o e \o l
  BY <1>1, <1>3, <1>5, <1>6 DEF ResumeIn, TypeOK, TodoOK
<1>8. /\ e \in Seq(CallsOf(s))
      /\ CallsIn(e) = IF \E x \in CallsIn(p) : x.room = room THEN {} ELSE {n}
  <2>1. <<>> \in Seq(CallsOf(s)) /\ <<n>> \in Seq(CallsOf(s))
    BY <1>4, EmptySeq
  <2>2. CallsIn(<<n>>) = {n} /\ CallsIn(<<>>) = {}
    BY OneOrNone
  <2>3. (\E i \in 1..Len(p) : p[i].room = room) <=> \E x \in CallsIn(p) : x.room = room
    BY DEF CallsIn
  <2>4. QED
    BY <1>5, <2>1, <2>2, <2>3
<1>9. l \in Seq(CallsOf(s)) /\ CallsIn(l) = {a, b, c, d}
  <2>1. CallsIn(<<a, b, c, d>>) = {a, b, c, d}
    BY DEF CallsIn
  <2>2. QED
    BY <1>4, <1>6, <2>1
<1>10. PICK f : f = p \o e
  OBVIOUS
<1>11. f \in Seq(CallsOf(s)) /\ CallsIn(f) = CallsIn(p) \cup CallsIn(e)
  BY <1>2, <1>8, <1>10, CallsInConcat
<1>12. CallsIn(f \o l) = CallsIn(f) \cup CallsIn(l)
  BY <1>9, <1>11, CallsInConcat
<1>13. todo'[s] = f \o l
  BY <1>7, <1>10
<1>14. QED
  BY <1>1, <1>3, <1>4, <1>8, <1>9, <1>11, <1>12, <1>13

LEMMA ResumeProceeds ==
  ASSUME TypeOK, NEW s \in Sessions, todo[s] # <<>>, NEW room \in Rooms, ResumeIn(s, room),
         NextCall(s).op = "resume"
  PROVE  Proceeds(s)
<1>1. \A c \in ResumeLast(s, room) \cup {Own(s, "subscribe", room)} : Added(s, c)
  BY OwnCall DEF Added, ResumeLast, Ops, Own, Call
<1>2. QED
  BY <1>1, ResumeCalls DEF Proceeds

(* The calls ahead once the memberships are known.                         *)
LEMMA MembershipsListed ==
  ASSUME TypeOK, NEW s \in Sessions, todo[s] # <<>>, NEW found \in Seq(Rooms),
         MembershipsAre(s, found)
  PROVE  CallsIn(todo'[s]) =
           CallsIn(Tail(todo[s])) \cup {Own(s, "resume", General)} \cup
           {Own(s, "subscribe", r) : r \in CallsIn(found)}
<1>1. PICK q, f : /\ q = [i \in 1..Len(found) |-> Own(s, "subscribe", found[i])]
                 /\ f = Own(s, "resume", General)
  OBVIOUS
<1>2. q \in Seq(CallsOf(s)) /\ f \in CallsOf(s)
  BY <1>1, OwnCalls, OwnCall, RoomFacts DEF Ops
<1>3. CallsIn(q) = {Own(s, "subscribe", r) : r \in CallsIn(found)}
  <2>1. Len(q) = Len(found) /\ \A i \in 1..Len(found) : q[i] = Own(s, "subscribe", found[i])
    BY <1>1, LenProperties
  <2>2. QED
    BY <2>1 DEF CallsIn
<1>4. PICK e : e = <<f>>
  OBVIOUS
<1>5. e \in Seq(CallsOf(s)) /\ CallsIn(e) = {f}
  BY <1>2, <1>4, OneOrNone
<1>6. PICK p : p = e \o q
  OBVIOUS
<1>7. p \in Seq(CallsOf(s)) /\ CallsIn(p) = CallsIn(e) \cup CallsIn(q)
  BY <1>2, <1>5, <1>6, CallsInConcat
<1>8. PICK tl : tl = Tail(todo[s])
  OBVIOUS
<1>9. tl \in Seq(CallsOf(s))
  BY <1>8, NextCallType
<1>10. todo'[s] = p \o tl
  BY <1>1, <1>4, <1>6, <1>8 DEF MembershipsAre, Then, TypeOK, TodoOK
<1>11. CallsIn(p \o tl) = CallsIn(p) \cup CallsIn(tl)
  BY <1>7, <1>9, CallsInConcat
<1>12. QED
  BY <1>1, <1>3, <1>5, <1>7, <1>8, <1>10, <1>11

LEMMA MembershipsProceed ==
  ASSUME TypeOK, NEW s \in Sessions, todo[s] # <<>>, NEW found \in Seq(Rooms),
         MembershipsAre(s, found), NextCall(s).op = "memberships"
  PROVE  Proceeds(s)
<1>1. \A r \in CallsIn(found) : Added(s, Own(s, "subscribe", r))
  <2>1. CallsIn(found) \subseteq Rooms
    BY ElementOfSeq DEF CallsIn
  <2>2. QED
    BY <2>1, OwnCall DEF Added, Ops, Own, Call
<1>2. Added(s, Own(s, "resume", General))
  BY OwnCall, RoomFacts DEF Added, Ops
<1>3. PICK A, B : A = {Own(s, "resume", General)} /\ B = {Own(s, "subscribe", r) : r \in CallsIn(found)}
  OBVIOUS
<1>4. \A c \in A \cup B : Added(s, c)
  BY <1>1, <1>2, <1>3
<1>5. CallsIn(todo'[s]) = CallsIn(Tail(todo[s])) \cup A \cup B
  BY <1>3, MembershipsListed
<1>6. QED
  BY <1>4, <1>5 DEF Proceeds

LEMMA FallbackProceeds ==
  ASSUME TypeOK, NEW s \in Sessions, todo[s] # <<>>, NEW room \in Rooms, FallBackTo(s, room)
  PROVE  Proceeds(s)
<1>1. PICK a, b, c : /\ a = Own(s, "subscribe", room) /\ b = Own(s, "set_active", room)
                    /\ c = Own(s, "replay", room)
  OBVIOUS
<1>2. /\ a \in CallsOf(s) /\ a.op = "subscribe" /\ a.msg = Notice /\ a.tx = s
      /\ b \in CallsOf(s) /\ b.op = "set_active" /\ b.msg = Notice
      /\ c \in CallsOf(s) /\ c.op = "replay" /\ c.msg = Notice
  BY <1>1, OwnCall DEF Ops, Own, Call
<1>3. PICK p : p = <<a, b, c>>
  OBVIOUS
<1>4. p \in Seq(CallsOf(s)) /\ CallsIn(p) = {a, b, c}
  <2>1. CallsIn(<<a, b, c>>) = {a, b, c}
    BY DEF CallsIn
  <2>2. QED
    BY <1>2, <1>3, <2>1
<1>5. Then(s, p)
  BY <1>1, <1>3 DEF FallBackTo
<1>6. \A x \in CallsIn(p) : Added(s, x)
  BY <1>2, <1>4 DEF Added
<1>7. QED
  BY <1>4, <1>5, <1>6, ThenProceeds

LEMMA HandlerProceeds ==
  ASSUME TypeOK, NEW s \in Sessions, HandlerStep(s)
  PROVE  Proceeds(s)
<1>0. /\ todo[s] # <<>>
      /\ Owner[s] \in Users /\ memberships \in [Users -> Seq(Rooms)]
  BY ServerAssumption
     DEF TypeOK, HandlerStep, About, RegisterSender, ReadMemberships, ReadLastRoom,
         SubscribeRoom, SetActiveRoom, SaveMembership, ReplayHistory, SendToRoom, InsertMessage,
         GetSender, RemoveMembership, UnsubscribeRoom, ReadFallback, ReadSubscribedRooms,
         LeaveAllRooms, UnregisterSender
<1>1. CASE ReadMemberships(s)
  BY <1>0, <1>1, MembershipsProceed DEF ReadMemberships, About
<1>2. CASE ReadLastRoom(s)
  BY <1>0, <1>2, LastRoomType, ResumeProceeds DEF ReadLastRoom, About
<1>3. CASE ReadFallback(s)
  BY <1>0, <1>3, LastRoomType, FallbackProceeds DEF ReadFallback
<1>4. CASE GetSender(s)
  <2> DEFINE tx == user_senders[NextCall(s).user]
  <2>1. CASE tx = NoSession
    BY <1>0, <1>4, <2>1, ReturnProceeds DEF GetSender, Return
  <2>2. CASE tx # NoSession
    <3>1. tx \in Sessions /\ Owner[tx] = NextCall(s).user
      BY <1>0, <2>2, NextCallType DEF TypeOK, SendersOK
    <3>2. NextCall(s).user \in Users /\ NextCall(s).room \in DmRooms /\ NextCall(s).room \in Rooms
      BY <1>0, <1>4, NextCallType DEF GetSender, About
    <3>3. PICK c : c = PassOn(s, tx)
      OBVIOUS
    <3> HIDE DEF tx
    <3>4. c \in CallsOf(s) /\ Added(s, c)
      <4>1. c \in CallsOf(s)
        BY <3>1, <3>2, <3>3, CallType DEF PassOn, Ops
      <4>2. QED
        BY <1>4, <3>3, <4>1 DEF PassOn, Call, Added, GetSender, About
    <3>5. PICK p : p = <<c>>
      OBVIOUS
    <3>6. p \in Seq(CallsOf(s)) /\ CallsIn(p) = {c}
      BY <3>4, <3>5, OneOrNone
    <3>7. Then(s, p)
      BY <1>4, <2>2, <3>3, <3>5 DEF GetSender, tx
    <3>8. QED
      BY <1>0, <3>4, <3>6, <3>7, ThenProceeds
  <2>3. QED
    BY <2>1, <2>2
<1>5. CASE ReadSubscribedRooms(s)
  <2>1. PICK order \in SetToSeqs(get_user_subscribed_rooms(rooms, Owner[s])) :
          Then(s, [i \in 1..Len(order) |-> Own(s, "broadcast", order[i])])
    BY <1>5 DEF ReadSubscribedRooms
  <2>2. order \in Seq(Rooms)
    BY <1>0, GoodbyeOrder
  <2>3. PICK p : p = [i \in 1..Len(order) |-> Own(s, "broadcast", order[i])]
    OBVIOUS
  <2>4. p \in Seq(CallsOf(s)) /\ \A c \in CallsIn(p) : Added(s, c)
    BY <2>2, <2>3, OwnCalls DEF Added
  <2>5. Then(s, p)
    BY <2>1, <2>3
  <2>6. QED
    BY <1>0, <2>4, <2>5, ThenProceeds
<1>6. CASE Return(s)
  BY <1>0, <1>6, ReturnProceeds
<1>7. QED
  BY <1>1, <1>2, <1>3, <1>4, <1>5, <1>6 DEF HandlerStep, RegisterSender, SubscribeRoom,
       SetActiveRoom, SaveMembership, ReplayHistory, SendToRoom, InsertMessage,
       RemoveMembership, UnsubscribeRoom, LeaveAllRooms, UnregisterSender

(* A task panics only where an INSERT or a history query fails, or between *)
(* two lines.                                                              *)
Panics(s) ==
  /\ todo'[s] = <<>>
  /\ todo[s] = <<>> \/ NextCall(s).op \in {"insert", "replay"}

LEMMA FailureProceeds ==
  ASSUME TypeOK, NEW s \in Sessions, StatementFails(s)
  PROVE  Proceeds(s) \/ Panics(s)
<1>0. <<>> \in Seq(Rooms) /\ General \in Rooms
  BY EmptySeq, RoomFacts
<1>1. CASE Return(s) /\ todo[s] # <<>>
  BY <1>1, ReturnProceeds
<1>2. CASE About(s, "memberships") /\ MembershipsAre(s, <<>>)
  BY <1>0, <1>2, MembershipsProceed DEF About
<1>3. CASE About(s, "resume") /\ ResumeIn(s, General)
  BY <1>0, <1>3, ResumeProceeds DEF About
<1>4. CASE About(s, "fallback") /\ FallBackTo(s, General)
  BY <1>0, <1>4, FallbackProceeds DEF About
<1>5. CASE (About(s, "insert") \/ About(s, "replay") \/ Idle(s)) /\ Panic(s)
  BY <1>5 DEF Panic, Panics, About, Idle, TypeOK, TodoOK
<1>6. QED
  BY <1>1, <1>2, <1>3, <1>4, <1>5 DEF StatementFails, About

LEMMA RoomIdFailsProceeds ==
  ASSUME TypeOK, NEW s \in Sessions, RoomIdFails(s)
  PROVE  Proceeds(s)
BY RoomIdFailsFacts, ReturnProceeds

-----------------------------------------------------------------------------
(* A line of the client: the insert of a text comes with its send.         *)
TextsAreSent(s) ==
  \A c \in CallsIn(todo'[s]) : c.op = "insert" /\ c.msg \in Texts' =>
    \E d \in CallsIn(todo'[s]) : Sends(d, c.msg)

LEMMA ClientBegins ==
  ASSUME QueueInv, StageInv, NEW s \in Sessions, ClientStep(s)
  PROVE  todo[s] = <<>> /\ TextsAreSent(s)
<1>0. TypeAndEntries /\ RowsPosted /\ HeardPosted /\ todo \in [Sessions -> Seq(Calls)]
  BY DEF QueueInv, TypeAndEntries, TypeOK, TodoOK
<1>1. todo[s] = <<>>
  BY DEF StageInv, Stage, ClientStep, Connect, Leave, Text, Media, Disconnect, Join, Switch,
         Signal, Msg, ReadLine, Idle
<1>2. ASSUME \A i \in 1..Len(todo'[s]) : todo'[s][i].op # "insert"
      PROVE  TextsAreSent(s)
  BY <1>2 DEF TextsAreSent, CallsIn
<1>3. CASE Text(s)
  <2>1. PICK m, a, b :
          /\ m = FreshId /\ a = Call("broadcast", Owner[s], s, get_user_room(s), m)
          /\ b = Call("insert", Owner[s], s, get_user_room(s), m)
    OBVIOUS
  <2>2. a.op = "broadcast" /\ a.msg = m /\ b.msg = m
    BY <2>1, CallParts
  <2>3. PICK q : q = <<a, b>>
    OBVIOUS
  <2>4. CallsIn(q) = {a, b}
    BY <2>3 DEF CallsIn
  <2>5. todo'[s] = q
    BY <1>0, <1>3, <2>1, <2>3 DEF Text, Begin
  <2>6. QED
    BY <1>1, <2>2, <2>4, <2>5 DEF TextsAreSent, Sends
<1>4. ASSUME NEW v \in Users, Msg(s, v)
      PROVE  TextsAreSent(s)
  <2>1. PICK m, dm, u : m = FreshId /\ dm = dm_room(Owner[s], v) /\ u = Owner[s]
    OBVIOUS
  <2>2. dm \in Rooms
    BY <1>4, <2>1, RoomFacts, ServerAssumption DEF Msg
  <2>3. m \notin Texts'
    BY <1>0, <1>4, <2>1, <2>2, ComposedMessage DEF Msg, ReadLine
  <2>4. todo'[s] = <<Own(s, "subscribe", dm), Own(s, "set_active", dm),
                     Own(s, "save", dm), Own(s, "replay", dm),
                     Call("insert", u, s, dm, m), Call("save", v, s, dm, Notice),
                     Call("get_sender", v, s, dm, Notice), Call("broadcast", u, s, dm, m)>>
    BY <1>0, <1>4, <2>1 DEF Msg, Begin
  <2>5. \A i \in 1..Len(todo'[s]) : todo'[s][i].op = "insert" => todo'[s][i].msg = m
    BY <2>4 DEF Own, Call
  <2>6. QED
    BY <2>3, <2>5 DEF TextsAreSent, CallsIn
<1>5. CASE Connect(s)
  BY <1>0, <1>1, <1>2, <1>5 DEF Connect, Begin, Own, Call
<1>6. CASE Leave(s)
  BY <1>0, <1>1, <1>2, <1>6 DEF Leave, Begin, Own, Call
<1>7. CASE Media(s)
  BY <1>0, <1>1, <1>2, <1>7 DEF Media, Begin, Call
<1>8. CASE Disconnect(s)
  BY <1>0, <1>1, <1>2, <1>8 DEF Disconnect, Begin, Own, Call
<1>9. ASSUME NEW r \in Visible(Owner[s]), Join(s, r)
      PROVE  TextsAreSent(s)
  BY <1>0, <1>2, <1>9 DEF Join, Begin, Own, Call
<1>10. ASSUME NEW r \in Visible(Owner[s]), Switch(s, r)
       PROVE  TextsAreSent(s)
  BY <1>1, <1>2, <1>10 DEF Switch
<1>11. ASSUME NEW r \in Visible(Owner[s]), Signal(s, r)
       PROVE  TextsAreSent(s)
  BY <1>0, <1>2, <1>11 DEF Signal, Begin, Own, Call
<1>12. QED
  BY <1>1, <1>3, <1>4, <1>5, <1>6, <1>7, <1>8, <1>9, <1>10, <1>11 DEF ClientStep

(* What became of the queue of the task that makes a step.                 *)
LEMMA TaskProceeds ==
  ASSUME QueueInv, StageInv, NEW s \in Sessions, TaskStep(s)
  PROVE  Proceeds(s) \/ Panics(s) \/ (ClientStep(s) /\ todo[s] = <<>> /\ TextsAreSent(s))
BY HandlerProceeds, FailureProceeds, RoomIdFailsProceeds, ClientBegins DEF QueueInv, TypeAndEntries, TaskStep

-----------------------------------------------------------------------------
(* A room that was replayed is live until it is taken out of replayed.     *)

ReplayedLive == \A s \in Sessions : \A r \in replayed[s] : Live(s, r)

(* Only a replay adds a room to replayed, of one that is subscribed.       *)
LEMMA ReplayedStep ==
  ASSUME QueueInv, NEW u \in Sessions, TaskStep(u), NEW s \in Sessions,
         NEW r \in replayed'[s], r \notin replayed[s]
  PROVE  /\ u = s /\ ReplayHistory(s) /\ NextCall(s).room = r /\ Live(s, r) /\ r \in Rooms
<1>0. TypeOK
  BY DEF QueueInv, TypeAndEntries
<1>1. ReplayHistory(u)
  BY DEF TaskStep, HandlerStep, ClientStep, StatementFails, RoomIdFails, RegisterSender, ReadMemberships,
         ReadLastRoom, SubscribeRoom, SetActiveRoom, SaveMembership, SendToRoom, InsertMessage,
         GetSender, RemoveMembership, UnsubscribeRoom, ReadFallback, ReadSubscribedRooms,
         LeaveAllRooms, UnregisterSender, Connect, Leave, Text, Media, Disconnect, Join,
         Switch, Signal, Msg, ReadLine, RoomsBecome, registry
<1>2. u = s /\ r = NextCall(s).room /\ Enters(s, r)
  BY <1>0, <1>1 DEF ReplayHistory, TypeOK
<1>3. todo[s] # <<>> /\ NextCall(s).op = "replay" /\ r \in Rooms
  BY <1>0, <1>1, <1>2, NextCallType DEF ReplayHistory, About
<1>4. \A d \in CallsIn(todo[s]) : d.op # "subscribe"
  <2>1. PICK q \in Seq(CallsOf(s)) : q = todo[s]
    BY <1>0 DEF TypeOK, TodoOK
  <2>2. CallsIn(q) = {Head(q)} \cup CallsIn(Tail(q))
    BY <1>3, <2>1, CallsInTail
  <2>3. \A d \in CallsIn(Tail(q)) : After(Texts, StoredMessages, Head(q), d)
    BY <1>3, <2>1, HeadCall DEF QueueInv, TypeAndEntries, NextCall
  <2>4. Head(q).op = "replay"
    BY <1>3, <2>1 DEF NextCall
  <2>5. QED
    BY <2>1, <2>2, <2>3, <2>4 DEF After
<1>5. Live(s, r)
  BY <1>2, <1>4 DEF Enters, CallsIn
<1>6. QED
  BY <1>1, <1>2, <1>3, <1>5

LEMMA ReplayedLiveStep ==
  ASSUME QueueInv, ReplayedLive, [Next]_vars
  PROVE  ReplayedLive'
<1>1. ASSUME NEW s \in Sessions, NEW r \in replayed[s], NEW new, RoomsBecome(new), r \in replayed'[s]
      PROVE  Live(s, r)'
  BY <1>1 DEF ReplayedLive, RoomsBecome, Live
<1>2. ASSUME UNCHANGED rooms, NEW s \in Sessions, NEW r \in replayed[s]
      PROVE  Live(s, r)'
  BY <1>2 DEF ReplayedLive, Live
<1>3. ASSUME NEW u \in Sessions, TaskStep(u)
      PROVE  UNCHANGED rooms \/ \E new : RoomsBecome(new)
  BY <1>3 DEF TaskStep, HandlerStep, ClientStep, StatementFails, RoomIdFails, RegisterSender, ReadMemberships,
         ReadLastRoom, SubscribeRoom, SetActiveRoom, SaveMembership, SendToRoom, InsertMessage,
         GetSender, RemoveMembership, UnsubscribeRoom, ReadFallback, ReadSubscribedRooms,
         ReplayHistory, LeaveAllRooms, UnregisterSender, Connect, Leave, Text, Media, Disconnect,
         Join, Switch, Signal, Msg, ReadLine, registry
<1>4. ASSUME NEW u \in Sessions, TaskStep(u), NEW s \in Sessions, NEW r \in replayed'[s]
      PROVE  Live(s, r)'
  <2>1. CASE r \in replayed[s]
    BY <1>1, <1>2, <1>3, <1>4, <2>1
  <2>2. CASE r \notin replayed[s]
    <3>1. ReplayHistory(s) /\ Live(s, r)
      BY <1>4, <2>2, ReplayedStep
    <3>2. QED
      BY <3>1 DEF ReplayHistory, Live
  <2>3. QED
    BY <2>1, <2>2
<1>5. CASE ServerRestart
  BY <1>5 DEF ServerRestart, ReplayedLive
<1>6. CASE UNCHANGED vars
  BY <1>6 DEF vars, registry, ReplayedLive, Live
<1>7. QED
  BY <1>4, <1>5, <1>6 DEF Next, TaskStep, ReplayedLive

(* A message sent to a room reaches whoever replayed it and keeps it.      *)
LEMMA SentReaches ==
  ASSUME QueueInv, ReplayedLive, NEW u \in Sessions, SendToRoom(u), NEW m, m = NextCall(u).msg,
         m # Notice, NEW s \in Sessions, NEW r \in replayed[s], r = NextCall(u).room,
         r \in replayed'[s]
  PROVE  Got(s, m)'
<1>0. TypeOK /\ OneEntryPerUser
  BY DEF QueueInv, TypeAndEntries
<1>1. r \in Rooms /\ Live(s, r)
  BY <1>0 DEF ReplayedLive, TypeOK
<1>2. s \in Open
  <2>1. Subscribed(send_to_room(rooms, r, Open), r, <<Owner[s], s>>)
    BY <1>1 DEF SendToRoom, RoomsBecome
  <2>2. <<Owner[s], s>> \in Entries /\ <<Owner[s], s>>[2] = s
    BY ServerAssumption DEF Entries
  <2>3. send_to_room(rooms, r, Open)[r][<<Owner[s], s>>] =
          IF s \in Open THEN rooms[r][<<Owner[s], s>>] ELSE 0
    BY <1>0, <1>1, <2>2 DEF send_to_room, TypeOK
  <2>4. ~(0 > 0)
    OBVIOUS
  <2>5. QED
    BY <2>1, <2>3, <2>4 DEF Subscribed
<1>3. inbox'[s] = Append(inbox[s], LiveItem(m)) /\ m \in MessageIds \cup {Notice}
  BY <1>0, <1>1, <1>2, SendToInbox
<1>4. inbox[s] \in Seq(Items) /\ Len(inbox[s]) \in Nat /\ LiveItem(m) \in Items
  BY <1>0, <1>3, LenProperties DEF TypeOK, LiveItem, Items
<1>5. PICK y : y = LiveItem(m)
  OBVIOUS
<1>6. Len(inbox'[s]) = Len(inbox[s]) + 1 /\ inbox'[s][Len(inbox[s]) + 1] = y
  BY <1>3, <1>4, <1>5, AppendProperties
<1>7. Len(inbox[s]) + 1 \in 1..Len(inbox'[s]) /\ y.msg = m
  BY <1>4, <1>5, <1>6 DEF LiveItem
<1>8. QED
  BY <1>6, <1>7 DEF Got

-----------------------------------------------------------------------------
(* No gap but that of a text between its send and its INSERT.              *)

Excused(s, m) == m \in Texts /\ m \in unseen[s]
Sending(t, m) == \E d \in CallsIn(todo[t]) : Sends(d, m)

(* Of a room it replayed and still has, a connection got every row that is *)
(* a message of the room and that the history limit leaves it, or is       *)
(* excused for a text; and likewise every text whose send is over and      *)
(* whose INSERT is to come.                                                *)
RowsGot ==
  \A s \in Sessions : \A r \in replayed[s] : \A i \in 1..Len(table[r]) :
    posted[table[r][i]].room = r /\ i + HistoryLimit > Len(table[r]) /\ ~Unsent(table[r][i])
      => Got(s, table[r][i]) \/ Excused(s, table[r][i])

SentGot ==
  \A s \in Sessions : \A r \in replayed[s] : \A t \in Sessions : \A c \in CallsIn(todo[t]) :
    c.op = "insert" /\ c.room = r /\ c.msg \in Texts /\ ~Sending(t, c.msg)
      => Got(s, c.msg) \/ Excused(s, c.msg)

GapInv == QueueInv /\ StageInv /\ ReplayedLive /\ RowsGot /\ SentGot

(* What a connection got it keeps, and so does what it is excused for.     *)
LEMMA GotKept ==
  ASSUME QueueInv, NEW u \in Sessions, TaskStep(u), NEW s \in Sessions, NEW m,
         Got(s, m) \/ Excused(s, m)
  PROVE  (Got(s, m) \/ Excused(s, m))'
<1>0. TypeOK /\ OneEntryPerUser /\ inbox[s] \in Seq(Items) /\ Len(inbox[s]) \in Nat
  BY LenProperties DEF QueueInv, TypeAndEntries, TypeOK
<1>1. CASE Got(s, m)
  <2>1. PICK i \in 1..Len(inbox[s]) : inbox[s][i].msg = m
    BY <1>1 DEF Got
  <2>2. ASSUME NEW q \in Seq(Items), inbox'[s] = inbox[s] \o q
        PROVE  Got(s, m)'
    <3>1. Len(q) \in Nat
      BY LenProperties
    <3>2. i \in 1..Len(inbox'[s]) /\ inbox'[s][i] = inbox[s][i]
      BY <1>0, <2>2, <3>1, ConcatProperties
    <3>3. QED
      BY <2>1, <3>2 DEF Got
  <2>3. CASE inbox'[s] = inbox[s]
    BY <2>1, <2>3 DEF Got
  <2>4. ASSUME NEW room \in Rooms, ReplaysIn(u, room)
        PROVE  (Got(s, m) \/ Excused(s, m))'
    <3>1. PICK h : h = History(room)
      OBVIOUS
    <3>2. h \in Seq(Items)
      BY <1>0, <3>1, HistoryType
    <3>3. inbox'[s] = IF s = u THEN inbox[s] \o h ELSE inbox[s]
      <4>1. inbox' = [inbox EXCEPT ![u] = @ \o h]
        BY <2>4, <3>1 DEF ReplaysIn
      <4>2. QED
        BY <1>0, <4>1 DEF TypeOK
    <3>4. QED
      BY <2>2, <2>3, <3>2, <3>3
  <2>5. CASE SendToRoom(u)
    <3>1. PICK y : y = LiveItem(NextCall(u).msg)
      OBVIOUS
    <3>2. inbox'[s] = inbox[s] \/ (y \in Items /\ inbox'[s] = Append(inbox[s], y))
      BY <1>0, <2>5, <3>1, SendToInbox DEF LiveItem, Items
    <3>3. ASSUME y \in Items, inbox'[s] = Append(inbox[s], y)
          PROVE  Got(s, m)'
      <4>1. i \in 1..Len(inbox'[s]) /\ inbox'[s][i] = inbox[s][i]
        BY <1>0, <2>1, <3>3, AppendProperties
      <4>2. QED
        BY <2>1, <4>1 DEF Got
    <3>4. QED
      BY <2>3, <3>2, <3>3
  <2>6. QED
    BY <1>0, <2>3, <2>4, <2>5, InboxStep
<1>2. CASE Excused(s, m)
  <2>1. m \in Texts'
    BY <1>0, <1>2, PostedStep DEF Excused, Texts, PostedKept
  <2>2. m \in unseen'[s]
    <3>1. CASE ReplayHistory(u)
      BY <1>0, <1>2, <3>1 DEF ReplayHistory, Excused, TypeOK
    <3>2. CASE ~ReplayHistory(u)
      <4>1. UNCHANGED unseen
        BY <3>2 DEF TaskStep, HandlerStep, ClientStep, StatementFails, RoomIdFails, RegisterSender,
             ReadMemberships, ReadLastRoom, SubscribeRoom, SetActiveRoom, SaveMembership,
             SendToRoom, InsertMessage, GetSender, RemoveMembership, UnsubscribeRoom,
             ReadFallback, ReadSubscribedRooms, LeaveAllRooms, UnregisterSender, Connect, Leave,
             Text, Media, Disconnect, Join, Switch, Signal, Msg, ReadLine
      <4>2. QED
        BY <1>2, <4>1 DEF Excused
    <3>3. QED
      BY <3>1, <3>2
  <2>3. QED
    BY <2>1, <2>2 DEF Excused
<1>3. QED
  BY <1>1, <1>2

(* The send of a message ends when it is sent, or when its task dies       *)
(* before the message is stored.                                           *)
LEMMA SendingEnds ==
  ASSUME QueueInv, StageInv, NEW u \in Sessions, TaskStep(u), NEW t \in Sessions, NEW m, m # Notice,
         Sending(t, m), ~Sending(t, m)'
  PROVE  /\ u = t
         /\ \/ SendToRoom(t) /\ NextCall(t).msg = m /\ NextCall(t).room = posted[m].room
            \/ Panics(t) /\ m \notin StoredMessages
<1>0. TypeOK /\ QueuesOK
  BY DEF QueueInv, TypeAndEntries
<1>1. u = t
  <2>1. ASSUME u # t
        PROVE  todo'[t] = todo[t]
    BY <1>0, <2>1, OthersStep DEF TaskStep
  <2>2. QED
    BY <2>1 DEF Sending
<1>2. PICK q \in Seq(CallsOf(t)) : q = todo[t]
  BY <1>0 DEF TypeOK, TodoOK
<1>3. PICK d \in CallsIn(q) : Sends(d, m)
  BY <1>2 DEF Sending
<1>4. q # <<>>
  BY <1>3, OneOrNone
<1>5. d = NextCall(t) \/ d \in CallsIn(Tail(q))
  BY <1>2, <1>3, <1>4, CallsInTail DEF NextCall
<1>6. CASE Panics(t)
  <2>1. NextCall(t).op \in {"insert", "replay"} /\ d # NextCall(t)
    BY <1>2, <1>3, <1>4, <1>6 DEF Panics, Sends
  <2>2. After(Texts, StoredMessages, NextCall(t), d)
    BY <1>0, <1>2, <1>4, <1>5, <2>1, HeadCall
  <2>3. CASE NextCall(t).op = "replay"
    BY <1>3, <1>6, <2>2, <2>3, <1>1 DEF After, Entering, Sends
  <2>4. CASE NextCall(t).op = "insert"
    <3>1. NextCall(t).msg # Notice
      BY <1>0, <1>2, <1>4, <2>4, NextCallType DEF MessageIds, Notice
    <3>2. NextCall(t).msg = m
      BY <1>3, <2>2, <3>1 DEF After, Sends
    <3>3. MessageCall(t, todo[t], NextCall(t))
      BY <1>0, <1>2, <1>4, HeadCall
    <3>4. m \notin StoredMessages
      BY <2>4, <3>1, <3>2, <3>3 DEF MessageCall, Stores
    <3>5. QED
      BY <1>1, <1>6, <3>4
  <2>5. QED
    BY <2>1, <2>3, <2>4
<1>7. CASE Proceeds(t)
  <2>1. d = NextCall(t)
    BY <1>2, <1>3, <1>5, <1>7 DEF Proceeds, Sending
  <2>2. NextCall(t).op = "broadcast" /\ NextCall(t).msg = m
    BY <1>3, <2>1 DEF Sends
  <2>3. SendToRoom(t)
    <3>1. ~ClientStep(t)
      BY <1>2, <1>4, ClientBegins
    <3>2. ~StatementFails(t)
      BY <1>2, <1>4, <2>2 DEF StatementFails, About, Idle
    <3>3. ~RoomIdFails(t)
      BY <2>2, RoomIdFailsFacts
    <3>4. HandlerStep(t)
      BY <1>1, <3>1, <3>2, <3>3 DEF TaskStep
    <3>5. QED
      BY <2>2, <3>4
         DEF HandlerStep, About, RegisterSender, ReadMemberships, ReadLastRoom, SubscribeRoom,
             SetActiveRoom, SaveMembership, ReplayHistory, InsertMessage, GetSender,
             RemoveMembership, UnsubscribeRoom, ReadFallback, ReadSubscribedRooms,
             LeaveAllRooms, UnregisterSender
  <2>4. NextCall(t).room = posted[m].room
    BY <1>0, <1>2, <1>4, <2>2, HeadCall DEF MessageCall
  <2>5. QED
    BY <1>1, <2>2, <2>3, <2>4
<1>8. QED
  BY <1>1, <1>2, <1>4, <1>6, <1>7, TaskProceeds

-----------------------------------------------------------------------------
(* A replay covers the rows the history limit leaves.                      *)
LEMMA HistoryHas ==
  ASSUME TypeOK, NEW r \in Rooms, NEW i \in 1..Len(table[r]), i + HistoryLimit > Len(table[r])
  PROVE  \E k \in 1..Len(History(r)) : History(r)[k].msg = table[r][i]
<1>1. PICK rows \in Seq(MessageIds) : rows = table[r]
  BY DEF TypeOK
<1>2. Len(rows) \in Nat /\ HistoryLimit \in Nat /\ HistoryLimit > 0
  BY <1>1, LenProperties, ServerAssumption
<1>3. PICK first : first = IF Len(rows) > HistoryLimit THEN Len(rows) - HistoryLimit + 1 ELSE 1
  OBVIOUS
<1>4. first \in Nat /\ first >= 1 /\ i >= first /\ i \in first..Len(rows)
  BY <1>1, <1>2, <1>3
<1>5. PICK l : l = Latest(rows)
  OBVIOUS
<1>6. l = SubSeq(rows, first, Len(rows))
  BY <1>3, <1>5 DEF Latest
<1>7. \A j \in first..Len(rows) : rows[j] \in MessageIds
  BY <1>1, <1>2, <1>4, ElementOfSeq
<1>8. /\ l \in Seq(MessageIds)
      /\ Len(l) = IF first <= Len(rows) THEN Len(rows) - first + 1 ELSE 0
      /\ \A j \in 1..(Len(rows) - first + 1) : l[j] = rows[first + j - 1]
  BY <1>2, <1>4, <1>6, <1>7, SubSeqProperties
<1>9. PICK k : k = i - first + 1
  OBVIOUS
<1>10. k \in 1..(Len(rows) - first + 1) /\ first + k - 1 = i /\ Len(l) = Len(rows) - first + 1
  BY <1>2, <1>4, <1>8, <1>9
<1>11. l[k] = rows[i] /\ k \in 1..Len(l)
  BY <1>8, <1>10
<1>12. PICK h : h = History(r)
  OBVIOUS
<1>13. h = [j \in 1..Len(l) |-> [msg |-> l[j], is_history |-> TRUE]] /\ Len(l) \in Nat
  BY <1>1, <1>5, <1>8, <1>12, LenProperties DEF History
<1>14. Len(h) = Len(l) /\ h[k].msg = l[k]
  BY <1>11, <1>13
<1>15. QED
  BY <1>1, <1>11, <1>12, <1>14

LEMMA RowsGotStep ==
  ASSUME GapInv, NEW u \in Sessions, TaskStep(u)
  PROVE  RowsGot'
<1>0. TypeOK /\ QueueInv /\ StageInv /\ ReplayedLive /\ QueuesOK /\ RowsPosted
  BY DEF GapInv, QueueInv, TypeAndEntries
<1> SUFFICES ASSUME NEW s \in Sessions, NEW r \in replayed'[s], NEW i \in 1..Len(table'[r]),
                    i + HistoryLimit > Len(table'[r]), NEW m, m = table'[r][i], ~Unsent(m)',
                    posted'[m].room = r
             PROVE  (Got(s, m) \/ Excused(s, m))'
  BY DEF RowsGot
<1>1. CASE r \notin replayed[s]
  <2>1. ReplayHistory(s) /\ NextCall(s).room = r /\ r \in Rooms
    BY <1>0, <1>1, ReplayedStep
  <2>2. table' = table
    BY <2>1 DEF ReplayHistory, database
  <2>3. PICK h : h = History(r)
    OBVIOUS
  <2>4. PICK k \in 1..Len(h) : h[k].msg = m
    BY <1>0, <2>1, <2>2, <2>3, HistoryHas
  <2>5. h \in Seq(Items) /\ inbox[s] \in Seq(Items)
    BY <1>0, <2>1, <2>3, HistoryType DEF TypeOK
  <2>6. inbox'[s] = inbox[s] \o h
    BY <1>0, <2>1, <2>3 DEF ReplayHistory, TypeOK
  <2>7. Len(h) \in Nat /\ Len(inbox[s]) \in Nat
    BY <2>5, LenProperties
  <2>8. PICK j : j = Len(inbox[s]) + k
    OBVIOUS
  <2>9. /\ j \in 1..(Len(inbox[s]) + Len(h)) /\ ~(j <= Len(inbox[s]))
        /\ j - Len(inbox[s]) = k
    BY <2>7, <2>8
  <2>10. j \in 1..Len(inbox'[s]) /\ inbox'[s][j] = h[k]
    BY <2>5, <2>6, <2>9, ConcatProperties
  <2>11. QED
    BY <2>4, <2>10 DEF Got
<1>2. CASE r \in replayed[s]
  <2>0. r \in Rooms /\ table[r] \in Seq(MessageIds) /\ Len(table[r]) \in Nat
    BY <1>0, <1>2, LenProperties DEF TypeOK
  <2>1. ASSUME i \in 1..Len(table[r]), m = table[r][i], i + HistoryLimit > Len(table[r])
        PROVE  (Got(s, m) \/ Excused(s, m))'
    <3>1. m \in 1..Len(posted) /\ posted[m].room = r
      <4>1. m \in 1..Len(posted)
        BY <1>0, <2>0, <2>1 DEF RowsPosted
      <4>2. QED
        BY <1>0, <4>1, PostedStep DEF PostedKept
    <3>2. PICK f \in Sessions : f = posted[m].from
      <4>1. posted[m] \in Posts
        BY <1>0, <3>1, ElementOfSeq DEF TypeOK
      <4>2. QED
        BY <4>1 DEF Posts
    <3>3. posted'[m].from = f
      BY <1>0, <3>1, <3>2, PostedStep DEF PostedKept
    <3>4. (Unsent(m) <=> Sending(f, m)) /\ (Unsent(m)' <=> Sending(f, m)')
      BY <3>2, <3>3 DEF Unsent, Sending, Sends, CallsIn
    <3>5. CASE ~Sending(f, m)
      <4>1. Got(s, m) \/ Excused(s, m)
        BY <1>2, <2>1, <3>1, <3>4, <3>5 DEF GapInv, RowsGot
      <4>2. QED
        BY <1>0, <4>1, GotKept
    <3>6. CASE Sending(f, m)
      <4>1. m # Notice
        BY <3>1 DEF Notice
      <4>2. m \in StoredMessages
        BY <1>0, <2>0, <2>1, ElementOfSeq DEF StoredMessages
      <4>3. SendToRoom(f) /\ NextCall(f).msg = m /\ NextCall(f).room = r
        BY <1>0, <3>1, <3>4, <3>6, <4>1, <4>2, SendingEnds
      <4>4. QED
        BY <1>0, <1>2, <4>1, <4>3, SentReaches
    <3>7. QED
      BY <3>5, <3>6
  <2>2. CASE table'[r] = table[r]
    BY <2>1, <2>2
  <2>3. CASE table'[r] # table[r]
    <3>1. StoresIn(u, r)
      <4>1. PICK room \in Rooms : StoresIn(u, room)
        BY <1>0, <2>3, TableStep
      <4>2. room = r
        BY <1>0, <2>0, <2>3, <4>1, InsertAppends
      <4>3. QED
        BY <4>1, <4>2
    <3>2. PICK c : c = NextCall(u)
      OBVIOUS
    <3>3. /\ todo[u] # <<>> /\ c.op \in Stores /\ c.msg \in MessageIds
          /\ table'[r] = Append(table[r], c.msg)
      <4>1. todo[u] # <<>> /\ NextCall(u).op \in Stores /\ NextCall(u).msg \in MessageIds
        BY <3>1 DEF StoresIn
      <4>2. TypeOK /\ r \in Rooms
        BY <1>0, <2>0
      <4>3. table'[r] = Append(table[r], NextCall(u).msg)
        BY <3>1, <4>2, InsertAppends
      <4>4. QED
        BY <3>2, <4>1, <4>3
    <3>4. /\ Len(table'[r]) = Len(table[r]) + 1 /\ table'[r][Len(table[r]) + 1] = c.msg
          /\ \A j \in 1..Len(table[r]) : table'[r][j] = table[r][j]
      BY <2>0, <3>3, AppendProperties
    <3>5. CASE i \in 1..Len(table[r])
      <4>1. i + HistoryLimit > Len(table[r])
        BY <2>0, <3>4, ServerAssumption
      <4>2. QED
        BY <2>1, <3>4, <3>5, <4>1
    <3>6. CASE i = Len(table[r]) + 1
      <4>1. m = c.msg /\ m # Notice
        BY <3>3, <3>4, <3>6 DEF MessageIds, Notice
      <4>2. MessageCall(u, todo[u], c) /\ c \in CallsIn(todo[u])
        BY <1>0, <3>2, <3>3, HeadCall
      <4>3. posted[m].from = u /\ posted' = posted /\ c.room = r
        BY <3>1, <4>1, <4>2 DEF MessageCall, StoresIn
      <4>4. ~Sending(u, m)'
        BY <4>3 DEF Unsent, Sending, Sends, CallsIn
      <4>5. PICK q \in Seq(CallsOf(u)) : q = todo[u]
        BY <1>0 DEF TypeOK, TodoOK
      <4>6. todo'[u] = Tail(q)
        BY <1>0, <3>1, <4>5, ReturnsTail DEF StoresIn
      <4>7. CallsIn(q) = {c} \cup CallsIn(Tail(q))
        BY <3>2, <3>3, <4>5, CallsInTail DEF NextCall
      <4>8. ~Sending(u, m)
        BY <3>3, <4>4, <4>5, <4>6, <4>7 DEF Sending, Sends, Stores
      <4>9. m \in Texts /\ c.op = "insert"
        BY <3>3, <4>1, <4>2, <4>8 DEF MessageCall, Sending, Stores
      <4>10. Got(s, m) \/ Excused(s, m)
        BY <1>2, <3>3, <4>1, <4>2, <4>3, <4>8, <4>9 DEF GapInv, SentGot
      <4>11. QED
        BY <1>0, <4>10, GotKept
    <3>7. QED
      BY <2>0, <3>4, <3>5, <3>6
  <2>4. QED
    BY <2>2, <2>3
<1>3. QED
  BY <1>1, <1>2

LEMMA SentGotStep ==
  ASSUME GapInv, NEW u \in Sessions, TaskStep(u)
  PROVE  SentGot'
<1>0. TypeOK /\ QueueInv /\ StageInv /\ ReplayedLive /\ QueuesOK
  BY DEF GapInv, QueueInv, TypeAndEntries
<1> SUFFICES ASSUME NEW s \in Sessions, NEW r \in replayed'[s], NEW t \in Sessions,
                    NEW c \in CallsIn(todo'[t]), NEW m, m = c.msg,
                    c.op = "insert", c.room = r, m \in Texts', ~Sending(t, m)'
             PROVE  (Got(s, m) \/ Excused(s, m))'
  BY DEF SentGot
<1>1. PICK q \in Seq(CallsOf(t)) : q = todo[t]
  BY <1>0 DEF TypeOK, TodoOK
<1>2. m # Notice
  BY DEF Texts, Notice
<1>3. c \in CallsIn(q)
  <2>1. CASE u # t
    BY <1>0, <1>1, <2>1, OthersStep DEF TaskStep
  <2>2. CASE u = t
    <3>1. ~TextsAreSent(t)
      BY DEF TextsAreSent, Sending
    <3>2. ~Panics(t)
      BY OneOrNone DEF Panics
    <3>3. Proceeds(t)
      BY <1>0, <2>2, <3>1, <3>2, TaskProceeds
    <3>4. QED
      BY <1>1, <1>2, <3>3, CallsInTail DEF Proceeds, Added
  <2>3. QED
    BY <2>1, <2>2
<1>4. m \in Texts
  <2>1. MessageCall(t, q, c)
    BY <1>0, <1>1, <1>3 DEF QueuesOK, Queue
  <2>2. m \in 1..Len(posted)
    BY <1>2, <2>1 DEF MessageCall
  <2>3. QED
    BY <1>0, <2>2, PostedStep DEF PostedKept, Texts
<1>5. CASE r \in replayed[s] /\ ~Sending(t, m)
  <2>1. Got(s, m) \/ Excused(s, m)
    BY <1>1, <1>3, <1>4, <1>5 DEF GapInv, SentGot
  <2>2. QED
    BY <1>0, <2>1, GotKept
<1>6. CASE r \in replayed[s] /\ Sending(t, m)
  <2>1. ~Panics(t) \/ u # t
    BY <1>0, OneOrNone DEF Panics
  <2>2. SendToRoom(t) /\ NextCall(t).msg = m /\ NextCall(t).room = posted[m].room
    BY <1>0, <1>2, <1>6, <2>1, SendingEnds
  <2>3. posted[m].room = r
    BY <1>0, <1>1, <1>2, <1>3 DEF QueuesOK, Queue, MessageCall
  <2>4. QED
    BY <1>0, <1>2, <1>6, <2>2, <2>3, SentReaches
<1>7. CASE r \notin replayed[s]
  <2>1. u = s /\ ReplayHistory(s) /\ NextCall(s).room = r /\ r \in Rooms
    BY <1>0, <1>7, ReplayedStep
  <2>2. todo[s] # <<>> /\ NextCall(s).op = "replay"
    BY <2>1 DEF ReplayHistory, About
  <2>3. t # s
    <3>1. ASSUME t = s
          PROVE  FALSE
      <4>1. c \in CallsIn(Tail(todo[s]))
        BY <1>0, <2>1, <3>1, ReturnsTail DEF ReplayHistory
      <4>2. After(Texts, StoredMessages, NextCall(s), c)
        BY <1>0, <2>2, <4>1, HeadCall
      <4>3. QED
        BY <1>4, <2>2, <4>2 DEF After
    <3>2. QED
      BY <3>1
  <2>4. todo'[t] = todo[t] /\ ~Sending(t, m)
    <3>1. todo'[t] = todo[t]
      BY <1>0, <2>1, <2>3, OthersStep DEF TaskStep
    <3>2. QED
      BY <3>1 DEF Sending
  <2>5. todo[t] # <<>> /\ NextCall(t) = c
    <3>1. q # <<>>
      BY <1>3, OneOrNone
    <3>2. CallsIn(q) = {NextCall(t)} \cup CallsIn(Tail(q))
      BY <1>1, <3>1, CallsInTail DEF NextCall
    <3>3. ASSUME c \in CallsIn(Tail(q))
          PROVE  FALSE
      <4>1. After(Texts, StoredMessages, NextCall(t), c)
        BY <1>0, <1>1, <3>1, <3>3, HeadCall
      <4>2. NextCall(t).op = "broadcast" /\ NextCall(t).msg = m
        BY <1>4, <4>1 DEF After
      <4>3. NextCall(t) \in CallsIn(todo[t])
        BY <1>1, <3>2
      <4>4. QED
        BY <2>4, <4>2, <4>3 DEF Sending, Sends
    <3>4. QED
      BY <1>1, <1>3, <3>1, <3>2, <3>3
  <2>6. m \in SentUnstored(r)
    BY <1>4, <2>5 DEF SentUnstored, Texts
  <2>7. unseen'[s] = unseen[s] \cup SentUnstored(r)
    BY <1>0, <2>1 DEF ReplayHistory, TypeOK
  <2>8. QED
    BY <2>6, <2>7 DEF Excused
<1>8. QED
  BY <1>5, <1>6, <1>7

LEMMA GapStep ==
  ASSUME GapInv, [Next]_vars
  PROVE  GapInv'
<1>1. QueueInv' /\ StageInv' /\ ReplayedLive'
  <2>1. QueueInv'
    BY QueueInvStep DEF GapInv
  <2>2. ReplayedLive'
    BY ReplayedLiveStep DEF GapInv
  <2>3. TypeOK /\ TypeOK' /\ StageInv
    BY NextType DEF GapInv, QueueInv, TypeAndEntries
  <2>4. QED
    BY <2>1, <2>2, <2>3, StageStep
<1>2. ASSUME NEW u \in Sessions, TaskStep(u)
      PROVE  RowsGot' /\ SentGot'
  BY <1>2, RowsGotStep, SentGotStep
<1>3. CASE ServerRestart
  <2>1. \A s \in Sessions : replayed'[s] = {}
    BY <1>3 DEF ServerRestart
  <2>2. QED
    BY <1>1, <2>1 DEF GapInv, RowsGot, SentGot
<1>4. CASE UNCHANGED vars
  <2>1. UNCHANGED <<todo, replayed, posted, table, inbox, unseen>>
    BY <1>4 DEF vars, registry, database
  <2>2. /\ \A m : Unsent(m)' <=> Unsent(m)
        /\ \A s, m : (Got(s, m) \/ Excused(s, m))' <=> Got(s, m) \/ Excused(s, m)
        /\ \A t, m : Sending(t, m)' <=> Sending(t, m)
    BY <2>1 DEF Got, Excused, Texts, Unsent, Sending
  <2>3. Texts' = Texts
    BY <2>1 DEF Texts
  <2>4. RowsGot'
    BY <2>1, <2>2 DEF GapInv, RowsGot
  <2>5. SentGot'
    BY <2>1, <2>2, <2>3 DEF GapInv, SentGot
  <2>6. QED
    BY <1>1, <2>4, <2>5 DEF GapInv
<1>5. QED
  BY <1>1, <1>2, <1>3, <1>4 DEF GapInv, Next, TaskStep

(* Subscribing before replaying, and storing before sending, leave no gap: *)
(* a connection that replayed a room and is still in it has every message  *)
(* stored in the room that was posted there and that the history limit     *)
(* leaves it, live or replayed, except a text handle_regular_message had   *)
(* sent but not stored when it replayed.  A failed look-up of a room's id  *)
(* is outside the claim: a replay that read the default room's messages    *)
(* instead is not a replay of the room, and a message stored among them    *)
(* instead is neither a stored message of its own room nor of that one.    *)
THEOREM NoGapButTexts == Spec => []LostOnlyInTextGap
<1>1. Init => StageInv /\ ReplayedLive /\ RowsGot /\ SentGot
  <2> SUFFICES ASSUME Init PROVE StageInv /\ ReplayedLive /\ RowsGot /\ SentGot
    OBVIOUS
  <2>1. \A s \in Sessions : replayed[s] = {}
    BY DEF Init
  <2>2. StageInv
    BY DEF Init, StageInv, Stage
  <2>3. QED
    BY <2>1, <2>2 DEF ReplayedLive, RowsGot, SentGot
<1>2. GapInv => LostOnlyInTextGap
  BY DEF GapInv, RowsGot, LostOnlyInTextGap, Excused, Texts, Open
<1>3. Init => GapInv
  BY <1>1, QueueInvInit DEF GapInv
<1>4. QED
  BY <1>2, <1>3, GapStep, PTL DEF Spec

-----------------------------------------------------------------------------
(* The channels a user is a member of.                                     *)

NoRepeats(q) == \A i, j \in 1..Len(q) : q[i] = q[j] => i = j

(* Without takes out the one place of a room, and nothing else.            *)
LEMMA WithoutFacts ==
  ASSUME NEW S, NEW mine \in Seq(S), NEW r, NoRepeats(mine)
  PROVE  /\ NoRepeats(Without(mine, r))
         /\ CallsIn(Without(mine, r)) = CallsIn(mine) \ {r}
<1>0. Len(mine) \in Nat
  BY LenProperties
<1>1. CASE \E i \in 1..Len(mine) : mine[i] = r
  <2> DEFINE k == CHOOSE j \in 1..Len(mine) : mine[j] = r
  <2>1. k \in 1..Len(mine) /\ mine[k] = r
    BY <1>1
  <2>2. Without(mine, r) = SubSeq(mine, 1, k-1) \o SubSeq(mine, k+1, Len(mine))
    BY <1>1 DEF Without, RemoveAt
  <2> HIDE DEF k
  <2>3. PICK p, q : p = SubSeq(mine, 1, k-1) /\ q = SubSeq(mine, k+1, Len(mine))
    OBVIOUS
  <2>4. \A j \in 1..Len(mine) : mine[j] \in S
    BY ElementOfSeq
  <2>5. p \in Seq(S) /\ Len(p) = k-1 /\ \A i \in 1..(k-1) : p[i] = mine[i]
    <3>1. \A i \in 1..(k-1) : mine[i] \in S
      BY <1>0, <2>1, <2>4
    <3>2. /\ p \in Seq(S) /\ Len(p) = IF 1 <= k-1 THEN (k-1) - 1 + 1 ELSE 0
          /\ \A i \in 1..((k-1) - 1 + 1) : p[i] = mine[1 + i - 1]
      BY <1>0, <2>1, <2>3, <3>1, SubSeqProperties
    <3>3. QED
      BY <1>0, <2>1, <3>2
  <2>6. /\ q \in Seq(S) /\ Len(q) = Len(mine) - k
        /\ \A i \in 1..(Len(mine) - k) : q[i] = mine[k + i]
    <3>1. \A i \in (k+1)..Len(mine) : mine[i] \in S
      BY <1>0, <2>1, <2>4
    <3>2. /\ q \in Seq(S)
          /\ Len(q) = IF k+1 <= Len(mine) THEN Len(mine) - (k+1) + 1 ELSE 0
          /\ \A i \in 1..(Len(mine) - (k+1) + 1) : q[i] = mine[(k+1) + i - 1]
      BY <1>0, <2>1, <2>3, <3>1, SubSeqProperties
    <3>3. QED
      BY <1>0, <2>1, <3>2
  <2>7. PICK w : w = p \o q
    OBVIOUS
  <2>8. /\ Len(w) = Len(mine) - 1
        /\ \A i \in 1..(Len(mine) - 1) : w[i] = IF i < k THEN mine[i] ELSE mine[i + 1]
    <3>1. /\ Len(w) = Len(p) + Len(q)
          /\ \A i \in 1..(Len(p) + Len(q)) : w[i] = IF i <= Len(p) THEN p[i] ELSE q[i - Len(p)]
      BY <2>5, <2>6, <2>7, ConcatProperties
    <3>2. ASSUME NEW i \in 1..(Len(mine) - 1), i < k
          PROVE  w[i] = mine[i]
      <4>1. i \in 1..(k-1) /\ i <= Len(p) /\ i \in 1..(Len(p) + Len(q))
        BY <1>0, <2>1, <2>5, <2>6, <3>2
      <4>2. w[i] = p[i] /\ p[i] = mine[i]
        BY <2>5, <3>1, <4>1
      <4>3. QED
        BY <4>2
    <3>3. ASSUME NEW i \in 1..(Len(mine) - 1), ~(i < k)
          PROVE  w[i] = mine[i + 1]
      <4>1. /\ i - Len(p) \in 1..(Len(mine) - k) /\ k + (i - Len(p)) = i + 1
            /\ i \in 1..(Len(p) + Len(q)) /\ ~(i <= Len(p))
        BY <1>0, <2>1, <2>5, <2>6, <3>3
      <4>2. w[i] = q[i - Len(p)]
        BY <3>1, <4>1
      <4>3. QED
        BY <2>6, <4>1, <4>2
    <3>4. QED
      BY <1>0, <2>1, <2>5, <2>6, <3>1, <3>2, <3>3
  <2>9. NoRepeats(w)
    <3> SUFFICES ASSUME NEW i \in 1..Len(w), NEW j \in 1..Len(w), w[i] = w[j]
                 PROVE  i = j
      BY DEF NoRepeats
    <3>1. PICK a \in 1..Len(mine) : w[i] = mine[a] /\ a = IF i < k THEN i ELSE i + 1
      BY <1>0, <2>1, <2>8
    <3>2. PICK b \in 1..Len(mine) : w[j] = mine[b] /\ b = IF j < k THEN j ELSE j + 1
      BY <1>0, <2>1, <2>8
    <3>3. a = b
      BY <3>1, <3>2 DEF NoRepeats
    <3>4. QED
      BY <1>0, <2>1, <2>8, <3>1, <3>2, <3>3
  <2>10. ASSUME NEW x \in CallsIn(w)
         PROVE  x \in CallsIn(mine) /\ x # r
    <3>1. PICK i \in 1..Len(w) : x = w[i]
      BY <2>10 DEF CallsIn
    <3>2. PICK a \in 1..Len(mine) : w[i] = mine[a] /\ a # k
      BY <1>0, <2>1, <2>8
    <3>3. QED
      BY <2>1, <3>1, <3>2 DEF CallsIn, NoRepeats
  <2>11. ASSUME NEW x \in CallsIn(mine), x # r
         PROVE  x \in CallsIn(w)
    <3>1. PICK a \in 1..Len(mine) : x = mine[a]
      BY <2>11 DEF CallsIn
    <3>2. a # k
      BY <2>1, <2>11, <3>1
    <3>3. CASE a < k
      <4>1. a \in 1..Len(w) /\ w[a] = mine[a]
        BY <1>0, <2>1, <2>8, <3>1, <3>3
      <4>2. QED
        BY <3>1, <4>1 DEF CallsIn
    <3>4. CASE ~(a < k)
      <4>1. a - 1 \in 1..Len(w) /\ ~(a - 1 < k) /\ a - 1 + 1 = a
        BY <1>0, <2>1, <2>8, <3>1, <3>2, <3>4
      <4>2. w[a - 1] = mine[a]
        BY <2>8, <4>1
      <4>3. QED
        BY <3>1, <4>1, <4>2 DEF CallsIn
    <3>5. QED
      BY <3>3, <3>4
  <2>12. QED
    BY <2>2, <2>3, <2>7, <2>9, <2>10, <2>11
<1>2. CASE ~ \E i \in 1..Len(mine) : mine[i] = r
  BY <1>2 DEF Without, CallsIn
<1>3. QED
  BY <1>1, <1>2

LEMMA SavedFacts ==
  ASSUME NEW S, NEW mine \in Seq(S), NEW r \in S, NoRepeats(mine)
  PROVE  /\ NoRepeats(save_room_membership(mine, r))
         /\ CallsIn(save_room_membership(mine, r)) = {r} \cup CallsIn(mine)
<1>1. PICK q : q = Without(mine, r)
  OBVIOUS
<1>2. q \in Seq(S) /\ NoRepeats(q) /\ CallsIn(q) = CallsIn(mine) \ {r}
  BY <1>1, WithoutType, WithoutFacts
<1>3. PICK p : p = <<r>>
  OBVIOUS
<1>4. p \in Seq(S) /\ Len(p) = 1 /\ p[1] = r /\ CallsIn(p) = {r}
  BY <1>3, OneOrNone
<1>5. PICK w : w = p \o q
  OBVIOUS
<1>6. CallsIn(w) = CallsIn(p) \cup CallsIn(q)
  BY <1>2, <1>4, <1>5, CallsInConcat
<1>7. Len(q) \in Nat
  BY <1>2, LenProperties
<1>8. /\ Len(w) = 1 + Len(q) /\ w[1] = r
      /\ \A i \in 1..Len(w) : i # 1 => i - 1 \in 1..Len(q) /\ w[i] = q[i - 1]
  <2>0. p \in Seq(S) /\ q \in Seq(S)
    BY <1>2, <1>4
  <2>1. /\ Len(w) = Len(p) + Len(q)
        /\ \A i \in 1..(Len(p) + Len(q)) : w[i] = IF i <= Len(p) THEN p[i] ELSE q[i - Len(p)]
    BY <1>5, <2>0, ConcatProperties
  <2>2. Len(w) = 1 + Len(q) /\ 1 \in 1..(Len(p) + Len(q)) /\ 1 <= Len(p)
    BY <1>4, <1>7, <2>1
  <2>3. w[1] = p[1]
    BY <2>1, <2>2
  <2>4. ASSUME NEW i \in 1..Len(w), i # 1
        PROVE  i - 1 \in 1..Len(q) /\ w[i] = q[i - 1]
    <3>1. i \in 1..(Len(p) + Len(q)) /\ ~(i <= Len(p)) /\ i - 1 \in 1..Len(q)
      BY <1>4, <1>7, <2>2, <2>4
    <3>2. w[i] = q[i - Len(p)]
      BY <2>1, <3>1
    <3>3. QED
      BY <1>4, <3>1, <3>2
  <2>5. QED
    BY <1>4, <2>2, <2>3, <2>4
<1>9. NoRepeats(w)
  <2> SUFFICES ASSUME NEW i \in 1..Len(w), NEW j \in 1..Len(w), w[i] = w[j]
               PROVE  i = j
    BY DEF NoRepeats
  <2>1. \A n \in 1..Len(q) : q[n] # r
    BY <1>2 DEF CallsIn
  <2>2. CASE i = 1
    BY <1>8, <2>1, <2>2
  <2>3. CASE j = 1
    BY <1>8, <2>1, <2>3
  <2>4. CASE i # 1 /\ j # 1
    <3>1. /\ i - 1 \in 1..Len(q) /\ w[i] = q[i - 1]
          /\ j - 1 \in 1..Len(q) /\ w[j] = q[j - 1]
      BY <1>8, <2>4
    <3>2. i - 1 = j - 1
      BY <1>2, <3>1 DEF NoRepeats
    <3>3. QED
      BY <1>7, <1>8, <3>2
  <2>5. QED
    BY <2>2, <2>3, <2>4
<1>10. save_room_membership(mine, r) = w
  BY <1>1, <1>3, <1>5 DEF save_room_membership
<1>11. QED
  BY <1>2, <1>4, <1>6, <1>9, <1>10

-----------------------------------------------------------------------------
(* A member of a channel is subscribed to it.                              *)
(*                                                                         *)
(* A connection is ready for a channel when it is subscribed to it, or its *)
(* own task is about to subscribe it.  A serving connection is ready for   *)
(* every channel its user is a member of, unless its task has still to     *)
(* read the memberships, and for every channel it is about to save; and a  *)
(* channel that is about to be unsubscribed from is not one of the user's  *)
(* any more.  All of it is so as long as no SQL statement failed and a     *)
(* user has one connection at a time.                                      *)

Subs(c, s, r)  == c.op = "subscribe" /\ c.tx = s /\ c.room = r
Ready(s, r)    == Live(s, r) \/ \E c \in CallsIn(todo[s]) : Subs(c, s, r)

Leaves(s, r)   == todo[s] # <<>> /\ NextCall(s).op = "unsubscribe" /\ NextCall(s).room = r
MyChannels(s)  == CallsIn(memberships[Owner[s]]) \cap Channels

LeftIsGone(s)  == \A r \in Channels : Leaves(s, r) => r \notin MyChannels(s)
SavesReady(s, S) ==
  \A c \in CallsIn(todo[s]) :
    c.op = "save" /\ c.user = Owner[s] /\ c.room \in S => Ready(s, c.room)
MineReady(s)   == \A r \in MyChannels(s) :
                    Ready(s, r) \/ \E c \in CallsIn(todo[s]) : c.op = "memberships"

Serves(s)      == status[s] = "on" => SavesReady(s, Channels) /\ MineReady(s)
OneAlive       == \A s, t \in Sessions : Alive(s) /\ Alive(t) /\ Owner[s] = Owner[t] => s = t
RowsDistinct   == \A u \in Users : NoRepeats(memberships[u])

ChannelInv ==
  /\ QueueInv /\ StageInv
  /\ ~Overlap /\ OneAlive /\ RowsDistinct
  /\ faults = 0 => \A s \in Sessions : LeftIsGone(s) /\ Serves(s)

(* The entry a room gains is the one its subscribe call names.             *)
LEMMA EntryGained ==
  ASSUME TypeOK, [Next]_vars, NEW r \in Rooms, NEW e \in Entries,
         Subscribed(rooms', r, e), ~Subscribed(rooms, r, e)
  PROVE  \E t \in Sessions : /\ Subscribes(t) /\ NextCall(t).room = r
                             /\ <<NextCall(t).user, NextCall(t).tx>> = e
<1>0. rooms \in [Rooms -> [Entries -> Nat]] /\ rooms' \in [Rooms -> [Entries -> Nat]]
  BY NextType DEF TypeOK
<1>1. rooms[r][e] = 0 /\ rooms'[r][e] > 0
  <2>1. rooms[r][e] \in Nat /\ ~(rooms[r][e] > 0)
    BY <1>0 DEF Subscribed
  <2>2. \A n \in Nat : ~(n > 0) => n = 0
    OBVIOUS
  <2>3. QED
    BY <2>1, <2>2 DEF Subscribed
<1>2. PICK t \in Sessions : Subscribes(t)
  BY <1>0, <1>1, RoomsStep
<1>3. PICK c : c = NextCall(t)
  OBVIOUS
<1>4. rooms' = [rooms EXCEPT ![c.room] = push(retain_others(@, c.user), <<c.user, c.tx>>)]
  BY <1>2, <1>3 DEF Subscribes, subscribe_room
<1>5. c.room = r
  BY <1>0, <1>1, <1>4
<1>6. <<c.user, c.tx>> = e
  BY <1>0, <1>1, <1>4, <1>5 DEF retain_others, push
<1>7. QED
  BY <1>2, <1>3, <1>5, <1>6

LEMMA ConnectionEntry ==
  ASSUME NEW s \in Sessions
  PROVE  LET e == <<Owner[s], s>> IN e \in Entries /\ e[1] = Owner[s] /\ e[2] = s
BY ServerAssumption DEF Entries

(* A task with calls left is alive.                                        *)
LEMMA CallsAreOfTheLiving ==
  ASSUME StageInv, TypeOK, NEW s \in Sessions, todo[s] # <<>>
  PROVE  Alive(s)
BY DEF StageInv, Stage, TypeOK, Alive

LEMMA NextCallIn ==
  ASSUME TypeOK, NEW s \in Sessions, todo[s] # <<>>
  PROVE  /\ CallsIn(todo[s]) = {NextCall(s)} \cup CallsIn(Tail(todo[s]))
         /\ NextCall(s) = todo[s][1] /\ 1 \in 1..Len(todo[s])
<1>1. PICK q \in Seq(CallsOf(s)) : q = todo[s]
  BY DEF TypeOK, TodoOK
<1>2. CallsIn(q) = {Head(q)} \cup CallsIn(Tail(q))
  BY <1>1, CallsInTail
<1>3. Head(q) = q[1]
  BY <1>1, HeadTailProperties
<1>4. Len(q) \in Nat \ {0}
  BY <1>1, EmptySeq
<1>5. 1 \in 1..Len(q)
  BY <1>4
<1>6. QED
  BY <1>1, <1>2, <1>3, <1>5 DEF NextCall

(* No pending /msg has the sender of an earlier connection of a user who   *)
(* has a later one.                                                        *)
NoStaleSender ==
  \A t \in Sessions : \A c \in CallsIn(todo[t]) : c.op = "subscribe" =>
    \A s \in Sessions : Alive(s) /\ Owner[s] = c.user => c.tx = s

(* A serving connection keeps its place in a channel until it leaves it,   *)
(* and in a DM room too but for a stale sender.                            *)
LEMMA LiveKept ==
  ASSUME QueueInv, StageInv, OneAlive, [Next]_vars, UNCHANGED restarts,
         NEW s \in Sessions, status[s] = "on", NEW r \in Rooms, Live(s, r), ~Leaves(s, r),
         r \in Channels \/ NoStaleSender
  PROVE  Live(s, r)'
<1>0. TypeOK /\ OneEntryPerUser /\ (r \in Channels => r \notin DmRooms)
  BY ServerAssumption DEF QueueInv, TypeAndEntries
<1>1. PICK e : e = <<Owner[s], s>>
  OBVIOUS
<1>2. e \in Entries /\ e[1] = Owner[s] /\ e[2] = s
  BY <1>1, ConnectionEntry
<1>3. Alive(s) /\ s \in Open /\ Subscribed(rooms, r, e)
  BY <1>1 DEF Open, Alive, Live
<1> SUFFICES ASSUME ~Subscribed(rooms', r, e)
             PROVE  FALSE
  BY <1>1 DEF Live
<1>4. LosesEntry(r, e)
  BY <1>2, <1>3 DEF LosesEntry
<1>5. ASSUME NEW d \in Entries, d[1] = e[1], Subscribed(rooms', r, d)
      PROVE  FALSE
  <2>1. ~Subscribed(rooms, r, d)
    BY <1>0, <1>2, <1>3, <1>5 DEF OneEntryPerUser
  <2>2. PICK t \in Sessions : /\ Subscribes(t) /\ NextCall(t).room = r
                              /\ <<NextCall(t).user, NextCall(t).tx>> = d
    BY <1>0, <1>5, <2>1, EntryGained
  <2>3. todo[t] # <<>> /\ NextCall(t) \in CallsOf(t) /\ NextCall(t).op = "subscribe" /\ Alive(t)
    BY <1>0, <2>2, NextCallType DEF Subscribes, About
  <2>4. NextCall(t).user = Owner[s] /\ NextCall(t) \in CallsIn(todo[t])
    BY <1>0, <1>2, <1>5, <2>2, <2>3, NextCallIn
  <2>5. CASE r \in Channels
    <3>1. NextCall(t).tx = t /\ Owner[t] = NextCall(t).user
      BY <1>0, <2>2, <2>3, <2>5 DEF CallsOf
    <3>2. t = s
      BY <1>3, <2>3, <2>4, <3>1 DEF OneAlive
    <3>3. QED
      BY <1>1, <1>5, <2>2, <2>4, <3>1, <3>2
  <2>6. CASE NoStaleSender
    <3>1. NextCall(t).tx = s
      BY <1>3, <2>3, <2>4, <2>6 DEF NoStaleSender
    <3>2. QED
      BY <1>1, <1>5, <2>2, <2>4, <3>1
  <2>7. QED
    BY <2>5, <2>6
<1>6. ASSUME NEW t \in Sessions, Owner[t] = e[1], About(t, "leave_all")
      PROVE  FALSE
  <2>1. t = s
    BY <1>2, <1>3, <1>6 DEF OneAlive, About
  <2>2. todo[s] # <<>> /\ todo[s][1].op = "leave_all" /\ 1 \in 1..Len(todo[s])
    BY <1>0, <1>6, <2>1, NextCallIn DEF About
  <2>3. QED
    BY <2>2 DEF StageInv, Stage, OpsIn, Cleanup
<1>7. ASSUME NEW t \in Sessions, Owner[t] = e[1], About(t, "unsubscribe"), NextCall(t).room = r
      PROVE  FALSE
  <2>1. t = s
    BY <1>2, <1>3, <1>7 DEF OneAlive, About
  <2>2. QED
    BY <1>7, <2>1 DEF Leaves, About
<1>8. QED
  BY <1>0, <1>2, <1>4, <1>5, <1>6, <1>7, EntryLost

(* Once a call that subscribes it returns, a connection is in the room.    *)
LEMMA SubscribedNow ==
  ASSUME TypeOK, NEW s \in Sessions, NEW t \in Sessions, SubscribeRoom(t),
         NEW r \in Rooms, Subs(NextCall(t), s, r)
  PROVE  Live(s, r)'
<1>1. PICK c : c = NextCall(t)
  OBVIOUS
<1>2. /\ c.user = Owner[s] /\ c.tx = s /\ c.room = r
      /\ rooms' = subscribe_room(rooms, c.user, c.room, c.tx)
  BY <1>1, NextCallType DEF SubscribeRoom, Subs, About, RoomsBecome
<1>3. rooms' = subscribe_room(rooms, Owner[s], r, s)
  BY <1>2
<1>4. PICK e : e = <<Owner[s], s>>
  OBVIOUS
<1>5. e \in Entries /\ e[1] = Owner[s]
  BY <1>4, ConnectionEntry
<1>6. rooms[r] \in [Entries -> Nat] /\ DOMAIN rooms[r] = Entries
  BY DEF TypeOK
<1>7. rooms'[r] = push(retain_others(rooms[r], Owner[s]), e)
  BY <1>3, <1>4 DEF subscribe_room, TypeOK
<1>8. retain_others(rooms[r], Owner[s])[e] = 0 /\ DOMAIN retain_others(rooms[r], Owner[s]) = Entries
  BY <1>5, <1>6 DEF retain_others
<1>9. rooms'[r][e] = 1
  BY <1>5, <1>7, <1>8 DEF push
<1>10. QED
  BY <1>4, <1>9 DEF Live, Subscribed

-----------------------------------------------------------------------------
(* What a task with a given call ahead does.                               *)
LEMMA CallMade ==
  ASSUME NEW s \in Sessions, HandlerStep(s)
  PROVE  /\ todo[s] # <<>> /\ Alive(s)
         /\ NextCall(s).op = "register" => RegisterSender(s)
         /\ NextCall(s).op = "subscribe" => SubscribeRoom(s)
         /\ NextCall(s).op = "get_sender" => GetSender(s)
         /\ NextCall(s).op = "fallback" => ReadFallback(s)
         /\ NextCall(s).op = "memberships" => ReadMemberships(s)
         /\ NextCall(s).op = "resume" => ReadLastRoom(s)
         /\ NextCall(s).op = "remove" => RemoveMembership(s)
         /\ status'[s] = "on" /\ s \in DOMAIN status => status[s] = "on"
BY DEF HandlerStep, About, Alive, RegisterSender, ReadMemberships, ReadLastRoom,
       SubscribeRoom, SetActiveRoom, SaveMembership, ReplayHistory, SendToRoom,
       InsertMessage, GetSender, RemoveMembership, UnsubscribeRoom,
       ReadFallback, ReadSubscribedRooms, LeaveAllRooms, UnregisterSender

(* Only a save, to the room's id or to the default one, and a remove       *)
(* change the rows of room_members.                                        *)
LEMMA MembershipStep ==
  ASSUME [Next]_vars
  PROVE  \/ \E t \in Sessions : SaveMembership(t) \/ RemoveMembership(t) \/ RoomIdFails(t)
         \/ UNCHANGED memberships
<1>1. ASSUME NEW s \in Sessions, TaskStep(s)
      PROVE  SaveMembership(s) \/ RemoveMembership(s) \/ RoomIdFails(s) \/ UNCHANGED memberships
  BY <1>1 DEF TaskStep, HandlerStep, ClientStep, StatementFails, RegisterSender, ReadMemberships,
       ReadLastRoom, SubscribeRoom, SetActiveRoom, ReplayHistory, SendToRoom, InsertMessage,
       GetSender, UnsubscribeRoom, ReadFallback, ReadSubscribedRooms,
       LeaveAllRooms, UnregisterSender, Connect, Leave, Text, Media, Disconnect, Join,
       Switch, Signal, Msg, database
<1>2. QED
  BY <1>1 DEF Next, TaskStep, ServerRestart, vars, database

(* No statement fails in a step that leaves faults at 0.                   *)
LEMMA NoFault ==
  ASSUME TypeOK, faults' = 0, [Next]_vars
  PROVE  faults = 0 /\ \A s \in Sessions : ~StatementFails(s) /\ ~RoomIdFails(s)
<1>1. faults \in Nat
  BY DEF TypeOK
<1>2. \A s \in Sessions : ~StatementFails(s) /\ ~RoomIdFails(s)
  BY <1>1 DEF StatementFails, RoomIdFails
<1>3. ASSUME NEW s \in Sessions, HandlerStep(s) \/ ClientStep(s)
      PROVE  UNCHANGED faults
  BY <1>3 DEF HandlerStep, ClientStep, RegisterSender, ReadMemberships,
       ReadLastRoom, SubscribeRoom, SetActiveRoom, SaveMembership, ReplayHistory, SendToRoom,
       InsertMessage, GetSender, RemoveMembership, UnsubscribeRoom, ReadFallback,
       ReadSubscribedRooms, LeaveAllRooms, UnregisterSender, Connect, Leave, Text, Media,
       Disconnect, Join, Switch, Signal, Msg, ReadLine, bounds
<1>4. UNCHANGED faults
  BY <1>2, <1>3 DEF Next, ServerRestart, vars, bounds
<1>5. QED
  BY <1>2, <1>4

(* Who is alive together was so before, or has just connected where nobody *)
(* of the name was.                                                        *)
LEMMA OneAliveStep ==
  ASSUME TypeOK, ~Overlap, OneAlive, [Next]_vars
  PROVE  OneAlive'
<1>0. status \in [Sessions -> {"off", "on", "closing", "closed", "dead"}]
  BY DEF TypeOK
<1>1. ASSUME NEW u \in Sessions, Connect(u)
      PROVE  OneAlive'
  <2>1. \A s \in Sessions : s # u => status'[s] = status[s]
    BY <1>0, <1>1 DEF Connect
  <2>2. \A t \in Sessions : Alive(t) => Owner[t] # Owner[u]
    BY <1>1 DEF Connect, Open
  <2>3. QED
    BY <2>1, <2>2 DEF OneAlive, Alive
<1>2. ASSUME \A s \in Sessions : Alive(s)' => Alive(s)
      PROVE  OneAlive'
  BY <1>2 DEF OneAlive
<1>3. ASSUME NEW u \in Sessions, HandlerStep(u), NEW s \in Sessions, Alive(s)'
      PROVE  Alive(s)
  BY <1>0, <1>3 DEF Alive, HandlerStep, RegisterSender, ReadMemberships, ReadLastRoom,
       SubscribeRoom, SetActiveRoom, SaveMembership, ReplayHistory, SendToRoom,
       InsertMessage, GetSender, RemoveMembership, UnsubscribeRoom,
       ReadFallback, ReadSubscribedRooms, LeaveAllRooms, UnregisterSender
<1>4. ASSUME NEW u \in Sessions, ClientStep(u) \/ StatementFails(u) \/ RoomIdFails(u), ~Connect(u),
             NEW s \in Sessions, Alive(s)'
      PROVE  Alive(s)
  BY <1>0, <1>4 DEF Alive, ClientStep, StatementFails, RoomIdFails, Panic, Leave, Text, Media, Disconnect,
       Join, Switch, Signal, Msg, ReadLine, Idle
<1>5. ASSUME ServerRestart \/ UNCHANGED vars, NEW s \in Sessions, Alive(s)'
      PROVE  Alive(s)
  BY <1>0, <1>5 DEF Alive, ServerRestart, vars
<1>6. QED
  BY <1>1, <1>2, <1>3, <1>4, <1>5 DEF Next

LEMMA DistinctStep ==
  ASSUME TypeOK, RowsDistinct, [Next]_vars
  PROVE  RowsDistinct'
<1>0. memberships \in [Users -> Seq(Rooms)]
  BY DEF TypeOK
<1>1. CASE UNCHANGED memberships
  BY <1>1 DEF RowsDistinct
<1>2. ASSUME NEW t \in Sessions, SaveMembership(t) \/ RemoveMembership(t)
      PROVE  RowsDistinct'
  <2>1. PICK c : c = NextCall(t)
    OBVIOUS
  <2>2. c.user \in Users /\ c.room \in Rooms
    BY <1>2, <2>1, NextCallType DEF SaveMembership, RemoveMembership, About
  <2>3. PICK mine, room : mine = memberships[c.user] /\ room = c.room
    OBVIOUS
  <2>4. mine \in Seq(Rooms) /\ NoRepeats(mine) /\ room \in Rooms
    BY <1>0, <2>2, <2>3 DEF RowsDistinct
  <2>5. NoRepeats(save_room_membership(mine, room)) /\ NoRepeats(remove_room_membership(mine, room))
    BY <2>4, SavedFacts, WithoutFacts DEF remove_room_membership
  <2>6. \A u \in Users : memberships'[u] =
          IF u # c.user THEN memberships[u]
          ELSE IF SaveMembership(t) THEN save_room_membership(mine, room)
               ELSE remove_room_membership(mine, room)
    BY <1>0, <1>2, <2>1, <2>3 DEF SaveMembership, RemoveMembership
  <2>7. QED
    BY <2>5, <2>6 DEF RowsDistinct
<1>3. ASSUME NEW t \in Sessions, RoomIdFails(t)
      PROVE  RowsDistinct'
  <2>1. CASE UNCHANGED memberships
    BY <2>1 DEF RowsDistinct
  <2>2. CASE ~UNCHANGED memberships
    <3>1. PICK u : u = NextCall(t).user
      OBVIOUS
    <3>2. u \in Users /\ General \in Rooms
      BY <1>3, <3>1, RoomIdFailsFacts, NextCallType, RoomFacts
    <3>3. PICK mine : mine = memberships[u]
      OBVIOUS
    <3>4. mine \in Seq(Rooms) /\ NoRepeats(mine)
      BY <1>0, <3>2, <3>3 DEF RowsDistinct
    <3>5. NoRepeats(save_room_membership(mine, General))
      BY <3>2, <3>4, SavedFacts
    <3>6. \A v \in Users : memberships'[v] =
            IF v # u THEN memberships[v] ELSE save_room_membership(mine, General)
      BY <1>0, <1>3, <2>2, <3>1, <3>3, RoomIdFailsFacts
    <3>7. QED
      BY <3>5, <3>6 DEF RowsDistinct
  <2>3. QED
    BY <2>1, <2>2
<1>4. QED
  BY <1>1, <1>2, <1>3, MembershipStep

-----------------------------------------------------------------------------
(* What a task leaves ahead is still ahead, except the call it makes.      *)
LEMMA AheadKept ==
  ASSUME QueueInv, StageInv, [Next]_vars, UNCHANGED restarts, faults' = 0, NEW s \in Sessions,
         NEW c \in CallsIn(todo[s])
  PROVE  \/ c \in CallsIn(todo'[s])
         \/ HandlerStep(s) /\ NextCall(s) = c
<1>0. TypeOK
  BY DEF QueueInv, TypeAndEntries
<1>1. todo[s] # <<>>
  BY OneOrNone
<1>2. ASSUME NEW t \in Sessions, TaskStep(t), t # s
      PROVE  c \in CallsIn(todo'[s])
  BY <1>0, <1>2, OthersStep DEF TaskStep
<1>3. CASE TaskStep(s)
  <2>1. HandlerStep(s)
    BY <1>0, <1>1, <1>3, NoFault, ClientBegins DEF TaskStep
  <2>2. Proceeds(s)
    BY <1>0, <2>1, HandlerProceeds
  <2>3. QED
    BY <1>0, <1>1, <2>1, <2>2, NextCallIn DEF Proceeds
<1>4. ~ServerRestart
  BY <1>0 DEF ServerRestart, TypeOK
<1>5. CASE UNCHANGED vars
  BY <1>5 DEF vars
<1>6. QED
  BY <1>2, <1>3, <1>4, <1>5 DEF Next, TaskStep

LEMMA ReadyKept ==
  ASSUME QueueInv, StageInv, OneAlive, [Next]_vars, UNCHANGED restarts, faults' = 0,
         NEW s \in Sessions, status[s] = "on", NEW r \in Rooms, Ready(s, r), ~Leaves(s, r),
         r \in Channels \/ NoStaleSender
  PROVE  Ready(s, r)'
<1>1. CASE Live(s, r)
  BY <1>1, LiveKept DEF Ready
<1>2. ASSUME NEW c \in CallsIn(todo[s]), Subs(c, s, r)
      PROVE  Ready(s, r)'
  <2>1. CASE c \in CallsIn(todo'[s])
    BY <1>2, <2>1 DEF Ready
  <2>2. CASE HandlerStep(s) /\ NextCall(s) = c
    <3>1. SubscribeRoom(s)
      BY <1>2, <2>2, CallMade DEF Subs
    <3>2. Subs(NextCall(s), s, r)
      BY <1>2, <2>2
    <3>3. QED
      BY <3>1, <3>2, SubscribedNow DEF Ready, QueueInv, TypeAndEntries
  <2>3. QED
    BY <2>1, <2>2, AheadKept
<1>3. QED
  BY <1>1, <1>2 DEF Ready

(* A line of the client brings no unsubscribe at once, and saves no room   *)
(* it does not subscribe to.                                               *)
LEMMA ClientLine ==
  ASSUME TypeOK, NEW s \in Sessions, ClientStep(s)
  PROVE  /\ todo'[s] # <<>> => todo'[s][1].op # "unsubscribe"
         /\ \A c \in CallsIn(todo'[s]) : c.op = "save" =>
              \E d \in CallsIn(todo'[s]) : Subs(d, s, c.room)
<1> DEFINE Fine == /\ todo'[s] # <<>> => todo'[s][1].op # "unsubscribe"
                   /\ \A c \in CallsIn(todo'[s]) : c.op = "save" =>
                        \E d \in CallsIn(todo'[s]) : Subs(d, s, c.room)
<1>0. todo \in [Sessions -> Seq(Calls)]
  BY DEF TypeOK, TodoOK
<1>1. ASSUME todo'[s] # <<>> => todo'[s][1].op # "unsubscribe",
             \A i \in 1..Len(todo'[s]) : todo'[s][i].op # "save"
      PROVE  Fine
  BY <1>1 DEF CallsIn
<1>2. ASSUME NEW q, NEW room, todo'[s] = q, 1 \in 1..Len(q),
             q[1] = Own(s, "subscribe", room),
             \A i \in 1..Len(q) : q[i].room = room
      PROVE  Fine
  <2>1. q[1].op = "subscribe" /\ Subs(q[1], s, room)
    BY <1>2 DEF Own, Call, Subs
  <2>2. QED
    BY <1>2, <2>1 DEF CallsIn
<1>3. ASSUME NEW r \in Visible(Owner[s]), Join(s, r)
      PROVE  Fine
  <2>1. PICK q : q = todo'[s]
    OBVIOUS
  <2>2. \A i \in 1..Len(q) : q[i].room = r
    BY <1>0, <1>3, <2>1 DEF Join, Begin, Own, Call
  <2>3. PICK p : p = <<Own(s, "subscribe", r), Own(s, "set_active", r),
                      Own(s, "save", r), Own(s, "replay", r)>>
    OBVIOUS
  <2>4. PICK l : q = p \o l /\ (l = <<>> \/ l = <<Own(s, "broadcast", r)>>)
    BY <1>0, <1>3, <2>1, <2>3 DEF Join, Begin
  <2>5. p \in Seq(CallsOf(s)) /\ Len(p) = 4 /\ p[1] = Own(s, "subscribe", r)
    <3>1. /\ Own(s, "subscribe", r) \in CallsOf(s) /\ Own(s, "set_active", r) \in CallsOf(s)
          /\ Own(s, "save", r) \in CallsOf(s) /\ Own(s, "replay", r) \in CallsOf(s)
      BY <1>3, OwnCall DEF Visible, Ops
    <3>2. QED
      BY <2>3, <3>1
  <2>6. l \in Seq(CallsOf(s))
    <3>1. Own(s, "broadcast", r) \in CallsOf(s)
      BY <1>3, OwnCall DEF Visible, Ops
    <3>2. <<>> \in Seq(CallsOf(s)) /\ <<Own(s, "broadcast", r)>> \in Seq(CallsOf(s))
      BY <3>1, EmptySeq
    <3>3. QED
      BY <2>4, <3>2
  <2>7. Len(l) \in Nat
    BY <2>6, LenProperties
  <2>8. /\ Len(q) = Len(p) + Len(l)
        /\ \A i \in 1..(Len(p) + Len(l)) : q[i] = IF i <= Len(p) THEN p[i] ELSE l[i - Len(p)]
    BY <2>4, <2>5, <2>6, ConcatProperties
  <2>9. 1 \in 1..Len(q) /\ 1 \in 1..(Len(p) + Len(l)) /\ 1 <= Len(p)
    BY <2>5, <2>7, <2>8
  <2>10. q[1] = Own(s, "subscribe", r)
    BY <2>5, <2>8, <2>9
  <2>11. QED
    BY <1>2, <2>1, <2>2, <2>9, <2>10
<1>4. ASSUME NEW v \in Users, Msg(s, v)
      PROVE  Fine
  <2>1. PICK q, dm, m : q = todo'[s] /\ dm = dm_room(Owner[s], v) /\ m = FreshId
    OBVIOUS
  <2>2. q = <<Own(s, "subscribe", dm), Own(s, "set_active", dm),
              Own(s, "save", dm), Own(s, "replay", dm),
              Call("insert", Owner[s], s, dm, m), Call("save", v, s, dm, Notice),
              Call("get_sender", v, s, dm, Notice), Call("broadcast", Owner[s], s, dm, m)>>
    BY <1>0, <1>4, <2>1 DEF Msg, Begin
  <2>3. /\ 1 \in 1..Len(q) /\ q[1] = Own(s, "subscribe", dm)
        /\ \A i \in 1..Len(q) : q[i].room = dm
    BY <2>2 DEF Own, Call
  <2>4. QED
    BY <1>2, <2>1, <2>3
<1>5. CASE Connect(s)
  <2>1. todo'[s] = <<Own(s, "register", General), Own(s, "memberships", General)>>
    BY <1>0, <1>5 DEF Connect, Begin
  <2>2. \A i \in 1..Len(todo'[s]) : todo'[s][i].op \in {"register", "memberships"}
    BY <2>1 DEF Own, Call
  <2>3. todo'[s][1].op = "register"
    BY <2>1 DEF Own, Call
  <2>4. QED
    BY <1>1, <2>2, <2>3
<1>6. CASE Leave(s)
  <2>1. PICK room : todo'[s] = <<Own(s, "remove", room), Own(s, "unsubscribe", room),
                                Own(s, "broadcast", room), Own(s, "fallback", room)>>
    BY <1>0, <1>6 DEF Leave, Begin
  <2>2. \A i \in 1..Len(todo'[s]) :
          todo'[s][i].op \in {"remove", "unsubscribe", "broadcast", "fallback"}
    BY <2>1 DEF Own, Call
  <2>3. todo'[s][1].op = "remove"
    BY <2>1 DEF Own, Call
  <2>4. QED
    BY <1>1, <2>2, <2>3
<1>7. CASE Text(s) \/ Media(s)
  BY <1>0, <1>1, <1>7 DEF Text, Media, Begin, Call
<1>8. CASE Disconnect(s)
  <2>1. todo'[s] = <<Own(s, "goodbye", General), Own(s, "leave_all", General),
                     Own(s, "unregister", General)>>
    BY <1>0, <1>8 DEF Disconnect, Begin
  <2>2. \A i \in 1..Len(todo'[s]) : todo'[s][i].op \in Cleanup
    BY <2>1 DEF Own, Call, Cleanup
  <2>3. todo'[s][1].op = "goodbye"
    BY <2>1 DEF Own, Call
  <2>4. QED
    BY <1>1, <2>2, <2>3 DEF Cleanup
<1>9. ASSUME NEW r \in Visible(Owner[s]), Switch(s, r)
      PROVE  Fine
  <2>1. todo'[s] = <<>>
    BY <1>9 DEF Switch, ReadLine, Idle
  <2>2. QED
    BY <1>1, <2>1
<1>10. ASSUME NEW r \in Visible(Owner[s]), Signal(s, r)
       PROVE  Fine
  BY <1>0, <1>1, <1>10 DEF Signal, Begin, Own, Call
<1>11. QED
  BY <1>3, <1>4, <1>5, <1>6, <1>7, <1>8, <1>9, <1>10 DEF ClientStep

(* What a user's rows may gain and lose: a channel, by the user's own save *)
(* and remove.                                                             *)
LEMMA ChannelRowStep ==
  ASSUME ChannelInv, [Next]_vars, faults' = 0, NEW s \in Sessions, Alive(s), NEW r \in Channels
  PROVE  /\ r \in CallsIn(memberships'[Owner[s]]) /\ r \notin CallsIn(memberships[Owner[s]]) =>
              SaveMembership(s) /\ NextCall(s).room = r
         /\ RemoveMembership(s) /\ NextCall(s).room = r => r \notin CallsIn(memberships'[Owner[s]])
<1>0. /\ TypeOK /\ OneAlive /\ memberships \in [Users -> Seq(Rooms)]
      /\ Owner[s] \in Users /\ r \notin DmRooms
  BY ServerAssumption DEF ChannelInv, QueueInv, TypeAndEntries, TypeOK
<1>1. PICK mine : mine = memberships[Owner[s]]
  OBVIOUS
<1>2. mine \in Seq(Rooms) /\ NoRepeats(mine)
  BY <1>0, <1>1 DEF ChannelInv, RowsDistinct
<1>3. ASSUME NEW t \in Sessions, SaveMembership(t) \/ RemoveMembership(t)
      PROVE  /\ r \in CallsIn(memberships'[Owner[s]]) /\ r \notin CallsIn(mine) =>
                  SaveMembership(t) /\ t = s /\ NextCall(t).room = r
             /\ RemoveMembership(t) /\ t = s /\ NextCall(t).room = r
                  => r \notin CallsIn(memberships'[Owner[s]])
  <2>1. PICK c, room : c = NextCall(t) /\ room = c.room
    OBVIOUS
  <2>2. /\ c \in CallsOf(t) /\ c.user \in Users /\ room \in Rooms /\ Alive(t)
        /\ SaveMembership(t) => c.op = "save"
        /\ RemoveMembership(t) => c.op = "remove"
    BY <1>0, <1>3, <2>1, NextCallType DEF SaveMembership, RemoveMembership, About
  <2>3. memberships'[Owner[s]] =
          IF Owner[s] # c.user THEN mine
          ELSE IF SaveMembership(t) THEN save_room_membership(mine, room)
               ELSE remove_room_membership(mine, room)
    BY <1>0, <1>1, <1>3, <2>1 DEF SaveMembership, RemoveMembership
  <2>4. /\ CallsIn(save_room_membership(mine, room)) = {room} \cup CallsIn(mine)
        /\ CallsIn(remove_room_membership(mine, room)) = CallsIn(mine) \ {room}
    BY <1>2, <2>2, SavedFacts, WithoutFacts DEF remove_room_membership
  <2>5. ASSUME r \in CallsIn(memberships'[Owner[s]]), r \notin CallsIn(mine)
        PROVE  SaveMembership(t) /\ t = s /\ room = r
    <3>1. Owner[s] = c.user /\ SaveMembership(t) /\ room = r
      BY <2>3, <2>4, <2>5
    <3>2. c.user = Owner[t]
      BY <1>0, <2>1, <2>2, <3>1 DEF CallsOf
    <3>3. t = s
      BY <1>0, <2>2, <3>1, <3>2 DEF OneAlive
    <3>4. QED
      BY <3>1, <3>3
  <2>6. ASSUME RemoveMembership(t), t = s, room = r
        PROVE  r \notin CallsIn(memberships'[Owner[s]])
    <3>1. c.op = "remove" /\ c.user = Owner[s] /\ ~SaveMembership(t)
      BY <2>1, <2>2, <2>6 DEF CallsOf, SaveMembership, About
    <3>2. QED
      BY <2>3, <2>4, <2>6, <3>1
  <2>7. QED
    BY <2>1, <2>5, <2>6
<1>4. QED
  BY <1>0, <1>1, <1>3, MembershipStep, NoFault

-----------------------------------------------------------------------------
(* The steps of a connection that serves, and those around it.             *)
LEMMA StatusStep ==
  ASSUME TypeOK, [Next]_vars, faults' = 0, NEW s \in Sessions, status'[s] = "on"
  PROVE  \/ Connect(s)
         \/ /\ status[s] = "on" /\ UNCHANGED restarts
            /\ HandlerStep(s) \/ ClientStep(s) \/ todo'[s] = todo[s]
<1>0. status \in [Sessions -> {"off", "on", "closing", "closed", "dead"}]
  BY DEF TypeOK
<1>1. ASSUME NEW t \in Sessions, HandlerStep(t) \/ ClientStep(t)
      PROVE  UNCHANGED restarts
  BY <1>1 DEF HandlerStep, ClientStep, RegisterSender, ReadMemberships,
       ReadLastRoom, SubscribeRoom, SetActiveRoom, SaveMembership, ReplayHistory, SendToRoom,
       InsertMessage, GetSender, RemoveMembership, UnsubscribeRoom, ReadFallback,
       ReadSubscribedRooms, LeaveAllRooms, UnregisterSender, Connect, Leave, Text, Media,
       Disconnect, Join, Switch, Signal, Msg, ReadLine, bounds
<1>2. ASSUME NEW t \in Sessions, t # s, HandlerStep(t) \/ ClientStep(t)
      PROVE  status[s] = "on" /\ todo'[s] = todo[s]
  BY <1>2, OthersStep
<1>3. CASE HandlerStep(s)
  BY <1>0, <1>1, <1>3, CallMade
<1>4. CASE ClientStep(s)
  <2>1. ~Connect(s) => status[s] = "on"
    BY <1>4 DEF ClientStep, Leave, Text, Media, Disconnect, Join, Switch, Signal, Msg,
         ReadLine, Idle
  <2>2. QED
    BY <1>1, <1>4, <2>1
<1>5. ~ServerRestart
  BY <1>0 DEF ServerRestart, Alive
<1>6. CASE UNCHANGED vars
  BY <1>6 DEF vars, bounds
<1>7. QED
  BY <1>1, <1>2, <1>3, <1>4, <1>5, <1>6, NoFault DEF Next

LEMMA LeftStep ==
  ASSUME ChannelInv, [Next]_vars, faults' = 0, NEW s \in Sessions
  PROVE  LeftIsGone(s)'
<1>0. /\ QueueInv /\ StageInv /\ TypeOK /\ TypeOK' /\ StageInv'
      /\ faults = 0 /\ LeftIsGone(s)
  BY NextType, StageStep, NoFault DEF ChannelInv, QueueInv, TypeAndEntries
<1> SUFFICES ASSUME NEW r \in Channels, todo'[s] # <<>>, NEW d, d = Head(todo'[s]),
                    d.op = "unsubscribe", d.room = r
             PROVE  r \notin CallsIn(memberships'[Owner[s]])
  BY DEF LeftIsGone, Leaves, MyChannels, NextCall
<1>1. d \in CallsIn(todo'[s]) /\ d = todo'[s][1]
  <2>1. PICK q \in Seq(CallsOf(s)) : q = todo'[s]
    BY <1>0 DEF TypeOK, TodoOK
  <2>2. Head(q) \in CallsIn(q) /\ Head(q) = q[1]
    BY <2>1, CallsInTail, HeadTailProperties
  <2>3. QED
    BY <2>1, <2>2
<1>2. CASE todo'[s] = todo[s]
  <2>1. Leaves(s, r) /\ todo[s] # <<>> /\ NextCall(s).op = "unsubscribe"
    BY <1>2 DEF Leaves, NextCall
  <2>2. r \notin CallsIn(memberships[Owner[s]]) /\ Alive(s)
    BY <1>0, <2>1, CallsAreOfTheLiving DEF LeftIsGone, MyChannels
  <2>3. ~SaveMembership(s)
    BY <2>1 DEF SaveMembership, About
  <2>4. QED
    BY <2>2, <2>3, ChannelRowStep
<1>3. CASE HandlerStep(s)
  <2>1. todo[s] # <<>> /\ Alive(s)
    BY <1>3, CallMade
  <2>2. d \in CallsIn(Tail(todo[s]))
    BY <1>0, <1>1, <1>3, HandlerProceeds DEF Proceeds, Added
  <2>3. NextCall(s).op = "remove" /\ NextCall(s).room = r
    BY <1>0, <2>1, <2>2, PendingCalls DEF QueueInv, After
  <2>4. RemoveMembership(s)
    BY <1>3, <2>3, CallMade
  <2>5. QED
    BY <2>1, <2>3, <2>4, ChannelRowStep
<1>4. CASE ClientStep(s)
  BY <1>0, <1>1, <1>4, ClientLine
<1>5. HandlerStep(s) \/ ClientStep(s) \/ todo'[s] = todo[s]
  <2>1. \A t \in Sessions : t # s /\ TaskStep(t) => todo'[s] = todo[s]
    BY <1>0, OthersStep DEF TaskStep
  <2>2. ~ServerRestart
    BY DEF ServerRestart
  <2>3. QED
    BY <1>0, <2>1, <2>2, NoFault DEF Next, TaskStep, vars
<1>6. QED
  BY <1>2, <1>3, <1>4, <1>5

(* A task subscribes nobody but its own connection.                        *)
OnlyItself(s) == \A d \in CallsIn(todo[s]) : d.op = "subscribe" => d.tx = s

(* What resume saves, it subscribes to.                                    *)
LEMMA ResumeReady ==
  ASSUME QueueInv, NEW s \in Sessions, ReadLastRoom(s), NEW c \in CallsIn(todo'[s]),
         c.op = "save", c.room \in Channels \/ OnlyItself(s)
  PROVE  \E d \in CallsIn(todo'[s]) : Subs(d, s, c.room)
<1>0. TypeOK /\ QueuesOK /\ todo[s] # <<>> /\ NextCall(s).op = "resume"
  BY DEF QueueInv, TypeAndEntries, ReadLastRoom, About
<1>1. PICK room : room = LastRoomOr(memberships[Owner[s]], General)
  OBVIOUS
<1>2. room \in Rooms /\ ResumeIn(s, room)
  BY <1>0, <1>1, LastRoomType, ServerAssumption DEF TypeOK, ReadLastRoom
<1>3. PICK A, B : /\ A = CallsIn(Tail(todo[s]))
                 /\ B = (IF \E d \in A : d.room = room THEN {} ELSE {Own(s, "subscribe", room)})
  OBVIOUS
<1>4. CallsIn(todo'[s]) = A \cup ResumeLast(s, room) \cup B
  BY <1>0, <1>2, <1>3, ResumeCalls
<1>5. \A d \in A : d.op = "subscribe" /\ d \in CallsOf(s)
  BY <1>0, <1>3, PendingCalls DEF After
<1>6. Own(s, "subscribe", room).op = "subscribe" /\ Subs(Own(s, "subscribe", room), s, room)
  BY DEF Own, Call, Subs
<1>7. \A d \in ResumeLast(s, room) : d.room = room
  BY DEF ResumeLast, Own, Call
<1>8. c.room = room
  BY <1>3, <1>4, <1>5, <1>6, <1>7
<1>9. \A d \in A : d.room = room => Subs(d, s, room)
  <2>1. CASE c.room \in Channels
    BY <1>5, <1>8, <2>1, ServerAssumption DEF CallsOf, Subs
  <2>2. CASE OnlyItself(s)
    BY <1>0, <1>3, <1>5, <2>2, NextCallIn DEF OnlyItself, Subs
  <2>3. QED
    BY <2>1, <2>2
<1>10. QED
  BY <1>3, <1>4, <1>6, <1>8, <1>9

(* A connection that has just been made has its memberships to read.       *)
LEMMA ConnectServes ==
  ASSUME TypeOK, NEW s \in Sessions, Connect(s)
  PROVE  (SavesReady(s, Rooms) /\ MineReady(s))'
<1>1. PICK q : q = <<Own(s, "register", General), Own(s, "memberships", General)>>
  OBVIOUS
<1>2. todo'[s] = q
  BY <1>1 DEF Connect, Begin, TypeOK, TodoOK
<1>3. \A i \in 1..Len(q) : q[i].op # "save"
  BY <1>1 DEF Own, Call
<1>4. 2 \in 1..Len(q) /\ q[2].op = "memberships"
  BY <1>1 DEF Own, Call
<1>5. \A c \in CallsIn(q) : c.op # "save"
  BY <1>3 DEF CallsIn
<1>6. \E c \in CallsIn(q) : c.op = "memberships"
  BY <1>4 DEF CallsIn
<1>7. QED
  BY <1>2, <1>5, <1>6 DEF SavesReady, MineReady

LEMMA SavesStep ==
  ASSUME QueueInv, StageInv, OneAlive, [Next]_vars, faults' = 0, NEW s \in Sessions,
         NEW S, SavesReady(s, S), status[s] = "on", UNCHANGED restarts,
         S = Channels \/ (S = Rooms /\ NoStaleSender),
         HandlerStep(s) \/ ClientStep(s) \/ todo'[s] = todo[s],
         S # Channels /\ ReadLastRoom(s) => OnlyItself(s)
  PROVE  SavesReady(s, S)'
<1>0. TypeOK /\ QueuesOK /\ Channels \subseteq Rooms
  BY DEF QueueInv, TypeAndEntries, Rooms
<1> SUFFICES ASSUME NEW c \in CallsIn(todo'[s]), c.op = "save", c.user = Owner[s], c.room \in S
             PROVE  Ready(s, c.room)'
  BY DEF SavesReady
<1>1. CASE c \in CallsIn(todo[s])
  <2>1. Ready(s, c.room)
    BY <1>1 DEF SavesReady
  <2>2. ~Leaves(s, c.room)
    BY <1>0, <1>1, NextCallIn, PendingCalls DEF Leaves, After
  <2>3. QED
    BY <1>0, <2>1, <2>2, ReadyKept
<1>2. CASE c \notin CallsIn(todo[s]) /\ HandlerStep(s)
  <2>1. todo[s] # <<>> /\ Proceeds(s)
    BY <1>0, <1>2, CallMade, HandlerProceeds
  <2>2. NextCall(s).op = "resume"
    BY <1>0, <1>2, <2>1, NextCallIn DEF Proceeds, Added
  <2>3. ReadLastRoom(s)
    BY <1>2, <2>2, CallMade
  <2>4. \E d \in CallsIn(todo'[s]) : Subs(d, s, c.room)
    BY <2>3, ResumeReady
  <2>5. QED
    BY <2>4 DEF Ready
<1>3. CASE ClientStep(s)
  BY <1>0, <1>3, ClientLine DEF Ready
<1>4. QED
  BY <1>1, <1>2, <1>3

LEMMA MineStep ==
  ASSUME ChannelInv, [Next]_vars, faults' = 0, NEW s \in Sessions,
         status[s] = "on", UNCHANGED restarts,
         HandlerStep(s) \/ ClientStep(s) \/ todo'[s] = todo[s]
  PROVE  MineReady(s)'
<1>0. /\ QueueInv /\ StageInv /\ OneAlive /\ TypeOK /\ QueuesOK /\ Alive(s)
      /\ SavesReady(s, Channels) /\ MineReady(s) /\ LeftIsGone(s) /\ Channels \subseteq Rooms
  BY NoFault DEF ChannelInv, QueueInv, TypeAndEntries, Serves, Alive, Rooms
<1> SUFFICES ASSUME NEW r \in Channels, r \in CallsIn(memberships'[Owner[s]])
             PROVE  Ready(s, r)' \/ \E c \in CallsIn(todo'[s]) : c.op = "memberships"
  BY DEF MineReady, MyChannels
<1>1. CASE r \notin CallsIn(memberships[Owner[s]])
  <2>1. SaveMembership(s) /\ NextCall(s).room = r
    BY <1>0, <1>1, ChannelRowStep
  <2>2. todo[s] # <<>> /\ NextCall(s).op = "save"
    BY <2>1 DEF SaveMembership, About
  <2>3. NextCall(s).user = Owner[s]
    BY <1>0, <2>1, <2>2, NextCallType, ServerAssumption DEF CallsOf
  <2>4. Ready(s, r) /\ ~Leaves(s, r)
    BY <1>0, <2>1, <2>2, <2>3, NextCallIn DEF SavesReady, Leaves
  <2>5. QED
    BY <1>0, <2>4, ReadyKept
<1>2. CASE r \in CallsIn(memberships[Owner[s]])
  <2>1. r \in MyChannels(s) /\ ~Leaves(s, r)
    BY <1>0, <1>2 DEF MyChannels, LeftIsGone
  <2>2. CASE Ready(s, r)
    BY <1>0, <2>1, <2>2, ReadyKept
  <2>3. ASSUME NEW c \in CallsIn(todo[s]), c.op = "memberships", c \notin CallsIn(todo'[s])
        PROVE  Ready(s, r)'
    <3>1. HandlerStep(s) /\ NextCall(s) = c
      BY <1>0, <2>3, AheadKept
    <3>2. ReadMemberships(s) /\ todo[s] # <<>>
      BY <2>3, <3>1, CallMade
    <3>3. PICK found : found = memberships[Owner[s]]
      OBVIOUS
    <3>4. found \in Seq(Rooms) /\ MembershipsAre(s, found)
      BY <1>0, <3>2, <3>3, ServerAssumption DEF ReadMemberships, TypeOK
    <3>5. Own(s, "subscribe", r) \in {Own(s, "subscribe", x) : x \in CallsIn(found)}
      BY <1>2, <3>3
    <3>6. Own(s, "subscribe", r) \in CallsIn(todo'[s])
      BY <1>0, <3>2, <3>4, <3>5, MembershipsListed
    <3>7. Subs(Own(s, "subscribe", r), s, r)
      BY DEF Subs, Own, Call
    <3>8. QED
      BY <3>6, <3>7 DEF Ready
  <2>4. QED
    BY <1>0, <2>1, <2>2, <2>3 DEF MineReady
<1>3. QED
  BY <1>1, <1>2

LEMMA ChannelInvStep ==
  ASSUME ChannelInv, [Next]_vars
  PROVE  ChannelInv'
<1>0. TypeOK /\ QueueInv /\ StageInv /\ ~Overlap /\ OneAlive /\ RowsDistinct
  BY DEF ChannelInv, QueueInv, TypeAndEntries
<1>1. QueueInv' /\ StageInv'
  BY <1>0, NextType, QueueInvStep, StageStep
<1>2. OneAlive' /\ RowsDistinct'
  BY <1>0, OneAliveStep, DistinctStep
<1>3. ASSUME faults' = 0, NEW s \in Sessions
      PROVE  LeftIsGone(s)' /\ Serves(s)'
  <2>1. LeftIsGone(s)'
    BY <1>3, LeftStep
  <2>2. ASSUME status'[s] = "on"
        PROVE  (SavesReady(s, Channels) /\ MineReady(s))'
    <3>1. CASE Connect(s)
      BY <1>0, <3>1, ConnectServes DEF SavesReady, Rooms
    <3>2. CASE /\ status[s] = "on" /\ UNCHANGED restarts
               /\ HandlerStep(s) \/ ClientStep(s) \/ todo'[s] = todo[s]
      BY <1>0, <1>3, <3>2, NoFault, SavesStep, MineStep DEF ChannelInv, Serves
    <3>3. QED
      BY <1>0, <1>3, <2>2, <3>1, <3>2, StatusStep
  <2>3. QED
    BY <2>1, <2>2 DEF Serves
<1>4. QED
  BY <1>0, <1>1, <1>2, <1>3 DEF ChannelInv

(* A connection between two lines is subscribed to every channel its user  *)
(* is a member of, whatever /join, /leave, /msg and restarts came before,  *)
(* as long as no SQL statement failed, and a user opens a connection only  *)
(* when the one before is gone: no row of room_members outlives the        *)
(* subscription, and none comes before it.                                 *)
THEOREM MembersAreLive == ~Overlap /\ Spec => [](faults = 0 => MemberChannelsAreLive)
<1>1. ~Overlap /\ Init => ChannelInv
  <2> SUFFICES ASSUME ~Overlap, Init PROVE ChannelInv
    OBVIOUS
  <2>1. QueueInv
    BY QueueInvInit
  <2>2. StageInv /\ OneAlive
    BY DEF Init, StageInv, Stage, OneAlive, Alive
  <2>3. RowsDistinct
    BY ServerAssumption DEF Init, RowsDistinct, NoRepeats
  <2>4. \A s \in Sessions : LeftIsGone(s) /\ Serves(s)
    BY DEF Init, LeftIsGone, Leaves, Serves
  <2>5. QED
    BY <2>1, <2>2, <2>3, <2>4 DEF ChannelInv
<1>2. ChannelInv => (faults = 0 => MemberChannelsAreLive)
  <2> SUFFICES ASSUME ChannelInv, faults = 0, NEW s \in Sessions, Idle(s),
                      NEW r \in MemberOf(Owner[s]) \cap Channels
               PROVE  Live(s, r)
    BY DEF MemberChannelsAreLive
  <2>1. todo[s] = <<>> /\ MineReady(s)
    BY DEF Idle, ChannelInv, Serves
  <2>2. r \in MyChannels(s)
    BY DEF MyChannels, MemberOf, CallsIn
  <2>3. \A c : c \notin CallsIn(todo[s])
    BY <2>1, OneOrNone
  <2>4. QED
    BY <2>1, <2>2, <2>3 DEF MineReady, Ready
<1>3. QED
  BY <1>1, <1>2, ChannelInvStep, PTL DEF Spec

-----------------------------------------------------------------------------
(* The room a user comes back to is live.                                  *)
(*                                                                         *)
(* It is what the user's task enters and saves, or what another user's     *)
(* /msg saves for the user and then subscribes the user to.  So the latest *)
(* room of a serving connection is one it is ready for, or its own task    *)
(* has still to read which room that is, or a /msg has still to look up    *)
(* its sender or to subscribe it.                                          *)

Ahead(s, op) == \E c \in CallsIn(todo[s]) : c.op = op

Looks(c, u, r)   == c.op = "get_sender" /\ c.user = u /\ c.room = r
Summoned(s, r)   == \E t \in Sessions : \E c \in CallsIn(todo[t]) :
                      Looks(c, Owner[s], r) \/ Subs(c, s, r)

(* What one call of a handler needs of the calls after it.                 *)
Complete(s) ==
  /\ Ahead(s, "register") => Ahead(s, "memberships")
  /\ Ahead(s, "remove") \/ Ahead(s, "unsubscribe") => Ahead(s, "fallback")
  /\ Ahead(s, "memberships") \/ Ahead(s, "resume") => OnlyItself(s)
  /\ \A c \in CallsIn(todo[s]) : c.op = "save" /\ c.user # Owner[s] =>
       \E d \in CallsIn(todo[s]) : Looks(d, c.user, c.room)

Registered(s) ==
  status[s] = "on" => Ahead(s, "register") \/ user_senders[Owner[s]] = s

Entered(s, r) ==
  Ready(s, r) \/ Ahead(s, "memberships") \/ Ahead(s, "fallback") \/ Summoned(s, r)

LatestEntered(s) ==
  memberships[Owner[s]] # <<>> => Entered(s, Head(memberships[Owner[s]]))

LatestInv ==
  /\ QueueInv /\ StageInv
  /\ faults = 0 => \A s \in Sessions :
       /\ Complete(s) /\ Registered(s)
       /\ status[s] = "on" => SavesReady(s, Rooms) /\ LatestEntered(s)

LEMMA LineComplete ==
  ASSUME TypeOK, NEW s \in Sessions, ClientStep(s)
  PROVE  Complete(s)'
<1>0. todo \in [Sessions -> Seq(Calls)] /\ Owner[s] \in Users
  BY ServerAssumption DEF TypeOK, TodoOK
<1>1. PICK q : q = todo'[s]
  OBVIOUS
<1> DEFINE Quiet(c) == /\ c.op \notin {"register", "memberships", "resume", "remove", "unsubscribe"}
                       /\ c.op = "save" => c.user = Owner[s]
<1>2. ASSUME \A i \in 1..Len(q) : Quiet(q[i])
      PROVE  Complete(s)'
  BY <1>1, <1>2 DEF Complete, Ahead, CallsIn
<1>3. ASSUME NEW r \in Visible(Owner[s]), Join(s, r) \/ Signal(s, r)
      PROVE  Complete(s)'
  <2>1. \A i \in 1..Len(q) :
          /\ q[i].op \in {"subscribe", "set_active", "save", "replay", "broadcast"}
          /\ q[i].user = Owner[s]
    BY <1>0, <1>1, <1>3 DEF Join, Signal, Begin, Own, Call
  <2>2. QED
    BY <1>2, <2>1
<1>4. ASSUME NEW r \in Visible(Owner[s]), Switch(s, r)
      PROVE  Complete(s)'
  <2>1. q = <<>>
    BY <1>1, <1>4 DEF Switch, ReadLine, Idle
  <2>2. QED
    BY <1>2, <2>1
<1>5. CASE Text(s) \/ Media(s)
  <2>1. \A i \in 1..Len(q) : q[i].op \in {"broadcast", "insert", "insert_ok"}
    BY <1>0, <1>1, <1>5 DEF Text, Media, Begin, Call
  <2>2. QED
    BY <1>2, <2>1
<1>6. CASE Disconnect(s)
  <2>1. q = <<Own(s, "goodbye", General), Own(s, "leave_all", General),
              Own(s, "unregister", General)>>
    BY <1>0, <1>1, <1>6 DEF Disconnect, Begin
  <2>2. \A i \in 1..Len(q) : q[i].op \in Cleanup
    BY <2>1 DEF Own, Call, Cleanup
  <2>3. QED
    BY <1>2, <2>2 DEF Cleanup
<1>7. CASE Connect(s)
  <2>1. q = <<Own(s, "register", General), Own(s, "memberships", General)>>
    BY <1>0, <1>1, <1>7 DEF Connect, Begin
  <2>2. /\ \A i \in 1..Len(q) : q[i].op \in {"register", "memberships"}
        /\ 2 \in 1..Len(q) /\ q[2].op = "memberships"
    BY <2>1 DEF Own, Call
  <2>3. /\ \A c \in CallsIn(q) : c.op \in {"register", "memberships"}
        /\ \E c \in CallsIn(q) : c.op = "memberships"
    BY <2>2 DEF CallsIn
  <2>4. QED
    BY <1>1, <2>3 DEF Complete, Ahead, OnlyItself
<1>8. CASE Leave(s)
  <2>1. PICK room : q = <<Own(s, "remove", room), Own(s, "unsubscribe", room),
                          Own(s, "broadcast", room), Own(s, "fallback", room)>>
    BY <1>0, <1>1, <1>8 DEF Leave, Begin
  <2>2. /\ \A i \in 1..Len(q) : q[i].op \in {"remove", "unsubscribe", "broadcast", "fallback"}
        /\ 4 \in 1..Len(q) /\ q[4].op = "fallback"
    BY <2>1 DEF Own, Call
  <2>3. /\ \A c \in CallsIn(q) : c.op \in {"remove", "unsubscribe", "broadcast", "fallback"}
        /\ \E c \in CallsIn(q) : c.op = "fallback"
    BY <2>2 DEF CallsIn
  <2>4. QED
    BY <1>1, <2>3 DEF Complete, Ahead
<1>9. ASSUME NEW v \in Users, Msg(s, v)
      PROVE  Complete(s)'
  <2>1. PICK dm, m : dm = dm_room(Owner[s], v) /\ m = FreshId
    OBVIOUS
  <2>2. q = <<Own(s, "subscribe", dm), Own(s, "set_active", dm),
              Own(s, "save", dm), Own(s, "replay", dm),
              Call("insert", Owner[s], s, dm, m), Call("save", v, s, dm, Notice),
              Call("get_sender", v, s, dm, Notice), Call("broadcast", Owner[s], s, dm, m)>>
    BY <1>0, <1>1, <1>9, <2>1 DEF Msg, Begin
  <2>3. /\ 7 \in 1..Len(q) /\ Looks(q[7], v, dm)
        /\ \A i \in 1..Len(q) :
             /\ q[i].op \notin {"register", "memberships", "resume", "remove", "unsubscribe"}
             /\ q[i].op = "save" => q[i].room = dm /\ q[i].user \in {Owner[s], v}
    BY <2>2 DEF Own, Call, Looks
  <2>4. /\ \E d \in CallsIn(q) : Looks(d, v, dm)
        /\ \A c \in CallsIn(q) :
             /\ c.op \notin {"register", "memberships", "resume", "remove", "unsubscribe"}
             /\ c.op = "save" => c.room = dm /\ c.user \in {Owner[s], v}
    BY <2>3 DEF CallsIn
  <2>5. QED
    BY <1>1, <2>4 DEF Complete, Ahead
<1>10. QED
  BY <1>3, <1>4, <1>5, <1>6, <1>7, <1>8, <1>9 DEF ClientStep

(* A call that another needs comes after it.                               *)
LEMMA HandlerComplete ==
  ASSUME QueueInv, NEW s \in Sessions, HandlerStep(s), Complete(s)
  PROVE  Complete(s)'
<1>0. TypeOK /\ QueuesOK /\ todo[s] # <<>> /\ Proceeds(s)
  BY CallMade, HandlerProceeds DEF QueueInv, TypeAndEntries
<1>1. PICK A, B, n : A = CallsIn(Tail(todo[s])) /\ B = CallsIn(todo'[s]) /\ n = NextCall(s)
  OBVIOUS
<1>2. /\ CallsIn(todo[s]) = {n} \cup A /\ A \subseteq B
      /\ \A c \in B : c \in A \/ Added(s, c)
      /\ \A d \in A : After(Texts, StoredMessages, n, d)
  BY <1>0, <1>1, NextCallIn, PendingCalls DEF Proceeds
<1>3. ASSUME NEW c \in B, c.op = "register"
      PROVE  \E d \in B : d.op = "memberships"
  <2>1. c \in A
    BY <1>2, <1>3 DEF Added
  <2>2. PICK d \in {n} \cup A : d.op = "memberships"
    BY <1>2, <1>3, <2>1 DEF Complete, Ahead
  <2>3. d # n
    BY <1>2, <1>3, <2>1, <2>2 DEF After
  <2>4. QED
    BY <1>2, <2>2, <2>3
<1>4. ASSUME NEW c \in B, c.op \in {"remove", "unsubscribe"}
      PROVE  \E d \in B : d.op = "fallback"
  <2>1. c \in A
    BY <1>2, <1>4 DEF Added
  <2>2. PICK d \in {n} \cup A : d.op = "fallback"
    BY <1>2, <1>4, <2>1 DEF Complete, Ahead
  <2>3. d # n
    BY <1>2, <2>1, <2>2 DEF After
  <2>4. QED
    BY <1>2, <2>2, <2>3
<1>5. ASSUME NEW c \in B, c.op \in {"memberships", "resume"}, NEW d \in B, d.op = "subscribe"
      PROVE  d.tx = s
  <2>1. c \in A \/ n.op = "memberships"
    BY <1>1, <1>2, <1>5 DEF Added
  <2>2. n.op # "get_sender"
    BY <1>2, <1>5, <2>1 DEF After
  <2>3. OnlyItself(s)
    BY <1>2, <1>5, <2>1 DEF Complete, Ahead
  <2>4. QED
    BY <1>1, <1>2, <1>5, <2>2, <2>3 DEF Added, OnlyItself
<1>6. ASSUME NEW c \in B, c.op = "save", c.user # Owner[s]
      PROVE  \E d \in B : Looks(d, c.user, c.room)
  <2>1. c \in A
    BY <1>2, <1>6 DEF Added
  <2>2. PICK d \in {n} \cup A : Looks(d, c.user, c.room)
    BY <1>2, <1>6, <2>1 DEF Complete
  <2>3. d # n
    BY <1>2, <1>6, <2>1, <2>2 DEF After, Looks
  <2>4. QED
    BY <1>2, <2>2, <2>3
<1>7. QED
  BY <1>1, <1>3, <1>4, <1>5, <1>6 DEF Complete, Ahead, OnlyItself

LEMMA CompleteStep ==
  ASSUME QueueInv, [Next]_vars, faults' = 0, NEW s \in Sessions, Complete(s)
  PROVE  Complete(s)'
<1>0. TypeOK
  BY DEF QueueInv, TypeAndEntries
<1>1. ASSUME todo'[s] = todo[s]
      PROVE  Complete(s)'
  BY <1>1 DEF Complete, Ahead, OnlyItself
<1>2. ASSUME NEW t \in Sessions, t # s, HandlerStep(t) \/ ClientStep(t)
      PROVE  Complete(s)'
  BY <1>0, <1>1, <1>2, OthersStep
<1>3. CASE ServerRestart
  <2>1. CallsIn(todo'[s]) = {}
    BY <1>3, OneOrNone DEF ServerRestart
  <2>2. QED
    BY <2>1 DEF Complete, Ahead
<1>4. CASE UNCHANGED vars
  BY <1>1, <1>4 DEF vars
<1>5. QED
  BY <1>0, <1>2, <1>3, <1>4, LineComplete, HandlerComplete, NoFault DEF Next

(* Only register_sender, unregister_sender and a restart change            *)
(* user_senders.                                                           *)
LEMMA SendersStep ==
  ASSUME [Next]_vars, UNCHANGED restarts, restarts \in Nat
  PROVE  \/ \E t \in Sessions : RegisterSender(t) \/ UnregisterSender(t)
         \/ UNCHANGED user_senders
<1>1. ASSUME NEW s \in Sessions, TaskStep(s)
      PROVE  RegisterSender(s) \/ UnregisterSender(s) \/ UNCHANGED user_senders
  BY <1>1 DEF TaskStep, HandlerStep, ClientStep, StatementFails, RoomIdFails, SaveMembership, ReadMemberships,
       ReadLastRoom, SubscribeRoom, SetActiveRoom, ReplayHistory, SendToRoom, InsertMessage,
       GetSender, RemoveMembership, UnsubscribeRoom, ReadFallback, ReadSubscribedRooms,
       LeaveAllRooms, Connect, Leave, Text, Media, Disconnect, Join,
       Switch, Signal, Msg, registry
<1>2. ~ServerRestart
  BY DEF ServerRestart
<1>3. QED
  BY <1>1, <1>2 DEF Next, TaskStep, vars, registry

LEMMA RegisteredStep ==
  ASSUME QueueInv, StageInv, OneAlive, [Next]_vars, faults' = 0, NEW s \in Sessions,
         Registered(s)
  PROVE  Registered(s)'
<1>0. /\ TypeOK /\ user_senders \in [Users -> Sessions \cup {NoSession}] /\ Owner[s] \in Users
      /\ restarts \in Nat /\ status \in [Sessions -> {"off", "on", "closing", "closed", "dead"}]
  BY ServerAssumption DEF QueueInv, TypeAndEntries, TypeOK, SendersOK
<1> SUFFICES ASSUME status'[s] = "on"
             PROVE  Ahead(s, "register")' \/ user_senders'[Owner[s]] = s
  BY DEF Registered
<1>1. CASE Connect(s)
  <2>1. PICK q : q = <<Own(s, "register", General), Own(s, "memberships", General)>>
    OBVIOUS
  <2>2. todo'[s] = q
    BY <1>0, <1>1, <2>1 DEF Connect, Begin, TypeOK, TodoOK
  <2>3. 1 \in 1..Len(q) /\ q[1].op = "register"
    BY <2>1 DEF Own, Call
  <2>4. QED
    BY <2>2, <2>3 DEF Ahead, CallsIn
<1>2. CASE status[s] = "on" /\ UNCHANGED restarts
  <2>1. ASSUME NEW c \in CallsIn(todo[s]), c.op = "register", c \notin CallsIn(todo'[s])
        PROVE  user_senders'[Owner[s]] = s
    <3>1. HandlerStep(s) /\ NextCall(s) = c
      BY <1>2, <2>1, AheadKept
    <3>2. RegisterSender(s)
      BY <2>1, <3>1, CallMade
    <3>3. NextCall(s).user = Owner[s]
      BY <1>0, <3>2, NextCallType DEF RegisterSender, About
    <3>4. QED
      BY <1>0, <3>2, <3>3 DEF RegisterSender
  <2>2. ASSUME user_senders[Owner[s]] = s, NEW t \in Sessions,
               RegisterSender(t) \/ UnregisterSender(t)
        PROVE  user_senders'[Owner[s]] = s
    <3>1. NextCall(t).user = Owner[t] /\ Alive(t)
      BY <1>0, <2>2, NextCallType DEF RegisterSender, UnregisterSender, About
    <3>2. CASE Owner[t] # Owner[s]
      BY <1>0, <2>2, <3>1, <3>2 DEF RegisterSender, UnregisterSender
    <3>3. CASE Owner[t] = Owner[s]
      <4>1. t = s
        BY <1>2, <3>1, <3>3 DEF OneAlive, Alive
      <4>2. ~UnregisterSender(s)
        BY <1>0 DEF UnregisterSender
      <4>3. QED
        BY <1>0, <2>2, <3>1, <4>1, <4>2 DEF RegisterSender
    <3>4. QED
      BY <3>2, <3>3
  <2>3. QED
    BY <1>0, <1>2, <2>1, <2>2, SendersStep DEF Registered, Ahead
<1>3. QED
  BY <1>0, <1>1, <1>2, StatusStep

(* What a call that decides the rest puts ahead.                           *)
LEMMA FallbackEnters ==
  ASSUME TypeOK, NEW s \in Sessions, NEW r \in Rooms, FallBackTo(s, r), todo[s] # <<>>
  PROVE  \E d \in CallsIn(todo'[s]) : Subs(d, s, r)
<1>1. PICK a, b, c : /\ a = Own(s, "subscribe", r) /\ b = Own(s, "set_active", r)
                    /\ c = Own(s, "replay", r)
  OBVIOUS
<1>2. {a, b, c} \subseteq CallsOf(s) /\ Subs(a, s, r)
  BY <1>1, OwnCall DEF Ops, Subs, Own, Call
<1>3. PICK p, tl : p = <<a, b, c>> /\ tl = Tail(todo[s])
  OBVIOUS
<1>4. p \in Seq(CallsOf(s)) /\ tl \in Seq(CallsOf(s)) /\ a \in CallsIn(p)
  <2>1. 1 \in 1..Len(p) /\ p[1] = a
    BY <1>3
  <2>2. QED
    BY <1>2, <1>3, <2>1, NextCallType DEF CallsIn
<1>5. todo'[s] = p \o tl
  BY <1>1, <1>3 DEF FallBackTo, Then, TypeOK, TodoOK
<1>6. a \in CallsIn(p \o tl)
  BY <1>4, CallsInConcat
<1>7. QED
  BY <1>2, <1>5, <1>6

LEMMA SenderPassedOn ==
  ASSUME TypeOK, NEW s \in Sessions, NEW t \in Sessions, GetSender(t),
         user_senders[NextCall(t).user] = s
  PROVE  \E d \in CallsIn(todo'[t]) : Subs(d, s, NextCall(t).room)
<1>1. PICK c, r : c = PassOn(t, s) /\ r = NextCall(t).room
  OBVIOUS
<1>2. Subs(c, s, r)
  BY <1>1 DEF PassOn, Call, Subs
<1>3. PICK p, tl : p = <<c>> /\ tl = Tail(todo[t])
  OBVIOUS
<1>4. /\ NextCall(t).user \in Users /\ NextCall(t).room \in DmRooms /\ NextCall(t).room \in Rooms
      /\ Owner[s] = NextCall(t).user /\ tl \in Seq(CallsOf(t)) /\ s # NoSession
  BY <1>3, NextCallType, ServerAssumption DEF GetSender, About, TypeOK, SendersOK
<1>5. c \in CallsOf(t)
  BY <1>1, <1>4, CallType DEF PassOn, Ops
<1>6. p \in Seq(CallsOf(t)) /\ CallsIn(p) = {c}
  BY <1>3, <1>5, OneOrNone
<1>7. todo'[t] = p \o tl
  BY <1>1, <1>3, <1>4 DEF GetSender, Then, TypeOK, TodoOK
<1>8. c \in CallsIn(p \o tl)
  BY <1>4, <1>6, CallsInConcat
<1>9. QED
  BY <1>1, <1>2, <1>7, <1>8

(* A room that is entered, or that a task will come back to, stays so: a   *)
(* task reads its memberships or its last room while they are as they are, *)
(* and a /msg finds the sender of whoever is registered.                   *)
LEMMA EnteredKept ==
  ASSUME QueueInv, StageInv, OneAlive, NoStaleSender, [Next]_vars, UNCHANGED restarts, faults' = 0,
         NEW s \in Sessions, status[s] = "on", Complete(s), Registered(s),
         memberships[Owner[s]] # <<>>,
         NEW r, r = Head(memberships[Owner[s]]), Entered(s, r)
  PROVE  Entered(s, r)'
<1>0. /\ TypeOK /\ QueuesOK /\ memberships[Owner[s]] \in Seq(Rooms) /\ Alive(s)
      /\ \A t \in Sessions : ~StatementFails(t)
  BY NoFault, ServerAssumption DEF QueueInv, TypeAndEntries, TypeOK, Alive
<1>1. r \in Rooms /\ r \in CallsIn(memberships[Owner[s]])
  BY <1>0, CallsInTail
<1>2. ASSUME Ready(s, r)
      PROVE  Entered(s, r)'
  <2>1. CASE ~Leaves(s, r)
    BY <1>1, <1>2, <2>1, ReadyKept DEF Entered
  <2>2. CASE Leaves(s, r)
    <3>1. NextCall(s).op = "unsubscribe" /\ Ahead(s, "unsubscribe")
      BY <1>0, <2>2, NextCallIn DEF Leaves, Ahead
    <3>2. PICK d \in CallsIn(todo[s]) : d.op = "fallback"
      BY <3>1 DEF Complete, Ahead
    <3>3. d \in CallsIn(todo'[s])
      BY <3>1, <3>2, AheadKept
    <3>4. QED
      BY <3>2, <3>3 DEF Entered, Ahead
  <2>3. QED
    BY <2>1, <2>2
<1>3. ASSUME NEW c \in CallsIn(todo[s]), c.op = "memberships"
      PROVE  Entered(s, r)'
  <2>1. CASE c \in CallsIn(todo'[s])
    BY <1>3, <2>1 DEF Entered, Ahead
  <2>2. CASE HandlerStep(s) /\ NextCall(s) = c
    <3>1. ReadMemberships(s) /\ todo[s] # <<>>
      BY <1>3, <2>2, CallMade
    <3>2. PICK found : found = memberships[Owner[s]]
      OBVIOUS
    <3>3. MembershipsAre(s, found) /\ found \in Seq(Rooms)
      BY <1>0, <3>1, <3>2 DEF ReadMemberships
    <3>4. Own(s, "subscribe", r) \in {Own(s, "subscribe", x) : x \in CallsIn(found)}
      BY <1>1, <3>2
    <3>5. Own(s, "subscribe", r) \in CallsIn(todo'[s])
      BY <1>0, <3>1, <3>3, <3>4, MembershipsListed
    <3>6. Subs(Own(s, "subscribe", r), s, r)
      BY DEF Subs, Own, Call
    <3>7. QED
      BY <3>5, <3>6 DEF Entered, Ready
  <2>3. QED
    BY <2>1, <2>2, AheadKept
<1>4. ASSUME NEW c \in CallsIn(todo[s]), c.op = "fallback"
      PROVE  Entered(s, r)'
  <2>1. CASE c \in CallsIn(todo'[s])
    BY <1>4, <2>1 DEF Entered, Ahead
  <2>2. CASE HandlerStep(s) /\ NextCall(s) = c
    <3>1. ReadFallback(s) /\ todo[s] # <<>>
      BY <1>4, <2>2, CallMade
    <3>2. FallBackTo(s, r)
      BY <3>1 DEF ReadFallback, LastRoomOr
    <3>3. QED
      BY <1>0, <1>1, <3>1, <3>2, FallbackEnters DEF Entered, Ready
  <2>3. QED
    BY <2>1, <2>2, AheadKept
<1>5. ASSUME NEW t \in Sessions, NEW c \in CallsIn(todo[t]), Looks(c, Owner[s], r)
      PROVE  Entered(s, r)'
  <2>1. CASE c \in CallsIn(todo'[t])
    BY <1>5, <2>1 DEF Entered, Summoned
  <2>2. CASE HandlerStep(t) /\ NextCall(t) = c
    <3>1. GetSender(t)
      BY <1>5, <2>2, CallMade DEF Looks
    <3>2. CASE user_senders[Owner[s]] = s
      <4>1. \E d \in CallsIn(todo'[t]) : Subs(d, s, r)
        BY <1>0, <1>5, <2>2, <3>1, <3>2, SenderPassedOn DEF Looks
      <4>2. QED
        BY <4>1 DEF Entered, Summoned
    <3>3. CASE user_senders[Owner[s]] # s
      <4>1. PICK d \in CallsIn(todo[s]) : d.op = "memberships"
        BY <3>3 DEF Registered, Complete, Ahead
      <4>2. d \in CallsIn(todo'[s])
        <5>1. CASE t = s
          BY <1>5, <2>2, <4>1, <5>1, AheadKept DEF Looks
        <5>2. CASE t # s
          BY <1>0, <2>2, <4>1, <5>2, OthersStep
        <5>3. QED
          BY <5>1, <5>2
      <4>3. QED
        BY <4>1, <4>2 DEF Entered, Ahead
    <3>4. QED
      BY <3>2, <3>3
  <2>3. QED
    BY <2>1, <2>2, AheadKept
<1>6. ASSUME NEW t \in Sessions, NEW c \in CallsIn(todo[t]), Subs(c, s, r)
      PROVE  Entered(s, r)'
  <2>1. CASE c \in CallsIn(todo'[t])
    BY <1>6, <2>1 DEF Entered, Summoned
  <2>2. CASE HandlerStep(t) /\ NextCall(t) = c
    <3>1. SubscribeRoom(t)
      BY <1>6, <2>2, CallMade DEF Subs
    <3>2. Live(s, r)'
      BY <1>0, <1>1, <1>6, <2>2, <3>1, SubscribedNow
    <3>3. QED
      BY <3>2 DEF Entered, Ready
  <2>3. QED
    BY <2>1, <2>2, AheadKept
<1>7. QED
  BY <1>2, <1>3, <1>4, <1>5, <1>6 DEF Entered, Ahead, Summoned

(* A room that becomes the latest is entered by whoever makes it so.       *)
LEMMA LatestStep ==
  ASSUME QueueInv, StageInv, OneAlive, NoStaleSender, [Next]_vars, UNCHANGED restarts, faults' = 0,
         \A t \in Sessions : Complete(t),
         NEW s \in Sessions, status[s] = "on", Registered(s),
         SavesReady(s, Rooms), LatestEntered(s)
  PROVE  LatestEntered(s)'
<1>0. /\ TypeOK /\ QueuesOK /\ memberships \in [Users -> Seq(Rooms)] /\ Alive(s) /\ Complete(s)
      /\ Owner[s] \in Users
  BY ServerAssumption DEF QueueInv, TypeAndEntries, TypeOK, Alive
<1>1. CASE memberships'[Owner[s]] = memberships[Owner[s]]
  BY <1>0, <1>1, EnteredKept DEF LatestEntered
<1>2. ASSUME NEW t \in Sessions, SaveMembership(t) \/ RemoveMembership(t),
             memberships'[Owner[s]] # memberships[Owner[s]]
      PROVE  LatestEntered(s)'
  <2>1. PICK c : c = NextCall(t)
    OBVIOUS
  <2>2. /\ c \in CallsOf(t) /\ c \in CallsIn(todo[t]) /\ c.room \in Rooms /\ Alive(t)
        /\ todo[t] # <<>>
    BY <1>0, <1>2, <2>1, NextCallType, NextCallIn DEF SaveMembership, RemoveMembership, About
  <2>3. c.user = Owner[s]
    BY <1>0, <1>2, <2>1 DEF SaveMembership, RemoveMembership
  <2>4. Owner[t] = Owner[s] => t = s
    BY <1>0, <2>2 DEF OneAlive
  <2>5. CASE SaveMembership(t)
    <3>1. c.op = "save"
      BY <2>1, <2>5 DEF SaveMembership, About
    <3>2. Head(memberships'[Owner[s]]) = c.room
      <4>1. PICK mine, rest : mine = memberships[Owner[s]] /\ rest = Without(mine, c.room)
        OBVIOUS
      <4>2. rest \in Seq(Rooms)
        BY <1>0, <4>1, WithoutType
      <4>3. memberships'[Owner[s]] = <<c.room>> \o rest
        BY <1>0, <2>1, <2>3, <2>5, <4>1 DEF SaveMembership, save_room_membership
      <4>4. QED
        BY <2>2, <4>2, <4>3
    <3>3. CASE t = s
      <4>1. Ready(s, c.room) /\ ~Leaves(s, c.room)
        BY <2>1, <2>2, <2>3, <3>1, <3>3 DEF SavesReady, Leaves
      <4>2. Ready(s, c.room)'
        BY <2>2, <4>1, ReadyKept
      <4>3. QED
        BY <3>2, <4>2 DEF LatestEntered, Entered
    <3>4. CASE t # s
      <4>1. PICK d \in CallsIn(todo[t]) : Looks(d, Owner[s], c.room)
        BY <2>2, <2>3, <2>4, <3>1, <3>4 DEF Complete
      <4>2. d \in CallsIn(todo'[t])
        BY <2>1, <3>1, <4>1, AheadKept DEF Looks
      <4>3. QED
        BY <3>2, <4>1, <4>2 DEF LatestEntered, Entered, Summoned
    <3>5. QED
      BY <3>3, <3>4
  <2>6. CASE RemoveMembership(t)
    <3>1. c.op = "remove" /\ c.user = Owner[t]
      BY <2>1, <2>2, <2>6 DEF RemoveMembership, About, CallsOf
    <3>2. t = s
      BY <2>3, <2>4, <3>1
    <3>3. PICK d \in CallsIn(todo[s]) : d.op = "fallback"
      BY <1>0, <2>2, <3>1, <3>2 DEF Complete, Ahead
    <3>4. d \in CallsIn(todo'[s])
      BY <2>1, <3>1, <3>2, <3>3, AheadKept
    <3>5. QED
      BY <3>3, <3>4 DEF LatestEntered, Entered, Ahead
  <2>7. QED
    BY <1>2, <2>5, <2>6
<1>3. QED
  BY <1>0, <1>1, <1>2, MembershipStep, NoFault

LEMMA LatestInvStep ==
  ASSUME LatestInv, OneAlive, NoStaleSender, [Next]_vars
  PROVE  LatestInv'
<1>0. TypeOK /\ QueueInv /\ StageInv
  BY DEF LatestInv, QueueInv, TypeAndEntries
<1>1. QueueInv' /\ StageInv'
  BY <1>0, NextType, QueueInvStep, StageStep
<1>2. ASSUME faults' = 0
      PROVE  \A s \in Sessions : Complete(s) /\ Registered(s) /\
               (status[s] = "on" => SavesReady(s, Rooms) /\ LatestEntered(s))
  BY <1>0, <1>2, NoFault DEF LatestInv
<1>3. ASSUME faults' = 0, NEW s \in Sessions
      PROVE  Complete(s)' /\ Registered(s)'
  BY <1>0, <1>2, <1>3, CompleteStep, RegisteredStep
<1>4. ASSUME faults' = 0, NEW s \in Sessions, status'[s] = "on"
      PROVE  SavesReady(s, Rooms)' /\ LatestEntered(s)'
  <2>1. CASE Connect(s)
    <3>1. SavesReady(s, Rooms)'
      BY <1>0, <2>1, ConnectServes
    <3>2. PICK q : q = <<Own(s, "register", General), Own(s, "memberships", General)>>
      OBVIOUS
    <3>3. todo'[s] = q
      BY <1>0, <2>1, <3>2 DEF Connect, Begin, TypeOK, TodoOK
    <3>4. 2 \in 1..Len(q) /\ q[2].op = "memberships"
      BY <3>2 DEF Own, Call
    <3>5. Ahead(s, "memberships")'
      BY <3>3, <3>4 DEF Ahead, CallsIn
    <3>6. QED
      BY <3>1, <3>5 DEF LatestEntered, Entered
  <2>2. CASE /\ status[s] = "on" /\ UNCHANGED restarts
             /\ HandlerStep(s) \/ ClientStep(s) \/ todo'[s] = todo[s]
    <3>1. ReadLastRoom(s) => OnlyItself(s)
      <4>1. ASSUME ReadLastRoom(s)
            PROVE  Ahead(s, "resume")
        BY <1>0, <4>1, NextCallIn DEF ReadLastRoom, About, Ahead
      <4>2. QED
        BY <1>2, <1>4, <4>1 DEF Complete
    <3>2. SavesReady(s, Rooms)'
      BY <1>0, <1>2, <1>4, <2>2, <3>1, SavesStep
    <3>3. LatestEntered(s)'
      BY <1>0, <1>2, <1>4, <2>2, LatestStep
    <3>4. QED
      BY <3>2, <3>3
  <2>3. QED
    BY <1>0, <1>4, <2>1, <2>2, StatusStep
<1>5. QED
  BY <1>1, <1>3, <1>4 DEF LatestInv

LEMMA LatestInvInit ==
  ASSUME Init
  PROVE  LatestInv
<1>1. QueueInv
  BY QueueInvInit
<1>2. StageInv
  BY DEF Init, StageInv, Stage
<1>3. \A s \in Sessions : status[s] = "off" /\ CallsIn(todo[s]) = {}
  BY OneOrNone DEF Init
<1>4. QED
  BY <1>1, <1>2, <1>3 DEF LatestInv, Complete, Ahead, Registered

LEMMA LatestEnteredIsLive ==
  ASSUME LatestInv, faults = 0
  PROVE  LatestRoomIsLive
<1> SUFFICES ASSUME NEW s \in Sessions, Idle(s), ~BeingMessaged(Owner[s]),
                    memberships[Owner[s]] # <<>>
             PROVE  Live(s, Head(memberships[Owner[s]]))
  BY DEF LatestRoomIsLive
<1>1. PICK r : r = Head(memberships[Owner[s]])
  OBVIOUS
<1>2. Entered(s, r) /\ TypeOK
  BY <1>1 DEF LatestInv, LatestEntered, Idle, QueueInv, TypeAndEntries
<1>3. CallsIn(todo[s]) = {}
  BY OneOrNone DEF Idle
<1>4. ASSUME NEW t \in Sessions, NEW c \in CallsIn(todo[t]), Looks(c, Owner[s], r) \/ Subs(c, s, r)
      PROVE  FALSE
  <2>1. PICK i \in 1..Len(todo[t]) : c = todo[t][i]
    BY <1>4 DEF CallsIn
  <2>2. todo[t][i] \in CallsOf(t)
    BY <1>2, <2>1, ElementOfSeq DEF TypeOK, TodoOK
  <2>3. c.user = Owner[s] /\ c.op \in {"get_sender", "subscribe"}
    BY <1>4, <2>1, <2>2 DEF Looks, Subs, CallsOf
  <2>4. QED
    BY <2>1, <2>3 DEF BeingMessaged
<1>5. QED
  BY <1>1, <1>2, <1>3, <1>4 DEF Entered, Ready, Ahead, Summoned

(* As long as no SQL statement failed, a connection between two lines is   *)
(* subscribed to the room its user visited or was messaged in last, if no  *)
(* /msg to that user is under way: whatever /leave falls back to and the   *)
(* next connect resumes in receives messages.  What can break it is        *)
(* excluded by name: two connections of the user at a time, and a /msg     *)
(* that holds the sender of an earlier connection (commands.rs:82).        *)
THEOREM LatestIsLive ==
  ~Overlap /\ Spec /\ []NoStaleSender => [](faults = 0 => LatestRoomIsLive)
<1> DEFINE Apart == ~Overlap /\ LatestInv /\ OneAlive
<1>1. ~Overlap /\ Init => Apart
  <2>1. Init => LatestInv
    BY LatestInvInit
  <2>2. Init => OneAlive
    BY DEF Init, OneAlive, Alive
  <2>3. QED
    BY <2>1, <2>2
<1>2. Apart /\ NoStaleSender /\ [Next]_vars => Apart'
  BY LatestInvStep, OneAliveStep DEF LatestInv, QueueInv, TypeAndEntries
<1>3. Apart => (faults = 0 => LatestRoomIsLive)
  BY LatestEnteredIsLive
<1> HIDE DEF Apart
<1>4. QED
  BY <1>1, <1>2, <1>3, PTL DEF Spec

(* The same where every user connects once, as in the run that checks it:  *)
(* then no sender can be an earlier one.                                   *)
THEOREM LatestIsLiveOnFirstConnection ==
  (\A s, t \in Sessions : Owner[s] = Owner[t] => s = t) /\ Spec
    => [](faults = 0 => LatestRoomIsLive)
<1> DEFINE Single == \A s, t \in Sessions : Owner[s] = Owner[t] => s = t
           Inv    == Single /\ LatestInv
<1>1. Inv => OneAlive /\ NoStaleSender
  <2> SUFFICES ASSUME Inv PROVE OneAlive /\ NoStaleSender
    OBVIOUS
  <2>1. OneAlive
    BY DEF OneAlive
  <2>2. ASSUME NEW t \in Sessions, NEW c \in CallsIn(todo[t]), c.op = "subscribe",
               NEW s \in Sessions, Owner[s] = c.user
        PROVE  c.tx = s
    <3>1. PICK i \in 1..Len(todo[t]) : c = todo[t][i]
      BY <2>2 DEF CallsIn
    <3>2. todo[t][i] \in CallsOf(t)
      BY <3>1, ElementOfSeq DEF LatestInv, QueueInv, TypeAndEntries, TypeOK, TodoOK
    <3>3. c.tx \in Sessions /\ Owner[c.tx] = c.user
      BY <2>2, <3>1, <3>2 DEF CallsOf, Calls
    <3>4. QED
      BY <2>2, <3>3
  <2>3. QED
    BY <2>1, <2>2 DEF NoStaleSender
<1>2. Single /\ Init => Inv
  BY LatestInvInit
<1>3. Inv /\ [Next]_vars => Inv'
  BY <1>1, LatestInvStep
<1>4. Inv => (faults = 0 => LatestRoomIsLive)
  BY LatestEnteredIsLive
<1>5. Single /\ Spec => [](faults = 0 => LatestRoomIsLive)
  <2> HIDE DEF Single, Inv
  <2>1. QED
    BY <1>2, <1>3, <1>4, PTL DEF Spec
<1>6. QED
  BY <1>5
=============================================================================

----------------------------- MODULE ChatServer -----------------------------
(***************************************************************************)
(* The chat server: one task per connection (handle_connection), all of    *)
(* them sharing one AppState, one PostgreSQL database and the room         *)
(* channels.                                                               *)
(*                                                                         *)
(* A handler is the sequence of AppState methods and SQL statements it     *)
(* awaits.  Each of them takes its own lock or runs its own statement, so  *)
(* each is one step, and the steps of different tasks interleave freely.   *)
(* todo[s] holds the calls that connection s still has to make for the     *)
(* line it is handling; a call whose result decides the rest of the        *)
(* handler puts the following calls in todo when it returns.  A task reads *)
(* its next line only when todo is empty.                                  *)
(***************************************************************************)
EXTENDS Naturals, Sequences, FiniteSets, SequencesExt, AppState

CONSTANTS
  Users,          \* registered usernames
  Sessions,       \* connections over the life of the database, each used once
  Owner,          \* Owner[s]: the user connection s authenticates as
  Channels,       \* the rooms that are not DMs
  General,        \* the default room
  NoSession,      \* no sender registered
  StartMemberships, \* what room_members may hold at the start
  Overlap,        \* may a user open a connection while another is alive?
  HistoryLimit,   \* LIMIT of the history query (50 in the code)
  MaxMessages,    \* bound: messages posted
  MaxLines,       \* bound: lines all the clients send
  MaxFailures     \* bound: SQL statements that fail, and restarts of the server

(* __dm__a_b with a and b sorted: one room per unordered pair.             *)
dm_room(u, v) == {u, v}
DmRooms == UNION {{dm_room(u, v) : v \in Users \ {u}} : u \in Users}
Rooms   == Channels \cup DmRooms

(* The rooms a client of `user` can name: channels, and DMs it is part of. *)
Visible(user) == {r \in Rooms : r \in DmRooms => user \in r}

MessageIds == 1..MaxMessages
Notice     == 0     \* a system notice, receipt or typing signal: never stored

Ops == {"register", "memberships", "resume", "subscribe", "set_active",
        "save", "replay", "broadcast", "insert", "insert_ok", "get_sender",
        "remove", "unsubscribe", "fallback", "goodbye", "leave_all",
        "unregister"}

Calls == [op : Ops, user : Users, tx : Sessions, room : Rooms,
          msg : MessageIds \cup {Notice}]

(* The calls task s makes: it stores messages, not notices; it acts for    *)
(* its own user, except in a DM, which it saves for the other user too,    *)
(* and where it passes on the tx it was given for that user.               *)
CallsOf(s) ==
  {c \in Calls :
     /\ c.op \in {"insert", "insert_ok"} => c.msg # Notice
     /\ c.op \in {"register", "set_active", "remove", "unsubscribe", "leave_all", "unregister"}
          => c.user = Owner[s]
     /\ c.op = "save" => c.user = Owner[s] \/ c.room \in DmRooms
     /\ c.op = "get_sender" => c.room \in DmRooms
     /\ c.op = "subscribe" =>
          Owner[c.tx] = c.user /\ (c.tx = s \/ c.room \in DmRooms)}

(* A room entry pairs a user with the tx of one of its connections.        *)
Entries == {e \in Users \X Sessions : Owner[e[2]] = e[1]}
Nobody  == [e \in Entries |-> 0]

ASSUME ServerAssumption ==
  /\ Owner \in [Sessions -> Users]
  /\ General \in Channels
  /\ Channels \cap DmRooms = {}
  /\ NoSession \notin Sessions
  /\ StartMemberships \subseteq [Users -> Seq(Rooms)]
  /\ \A start \in StartMemberships : \A u \in Users :
       \A i, j \in 1..Len(start[u]) :
         /\ start[u][i] \in Visible(u)
         /\ start[u][i] = start[u][j] => i = j
  /\ Overlap \in BOOLEAN
  /\ HistoryLimit \in Nat \ {0}
  /\ MaxMessages \in Nat /\ MaxLines \in Nat
  /\ MaxFailures \in Nat
  /\ IsFiniteSet(Rooms)

VARIABLES
  status,       \* of each connection: off, on, closing (EOF seen), closed, dead
  todo,         \* the calls each task has still to make
  rooms,        \* AppState.rooms
  user_rooms,   \* AppState.user_rooms, unset read as General
  user_senders, \* AppState.user_senders
  memberships,  \* room_members, per user, latest last_joined_at first
  posted,       \* what each message id stands for: sender, room and path
  table,        \* messages, per room, in created_at order
  inbox,        \* what each connection's channel has been sent
  replayed,     \* history variable: rooms whose own messages were replayed to
                \* s as it entered them, until it loses one
  unseen,       \* history variable: texts sent but not yet stored when s replayed
  lines, faults, restarts  \* the bounded counters

registry == <<rooms, user_rooms, user_senders, replayed>>
database == <<memberships, posted, table>>
bounds   == <<lines, faults, restarts>>
vars == <<status, todo, registry, database, inbox, unseen, bounds>>

Call(op, user, tx, room, msg) ==
  [op |-> op, user |-> user, tx |-> tx, room |-> room, msg |-> msg]

(* A call s makes for its own user, with its own tx.                       *)
Own(s, op, room) == Call(op, Owner[s], s, room, Notice)

Init ==
  /\ status = [s \in Sessions |-> "off"]
  /\ todo = [s \in Sessions |-> <<>>]
  /\ rooms = [r \in Rooms |-> Nobody]
  /\ user_rooms = [u \in Users |-> General]
  /\ user_senders = [u \in Users |-> NoSession]
  /\ memberships \in StartMemberships
  /\ posted = <<>>
  /\ table = [r \in Rooms |-> <<>>]
  /\ inbox = [s \in Sessions |-> <<>>]
  /\ replayed = [s \in Sessions |-> {}]
  /\ unseen = [s \in Sessions |-> {}]
  /\ lines = 0
  /\ faults = 0
  /\ restarts = 0

-----------------------------------------------------------------------------
(* The calls.                                                              *)

Alive(s) == status[s] \in {"on", "closing"}
Open     == {s \in Sessions : Alive(s)}   \* out_rx lives as long as its task

(* Between two lines; and about to make the call op, next in todo.         *)
Idle(s)         == status[s] = "on" /\ todo[s] = <<>>
NextCall(s)    == Head(todo[s])
About(s, op)    == Alive(s) /\ todo[s] # <<>> /\ NextCall(s).op = op
Then(s, more)   == todo' = [todo EXCEPT ![s] = more \o Tail(@)]
Return(s)       == Then(s, <<>>)

(* Connection s is subscribed to the room.                                 *)
Live(s, room) == Subscribed(rooms, room, <<Owner[s], s>>)

RoomsBecome(new) ==
  /\ rooms' = new
  /\ replayed' = [s \in Sessions |->
       {r \in replayed[s] : Live(s, r) => Subscribed(new, r, <<Owner[s], s>>)}]

RegisterSender(s) ==
  /\ About(s, "register")
  /\ user_senders' = [user_senders EXCEPT ![NextCall(s).user] = s]
  /\ Return(s)
  /\ UNCHANGED <<status, rooms, user_rooms, replayed, database, inbox, unseen, bounds>>

(* Wrong: only the last room is subscribed to at connect.                  *)
MembershipsIgnored(s, found) == Then(s, <<Own(s, "resume", General)>>)

(* get_user_room_memberships at connect; the loop over them subscribes.    *)
MembershipsAre(s, found) ==
  Then(s, <<Own(s, "resume", General)>> \o
          [i \in 1..Len(found) |-> Own(s, "subscribe", found[i])])

ReadMemberships(s) ==
  /\ About(s, "memberships")
  /\ MembershipsAre(s, memberships[Owner[s]])
  /\ UNCHANGED <<status, registry, database, inbox, unseen, bounds>>

(* Wrong: the history is replayed before the room is subscribed to.        *)
ResumeReplaysFirst(s, room) ==
  todo' = [todo EXCEPT ![s] =
    <<Own(s, "set_active", room), Own(s, "save", room), Own(s, "replay", room)>> \o
    Tail(@) \o <<Own(s, "subscribe", room), Own(s, "broadcast", room)>>]

(* get_last_room at connect: the room the user comes back to.  The pending *)
(* subscribe calls stand for the list of memberships already read.         *)
ResumeIn(s, room) ==
  LET pending == Tail(todo[s])
      listed  == \E i \in 1..Len(pending) : pending[i].room = room
      entry   == IF listed THEN <<>> ELSE <<Own(s, "subscribe", room)>>
  IN  todo' = [todo EXCEPT ![s] =
        pending \o entry \o
        <<Own(s, "set_active", room), Own(s, "save", room),
          Own(s, "replay", room), Own(s, "broadcast", room)>>]

ReadLastRoom(s) ==
  /\ About(s, "resume")
  /\ ResumeIn(s, LastRoomOr(memberships[Owner[s]], General))
  /\ UNCHANGED <<status, registry, database, inbox, unseen, bounds>>

SubscribeRoom(s) ==
  LET c == NextCall(s) IN
  /\ About(s, "subscribe")
  /\ RoomsBecome(subscribe_room(rooms, c.user, c.room, c.tx))
  /\ Return(s)
  /\ UNCHANGED <<status, user_rooms, user_senders, database, inbox, unseen, bounds>>

SetActiveRoom(s) ==
  LET c == NextCall(s) IN
  /\ About(s, "set_active")
  /\ user_rooms' = [user_rooms EXCEPT ![c.user] = c.room]
  /\ Return(s)
  /\ UNCHANGED <<status, rooms, user_senders, replayed, database, inbox, unseen, bounds>>

SaveMembership(s) ==
  LET c == NextCall(s) IN
  /\ About(s, "save")
  /\ memberships' =
       [memberships EXCEPT ![c.user] = save_room_membership(@, c.room)]
  /\ Return(s)
  /\ UNCHANGED <<status, registry, posted, table, inbox, unseen, bounds>>

(* replay_history: the last HistoryLimit rows of the room, oldest first,   *)
(* pushed into the caller's own channel.                                   *)
Latest(rows) ==
  SubSeq(rows, IF Len(rows) > HistoryLimit THEN Len(rows) - HistoryLimit + 1
                                           ELSE 1, Len(rows))

History(room) ==
  [i \in 1..Len(Latest(table[room])) |->
     [msg |-> Latest(table[room])[i], is_history |-> TRUE]]

(* The texts already sent to the room whose INSERT is still to come.       *)
SentUnstored(room) ==
  {m \in 1..Len(posted) :
     \E t \in Sessions : /\ todo[t] # <<>>
                         /\ NextCall(t).op = "insert"
                         /\ NextCall(t).room = room
                         /\ NextCall(t).msg = m
                         /\ posted[m].path = "text"}

(* Connection s is subscribed to the room, or about to be.                 *)
Enters(s, room) ==
  \/ Live(s, room)
  \/ \E i \in 1..Len(todo[s]) : todo[s][i].op = "subscribe" /\ todo[s][i].room = room

ReplayHistory(s) ==
  LET c == NextCall(s) IN
  /\ About(s, "replay")
  /\ inbox' = [inbox EXCEPT ![s] = @ \o History(c.room)]
  /\ replayed' = [replayed EXCEPT ![s] = IF Enters(s, c.room) THEN @ \cup {c.room} ELSE @]
  /\ unseen' = [unseen EXCEPT ![s] = @ \cup SentUnstored(c.room)]
  /\ Return(s)
  /\ UNCHANGED <<status, rooms, user_rooms, user_senders, database, bounds>>

(* send_to_room, under the write lock of rooms: every entry is sent the    *)
(* message before any other task can touch the room.                       *)
Copies(room, t) == IF t \in Open THEN rooms[room][<<Owner[t], t>>] ELSE 0

Delivered(room, msg) ==
  [t \in Sessions |->
     IF msg = Notice THEN inbox[t]
     ELSE inbox[t] \o
          [i \in 1..Copies(room, t) |-> [msg |-> msg, is_history |-> FALSE]]]

(* Wrong: the subscribers are collected first and sent to one by one, with *)
(* the lock released.                                                      *)
SendToRoomOneByOne(s) ==
  LET c       == NextCall(s)
      item    == [msg |-> c.msg, is_history |-> FALSE]
      missing == {t \in Open : /\ c.msg # Notice /\ Live(t, c.room)
                               /\ \A i \in 1..Len(inbox[t]) : inbox[t][i] # item}
  IN
  /\ About(s, "broadcast")
  /\ \/ /\ missing = {} /\ Return(s) /\ UNCHANGED inbox
     \/ /\ \E t \in missing : inbox' = [inbox EXCEPT ![t] = Append(@, item)]
        /\ UNCHANGED todo
  /\ UNCHANGED <<status, registry, database, unseen, bounds>>

SendToRoom(s) ==
  LET c == NextCall(s) IN
  /\ About(s, "broadcast")
  /\ inbox' = Delivered(c.room, c.msg)
  /\ RoomsBecome(send_to_room(rooms, c.room, Open))
  /\ Return(s)
  /\ UNCHANGED <<status, user_rooms, user_senders, database, unseen, bounds>>

InsertMessage(s) ==
  LET c == NextCall(s) IN
  /\ About(s, "insert") \/ About(s, "insert_ok")
  /\ table' = [table EXCEPT ![c.room] = Append(@, c.msg)]
  /\ Return(s)
  /\ UNCHANGED <<status, registry, memberships, posted, inbox, unseen, bounds>>

(* The target of a DM is subscribed to it with the tx it registered.       *)
PassOn(s, tx) == Call("subscribe", NextCall(s).user, tx, NextCall(s).room, Notice)

(* Wrong: the target is sent the notice of the DM and nothing else.        *)
GetSenderOnlyTells(s) ==
  /\ About(s, "get_sender")
  /\ Return(s)
  /\ UNCHANGED <<status, registry, database, inbox, unseen, bounds>>

(* get_sender(target) in a DM: the tx that is registered when the map is   *)
(* read is used after the lock is gone.                                    *)
GetSender(s) ==
  LET tx == user_senders[NextCall(s).user] IN
  /\ About(s, "get_sender")
  /\ Then(s, IF tx = NoSession THEN <<>> ELSE <<PassOn(s, tx)>>)
  /\ UNCHANGED <<status, registry, database, inbox, unseen, bounds>>

RemoveMembership(s) ==
  LET c == NextCall(s) IN
  /\ About(s, "remove")
  /\ memberships' =
       [memberships EXCEPT ![c.user] = remove_room_membership(@, c.room)]
  /\ Return(s)
  /\ UNCHANGED <<status, registry, posted, table, inbox, unseen, bounds>>

UnsubscribeRoom(s) ==
  LET c == NextCall(s) IN
  /\ About(s, "unsubscribe")
  /\ RoomsBecome(unsubscribe_room(rooms, c.user, c.room))
  /\ Return(s)
  /\ UNCHANGED <<status, user_rooms, user_senders, database, inbox, unseen, bounds>>

(* get_last_room after a /leave: where the user lands.                     *)
FallBackTo(s, room) ==
  Then(s, <<Own(s, "subscribe", room), Own(s, "set_active", room),
            Own(s, "replay", room)>>)

ReadFallback(s) ==
  /\ About(s, "fallback")
  /\ FallBackTo(s, LastRoomOr(memberships[Owner[s]], General))
  /\ UNCHANGED <<status, registry, database, inbox, unseen, bounds>>

(* cleanup_disconnect: a leave notice to every room the username is found  *)
(* in, in the map's arbitrary order.                                       *)
ReadSubscribedRooms(s) ==
  LET mine == get_user_subscribed_rooms(rooms, Owner[s]) IN
  /\ About(s, "goodbye")
  /\ \E order \in SetToSeqs(mine) :
       Then(s, [i \in 1..Len(order) |-> Own(s, "broadcast", order[i])])
  /\ UNCHANGED <<status, registry, database, inbox, unseen, bounds>>

LeaveAllRooms(s) ==
  /\ About(s, "leave_all")
  /\ RoomsBecome(leave_all_rooms(rooms, NextCall(s).user))
  /\ Return(s)
  /\ UNCHANGED <<status, user_rooms, user_senders, database, inbox, unseen, bounds>>

(* The last call of the task: it returns and drops out_rx.                 *)
UnregisterSender(s) ==
  /\ About(s, "unregister")
  /\ user_senders' = [user_senders EXCEPT ![NextCall(s).user] = NoSession]
  /\ status' = [status EXCEPT ![s] = "closed"]
  /\ Return(s)
  /\ UNCHANGED <<rooms, user_rooms, replayed, database, inbox, unseen, bounds>>

-----------------------------------------------------------------------------
(* The database fails a statement: reads fall back to their default,       *)
(* writes whose error is dropped with .ok() do nothing, and an unwrap()    *)
(* ends the task without cleanup_disconnect.  The first statements of      *)
(* /msg, of a text and of /typing are unwrapped before anything is shared. *)

Panic(s) ==
  /\ status' = [status EXCEPT ![s] = "dead"]
  /\ todo' = [todo EXCEPT ![s] = <<>>]

StatementFails(s) ==
  /\ faults + restarts < MaxFailures
  /\ faults' = faults + 1
  /\ \/ /\ About(s, "save") \/ About(s, "remove") \/ About(s, "insert_ok")
        /\ Return(s) /\ UNCHANGED status
     \/ /\ About(s, "memberships")
        /\ MembershipsAre(s, <<>>) /\ UNCHANGED status
     \/ /\ About(s, "resume")
        /\ ResumeIn(s, General) /\ UNCHANGED status
     \/ /\ About(s, "fallback")
        /\ FallBackTo(s, General) /\ UNCHANGED status
     \/ /\ About(s, "insert") \/ About(s, "replay") \/ Idle(s)
        /\ Panic(s)
  /\ UNCHANGED <<registry, database, inbox, unseen, lines, restarts>>

(* get_or_create_db_room fails: its INSERT (.ok()) or its SELECT of the id *)
(* (unwrap_or(1)).  The handler goes on with id 1, the id of the default   *)
(* room, the first row of rooms: it makes the user a member of that room,  *)
(* replays that room's messages as the ones of this room, or stores the    *)
(* message among that room's.  The id a message is stored under is looked  *)
(* up earlier in its handler and used for nothing else.                    *)
RoomIdFails(s) ==
  LET c == NextCall(s) IN
  /\ faults + restarts < MaxFailures
  /\ faults' = faults + 1
  /\ \/ /\ About(s, "save")
        /\ memberships' =
             [memberships EXCEPT ![c.user] = save_room_membership(@, General)]
        /\ UNCHANGED <<table, inbox>>
     \/ /\ About(s, "replay")
        /\ inbox' = [inbox EXCEPT ![s] = @ \o History(General)]
        /\ UNCHANGED <<memberships, table>>
     \/ /\ About(s, "insert") \/ About(s, "insert_ok")
        /\ table' = [table EXCEPT ![General] = Append(@, c.msg)]
        /\ UNCHANGED <<memberships, inbox>>
  /\ c.room # General
  /\ Return(s)
  /\ UNCHANGED <<status, registry, posted, unseen, lines, restarts>>

-----------------------------------------------------------------------------
(* The handlers.                                                           *)

Begin(s, calls)  == todo' = [todo EXCEPT ![s] = calls]
get_user_room(s) == user_rooms[Owner[s]]

(* Task s takes the next line from its client.                             *)
ReadLine(s) ==
  /\ Idle(s)
  /\ lines < MaxLines
  /\ lines' = lines + 1
  /\ UNCHANGED <<status, inbox, unseen, faults, restarts>>

(* A new message gets its id.                                              *)
Compose(s, room, path) ==
  /\ Len(posted) < MaxMessages
  /\ posted' = Append(posted, [from |-> s, room |-> room, path |-> path])

FreshId == Len(posted) + 1

Connect(s) ==
  /\ status[s] = "off"
  /\ Overlap \/ \A t \in Open : Owner[t] # Owner[s]
  /\ status' = [status EXCEPT ![s] = "on"]
  /\ Begin(s, <<Own(s, "register", General), Own(s, "memberships", General)>>)
  /\ UNCHANGED <<registry, database, inbox, unseen, bounds>>

Join(s, room) ==
  LET announced == get_user_room(s) \notin DmRooms /\ room \notin DmRooms IN
  /\ ReadLine(s)
  /\ Begin(s, <<Own(s, "subscribe", room), Own(s, "set_active", room),
                Own(s, "save", room), Own(s, "replay", room)>> \o
              (IF announced THEN <<Own(s, "broadcast", room)>> ELSE <<>>))
  /\ UNCHANGED <<registry, database>>

Leave(s) ==
  LET room == get_user_room(s) IN
  /\ ReadLine(s)
  /\ room # General
  /\ Begin(s, <<Own(s, "remove", room), Own(s, "unsubscribe", room),
                Own(s, "broadcast", room), Own(s, "fallback", room)>>)
  /\ UNCHANGED <<registry, database>>

Switch(s, room) ==
  /\ ReadLine(s)
  /\ user_rooms' = [user_rooms EXCEPT ![Owner[s]] = room]
  /\ UNCHANGED <<todo, rooms, user_senders, replayed, database>>

(* Wrong: the DM is sent before its target is subscribed to it.            *)
MsgSendsFirst(s, target) ==
  LET dm == dm_room(Owner[s], target) IN
  /\ ReadLine(s)
  /\ target # Owner[s]
  /\ Compose(s, dm, "dm")
  /\ Begin(s, <<Own(s, "subscribe", dm), Call("insert", Owner[s], s, dm, FreshId),
                Call("broadcast", Owner[s], s, dm, FreshId),
                Call("save", target, s, dm, Notice),
                Call("get_sender", target, s, dm, Notice)>>)
  /\ UNCHANGED <<registry, memberships, table>>

Msg(s, target) ==
  LET dm == dm_room(Owner[s], target) IN
  /\ ReadLine(s)
  /\ target # Owner[s]
  /\ Compose(s, dm, "dm")
  /\ Begin(s, <<Own(s, "subscribe", dm), Own(s, "set_active", dm),
                Own(s, "save", dm), Own(s, "replay", dm),
                Call("insert", Owner[s], s, dm, FreshId),
                Call("save", target, s, dm, Notice),
                Call("get_sender", target, s, dm, Notice),
                Call("broadcast", Owner[s], s, dm, FreshId)>>)
  /\ UNCHANGED <<registry, memberships, table>>

(* A line of text: sent to the room first, stored afterwards.              *)
Text(s) ==
  LET room == get_user_room(s) IN
  /\ ReadLine(s)
  /\ Compose(s, room, "text")
  /\ Begin(s, <<Call("broadcast", Owner[s], s, room, FreshId),
                Call("insert", Owner[s], s, room, FreshId)>>)
  /\ UNCHANGED <<registry, memberships, table>>

(* Wrong: /image and /audio that send before they store.                   *)
MediaSentFirst(s) ==
  LET room == get_user_room(s) IN
  /\ ReadLine(s)
  /\ Compose(s, room, "media")
  /\ Begin(s, <<Call("broadcast", Owner[s], s, room, FreshId),
                Call("insert_ok", Owner[s], s, room, FreshId)>>)
  /\ UNCHANGED <<registry, memberships, table>>

(* /image and /audio: stored first, sent to the room afterwards.           *)
Media(s) ==
  LET room == get_user_room(s) IN
  /\ ReadLine(s)
  /\ Compose(s, room, "media")
  /\ Begin(s, <<Call("insert_ok", Owner[s], s, room, FreshId),
                Call("broadcast", Owner[s], s, room, FreshId)>>)
  /\ UNCHANGED <<registry, memberships, table>>

(* /read and /typing: a signal to the named room, nothing stored.          *)
Signal(s, room) ==
  /\ ReadLine(s)
  /\ Begin(s, <<Own(s, "broadcast", room)>>)
  /\ UNCHANGED <<registry, database>>

(* Wrong: only the active room is left.                                    *)
DisconnectLeavesOne(s) ==
  /\ Idle(s)
  /\ status' = [status EXCEPT ![s] = "closing"]
  /\ Begin(s, <<Own(s, "goodbye", General), Own(s, "unsubscribe", get_user_room(s)),
                Own(s, "unregister", General)>>)
  /\ UNCHANGED <<registry, database, inbox, unseen, bounds>>

(* EOF on the socket: the loop ends and cleanup_disconnect runs.           *)
Disconnect(s) ==
  /\ Idle(s)
  /\ status' = [status EXCEPT ![s] = "closing"]
  /\ Begin(s, <<Own(s, "goodbye", General), Own(s, "leave_all", General),
                Own(s, "unregister", General)>>)
  /\ UNCHANGED <<registry, database, inbox, unseen, bounds>>

(* The process restarts: the registry and every task are gone, the         *)
(* database stays.                                                         *)
ServerRestart ==
  /\ faults + restarts < MaxFailures
  /\ restarts' = restarts + 1
  /\ status' = [s \in Sessions |-> IF Alive(s) THEN "dead" ELSE status[s]]
  /\ todo' = [s \in Sessions |-> <<>>]
  /\ rooms' = [r \in Rooms |-> Nobody]
  /\ user_rooms' = [u \in Users |-> General]
  /\ user_senders' = [u \in Users |-> NoSession]
  /\ replayed' = [s \in Sessions |-> {}]
  /\ UNCHANGED <<database, inbox, unseen, lines, faults>>

-----------------------------------------------------------------------------
HandlerStep(s) ==
  \/ RegisterSender(s)   \/ ReadMemberships(s)     \/ ReadLastRoom(s)
  \/ SubscribeRoom(s)    \/ SetActiveRoom(s)       \/ SaveMembership(s)
  \/ ReplayHistory(s)    \/ SendToRoom(s)          \/ InsertMessage(s)
  \/ GetSender(s)        \/ RemoveMembership(s)    \/ UnsubscribeRoom(s)
  \/ ReadFallback(s)     \/ ReadSubscribedRooms(s) \/ LeaveAllRooms(s)
  \/ UnregisterSender(s)

ClientStep(s) ==
  \/ Connect(s) \/ Leave(s) \/ Text(s) \/ Media(s) \/ Disconnect(s)
  \/ \E r \in Visible(Owner[s]) : Join(s, r) \/ Switch(s, r) \/ Signal(s, r)
  \/ \E u \in Users : Msg(s, u)

Next ==
  \/ \E s \in Sessions :
       HandlerStep(s) \/ ClientStep(s) \/ StatementFails(s) \/ RoomIdFails(s)
  \/ ServerRestart

Spec == Init /\ [][Next]_vars

(* The runtime keeps polling a task that can make progress; nothing makes  *)
(* a client send anything.                                                 *)
FairSpec == Spec /\ \A s \in Sessions : WF_vars(HandlerStep(s))

-----------------------------------------------------------------------------
(* Properties.                                                             *)

Items == [msg : MessageIds, is_history : BOOLEAN]
Posts == [from : Sessions, room : Rooms, path : {"text", "dm", "media"}]

(* The types of the variables.  The registry never files a connection      *)
(* under a user that does not own it, and nothing pending will.            *)
TodoOK ==
  /\ todo \in [Sessions -> Seq(Calls)]
  /\ \A s \in Sessions : todo[s] \in Seq(CallsOf(s))

SendersOK ==
  /\ user_senders \in [Users -> Sessions \cup {NoSession}]
  /\ \A u \in Users : user_senders[u] # NoSession => Owner[user_senders[u]] = u

TypeOK ==
  /\ status \in [Sessions -> {"off", "on", "closing", "closed", "dead"}]
  /\ TodoOK
  /\ rooms \in [Rooms -> [Entries -> Nat]]
  /\ user_rooms \in [Users -> Rooms]
  /\ SendersOK
  /\ memberships \in [Users -> Seq(Rooms)]
  /\ posted \in Seq(Posts)
  /\ table \in [Rooms -> Seq(MessageIds)]
  /\ inbox \in [Sessions -> Seq(Items)]
  /\ replayed \in [Sessions -> SUBSET Rooms]
  /\ unseen \in [Sessions -> SUBSET MessageIds]
  /\ lines \in Nat
  /\ faults \in Nat
  /\ restarts \in Nat

(* A room holds at most one entry per username, whatever the order in      *)
(* which a user's connections and the DMs sent to it subscribe it.         *)
OneEntryPerUser ==
  \A r \in Rooms : \A d, e \in Entries :
    /\ rooms[r][e] <= 1
    /\ Subscribed(rooms, r, d) /\ Subscribed(rooms, r, e) /\ d[1] = e[1] => d = e

(* Once cleanup_disconnect has run, the connection's tx is registered      *)
(* nowhere, a DM room excepted: a /msg that read the tx before the cleanup *)
(* may subscribe it afterwards, and the next send to that DM prunes it.    *)
NoTraceAfterDisconnect ==
  \A s \in Sessions : status[s] = "closed" =>
    /\ user_senders[Owner[s]] # s
    /\ \A r \in Channels : ~Live(s, r)

(* The message is still on its way to the room.                            *)
Unsent(m) ==
  \E i \in 1..Len(todo[posted[m].from]) :
    LET c == todo[posted[m].from][i] IN c.op = "broadcast" /\ c.msg = m

Got(s, m) == \E i \in 1..Len(inbox[s]) : inbox[s][i].msg = m

(* A connection that subscribed to a room and was replayed the room's      *)
(* messages has every message of the room that is stored as such and that  *)
(* the history limit lets it have, live or replayed: subscribing before    *)
(* replaying, and storing before sending, leave no gap.  One exception is  *)
(* handle_regular_message, which sends before it stores: a replay between  *)
(* the two misses the text.  What RoomIdFails does is outside the claim: a *)
(* replay that took the default room's messages for the room's does not    *)
(* count as a replay of the room, nor a message stored among the default   *)
(* room's as a stored message of its own room, or of that one.             *)
LostOnlyInTextGap ==
  \A s \in Open : \A r \in replayed[s] : \A i \in 1..Len(table[r]) :
    LET m == table[r][i] IN
    Live(s, r) /\ posted[m].room = r /\ i + HistoryLimit > Len(table[r]) /\ ~Unsent(m)
      => Got(s, m) \/ (posted[m].path = "text" /\ m \in unseen[s])

(* Two connections that both see two messages live see them in one order.  *)
LiveOrderAgrees ==
  \A s, t \in Sessions :
    \A i, j \in 1..Len(inbox[s]) : \A k, l \in 1..Len(inbox[t]) :
      /\ i < j /\ inbox[s][i] = inbox[t][k] /\ inbox[s][j] = inbox[t][l]
      /\ ~inbox[s][i].is_history /\ ~inbox[s][j].is_history
      => k < l

MemberOf(u) == {memberships[u][i] : i \in 1..Len(memberships[u])}

(* Between two lines, a connection gets live delivery of every channel its *)
(* user is a member of (one connection of a user at a time).               *)
MemberChannelsAreLive ==
  \A s \in Sessions : Idle(s) =>
    \A r \in MemberOf(Owner[s]) \cap Channels : Live(s, r)

(* The same of the room it visited or was messaged in last, a DM perhaps:  *)
(* what /leave and the next connect bring the user back to.  A /msg to the *)
(* user that is under way has yet to subscribe it.                         *)
BeingMessaged(u) ==
  \E t \in Sessions : \E i \in 1..Len(todo[t]) :
    todo[t][i].user = u /\ todo[t][i].op \in {"get_sender", "subscribe"}

LatestRoomIsLive ==
  \A s \in Sessions :
    LET mine == memberships[Owner[s]] IN
    Idle(s) /\ ~BeingMessaged(Owner[s]) /\ mine # <<>>
      => Live(s, Head(mine))

(* "A connected user can be subscribed to several rooms at once (their     *)
(* DMs, plus whatever channels they've joined)": a user all of whose       *)
(* connections are between two lines is live, by one of them, in every     *)
(* room it is a member of.                                                 *)
ConnectedUserIsLive ==
  \A u \in Users :
    LET mine == {s \in Open : Owner[s] = u} IN
    mine # {} /\ (\A s \in mine : Idle(s)) /\ ~BeingMessaged(u) =>
      \A r \in MemberOf(u) : \E s \in mine : Live(s, r)

(* A live subscription ends only by its own user's doing: /leave of that   *)
(* room, a disconnect of one of the user's connections, or a later         *)
(* subscription; or with the server process.                               *)
LosesEntry(r, e) ==
  e[2] \in Open /\ Subscribed(rooms, r, e) /\ ~Subscribed(rooms', r, e)

SubscriptionsAreKept ==
  [][\A r \in Rooms : \A e \in Entries : LosesEntry(r, e) =>
       \/ restarts' # restarts
       \/ \E d \in Entries : d[1] = e[1] /\ Subscribed(rooms', r, d)
       \/ \E s \in Sessions :
            /\ Owner[s] = e[1]
            /\ About(s, "leave_all")
               \/ (About(s, "unsubscribe") /\ NextCall(s).room = r)]_vars

Leaving(t, room) ==
  \E i \in 1..Len(todo[t]) :
    todo[t][i].op = "unsubscribe" /\ todo[t][i].room = room

LookupPending(s, user) ==
  \E i \in 1..Len(todo[s]) :
    todo[s][i].op = "get_sender" /\ todo[s][i].user = user

DmSentTo(t, m) ==
  /\ m \in 1..Len(posted)
  /\ Unsent(m) /\ LookupPending(posted[m].from, Owner[t])
  /\ user_senders[Owner[t]] = t /\ status[t] = "on"

DmSettled(t, m) ==
  /\ m \in 1..Len(posted)
  /\ \/ \E i \in 1..Len(inbox[t]) : inbox[t][i] = [msg |-> m, is_history |-> FALSE]
     \/ status[t] # "on"
     \/ status[posted[m].from] = "dead"
     \/ Leaving(t, posted[m].room)

(* A DM whose target has a registered connection when /msg looks it up     *)
(* reaches that connection live, unless it ends, its user leaves the       *)
(* DM, or the sender's task dies.                                          *)
DmDelivered ==
  \A m \in MessageIds, t \in Sessions : DmSentTo(t, m) ~> DmSettled(t, m)

(* AppState.rooms is a map per room from users to connections, and a send  *)
(* reaches everyone in it at once.                                         *)
EntryOf(room, user) ==
  IF \E s \in Sessions : Owner[s] = user /\ Live(s, room)
  THEN CHOOSE s \in Sessions : Owner[s] = user /\ Live(s, room)
  ELSE NoSession

TimesHeard(s, m) ==
  Cardinality({i \in 1..Len(inbox[s]) : inbox[s][i] = [msg |-> m, is_history |-> FALSE]})

Map == INSTANCE RoomMap WITH
  Messages <- MessageIds,
  members  <- [r \in Rooms |-> [u \in Users |-> EntryOf(r, u)]],
  open     <- Open,
  heard    <- [s \in Sessions |-> [m \in MessageIds |-> TimesHeard(s, m)]]

RefinesRoomMap == Map!Spec
=============================================================================

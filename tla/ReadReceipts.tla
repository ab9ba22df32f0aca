---------------------------- MODULE ReadReceipts ----------------------------
(***************************************************************************)
(* Unread marks and read receipts of the terminal clients, through the     *)
(* server: what each client has been sent, which of it is flagged unread,  *)
(* which messages count as read, and the /read lines that tell the others. *)
(*                                                                         *)
(* One client per user, over both directions of its connection.  A handler *)
(* of the server is one step here (ChatServer has their interleavings);    *)
(* the queues in between are what makes the screens lag behind.  The rooms *)
(* are channels, so a user is subscribed to what room_members lists.       *)
(***************************************************************************)
EXTENDS Naturals, Sequences, FiniteSets, AppState

CONSTANTS
  Clients,      \* users, one client each
  Rooms,        \* room names the clients accept
  General,      \* the default room
  Rejected,     \* of those, the ones the server refuses
  Targets,      \* rooms the users name in /join
  StartRooms,   \* room_members of each user, the latest first
  Late,         \* clients the server has subscribed but not yet greeted
  MaxLines      \* bound: what the users enter, and so the messages

Listed(room, names) == \E i \in 1..Len(names) : names[i] = room

ASSUME ReceiptsAssumption ==
  /\ General \in Rooms \ Rejected
  /\ Rejected \subseteq Rooms /\ Targets \subseteq Rooms
  /\ StartRooms \in [Clients -> Seq(Rooms \ Rejected)]
  /\ \A c \in Clients : Listed(General, StartRooms[c])
  /\ Late \subseteq Clients
  /\ MaxLines \in Nat

VARIABLES
  current, rooms,      \* each client's current_room and sidebar
  messages, flagged,   \* the messages it holds, and those flagged unread
  unread_rooms, read_message_ids,
  up, down,            \* lines to the server, frames to the client
  active, mine,        \* user_rooms and room_members
  posted,              \* the messages by id: who, where and what
  late,                \* clients still to be greeted
  lines,               \* the bounded counter
  shown,               \* history variable: <<c, m>> if c has had m on its screen
  entry,               \* history variable: how a client last entered each room
  replayed             \* history variable: a client's own messages it was replayed

reading == <<messages, flagged, unread_rooms, read_message_ids>>
view    == <<current, rooms, reading, shown, entry, replayed>>
server  == <<active, mine, posted, late>>
vars    == <<view, up, down, server, lines>>

Message(m, hist)    == [kind |-> "Message", id |-> m, is_history |-> hist]
RoomList(names)     == [kind |-> "RoomList", names |-> names]
SetActiveRoom(room) == [kind |-> "SetActiveRoom", room |-> room]
ReadReceipt(by, ids) == [kind |-> "ReadReceipt", by |-> by, ids |-> ids]

Line(cmd, room, ids) == [cmd |-> cmd, room |-> room, ids |-> ids]

Init ==
  /\ rooms = [c \in Clients |-> IF c \in Late THEN <<General>> ELSE StartRooms[c]]
  /\ current = [c \in Clients |-> Head(rooms[c])]
  /\ messages = [c \in Clients |-> {}]
  /\ flagged = [c \in Clients |-> {}]
  /\ unread_rooms = [c \in Clients |-> {}]
  /\ read_message_ids = [c \in Clients |-> {}]
  /\ up = [c \in Clients |-> <<>>]
  /\ down = [c \in Clients |-> <<>>]
  /\ active = [c \in Clients |-> Head(StartRooms[c])]
  /\ mine = StartRooms
  /\ posted = <<>>
  /\ late = Late
  /\ lines = 0
  /\ shown = {}
  /\ entry = [c \in Clients |-> [r \in Rooms |-> "marked"]]
  /\ replayed = [c \in Clients |-> {}]

RoomOf(m) == posted[m].room
In(room)  == {m \in 1..Len(posted) : RoomOf(m) = room}
By(c)     == {m \in 1..Len(posted) : posted[m].from = c}
Ids(held) == {x.id : x \in held}

-----------------------------------------------------------------------------
(* The client.                                                             *)

(* The room on the screen and the messages held, and so what is seen.      *)
Screen(c, room, held) ==
  /\ current' = [current EXCEPT ![c] = room]
  /\ messages' = [messages EXCEPT ![c] = held]
  /\ shown' = shown \cup {<<c, m>> : m \in Ids(held) \cap In(room)}

Enters(c, room, how) == entry' = [entry EXCEPT ![c][room] = how]

(* Wrong: the flags go, the mark in the sidebar stays.                     *)
clear_flags_only(c, room) ==
  /\ flagged' = [flagged EXCEPT ![c] = @ \ In(room)]
  /\ UNCHANGED unread_rooms

clear_room_read_state(c, room) ==
  /\ flagged' = [flagged EXCEPT ![c] = @ \ In(room)]
  /\ unread_rooms' = [unread_rooms EXCEPT ![c] = @ \ {room}]

collect_unread_ids(c, room) ==
  (Ids(messages[c]) \cap In(room)) \ (By(c) \cup read_message_ids[c])

(* send_read_receipt: no line when there is nothing to tell.               *)
Receipt(room, ids) == IF ids = {} THEN <<>> ELSE <<Line("read", room, ids)>>

(* mark_all_read, and the line of the command that calls it.               *)
mark_all_read(c, room, after) ==
  /\ clear_room_read_state(c, room)
  /\ Enters(c, room, "marked")
  /\ up' = [up EXCEPT ![c] = @ \o Receipt(room, collect_unread_ids(c, room)) \o after]

Typed ==
  /\ lines < MaxLines
  /\ lines' = lines + 1

select_room(c, room) ==
  /\ room # current[c] /\ Listed(room, rooms[c])
  /\ Typed
  /\ Screen(c, room, messages[c])
  /\ mark_all_read(c, room, <<Line("switch", room, {})>>)
  /\ UNCHANGED <<rooms, read_message_ids, down, server, replayed>>

cmd_join(c, room) ==
  /\ Typed
  /\ rooms' = [rooms EXCEPT ![c] = IF Listed(room, @) THEN @ ELSE Append(@, room)]
  /\ Screen(c, room, messages[c])
  /\ mark_all_read(c, room, <<Line("join", room, {})>>)
  /\ UNCHANGED <<read_message_ids, down, server, replayed>>

(* The room behind is cleared without a receipt.                           *)
cmd_leave(c) ==
  LET left == Without(rooms[c], current[c]) IN
  /\ Len(rooms[c]) > 1
  /\ Typed
  /\ rooms' = [rooms EXCEPT ![c] = left]
  /\ Screen(c, Head(left), messages[c])
  /\ clear_room_read_state(c, Head(left))
  /\ Enters(c, Head(left), "left")
  /\ up' = [up EXCEPT ![c] = Append(@, Line("leave", current[c], {}))]
  /\ UNCHANGED <<read_message_ids, down, server, replayed>>

(* /clear drops the messages on the screen, and nothing of the marks.      *)
cmd_clear(c) ==
  /\ Typed
  /\ Ids(messages[c]) \cap In(current[c]) # {}
  /\ Screen(c, current[c], {x \in messages[c] : RoomOf(x.id) # current[c]})
  /\ flagged' = [flagged EXCEPT ![c] = @ \ In(current[c])]
  /\ UNCHANGED <<rooms, unread_rooms, read_message_ids, up, down, server, entry, replayed>>

(* A text marks the room read first; an upload ends with /image or /audio. *)
SendText(c) ==
  /\ Typed
  /\ Screen(c, current[c], messages[c])
  /\ mark_all_read(c, current[c], <<Line("text", current[c], {})>>)
  /\ UNCHANGED <<rooms, read_message_ids, down, server, replayed>>

SendMedia(c) ==
  /\ Typed
  /\ up' = [up EXCEPT ![c] = Append(@, Line("media", current[c], {}))]
  /\ UNCHANGED <<view, down, server>>

(* Wrong: every live message is acknowledged, on the screen or not.        *)
AckAlways(c, m, hist) == ~hist /\ m \notin By(c)

(* The live texts of others on the screen are acknowledged at once.        *)
Acked(c, m, hist) ==
  /\ RoomOf(m) = current[c] /\ ~hist
  /\ posted[m].kind = "text" /\ m \notin By(c)

(* was_unread of ingest_msg.                                               *)
Unread(c, m, hist) == RoomOf(m) # current[c] /\ ~hist

IngestMessage(c, m, hist) ==
  LET room == RoomOf(m) IN
  /\ Screen(c, current[c], messages[c] \cup {[id |-> m, is_history |-> hist]})
  /\ \/ /\ room = current[c] /\ ~hist
        /\ clear_room_read_state(c, room)
        /\ IF entry[c][room] = "moved" THEN Enters(c, room, "left") ELSE UNCHANGED entry
     \/ /\ Unread(c, m, hist)
        /\ flagged' = [flagged EXCEPT ![c] = @ \cup {m}]
        /\ unread_rooms' = [unread_rooms EXCEPT ![c] = @ \cup {room}]
        /\ UNCHANGED entry
     \/ /\ ~Unread(c, m, hist) /\ (hist \/ room # current[c])
        /\ UNCHANGED <<flagged, unread_rooms, entry>>
  /\ IF hist /\ m \in By(c)
     THEN /\ read_message_ids' = [read_message_ids EXCEPT ![c] = @ \cup {m}]
          /\ replayed' = [replayed EXCEPT ![c] = @ \cup {m}]
     ELSE UNCHANGED <<read_message_ids, replayed>>
  /\ up' = [up EXCEPT ![c] = @ \o Receipt(room, IF Acked(c, m, hist) THEN {m} ELSE {})]
  /\ UNCHANGED rooms

(* A list that lacks the room on the screen moves the client, which marks  *)
(* nothing read.                                                           *)
IngestRoomList(c, names) ==
  LET room == IF Listed(current[c], names) THEN current[c] ELSE Head(names) IN
  /\ rooms' = [rooms EXCEPT ![c] = names]
  /\ Screen(c, room, messages[c])
  /\ IF room = current[c] THEN UNCHANGED entry ELSE Enters(c, room, "moved")
  /\ UNCHANGED <<flagged, unread_rooms, read_message_ids, up, replayed>>

IngestSetActiveRoom(c, room) ==
  /\ Screen(c, room, messages[c])
  /\ mark_all_read(c, room, <<>>)
  /\ UNCHANGED <<rooms, read_message_ids, replayed>>

IngestReceipt(c, ids) ==
  /\ read_message_ids' = [read_message_ids EXCEPT ![c] = @ \cup ids]
  /\ UNCHANGED <<current, rooms, messages, flagged, unread_rooms, shown, entry, replayed, up>>

handle_server_message(c) ==
  LET f == Head(down[c]) IN
  /\ down[c] # <<>>
  /\ down' = [down EXCEPT ![c] = Tail(@)]
  /\ \/ f.kind = "Message" /\ IngestMessage(c, f.id, f.is_history)
     \/ f.kind = "RoomList" /\ IngestRoomList(c, f.names)
     \/ f.kind = "SetActiveRoom" /\ IngestSetActiveRoom(c, f.room)
     \/ f.kind = "ReadReceipt" /\ IngestReceipt(c, f.ids)
  /\ UNCHANGED <<server, lines>>

UserStep(c) ==
  \/ \E r \in Rooms : select_room(c, r)
  \/ \E r \in Targets : cmd_join(c, r)
  \/ cmd_leave(c) \/ cmd_clear(c) \/ SendText(c) \/ SendMedia(c)

-----------------------------------------------------------------------------
(* The server.                                                             *)

(* replay_history: the room as it is stored, oldest first.                 *)
History(room) ==
  LET upTo[n \in 0..Len(posted)] ==
        IF n = 0 THEN <<>>
        ELSE upTo[n - 1] \o IF RoomOf(n) = room THEN <<Message(n, TRUE)>> ELSE <<>>
  IN  upTo[Len(posted)]

(* send_to_room: a frame to everybody subscribed.                          *)
Broadcast(room, frame) ==
  down' = [d \in Clients |-> IF Listed(room, mine[d]) THEN Append(down[d], frame)
                                                      ELSE down[d]]

Answer(c, frames) == down' = [down EXCEPT ![c] = @ \o frames]

(* The end of the connect: history, room list and active room.             *)
Greet(c) ==
  /\ c \in late
  /\ late' = late \ {c}
  /\ Answer(c, History(active[c]) \o <<RoomList(mine[c]), SetActiveRoom(active[c])>>)
  /\ UNCHANGED <<view, up, active, mine, posted, lines>>

TakeLine(c, cmd) ==
  /\ c \notin late
  /\ up[c] # <<>> /\ Head(up[c]).cmd = cmd
  /\ up' = [up EXCEPT ![c] = Tail(@)]
  /\ UNCHANGED <<view, late, lines>>

(* Texts and media, to the room active[c].                                 *)
Post(c, cmd) ==
  /\ TakeLine(c, cmd)
  /\ posted' = Append(posted, [from |-> c, room |-> active[c], kind |-> cmd])
  /\ Broadcast(active[c], Message(Len(posted) + 1, FALSE))
  /\ UNCHANGED <<active, mine>>

handle_join_command(c) ==
  LET room == Head(up[c]).room IN
  /\ TakeLine(c, "join")
  /\ \/ room \in Rejected /\ UNCHANGED <<active, mine, down>>
     \/ /\ room \notin Rejected
        /\ active' = [active EXCEPT ![c] = room]
        /\ mine' = [mine EXCEPT ![c] = save_room_membership(@, room)]
        /\ Answer(c, Append(History(room), RoomList(mine'[c])))
  /\ UNCHANGED posted

(* Wrong: the default room can be left.                                    *)
handle_leave_any(c) ==
  /\ TakeLine(c, "leave")
  /\ mine' = [mine EXCEPT ![c] = remove_room_membership(@, active[c])]
  /\ active' = [active EXCEPT ![c] = LastRoomOr(mine'[c], General)]
  /\ Answer(c, Append(History(active'[c]), RoomList(mine'[c])))
  /\ UNCHANGED posted

handle_leave_command(c) ==
  /\ TakeLine(c, "leave")
  /\ \/ active[c] = General /\ UNCHANGED <<active, mine, down>>
     \/ /\ active[c] # General
        /\ mine' = [mine EXCEPT ![c] = remove_room_membership(@, active[c])]
        /\ active' = [active EXCEPT ![c] = LastRoomOr(mine'[c], General)]
        /\ Answer(c, Append(History(active'[c]), RoomList(mine'[c])))
  /\ UNCHANGED posted

handle_switch_command(c) ==
  /\ TakeLine(c, "switch")
  /\ active' = [active EXCEPT ![c] = Head(up[c]).room]
  /\ UNCHANGED <<mine, posted, down>>

(* Wrong: the receipt goes back to its reader.                             *)
handle_read_own(c) ==
  /\ TakeLine(c, "read")
  /\ Answer(c, <<ReadReceipt(c, Head(up[c]).ids)>>)
  /\ UNCHANGED <<active, mine, posted>>

(* /read: to everybody in the room, the reader included.                   *)
handle_read_command(c) ==
  /\ TakeLine(c, "read")
  /\ Broadcast(Head(up[c]).room, ReadReceipt(c, Head(up[c]).ids))
  /\ UNCHANGED <<active, mine, posted>>

TaskStep(c) ==
  \/ Greet(c) \/ Post(c, "text") \/ Post(c, "media")
  \/ handle_join_command(c) \/ handle_leave_command(c)
  \/ handle_switch_command(c) \/ handle_read_command(c)

Next == \E c \in Clients : UserStep(c) \/ handle_server_message(c) \/ TaskStep(c)

Spec == Init /\ [][Next]_vars

(* The event loop keeps draining its channel and the runtime keeps polling *)
(* the tasks; nobody has to enter anything.                                *)
FairSpec ==
  Spec /\ \A c \in Clients : WF_vars(handle_server_message(c)) /\ WF_vars(TaskStep(c))

-----------------------------------------------------------------------------
(* Properties.                                                             *)

MessageIds == 1..Len(posted)
Names      == Seq(Rooms) \ {<<>>}
Frames ==
  [kind : {"Message"}, id : MessageIds, is_history : BOOLEAN]
    \cup [kind : {"RoomList"}, names : Names]
    \cup [kind : {"SetActiveRoom"}, room : Rooms]
    \cup [kind : {"ReadReceipt"}, by : Clients, ids : SUBSET MessageIds]
Cmds == {"switch", "join", "leave", "text", "media", "read"}

(* The types of the variables.  No line or frame names a message that was  *)
(* never posted, and no room list is empty.                                *)
TypeOK ==
  /\ current \in [Clients -> Rooms]
  /\ rooms \in [Clients -> Names]
  /\ messages \in [Clients -> SUBSET [id : MessageIds, is_history : BOOLEAN]]
  /\ flagged \in [Clients -> SUBSET MessageIds]
  /\ unread_rooms \in [Clients -> SUBSET Rooms]
  /\ read_message_ids \in [Clients -> SUBSET MessageIds]
  /\ up \in [Clients -> Seq([cmd : Cmds, room : Rooms, ids : SUBSET MessageIds])]
  /\ down \in [Clients -> Seq(Frames)]
  /\ active \in [Clients -> Rooms]
  /\ mine \in [Clients -> Seq(Rooms \ Rejected)]
  /\ posted \in Seq([from : Clients, room : Rooms, kind : {"text", "media"}])
  /\ late \in SUBSET Clients
  /\ lines \in Nat
  /\ shown \in SUBSET (Clients \X MessageIds)
  /\ entry \in [Clients -> [Rooms -> {"marked", "left", "moved"}]]
  /\ replayed \in [Clients -> SUBSET MessageIds]

(* What `c` may report as read: messages of others it has had on its       *)
(* screen.                                                                 *)
Reportable(c) == {m \in MessageIds \ By(c) : <<c, m>> \in shown}

(* No receipt claims more than its reader saw: every /read line and every  *)
(* receipt under way names messages of others that were on the reader's    *)
(* screen, and a message counts as read on a client only when somebody     *)
(* other than its author has seen it, or when it is the client's own and   *)
(* was replayed to it (the history marks one's own messages as read).      *)
ReadMeansShown ==
  \A c \in Clients :
    /\ \A i \in 1..Len(up[c]) : up[c][i].ids \subseteq Reportable(c)
    /\ \A i \in 1..Len(down[c]) :
         down[c][i].kind = "ReadReceipt" => down[c][i].ids \subseteq Reportable(down[c][i].by)
    /\ \A m \in read_message_ids[c] :
         m \in replayed[c] \/ \E d \in Clients : m \in Reportable(d)

(* A live message that has not been on the screen is flagged and its room  *)
(* marked in the sidebar; and what is flagged or marked has not been on    *)
(* the screen, unless a room list put the room there, which clears nothing *)
(* (server_msg.rs, RoomList).                                              *)
UnreadIsMarked ==
  \A c \in Clients :
    /\ \A x \in messages[c] : ~x.is_history /\ <<c, x.id>> \notin shown =>
         x.id \in flagged[c] /\ RoomOf(x.id) \in unread_rooms[c]
    /\ \A m \in flagged[c] : entry[c][RoomOf(m)] # "moved" => <<c, m>> \notin shown
    /\ \A r \in unread_rooms[c] :
         entry[c][r] # "moved" => r # current[c] /\ flagged[c] \cap In(r) # {}

OnScreen(d, m) ==
  /\ m \in MessageIds \ By(d)
  /\ posted[m].kind = "text"
  /\ [id |-> m, is_history |-> FALSE] \in messages[d]
  /\ current[d] = RoomOf(m) /\ entry[d][RoomOf(m)] = "marked"

ReadByAuthor(m) ==
  \/ m \in read_message_ids[posted[m].from]
  \/ ~Listed(RoomOf(m), mine[posted[m].from])

(* A text that is on somebody's screen is in the end read for its author,  *)
(* unless the author leaves the room: the receipt is sent when the text    *)
(* arrives on the screen or when the room is entered, and finds its way    *)
(* back through both queues and the room.  Rooms entered by /leave or by a *)
(* room list send none, nor do images and audio notes that arrive live.    *)
ReceiptArrives ==
  \A d \in Clients : \A m \in 1..MaxLines :
    OnScreen(d, m) ~> (m \in MessageIds /\ ReadByAuthor(m))
=============================================================================

# Retro-Chat in TLA+

Models, model-checking runs and proofs for Retro-Chat: a chat server in Rust
(tokio, PostgreSQL, Redis), an upload server in the same process, and a terminal
client. `PROJECT.json` lists every run, mutant, theorem, hazard and finding, and
says for each definition which lines of the source it stands for.

## 1. The system

### Parts, and the state each keeps

| Part | Source | State | Operations |
|---|---|---|---|
| Registry `AppState` | `app_state.rs` | `rooms` (room → Vec of (user, tx)), `user_rooms`, `user_senders`, presence cache; table `room_members` | subscribe, unsubscribe, leave all, set active, send to room, register and read senders, save and remove memberships |
| Accept loop | `bin/server.rs` | Redis `conn_ratelimit:*` | accept, count the address, handshake, spawn |
| Connection task | `server/connection.rs` | one task per client: reader, writer, `out_rx`; Redis `presence:*` | connect, select! over lines, queue and heartbeat, dispatch, clean up |
| Authentication | `server/auth.rs` | table `users`, Redis `login_attempts:*`, `session:*` | /register, /login |
| Rooms | `server/rooms.rs` | (registry) | /join, /leave, /switch, history, room list |
| Messages, DMs | `server/messages.rs`, `server/commands.rs` | table `messages`, Redis `ratelimit:*` | texts, /msg, /image, /audio, /typing, /read |
| Moderation | `server/commands.rs` | tables `bans`, `audit_log`, Redis `muted:*` | /mute, /unmute, /ban, /unban |
| Upload server | `upload.rs` | directory `uploads/`, table `attachments` | POST image and audio, GET file and thumbnail |
| Client, room view | `tui/commands.rs`, `tui/server_msg.rs`, `tui/input.rs` | `current_room`, `rooms` | commands, frames of the server |
| Client, unread marks | `tui/server_msg.rs`, `tui/commands.rs` | messages and their flags, `unread_rooms`, `read_message_ids` | message, receipt, room list, mark as read, /clear |
| Client, login screen | `tui/login.rs` | last notice | Enter |
| Client, audio player | `tui/audio.rs`, `tui/app.rs` | `playing_audio`, stop flag, bins | start, stop, reports |
| Client, recorder and uploads | `tui/audio.rs`, `tui/image.rs` | `record_samples`, `push_to_talk_active`, a temporary file, image cache | /record, grave key, /audio, /image, fetch of thumbnails |

Client and server exchange lines over one TCP or TLS connection. On the server the
tasks share `AppState` (one lock per map, held for one method at a time), the database
and Redis; every task sends to the others' channels through `send_to_room`. On the
client an event loop reads keys and then drains channels that its spawned tasks and
threads fill.

### What is hard

* **Interleaving.** A handler awaits some ten statements one after the other and
  holds no lock between them: what `get_sender` returned, what the history showed, which
  room is active may be outdated when it is used.
* **Two connections of one user.** The registry is keyed by username.
* **Failure between statements.** Some errors are dropped with `.ok()`, some become
  defaults (the id of a room that was not found becomes that of the default room), some are
  unwrapped and end the task without its clean-up; a restart loses `AppState` and keeps the tables.
* **Two views of one thing.** Client and server each have an idea of the active room.
* **Checks before awaits.** The ban is looked up before the password, the mute before
  the limit and the limit before the send; INCR and EXPIRE are two commands.
* **One task for three jobs.** select! drops a read that has taken half a line, and a client
  that does not read holds up its own task, the heartbeat with it.
* **Late reports.** Fetches, threads, uploads and room lists finish after the user has
  moved on.

`PROJECT.json` has these as `hazards`, each at its line.

### What makes each part correct

* Registry: one entry per user and room, nothing left of a connection that ended, a
  send reaches everyone in the room once and in one order.
* Connection and rooms: whoever is between two lines receives the rooms it is a member
  of; history and live delivery leave no gap; /leave moves on; a DM to a connected user arrives.
* Session: lines are handled in order and once, messages come in the order they were
  queued, the presence key is there while heartbeats set it, and a client that stalls harms nobody else.
* Admission: the banned stay out, the muted send no texts, limits hold and end, the audit log
  agrees with what was done, waiting connections are taken.
* Receipts: what is marked read was on a screen, what was not is marked unread, and the
  author of a text that was read learns of it.
* Authentication: the first users leave an admin, only the right password opens a name,
  attempts are bounded, locks end, the screen gets its user in.
* Client: a text goes to the room on the screen, that room is in the sidebar, one note
  plays at a time, recordings are kept, and mixed by nothing but encoders that overlap.
* Uploads: what is announced can be fetched, and an upload ends in an announcement or a notice
  unless the line itself is lost.

## 2. The modules

| Module | Models | Used by |
|---|---|---|
| `AppState` | the methods of the registry, as operators on `rooms` and on a user's rows of `room_members` | `ChatServer`, `ActiveRoom`, `ReadReceipts` |
| `ChatServer` | all connections: every handler as the calls it awaits, one step each | `MCChatServer` |
| `RoomMap` | abstract specification of `AppState.rooms`: per room a map from users to one connection, atomic sends | refined by `ChatServer` |
| `Auth` | `authenticate_user` on several connections | `LoginUI` |
| `LoginUI` | the lines the login screen sends to `Auth` | `MCAuth` |
| `Admission` | accept loop, ban check, mute and limit of texts, administrators' commands, clock of Redis | `MCAdmission` |
| `Connection` | the select! loop of several sessions | `MCConnection` |
| `ReadReceipts` | several clients' unread marks and receipts, through the server | `MCReadReceipts` |
| `ActiveRoom` | client and server views of the active room, both directions of the connection | `MCActiveRoom` |
| `Playback` | the player: task, ticker, thread and event loop | `MCPlayback` |
| `Media` | recorder, upload tasks, upload server, announcement, thumbnails | `MCMedia` |
| `ChatServerProofs`, `AuthProofs`, `AdmissionProofs`, `ConnectionProofs`, `ReadReceiptsProofs`, `ActiveRoomProofs`, `PlaybackProofs`, `MediaProofs` | theorems | |

Operators whose comment begins with "Wrong:" are the mutants: each is a plausible bug
in one definition. For every property some mutant, put in the place of its definition, breaks it.

### ChatServer

A handler is a list of calls. `todo[s]` holds what connection `s` has still to make for
its line; a call such as `GetSender` whose result decides the rest of the handler puts the
following calls in `todo` when it returns. Each call is one `AppState` method (atomic
under its lock) or one SQL statement, so steps of different connections interleave as they
do in the server. A connection reads its next line when `todo` is empty.

| Code | Action |
|---|---|
| `handle_connection` up to the loop | `Connect`, then register, memberships, subscribe…, resume, set_active, save, replay, broadcast |
| /join, /leave, /switch, /msg, text, /image and /audio, /typing and /read | `Join`, `Leave`, `Switch`, `Msg`, `Text`, `Media`, `Signal` |
| `cleanup_disconnect` | `Disconnect`, then goodbye, broadcast…, leave_all, unregister |
| `.ok()`, `unwrap_or_default`, `.unwrap()` | `StatementFails`, `Panic` |
| `unwrap_or(1)` of `get_or_create_db_room` | `RoomIdFails`: the membership, the replay or the message at hand is the default room's |
| a restart of the process | `ServerRestart` |

Abstractions: `rooms` is a bag of (user, connection) pairs, as no method looks at the
order of the Vec; a message is a number; notices to a task's own writer, room lists
(they are in `ActiveRoom`), presence, typing keys, rate limit and mutes (in `Connection` and
`Admission`) change none of this state; the ids of rooms are left out but for the failure above; a client names the
channels and its own DMs, though the code lets it name any (`rooms.rs:95`); `/typing` has an argument. `replayed` and `unseen` are history
variables: the rooms a connection was replayed while it was in them or about to be subscribed to
them (`Enters`), and the texts that were sent but not yet stored then.
`Overlap` says whether a user may have two connections at a time.

### Auth and LoginUI

`pc[c]` is the next statement of connection `c`: COUNT, INSERT, GET, SELECT, DEL, INCR,
EXPIRE and SET are steps of their own. Usernames are valid and not banned. In `Auth` a client may send
anything; `LoginUI` sends /register or /login as the screen does, by the last notice.

### Admission

`stage[c]` follows a connection from the backlog over the login to its lines; `pc` and `peer`
are the accept loop, which handles one connection at a time and awaits its handshake. A step
is one Redis command, statement or socket operation, and may fail once, at the cost its
caller makes of it: `.ok()` on the mute check lets the line through, `unwrap` ends the
task, `unwrap` in the accept loop ends the server. `pending[c]` is the audit row a command has
still to write. Counters above their limit stand for all values above it. Passwords,
rooms and delivery are elsewhere. `passed`, `spoken`, `posted`, `grace` and `done` are history variables.

A text goes through its gates one statement at a time. `/msg`, `/image` and `/audio` have none:
`SendByCommand` is their whole handler in one step, as nothing here is read in it. So `SendsBounded` and
`MuteStopsTexts` are about texts, and that a muted user can still send by command is what
`MuteBypassed` finds. Two more things of the code are in the model, and no document speaks of them:
`/ban` of a name that is banned already answers that it is not registered; `/mute <name> 0` mutes
nobody and is recorded.

### Connection

`stage[c]` is the task: in select!, in a handler, in a write. A line comes as a head and
a tail, and `read_line` may have taken the head when another branch completes: `Cancel`.
`out_rx` is unbounded, `socket` holds `Window` frames, and a client in `Stalled` need not read.
Time is `Tick`, one heartbeat long, in which every task that waits in select! has run; of the
heartbeats a task has missed only one is kept (the interval's burst of late ticks sets the same
key again). A Redis command may be refused, or find the connection to Redis lost, and then every later
one of that session fails too (`broken`); the heartbeat and the clean-up ignore it, a handler may
unwrap it and panic. `missed` and `erased` are history variables: heartbeats that came due since the
session last set its key, and whether another session's end has taken it since.

### ReadReceipts

`messages`, `flagged`, `unread_rooms` and `read_message_ids` are each client's, `up` and `down`
its connection; a server handler is one step, as its interleavings are in `ChatServer`. A greeting
(history, room list, active room) may come late. `shown` records what has been on a screen,
`entry` how a room was last entered: by a command that marks it read, by a /leave, which
clears it and tells nobody, or by a room list, which clears nothing. Rooms are channels.
System notices and the scroll position are left out.

### ActiveRoom

The user's own handlers run one after the other, so each is one step up to its
`send_room_list`, which is two: read the memberships, push the list. Other users' tasks do
the same when they send a DM. `up` and `down` are the two directions of the connection, `Settled`
says whether the frames of the connect have been handled. The client accepts any name in
/switch. `Rejected` are names the client takes and the server refuses.

### Playback

`Plays` stands for the calls of `start_playback`; each has a task (fetch, device), a
ticker and a thread. The event loop handles a key, then all of `server_rx`, then all of
`spectrum_rx`, as in `event_loop`.

### Media

`pc[u]` follows one recording or upload: the client's task, the upload server's handler,
the line, the broadcast. `wav` is the content of the temporary file all recordings share,
`files`, `thumbs` and `rows` what the upload server has stored. A recording is encoded in two
parts, so that a second encoder may empty, overwrite or complete the file of the first at any point;
`lapped[u]` are the recordings that had the file open while the task of `u` was using it. What a take
holds is what is left after the first 100 ms are cut off. Creating, writing and finalizing the file,
reading it, the request and the line may each fail: the first ones with a notice, the line without a
word, as the error of `write_all` is dropped (`LineIsLost`). Sizes and formats are
accepted or refused. `rebuild_image_protocols` is left out: the font size it depends on never changes.

## 3. The runs

| Run | Shows | Bounds |
|---|---|---|
| `ServerSafety` | `LostOnlyInTextGap`, `LiveOrderAgrees`, `LatestRoomIsLive`, `MemberChannelsAreLive`, `SubscriptionsAreKept`, `RefinesRoomMap` | two users, one connection each, two lines, two messages, no failure; they are new, or were in two channels, or in their DM |
| `ServerReturn` | `LostOnlyInTextGap`, `OneEntryPerUser`, `NoTraceAfterDisconnect`, `DmDelivered` | two new users, one of whom comes back on a second connection; one failing statement, the look-up of a room's id included, or one restart, one line, fairness of the handlers |
| `Logins` | `HasAdmin`, `OwnPassword`, `AttemptsBounded`, `LocksLapse`, `OwnerGetsIn` | three login screens, two of one name, an empty table or one where that name has a row, two passwords, a limit of two attempts, any number of wrong passwords, one failing statement, fairness |
| `Admission` | `SendsBounded`, `LimitsLapse`, `MuteStopsTexts`, `BannedStaysOut`, `AuditAgrees`, `PeersAreServed` | two connections of an administrator, who may mute and ban himself and another, banned before; one command, one failure or restart, limits of two connections and one text |
| `Connection` | `LinesKeepTheirOrder`, `MessagesKeepTheirOrder`, `PresenceIsShown`, `OthersAreServed` | two sessions of one user, the client of one may stop reading, two lines of the other, one failure: a panic, a Redis command, a connection to Redis; fairness |
| `ReadReceipts` | `TypeOK`, `ReadMeansShown`, `UnreadIsMarked`, `ReceiptArrives` | two users, two channels and a refused name, one user still connecting, three lines, fairness |
| `PlaybackReports` | `OneAtATime`, `BarsOfPlayingNote`, `EndIsShown` | two notes, two playbacks, which may be of one note, fairness |
| `RoomsSettled` | `TypeOK`, `CurrentInRooms` | all commands, four lines, refused names, a user without a channel |
| `MediaUploads` | `PostedIsServed`, `MixedOnlyByOverlap`, `TalkNeedsKey`, `TakeIsKept`, `UploadsEnd`, `ImagesAreShown` | two recordings or uploads that may overlap at every step, one failure, one failing fetch, fairness; release events |

The comment over each property says what it claims and of which code. `TypeOK` is a
theorem of the modules that have proofs, and checked by the runs of `ActiveRoom` and
`ReadReceipts`. That `OneEntryPerUser` and `NoTraceAfterDisconnect` also hold while two
connections of a user overlap is the theorems' part; what then goes wrong is shown by
`ServerTwoConnections`.

**Why the bounds are enough.** A hazard here takes two actors: two connections, a
connection and a sender, a task and the event loop. Two users with two or three connections,
two lines and two messages let every pair of handlers run in full and interleave at every
statement, and the third connection is the reconnect. The history limit is 1 instead
of 50, so that it is reached; in `ReadReceipts`, with three messages at most, it is not. The
limit of attempts is 2 instead of 3, those of connections and texts 2 and 1 instead of 20:
each is reached and passed, and a window may end at any time. `MaxFailures` (in `ChatServer`, statements and
restarts together) and `MaxFaults` let one failure strike at any statement. One command is
enough in `Admission`, as its effect meets every step of the other connection, and one before it
is in `StartBans`. `Ttl` is 2 heartbeats instead of the code's 30 seconds over 10, so that one may fail or
come late and the next still save the key; `Window` 1 makes the second frame wait, two lines of two pieces
let a cancelled read spoil the first and the next come after it; one failure can lose a session's Redis
connection for good, which lets its key lapse with the session alive. `MaxBins` 1 lets a bin of an
earlier playback wait in the channel. `MaxLines` is 4 in `ActiveRoom`,
where a divergence takes up to three lines. Connections, playbacks
and uploads are each used once, and the sessions end; so deadlock is not checked
(`CHECK_DEADLOCK FALSE`) but in `Admission`, where clients dial again for ever.

**Runs that find a violation.** Each is a disagreement of the code with what its own
documents or messages say.

| Run | Property | What happens |
|---|---|---|
| `ServerTwoConnections` | `ConnectedUserIsLive` | the clean-up of an older connection removes the newer one (`connection.rs:58`) |
| `MuteBypassed` | `MutedCannotSend` | a muted user goes on with /msg, /image or /audio (`connection.rs:82`, against `messages.rs:24`) |
| `RoomsMisrouted` | `RoutedWhereShown` | after a /leave, a refused /join or two quick ones the views differ (`tui/commands.rs:59`) |

Some more are not runs of their own. When the id of a DM room is not found, the code takes that of the
default room (`app_state.rs:148`): a DM is stored among that room's messages and replayed to whoever enters it
(`RoomIdFails`). A second recording may be encoded into the file the first one's task has not read yet
(`audio.rs:317`), which then uploads a part or a mixture; `MixedOnlyByOverlap` says that nothing else does that.
With three connections a room may be replayed to
a connection that is not in it: a /msg that read the tx of an earlier, closed connection takes the newer
one's entry in the DM (`commands.rs:82`), the newer one then replays the DM without being subscribed,
is subscribed by a later /msg without a replay, and misses a message that was stored in between. The
proof of `LostOnlyInTextGap` found it, as the property once spoke of these replays too; it
speaks of a room that is replayed on the way into it (`Enters`). And the login screen sends /register when the
last notice contains "Register", and goes back to /login after any other. A newcomer whose
password is too short gets "Password must be at least 8 characters.", and every further line is
answered "Use /register first.", in lower case (`auth.rs:134`, `login.rs:89`): that screen never gets
its user in. `OwnerGetsIn` is about users who have a row; the run has no short passwords.

**What the constants exclude.** Some properties hold only in the environment their run
assumes. Changing the constant in the run's configuration makes TLC show why:

| Run | Change | Then | Because |
|---|---|---|---|
| `ServerTwoConnections` | `Overlap = FALSE`, `MaxLines = 1`, `MaxMessages = 1` | `ConnectedUserIsLive` is violated still | a /msg subscribes its target with the sender of a connection that has ended since (`commands.rs:82`) |
| `RoomsSettled` | `Settled = FALSE`, `StartRooms <- MCStart` | `CurrentInRooms` is violated | the SetActiveRoom of the connect may come after the room was left (`server_msg.rs:276`) |
| `MediaUploads` | `ReleaseEvents = FALSE` | `TalkNeedsKey` is violated | no release event comes, and the recording goes on (`input.rs:133`) |

`AttemptsBounded` says by how much: two connections that pass the check together count one
attempt more than the limit (`auth.rs:91`). `ImagesAreShown` excludes failed fetches, which
nothing repeats (`render.rs:383`). `OwnerGetsIn` has as its premise that the wrong passwords on the name
stop at some time: nothing in the code bounds those of other connections, which lock the name again
after every lapse (`auth.rs:91-124`), and without the premise TLC finds that. It and `LocksLapse` also say
nothing once a statement has failed: the task may end between INCR and EXPIRE, and the lock then has no end
(`auth.rs:124`), which TLC finds when `faults = 0` is taken out of `LocksLapse`. `PresenceIsShown`
excuses a session none of whose heartbeats has set the key for the whole life of the key, because its
task was held up or because SETEX failed each time, which the code ignores (`connection.rs:256`); a
single late or failed heartbeat is not excused. `LostOnlyInTextGap` leaves out what follows a room id that was not
found (`RoomIdFails`): such a replay brings the default room's messages, and such a row is stored there.
`UploadsEnd` counts a lost line as an end. `LimitsLapse` claims nothing more once the server has ended.

**Fairness.** `ServerReturn`: weak fairness of each connection's handler steps, since
tokio polls a task whose statement has returned; it assumes that clients go on reading, as
a task awaits its own writes. Nothing makes a client send. `Admission`: the accept loop alone,
and not its handshake: the code has no timeout there, so `PeersAreServed` claims something only if
no peer keeps the loop waiting for ever. `Connection`: tasks are polled; select! polls its branches
in random order, so a branch that is ready again and again is taken (strong fairness of the queue
and of the reads); a client reads unless it is one of those that may stop. `ReadReceipts`: each
event loop drains its channel and each task handles its lines. `Logins`: the tasks are polled,
Redis lets keys expire, and each user enters the right password again and again, however many wrong
ones come in between.
`PlaybackReports`: notes end, the ticker and the event loop go round (the loop polls keys for
16 ms at most). `MediaUploads`: tasks of client and server are polled, requests end, and a
client that shows a room draws it.

## 4. What is proved

| Theorem | For every value of the constants |
|---|---|
| `TypeCorrect`, `OneEntry`, `NoTrace` (ChatServer) | types; one entry per user and room; nothing left of a closed connection but perhaps in a DM room |
| `RegistryIsMap` | `RefinesRoomMap`: every call is a step of the abstract registry, or none |
| `SubscriptionsLast` | `SubscriptionsAreKept`: who takes an entry out of a room |
| `LiveOrder` | `LiveOrderAgrees`: live messages come in one order to everyone, in whatever rooms |
| `NoGapButTexts` | `LostOnlyInTextGap`: no stored message falls between subscription and replay, but a text; replays and rows whose room id was not found count for no room |
| `MembersAreLive` | `MemberChannelsAreLive`, without `Overlap` and while no statement has failed |
| `LatestIsLive` | `LatestRoomIsLive`, likewise, while no pending /msg holds the sender of an earlier connection (`NoStaleSender`) |
| `LatestIsLiveOnFirstConnection` | the same where every user connects once, with no premise on /msg |
| `AuthTypeCorrect`, `AdminExists`, `OnlyOwnersGetIn` | types; an admin exists once a row does; only the row's password opens a name |
| `AttemptsAreBounded`, `LocksEnd` | fewer than Limit + connections + failures attempts are counted in a window; while none has failed locks have an end |
| `AdmissionTypeCorrect`, `BannedStayOut`, `LimitsEnd`, `LogAgrees` | types; nobody passes the ban check after the ban; counters end unless a failure fell between INCR and EXPIRE; the audit log agrees with what was done |
| `SendsStayBounded`, `MutesStopTexts` | a window lets the limit of texts and one per connection through; a mute at most one text per connection, and one more if its query failed; nothing is claimed of /msg, /image and /audio |
| `ConnectionTypeCorrect`, `PresenceHolds`, `LinesInOrder`, `MessagesInOrder` | types; the presence key, unless no heartbeat set it for its whole life or another session's end took it; the order of the lines; the order of the messages, each once, up to the client |
| `ReceiptsTypeCorrect`, `ReceiptsAreTrue`, `UnreadMarksAreTrue` | types; `ReadMeansShown`: a receipt names what its reader had on its screen; `UnreadIsMarked`: flags and marked rooms against what has been on the screen |
| `ActiveRoomTypeCorrect`, `ScreenIsInSidebar` | types, and no list of rooms is empty; once the frames of the connect are handled (`Settled`), the room on the screen is in the sidebar |
| `PlaybackTypeCorrect`, `NotesPlayOneAtATime`, `BarsAreOfPlayingNote` | the player |
| `MediaTypeCorrect`, `AnnouncedIsServed`, `RecordingIsKept` | types; announced attachments are served; a recording is not replaced |
| `TalkStopsOnRelease` | where releases are reported, no recording begun with the key outlasts it |
| `UploadsMixOnlyByOverlap` | `MixedOnlyByOverlap`: an upload is the whole of its own recording unless another encoder had the file open meanwhile, and has nothing of a recording whose task did not overlap with its own |

They rest on the named assumptions of the modules (`ServerAssumption`, `AuthAssumption`,
`AdmissionAssumption`, `ConnectionAssumption`, `ReceiptsAssumption`, `ActiveRoomAssumption`, `PlaybackAssumption`, `MediaAssumption`), which TLC evaluates in each run.

The arguments:

* `TypeCorrect` carries with it that every pending call of `todo[s]` is one that `s` may
  make (`CallsOf`): it acts for its own user, and subscribes with a tx of the user it
  subscribes. Without it, a step could file a connection under a stranger.
* `NoTrace` needs more than its conclusion: `StageInv` says where in its life a connection
  is, and `WindingDown` that a connection past leave_all has no call left that could bring its tx back,
  and that no other task holds that tx outside a DM.
* `RegistryIsMap` needs `EntriesAreNamed`: the CHOOSE of the refinement mapping names the one entry a
  user has in a room, which is `OneEntryPerUser`. A send hears everyone in the room at once, as each
  call is under one lock; leave notices and signals leave the abstract state alone.
* `LiveOrder` and `NoGapButTexts` rest on `QueueInv`: which call of a handler may come before which
  (`After`), and which message it carries. A message is pending in one task, heard by nobody before its
  send and stored nowhere before its INSERT; so it is heard after all that was heard before (`Grows`). For the
  gap, `ReplayedLive` says that a room replayed on the way into it is live, `RowsGot` that its rows are
  there, live or replayed, and `SentGot` the same of a text between its send and its INSERT, which is what
  makes `RowsGot` inductive.
* `MembersAreLive` carries `ChannelInv`: a connection is `Ready` for each channel of its user (live, or its
  own subscribe is pending) and for each it is about to save. That breaks when the row is saved and the
  statement that should have removed it fails, or when another connection of the user leaves the room: hence
  `faults = 0` and no `Overlap`, which are the premises of the property's run as well. Restarts are allowed.
* `LatestIsLive` adds DM rooms, which other tasks save and subscribe for the user (`LatestInv`): the latest
  room is one the connection is ready for, or its own task has still to read it, or a /msg has
  still to look up or to subscribe the user. One thing breaks it, a /msg that passes on the tx of a connection
  that has ended since (`commands.rs:82`, the first row of the table above); `NoStaleSender` names it.
* `AdminExists` and `OnlyOwnersGetIn` share `TableInv`: a connection about to insert as
  "user" has seen a row, and one about to open a session holds the row's password.
* `AttemptsAreBounded` counts the connections that have passed the check and not yet
  incremented: attempts plus those stay below the bound.
* Admission: types need `Queue`, that a connection waits at one place at most. A limit and a mute
  are about texts under way: `Bounded` counts those between INCR and send with those sent, and
  `Silent` those past the gate with those spoken, so that a send changes neither sum.
  `LogAgrees` counts a row pending in a handler as one half written.
* Connection: `Shown` says that the heartbeats since the key was set and those it has left make up
  its life; a failed SETEX changes neither. `Lines` numbers the pieces: `Consumed(c)` of them are taken, which is twice the lines handled, and
  one more in the middle of a line; so what a handler holds has that line's number. `Flow` takes a
  session's socket, the writer's frame and the queue as one sequence: the client's read shortens it in
  front, a post lengthens it by the next number, an answer comes in between the messages and the other
  steps move its borders only.
* ReadReceipts: types need `GeneralStays`: nobody leaves the general room, so that a
  room list is never empty. `History` is a recursive function over what was posted; that its values are
  sets of messages is an induction, made first-order by the pigeonhole principle (`ReachedFromZero`).
  Receipts are true one step at a time: a step reports what it has just put on the screen or what was there
  (`ClientTells`), and the server passes on what a line says (`ServerTells`), so nothing needs to be
  known of what lies between. The marks need `MarksInv`: a text reaches a client live at most once, and
  before any history brings it (`Fresh`), or one that was read could be flagged again; and a flag's
  room is marked until it is entered (`Marked`).
* ActiveRoom: a /leave looks for its next room in what is left of the sidebar, so the types need that
  no list on the way to the client is empty; `OnlyLists` says that a settled client gets room
  lists only, and each of them puts the current room right.
* Playback: every playback that ever started is flagged or current, and one that has not
  started has no ticker and no bins.
* Media: `Stored` says what the upload server has at each stage. `FileInv` says of every task that
  uses the temporary file what the file holds: parts of its own recording and of those that lapped it, and
  all that was written of its own if none did; that two tasks on the file have lapped each other makes it
  inductive.

Only model-checked: the liveness properties, as TLAPS has no fairness and no ENABLED. Every
invariant and action property of a passing run is a theorem, and with it what the runs leave out: `RefinesRoomMap`
with failures and restarts, and the login with a client that may send anything (`Spec` of `Auth`), short
passwords included. `ConnectedUserIsLive`, `MutedCannotSend` and `RoutedWhereShown` are violated.

## 5. The plan

Done, in this order: the registry and the connections (the core of the system, with its
abstract specification), authentication, the player, the room view, uploads; then receipts,
admission with moderation and limits, and the session's select! loop with presence.

To come: names of DM rooms and scroll arithmetic as operators over bounded inputs; the cached list
of users and the typing keys.

## 6. What is not modelled

Drawing, themes and animations; scrolling and hit testing, whose heights depend on the layout
of the text; the list of users online, cached for two seconds, and the typing keys, which
no other part reads; transport and certificates; start-up (migrations, the default room, the
upload listener); the trial programs under `src/bin`; deployment files, except the restart of
the server. Connections come from one address in `Admission`.

Hazards that no property covers, for the reasons given:

* An older room list may come last and hide a new DM from the sidebar (`rooms.rs:13`), and the
  report of a stopped playback may take a later one of the same note off the screen
  (`server_msg.rs:247`). The code prevents neither, and the models have the steps.
* The height of a long room is a sum of u16 (`server_msg.rs:235`): scrolling is not modelled.
* The line that announces an upload may be lost with the connection, and nobody is told
  (`audio.rs:344`, `commands.rs:135`, `image.rs:118`): `LineIsLost` is in the model, and the code does
  nothing about it.
* Names may hold underscores, so that the name of a DM room may stand for two pairs of users
  (`message.rs:84`): in the models a DM room is the pair.

No document takes a side on an upload that ends after the user has changed
rooms, which is posted in the room active then, nor on a DM membership other than the latest,
which may stay unsubscribed when /leave of it crosses two incoming messages.

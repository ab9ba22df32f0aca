----------------------------- MODULE Admission -----------------------------
(***************************************************************************)
(* Who gets in and who may speak: the accept loop with its limit per       *)
(* address, the ban check, the role a session is given, the gates of a     *)
(* text (mute, limit per user), the commands that send a message without   *)
(* passing them, and the administrators' commands.                         *)
(*                                                                         *)
(* A step is one awaited call: a Redis command, a statement, a socket      *)
(* operation.  Two connections of one user, an administrator and the clock *)
(* of Redis therefore meet in every order.  Each statement may fail once,  *)
(* with the outcome its caller gives it, and the process may end and be    *)
(* started again (docker-compose.yml) with Redis and the database kept.    *)
(*                                                                         *)
(* Passwords are Auth, rooms and delivery are ChatServer.  All connections *)
(* come from one address.                                                  *)
(***************************************************************************)
EXTENDS Naturals, Sequences, FiniteSets

CONSTANTS
  Conns, Users,
  Owner,         \* the name each connection sends
  Admins,        \* users.role = 'admin'
  Targets,       \* users the administrators act on
  Talkers,       \* users who send texts and messages by command
  StartBans,     \* the names banned on an earlier day
  AddrLimit,     \* connections of one address in a window (the code: 20)
  TextLimit,     \* texts of one user in a window (the code: 20)
  MaxCommands,   \* bound on the administrators' commands
  MaxFaults      \* bound on the failures

Address == "address"   \* the key of the address, besides those of the users

ASSUME AdmissionAssumption ==
  /\ Conns # {} /\ IsFiniteSet(Conns) /\ IsFiniteSet(Users)
  /\ Owner \in [Conns -> Users] /\ Address \notin Users
  /\ Admins \subseteq Users /\ Targets \subseteq Users /\ Talkers \subseteq Users /\ StartBans \subseteq Users
  /\ AddrLimit \in Nat \ {0} /\ TextLimit \in Nat \ {0}
  /\ MaxCommands \in Nat /\ MaxFaults \in Nat

VARIABLES
  up,             \* is the server process running?
  backlog,        \* connections the system holds for listener.accept()
  pc, peer,       \* the accept loop: its place, and the connection in its hands
  stage,          \* where each connection is
  role,           \* user_role of each session
  pending,        \* the audit row a command has still to write, if any
  conn_ratelimit, \* Redis: the counter of the address ...
  ratelimit,      \* ... the counter of each user's texts ...
  expires,        \* ... the counters that have a time to live ...
  muted,          \* ... and the muted names
  bans, audit_log,
  commands, failed, \* bounds: the commands so far, and what failed
  passed,         \* history: texts of each user sent in its window
  spoken,         \* history: texts sent under the mute in force
  posted,         \* history: who sent a message by command under it
  grace,          \* history: connections at the login when their ban came
  done            \* history: how often each command took effect

loop  == <<up, backlog, pc, peer>>
redis == <<conn_ratelimit, ratelimit, expires, muted>>
db    == <<bans, audit_log>>
admin == <<pending, commands>>
ghost == <<passed, spoken, posted, grace, done>>
vars  == <<loop, stage, role, admin, redis, db, failed, ghost>>

None    == "none"
Kinds   == {"mute", "unmute", "ban", "unban"}
Rows    == Kinds \X Users
Stages  == {"off", "queued", "held", "named", "login",
            "open", "gate", "count", "expire", "send", "audit"}
\* What a failure costs: the request at hand, the mute check, a time to live,
\* an audit row, or every connection.
Failures == {"request", "gate", "expire", "audit", "server"}

Of(u)      == {c \in Conns : Owner[c] = u}
In(places) == {c \in Conns : stage[c] \in places}

Init ==
  /\ up = TRUE /\ backlog = <<>> /\ pc = "accept" /\ peer = None
  /\ stage = [c \in Conns |-> "off"]
  /\ role = [c \in Conns |-> "user"]
  /\ pending = [c \in Conns |-> {}]
  /\ conn_ratelimit = 0
  /\ ratelimit = [u \in Users |-> 0]
  /\ expires = {}
  /\ muted = {} /\ bans = StartBans
  /\ audit_log = [r \in Rows |-> 0]
  /\ commands = 0 /\ failed = {}
  /\ passed = [u \in Users |-> 0]
  /\ spoken = [u \in Users |-> 0]
  /\ posted = {} /\ grace = {}
  /\ done = [r \in Rows |-> 0]

Goto(c, place) == stage' = [stage EXCEPT ![c] = place]

Works == UNCHANGED failed

\* A statement fails: its connection was lost, or the store refused it.
Fails(cost) ==
  /\ Cardinality(failed) < MaxFaults
  /\ cost \notin failed
  /\ failed' = failed \cup {cost}

\* INCR; what is above the limit by one stands for everything above it.
Incr(count, limit) == IF count > limit THEN count ELSE count + 1

-----------------------------------------------------------------------------
\* A client dials the server.
Dial(c) ==
  /\ up /\ stage[c] = "off"
  /\ backlog' = Append(backlog, c)
  /\ Goto(c, "queued")
  /\ UNCHANGED <<up, pc, peer, role, admin, redis, db, failed, ghost>>

\* Wrong: the latest connection first.
AcceptLatest ==
  /\ up /\ pc = "accept" /\ backlog # <<>>
  /\ peer' = backlog[Len(backlog)]
  /\ backlog' = SubSeq(backlog, 1, Len(backlog) - 1)
  /\ pc' = "incr"
  /\ Goto(peer', "held")
  /\ UNCHANGED <<up, role, admin, redis, db, failed, ghost>>

\* listener.accept().await
Accept ==
  /\ up /\ pc = "accept" /\ backlog # <<>>
  /\ peer' = Head(backlog)
  /\ backlog' = Tail(backlog)
  /\ pc' = "incr"
  /\ Goto(peer', "held")
  /\ UNCHANGED <<up, role, admin, redis, db, failed, ghost>>

\* The loop lets the connection in its hands go: refused, or spawned.
Release(place) ==
  /\ pc' = "accept" /\ peer' = None
  /\ Goto(peer, place)
  /\ UNCHANGED <<up, backlog>>

\* Wrong: the time to live is set when the limit is reached.
CountAddressLate ==
  /\ up /\ pc = "incr"
  /\ conn_ratelimit' = Incr(conn_ratelimit, AddrLimit)
  /\ IF conn_ratelimit' > AddrLimit
     THEN Release("off")
     ELSE /\ pc' = IF conn_ratelimit' = AddrLimit THEN "expire" ELSE "tls"
          /\ UNCHANGED <<up, backlog, peer, stage>>
  /\ UNCHANGED <<role, admin, ratelimit, expires, muted, db, failed, ghost>>

\* INCR conn_ratelimit:<ip>; the first of a window gets its EXPIRE next.
CountAddress ==
  /\ up /\ pc = "incr"
  /\ conn_ratelimit' = Incr(conn_ratelimit, AddrLimit)
  /\ IF conn_ratelimit' > AddrLimit
     THEN Release("off")
     ELSE /\ pc' = IF conn_ratelimit' = 1 THEN "expire" ELSE "tls"
          /\ UNCHANGED <<up, backlog, peer, stage>>
  /\ UNCHANGED <<role, admin, ratelimit, expires, muted, db, failed, ghost>>

ExpireAddress ==
  /\ up /\ pc = "expire"
  /\ expires' = expires \cup {Address}
  /\ pc' = "tls"
  /\ UNCHANGED <<up, backlog, peer, stage, role, admin, conn_ratelimit, ratelimit,
                 muted, db, failed, ghost>>

\* acceptor.accept(socket).await, in the loop: Ok spawns the task, Err drops
\* the connection, and a peer that never answers keeps the loop waiting.
Handshake ==
  /\ up /\ pc = "tls"
  /\ \E place \in {"named", "off"} : Release(place)
  /\ UNCHANGED <<role, admin, redis, db, failed, ghost>>

\* The process ends: it is killed, or an unwrap of the accept loop fails.
Crash ==
  /\ up /\ Fails("server")
  /\ up' = FALSE /\ backlog' = <<>> /\ pc' = "accept" /\ peer' = None
  /\ stage' = [c \in Conns |-> "off"]
  /\ pending' = [c \in Conns |-> {}]
  /\ grace' = {}
  /\ UNCHANGED <<role, commands, redis, db, passed, spoken, posted, done>>

\* restart: unless-stopped
Restart ==
  /\ ~up /\ up' = TRUE
  /\ UNCHANGED <<backlog, pc, peer, stage, role, admin, redis, db, failed, ghost>>

-----------------------------------------------------------------------------
\* Wrong: a failed query counts as not banned.
CheckBannedFailsOpen(c) ==
  /\ stage[c] = "named"
  /\ \/ /\ Works
        /\ Goto(c, IF Owner[c] \in bans THEN "off" ELSE "login")
     \/ /\ Fails("request")
        /\ Goto(c, "login")
  /\ UNCHANGED <<loop, role, admin, redis, db, ghost>>

\* check_banned unwraps: when the statement fails the task ends, unserved.
CheckBanned(c) ==
  /\ stage[c] = "named"
  /\ \/ /\ Works
        /\ Goto(c, IF Owner[c] \in bans THEN "off" ELSE "login")
     \/ /\ Fails("request")
        /\ Goto(c, "off")
  /\ UNCHANGED <<loop, role, admin, redis, db, ghost>>

\* authenticate_user returned true, and the session is given its role; a
\* failed query makes anyone a user.
Enter(c) ==
  /\ stage[c] = "login"
  /\ \/ /\ Works
        /\ role' = [role EXCEPT ![c] = IF Owner[c] \in Admins THEN "admin" ELSE "user"]
     \/ /\ Fails("request")
        /\ role' = [role EXCEPT ![c] = "user"]
  /\ Goto(c, "open")
  /\ grace' = grace \ {c}
  /\ UNCHANGED <<loop, admin, redis, db, passed, spoken, posted, done>>

\* The client is gone, or gave up: read_line returns 0.
Close(c) ==
  /\ stage[c] \in {"named", "login", "open"}
  /\ Goto(c, "off")
  /\ grace' = grace \ {c}
  /\ UNCHANGED <<loop, role, admin, redis, db, failed, passed, spoken, posted, done>>

-----------------------------------------------------------------------------
(* handle_regular_message *)

Text(c) ==
  /\ stage[c] = "open" /\ Owner[c] \in Talkers
  /\ Goto(c, "gate")
  /\ UNCHANGED <<loop, role, admin, redis, db, failed, ghost>>

\* Wrong: a mute does not hold for an administrator.
CheckMutedUnlessAdmin(c) ==
  /\ stage[c] = "gate"
  /\ \/ /\ Works
        /\ Goto(c, IF Owner[c] \in muted /\ role[c] # "admin" THEN "open" ELSE "count")
     \/ /\ Fails("gate")
        /\ Goto(c, "count")
  /\ UNCHANGED <<loop, role, admin, redis, db, ghost>>

\* GET muted:<name>; an error counts as not muted (.ok()).
CheckMuted(c) ==
  /\ stage[c] = "gate"
  /\ \/ /\ Works
        /\ Goto(c, IF Owner[c] \in muted THEN "open" ELSE "count")
     \/ /\ Fails("gate")
        /\ Goto(c, "count")
  /\ UNCHANGED <<loop, role, admin, redis, db, ghost>>

\* Wrong: above the limit the user is warned, and the line goes out.
CountTextWarns(c) ==
  LET count == Incr(ratelimit[Owner[c]], TextLimit)
  IN  /\ stage[c] = "count"
      /\ \/ /\ Works
            /\ ratelimit' = [ratelimit EXCEPT ![Owner[c]] = count]
            /\ Goto(c, IF count = 1 THEN "expire" ELSE "send")
         \/ /\ Fails("request")
            /\ UNCHANGED ratelimit
            /\ Goto(c, "off")
      /\ UNCHANGED <<loop, role, admin, conn_ratelimit, expires, muted, db, ghost>>

\* INCR ratelimit:<name>, unwrapped; above the limit the line is dropped.
CountText(c) ==
  LET count == Incr(ratelimit[Owner[c]], TextLimit)
  IN  /\ stage[c] = "count"
      /\ \/ /\ Works
            /\ ratelimit' = [ratelimit EXCEPT ![Owner[c]] = count]
            /\ Goto(c, CASE count = 1 -> "expire"
                         [] count > TextLimit -> "open"
                         [] OTHER -> "send")
         \/ /\ Fails("request")
            /\ UNCHANGED ratelimit
            /\ Goto(c, "off")
      /\ UNCHANGED <<loop, role, admin, conn_ratelimit, expires, muted, db, ghost>>

\* EXPIRE, of which the outcome is ignored.
ExpireTexts(c) ==
  /\ stage[c] = "expire"
  /\ \/ /\ Works
        /\ expires' = expires \cup {Owner[c]}
     \/ /\ Fails("expire")
        /\ UNCHANGED expires
  /\ Goto(c, "send")
  /\ UNCHANGED <<loop, role, admin, conn_ratelimit, ratelimit, muted, db, ghost>>

\* send_to_room, then the INSERT, whose failure ends the task.
Send(c) ==
  /\ stage[c] = "send"
  /\ \/ Works /\ Goto(c, "open")
     \/ Fails("request") /\ Goto(c, "off")
  /\ passed' = [passed EXCEPT ![Owner[c]] = @ + 1]
  /\ spoken' = [spoken EXCEPT ![Owner[c]] = IF Owner[c] \in muted THEN @ + 1 ELSE @]
  /\ UNCHANGED <<loop, role, admin, redis, db, posted, grace, done>>

\* handle_msg_command, handle_image_command, handle_audio_command: neither the
\* mute nor the limit is looked at.  A failure ends the task before a /msg is
\* sent, and is ignored for the others; no other call here touches this state.
SendByCommand(c) ==
  /\ stage[c] = "open" /\ Owner[c] \in Talkers
  /\ \/ /\ Works \/ Fails("request")
        /\ posted' = posted \cup ({Owner[c]} \cap muted)
        /\ Goto(c, "open")
     \/ /\ Fails("request") /\ Goto(c, "off")
        /\ UNCHANGED posted
  /\ UNCHANGED <<loop, role, admin, redis, db, passed, spoken, grace, done>>

-----------------------------------------------------------------------------
(* The administrators' commands: first the effect, then the audit row. *)

Command(c) ==
  /\ stage[c] = "open" /\ role[c] = "admin"
  /\ commands < MaxCommands
  /\ commands' = commands + 1

\* The rest of the handler: answer, then write the row.
Record(c, kind, u) ==
  /\ pending' = [pending EXCEPT ![c] = {<<kind, u>>}]
  /\ Goto(c, "audit")

Took(kind, u) == done' = [done EXCEPT ![<<kind, u>>] = @ + 1]

\* The outcome of SETEX is ignored: nothing is muted when it fails, as it does
\* for /mute <name> 0, and the row is written all the same.
handle_mute_command(c, u) ==
  /\ Command(c) /\ Record(c, "mute", u)
  /\ \/ /\ Works
        /\ muted' = muted \cup {u}
        /\ Took("mute", u)
     \/ /\ (Works \/ Fails("request"))
        /\ UNCHANGED <<muted, done>>
  /\ UNCHANGED <<loop, role, conn_ratelimit, ratelimit, expires, db,
                 passed, spoken, posted, grace>>

handle_unmute_command(c, u) ==
  /\ Command(c) /\ Record(c, "unmute", u)
  /\ \/ /\ Works /\ muted' = muted \ {u} /\ Took("unmute", u)
        /\ spoken' = [spoken EXCEPT ![u] = 0] /\ posted' = posted \ {u}
     \/ Fails("request") /\ UNCHANGED <<muted, spoken, posted, done>>
  /\ UNCHANGED <<loop, role, conn_ratelimit, ratelimit, expires, db, passed, grace>>

\* Wrong: the row is written whatever became of the INSERT.
handle_ban_records_always(c, u) ==
  /\ Command(c) /\ Record(c, "ban", u)
  /\ \/ /\ Works /\ u \notin bans
        /\ bans' = bans \cup {u}
        /\ grace' = grace \cup (Of(u) \cap In({"login"}))
        /\ Took("ban", u)
     \/ /\ (Works /\ u \in bans) \/ Fails("request")
        /\ UNCHANGED <<bans, grace, done>>
  /\ UNCHANGED <<loop, role, redis, audit_log, passed, spoken, posted>>

\* The INSERT fails when the name is banned already (the primary key), and
\* the answer says the user is not registered.
handle_ban_command(c, u) ==
  /\ Command(c)
  /\ \/ /\ Works /\ u \notin bans
        /\ bans' = bans \cup {u}
        /\ grace' = grace \cup (Of(u) \cap In({"login"}))
        /\ Took("ban", u) /\ Record(c, "ban", u)
     \/ /\ (Works /\ u \in bans) \/ Fails("request")
        /\ UNCHANGED <<bans, grace, done, pending, stage>>
  /\ UNCHANGED <<loop, role, redis, audit_log, passed, spoken, posted>>

\* The DELETE is unwrapped.
handle_unban_command(c, u) ==
  /\ Command(c)
  /\ \/ /\ Works
        /\ bans' = bans \ {u}
        /\ grace' = grace \ Of(u)
        /\ Took("unban", u) /\ Record(c, "unban", u)
     \/ /\ Fails("request") /\ Goto(c, "off")
        /\ UNCHANGED <<bans, grace, done, pending>>
  /\ UNCHANGED <<loop, role, redis, audit_log, passed, spoken, posted>>

\* The INSERT into audit_log is unwrapped.
Audit(c) ==
  /\ stage[c] = "audit"
  /\ pending' = [pending EXCEPT ![c] = {}]
  /\ \/ /\ Works /\ Goto(c, "open")
        /\ audit_log' = [row \in Rows |-> IF row \in pending[c] THEN audit_log[row] + 1
                                                          ELSE audit_log[row]]
     \/ /\ Fails("audit") /\ Goto(c, "off")
        /\ UNCHANGED audit_log
  /\ UNCHANGED <<loop, role, commands, redis, bans, ghost>>

-----------------------------------------------------------------------------
(* The clock of Redis *)

LapseAddress ==
  /\ Address \in expires
  /\ conn_ratelimit' = 0
  /\ expires' = expires \ {Address}
  /\ UNCHANGED <<loop, stage, role, admin, ratelimit, muted, db, failed, ghost>>

\* A user's window ends.
LapseTexts(u) ==
  /\ u \in expires
  /\ ratelimit' = [ratelimit EXCEPT ![u] = 0]
  /\ expires' = expires \ {u}
  /\ passed' = [passed EXCEPT ![u] = 0]
  /\ UNCHANGED <<loop, stage, role, admin, conn_ratelimit, muted, db, failed,
                 spoken, posted, grace, done>>

LapseMute(u) ==
  /\ u \in muted
  /\ muted' = muted \ {u}
  /\ spoken' = [spoken EXCEPT ![u] = 0]
  /\ posted' = posted \ {u}
  /\ UNCHANGED <<loop, stage, role, admin, conn_ratelimit, ratelimit, expires, db,
                 failed, passed, grace, done>>

-----------------------------------------------------------------------------
AcceptLoop == Accept \/ CountAddress \/ ExpireAddress

Admit(c) == CheckBanned(c) \/ Enter(c)

handle_regular_message(c) ==
  Text(c) \/ CheckMuted(c) \/ CountText(c) \/ ExpireTexts(c) \/ Send(c)

Administer(c) ==
  \/ \E u \in Targets : \/ handle_mute_command(c, u) \/ handle_unmute_command(c, u)
                        \/ handle_ban_command(c, u) \/ handle_unban_command(c, u)
  \/ Audit(c)

Clock ==
  LapseAddress \/ \E u \in Users : LapseTexts(u) \/ LapseMute(u)

Next ==
  \/ AcceptLoop \/ Handshake \/ Crash \/ Restart \/ Clock
  \/ \E c \in Conns : \/ Dial(c) \/ Close(c) \/ Admit(c)
                      \/ handle_regular_message(c) \/ SendByCommand(c)
                      \/ Administer(c)

Spec == Init /\ [][Next]_vars

\* The accept loop runs when it need not wait; no peer need ever answer.
FairSpec == Spec /\ WF_vars(AcceptLoop)

-----------------------------------------------------------------------------
(* Properties *)

Counts(domain) == [domain -> Nat]

\* Every variable keeps its type, and no bound is passed.
TypeOK ==
  /\ up \in BOOLEAN /\ backlog \in Seq(Conns)
  /\ pc \in {"accept", "incr", "expire", "tls"}
  /\ peer \in Conns \cup {None} /\ (pc # "accept" => peer \in Conns)
  /\ stage \in [Conns -> Stages]
  /\ role \in [Conns -> {"admin", "user"}]
  /\ pending \in [Conns -> SUBSET Rows]
  /\ \A c \in Conns : IF stage[c] = "audit" THEN \E row \in Rows : pending[c] = {row}
                                            ELSE pending[c] = {}
  /\ conn_ratelimit \in 0 .. AddrLimit + 1
  /\ ratelimit \in [Users -> 0 .. TextLimit + 1]
  /\ expires \subseteq Users \cup {Address}
  /\ muted \subseteq Users /\ bans \subseteq Users
  /\ audit_log \in Counts(Rows) /\ done \in Counts(Rows)
  /\ failed \subseteq Failures /\ commands \in 0 .. MaxCommands
  /\ passed \in Counts(Users) /\ spoken \in Counts(Users)
  /\ posted \subseteq Users /\ grace \subseteq Conns

\* messages.rs: in one window of the limit a user gets at most the limit of
\* texts through, plus one for each connection that had been counted before
\* the window began and sent its text after.  /msg, /image and /audio are not
\* counted (SendByCommand).
SendsBounded ==
  \A u \in Users : passed[u] <= TextLimit + Cardinality(Of(u))

\* bin/server.rs and messages.rs, INCR then EXPIRE: a counter above zero has a
\* time to live, or the one who raised it from zero is about to give it one;
\* only a failure leaves a counter for ever.  Once the server has ended nothing
\* is claimed of any counter, and once an EXPIRE has failed nothing of the
\* users'.
LimitsLapse ==
  /\ conn_ratelimit > 0 =>
       Address \in expires \/ pc = "expire" \/ "server" \in failed
  /\ \A u \in Users : ratelimit[u] > 0 =>
       \/ u \in expires
       \/ \E c \in Of(u) : stage[c] = "expire"
       \/ failed \cap {"expire", "server"} # {}

\* handle_mute_command against handle_regular_message, which is all that looks
\* at a mute: once one is in force the user gets at most one text out on each
\* connection, that past the gate already, and one more if the gate's query
\* failed and let it through.  Of /msg, /image and /audio nothing is claimed.
MuteStopsTexts ==
  \A u \in muted :
    spoken[u] <= Cardinality(Of(u)) + (IF "gate" \in failed THEN 1 ELSE 0)

\* "You are muted and cannot send messages." (messages.rs): while a mute is in
\* force, no message of the user is taken up and sent by a command either.
MutedCannotSend == posted \cap muted = {}

\* handle_ban_command against check_banned: of a banned user only those
\* connections are still let in that had passed the check when the ban came;
\* no later dial, failed query or restart of the server brings another one
\* past it.
BannedStaysOut ==
  \A c \in In({"login"}) : Owner[c] \in bans => c \in grace

Pending(row) == Cardinality({c \in Conns : row \in pending[c]})

\* audit_log: a row about a ban or its end tells what was done; and all that
\* was done has its row, or a handler about to write it, unless that INSERT
\* failed or the server ended in between.
AuditAgrees ==
  \A row \in Rows :
    /\ row[1] \in {"ban", "unban"} => audit_log[row] + Pending(row) <= done[row]
    /\ failed \cap {"audit", "server"} = {} => done[row] <= audit_log[row] + Pending(row)

\* The accept loop serves the connections in turn: if no peer keeps the loop
\* in its handshake for ever, each connection that waits is taken.
PeersAreServed ==
  []<>(pc # "tls") => \A c \in Conns : stage[c] = "queued" ~> stage[c] # "queued"
=============================================================================

----------------------------- MODULE Connection -----------------------------
(***************************************************************************)
(* The select! loop of handle_connection, for several sessions: reading    *)
(* lines, writing what is queued in out_rx, and the presence heartbeat.    *)
(*                                                                         *)
(* One task does all three, and each only while it waits in select!: a     *)
(* handler that runs, or a write the client does not read, holds up the    *)
(* rest.  A line may arrive in two pieces; read_line is not cancel safe,   *)
(* so that a piece it has taken is lost when another branch completes.     *)
(* What a line does is ChatServer; here it answers, or posts a message.    *)
(***************************************************************************)
EXTENDS Naturals, Sequences, FiniteSets

CONSTANTS
  Conns, Users,
  Owner,       \* the user of each connection
  Stalled,     \* connections of clients that may stop reading
  Window,      \* frames a connection holds for a client that does not read
  Ttl,         \* life of a presence key, in heartbeats (the code: 30 s / 10 s)
  MaxLines,    \* bound: lines of each client
  MaxFaults    \* bound: statements and Redis commands that fail

ASSUME ConnectionAssumption ==
  /\ Owner \in [Conns -> Users] /\ Stalled \subseteq Conns
  /\ Window \in Nat \ {0} /\ Ttl \in Nat \ {0}
  /\ MaxLines \in [Conns -> Nat] /\ MaxFaults \in Nat

VARIABLES
  stage,      \* where the task of each connection is
  inbox,      \* pieces that arrived and read_line has not taken
  taken,      \* what the pending read_line has taken
  line,       \* the line in hand
  out_rx,     \* the queue of the session
  writing,    \* the frame being written, if any
  socket,     \* frames the client has not read
  eof,        \* has the client closed its side?
  broken,     \* has the session lost its connection to Redis?
  due,        \* is the heartbeat due?
  presence,   \* presence:<user>: heartbeats its key has left, 0 for no key
  sent,       \* bounded: pieces each client has sent
  faults,     \* bounded: what failed
  handled,    \* history: how many lines were handled
  queued,     \* history: how many messages were put into out_rx
  got,        \* history: how many of them the client has read
  missed,     \* history: heartbeats that came due since the key was last set
  erased      \* history: another session's end took the key since then

input  == <<inbox, taken, line>>
output == <<out_rx, writing, socket>>
clock  == <<due, presence, missed, erased>>
bounds == <<sent, faults, broken>>
seen   == <<handled, queued, got>>
vars   == <<stage, input, output, eof, clock, bounds, seen>>

Handlers == {"answer", "post"}
Served   == {c \in Conns : stage[c] \in {"select", "write"} \cup Handlers}

Pieces == {"head", "tail"}
Frames == {"message", "notice"} \X Nat  \* the messages of a session are numbered

Init ==
  /\ stage = [c \in Conns |-> "off"]
  /\ inbox = [c \in Conns |-> <<>>]
  /\ taken = [c \in Conns |-> <<>>]
  /\ line = [c \in Conns |-> <<>>]
  /\ out_rx = [c \in Conns |-> <<>>]
  /\ writing = [c \in Conns |-> <<>>]
  /\ socket = [c \in Conns |-> <<>>]
  /\ eof = [c \in Conns |-> FALSE]
  /\ broken = [c \in Conns |-> FALSE]
  /\ due = [c \in Conns |-> FALSE]
  /\ presence = [u \in Users |-> 0]
  /\ sent = [c \in Conns |-> 0] /\ faults = 0
  /\ handled = [c \in Conns |-> 0]
  /\ queued = [c \in Conns |-> 0]
  /\ got = [c \in Conns |-> 0]
  /\ missed = [c \in Conns |-> 0]
  /\ erased = [c \in Conns |-> FALSE]

Goto(c, place) == stage' = [stage EXCEPT ![c] = place]

\* A Redis command of a session fails: it is refused, or the connection is
\* lost, and each command after it fails as well.
RedisFails(c) ==
  \/ broken[c] /\ UNCHANGED <<faults, broken>>
  \/ /\ faults < MaxFaults
     /\ faults' = faults + 1
     /\ broken' \in {broken, [broken EXCEPT ![c] = TRUE]}

RedisWorks(c) == ~broken[c] /\ UNCHANGED <<faults, broken>>

\* SETEX presence:<user>
SetPresence(c) ==
  /\ presence' = [presence EXCEPT ![Owner[c]] = Ttl]
  /\ missed' = [missed EXCEPT ![c] = 0]
  /\ erased' = [erased EXCEPT ![c] = FALSE]

\* Logged in: the key is set, and the interval starts.  This SETEX is
\* unwrapped: if it fails there is no session.
Open(c) ==
  /\ stage[c] = "off"
  /\ Goto(c, "select")
  /\ SetPresence(c)
  /\ UNCHANGED <<input, output, eof, due, bounds, seen>>

-----------------------------------------------------------------------------
(* The client, and time *)

\* A line arrives piece by piece.
Send(c) ==
  /\ c \in Served /\ ~eof[c]
  /\ sent[c] < 2 * MaxLines[c]
  /\ sent' = [sent EXCEPT ![c] = @ + 1]
  /\ inbox' = [inbox EXCEPT ![c] =
       Append(@, <<sent[c] \div 2, IF sent[c] % 2 = 0 THEN "head" ELSE "tail">>)]
  /\ UNCHANGED <<stage, taken, line, output, eof, clock, faults, broken, seen>>

ClientReads(c) ==
  /\ ~eof[c] /\ socket[c] # <<>>
  /\ got' = [got EXCEPT ![c] = IF Head(socket[c])[1] = "message" THEN @ + 1 ELSE @]
  /\ socket' = [socket EXCEPT ![c] = Tail(@)]
  /\ UNCHANGED <<stage, input, out_rx, writing, eof, clock, bounds, handled, queued>>

Hangup(c) ==
  /\ c \in Served /\ ~eof[c]
  /\ eof' = [eof EXCEPT ![c] = TRUE]
  /\ socket' = [socket EXCEPT ![c] = <<>>]
  /\ UNCHANGED <<stage, input, out_rx, writing, clock, bounds, seen>>

\* Ten seconds pass, in which every task that waits in select! has run.
Tick ==
  /\ Conns # {} /\ \A c \in Conns : ~(stage[c] = "select" /\ due[c])
  /\ due' = [c \in Conns |-> c \in Served]
  /\ presence' = [u \in Users |-> IF presence[u] = 0 THEN 0 ELSE presence[u] - 1]
  /\ missed' = [c \in Conns |-> IF c \in Served /\ missed[c] < Ttl THEN missed[c] + 1
                                                               ELSE missed[c]]
  /\ UNCHANGED <<stage, input, output, eof, erased, bounds, seen>>

-----------------------------------------------------------------------------
(* The branches of select!; the one that completes drops the others.       *)

Cancel(c) == taken' = [taken EXCEPT ![c] = <<>>]

\* By what the line says, its handler answers the client or posts a message.
Dispatch(c) == \E handler \in Handlers : Goto(c, handler)

\* Wrong: the key is set when there is none.
HeartbeatNx(c) ==
  /\ stage[c] = "select" /\ due[c]
  /\ due' = [due EXCEPT ![c] = FALSE]
  /\ \/ /\ RedisWorks(c)
        /\ presence' = [presence EXCEPT ![Owner[c]] = IF @ = 0 THEN Ttl ELSE @]
        /\ missed' = [missed EXCEPT ![c] = 0]
        /\ erased' = [erased EXCEPT ![c] = FALSE]
     \/ RedisFails(c) /\ UNCHANGED <<presence, missed, erased>>
  /\ Cancel(c)
  /\ UNCHANGED <<stage, inbox, line, output, eof, sent, seen>>

\* The outcome of SETEX is ignored: when it fails the session goes on.
Heartbeat(c) ==
  /\ stage[c] = "select" /\ due[c]
  /\ due' = [due EXCEPT ![c] = FALSE]
  /\ \/ RedisWorks(c) /\ SetPresence(c)
     \/ RedisFails(c) /\ UNCHANGED <<presence, missed, erased>>
  /\ Cancel(c)
  /\ UNCHANGED <<stage, inbox, line, output, eof, sent, seen>>

Recv(c) ==
  /\ stage[c] = "select" /\ out_rx[c] # <<>>
  /\ writing' = [writing EXCEPT ![c] = <<Head(out_rx[c])>>]
  /\ out_rx' = [out_rx EXCEPT ![c] = Tail(@)]
  /\ Goto(c, "write") /\ Cancel(c)
  /\ UNCHANGED <<inbox, line, socket, eof, clock, bounds, seen>>

\* Wrong: what there is counts as a line.
TakePieceAsLine(c) ==
  /\ stage[c] = "select" /\ inbox[c] # <<>>
  /\ Head(inbox[c])[2] = "head"
  /\ line' = [line EXCEPT ![c] = <<Head(inbox[c])>>]
  /\ inbox' = [inbox EXCEPT ![c] = Tail(@)]
  /\ Dispatch(c) /\ Cancel(c)
  /\ UNCHANGED <<output, eof, clock, bounds, seen>>

\* read_line takes what there is, up to the end of a line.
TakePiece(c) ==
  /\ stage[c] = "select" /\ inbox[c] # <<>>
  /\ Head(inbox[c])[2] = "head"
  /\ taken' = [taken EXCEPT ![c] = Append(@, Head(inbox[c]))]
  /\ inbox' = [inbox EXCEPT ![c] = Tail(@)]
  /\ UNCHANGED <<stage, line, output, eof, clock, bounds, seen>>

ReadLine(c) ==
  /\ stage[c] = "select" /\ inbox[c] # <<>>
  /\ Head(inbox[c])[2] = "tail"
  /\ line' = [line EXCEPT ![c] = Append(@ \o taken[c], Head(inbox[c]))]
  /\ inbox' = [inbox EXCEPT ![c] = Tail(@)]
  /\ Dispatch(c) /\ Cancel(c)
  /\ UNCHANGED <<output, eof, clock, bounds, seen>>

\* At the end of the input what was taken is a line, if there is anything.
ReadRest(c) ==
  /\ stage[c] = "select" /\ eof[c] /\ inbox[c] = <<>> /\ taken[c] # <<>>
  /\ line' = [line EXCEPT ![c] = @ \o taken[c]]
  /\ Dispatch(c) /\ Cancel(c)
  /\ UNCHANGED <<inbox, output, eof, clock, bounds, seen>>

\* read_line returned 0: the loop ends, and cleanup_disconnect takes the key,
\* if the DEL does not fail, which is ignored.
End(c) ==
  /\ stage[c] = "select" /\ eof[c] /\ inbox[c] = <<>> /\ taken[c] = <<>>
  /\ Goto(c, "closed")
  /\ \/ /\ RedisWorks(c)
        /\ presence' = [presence EXCEPT ![Owner[c]] = 0]
        /\ erased' = [d \in Conns |-> (d \in Served /\ Owner[d] = Owner[c]) \/ erased[d]]
     \/ RedisFails(c) /\ UNCHANGED <<presence, erased>>
  /\ out_rx' = [out_rx EXCEPT ![c] = <<>>]
  /\ UNCHANGED <<input, writing, socket, eof, due, missed, sent, seen>>

-----------------------------------------------------------------------------
(* The handlers, and the writes *)

\* The line is done with: line.clear().
Handled(c) ==
  /\ handled' = [handled EXCEPT ![c] = @ + 1]
  /\ line' = [line EXCEPT ![c] = <<>>]

\* send_notice writes to the client at once.
Answer(c) ==
  /\ stage[c] = "answer" /\ Handled(c)
  /\ writing' = [writing EXCEPT ![c] = <<<<"notice", 0>>>>]
  /\ Goto(c, "write")
  /\ UNCHANGED <<inbox, taken, out_rx, socket, eof, clock, bounds, queued, got>>

\* Wrong: a send waits until the clients have room for it.
PostWaits(c) ==
  /\ stage[c] = "post" /\ Handled(c)
  /\ \A d \in Served : Len(socket[d]) < Window
  /\ queued' = [d \in Conns |-> IF d \in Served THEN queued[d] + 1 ELSE queued[d]]
  /\ out_rx' = [d \in Conns |-> IF d \in Served
                                 THEN Append(out_rx[d], <<"message", queued'[d]>>)
                                 ELSE out_rx[d]]
  /\ Goto(c, "select")
  /\ UNCHANGED <<inbox, taken, writing, socket, eof, clock, bounds, got>>

\* send_to_room: a send never waits, and one to a session that ended fails.
Post(c) ==
  /\ stage[c] = "post" /\ Handled(c)
  /\ queued' = [d \in Conns |-> IF d \in Served THEN queued[d] + 1 ELSE queued[d]]
  /\ out_rx' = [d \in Conns |-> IF d \in Served
                                 THEN Append(out_rx[d], <<"message", queued'[d]>>)
                                 ELSE out_rx[d]]
  /\ Goto(c, "select")
  /\ UNCHANGED <<inbox, taken, writing, socket, eof, clock, bounds, got>>

\* An unwrap fails in the handler, of a statement or of a Redis command: the
\* task ends, and nothing is cleaned up.
Panic(c) ==
  /\ stage[c] \in Handlers
  /\ \/ faults < MaxFaults /\ faults' = faults + 1
     \/ broken[c] /\ UNCHANGED faults
  /\ Goto(c, "closed")
  /\ line' = [line EXCEPT ![c] = <<>>]
  /\ out_rx' = [out_rx EXCEPT ![c] = <<>>]
  /\ UNCHANGED <<inbox, taken, writing, socket, eof, clock, sent, broken, seen>>

\* Wrong: what the client has no room for is dropped.
WriteOrDrop(c) ==
  /\ stage[c] = "write"
  /\ socket' = [socket EXCEPT ![c] = IF eof[c] \/ Len(@) >= Window THEN @ ELSE @ \o writing[c]]
  /\ writing' = [writing EXCEPT ![c] = <<>>]
  /\ Goto(c, "select")
  /\ UNCHANGED <<input, out_rx, eof, clock, bounds, seen>>

\* write_all, which fails at once when the client is gone.
Write(c) ==
  /\ stage[c] = "write"
  /\ eof[c] \/ Len(socket[c]) < Window
  /\ socket' = [socket EXCEPT ![c] = IF eof[c] THEN @ ELSE @ \o writing[c]]
  /\ writing' = [writing EXCEPT ![c] = <<>>]
  /\ Goto(c, "select")
  /\ UNCHANGED <<input, out_rx, eof, clock, bounds, seen>>

Read(c)   == TakePiece(c) \/ ReadLine(c) \/ ReadRest(c) \/ End(c)
Handle(c) == Answer(c) \/ Post(c)
Task(c)   == Heartbeat(c) \/ Recv(c) \/ Read(c) \/ Handle(c) \/ Write(c) \/ Panic(c)

Next ==
  \/ Tick
  \/ \E c \in Conns : Open(c) \/ Send(c) \/ ClientReads(c) \/ Hangup(c) \/ Task(c)

Spec == Init /\ [][Next]_vars

\* The runtime polls every task.  select! polls its branches in random order,
\* so that one which is ready again and again is taken (SF).  A client reads,
\* unless it is one of those that may stop.
FairSpec ==
  /\ Spec
  /\ WF_vars(Tick)
  /\ \A c \in Conns :
       /\ SF_vars(Recv(c)) /\ SF_vars(Read(c))
       /\ WF_vars(Heartbeat(c)) /\ WF_vars(Handle(c)) /\ WF_vars(Write(c))
  /\ \A c \in Conns \ Stalled : WF_vars(ClientReads(c))

-----------------------------------------------------------------------------
(* Properties *)

TypeOK ==
  /\ stage \in [Conns -> {"off", "select", "write", "closed"} \cup Handlers]
  /\ inbox \in [Conns -> Seq(Nat \X Pieces)]
  /\ taken \in [Conns -> Seq(Nat \X {"head"})]
  /\ line \in [Conns -> Seq(Nat \X Pieces)]
  /\ out_rx \in [Conns -> Seq(Frames)]
  /\ writing \in [Conns -> Seq(Frames)]
  /\ socket \in [Conns -> Seq(Frames)]
  /\ \A c \in Conns : stage[c] = "write" <=> writing[c] # <<>>
  /\ \A c \in Conns : stage[c] \in Handlers <=> line[c] # <<>>
  /\ eof \in [Conns -> BOOLEAN] /\ broken \in [Conns -> BOOLEAN] /\ due \in [Conns -> BOOLEAN]
  /\ presence \in [Users -> 0 .. Ttl]
  /\ sent \in [Conns -> Nat] /\ faults \in 0 .. MaxFaults
  /\ handled \in [Conns -> Nat]
  /\ queued \in [Conns -> Nat]
  /\ got \in [Conns -> Nat]
  /\ missed \in [Conns -> 0 .. Ttl]
  /\ erased \in [Conns -> BOOLEAN]

\* connection.rs, read_line in select!: the lines are handled in the order
\* they were sent, none is left out or handled twice, and what is handled as
\* line number k is that line, or its end when a read was dropped in the
\* middle, or its start when the client went away there; never a mix of two.
LinesKeepTheirOrder ==
  \A c \in Conns :
    LET k == handled[c]
    IN  line[c] # <<>> =>
          \/ line[c] \in {<<<<k, "head">>, <<k, "tail">>>>, <<<<k, "tail">>>>}
          \/ line[c] = <<<<k, "head">>>> /\ eof[c]

\* The messages among these frames are those from first to last, in order.
InOrder(frames, first, last) ==
  LET places == {i \in 1 .. Len(frames) : frames[i][1] = "message"}
  IN  /\ {frames[i][2] : i \in places} = first .. last
      /\ \A i, j \in places : i < j => frames[i][2] < frames[j][2]

\* connection.rs, out_rx and write_all: while a client is connected, what it
\* has read, what is on its way to it and what is still queued are the messages
\* put into its queue, each once and in their order, whatever answers overtake
\* them.
MessagesKeepTheirOrder ==
  \A c \in Served :
    ~eof[c] => InOrder(socket[c] \o writing[c] \o out_rx[c], got[c] + 1, queued[c])

\* connection.rs, presence: a user with a session is shown online, unless for
\* the whole life of the key no heartbeat of that session has set it - its task
\* was held up, or SETEX failed each time, which the loop ignores -, or another
\* session of the user has ended since it was set and taken the key along.
\* A single heartbeat that fails, or comes late, takes nobody off.
PresenceIsShown ==
  \A c \in Served : presence[Owner[c]] > 0 \/ missed[c] = Ttl \/ erased[c]

\* app_state.rs, send_to_room over unbounded queues: a client that stops
\* reading holds up its own session only; the session of one that reads goes
\* on writing what is queued for it and reading what it sent.
OthersAreServed ==
  \A c \in Conns \ Stalled :
    /\ out_rx[c] # <<>> ~> out_rx[c] = <<>>
    /\ c \in Served /\ inbox[c] # <<>> ~> c \notin Served \/ inbox[c] = <<>>
=============================================================================

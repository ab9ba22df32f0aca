-------------------------- MODULE AdmissionProofs --------------------------
(***************************************************************************)
(* Theorems about Admission, for any number of connections and users, any*)
(* limits and any number of commands and failures.                       *)
(***************************************************************************)
EXTENDS Admission, FiniteSetTheorems, TLAPS

-----------------------------------------------------------------------------
(* Types.  A connection in the backlog, or in the hands of the accept    *)
(* loop, is nowhere else.                                                *)

Queue ==
  /\ \A i \in 1 .. Len(backlog) : stage[backlog[i]] = "queued"
  /\ \A i, j \in 1 .. Len(backlog) : backlog[i] = backlog[j] => i = j
  /\ pc # "accept" => stage[peer] = "held"

Audited(s, p) ==
  \A c \in Conns : IF s[c] = "audit" THEN \E row \in Rows : p[c] = {row} ELSE p[c] = {}

Base == TypeOK /\ Queue

(* A session moves on: the queue and the other sessions stay as they are.*)
LEMMA SessionMoves ==
  ASSUME Base, NEW c \in Conns, stage[c] \notin {"queued", "held"},
         NEW place \in Stages \ {"queued", "held"}, Goto(c, place), UNCHANGED loop
  PROVE  stage' \in [Conns -> Stages] /\ Queue'
<1>1. stage' \in [Conns -> Stages]
  BY DEF Base, TypeOK, Goto
<1>2. \A d \in Conns : stage[d] \in {"queued", "held"} => stage'[d] = stage[d]
  BY DEF Base, TypeOK, Goto
<1>3. \A i \in 1 .. Len(backlog) : backlog[i] \in Conns
  BY DEF Base, TypeOK
<1>4. Queue'
  BY <1>2, <1>3 DEF Base, TypeOK, Queue, loop
<1>5. QED
  BY <1>1, <1>4

(* ... and no row of it is pending, as it was none before.               *)
LEMMA NotAuditing ==
  ASSUME Base, NEW c \in Conns, stage[c] # "audit",
         NEW place \in Stages \ {"audit"}, Goto(c, place), UNCHANGED pending
  PROVE  Audited(stage', pending')
BY DEF Base, TypeOK, Goto, Audited

LEMMA BaseInit == Init => Base
<1> SUFFICES ASSUME Init PROVE Base
  OBVIOUS
<1> USE AdmissionAssumption DEF Init
<1>1. backlog \in Seq(Conns) /\ Len(backlog) = 0
  OBVIOUS
<1>2. stage \in [Conns -> Stages] /\ pending \in [Conns -> SUBSET Rows]
  BY DEF Stages
<1>3. conn_ratelimit \in 0 .. AddrLimit + 1 /\ ratelimit \in [Users -> 0 .. TextLimit + 1]
  OBVIOUS
<1>4. audit_log \in Counts(Rows) /\ done \in Counts(Rows)
      /\ passed \in Counts(Users) /\ spoken \in Counts(Users)
  BY DEF Counts
<1>5. QED
  BY <1>1, <1>2, <1>3, <1>4 DEF Base, TypeOK, Queue

-----------------------------------------------------------------------------
(* The accept loop                                                       *)

LEMMA DialBase ==
  ASSUME Base, NEW c \in Conns, Dial(c)
  PROVE  Base'
<1> USE DEF Base, TypeOK, Dial, Goto
<1>1. stage' \in [Conns -> Stages]
  BY DEF Stages
<1>2. backlog' \in Seq(Conns) /\ Len(backlog') = Len(backlog) + 1
      /\ backlog'[Len(backlog')] = c
      /\ \A i \in 1 .. Len(backlog) : backlog'[i] = backlog[i] /\ backlog[i] \in Conns
  OBVIOUS
<1>3. \A i \in 1 .. Len(backlog) : backlog[i] # c
  BY DEF Queue
<1>4. Queue'
  <2>1. \A i \in 1 .. Len(backlog') : stage'[backlog'[i]] = "queued"
    BY <1>2, <1>3 DEF Queue
  <2>2. \A i, j \in 1 .. Len(backlog') : backlog'[i] = backlog'[j] => i = j
    BY <1>2, <1>3 DEF Queue
  <2>3. pc # "accept" => peer # c
    BY DEF Queue
  <2>4. QED
    BY <2>1, <2>2, <2>3 DEF Queue
<1>5. Audited(stage', pending')
  BY DEF Audited, admin
<1>6. QED
  BY <1>1, <1>2, <1>4, <1>5 DEF Audited, admin, redis, db, ghost

LEMMA AcceptBase ==
  ASSUME Base, Accept
  PROVE  Base'
<1> USE DEF Base, TypeOK, Accept, Goto
<1>1. peer' \in Conns /\ stage[peer'] = "queued" /\ peer' = backlog[1]
  BY DEF Queue
<1>2. stage' \in [Conns -> Stages]
  BY <1>1 DEF Stages
<1>3. backlog' \in Seq(Conns) /\ Len(backlog') = Len(backlog) - 1
      /\ \A i \in 1 .. Len(backlog') :
           i + 1 \in 1 .. Len(backlog) /\ backlog'[i] = backlog[i + 1] /\ backlog'[i] \in Conns
  OBVIOUS
<1>4. Queue'
  <2>1. \A i \in 1 .. Len(backlog') : backlog'[i] # peer'
    BY <1>1, <1>3 DEF Queue
  <2>2. \A i \in 1 .. Len(backlog') : stage'[backlog'[i]] = "queued"
    BY <1>1, <1>3, <2>1 DEF Queue
  <2>3. \A i, j \in 1 .. Len(backlog') : backlog'[i] = backlog'[j] => i = j
    BY <1>3 DEF Queue
  <2>4. QED
    BY <1>1, <2>2, <2>3 DEF Queue
<1>5. Audited(stage', pending')
  BY <1>1 DEF Audited, admin
<1>6. QED
  BY <1>1, <1>2, <1>3, <1>4, <1>5 DEF Audited, admin, redis, db, ghost

(* The connection in the loop's hands is refused, dropped or spawned.    *)
LEMMA ReleaseBase ==
  ASSUME Base, pc # "accept", NEW place \in {"off", "named"}, Release(place)
  PROVE  /\ backlog' \in Seq(Conns) /\ pc' = "accept" /\ peer' = None
         /\ up' \in BOOLEAN
         /\ stage' \in [Conns -> Stages] /\ Queue'
         /\ pending' = pending => Audited(stage', pending')
<1> USE DEF Base, TypeOK, Release, Goto
<1>1. peer \in Conns /\ stage[peer] = "held"
  BY DEF Queue
<1>2. stage' \in [Conns -> Stages]
  BY <1>1 DEF Stages
<1>3. \A i \in 1 .. Len(backlog) : backlog[i] \in Conns /\ backlog[i] # peer
  BY <1>1 DEF Queue
<1>4. Queue'
  BY <1>1, <1>3 DEF Queue
<1>5. pending' = pending => Audited(stage', pending')
  BY <1>1 DEF Audited
<1>6. QED
  BY <1>2, <1>4, <1>5

(* INCR keeps a counter below one above its limit.                       *)
LEMMA IncrType ==
  ASSUME NEW limit \in Nat, NEW n \in 0 .. limit + 1
  PROVE  Incr(n, limit) \in 1 .. limit + 1
BY DEF Incr

LEMMA LoopBase ==
  ASSUME Base, AcceptLoop \/ Handshake \/ Crash \/ Restart
  PROVE  Base'
<1> USE AdmissionAssumption
<1>1. CASE Accept
  BY <1>1, AcceptBase
<1>2. CASE CountAddress
  <2>1. conn_ratelimit' \in 0 .. AddrLimit + 1
    BY <1>2, IncrType DEF CountAddress, Base, TypeOK
  <2>2. CASE conn_ratelimit' > AddrLimit
    BY <1>2, <2>1, <2>2, ReleaseBase
       DEF CountAddress, Base, TypeOK, Audited, admin, db, ghost
  <2>3. CASE ~(conn_ratelimit' > AddrLimit)
    <3>1. UNCHANGED <<up, backlog, peer, stage>> /\ pc' \in {"expire", "tls"} /\ pc = "incr"
      BY <1>2, <2>3 DEF CountAddress
    <3>2. Queue'
      BY <3>1 DEF Base, Queue
    <3>3. QED
      BY <1>2, <2>1, <3>1, <3>2 DEF CountAddress, Base, TypeOK, admin, db, ghost
  <2>4. QED
    BY <2>2, <2>3
<1>3. CASE ExpireAddress
  BY <1>3 DEF ExpireAddress, Base, TypeOK, Queue, admin, db, ghost
<1>4. CASE Handshake
  BY <1>4, ReleaseBase DEF Handshake, Base, TypeOK, Audited, admin, redis, db, ghost
<1>5. CASE Crash
  <2>1. backlog' \in Seq(Conns) /\ Len(backlog') = 0 /\ Queue'
    BY <1>5 DEF Crash, Queue
  <2>2. stage' \in [Conns -> Stages] /\ pending' \in [Conns -> SUBSET Rows]
        /\ Audited(stage', pending')
    BY <1>5 DEF Crash, Stages, Audited
  <2>3. failed' \subseteq Failures
    BY <1>5 DEF Crash, Fails, Base, TypeOK, Failures
  <2>4. QED
    BY <1>5, <2>1, <2>2, <2>3 DEF Crash, Base, TypeOK, Audited, redis, db
<1>6. CASE Restart
  BY <1>6 DEF Restart, Base, TypeOK, Queue, admin, redis, db, ghost
<1>7. QED
  BY <1>1, <1>2, <1>3, <1>4, <1>5, <1>6 DEF AcceptLoop

-----------------------------------------------------------------------------
(* The sessions                                                          *)

LEMMA FailsType ==
  ASSUME failed \subseteq Failures, NEW cost \in Failures, Works \/ Fails(cost)
  PROVE  failed' \subseteq Failures
BY DEF Works, Fails

(* A step of a session that writes no audit row, and of the rest changes *)
(* what is listed.                                                       *)
LEMMA PlainStep ==
  ASSUME Base, NEW c \in Conns, stage[c] \notin {"queued", "held", "audit"},
         NEW place \in Stages \ {"queued", "held", "audit"}, Goto(c, place),
         UNCHANGED <<loop, admin, db, conn_ratelimit, muted, done>>,
         role' \in [Conns -> {"admin", "user"}],
         ratelimit' \in [Users -> 0 .. TextLimit + 1],
         expires' \subseteq Users \cup {Address}, failed' \subseteq Failures,
         passed' \in Counts(Users), spoken' \in Counts(Users),
         posted' \subseteq Users, grace' \subseteq Conns
  PROVE  Base'
<1>1. stage' \in [Conns -> Stages] /\ Queue'
  BY SessionMoves
<1>2. Audited(stage', pending')
  BY NotAuditing DEF admin
<1>3. QED
  BY <1>1, <1>2 DEF Base, TypeOK, Audited, loop, admin, db

LEMMA AdmitBase ==
  ASSUME Base, NEW c \in Conns, Admit(c) \/ Close(c)
  PROVE  Base'
<1> USE DEF Base, TypeOK, loop, admin, redis, db, ghost
<1>1. CASE CheckBanned(c)
  <2>1. PICK place \in {"off", "login"} : Goto(c, place)
    BY <1>1 DEF CheckBanned
  <2>2. failed' \subseteq Failures
    BY <1>1, FailsType DEF CheckBanned, Failures
  <2>3. QED
    BY <1>1, <2>1, <2>2, PlainStep DEF CheckBanned, Stages
<1>2. CASE Enter(c)
  <2>1. failed' \subseteq Failures
    BY <1>2, FailsType DEF Enter, Failures
  <2>2. role' \in [Conns -> {"admin", "user"}]
    BY <1>2 DEF Enter
  <2>3. QED
    BY <1>2, <2>1, <2>2, PlainStep DEF Enter, Stages
<1>3. CASE Close(c)
  BY <1>3, PlainStep DEF Close, Stages
<1>4. QED
  BY <1>1, <1>2, <1>3 DEF Admit

LEMMA MessageBase ==
  ASSUME Base, NEW c \in Conns, handle_regular_message(c)
  PROVE  Base'
<1> USE AdmissionAssumption DEF Base, TypeOK, loop, admin, redis, db, ghost
<1>0. Owner[c] \in Users
  OBVIOUS
<1>1. CASE Text(c)
  BY <1>1, PlainStep DEF Text, Stages
<1>2. CASE CheckMuted(c)
  <2>1. PICK place \in {"open", "count"} : Goto(c, place)
    BY <1>2 DEF CheckMuted
  <2>2. failed' \subseteq Failures
    BY <1>2, FailsType DEF CheckMuted, Failures
  <2>3. QED
    BY <1>2, <2>1, <2>2, PlainStep DEF CheckMuted, Stages
<1>3. CASE CountText(c)
  <2> DEFINE count == Incr(ratelimit[Owner[c]], TextLimit)
  <2>1. count \in 1 .. TextLimit + 1
    BY <1>0, IncrType
  <2>2. PICK place \in {"expire", "open", "send", "off"} : Goto(c, place)
    BY <1>3 DEF CountText
  <2>3. failed' \subseteq Failures
    BY <1>3, FailsType DEF CountText, Failures
  <2>4. ratelimit' \in [Users -> 0 .. TextLimit + 1]
    <3>1. ratelimit' = [ratelimit EXCEPT ![Owner[c]] = count] \/ ratelimit' = ratelimit
      BY <1>3 DEF CountText
    <3>2. count \in 0 .. TextLimit + 1
      BY <2>1
    <3>3. QED
      BY <1>0, <3>1, <3>2
  <2>5. QED
    BY <1>3, <2>2, <2>3, <2>4, PlainStep DEF CountText, Stages
<1>4. CASE ExpireTexts(c)
  <2>1. failed' \subseteq Failures
    BY <1>4, FailsType DEF ExpireTexts, Failures
  <2>2. expires' \subseteq Users \cup {Address}
    BY <1>0, <1>4 DEF ExpireTexts
  <2>3. QED
    BY <1>4, <2>1, <2>2, PlainStep DEF ExpireTexts, Stages
<1>5. CASE Send(c)
  <2>1. PICK place \in {"open", "off"} : Goto(c, place)
    BY <1>5 DEF Send
  <2>2. failed' \subseteq Failures
    BY <1>5, FailsType DEF Send, Failures
  <2>3. passed' \in Counts(Users) /\ spoken' \in Counts(Users)
    BY <1>0, <1>5, SMTT(30) DEF Send, Counts
  <2>4. QED
    BY <1>5, <2>1, <2>2, <2>3, PlainStep DEF Send, Stages
<1>6. QED
  BY <1>1, <1>2, <1>3, <1>4, <1>5 DEF handle_regular_message

LEMMA ByCommandBase ==
  ASSUME Base, NEW c \in Conns, SendByCommand(c)
  PROVE  Base'
<1> USE AdmissionAssumption DEF Base, TypeOK, loop, admin, redis, db, ghost
<1>1. PICK place \in {"open", "off"} : Goto(c, place)
  BY DEF SendByCommand
<1>2. failed' \subseteq Failures
  BY FailsType DEF SendByCommand, Failures
<1>3. posted' \subseteq Users
  BY DEF SendByCommand
<1>4. QED
  BY <1>1, <1>2, <1>3, PlainStep DEF SendByCommand, Stages

(* A command whose row is to be written next.                            *)
LEMMA RecordStep ==
  ASSUME Base, NEW c \in Conns, stage[c] = "open", NEW kind \in Kinds, NEW u \in Users,
         Record(c, kind, u), UNCHANGED loop
  PROVE  /\ stage' \in [Conns -> Stages] /\ Queue'
         /\ pending' \in [Conns -> SUBSET Rows] /\ Audited(stage', pending')
<1>1. stage' \in [Conns -> Stages] /\ Queue'
  BY SessionMoves DEF Record, Stages
<1>2. <<kind, u>> \in Rows
  BY DEF Rows
<1>3. pending' \in [Conns -> SUBSET Rows]
  BY <1>2 DEF Base, TypeOK, Record
<1>4. Audited(stage', pending')
  BY <1>2 DEF Base, TypeOK, Record, Goto, Audited
<1>5. QED
  BY <1>1, <1>3, <1>4

LEMMA TookType ==
  ASSUME done \in Counts(Rows), NEW kind \in Kinds, NEW u \in Users,
         Took(kind, u) \/ UNCHANGED done
  PROVE  done' \in Counts(Rows)
BY DEF Took, Counts, Rows

LEMMA CommandBase ==
  ASSUME Base, NEW c \in Conns, Administer(c)
  PROVE  Base'
<1> USE AdmissionAssumption
<1>c. ASSUME Command(c) PROVE stage[c] = "open" /\ commands' \in 0 .. MaxCommands
  BY <1>c DEF Command, Base, TypeOK
<1>f. ASSUME Works \/ Fails("request") PROVE failed' \subseteq Failures
  BY <1>f, FailsType DEF Base, TypeOK, Failures
<1>1. ASSUME NEW u \in Targets, handle_mute_command(c, u) PROVE Base'
  <2> u \in Users
    OBVIOUS
  <2> "mute" \in Kinds
    BY DEF Kinds
  <2>1. /\ stage' \in [Conns -> Stages] /\ Queue'
        /\ pending' \in [Conns -> SUBSET Rows] /\ Audited(stage', pending')
    BY <1>1, <1>c, RecordStep DEF handle_mute_command
  <2>2. done' \in Counts(Rows)
    BY <1>1, TookType DEF handle_mute_command, Base, TypeOK
  <2>3. muted' \subseteq Users /\ failed' \subseteq Failures
    BY <1>1, <1>f DEF handle_mute_command, Base, TypeOK
  <2>4. QED
    BY <1>1, <1>c, <2>1, <2>2, <2>3
       DEF handle_mute_command, Base, TypeOK, Audited, loop, db
<1>2. ASSUME NEW u \in Targets, handle_unmute_command(c, u) PROVE Base'
  <2> u \in Users
    OBVIOUS
  <2> "unmute" \in Kinds
    BY DEF Kinds
  <2>1. /\ stage' \in [Conns -> Stages] /\ Queue'
        /\ pending' \in [Conns -> SUBSET Rows] /\ Audited(stage', pending')
    BY <1>2, <1>c, RecordStep DEF handle_unmute_command
  <2>2. done' \in Counts(Rows)
    BY <1>2, TookType DEF handle_unmute_command, Base, TypeOK
  <2>3. muted' \subseteq Users /\ failed' \subseteq Failures /\ spoken' \in Counts(Users)
    BY <1>2, <1>f, SMTT(30) DEF handle_unmute_command, Base, TypeOK, Counts
  <2>4. QED
    BY <1>2, <1>c, <2>1, <2>2, <2>3
       DEF handle_unmute_command, Base, TypeOK, Audited, loop, db
<1>3. ASSUME NEW u \in Targets, handle_ban_command(c, u) PROVE Base'
  <2> u \in Users
    OBVIOUS
  <2> "ban" \in Kinds
    BY DEF Kinds
  <2>1. /\ stage' \in [Conns -> Stages] /\ Queue'
        /\ pending' \in [Conns -> SUBSET Rows] /\ Audited(stage', pending')
    <3>1. CASE Record(c, "ban", u)
      BY <1>3, <1>c, <3>1, RecordStep DEF handle_ban_command
    <3>2. CASE UNCHANGED <<pending, stage>>
      BY <1>3, <3>2 DEF handle_ban_command, Base, TypeOK, Queue, Audited, loop
    <3>3. QED
      BY <1>3, <3>1, <3>2 DEF handle_ban_command
  <2>2. done' \in Counts(Rows)
    BY <1>3, TookType DEF handle_ban_command, Base, TypeOK
  <2>3. bans' \subseteq Users /\ failed' \subseteq Failures /\ grace' \subseteq Conns
    BY <1>3, <1>f DEF handle_ban_command, Base, TypeOK, Of
  <2>4. QED
    BY <1>3, <1>c, <2>1, <2>2, <2>3
       DEF handle_ban_command, Base, TypeOK, Audited, loop, redis
<1>4. ASSUME NEW u \in Targets, handle_unban_command(c, u) PROVE Base'
  <2> u \in Users
    OBVIOUS
  <2> "unban" \in Kinds
    BY DEF Kinds
  <2>1. /\ stage' \in [Conns -> Stages] /\ Queue'
        /\ pending' \in [Conns -> SUBSET Rows] /\ Audited(stage', pending')
    <3>1. CASE Record(c, "unban", u)
      BY <1>4, <1>c, <3>1, RecordStep DEF handle_unban_command
    <3>2. CASE Goto(c, "off") /\ UNCHANGED pending
      BY <1>4, <1>c, <3>2, SessionMoves, NotAuditing
         DEF handle_unban_command, Base, TypeOK, Stages
    <3>3. QED
      BY <1>4, <3>1, <3>2 DEF handle_unban_command
  <2>2. done' \in Counts(Rows)
    BY <1>4, TookType DEF handle_unban_command, Base, TypeOK
  <2>3. bans' \subseteq Users /\ failed' \subseteq Failures /\ grace' \subseteq Conns
    BY <1>4, <1>f DEF handle_unban_command, Base, TypeOK
  <2>4. QED
    BY <1>4, <1>c, <2>1, <2>2, <2>3
       DEF handle_unban_command, Base, TypeOK, Audited, loop, redis
<1>5. CASE Audit(c)
  <2>1. PICK place \in {"open", "off"} : Goto(c, place)
    BY <1>5 DEF Audit
  <2>2. stage' \in [Conns -> Stages] /\ Queue'
    BY <1>5, <2>1, SessionMoves DEF Audit, Stages
  <2>3. pending' \in [Conns -> SUBSET Rows] /\ Audited(stage', pending')
    BY <1>5, <2>1 DEF Audit, Goto, Base, TypeOK, Audited
  <2>4. failed' \subseteq Failures
    BY <1>5, FailsType DEF Audit, Base, TypeOK, Failures
  <2>5. audit_log' \in Counts(Rows)
    <3>1. audit_log \in [Rows -> Nat]
      BY DEF Base, TypeOK, Counts
    <3>2. \/ audit_log' = [row \in Rows |-> IF row \in pending[c] THEN audit_log[row] + 1
                                                              ELSE audit_log[row]]
          \/ audit_log' = audit_log
      BY <1>5 DEF Audit
    <3>3. QED
      BY <3>1, <3>2 DEF Counts
  <2>6. QED
    BY <1>5, <2>2, <2>3, <2>4, <2>5 DEF Audit, Base, TypeOK, Audited, loop, redis, ghost
<1>6. QED
  BY <1>1, <1>2, <1>3, <1>4, <1>5 DEF Administer

LEMMA ClockBase ==
  ASSUME Base, Clock
  PROVE  Base'
<1> USE AdmissionAssumption
    DEF Base, TypeOK, Queue, Counts, loop, admin, db
<1>1. CASE LapseAddress
  BY <1>1 DEF LapseAddress, ghost
<1>2. ASSUME NEW u \in Users, LapseTexts(u) PROVE Base'
  BY <1>2, SMTT(30) DEF LapseTexts
<1>3. ASSUME NEW u \in Users, LapseMute(u) PROVE Base'
  BY <1>3 DEF LapseMute
<1>4. QED
  BY <1>1, <1>2, <1>3 DEF Clock

LEMMA BaseNext == Base /\ [Next]_vars => Base'
<1> SUFFICES ASSUME Base, [Next]_vars PROVE Base'
  OBVIOUS
<1>1. CASE AcceptLoop \/ Handshake \/ Crash \/ Restart
  BY <1>1, LoopBase
<1>2. CASE Clock
  BY <1>2, ClockBase
<1>3. ASSUME NEW c \in Conns,
             \/ Dial(c) \/ Close(c) \/ Admit(c) \/ handle_regular_message(c)
             \/ SendByCommand(c) \/ Administer(c)
      PROVE  Base'
  BY <1>3, DialBase, AdmitBase, MessageBase, ByCommandBase, CommandBase
<1>4. CASE UNCHANGED vars
  BY <1>4 DEF vars, Base, TypeOK, Queue, loop, admin, redis, db, ghost
<1>5. QED
  BY <1>1, <1>2, <1>3, <1>4 DEF Next

(* Every variable of Admission keeps its type, and a handler that has an *)
(* audit row to write has just that one.                                 *)
THEOREM AdmissionTypeCorrect == Spec => []TypeOK
<1>1. Base => TypeOK
  BY DEF Base
<1>2. QED
  BY BaseInit, BaseNext, <1>1, PTL DEF Spec

-----------------------------------------------------------------------------
(* Bans                                                                  *)

(* Only check_banned brings a connection to the login.                   *)
LEMMA NotToLogin ==
  ASSUME Base, NEW c, NEW place, place # "login", Goto(c, place),
         NEW d \in Conns, stage'[d] = "login"
  PROVE  stage[d] = "login" /\ d # c
BY DEF Base, TypeOK, Goto

LEMMA BansKept ==
  ASSUME Base, BannedStaysOut, UNCHANGED bans,
         \A d \in Conns : stage'[d] = "login" => stage[d] = "login" /\ (d \in grace => d \in grace')
  PROVE  BannedStaysOut'
BY DEF BannedStaysOut, In

LEMMA BansNext ==
  ASSUME Base, BannedStaysOut, [Next]_vars
  PROVE  BannedStaysOut'
<1> USE DEF db, ghost, vars
<1>1. CASE AcceptLoop
  <2>1. CASE Accept
    BY <1>1, <2>1, NotToLogin, BansKept DEF Accept
  <2>2. CASE CountAddress
    BY <1>1, <2>2, NotToLogin, BansKept DEF CountAddress, Release
  <2>3. CASE ExpireAddress
    BY <1>1, <2>3, BansKept DEF ExpireAddress
  <2>4. QED
    BY <1>1, <2>1, <2>2, <2>3 DEF AcceptLoop
<1>2. CASE Handshake
  <2>1. PICK place \in {"named", "off"} : Release(place)
    BY <1>2 DEF Handshake
  <2>2. QED
    BY <1>2, <2>1, NotToLogin, BansKept DEF Handshake, Release
<1>3. CASE Crash
  BY <1>3 DEF Crash, BannedStaysOut, In
<1>4. CASE Restart \/ Clock \/ UNCHANGED vars
  <2>1. UNCHANGED <<stage, bans, grace>>
    BY <1>4 DEF Restart, Clock, LapseAddress, LapseTexts, LapseMute
  <2>2. QED
    BY <2>1, BansKept
<1>5. ASSUME NEW c \in Conns,
             Dial(c) \/ Close(c) \/ handle_regular_message(c) \/ SendByCommand(c)
      PROVE  BannedStaysOut'
  <2>1. PICK place \in Stages \ {"login"} : Goto(c, place)
    <3>1. CASE Dial(c) \/ Close(c) \/ SendByCommand(c)
      BY <3>1 DEF Dial, Close, SendByCommand, Stages
    <3>2. CASE Text(c) \/ CheckMuted(c) \/ ExpireTexts(c) \/ Send(c)
      BY <3>2 DEF Text, CheckMuted, ExpireTexts, Send, Stages
    <3>3. CASE CountText(c)
      BY <3>3 DEF CountText, Stages
    <3>4. QED
      BY <1>5, <3>1, <3>2, <3>3 DEF handle_regular_message
  <2>2. UNCHANGED bans /\ grace \ {c} \subseteq grace'
    BY <1>5 DEF Dial, Close, SendByCommand, handle_regular_message, Text, CheckMuted, CountText,
                ExpireTexts, Send
  <2>3. QED
    BY <2>1, <2>2, NotToLogin, BansKept
<1>6. ASSUME NEW c \in Conns, Admit(c)
      PROVE  BannedStaysOut'
  <2>1. CASE CheckBanned(c)
    BY <2>1 DEF CheckBanned, Goto, BannedStaysOut, In, Base, TypeOK
  <2>2. CASE Enter(c)
    BY <2>2, NotToLogin, BansKept DEF Enter
  <2>3. QED
    BY <1>6, <2>1, <2>2 DEF Admit
<1>7. ASSUME NEW c \in Conns, Administer(c)
      PROVE  BannedStaysOut'
  <2>1. ASSUME NEW u \in Targets, handle_mute_command(c, u) \/ handle_unmute_command(c, u)
        PROVE  BannedStaysOut'
    BY <2>1, NotToLogin, BansKept DEF handle_mute_command, handle_unmute_command, Record
  <2>2. ASSUME NEW u \in Targets, handle_ban_command(c, u)
        PROVE  BannedStaysOut'
    <3>1. \A d \in Conns : stage'[d] = "login" => stage[d] = "login"
      BY <2>2, NotToLogin DEF handle_ban_command, Record
    <3>2. \/ bans' = bans \cup {u} /\ grace' = grace \cup (Of(u) \cap In({"login"}))
          \/ bans' = bans /\ grace' = grace
      BY <2>2 DEF handle_ban_command
    <3>3. QED
      BY <3>1, <3>2 DEF BannedStaysOut, In, Of
  <2>3. ASSUME NEW u \in Targets, handle_unban_command(c, u)
        PROVE  BannedStaysOut'
    <3>1. \A d \in Conns : stage'[d] = "login" => stage[d] = "login"
      BY <2>3, NotToLogin DEF handle_unban_command, Record
    <3>2. \/ bans' = bans \ {u} /\ grace' = grace \ Of(u)
          \/ bans' = bans /\ grace' = grace
      BY <2>3 DEF handle_unban_command
    <3>3. QED
      BY <3>1, <3>2 DEF BannedStaysOut, In, Of
  <2>4. CASE Audit(c)
    BY <2>4, NotToLogin, BansKept DEF Audit
  <2>5. QED
    BY <1>7, <2>1, <2>2, <2>3, <2>4 DEF Administer
<1>8. QED
  BY <1>1, <1>2, <1>3, <1>4, <1>5, <1>6, <1>7 DEF Next

(* Whoever is banned gets no further than the ban check: of a banned user*)
(* only connections that were at the login when the ban came are there.  *)
THEOREM BannedStayOut == Spec => []BannedStaysOut
<1>1. Init => BannedStaysOut
  BY DEF Init, BannedStaysOut, In
<1>2. QED
  BY BaseInit, BaseNext, <1>1, BansNext, PTL DEF Spec

-----------------------------------------------------------------------------
(* Limits                                                                *)

AddressLapses ==
  conn_ratelimit > 0 => Address \in expires \/ pc = "expire" \/ "server" \in failed

TextsLapse ==
  \A u \in Users : ratelimit[u] > 0 =>
    \/ u \in expires
    \/ \E c \in Of(u) : stage[c] = "expire"
    \/ failed \cap {"expire", "server"} # {}

(* A counter that is not raised keeps its time to live, or the one who is*)
(* about to give it one.                                                 *)
LEMMA TextsKept ==
  ASSUME Base, TextsLapse, UNCHANGED ratelimit, expires \cap Users \subseteq expires',
         failed \subseteq failed',
         \A d \in Conns : stage[d] = "expire" => stage'[d] = "expire"
  PROVE  TextsLapse'
BY DEF TextsLapse, Of

LEMMA NotFromExpire ==
  ASSUME Base, NEW c \in Conns, stage[c] # "expire", NEW place, Goto(c, place),
         NEW d \in Conns, stage[d] = "expire"
  PROVE  stage'[d] = "expire"
BY DEF Base, TypeOK, Goto

LEMMA FailedGrows ==
  ASSUME NEW cost, Works \/ Fails(cost)
  PROVE  failed \subseteq failed'
BY DEF Works, Fails

LEMMA LimitsNext ==
  ASSUME Base, AddressLapses, TextsLapse, [Next]_vars
  PROVE  AddressLapses' /\ TextsLapse'
<1> USE AdmissionAssumption DEF loop, admin, redis, db, ghost, vars
<1>0. /\ conn_ratelimit \in 0 .. AddrLimit + 1
      /\ \A u \in Users : ratelimit[u] \in 0 .. TextLimit + 1
      /\ ratelimit \in [Users -> 0 .. TextLimit + 1]
  BY DEF Base, TypeOK
<1>1. CASE AcceptLoop
  <2>1. CASE Accept
    <3>1. peer' \in Conns /\ stage[peer'] = "queued"
      BY <2>1 DEF Accept, Base, TypeOK, Queue
    <3>2. TextsLapse'
      BY <2>1, <3>1, NotFromExpire, TextsKept DEF Accept
    <3>3. AddressLapses'
      BY <2>1 DEF Accept, AddressLapses
    <3>4. QED
      BY <3>2, <3>3
  <2>2. CASE CountAddress
    <3>1. peer \in Conns /\ stage[peer] = "held"
      BY <2>2 DEF CountAddress, Base, TypeOK, Queue
    <3>2. TextsLapse'
      <4>1. \A d \in Conns : stage[d] = "expire" => stage'[d] = "expire"
        BY <2>2, <3>1, NotFromExpire DEF CountAddress, Release
      <4>2. QED
        BY <2>2, <4>1, TextsKept DEF CountAddress
    <3>3. AddressLapses'
      <4>1. CASE conn_ratelimit = 0
        <5>1. conn_ratelimit' = 1 /\ ~(conn_ratelimit' > AddrLimit)
          BY <2>2, <4>1 DEF CountAddress, Incr
        <5>2. pc' = "expire"
          BY <2>2, <5>1 DEF CountAddress
        <5>3. QED
          BY <5>2 DEF AddressLapses
      <4>2. CASE conn_ratelimit # 0
        <5>1. conn_ratelimit > 0 /\ pc = "incr" /\ UNCHANGED <<expires, failed>>
          BY <1>0, <2>2, <4>2 DEF CountAddress
        <5>2. QED
          BY <5>1 DEF AddressLapses
      <4>3. QED
        BY <4>1, <4>2
    <3>4. QED
      BY <3>2, <3>3
  <2>3. CASE ExpireAddress
    BY <2>3, TextsKept DEF ExpireAddress, AddressLapses
  <2>4. QED
    BY <1>1, <2>1, <2>2, <2>3 DEF AcceptLoop
<1>2. CASE Handshake
  <2>1. PICK place \in {"named", "off"} : Release(place)
    BY <1>2 DEF Handshake
  <2>2. peer \in Conns /\ stage[peer] = "held"
    BY <1>2 DEF Handshake, Base, TypeOK, Queue
  <2>3. TextsLapse'
    BY <1>2, <2>1, <2>2, NotFromExpire, TextsKept DEF Handshake, Release
  <2>4. AddressLapses'
    BY <1>2, <2>1 DEF Handshake, Release, AddressLapses
  <2>5. QED
    BY <2>3, <2>4
<1>3. CASE Crash
  BY <1>3 DEF Crash, Fails, AddressLapses, TextsLapse
<1>4. CASE Restart \/ UNCHANGED vars
  BY <1>4, TextsKept DEF Restart, AddressLapses
<1>5. CASE Clock
  <2>1. CASE LapseAddress
    BY <2>1, TextsKept DEF LapseAddress, AddressLapses
  <2>2. ASSUME NEW u \in Users, LapseTexts(u)
        PROVE  AddressLapses' /\ TextsLapse'
    <3>1. u # Address
      OBVIOUS
    <3>2. AddressLapses'
      BY <2>2, <3>1 DEF LapseTexts, AddressLapses
    <3>3. TextsLapse'
      BY <1>0, <2>2 DEF LapseTexts, TextsLapse
    <3>4. QED
      BY <3>2, <3>3
  <2>3. ASSUME NEW u \in Users, LapseMute(u)
        PROVE  AddressLapses' /\ TextsLapse'
    BY <2>3, TextsKept DEF LapseMute, AddressLapses
  <2>4. QED
    BY <1>5, <2>1, <2>2, <2>3 DEF Clock
<1>6. ASSUME NEW c \in Conns,
             \/ Dial(c) \/ Close(c) \/ Admit(c) \/ handle_regular_message(c)
             \/ SendByCommand(c) \/ Administer(c)
      PROVE  AddressLapses' /\ TextsLapse'
  <2>1. UNCHANGED <<pc, conn_ratelimit>> /\ failed \subseteq failed' /\ expires \subseteq expires'
    <3>1. CASE Dial(c) \/ Close(c) \/ Admit(c) \/ SendByCommand(c)
      BY <3>1, FailedGrows DEF Dial, Close, Admit, CheckBanned, Enter, SendByCommand
    <3>2. CASE handle_regular_message(c)
      BY <3>2, FailedGrows DEF handle_regular_message, Text, CheckMuted, CountText, ExpireTexts, Send
    <3>3. CASE Administer(c)
      BY <3>3, FailedGrows DEF Administer, handle_mute_command, handle_unmute_command,
                               handle_ban_command, handle_unban_command, Audit
    <3>4. QED
      BY <1>6, <3>1, <3>2, <3>3
  <2>2. AddressLapses'
    BY <2>1 DEF AddressLapses
  <2>3. TextsLapse'
    <3>1. ASSUME stage[c] # "expire", UNCHANGED ratelimit,
                 UNCHANGED stage \/ \E place \in Stages : Goto(c, place)
          PROVE  TextsLapse'
      BY <2>1, <3>1, NotFromExpire, TextsKept
    <3>2. CASE Dial(c) \/ Close(c) \/ Admit(c)
      BY <3>1, <3>2 DEF Dial, Close, Admit, CheckBanned, Enter, Stages
    <3>3. CASE Text(c) \/ CheckMuted(c) \/ Send(c) \/ SendByCommand(c)
      BY <3>1, <3>3 DEF Text, CheckMuted, Send, SendByCommand, Stages
    <3>4. CASE ExpireTexts(c)
      <4>1. Owner[c] \in expires' \/ "expire" \in failed'
        BY <3>4 DEF ExpireTexts, Fails
      <4>2. \A d \in Conns : d # c => stage'[d] = stage[d]
        BY <3>4 DEF ExpireTexts, Goto, Base, TypeOK
      <4>3. UNCHANGED ratelimit
        BY <3>4 DEF ExpireTexts
      <4>4. QED
        BY <2>1, <4>1, <4>2, <4>3 DEF TextsLapse, Of
    <3>5. CASE CountText(c)
      <4> DEFINE count == Incr(ratelimit[Owner[c]], TextLimit)
      <4>1. CASE Fails("request") /\ UNCHANGED ratelimit
        BY <3>1, <3>5, <4>1 DEF CountText, Stages
      <4>2. CASE ratelimit' = [ratelimit EXCEPT ![Owner[c]] = count]
        <5>1. stage[c] = "count" /\ (count = 1 => Goto(c, "expire") \/ failed' # failed)
          BY <3>5 DEF CountText, Fails
        <5>2. \A d \in Conns : stage[d] = "expire" => stage'[d] = "expire"
          BY <3>5, NotFromExpire DEF CountText
        <5>3. \A u \in Users \ {Owner[c]} : ratelimit'[u] = ratelimit[u]
          BY <1>0, <4>2
        <5>4. CASE count = 1
          <6>1. Goto(c, "expire") \/ UNCHANGED ratelimit
            BY <3>5, <5>4 DEF CountText
          <6>2. CASE UNCHANGED ratelimit
            BY <2>1, <5>2, <6>2, TextsKept
          <6>3. CASE Goto(c, "expire")
            <7>1. stage'[c] = "expire"
              BY <6>3 DEF Goto, Base, TypeOK
            <7>2. QED
              BY <2>1, <5>2, <5>3, <7>1 DEF TextsLapse, Of
          <6>4. QED
            BY <6>1, <6>2, <6>3
        <5>5. CASE count # 1
          <6>1. ratelimit[Owner[c]] > 0
            BY <1>0, <5>5 DEF Incr
          <6>2. QED
            BY <2>1, <5>2, <5>3, <6>1 DEF TextsLapse, Of
        <5>6. QED
          BY <5>4, <5>5
      <4>3. QED
        BY <3>5, <4>1, <4>2 DEF CountText
    <3>6. ASSUME NEW u \in Targets, handle_mute_command(c, u) \/ handle_unmute_command(c, u)
                                    \/ handle_ban_command(c, u) \/ handle_unban_command(c, u)
          PROVE  TextsLapse'
      BY <3>1, <3>6 DEF handle_mute_command, handle_unmute_command, handle_ban_command,
                        handle_unban_command, Command, Record, Stages
    <3>7. CASE Audit(c)
      BY <3>1, <3>7 DEF Audit, Stages
    <3>8. QED
      BY <1>6, <3>2, <3>3, <3>4, <3>5, <3>6, <3>7 DEF handle_regular_message, Administer
  <2>4. QED
    BY <2>2, <2>3
<1>7. QED
  BY <1>1, <1>2, <1>3, <1>4, <1>5, <1>6 DEF Next

(* No counter is left without an end, but by a failure between INCR and   *)
(* its EXPIRE.                                                           *)
THEOREM LimitsEnd == Spec => []LimitsLapse
<1>1. Init => AddressLapses /\ TextsLapse
  BY AdmissionAssumption DEF Init, AddressLapses, TextsLapse
<1>2. AddressLapses /\ TextsLapse => LimitsLapse
  BY DEF AddressLapses, TextsLapse, LimitsLapse
<1>3. QED
  BY BaseInit, BaseNext, <1>1, <1>2, LimitsNext, PTL DEF Spec

-----------------------------------------------------------------------------
(* The audit log                                                         *)

LEMMA PendingCount ==
  ASSUME NEW row
  PROVE  Pending(row) \in Nat
<1>1. IsFiniteSet({c \in Conns : row \in pending[c]})
  BY AdmissionAssumption, FS_Subset
<1>2. QED
  BY <1>1, FS_CardinalityType DEF Pending

(* A command makes its row pending, and no other.                        *)
LEMMA RecordCount ==
  ASSUME Base, NEW c \in Conns, stage[c] = "open", NEW kind, NEW u, Record(c, kind, u), NEW row
  PROVE  Pending(row)' = IF row = <<kind, u>> THEN Pending(row) + 1 ELSE Pending(row)
<1> DEFINE rows == {d \in Conns : row \in pending[d]}
<1>1. pending[c] = {} /\ pending' = [pending EXCEPT ![c] = {<<kind, u>>}]
      /\ pending \in [Conns -> SUBSET Rows]
  BY DEF Base, TypeOK, Record
<1>2. IsFiniteSet(rows) /\ c \notin rows
  BY <1>1, AdmissionAssumption, FS_Subset
<1>3. CASE row = <<kind, u>>
  <2>1. {d \in Conns : row \in pending'[d]} = rows \cup {c}
    BY <1>1, <1>3
  <2>2. QED
    BY <1>2, <1>3, <2>1, FS_AddElement DEF Pending
<1>4. CASE row # <<kind, u>>
  <2>1. {d \in Conns : row \in pending'[d]} = rows
    BY <1>1, <1>4
  <2>2. QED
    BY <1>4, <2>1 DEF Pending
<1>5. QED
  BY <1>3, <1>4

LEMMA AuditCount ==
  ASSUME Base, NEW c \in Conns, Audit(c), NEW row
  PROVE  Pending(row)' = IF row \in pending[c] THEN Pending(row) - 1 ELSE Pending(row)
<1> DEFINE rows == {d \in Conns : row \in pending[d]}
<1>1. pending' = [pending EXCEPT ![c] = {}] /\ pending \in [Conns -> SUBSET Rows]
  BY DEF Base, TypeOK, Audit
<1>2. IsFiniteSet(rows)
  BY AdmissionAssumption, FS_Subset
<1>3. {d \in Conns : row \in pending'[d]} = rows \ {c}
  BY <1>1
<1>4. CASE row \in pending[c]
  BY <1>2, <1>3, <1>4, FS_RemoveElement DEF Pending
<1>5. CASE row \notin pending[c]
  <2>1. rows \ {c} = rows
    BY <1>5
  <2>2. QED
    BY <1>3, <1>5, <2>1 DEF Pending
<1>6. QED
  BY <1>4, <1>5

LEMMA LogKept ==
  ASSUME AuditAgrees, UNCHANGED <<pending, audit_log, done>>, failed \subseteq failed'
  PROVE  AuditAgrees'
<1>1. \A row \in Rows : Pending(row)' = Pending(row)
  BY DEF Pending
<1>2. QED
  BY <1>1 DEF AuditAgrees

(* A command was given: it took effect or, if it is not about a ban, need*)
(* not have.                                                             *)
LEMMA LogRecorded ==
  ASSUME Base, AuditAgrees, NEW c \in Conns, stage[c] = "open", NEW kind \in Kinds, NEW u \in Users,
         Record(c, kind, u), UNCHANGED audit_log, failed \subseteq failed',
         Took(kind, u) \/ (UNCHANGED done /\ kind \notin {"ban", "unban"})
  PROVE  AuditAgrees'
<1> SUFFICES ASSUME NEW row \in Rows
             PROVE  /\ row[1] \in {"ban", "unban"} => audit_log[row] + Pending(row)' <= done'[row]
                    /\ failed \cap {"audit", "server"} = {} => done'[row] <= audit_log[row] + Pending(row)'
  BY DEF AuditAgrees
<1>1. Pending(row) \in Nat /\ audit_log[row] \in Nat /\ done[row] \in Nat
      /\ done \in [Rows -> Nat] /\ <<kind, u>> \in Rows
  BY PendingCount DEF Base, TypeOK, Counts, Rows
<1>2. Pending(row)' = IF row = <<kind, u>> THEN Pending(row) + 1 ELSE Pending(row)
  BY RecordCount
<1>3. done'[row] = done[row] \/ (row = <<kind, u>> /\ done'[row] = done[row] + 1)
  BY <1>1 DEF Took
<1>4. row = <<kind, u>> =>
        done'[row] = done[row] + 1 \/ (done'[row] = done[row] /\ row[1] \notin {"ban", "unban"})
  BY <1>1 DEF Took
<1>5. /\ row[1] \in {"ban", "unban"} => audit_log[row] + Pending(row) <= done[row]
      /\ failed \cap {"audit", "server"} = {} => done[row] <= audit_log[row] + Pending(row)
  BY DEF AuditAgrees
<1>6. CASE row = <<kind, u>>
  BY <1>1, <1>2, <1>4, <1>5, <1>6
<1>7. CASE row # <<kind, u>>
  BY <1>1, <1>2, <1>3, <1>5, <1>7
<1>8. QED
  BY <1>6, <1>7

LEMMA LogWritten ==
  ASSUME Base, AuditAgrees, NEW c \in Conns, Audit(c)
  PROVE  AuditAgrees'
<1> SUFFICES ASSUME NEW row \in Rows
             PROVE  /\ row[1] \in {"ban", "unban"} => audit_log'[row] + Pending(row)' <= done[row]
                    /\ failed' \cap {"audit", "server"} = {} => done[row] <= audit_log'[row] + Pending(row)'
  BY DEF AuditAgrees, Audit, ghost
<1>1. Pending(row) \in Nat /\ audit_log[row] \in Nat /\ done[row] \in Nat
  BY PendingCount DEF Base, TypeOK, Counts
<1>2. Pending(row)' = IF row \in pending[c] THEN Pending(row) - 1 ELSE Pending(row)
  BY AuditCount
<1>3. /\ row[1] \in {"ban", "unban"} => audit_log[row] + Pending(row) <= done[row]
      /\ failed \cap {"audit", "server"} = {} => done[row] <= audit_log[row] + Pending(row)
  BY DEF AuditAgrees
<1>4. failed \subseteq failed'
  BY FailedGrows DEF Audit
<1>5. CASE Fails("audit") /\ UNCHANGED audit_log
  <2>1. "audit" \in failed'
    BY <1>5 DEF Fails
  <2>2. QED
    BY <1>1, <1>2, <1>3, <1>5, <2>1
<1>6. CASE audit_log'[row] = IF row \in pending[c] THEN audit_log[row] + 1 ELSE audit_log[row]
  BY <1>1, <1>2, <1>3, <1>4, <1>6
<1>7. QED
  BY <1>5, <1>6 DEF Audit

LEMMA LogNext ==
  ASSUME Base, AuditAgrees, [Next]_vars
  PROVE  AuditAgrees'
<1> USE DEF loop, admin, redis, db, ghost, vars
<1>1. CASE AcceptLoop \/ Handshake \/ Restart \/ Clock \/ UNCHANGED vars
  BY <1>1, LogKept DEF AcceptLoop, Accept, CountAddress, ExpireAddress, Handshake, Restart, Clock,
                       LapseAddress, LapseTexts, LapseMute
<1>2. CASE Crash
  <2>1. \A row \in Rows : Pending(row)' = 0
    BY <1>2, FS_EmptySet DEF Crash, Pending
  <2>2. \A row \in Rows : Pending(row) \in Nat /\ audit_log[row] \in Nat /\ done[row] \in Nat
    BY PendingCount DEF Base, TypeOK, Counts
  <2>3. "server" \in failed' /\ UNCHANGED <<audit_log, done>>
    BY <1>2 DEF Crash, Fails
  <2>4. QED
    BY <2>1, <2>2, <2>3 DEF AuditAgrees
<1>3. ASSUME NEW c \in Conns,
             Dial(c) \/ Close(c) \/ Admit(c) \/ handle_regular_message(c) \/ SendByCommand(c)
      PROVE  AuditAgrees'
  <2>1. UNCHANGED <<pending, audit_log, done>>
    BY <1>3 DEF Dial, Close, Admit, CheckBanned, Enter, SendByCommand,
                handle_regular_message, Text, CheckMuted, CountText, ExpireTexts, Send
  <2>2. failed \subseteq failed'
    BY <1>3, FailedGrows DEF Dial, Close, Admit, CheckBanned, Enter, SendByCommand,
                handle_regular_message, Text, CheckMuted, CountText, ExpireTexts, Send
  <2>3. QED
    BY <2>1, <2>2, LogKept
<1>4. ASSUME NEW c \in Conns, NEW u \in Targets,
             handle_mute_command(c, u) \/ handle_unmute_command(c, u)
             \/ handle_ban_command(c, u) \/ handle_unban_command(c, u)
      PROVE  AuditAgrees'
  <2>1. u \in Users /\ stage[c] = "open" /\ UNCHANGED audit_log
    BY <1>4, AdmissionAssumption DEF handle_mute_command, handle_unmute_command,
                handle_ban_command, handle_unban_command, Command
  <2>2. failed \subseteq failed'
    BY <1>4, FailedGrows DEF handle_mute_command, handle_unmute_command,
                handle_ban_command, handle_unban_command
  <2>3. CASE UNCHANGED <<pending, done>>
    BY <2>1, <2>2, <2>3, LogKept
  <2>4. CASE handle_mute_command(c, u)
    BY <2>1, <2>2, <2>4, LogRecorded DEF handle_mute_command, Kinds
  <2>5. CASE handle_unmute_command(c, u)
    BY <2>1, <2>2, <2>5, LogRecorded DEF handle_unmute_command, Kinds
  <2>6. CASE handle_ban_command(c, u) \/ handle_unban_command(c, u)
    <3>1. \/ UNCHANGED <<pending, done>>
          \/ \E kind \in {"ban", "unban"} : Took(kind, u) /\ Record(c, kind, u)
      BY <2>6 DEF handle_ban_command, handle_unban_command
    <3>2. QED
      BY <2>1, <2>2, <2>3, <3>1, LogRecorded DEF Kinds
  <2>7. QED
    BY <1>4, <2>4, <2>5, <2>6
<1>5. ASSUME NEW c \in Conns, Audit(c)
      PROVE  AuditAgrees'
  BY <1>5, LogWritten
<1>6. QED
  BY <1>1, <1>2, <1>3, <1>4, <1>5 DEF Next, Administer

(* The audit log never tells of a ban that was not made, and misses a    *)
(* command only if that INSERT failed or the server ended before it.     *)
THEOREM LogAgrees == Spec => []AuditAgrees
<1>1. Init => AuditAgrees
  <2> SUFFICES ASSUME Init, NEW row \in Rows
               PROVE  Pending(row) = 0 /\ audit_log[row] = 0 /\ done[row] = 0
    BY DEF AuditAgrees
  <2>1. {c \in Conns : row \in pending[c]} = {}
    BY DEF Init
  <2>2. QED
    BY <2>1, FS_EmptySet DEF Init, Pending
<1>2. QED
  BY BaseInit, BaseNext, <1>1, LogNext, PTL DEF Spec

-----------------------------------------------------------------------------
(* Texts under way: those counted and not sent yet are as good as        *)
(* sent, and those past the gate will not be stopped by a mute.          *)

Group(places, u) == Cardinality({c \in Of(u) : stage[c] \in places})
Counted(u)       == Group({"expire", "send"}, u)
Beyond(u)        == Group({"count", "expire", "send"}, u)
Let              == IF "gate" \in failed THEN 1 ELSE 0

LEMMA GroupCount ==
  ASSUME NEW places, NEW u
  PROVE  /\ Group(places, u) \in Nat /\ Cardinality(Of(u)) \in Nat
         /\ Group(places, u) <= Cardinality(Of(u))
         /\ Group(places, u)' \in Nat
         /\ Group(places, u)' <= Cardinality(Of(u))
<1>1. IsFiniteSet(Of(u))
  BY AdmissionAssumption, FS_Subset DEF Of
<1>2. ASSUME NEW S, S \subseteq Of(u)
      PROVE  Cardinality(S) \in Nat /\ Cardinality(Of(u)) \in Nat
             /\ Cardinality(S) <= Cardinality(Of(u))
  BY <1>1, <1>2, FS_Subset, FS_CardinalityType
<1>3. QED
  BY <1>2 DEF Group

(* The same of the two groups that the properties are about.             *)
LEMMA CountedCount ==
  ASSUME NEW u
  PROVE  /\ Counted(u) \in Nat /\ Counted(u) <= Cardinality(Of(u))
         /\ Counted(u)' \in Nat /\ Cardinality(Of(u)) \in Nat
BY GroupCount DEF Counted

LEMMA BeyondCount ==
  ASSUME NEW u
  PROVE  /\ Beyond(u) \in Nat /\ Beyond(u)' \in Nat
         /\ Beyond(u)' <= Cardinality(Of(u)) /\ Cardinality(Of(u)) \in Nat
BY GroupCount DEF Beyond

LEMMA LetGrows ==
  ASSUME failed \subseteq failed'
  PROVE  Let \in {0, 1} /\ Let' \in {0, 1} /\ Let <= Let'
BY DEF Let

LEMMA NobodyLeft ==
  ASSUME Crash, NEW places, "off" \notin places, NEW u
  PROVE  Group(places, u)' = 0
<1>1. {c \in Of(u) : stage'[c] \in places} = {}
  BY DEF Crash, Of
<1>2. QED
  BY <1>1, FS_EmptySet DEF Group

LEMMA GroupMoves ==
  ASSUME Base, NEW places, NEW u, NEW c \in Conns, NEW place, Goto(c, place)
  PROVE  /\ c \in Of(u) /\ stage[c] \notin places /\ place \in places
               => Group(places, u)' = Group(places, u) + 1
         /\ c \in Of(u) /\ stage[c] \in places /\ place \notin places
               => Group(places, u)' = Group(places, u) - 1
         /\ c \notin Of(u) \/ (stage[c] \in places <=> place \in places)
               => Group(places, u)' = Group(places, u)
<1> DEFINE before == {d \in Of(u) : stage[d] \in places}
           after  == {d \in Of(u) : stage'[d] \in places}
<1>1. stage \in [Conns -> Stages] /\ stage' = [stage EXCEPT ![c] = place] /\ Of(u) \subseteq Conns
  BY DEF Base, TypeOK, Goto, Of
<1>2. IsFiniteSet(before)
  BY <1>1, AdmissionAssumption, FS_Subset
<1>3. CASE c \in Of(u) /\ stage[c] \notin places /\ place \in places
  <2>1. after = before \cup {c} /\ c \notin before
    BY <1>1, <1>3
  <2>2. Group(places, u)' = Group(places, u) + 1
    BY <1>2, <2>1, FS_AddElement DEF Group
  <2>3. QED
    BY <1>3, <2>2
<1>4. CASE c \in Of(u) /\ stage[c] \in places /\ place \notin places
  <2>1. after = before \ {c} /\ c \in before
    BY <1>1, <1>4
  <2>2. Group(places, u)' = Group(places, u) - 1
    BY <1>2, <2>1, FS_RemoveElement DEF Group
  <2>3. QED
    BY <1>4, <2>2
<1>5. CASE c \notin Of(u) \/ (stage[c] \in places <=> place \in places)
  <2>1. after = before
    BY <1>1, <1>5
  <2>2. Group(places, u)' = Group(places, u)
    BY <2>1 DEF Group
  <2>3. QED
    BY <1>5, <2>2
<1>6. QED
  BY <1>3, <1>4, <1>5

(* Nobody joins a group by going elsewhere, or by staying in it.         *)
LEMMA NobodyJoins ==
  ASSUME Base, NEW places, NEW u,
         \/ UNCHANGED stage
         \/ \E c, place : /\ c \in Conns
                          /\ Goto(c, place)
                          /\ place \notin places \/ stage[c] \in places
  PROVE  Group(places, u)' <= Group(places, u)
<1>1. Group(places, u) \in Nat
  BY GroupCount
<1>2. CASE UNCHANGED stage
  <2>1. Group(places, u)' = Group(places, u)
    BY <1>2 DEF Group
  <2>2. QED
    BY <1>1, <2>1
<1>3. CASE \E c, place : /\ c \in Conns
                         /\ Goto(c, place)
                         /\ place \notin places \/ stage[c] \in places
  <2>1. PICK c, place : /\ c \in Conns
                        /\ Goto(c, place)
                        /\ place \notin places \/ stage[c] \in places
    BY <1>3
  <2>2. CASE c \in Of(u) /\ stage[c] \in places /\ place \notin places
    BY <1>1, <2>1, <2>2, GroupMoves
  <2>3. CASE c \notin Of(u) \/ (stage[c] \in places <=> place \in places)
    <3>1. Group(places, u)' = Group(places, u)
      BY <2>1, <2>3, GroupMoves
    <3>2. QED
      BY <1>1, <3>1
  <2>4. QED
    BY <2>1, <2>2, <2>3
<1>4. QED
  BY <1>2, <1>3

(* What moves a session but takes no text any further.                   *)
LEMMA OtherSteps ==
  ASSUME Base,
         \/ AcceptLoop \/ Handshake \/ Restart \/ UNCHANGED vars \/ LapseAddress
         \/ \E c \in Conns : Dial(c) \/ Close(c) \/ Admit(c) \/ Text(c) \/ SendByCommand(c) \/ Audit(c)
         \/ \E c \in Conns, u \in Targets : handle_ban_command(c, u) \/ handle_unban_command(c, u)
  PROVE  /\ UNCHANGED <<passed, spoken, ratelimit, muted>> /\ failed \subseteq failed'
         /\ \/ UNCHANGED stage
            \/ \E c \in Conns, place \in Stages \ {"count", "expire", "send"} : Goto(c, place)
<1> USE DEF loop, admin, redis, db, ghost, vars
<1>1. CASE AcceptLoop \/ Handshake
  <2>1. CASE Accept
    <3>1. peer' \in Conns
      BY <2>1 DEF Accept, Base, TypeOK
    <3>2. QED
      BY <2>1, <3>1 DEF Accept, Stages
  <2>2. CASE CountAddress
    <3>1. peer \in Conns
      BY <2>2 DEF CountAddress, Base, TypeOK
    <3>2. QED
      BY <2>2, <3>1 DEF CountAddress, Release, Stages
  <2>3. CASE ExpireAddress
    BY <2>3 DEF ExpireAddress
  <2>4. CASE Handshake
    <3>1. peer \in Conns
      BY <2>4 DEF Handshake, Base, TypeOK
    <3>2. PICK place \in {"named", "off"} : Release(place)
      BY <2>4 DEF Handshake
    <3>3. Goto(peer, place) /\ place \in Stages \ {"count", "expire", "send"}
      BY <3>2 DEF Release, Stages
    <3>4. QED
      BY <2>4, <3>1, <3>3 DEF Handshake
  <2>5. QED
    BY <1>1, <2>1, <2>2, <2>3, <2>4 DEF AcceptLoop
<1>2. CASE Restart \/ UNCHANGED vars \/ LapseAddress
  BY <1>2 DEF Restart, LapseAddress
<1>3. ASSUME NEW c \in Conns,
             Dial(c) \/ Close(c) \/ Admit(c) \/ Text(c) \/ SendByCommand(c) \/ Audit(c)
      PROVE  /\ UNCHANGED <<passed, spoken, ratelimit, muted>> /\ failed \subseteq failed'
             /\ \E place \in Stages \ {"count", "expire", "send"} : Goto(c, place)
  <2>1. CASE Dial(c) \/ Close(c) \/ Text(c)
    BY <2>1 DEF Dial, Close, Text, Stages
  <2>2. CASE Admit(c)
    BY <2>2, FailedGrows DEF Admit, CheckBanned, Enter, Stages
  <2>3. CASE Audit(c)
    BY <2>3, FailedGrows DEF Audit, Stages
  <2>4. CASE SendByCommand(c)
    BY <2>4, FailedGrows DEF SendByCommand, Stages
  <2>5. QED
    BY <1>3, <2>1, <2>2, <2>3, <2>4
<1>4. ASSUME NEW c \in Conns, NEW u \in Targets,
             handle_ban_command(c, u) \/ handle_unban_command(c, u)
      PROVE  /\ UNCHANGED <<passed, spoken, ratelimit, muted>> /\ failed \subseteq failed'
             /\ \/ UNCHANGED stage
                \/ \E place \in Stages \ {"count", "expire", "send"} : Goto(c, place)
  BY <1>4, FailedGrows DEF handle_ban_command, handle_unban_command, Record, Stages
<1>5. QED
  BY <1>1, <1>2, <1>3, <1>4

(* A line that is sent leaves those under way.                           *)
LEMMA SendMoves ==
  ASSUME Base, NEW c \in Conns, Send(c), NEW places, "send" \in places,
         "open" \notin places, "off" \notin places, NEW u
  PROVE  Group(places, u)' = IF u = Owner[c] THEN Group(places, u) - 1 ELSE Group(places, u)
<1>1. PICK place \in {"open", "off"} : Goto(c, place)
  BY DEF Send
<1>2. stage[c] = "send"
  BY DEF Send
<1>3. c \in Of(u) <=> u = Owner[c]
  BY DEF Of
<1>4. QED
  BY <1>1, <1>2, <1>3, GroupMoves

-----------------------------------------------------------------------------
(* The limit of a user                                                   *)

\* No more lines are sent and under way than were counted, but for one on
\* each connection from before the window.
Bounded ==
  \A u \in Users :
    passed[u] + Counted(u) <= (IF ratelimit[u] < TextLimit THEN ratelimit[u] ELSE TextLimit)
                                + Cardinality(Of(u))

LEMMA BoundKept ==
  ASSUME Base, Bounded, UNCHANGED <<passed, ratelimit>>,
         \A u \in Users : Counted(u)' <= Counted(u)
  PROVE  Bounded'
<1> SUFFICES ASSUME NEW u \in Users
             PROVE  passed[u] + Counted(u)' <=
                      (IF ratelimit[u] < TextLimit THEN ratelimit[u] ELSE TextLimit)
                      + Cardinality(Of(u))
  BY DEF Bounded, Of
<1>1. /\ passed[u] \in Nat /\ Counted(u) \in Nat /\ Counted(u)' \in Nat /\ Counted(u)' <= Counted(u)
      /\ Cardinality(Of(u)) \in Nat /\ ratelimit[u] \in Nat /\ TextLimit \in Nat
  BY CountedCount, AdmissionAssumption DEF Base, TypeOK, Counts
<1>2. passed[u] + Counted(u) <= (IF ratelimit[u] < TextLimit THEN ratelimit[u] ELSE TextLimit)
                                + Cardinality(Of(u))
  BY DEF Bounded
<1>3. QED
  BY <1>1, <1>2

LEMMA CountTextBound ==
  ASSUME Base, Bounded, NEW c \in Conns, CountText(c)
  PROVE  Bounded'
<1> DEFINE count == Incr(ratelimit[Owner[c]], TextLimit)
<1>1. CASE Fails("request") /\ UNCHANGED ratelimit
  <2>1. Goto(c, "off") /\ UNCHANGED passed
    BY <1>1 DEF CountText, Fails, Works, ghost
  <2>2. QED
    BY <1>1, <2>1, NobodyJoins, BoundKept DEF Counted
<1>2. CASE ratelimit' = [ratelimit EXCEPT ![Owner[c]] = count]
           /\ Goto(c, CASE count = 1 -> "expire" [] count > TextLimit -> "open" [] OTHER -> "send")
  <2> SUFFICES ASSUME NEW u \in Users
               PROVE  passed[u] + Counted(u)' <=
                        (IF ratelimit'[u] < TextLimit THEN ratelimit'[u] ELSE TextLimit)
                        + Cardinality(Of(u))
    BY DEF Bounded, Of, CountText, ghost
  <2>1. /\ passed[u] \in Nat /\ Counted(u) \in Nat /\ Cardinality(Of(u)) \in Nat
        /\ ratelimit[u] \in 0 .. TextLimit + 1 /\ TextLimit \in Nat \ {0}
        /\ ratelimit \in [Users -> 0 .. TextLimit + 1]
    BY CountedCount, AdmissionAssumption DEF Base, TypeOK, Counts
  <2>2. passed[u] + Counted(u) <= (IF ratelimit[u] < TextLimit THEN ratelimit[u] ELSE TextLimit)
                                  + Cardinality(Of(u))
    BY DEF Bounded
  <2>3. stage[c] = "count"
    BY DEF CountText
  <2>4. CASE u # Owner[c]
    <3>1. c \notin Of(u) /\ ratelimit'[u] = ratelimit[u]
      BY <1>2, <2>1, <2>4 DEF Of
    <3>2. Counted(u)' = Counted(u)
      BY <1>2, <3>1, GroupMoves DEF Counted
    <3>3. QED
      BY <2>2, <3>1, <3>2
  <2>5. CASE u = Owner[c]
    <3>1. c \in Of(u) /\ ratelimit'[u] = count
      BY <1>2, <2>1, <2>5 DEF Of
    <3>2. CASE ratelimit[u] < TextLimit
      <4>1. count = ratelimit[u] + 1 /\ count <= TextLimit
        BY <2>1, <2>5, <3>2 DEF Incr
      <4>2. PICK place \in {"expire", "send"} : Goto(c, place)
        BY <1>2, <2>1, <4>1
      <4>3. Counted(u)' = Counted(u) + 1
        BY <2>3, <3>1, <4>2, GroupMoves DEF Counted
      <4>4. QED
        BY <2>1, <2>2, <3>1, <3>2, <4>1, <4>3
    <3>3. CASE ~(ratelimit[u] < TextLimit)
      <4>1. count \in Nat /\ count > TextLimit /\ count # 1
        BY <2>1, <2>5, <3>3 DEF Incr
      <4>2. PICK place : Goto(c, place) /\ place = (CASE count = 1 -> "expire"
                                                     [] count > TextLimit -> "open"
                                                     [] OTHER -> "send")
        BY <1>2
      <4> place = "open"
        BY <4>1, <4>2
      <4>3. Counted(u)' = Counted(u)
        <5>1. stage[c] \notin {"expire", "send"} /\ place \notin {"expire", "send"}
          BY <2>3
        <5>2. QED
          BY <4>2, <5>1, GroupMoves DEF Counted
      <4>4. ~(ratelimit'[u] < TextLimit)
        <5> HIDE DEF count
        <5>1. QED
          BY <2>1, <3>1, <4>1
      <4>5. QED
        BY <2>2, <3>3, <4>3, <4>4
    <3>4. QED
      BY <3>2, <3>3
  <2>6. QED
    BY <2>4, <2>5
<1>3. QED
  BY <1>1, <1>2 DEF CountText

LEMMA SendBound ==
  ASSUME Base, Bounded, NEW c \in Conns, Send(c)
  PROVE  Bounded'
<1> SUFFICES ASSUME NEW u \in Users
             PROVE  passed'[u] + Counted(u)' <=
                      (IF ratelimit[u] < TextLimit THEN ratelimit[u] ELSE TextLimit)
                      + Cardinality(Of(u))
  BY DEF Bounded, Of, Send, redis
<1>1. passed[u] \in Nat /\ Counted(u) \in Nat /\ passed \in [Users -> Nat]
  BY CountedCount DEF Base, TypeOK, Counts
<1>2. Counted(u)' = IF u = Owner[c] THEN Counted(u) - 1 ELSE Counted(u)
  BY SendMoves DEF Counted
<1>3. passed'[u] = IF u = Owner[c] THEN passed[u] + 1 ELSE passed[u]
  BY <1>1 DEF Send
<1>4. passed'[u] + Counted(u)' = passed[u] + Counted(u)
  BY <1>1, <1>2, <1>3
<1>5. QED
  BY <1>4 DEF Bounded

LEMMA BoundNext ==
  ASSUME Base, Bounded, [Next]_vars
  PROVE  Bounded'
<1>1. ASSUME \/ AcceptLoop \/ Handshake \/ Restart \/ UNCHANGED vars \/ LapseAddress
             \/ \E c \in Conns : Dial(c) \/ Close(c) \/ Admit(c) \/ Text(c) \/ SendByCommand(c) \/ Audit(c)
             \/ \E c \in Conns, u \in Targets : handle_ban_command(c, u) \/ handle_unban_command(c, u)
      PROVE  Bounded'
  <2>1. \/ UNCHANGED stage
        \/ \E c \in Conns, place \in Stages \ {"count", "expire", "send"} : Goto(c, place)
    BY <1>1, OtherSteps
  <2>2. \A u \in Users : Counted(u)' <= Counted(u)
    BY <2>1, NobodyJoins DEF Counted
  <2>3. UNCHANGED <<passed, ratelimit>>
    BY <1>1, OtherSteps
  <2>4. QED
    BY <2>2, <2>3, BoundKept
<1>2. CASE Crash
  <2>1. \A u \in Users : Counted(u)' = 0
    BY <1>2, NobodyLeft DEF Counted
  <2>2. \A u \in Users : Counted(u) \in Nat
    BY CountedCount
  <2>3. QED
    BY <1>2, <2>1, <2>2, BoundKept DEF Crash, redis
<1>3. ASSUME NEW c \in Conns, CheckMuted(c) \/ ExpireTexts(c)
      PROVE  Bounded'
  <2>1. \E place : Goto(c, place) /\ (place \notin {"expire", "send"} \/ stage[c] \in {"expire", "send"})
    BY <1>3 DEF CheckMuted, ExpireTexts
  <2>2. UNCHANGED <<passed, ratelimit>>
    BY <1>3 DEF CheckMuted, ExpireTexts, redis, ghost
  <2>3. QED
    BY <2>1, <2>2, NobodyJoins, BoundKept DEF Counted
<1>4. ASSUME NEW c \in Conns, NEW u \in Targets,
             handle_mute_command(c, u) \/ handle_unmute_command(c, u)
      PROVE  Bounded'
  <2>1. Goto(c, "audit") /\ UNCHANGED <<passed, ratelimit>>
    BY <1>4 DEF handle_mute_command, handle_unmute_command, Record
  <2>2. QED
    BY <2>1, NobodyJoins, BoundKept DEF Counted
<1>5. ASSUME NEW u \in Users, LapseTexts(u)
      PROVE  Bounded'
  <2> SUFFICES ASSUME NEW v \in Users
               PROVE  passed'[v] + Counted(v)' <=
                        (IF ratelimit'[v] < TextLimit THEN ratelimit'[v] ELSE TextLimit)
                        + Cardinality(Of(v))
    BY DEF Bounded, Of
  <2>1. Counted(v)' = Counted(v)
    BY <1>5 DEF LapseTexts, Counted, Group
  <2>2. /\ Counted(v) \in Nat /\ Counted(v) <= Cardinality(Of(v)) /\ Cardinality(Of(v)) \in Nat
        /\ passed \in [Users -> Nat] /\ ratelimit \in [Users -> 0 .. TextLimit + 1]
        /\ TextLimit \in Nat \ {0}
    BY CountedCount, AdmissionAssumption DEF Base, TypeOK, Counts
  <2>3. CASE v = u
    <3>1. passed'[v] = 0 /\ ratelimit'[v] = 0
      BY <1>5, <2>2, <2>3 DEF LapseTexts
    <3>2. QED
      BY <2>1, <2>2, <3>1
  <2>4. CASE v # u
    <3>1. passed'[v] = passed[v] /\ ratelimit'[v] = ratelimit[v]
      BY <1>5, <2>2, <2>4 DEF LapseTexts
    <3>2. QED
      BY <2>1, <3>1 DEF Bounded
  <2>5. QED
    BY <2>3, <2>4
<1>6. ASSUME NEW u \in Users, LapseMute(u)
      PROVE  Bounded'
  BY <1>6, NobodyJoins, BoundKept DEF LapseMute, Counted
<1>7. QED
  BY <1>1, <1>2, <1>3, <1>4, <1>5, <1>6, CountTextBound, SendBound
     DEF Next, Clock, handle_regular_message, Administer

(* In one window of the limit no user gets more texts out than the limit,*)
(* and one for each connection that was counted in the window before.    *)
THEOREM SendsStayBounded == Spec => []SendsBounded
<1>1. Init => Bounded
  <2> SUFFICES ASSUME Init, NEW u \in Users
               PROVE  passed[u] + Counted(u) <=
                        (IF ratelimit[u] < TextLimit THEN ratelimit[u] ELSE TextLimit)
                        + Cardinality(Of(u))
    BY DEF Bounded
  <2>1. {c \in Of(u) : stage[c] \in {"expire", "send"}} = {}
    BY DEF Init, Of
  <2>2. Counted(u) = 0
    BY <2>1, FS_EmptySet DEF Counted, Group
  <2>3. passed[u] = 0 /\ ratelimit[u] = 0
    BY DEF Init
  <2>4. QED
    BY <2>2, <2>3, GroupCount, AdmissionAssumption
<1>2. Base /\ Bounded => SendsBounded
  <2> SUFFICES ASSUME Base, Bounded, NEW u \in Users
               PROVE  passed[u] <= TextLimit + Cardinality(Of(u))
    BY DEF SendsBounded
  <2>1. /\ passed[u] \in Nat /\ Counted(u) \in Nat /\ Cardinality(Of(u)) \in Nat
        /\ ratelimit[u] \in Nat /\ TextLimit \in Nat
    BY CountedCount, AdmissionAssumption DEF Base, TypeOK, Counts
  <2>2. passed[u] + Counted(u) <= (IF ratelimit[u] < TextLimit THEN ratelimit[u] ELSE TextLimit)
                                  + Cardinality(Of(u))
    BY DEF Bounded
  <2>3. QED
    BY <2>1, <2>2
<1>3. QED
  BY BaseInit, BaseNext, <1>1, <1>2, BoundNext, PTL DEF Spec

-----------------------------------------------------------------------------
(* Mutes                                                                 *)

\* A muted user has at most one line out or past the gate on each connection,
\* and one that a failed query let through.
Silent ==
  \A u \in Users :
    IF u \in muted THEN spoken[u] + Beyond(u) <= Cardinality(Of(u)) + Let
                   ELSE spoken[u] = 0

LEMMA SilenceKept ==
  ASSUME Base, Silent, UNCHANGED <<muted, spoken>>, failed \subseteq failed',
         \A u \in Users : Beyond(u)' <= Beyond(u)
  PROVE  Silent'
<1> SUFFICES ASSUME NEW u \in Users
             PROVE  IF u \in muted THEN spoken[u] + Beyond(u)' <= Cardinality(Of(u)) + Let'
                                   ELSE spoken[u] = 0
  BY DEF Silent, Of
<1>1. /\ spoken[u] \in Nat /\ Beyond(u) \in Nat /\ Beyond(u)' \in Nat /\ Beyond(u)' <= Beyond(u)
      /\ Cardinality(Of(u)) \in Nat /\ Let \in {0, 1} /\ Let' \in {0, 1} /\ Let <= Let'
  BY BeyondCount, LetGrows DEF Base, TypeOK, Counts
<1>2. IF u \in muted THEN spoken[u] + Beyond(u) <= Cardinality(Of(u)) + Let
                     ELSE spoken[u] = 0
  BY DEF Silent
<1>3. QED
  BY <1>1, <1>2

\* The gate lets a line of a user who is not muted through, or one whose
\* query failed.
LEMMA GateSilence ==
  ASSUME Base, Silent, NEW c \in Conns, CheckMuted(c)
  PROVE  Silent'
<1> SUFFICES ASSUME NEW u \in Users
             PROVE  IF u \in muted THEN spoken[u] + Beyond(u)' <= Cardinality(Of(u)) + Let'
                                   ELSE spoken[u] = 0
  BY DEF Silent, Of, CheckMuted, redis, ghost
<1>1. /\ spoken[u] \in Nat /\ Beyond(u) \in Nat /\ Cardinality(Of(u)) \in Nat
      /\ Let \in {0, 1} /\ Let' \in {0, 1} /\ Let <= Let'
  <2>1. failed \subseteq failed'
    BY FailedGrows DEF CheckMuted
  <2>2. QED
    BY <2>1, BeyondCount, LetGrows DEF Base, TypeOK, Counts
<1>2. IF u \in muted THEN spoken[u] + Beyond(u) <= Cardinality(Of(u)) + Let
                     ELSE spoken[u] = 0
  BY DEF Silent
<1>3. CASE u \in muted /\ Fails("gate")
  <2>1. Let = 0 /\ Let' = 1
    BY <1>3 DEF Let, Fails
  <2>2. PICK place \in {"open", "count"} : Goto(c, place)
    BY DEF CheckMuted
  <2>3. Beyond(u)' <= Beyond(u) + 1
    <3>1. stage[c] \notin {"count", "expire", "send"}
      BY DEF CheckMuted
    <3>2. Beyond(u)' = Beyond(u) + 1 \/ Beyond(u)' = Beyond(u)
      BY <2>2, <3>1, GroupMoves DEF Beyond
    <3>3. QED
      BY <1>1, <3>2
  <2>4. Beyond(u)' \in Nat
    BY GroupCount DEF Beyond
  <2>5. QED
    BY <1>1, <1>2, <1>3, <2>1, <2>3, <2>4
<1>4. CASE u \in muted /\ Works
  <2>1. c \notin Of(u) \/ Goto(c, "open")
    BY <1>4 DEF CheckMuted, Of, Fails, Works
  <2>2. PICK place \in {"open", "count"} : Goto(c, place) /\ (c \notin Of(u) \/ place = "open")
    BY <2>1 DEF CheckMuted
  <2>3. stage[c] \notin {"count", "expire", "send"}
    BY DEF CheckMuted
  <2>4. Beyond(u)' = Beyond(u)
    BY <2>2, <2>3, GroupMoves DEF Beyond
  <2>5. QED
    BY <1>1, <1>2, <1>4, <2>4
<1>5. CASE u \notin muted
  BY <1>2, <1>5
<1>6. QED
  BY <1>3, <1>4, <1>5 DEF CheckMuted

LEMMA SendSilence ==
  ASSUME Base, Silent, NEW c \in Conns, Send(c)
  PROVE  Silent'
<1> SUFFICES ASSUME NEW u \in Users
             PROVE  IF u \in muted THEN spoken'[u] + Beyond(u)' <= Cardinality(Of(u)) + Let'
                                   ELSE spoken'[u] = 0
  BY DEF Silent, Of, Send, redis
<1>1. /\ spoken[u] \in Nat /\ spoken \in [Users -> Nat] /\ Beyond(u) \in Nat
      /\ Cardinality(Of(u)) \in Nat
      /\ Let \in {0, 1} /\ Let' \in {0, 1} /\ Let <= Let'
  <2>1. failed \subseteq failed'
    BY FailedGrows DEF Send
  <2>2. QED
    BY <2>1, BeyondCount, LetGrows DEF Base, TypeOK, Counts
<1>2. IF u \in muted THEN spoken[u] + Beyond(u) <= Cardinality(Of(u)) + Let
                     ELSE spoken[u] = 0
  BY DEF Silent
<1>3. Beyond(u)' = IF u = Owner[c] THEN Beyond(u) - 1 ELSE Beyond(u)
  BY SendMoves DEF Beyond
<1>4. spoken'[u] = IF u = Owner[c] /\ u \in muted THEN spoken[u] + 1 ELSE spoken[u]
  BY <1>1 DEF Send
<1>5. u \in muted => spoken'[u] + Beyond(u)' = spoken[u] + Beyond(u)
  BY <1>1, <1>3, <1>4
<1>6. QED
  BY <1>1, <1>2, <1>4, <1>5

\* /mute finds at most one line past the gate on each connection.
LEMMA MuteSilence ==
  ASSUME Base, Silent, NEW u \in Users, NEW c \in Conns, Goto(c, "audit"),
         failed \subseteq failed',
         \/ muted' = muted \cup {u} /\ UNCHANGED spoken
         \/ muted' = muted \ {u} /\ spoken' = [spoken EXCEPT ![u] = 0]
         \/ UNCHANGED <<muted, spoken>>
  PROVE  Silent'
<1> SUFFICES ASSUME NEW v \in Users
             PROVE  IF v \in muted' THEN spoken'[v] + Beyond(v)' <= Cardinality(Of(v)) + Let'
                                    ELSE spoken'[v] = 0
  BY DEF Silent, Of
<1>1. /\ spoken[v] \in Nat /\ spoken \in [Users -> Nat] /\ Beyond(v) \in Nat /\ Beyond(v)' \in Nat
      /\ Cardinality(Of(v)) \in Nat /\ Beyond(v)' <= Cardinality(Of(v))
      /\ Let \in {0, 1} /\ Let' \in {0, 1} /\ Let <= Let'
  BY BeyondCount, LetGrows DEF Base, TypeOK, Counts
<1>2. Beyond(v)' <= Beyond(v)
  BY NobodyJoins DEF Beyond
<1>3. IF v \in muted THEN spoken[v] + Beyond(v) <= Cardinality(Of(v)) + Let
                     ELSE spoken[v] = 0
  BY DEF Silent
<1>4. CASE spoken'[v] = spoken[v] /\ (v \in muted' <=> v \in muted)
  BY <1>1, <1>2, <1>3, <1>4
<1>5. CASE spoken'[v] = spoken[v] /\ v \in muted' /\ v \notin muted
  BY <1>1, <1>3, <1>5
<1>6. CASE spoken'[v] = 0 /\ v \notin muted'
  BY <1>6
<1>7. QED
  BY <1>1, <1>4, <1>5, <1>6

LEMMA SilentNext ==
  ASSUME Base, Silent, [Next]_vars
  PROVE  Silent'
<1> USE DEF redis, ghost
<1>1. ASSUME \/ AcceptLoop \/ Handshake \/ Restart \/ UNCHANGED vars \/ LapseAddress
             \/ \E c \in Conns : Dial(c) \/ Close(c) \/ Admit(c) \/ Text(c) \/ SendByCommand(c) \/ Audit(c)
             \/ \E c \in Conns, u \in Targets : handle_ban_command(c, u) \/ handle_unban_command(c, u)
      PROVE  Silent'
  <2>1. \/ UNCHANGED stage
        \/ \E c \in Conns, place \in Stages \ {"count", "expire", "send"} : Goto(c, place)
    BY <1>1, OtherSteps
  <2>2. \A u \in Users : Beyond(u)' <= Beyond(u)
    BY <2>1, NobodyJoins DEF Beyond
  <2>3. UNCHANGED <<muted, spoken>> /\ failed \subseteq failed'
    BY <1>1, OtherSteps
  <2>4. QED
    BY <2>2, <2>3, SilenceKept
<1>2. CASE Crash
  <2>1. \A u \in Users : Beyond(u)' = 0
    BY <1>2, NobodyLeft DEF Beyond
  <2>2. \A u \in Users : Beyond(u) \in Nat
    BY BeyondCount
  <2>3. QED
    BY <1>2, <2>1, <2>2, FailedGrows, SilenceKept DEF Crash
<1>3. ASSUME NEW c \in Conns, CountText(c) \/ ExpireTexts(c)
      PROVE  Silent'
  <2>1. stage[c] \in {"count", "expire", "send"} /\ \E place : Goto(c, place)
    BY <1>3 DEF CountText, ExpireTexts
  <2>2. UNCHANGED <<muted, spoken>> /\ failed \subseteq failed'
    BY <1>3, FailedGrows DEF CountText, ExpireTexts
  <2>3. QED
    BY <2>1, <2>2, NobodyJoins, SilenceKept DEF Beyond
<1>4. ASSUME NEW c \in Conns, NEW u \in Targets,
             handle_mute_command(c, u) \/ handle_unmute_command(c, u)
      PROVE  Silent'
  <2>1. u \in Users /\ Goto(c, "audit") /\ failed \subseteq failed'
    BY <1>4, AdmissionAssumption, FailedGrows
       DEF handle_mute_command, handle_unmute_command, Record
  <2>2. \/ muted' = muted \cup {u} /\ UNCHANGED spoken
        \/ muted' = muted \ {u} /\ spoken' = [spoken EXCEPT ![u] = 0]
        \/ UNCHANGED <<muted, spoken>>
    BY <1>4 DEF handle_mute_command, handle_unmute_command
  <2>3. QED
    BY <2>1, <2>2, MuteSilence
<1>5. ASSUME NEW u \in Users, LapseTexts(u)
      PROVE  Silent'
  BY <1>5, NobodyJoins, SilenceKept DEF LapseTexts, Beyond
<1>6. ASSUME NEW u \in Users, LapseMute(u)
      PROVE  Silent'
  <2> SUFFICES ASSUME NEW v \in Users
               PROVE  IF v \in muted' THEN spoken'[v] + Beyond(v)' <= Cardinality(Of(v)) + Let'
                                      ELSE spoken'[v] = 0
    BY DEF Silent, Of
  <2>1. Beyond(v)' = Beyond(v) /\ Let' = Let
    BY <1>6 DEF LapseMute, Beyond, Group, Let
  <2>2. IF v \in muted THEN spoken[v] + Beyond(v) <= Cardinality(Of(v)) + Let
                       ELSE spoken[v] = 0
    BY DEF Silent
  <2>3. spoken \in [Users -> Nat]
    BY DEF Base, TypeOK, Counts
  <2>4. QED
    BY <1>6, <2>1, <2>2, <2>3 DEF LapseMute
<1>7. QED
  BY <1>1, <1>2, <1>3, <1>4, <1>5, <1>6, GateSilence, SendSilence
     DEF Next, Clock, handle_regular_message, Administer

(* Under a mute a user gets at most one text out on each connection, and *)
(* one more if the gate failed to ask.  Texts only: /msg, /image and     *)
(* /audio ask nobody.                                                    *)
THEOREM MutesStopTexts == Spec => []MuteStopsTexts
<1>1. Init => Silent
  BY DEF Init, Silent
<1>2. Base /\ Silent => MuteStopsTexts
  <2> SUFFICES ASSUME Base, Silent, NEW u \in muted
               PROVE  spoken[u] <= Cardinality(Of(u)) + Let
    BY DEF MuteStopsTexts, Let
  <2>1. /\ u \in Users /\ spoken[u] \in Nat /\ Beyond(u) \in Nat
        /\ Cardinality(Of(u)) \in Nat /\ Let \in {0, 1}
    BY BeyondCount DEF Base, TypeOK, Counts, Let
  <2>2. spoken[u] + Beyond(u) <= Cardinality(Of(u)) + Let
    BY <2>1 DEF Silent
  <2>3. QED
    BY <2>1, <2>2
<1>3. QED
  BY BaseInit, BaseNext, <1>1, <1>2, SilentNext, PTL DEF Spec
=============================================================================

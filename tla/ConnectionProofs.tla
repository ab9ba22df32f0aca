-------------------------- MODULE ConnectionProofs --------------------------
(***************************************************************************)
(* Theorems about Connection, for any sessions, users, window, life of the *)
(* presence key and any number of lines and failures.                      *)
(***************************************************************************)
EXTENDS Connection, SequenceTheorems, TLAPS

-----------------------------------------------------------------------------
(* Types *)

Texts  == Seq(Nat \X Pieces)
Heads  == Seq(Nat \X {"head"})
Queues == Seq(Frames)

TypeInput ==
  /\ inbox \in [Conns -> Texts] /\ taken \in [Conns -> Heads] /\ line \in [Conns -> Texts]
  /\ eof \in [Conns -> BOOLEAN] /\ broken \in [Conns -> BOOLEAN]
  /\ sent \in [Conns -> Nat] /\ faults \in 0 .. MaxFaults
  /\ handled \in [Conns -> Nat]

TypeOutput ==
  /\ out_rx \in [Conns -> Queues] /\ writing \in [Conns -> Queues] /\ socket \in [Conns -> Queues]
  /\ queued \in [Conns -> Nat]
  /\ got \in [Conns -> Nat]

TypeClock ==
  /\ due \in [Conns -> BOOLEAN]
  /\ presence \in [Users -> 0 .. Ttl]
  /\ missed \in [Conns -> 0 .. Ttl]
  /\ erased \in [Conns -> BOOLEAN]

TypeStage ==
  /\ stage \in [Conns -> {"off", "select", "write", "closed"} \cup Handlers]
  /\ \A c \in Conns : stage[c] = "write" <=> writing[c] # <<>>
  /\ \A c \in Conns : stage[c] \in Handlers <=> line[c] # <<>>

LEMMA TypeParts == TypeOK <=> TypeInput /\ TypeOutput /\ TypeClock /\ TypeStage
BY DEF TypeOK, TypeInput, TypeOutput, TypeClock, TypeStage, Texts, Heads, Queues

LEMMA NoneIsASeq == <<>> \in Texts /\ <<>> \in Heads /\ <<>> \in Queues
BY DEF Texts, Heads, Queues

\* What read_line took is the start of a line.
LEMMA TakenIsText ==
  ASSUME NEW s \in Texts, NEW t \in Heads
  PROVE  s \o t \in Texts
<1>1. t \in Seq(Nat \X Pieces)
  BY DEF Pieces, Heads
<1>2. QED
  BY <1>1 DEF Texts

LEMMA FirstAndRest ==
  ASSUME NEW s \in Texts, s # <<>>
  PROVE  Head(s) \in Nat \X Pieces /\ Tail(s) \in Texts
BY DEF Texts

LEMMA AppendText ==
  ASSUME NEW s \in Texts, NEW x \in Nat \X Pieces
  PROVE  Append(s, x) \in Texts /\ Append(s, x) # <<>>
<1>1. Append(s, x) \in Texts /\ Len(Append(s, x)) = Len(s) + 1 /\ Len(s) \in Nat
  BY DEF Texts
<1>2. ASSUME Append(s, x) = <<>> PROVE FALSE
  <2>1. Len(Append(s, x)) = 0
    BY <1>2
  <2>2. QED
    BY <1>1, <2>1
<1>3. QED
  BY <1>1, <1>2

LEMMA AppendToOne ==
  ASSUME NEW S, NEW a \in S, NEW b \in S
  PROVE  Append(<<a>>, b) = <<a, b>>
<1>1. <<a>> \in Seq(S) /\ <<a, b>> \in Seq(S)
  OBVIOUS
<1>2. /\ Append(<<a>>, b) \in Seq(S) /\ Len(Append(<<a>>, b)) = 2
      /\ Append(<<a>>, b)[1] = a /\ Append(<<a>>, b)[2] = b
  BY <1>1
<1>3. Len(<<a, b>>) = 2 /\ <<a, b>>[1] = a /\ <<a, b>>[2] = b
  OBVIOUS
<1>4. \A i \in 1 .. 2 : Append(<<a>>, b)[i] = <<a, b>>[i]
  <2>1. \A i \in 1 .. 2 : i = 1 \/ i = 2
    OBVIOUS
  <2>2. QED
    BY <1>2, <1>3, <2>1
<1> DEFINE s == Append(<<a>>, b)
           t == <<a, b>>
<1>5. s \in Seq(S) /\ t \in Seq(S) /\ Len(s) = 2 /\ Len(t) = 2 /\ \A i \in 1 .. 2 : s[i] = t[i]
  BY <1>1, <1>2, <1>3, <1>4
<1> HIDE DEF s, t
<1>6. s = t
  BY <1>5, SeqEqual
<1>7. QED
  BY <1>6 DEF s, t

LEMMA AppendFrame ==
  ASSUME NEW q \in Queues, NEW x \in Frames
  PROVE  Append(q, x) \in Queues
BY DEF Queues

(* Whether a Redis command works or fails, the count of failures and the   *)
(* marks of broken connections keep their types.                           *)
LEMMA RedisTypes ==
  ASSUME TypeInput, NEW c \in Conns, RedisWorks(c) \/ RedisFails(c)
  PROVE  faults' \in 0 .. MaxFaults /\ broken' \in [Conns -> BOOLEAN]
<1> USE ConnectionAssumption
<1>1. CASE UNCHANGED <<faults, broken>>
  BY <1>1 DEF TypeInput
<1>2. CASE faults < MaxFaults /\ faults' = faults + 1
           /\ broken' \in {broken, [broken EXCEPT ![c] = TRUE]}
  <2>1. faults' \in 0 .. MaxFaults
    BY <1>2 DEF TypeInput
  <2>2. broken' \in [Conns -> BOOLEAN]
    BY <1>2 DEF TypeInput
  <2>3. QED
    BY <2>1, <2>2
<1>3. QED
  BY <1>1, <1>2 DEF RedisWorks, RedisFails

LEMMA InputNext ==
  ASSUME TypeOK, [Next]_vars
  PROVE  TypeInput'
<1> USE ConnectionAssumption DEF vars, input, output, clock, bounds, seen
<1>0. TypeInput
  BY TypeParts
<1>1. CASE Tick \/ UNCHANGED vars
  BY <1>0, <1>1 DEF Tick, TypeInput
<1>2. ASSUME NEW c \in Conns, Open(c) \/ ClientReads(c) \/ Hangup(c) \/ Write(c)
      PROVE  TypeInput'
  BY <1>0, <1>2 DEF TypeInput, Open, ClientReads, Hangup, Write
<1>3. ASSUME NEW c \in Conns, Send(c)
      PROVE  TypeInput'
  <2>1. <<sent[c] \div 2, IF sent[c] % 2 = 0 THEN "head" ELSE "tail">> \in Nat \X Pieces
    BY <1>0 DEF TypeInput, Pieces
  <2>2. Append(inbox[c], <<sent[c] \div 2, IF sent[c] % 2 = 0 THEN "head" ELSE "tail">>) \in Texts
    BY <1>0, <2>1, AppendText DEF TypeInput
  <2>3. QED
    BY <1>0, <1>3, <2>2 DEF TypeInput, Send
<1>4. ASSUME NEW c \in Conns, Heartbeat(c) \/ Recv(c)
      PROVE  TypeInput'
  <2>1. CASE Heartbeat(c)
    <3>1. faults' \in 0 .. MaxFaults /\ broken' \in [Conns -> BOOLEAN]
      BY <1>0, <2>1, RedisTypes DEF Heartbeat
    <3>2. QED
      BY <1>0, <2>1, <3>1, NoneIsASeq DEF TypeInput, Heartbeat, Cancel
  <2>2. CASE Recv(c)
    BY <1>0, <2>2, NoneIsASeq DEF TypeInput, Recv, Cancel
  <2>3. QED
    BY <1>4, <2>1, <2>2
<1>5. ASSUME NEW c \in Conns, Read(c)
      PROVE  TypeInput'
  <2>1. CASE TakePiece(c)
    <3>1. Head(inbox[c]) \in Nat \X Pieces /\ Tail(inbox[c]) \in Texts
      BY <1>0, <2>1, FirstAndRest DEF TypeInput, TakePiece
    <3>2. Head(inbox[c]) \in Nat \X {"head"}
      BY <2>1, <3>1 DEF TakePiece
    <3>3. Append(taken[c], Head(inbox[c])) \in Heads
      BY <1>0, <3>2 DEF TypeInput, Heads
    <3>4. QED
      BY <1>0, <2>1, <3>1, <3>3 DEF TypeInput, TakePiece
  <2>2. CASE ReadLine(c)
    <3>1. Head(inbox[c]) \in Nat \X Pieces /\ Tail(inbox[c]) \in Texts
          /\ line[c] \o taken[c] \in Texts
      BY <1>0, <2>2, FirstAndRest, TakenIsText DEF TypeInput, ReadLine
    <3>2. Append(line[c] \o taken[c], Head(inbox[c])) \in Texts
      BY <3>1, AppendText
    <3>3. QED
      BY <1>0, <2>2, <3>1, <3>2, NoneIsASeq DEF TypeInput, ReadLine, Cancel
  <2>3. CASE ReadRest(c)
    <3>1. line[c] \o taken[c] \in Texts
      BY <1>0, TakenIsText DEF TypeInput
    <3>2. QED
      BY <1>0, <2>3, <3>1, NoneIsASeq DEF TypeInput, ReadRest, Cancel
  <2>4. CASE End(c)
    <3>1. faults' \in 0 .. MaxFaults /\ broken' \in [Conns -> BOOLEAN]
      BY <1>0, <2>4, RedisTypes DEF End
    <3>2. QED
      BY <1>0, <2>4, <3>1 DEF TypeInput, End
  <2>5. QED
    BY <1>5, <2>1, <2>2, <2>3, <2>4 DEF Read
<1>6. ASSUME NEW c \in Conns, Handle(c) \/ Panic(c)
      PROVE  TypeInput'
  <2>1. line' = [line EXCEPT ![c] = <<>>] /\ UNCHANGED <<inbox, taken, eof, broken, sent>>
    BY <1>6 DEF Handle, Answer, Post, Panic, Handled
  <2>2. handled' \in [Conns -> Nat] /\ faults' \in 0 .. MaxFaults
    <3>1. handled' = [handled EXCEPT ![c] = @ + 1] \/ handled' = handled
      BY <1>6 DEF Handle, Answer, Post, Panic, Handled
    <3>2. faults' = faults \/ (faults < MaxFaults /\ faults' = faults + 1)
      BY <1>6 DEF Handle, Answer, Post, Panic
    <3>3. QED
      BY <1>0, <3>1, <3>2 DEF TypeInput
  <2>3. QED
    BY <1>0, <2>1, <2>2, NoneIsASeq DEF TypeInput
<1>7. QED
  BY <1>1, <1>2, <1>3, <1>4, <1>5, <1>6 DEF Next, Task

LEMMA OutputNext ==
  ASSUME TypeOK, [Next]_vars
  PROVE  TypeOutput'
<1> USE ConnectionAssumption DEF vars, input, output, clock, bounds, seen
<1>0. TypeOutput
  BY TypeParts
<1>1. CASE Tick \/ UNCHANGED vars
  BY <1>0, <1>1 DEF Tick, TypeOutput
<1>2. ASSUME NEW c \in Conns, \/ Open(c) \/ Send(c) \/ Heartbeat(c) \/ TakePiece(c)
                              \/ ReadLine(c) \/ ReadRest(c)
      PROVE  TypeOutput'
  BY <1>0, <1>2 DEF TypeOutput, Open, Send, Heartbeat, TakePiece, ReadLine, ReadRest
<1>3. ASSUME NEW c \in Conns, Hangup(c) \/ End(c) \/ Panic(c)
      PROVE  TypeOutput'
  BY <1>0, <1>3, NoneIsASeq DEF TypeOutput, Hangup, End, Panic
<1>4. ASSUME NEW c \in Conns, ClientReads(c)
      PROVE  TypeOutput'
  <2>1. Tail(socket[c]) \in Queues
    BY <1>0, <1>4 DEF TypeOutput, ClientReads, Queues
  <2>2. got' \in [Conns -> Nat]
    BY <1>0, <1>4 DEF TypeOutput, ClientReads
  <2>3. QED
    BY <1>0, <1>4, <2>1, <2>2 DEF TypeOutput, ClientReads
<1>5. ASSUME NEW c \in Conns, Recv(c)
      PROVE  TypeOutput'
  <2>1. <<Head(out_rx[c])>> \in Queues /\ Tail(out_rx[c]) \in Queues
    BY <1>0, <1>5 DEF TypeOutput, Recv, Queues
  <2>2. QED
    BY <1>0, <1>5, <2>1 DEF TypeOutput, Recv
<1>6. ASSUME NEW c \in Conns, Answer(c)
      PROVE  TypeOutput'
  <2>1. <<<<"notice", 0>>>> \in Queues
    BY DEF Frames, Queues
  <2>2. QED
    BY <1>0, <1>6, <2>1 DEF TypeOutput, Answer
<1>7. ASSUME NEW c \in Conns, Post(c)
      PROVE  TypeOutput'
  <2>1. queued' \in [Conns -> Nat]
    BY <1>0, <1>7 DEF TypeOutput, Post
  <2>2. \A d \in Conns : <<"message", queued'[d]>> \in Frames
    BY <2>1 DEF Frames
  <2>3. \A d \in Conns : out_rx[d] \in Queues
    BY <1>0 DEF TypeOutput
  <2>4. \A d \in Conns : Append(out_rx[d], <<"message", queued'[d]>>) \in Queues
    BY <2>2, <2>3, AppendFrame
  <2>5. out_rx' \in [Conns -> Queues]
    BY <1>7, <2>3, <2>4 DEF Post
  <2>6. QED
    BY <1>0, <1>7, <2>1, <2>5 DEF TypeOutput, Post
<1>8. ASSUME NEW c \in Conns, Write(c)
      PROVE  TypeOutput'
  <2>1. socket[c] \o writing[c] \in Queues
    BY <1>0 DEF TypeOutput, Queues
  <2>2. QED
    BY <1>0, <1>8, <2>1, NoneIsASeq DEF TypeOutput, Write
<1>9. QED
  BY <1>1, <1>2, <1>3, <1>4, <1>5, <1>6, <1>7, <1>8 DEF Next, Task, Read, Handle

LEMMA ClockNext ==
  ASSUME TypeOK, [Next]_vars
  PROVE  TypeClock'
<1> USE ConnectionAssumption DEF vars, input, output, clock, bounds, seen
<1>0. TypeClock
  BY TypeParts
<1>1. CASE Tick
  BY <1>0, <1>1 DEF Tick, TypeClock
<1>2. CASE UNCHANGED vars
  BY <1>0, <1>2 DEF TypeClock
<1>3. ASSUME NEW c \in Conns, Open(c) \/ Heartbeat(c)
      PROVE  TypeClock'
  <2>1. presence' \in [Users -> 0 .. Ttl] /\ missed' \in [Conns -> 0 .. Ttl]
        /\ erased' \in [Conns -> BOOLEAN]
    <3>1. SetPresence(c) \/ UNCHANGED <<presence, missed, erased>>
      BY <1>3 DEF Open, Heartbeat
    <3>2. Ttl \in 0 .. Ttl /\ 0 \in 0 .. Ttl
      OBVIOUS
    <3>3. presence' \in [Users -> 0 .. Ttl]
      BY <1>0, <3>1, <3>2 DEF TypeClock, SetPresence
    <3>4. missed' \in [Conns -> 0 .. Ttl] /\ erased' \in [Conns -> BOOLEAN]
      BY <1>0, <3>1, <3>2 DEF TypeClock, SetPresence
    <3>5. QED
      BY <3>3, <3>4
  <2>2. due' \in [Conns -> BOOLEAN]
    BY <1>0, <1>3 DEF TypeClock, Open, Heartbeat
  <2>3. QED
    BY <2>1, <2>2 DEF TypeClock
<1>4. ASSUME NEW c \in Conns, End(c)
      PROVE  TypeClock'
  <2>1. /\ \/ presence' = [presence EXCEPT ![Owner[c]] = 0]
           \/ presence' = presence
        /\ \/ erased' = [d \in Conns |-> (d \in Served /\ Owner[d] = Owner[c]) \/ erased[d]]
           \/ erased' = erased
        /\ UNCHANGED <<due, missed>>
    BY <1>4 DEF End
  <2>2. presence' \in [Users -> 0 .. Ttl]
    BY <1>0, <2>1 DEF TypeClock
  <2>3. erased' \in [Conns -> BOOLEAN]
    BY <1>0, <2>1 DEF TypeClock
  <2>4. QED
    BY <1>0, <2>1, <2>2, <2>3 DEF TypeClock
<1>5. ASSUME NEW c \in Conns, \/ Send(c) \/ ClientReads(c) \/ Hangup(c) \/ Recv(c) \/ TakePiece(c)
                              \/ ReadLine(c) \/ ReadRest(c) \/ Handle(c) \/ Write(c) \/ Panic(c)
      PROVE  TypeClock'
  <2>1. UNCHANGED clock
    BY <1>5 DEF Send, ClientReads, Hangup, Recv, TakePiece, ReadLine, ReadRest,
                Handle, Answer, Post, Write, Panic
  <2>2. QED
    BY <1>0, <2>1 DEF TypeClock
<1>6. QED
  BY <1>1, <1>2, <1>3, <1>4, <1>5 DEF Next, Task, Read

\* A handler has a line in hand, and a write a frame; nobody else has.
LEMMA StageNext ==
  ASSUME TypeOK, [Next]_vars
  PROVE  TypeStage'
<1> USE DEF Goto, Handlers, vars, input, output, clock, bounds, seen
<1>0. TypeStage /\ TypeInput /\ TypeOutput
  BY TypeParts
<1>1. CASE Tick \/ UNCHANGED vars
  BY <1>0, <1>1 DEF Tick, TypeStage
<1>2. ASSUME NEW c \in Conns, \/ Send(c) \/ ClientReads(c) \/ Hangup(c) \/ Heartbeat(c) \/ TakePiece(c)
      PROVE  TypeStage'
  BY <1>0, <1>2 DEF TypeStage, Send, ClientReads, Hangup, Heartbeat, TakePiece
<1>3. ASSUME NEW c \in Conns, Open(c) \/ End(c)
      PROVE  TypeStage'
  BY <1>0, <1>3 DEF TypeStage, Open, End
<1>4. ASSUME NEW c \in Conns, Recv(c)
      PROVE  TypeStage'
  BY <1>0, <1>4 DEF TypeStage, TypeOutput, Recv
<1>5. ASSUME NEW c \in Conns, ReadLine(c) \/ ReadRest(c)
      PROVE  TypeStage'
  <2>1. line'[c] # <<>>
    <3>1. line[c] \o taken[c] \in Texts /\ line \in [Conns -> Texts]
      BY <1>0, TakenIsText DEF TypeInput
    <3>2. CASE ReadLine(c)
      <4>1. Append(line[c] \o taken[c], Head(inbox[c])) # <<>>
        BY <1>0, <3>1, <3>2, FirstAndRest, AppendText DEF TypeInput, ReadLine
      <4>2. QED
        BY <3>1, <3>2, <4>1 DEF ReadLine
    <3>3. CASE ReadRest(c)
      <4>1. taken[c] \in Heads /\ line[c] \in Texts /\ taken[c] # <<>>
        BY <1>0, <3>3 DEF TypeInput, ReadRest
      <4>2. line[c] \o taken[c] # <<>>
        BY <4>1 DEF Texts, Heads
      <4>3. QED
        BY <3>1, <3>3, <4>2 DEF ReadRest
    <3>4. QED
      BY <1>5, <3>2, <3>3
  <2>2. PICK handler \in Handlers : Goto(c, handler)
    BY <1>5 DEF ReadLine, ReadRest, Dispatch
  <2>3. stage[c] = "select" /\ UNCHANGED writing /\ \A d \in Conns \ {c} : line'[d] = line[d]
    BY <1>0, <1>5 DEF ReadLine, ReadRest, TypeInput
  <2>4. QED
    BY <1>0, <2>1, <2>2, <2>3 DEF TypeStage
<1>6. ASSUME NEW c \in Conns, Answer(c) \/ Post(c)
      PROVE  TypeStage'
  <2>1. line' = [line EXCEPT ![c] = <<>>] /\ line \in [Conns -> Texts]
    BY <1>0, <1>6 DEF Answer, Post, Handled, TypeInput
  <2>2. CASE Answer(c)
    <3>1. writing'[c] # <<>> /\ \A d \in Conns \ {c} : writing'[d] = writing[d]
      BY <1>0, <2>2 DEF Answer, TypeOutput
    <3>2. QED
      BY <1>0, <2>1, <2>2, <3>1 DEF TypeStage, Answer
  <2>3. CASE Post(c)
    BY <1>0, <2>1, <2>3 DEF TypeStage, Post
  <2>4. QED
    BY <1>6, <2>2, <2>3
<1>7. ASSUME NEW c \in Conns, Panic(c) \/ Write(c)
      PROVE  TypeStage'
  BY <1>0, <1>7 DEF TypeStage, TypeInput, TypeOutput, Panic, Write
<1>8. QED
  BY <1>1, <1>2, <1>3, <1>4, <1>5, <1>6, <1>7 DEF Next, Task, Read, Handle

LEMMA TypeInit == Init => TypeOK
<1> USE ConnectionAssumption
<1>1. Init => TypeInput /\ TypeOutput
  BY NoneIsASeq DEF Init, TypeInput, TypeOutput
<1>2. Init => TypeClock /\ TypeStage
  BY DEF Init, TypeClock, TypeStage, Handlers
<1>3. QED
  BY <1>1, <1>2, TypeParts

LEMMA TypeNext == TypeOK /\ [Next]_vars => TypeOK'
<1> SUFFICES ASSUME TypeOK, [Next]_vars PROVE TypeOK'
  OBVIOUS
<1>1. TypeInput' /\ TypeOutput' /\ TypeClock' /\ TypeStage'
  BY InputNext, OutputNext, ClockNext, StageNext
<1>2. QED
  BY <1>1 DEF TypeOK, TypeInput, TypeOutput, TypeClock, TypeStage, Texts, Heads, Queues

(* Every variable of Connection keeps its type; a handler has its line in  *)
(* hand, and a write its frame.                                            *)
THEOREM ConnectionTypeCorrect == Spec => []TypeOK
BY TypeInit, TypeNext, PTL DEF Spec

-----------------------------------------------------------------------------
(* Presence *)

\* The heartbeats a session has missed and those its key has left make up the
\* life of the key, unless another session's end took it.
Shown ==
  \A c \in Served : erased[c] \/ presence[Owner[c]] + missed[c] >= Ttl

LEMMA ShownKept ==
  ASSUME Shown, UNCHANGED <<presence, missed, erased>>, Served' \subseteq Served
  PROVE  Shown'
BY DEF Shown

LEMMA ShownNext ==
  ASSUME TypeOK, Shown, [Next]_vars
  PROVE  Shown'
<1> USE ConnectionAssumption DEF vars, clock
<1>0. /\ presence \in [Users -> 0 .. Ttl] /\ missed \in [Conns -> 0 .. Ttl]
      /\ erased \in [Conns -> BOOLEAN] /\ Ttl \in Nat \ {0}
      /\ \A c \in Conns : Owner[c] \in Users
      /\ stage \in [Conns -> {"off", "select", "write", "closed"} \cup Handlers]
  BY DEF TypeOK
<1>1. CASE Tick
  <2> SUFFICES ASSUME NEW c \in Served'
               PROVE  erased'[c] \/ presence'[Owner[c]] + missed'[c] >= Ttl
    BY DEF Shown
  <2>1. c \in Conns /\ c \in Served
    BY <1>1 DEF Tick, Served
  <2>2. erased[c] \/ presence[Owner[c]] + missed[c] >= Ttl
    BY <2>1 DEF Shown
  <2>3. /\ presence'[Owner[c]] = IF presence[Owner[c]] = 0 THEN 0 ELSE presence[Owner[c]] - 1
        /\ missed'[c] = IF missed[c] < Ttl THEN missed[c] + 1 ELSE missed[c]
        /\ erased' = erased
    BY <1>0, <1>1, <2>1 DEF Tick
  <2>4. presence[Owner[c]] \in 0 .. Ttl /\ missed[c] \in 0 .. Ttl
    BY <1>0, <2>1
  <2>5. QED
    BY <1>0, <2>2, <2>3, <2>4
<1>2. ASSUME NEW c \in Conns, SetPresence(c), \A d \in Served' : d = c \/ d \in Served
      PROVE  Shown'
  <2> SUFFICES ASSUME NEW d \in Served'
               PROVE  erased'[d] \/ presence'[Owner[d]] + missed'[d] >= Ttl
    BY DEF Shown
  <2>1. d \in Conns
    BY DEF Served
  <2>2. CASE d = c
    BY <1>0, <1>2, <2>2 DEF SetPresence
  <2>3. CASE d # c
    <3>1. erased[d] \/ presence[Owner[d]] + missed[d] >= Ttl
      BY <1>2, <2>3 DEF Shown
    <3>2. erased'[d] = erased[d] /\ missed'[d] = missed[d]
          /\ presence'[Owner[d]] \in {Ttl, presence[Owner[d]]}
      BY <1>0, <1>2, <2>1, <2>3 DEF SetPresence
    <3>3. missed[d] \in 0 .. Ttl /\ presence[Owner[d]] \in 0 .. Ttl
      BY <1>0, <2>1
    <3>4. QED
      BY <1>0, <3>1, <3>2, <3>3
  <2>4. QED
    BY <2>2, <2>3
<1>3. ASSUME NEW c \in Conns, Open(c) \/ Heartbeat(c)
      PROVE  Shown'
  <2>1. \A d \in Served' : d = c \/ d \in Served
    BY <1>0, <1>3 DEF Open, Heartbeat, Goto, Served
  <2>2. QED
    <3>1. CASE SetPresence(c)
      BY <1>2, <2>1, <3>1
    <3>2. CASE Heartbeat(c) /\ UNCHANGED <<presence, missed, erased>>
      <4>1. Served' \subseteq Served
        BY <3>2 DEF Heartbeat, Served
      <4>2. QED
        BY <3>2, <4>1, ShownKept
    <3>3. QED
      BY <1>3, <3>1, <3>2 DEF Open, Heartbeat
<1>4. ASSUME NEW c \in Conns, End(c)
      PROVE  Shown'
  <2> SUFFICES ASSUME NEW d \in Served'
               PROVE  erased'[d] \/ presence'[Owner[d]] + missed'[d] >= Ttl
    BY DEF Shown
  <2>1. d \in Conns /\ d \in Served
    BY <1>0, <1>4 DEF End, Goto, Served
  <2>2. CASE UNCHANGED <<presence, erased>>
    BY <1>4, <2>1, <2>2 DEF End, Shown
  <2>3. CASE /\ presence' = [presence EXCEPT ![Owner[c]] = 0]
             /\ erased' = [e \in Conns |-> (e \in Served /\ Owner[e] = Owner[c]) \/ erased[e]]
    <3>1. CASE Owner[d] = Owner[c]
      BY <2>1, <2>3, <3>1
    <3>2. CASE Owner[d] # Owner[c]
      BY <1>0, <1>4, <2>1, <2>3, <3>2 DEF End, Shown
    <3>3. QED
      BY <3>1, <3>2
  <2>4. QED
    BY <1>4, <2>2, <2>3 DEF End
<1>5. ASSUME NEW c \in Conns, \/ Send(c) \/ ClientReads(c) \/ Hangup(c) \/ Recv(c)
                              \/ TakePiece(c) \/ ReadLine(c) \/ ReadRest(c)
                              \/ Handle(c) \/ Write(c) \/ Panic(c)
      PROVE  Shown'
  <2>1. UNCHANGED <<presence, missed, erased>>
    BY <1>5 DEF Send, ClientReads, Hangup, Recv, TakePiece, ReadLine, ReadRest,
                Handle, Answer, Post, Write, Panic
  <2>2. Served' \subseteq Served
    BY <1>0, <1>5 DEF Send, ClientReads, Hangup, Recv, TakePiece, ReadLine, ReadRest, Dispatch,
                Handle, Answer, Post, Write, Panic, Goto, Served, Handlers
  <2>3. QED
    BY <2>1, <2>2, ShownKept
<1>6. CASE UNCHANGED vars
  BY <1>6, ShownKept DEF Served
<1>7. QED
  BY <1>1, <1>3, <1>4, <1>5, <1>6 DEF Next, Task, Read

(* Whoever has a session is shown online, unless no heartbeat of it has    *)
(* set the key for the whole life of the key, its task held up or its      *)
(* SETEX failing each time, or another session's end took the key.         *)
THEOREM PresenceHolds == Spec => []PresenceIsShown
<1>1. Init => Shown
  BY DEF Init, Shown, Served, Handlers
<1>2. TypeOK /\ Shown => PresenceIsShown
  <2> SUFFICES ASSUME TypeOK, Shown, NEW c \in Served
               PROVE  presence[Owner[c]] > 0 \/ missed[c] = Ttl \/ erased[c]
    BY DEF PresenceIsShown
  <2>1. presence[Owner[c]] \in 0 .. Ttl /\ missed[c] \in 0 .. Ttl /\ Ttl \in Nat
    BY ConnectionAssumption DEF TypeOK, Served
  <2>2. erased[c] \/ presence[Owner[c]] + missed[c] >= Ttl
    BY DEF Shown
  <2>3. QED
    BY <2>1, <2>2
<1>3. QED
  BY TypeInit, TypeNext, <1>1, <1>2, ShownNext, PTL DEF Spec

-----------------------------------------------------------------------------
(* The order of the lines *)

Piece(p) == <<p \div 2, IF p % 2 = 0 THEN "head" ELSE "tail">>

\* How many pieces read_line has taken.
Consumed(c) == sent[c] - Len(inbox[c])

\* What waits in the inbox is what was sent last.
Waiting(c) ==
  /\ Len(inbox[c]) <= sent[c]
  /\ \A i \in 1 .. Len(inbox[c]) : inbox[c][i] = Piece(Consumed(c) + i - 1)

\* No piece is left of a client that is gone.
Drained(c) == eof[c] /\ inbox[c] = <<>> /\ taken[c] = <<>>

\* In select!: between two lines, or in the middle of one.
Reading(c) ==
  \/ Consumed(c) = 2 * handled[c] /\ taken[c] = <<>>
  \/ Consumed(c) = 2 * handled[c] + 1 /\ taken[c] \in {<<>>, <<<<handled[c], "head">>>>}
  \/ Drained(c)

\* In a handler: with a line, its end, or the start of the last one.
Holding(c) ==
  \/ /\ Consumed(c) = 2 * handled[c] + 2 /\ taken[c] = <<>>
     /\ line[c] \in {<<<<handled[c], "head">>, <<handled[c], "tail">>>>, <<<<handled[c], "tail">>>>}
  \/ Drained(c) /\ line[c] = <<<<handled[c], "head">>>>

Ordered(c) ==
  /\ Waiting(c)
  /\ stage[c] \in {"off", "select", "write"} => Reading(c)
  /\ stage[c] \in Handlers => Holding(c)

Lines == \A c \in Conns : Ordered(c)

LEMMA PieceOf ==
  ASSUME NEW k \in Nat
  PROVE  Piece(2 * k) = <<k, "head">> /\ Piece(2 * k + 1) = <<k, "tail">>
BY DEF Piece

\* A session that neither takes nor handles anything keeps its lines.
LEMMA OrderKept ==
  ASSUME NEW d \in Conns, Ordered(d), TypeOK,
         UNCHANGED <<inbox[d], line[d], sent[d], handled[d]>>,
         taken'[d] = taken[d] \/ taken'[d] = <<>>,
         eof[d] => eof'[d],
         \/ stage'[d] = stage[d]
         \/ stage'[d] = "closed"
         \/ stage[d] \in {"off", "select", "write"} /\ stage'[d] \in {"off", "select", "write"}
  PROVE  Ordered(d)'
<1>1. Consumed(d)' = Consumed(d)
  BY DEF Consumed
<1>2. Waiting(d)'
  BY <1>1 DEF Ordered, Waiting
<1>3. Drained(d) => Drained(d)'
  BY DEF Drained
<1>4. Reading(d) => Reading(d)'
  BY <1>1, <1>3 DEF Reading
<1>5. Holding(d) => Holding(d)'
  BY <1>1, <1>3 DEF Holding, Drained
<1>6. QED
  BY <1>2, <1>4, <1>5 DEF Ordered, Handlers

\* The first piece that waits is the next one.
LEMMA NextPiece ==
  ASSUME TypeOK, NEW c \in Conns, Waiting(c), inbox[c] # <<>>,
         inbox' = [inbox EXCEPT ![c] = Tail(@)], UNCHANGED sent
  PROVE  /\ Head(inbox[c]) = Piece(Consumed(c))
         /\ Consumed(c) \in Nat
         /\ Consumed(c)' = Consumed(c) + 1 /\ Waiting(c)'
<1>1. inbox \in [Conns -> Texts] /\ sent[c] \in Nat /\ inbox[c] \in Texts
  BY TypeParts DEF TypeInput
<1>2. Len(inbox[c]) \in Nat \ {0} /\ Head(inbox[c]) = inbox[c][1]
  BY <1>1 DEF Texts
<1>3. inbox'[c] = Tail(inbox[c]) /\ Len(Tail(inbox[c])) = Len(inbox[c]) - 1
      /\ \A i \in 1 .. Len(inbox[c]) - 1 : Tail(inbox[c])[i] = inbox[c][i + 1]
  BY <1>1, <1>2 DEF Texts
<1>4. Consumed(c)' = Consumed(c) + 1 /\ Consumed(c) \in Nat
  BY <1>1, <1>2, <1>3 DEF Consumed, Waiting
<1>5. Head(inbox[c]) = Piece(Consumed(c))
  <2>1. inbox[c][1] = Piece(Consumed(c) + 1 - 1)
    BY <1>2 DEF Waiting
  <2>2. Consumed(c) + 1 - 1 = Consumed(c)
    BY <1>4
  <2>3. QED
    BY <1>2, <2>1, <2>2
<1>6. Waiting(c)'
  <2>1. Len(inbox'[c]) <= sent[c]
    BY <1>1, <1>2, <1>3 DEF Waiting
  <2>2. ASSUME NEW i \in 1 .. Len(inbox'[c])
        PROVE  inbox'[c][i] = Piece(Consumed(c)' + i - 1)
    <3>0. Len(inbox'[c]) = Len(inbox[c]) - 1
      BY <1>3
    <3>1. i \in 1 .. Len(inbox[c]) - 1 /\ i + 1 \in 1 .. Len(inbox[c])
      BY <1>2, <3>0
    <3>2. inbox'[c][i] = Piece(Consumed(c) + (i + 1) - 1)
      BY <1>3, <3>1 DEF Waiting
    <3>3. Consumed(c) + (i + 1) - 1 = Consumed(c)' + i - 1
      BY <1>4, <3>1
    <3>4. QED
      BY <3>2, <3>3
  <2>3. QED
    BY <2>1, <2>2 DEF Waiting
<1>7. QED
  BY <1>4, <1>5, <1>6

LEMMA SendOrder ==
  ASSUME TypeOK, NEW c \in Conns, Ordered(c), Send(c)
  PROVE  Ordered(c)'
<1> USE DEF input
<1>1. /\ inbox \in [Conns -> Texts] /\ sent \in [Conns -> Nat]
      /\ inbox[c] \in Texts /\ sent[c] \in Nat /\ Len(inbox[c]) \in Nat
  <2>1. inbox \in [Conns -> Texts] /\ sent \in [Conns -> Nat]
    BY TypeParts DEF TypeInput
  <2>2. QED
    BY <2>1 DEF Texts
<1>2. sent'[c] = sent[c] + 1 /\ inbox'[c] = Append(inbox[c], Piece(sent[c]))
  BY <1>1 DEF Send, Piece
<1>3. /\ Len(inbox'[c]) = Len(inbox[c]) + 1
      /\ \A i \in 1 .. Len(inbox[c]) : inbox'[c][i] = inbox[c][i]
      /\ inbox'[c][Len(inbox[c]) + 1] = Piece(sent[c])
  BY <1>1, <1>2 DEF Texts
<1>4. Consumed(c)' = Consumed(c) /\ Consumed(c) \in Nat
  BY <1>1, <1>2, <1>3 DEF Consumed, Ordered, Waiting
<1>5. Waiting(c)'
  <2>1. Len(inbox'[c]) <= sent'[c]
    BY <1>1, <1>2, <1>3 DEF Ordered, Waiting
  <2>2. ASSUME NEW i \in 1 .. Len(inbox'[c])
        PROVE  inbox'[c][i] = Piece(Consumed(c)' + i - 1)
    <3>1. CASE i \in 1 .. Len(inbox[c])
      <4>1. inbox'[c][i] = Piece(Consumed(c) + i - 1)
        BY <1>3, <3>1 DEF Ordered, Waiting
      <4>2. QED
        BY <1>4, <4>1
    <3>2. CASE i = Len(inbox[c]) + 1
      <4>1. Consumed(c)' + i - 1 = sent[c]
        BY <1>1, <1>4, <3>2 DEF Consumed
      <4>2. QED
        BY <1>3, <3>2, <4>1
    <3>3. QED
      BY <1>1, <1>3, <3>1, <3>2
  <2>3. QED
    BY <2>1, <2>2 DEF Waiting
<1>6. ~Drained(c)
  BY DEF Send, Drained
<1>7. QED
  BY <1>4, <1>5, <1>6 DEF Send, Ordered, Reading, Holding, seen

LEMMA ReadOrder ==
  ASSUME TypeOK, NEW c \in Conns, Ordered(c), TakePiece(c) \/ ReadLine(c) \/ ReadRest(c)
  PROVE  Ordered(c)'
<1> DEFINE k == handled[c]
<1> USE DEF input, output, bounds, seen
<1>1. /\ taken \in [Conns -> Heads] /\ line \in [Conns -> Texts] /\ k \in Nat
      /\ stage \in [Conns -> {"off", "select", "write", "closed"} \cup Handlers]
  BY TypeParts DEF TypeInput, TypeStage
<1>2. stage[c] = "select" /\ handled' = handled /\ Waiting(c) /\ Reading(c)
  BY DEF TakePiece, ReadLine, ReadRest, Ordered
<1>3. line[c] = <<>>
  BY <1>2, TypeParts DEF TypeStage, Handlers
<1>4. CASE TakePiece(c)
  <2>1. /\ Head(inbox[c]) = Piece(Consumed(c)) /\ Consumed(c) \in Nat
        /\ Consumed(c)' = Consumed(c) + 1 /\ Waiting(c)'
    BY <1>2, <1>4, NextPiece DEF TakePiece
  <2>2. ~Drained(c) /\ Head(inbox[c])[2] = "head" /\ stage' = stage
    BY <1>4 DEF TakePiece, Drained
  <2>3. ASSUME Consumed(c) = 2 * k + 1 PROVE FALSE
    <3>1. Head(inbox[c]) = <<k, "tail">>
      BY <1>1, <2>1, <2>3, PieceOf
    <3>2. QED
      BY <2>2, <3>1
  <2>4. Consumed(c) = 2 * k /\ taken[c] = <<>> /\ Head(inbox[c]) = <<k, "head">>
    <3>1. Consumed(c) = 2 * k /\ taken[c] = <<>>
      BY <1>2, <2>2, <2>3 DEF Reading
    <3>2. QED
      BY <1>1, <2>1, <3>1, PieceOf
  <2>5. taken'[c] = <<<<k, "head">>>>
    <3>1. taken'[c] = Append(<<>>, <<k, "head">>)
      BY <1>1, <1>4, <2>4 DEF TakePiece
    <3>2. Append(<<>>, <<k, "head">>) = <<<<k, "head">>>>
      OBVIOUS
    <3>3. QED
      BY <3>1, <3>2
  <2>6. Consumed(c)' = 2 * k + 1
    BY <1>1, <2>1, <2>4
  <2>7. Reading(c)'
    BY <1>2, <2>5, <2>6 DEF Reading
  <2>8. QED
    BY <1>2, <2>1, <2>2, <2>7 DEF Ordered, Handlers
<1>5. CASE ReadLine(c)
  <2>1. /\ Head(inbox[c]) = Piece(Consumed(c)) /\ Consumed(c) \in Nat
        /\ Consumed(c)' = Consumed(c) + 1 /\ Waiting(c)'
    BY <1>2, <1>5, NextPiece DEF ReadLine
  <2>2. ~Drained(c) /\ Head(inbox[c])[2] = "tail"
    BY <1>5 DEF ReadLine, Drained
  <2>3. ASSUME Consumed(c) = 2 * k PROVE FALSE
    <3>1. Head(inbox[c]) = <<k, "head">>
      BY <1>1, <2>1, <2>3, PieceOf
    <3>2. QED
      BY <2>2, <3>1
  <2>4. /\ Consumed(c) = 2 * k + 1 /\ Head(inbox[c]) = <<k, "tail">>
        /\ taken[c] \in {<<>>, <<<<k, "head">>>>}
    <3>1. Consumed(c) = 2 * k + 1 /\ taken[c] \in {<<>>, <<<<k, "head">>>>}
      BY <1>2, <2>2, <2>3 DEF Reading
    <3>2. QED
      BY <1>1, <2>1, <3>1, PieceOf
  <2>5. line'[c] \in {<<<<k, "head">>, <<k, "tail">>>>, <<<<k, "tail">>>>}
    <3>1. line'[c] = Append(<<>> \o taken[c], <<k, "tail">>)
      BY <1>1, <1>3, <1>5, <2>4 DEF ReadLine
    <3>2. CASE taken[c] = <<>>
      <4>1. Append(<<>> \o <<>>, <<k, "tail">>) = <<<<k, "tail">>>>
        OBVIOUS
      <4>2. QED
        BY <3>1, <3>2, <4>1
    <3>3. CASE taken[c] = <<<<k, "head">>>>
      <4>1. <<>> \o <<<<k, "head">>>> = <<<<k, "head">>>>
        OBVIOUS
      <4>2. Append(<<<<k, "head">>>>, <<k, "tail">>) = <<<<k, "head">>, <<k, "tail">>>>
        <5>1. <<k, "head">> \in Nat \X Pieces /\ <<k, "tail">> \in Nat \X Pieces
          BY <1>1 DEF Pieces
        <5>2. QED
          BY <5>1, AppendToOne
      <4>3. QED
        BY <3>1, <3>3, <4>1, <4>2
    <3>4. QED
      BY <2>4, <3>2, <3>3
  <2>6. Consumed(c)' = 2 * k + 2 /\ taken'[c] = <<>>
    BY <1>1, <1>5, <2>1, <2>4 DEF ReadLine, Cancel
  <2>7. Holding(c)'
    BY <1>2, <2>5, <2>6 DEF Holding
  <2>8. stage'[c] \in Handlers
    BY <1>1, <1>5 DEF ReadLine, Dispatch, Goto
  <2>9. QED
    BY <2>1, <2>7, <2>8 DEF Ordered, Handlers
<1>6. CASE ReadRest(c)
  <2>1. UNCHANGED <<inbox, sent, eof>> /\ taken[c] # <<>> /\ eof[c] /\ inbox[c] = <<>>
    BY <1>6 DEF ReadRest
  <2>2. taken[c] = <<<<k, "head">>>>
    BY <1>2, <2>1 DEF Reading, Drained
  <2>3. line'[c] = <<>> \o <<<<k, "head">>>> /\ taken'[c] = <<>>
    BY <1>1, <1>3, <1>6, <2>2 DEF ReadRest, Cancel
  <2>4. line'[c] = <<<<k, "head">>>>
    BY <2>3
  <2>5. Holding(c)'
    BY <1>2, <2>1, <2>3, <2>4 DEF Holding, Drained
  <2>6. stage'[c] \in Handlers
    BY <1>1, <1>6 DEF ReadRest, Dispatch, Goto
  <2>7. Waiting(c)'
    BY <1>2, <2>1 DEF Waiting, Consumed
  <2>8. QED
    BY <2>5, <2>6, <2>7 DEF Ordered, Handlers
<1>7. QED
  BY <1>4, <1>5, <1>6

LEMMA HandleOrder ==
  ASSUME TypeOK, NEW c \in Conns, Ordered(c), Handle(c)
  PROVE  Ordered(c)'
<1> DEFINE k == handled[c]
<1> USE DEF bounds
<1>1. k \in Nat /\ handled \in [Conns -> Nat]
      /\ stage \in [Conns -> {"off", "select", "write", "closed"} \cup Handlers]
  BY TypeParts DEF TypeInput, TypeStage
<1>2. stage[c] \in Handlers /\ Waiting(c) /\ Holding(c) /\ handled'[c] = k + 1
      /\ UNCHANGED <<inbox, taken, eof, sent>>
  BY <1>1 DEF Handle, Answer, Post, Handled, Handlers, Ordered
<1>3. stage'[c] \in {"select", "write"}
  BY <1>1 DEF Handle, Answer, Post, Goto
<1>4. Consumed(c)' = Consumed(c) /\ Waiting(c)'
  BY <1>2 DEF Consumed, Waiting
<1>5. CASE Drained(c)
  BY <1>2, <1>3, <1>4, <1>5 DEF Ordered, Reading, Drained, Handlers
<1>6. CASE Consumed(c) = 2 * k + 2 /\ taken[c] = <<>>
  <2>1. Consumed(c)' = 2 * handled'[c]
    BY <1>1, <1>2, <1>4, <1>6
  <2>2. Reading(c)'
    BY <1>2, <1>6, <2>1 DEF Reading
  <2>3. QED
    BY <1>3, <1>4, <2>2 DEF Ordered, Handlers
<1>7. QED
  BY <1>2, <1>5, <1>6 DEF Holding

LEMMA LinesNext ==
  ASSUME TypeOK, Lines, [Next]_vars
  PROVE  Lines'
<1> USE DEF vars, input, output, clock, bounds, seen
<1>0. /\ inbox \in [Conns -> Texts] /\ taken \in [Conns -> Heads] /\ line \in [Conns -> Texts]
      /\ eof \in [Conns -> BOOLEAN] /\ sent \in [Conns -> Nat] /\ handled \in [Conns -> Nat]
      /\ stage \in [Conns -> {"off", "select", "write", "closed"} \cup Handlers]
  BY TypeParts DEF TypeInput, TypeStage
<1>1. CASE Tick \/ UNCHANGED vars
  <2>1. UNCHANGED <<stage, inbox, taken, line, eof, sent, handled>>
    BY <1>1 DEF Tick
  <2>2. QED
    BY <2>1, OrderKept DEF Lines
<1>2. ASSUME NEW c \in Conns, NEW d \in Conns, d # c,
             Open(c) \/ Send(c) \/ ClientReads(c) \/ Hangup(c) \/ Task(c)
      PROVE  Ordered(d)'
  <2>1. UNCHANGED <<inbox[d], taken[d], line[d], sent[d]>>
    BY <1>0, <1>2 DEF Open, Send, ClientReads, Hangup, Task, Heartbeat, Recv, Read, TakePiece,
                      ReadLine, ReadRest, End, Handle, Answer, Post, Handled, Panic, Write, Cancel
  <2>2. UNCHANGED <<handled[d], eof[d]>>
    BY <1>0, <1>2 DEF Open, Send, ClientReads, Hangup, Task, Heartbeat, Recv, Read, TakePiece,
                      ReadLine, ReadRest, End, Handle, Answer, Post, Handled, Panic, Write
  <2>3. stage'[d] = stage[d]
    BY <1>0, <1>2 DEF Open, Send, ClientReads, Hangup, Task, Heartbeat, Recv, Read, TakePiece,
                      ReadLine, ReadRest, End, Handle, Answer, Post, Panic, Write, Dispatch, Goto
  <2>4. QED
    BY <2>1, <2>2, <2>3, OrderKept DEF Lines
<1>3. ASSUME NEW c \in Conns, \/ Open(c) \/ ClientReads(c) \/ Hangup(c) \/ Heartbeat(c)
                              \/ Recv(c) \/ End(c) \/ Write(c)
      PROVE  Ordered(c)'
  <2>1. UNCHANGED <<inbox, line, sent, handled>>
    BY <1>3 DEF Open, ClientReads, Hangup, Heartbeat, Recv, End, Write
  <2>2. (taken'[c] = taken[c] \/ taken'[c] = <<>>) /\ (eof[c] => eof'[c])
    BY <1>0, <1>3 DEF Open, ClientReads, Hangup, Heartbeat, Recv, End, Write, Cancel
  <2>3. \/ stage'[c] = stage[c]
        \/ stage'[c] = "closed"
        \/ stage[c] \in {"off", "select", "write"} /\ stage'[c] \in {"off", "select", "write"}
    BY <1>0, <1>3 DEF Open, ClientReads, Hangup, Heartbeat, Recv, End, Write, Goto
  <2>4. QED
    BY <2>1, <2>2, <2>3, OrderKept DEF Lines
<1>4. ASSUME NEW c \in Conns, Panic(c)
      PROVE  Ordered(c)'
  <2>1. UNCHANGED <<inbox, sent>> /\ stage'[c] = "closed"
    BY <1>0, <1>4 DEF Panic, Goto
  <2>2. Waiting(c)'
    BY <2>1 DEF Lines, Ordered, Waiting, Consumed
  <2>3. QED
    BY <2>1, <2>2 DEF Ordered, Handlers
<1>5. ASSUME NEW c \in Conns, Open(c) \/ Send(c) \/ ClientReads(c) \/ Hangup(c) \/ Task(c)
      PROVE  Ordered(c)'
  BY <1>3, <1>4, <1>5, SendOrder, ReadOrder, HandleOrder DEF Lines, Task, Read
<1>6. QED
  BY <1>1, <1>2, <1>5 DEF Next, Lines

(* However the reads, the writes and the heartbeats fall, the lines of a   *)
(* client are handled one by one in their order.                           *)
THEOREM LinesInOrder == Spec => []LinesKeepTheirOrder
<1>1. Init => Lines
  <2> SUFFICES ASSUME Init, NEW c \in Conns PROVE Ordered(c)
    BY DEF Lines
  <2>1. handled[c] = 0 /\ taken[c] = <<>> /\ stage[c] = "off"
    BY DEF Init
  <2>2. sent[c] = 0 /\ Len(inbox[c]) = 0
    <3>1. inbox[c] = <<>> /\ sent[c] = 0
      BY DEF Init
    <3>2. QED
      BY <3>1
  <2>3. Consumed(c) = 0
    BY <2>2 DEF Consumed
  <2>4. QED
    BY <2>1, <2>2, <2>3 DEF Ordered, Waiting, Reading, Handlers
<1>2. TypeOK /\ Lines => LinesKeepTheirOrder
  BY DEF TypeOK, Lines, Ordered, Holding, Drained, LinesKeepTheirOrder
<1>3. QED
  BY TypeInit, TypeNext, <1>1, <1>2, LinesNext, PTL DEF Spec

-----------------------------------------------------------------------------
(* The order of the messages *)

\* One frame more, at place k + 1, that is no message: the order is the same.
LEMMA OrderWithNotice ==
  ASSUME NEW q, NEW s, NEW n \in Nat, Len(q) = n, Len(s) = n + 1,
         NEW k \in 0 .. n, s[k + 1][1] # "message",
         \A i \in 1 .. k : s[i] = q[i],
         \A i \in (k + 1) .. n : s[i + 1] = q[i],
         NEW a, NEW b
  PROVE  InOrder(s, a, b) <=> InOrder(q, a, b)
<1> DEFINE P == {i \in 1 .. n : q[i][1] = "message"}
           Q == {i \in 1 .. (n + 1) : s[i][1] = "message"}
           up == [i \in 1 .. n |-> IF i <= k THEN i ELSE i + 1]
<1>1. \A i \in P : up[i] \in Q /\ s[up[i]] = q[i]
  <2> SUFFICES ASSUME NEW i \in P
               PROVE  up[i] \in Q /\ s[up[i]] = q[i]
    OBVIOUS
  <2>1. CASE i <= k
    BY <2>1
  <2>2. CASE ~(i <= k)
    <3>1. i \in (k + 1) .. n /\ up[i] = i + 1
      BY <2>2
    <3>2. s[i + 1] = q[i]
      BY <3>1
    <3>3. QED
      BY <3>1, <3>2
  <2>3. QED
    BY <2>1, <2>2
<1>2. \A j \in Q : \E i \in P : up[i] = j
  <2> SUFFICES ASSUME NEW j \in Q
               PROVE  \E i \in P : up[i] = j
    OBVIOUS
  <2>1. j # k + 1
    OBVIOUS
  <2>2. CASE j <= k
    <3>1. j \in 1 .. n /\ q[j] = s[j] /\ up[j] = j
      BY <2>2
    <3>2. QED
      BY <3>1
  <2>3. CASE ~(j <= k)
    <3>1. PICK i : i = j - 1
      OBVIOUS
    <3>2. i \in (k + 1) .. n /\ i \in 1 .. n /\ i + 1 = j
      BY <2>1, <2>3, <3>1
    <3>3. s[j] = q[i] /\ up[i] = j
      BY <3>2
    <3>4. QED
      BY <3>2, <3>3
  <2>4. QED
    BY <2>2, <2>3
<1>3. \A i, j \in P : i < j <=> up[i] < up[j]
  OBVIOUS
<1> HIDE DEF up
<1>4. {q[i][2] : i \in P} = {s[j][2] : j \in Q}
  BY <1>1, <1>2
<1>5. (\A i, j \in P : i < j => q[i][2] < q[j][2]) <=> (\A i, j \in Q : i < j => s[i][2] < s[j][2])
  <2>1. ASSUME \A i, j \in P : i < j => q[i][2] < q[j][2], NEW i \in Q, NEW j \in Q, i < j
        PROVE  s[i][2] < s[j][2]
    <3>1. PICK x \in P, y \in P : up[x] = i /\ up[y] = j
      BY <1>2
    <3>2. x < y /\ s[i] = q[x] /\ s[j] = q[y]
      BY <1>1, <1>3, <2>1, <3>1
    <3>3. QED
      BY <2>1, <3>2
  <2>2. ASSUME \A i, j \in Q : i < j => s[i][2] < s[j][2], NEW i \in P, NEW j \in P, i < j
        PROVE  q[i][2] < q[j][2]
    <3>1. up[i] \in Q /\ up[j] \in Q /\ up[i] < up[j] /\ s[up[i]] = q[i] /\ s[up[j]] = q[j]
      BY <1>1, <1>3, <2>2
    <3>2. QED
      BY <2>2, <3>1
  <2>3. QED
    BY <2>1, <2>2
<1> HIDE DEF P, Q
<1>6. InOrder(q, a, b) <=> /\ {q[i][2] : i \in P} = a .. b
                           /\ \A i, j \in P : i < j => q[i][2] < q[j][2]
  BY DEF InOrder, P
<1>7. InOrder(s, a, b) <=> /\ {s[i][2] : i \in Q} = a .. b
                           /\ \A i, j \in Q : i < j => s[i][2] < s[j][2]
  BY DEF InOrder, Q
<1>8. QED
  BY <1>4, <1>5, <1>6, <1>7

\* The first message is the one with the lowest number.
LEMMA OrderWithoutFirst ==
  ASSUME NEW q, NEW p, NEW n \in Nat, Len(q) = n + 1, Len(p) = n,
         \A i \in 1 .. n : p[i] = q[i + 1],
         q[1][1] = "message", NEW a \in Nat, NEW b \in Nat, InOrder(q, a, b)
  PROVE  InOrder(p, a + 1, b) /\ a <= b
<1> DEFINE P == {i \in 1 .. n : p[i][1] = "message"}
           Q == {i \in 1 .. (n + 1) : q[i][1] = "message"}
<1>1. /\ {q[i][2] : i \in Q} = a .. b
      /\ \A i, j \in Q : i < j => q[i][2] < q[j][2]
  BY DEF InOrder
<1>2. 1 \in Q
  OBVIOUS
<1>3. \A i \in P : i + 1 \in Q /\ p[i] = q[i + 1]
  OBVIOUS
<1>4. \A j \in Q : j = 1 \/ (j - 1 \in P /\ p[j - 1] = q[j] /\ 1 < j)
  <2> SUFFICES ASSUME NEW j \in Q, j # 1
               PROVE  j - 1 \in P /\ p[j - 1] = q[j] /\ 1 < j
    OBVIOUS
  <2>1. PICK i : i = j - 1
    OBVIOUS
  <2>2. i \in 1 .. n /\ i + 1 = j /\ 1 < j
    BY <2>1
  <2>3. p[i] = q[j]
    BY <2>2
  <2>4. QED
    BY <2>1, <2>2, <2>3
<1> DEFINE numbers == {q[i][2] : i \in Q}
<1>5. q[1][2] = a /\ a <= b
  <2>1. q[1][2] \in a .. b
    BY <1>1, <1>2
  <2>2. a \in a .. b
    BY <2>1
  <2>3. PICK i \in Q : q[i][2] = a
    BY <1>1, <2>2
  <2>4. i = 1 \/ q[1][2] < a
    BY <1>1, <1>2, <1>4, <2>3
  <2>5. QED
    BY <2>1, <2>3, <2>4
<1>6. {p[i][2] : i \in P} = (a + 1) .. b
  <2>1. ASSUME NEW i \in P
        PROVE  p[i][2] \in (a + 1) .. b
    <3>1. i + 1 \in Q /\ p[i] = q[i + 1] /\ 1 < i + 1
      BY <1>3
    <3>2. q[i + 1][2] \in a .. b
      BY <1>1, <3>1
    <3>3. a < q[i + 1][2]
      BY <1>1, <1>2, <1>5, <3>1
    <3>4. QED
      BY <3>1, <3>2, <3>3
  <2>2. ASSUME NEW m \in (a + 1) .. b
        PROVE  \E i \in P : p[i][2] = m
    <3>1. m \in a .. b /\ m # a
      OBVIOUS
    <3>2. PICK j \in Q : q[j][2] = m
      BY <1>1, <3>1
    <3>3. QED
      BY <1>4, <1>5, <3>1, <3>2
  <2>3. {p[i][2] : i \in P} \subseteq (a + 1) .. b
    BY <2>1, ZenonT(30)
  <2>4. (a + 1) .. b \subseteq {p[i][2] : i \in P}
    BY <2>2, ZenonT(30)
  <2>5. QED
    BY <2>3, <2>4
<1>7. ASSUME NEW i \in P, NEW j \in P, i < j
      PROVE  p[i][2] < p[j][2]
  <2>1. i + 1 \in Q /\ j + 1 \in Q /\ i + 1 < j + 1 /\ p[i] = q[i + 1] /\ p[j] = q[j + 1]
    BY <1>3, <1>7
  <2>2. QED
    BY <1>1, <2>1
<1>8. QED
  BY <1>5, <1>6, <1>7 DEF InOrder

\* A message queued behind the others.
LEMMA OrderWithLast ==
  ASSUME NEW q, NEW s, NEW n \in Nat, Len(q) = n, Len(s) = n + 1,
         \A i \in 1 .. n : s[i] = q[i],
         NEW a \in Nat, NEW b \in Nat, a <= b + 1, s[n + 1] = <<"message", b + 1>>,
         InOrder(q, a, b)
  PROVE  InOrder(s, a, b + 1)
<1> DEFINE P == {i \in 1 .. n : q[i][1] = "message"}
           Q == {i \in 1 .. (n + 1) : s[i][1] = "message"}
<1>1. /\ {q[i][2] : i \in P} = a .. b
      /\ \A i, j \in P : i < j => q[i][2] < q[j][2]
  BY DEF InOrder
<1>2. n + 1 \in Q /\ s[n + 1][2] = b + 1
  OBVIOUS
<1>3. \A i \in Q : i = n + 1 \/ (i \in P /\ s[i] = q[i] /\ i < n + 1)
  OBVIOUS
<1>4. \A i \in P : i \in Q /\ s[i] = q[i]
  OBVIOUS
<1>5. \A i \in P : q[i][2] \in a .. b
  BY <1>1
<1>6. {s[i][2] : i \in Q} = a .. (b + 1)
  <2>1. ASSUME NEW i \in Q
        PROVE  s[i][2] \in a .. (b + 1)
    BY <1>2, <1>3, <1>5
  <2>2. ASSUME NEW m \in a .. (b + 1)
        PROVE  \E i \in Q : s[i][2] = m
    <3>1. CASE m = b + 1
      BY <1>2, <3>1
    <3>2. CASE m # b + 1
      <4>1. m \in a .. b
        BY <3>2
      <4>2. m \in {q[i][2] : i \in P}
        BY <1>1, <4>1
      <4>3. PICK i \in P : q[i][2] = m
        BY <4>2
      <4>4. QED
        BY <1>4, <4>3
    <3>3. QED
      BY <3>1, <3>2
  <2>3. QED
    BY <2>1, <2>2
<1>7. ASSUME NEW i \in Q, NEW j \in Q, i < j
      PROVE  s[i][2] < s[j][2]
  <2>1. i \in P /\ s[i] = q[i] /\ q[i][2] \in a .. b
    BY <1>3, <1>5, <1>7
  <2>2. CASE j = n + 1
    BY <1>2, <2>1, <2>2
  <2>3. CASE j \in P /\ s[j] = q[j]
    BY <1>1, <1>7, <2>1, <2>3
  <2>4. QED
    BY <1>3, <2>2, <2>3
<1>8. QED
  BY <1>6, <1>7 DEF InOrder

LEMMA One ==
  ASSUME NEW f \in Frames
  PROVE  <<f>> \in Queues /\ Len(<<f>>) = 1 /\ <<f>>[1] = f
BY DEF Queues

LEMMA Joined ==
  ASSUME NEW p \in Queues, NEW q \in Queues
  PROVE  /\ p \o q \in Queues /\ Len(p) \in Nat /\ Len(q) \in Nat
         /\ Len(p \o q) = Len(p) + Len(q)
         /\ \A i \in 1 .. (Len(p) + Len(q)) :
              (p \o q)[i] = IF i <= Len(p) THEN p[i] ELSE q[i - Len(p)]
BY ConcatProperties, LenProperties DEF Queues

LEMMA Regrouped ==
  ASSUME NEW p \in Queues, NEW q \in Queues, NEW r \in Queues
  PROVE  (p \o q) \o r = p \o (q \o r)
BY ConcatAssociative, SMTT(30) DEF Queues

\* One queue after the other, by a name, as a lemma about \o is slow to apply.
Cat(p, q) == p \o q

LEMMA CatRegrouped ==
  ASSUME NEW p \in Queues, NEW q \in Queues, NEW r \in Queues
  PROVE  Cat(p, q) \in Queues /\ Cat(Cat(p, q), r) = Cat(p, Cat(q, r))
<1>1. Cat(p, q) \in Queues
  BY Joined DEF Cat
<1>2. (p \o q) \o r = p \o (q \o r)
  BY Regrouped, SMTT(30)
<1>3. QED
  BY <1>1, <1>2 DEF Cat

LEMMA CatRegroupedTwice ==
  ASSUME NEW p \in Queues, NEW q \in Queues, NEW r \in Queues, NEW u \in Queues
  PROVE  /\ Cat(Cat(q, r), u) \in Queues
         /\ Cat(Cat(Cat(p, q), r), u) = Cat(p, Cat(Cat(q, r), u))
<1>1. Cat(q, r) \in Queues
  BY CatRegrouped
<1>2. Cat(Cat(q, r), u) \in Queues
  BY <1>1, CatRegrouped
<1>3. Cat(Cat(p, q), r) = Cat(p, Cat(q, r))
  BY CatRegrouped
<1>4. Cat(Cat(p, Cat(q, r)), u) = Cat(p, Cat(Cat(q, r), u))
  BY <1>1, CatRegrouped
<1>5. QED
  BY <1>2, <1>3, <1>4

LEMMA FirstThenRest ==
  ASSUME NEW f \in Frames, NEW q \in Queues
  PROVE  /\ <<f>> \o q \in Queues /\ Len(<<f>> \o q) = Len(q) + 1 /\ Len(q) \in Nat
         /\ (<<f>> \o q)[1] = f
         /\ \A i \in 1 .. Len(q) : (<<f>> \o q)[i + 1] = q[i]
<1>1. PICK one : one = <<f>>
  OBVIOUS
<1>0. one \in Queues /\ Len(one) = 1 /\ one[1] = f
  BY <1>1, One
<1>2. /\ one \o q \in Queues /\ Len(one \o q) = 1 + Len(q) /\ Len(q) \in Nat
      /\ \A i \in 1 .. (1 + Len(q)) : (one \o q)[i] = IF i <= 1 THEN one[i] ELSE q[i - 1]
  <2>1. /\ one \o q \in Queues /\ Len(one \o q) = Len(one) + Len(q) /\ Len(q) \in Nat
        /\ \A i \in 1 .. (Len(one) + Len(q)) :
             (one \o q)[i] = IF i <= Len(one) THEN one[i] ELSE q[i - Len(one)]
    BY <1>0, Joined
  <2>2. Len(one) = 1
    BY <1>0
  <2>3. QED
    BY <2>1, <2>2
<1>3. \A i \in 1 .. Len(q) : (one \o q)[i + 1] = q[i]
  <2> TAKE i \in 1 .. Len(q)
  <2>1. PICK j : j = i + 1
    OBVIOUS
  <2>2. j \in 1 .. (1 + Len(q)) /\ ~(j <= 1) /\ j - 1 = i
    BY <1>2, <2>1
  <2>3. QED
    BY <1>2, <2>1, <2>2
<1>4. (one \o q)[1] = f
  BY <1>0, <1>2
<1>5. QED
  BY <1>1, <1>2, <1>3, <1>4

LEMMA QueueIsFirstThenRest ==
  ASSUME NEW q \in Queues, q # <<>>
  PROVE  /\ Head(q) \in Frames /\ Tail(q) \in Queues /\ <<Head(q)>> \in Queues
         /\ q = <<Head(q)>> \o Tail(q)
<1>1. /\ Head(q) \in Frames /\ Tail(q) \in Queues /\ Len(Tail(q)) = Len(q) - 1
      /\ \A i \in 1 .. Len(Tail(q)) : Tail(q)[i] = q[i + 1]
  BY HeadTailProperties DEF Queues
<1>2. Len(q) \in Nat \ {0} /\ Head(q) = q[1]
  BY EmptySeq DEF Queues
<1>3. PICK f \in Frames, r \in Queues : f = Head(q) /\ r = Tail(q)
  BY <1>1
<1>4. PICK s : s = <<f>> \o r
  OBVIOUS
<1>5. /\ s \in Queues /\ Len(s) = Len(r) + 1 /\ Len(r) \in Nat /\ s[1] = f
      /\ \A i \in 1 .. Len(r) : s[i + 1] = r[i]
  BY <1>4, FirstThenRest
<1>6. Len(s) = Len(q)
  BY <1>1, <1>2, <1>3, <1>5
<1>7. ASSUME NEW i \in 1 .. Len(q)
      PROVE  s[i] = q[i]
  <2>1. CASE i = 1
    BY <1>2, <1>3, <1>5, <2>1
  <2>2. CASE i # 1
    <3>1. PICK j : j = i - 1
      OBVIOUS
    <3>2. j \in 1 .. Len(r) /\ j + 1 = i
      BY <1>1, <1>2, <1>3, <2>2, <3>1
    <3>3. s[i] = r[j] /\ r[j] = q[i]
      BY <1>1, <1>3, <1>5, <3>2
    <3>4. QED
      BY <3>3
  <2>3. QED
    BY <2>1, <2>2
<1>8. s = q
  BY <1>5, <1>6, <1>7, SeqEqual DEF Queues
<1>9. <<Head(q)>> \in Queues
  BY <1>1 DEF Queues
<1>10. QED
  BY <1>1, <1>3, <1>4, <1>8, <1>9

\* The first frame of a flow, and the rest of it.
SplitsOff(s, w, r) ==
  \E p \in Queues : p = Tail(s) \o w \o r /\ s \o w \o r = <<Head(s)>> \o p

LEMMA SplitOff ==
  ASSUME NEW s \in Queues, NEW w \in Queues, NEW r \in Queues, s # <<>>
  PROVE  SplitsOff(s, w, r)
<1>1. PICK one \in Queues, t \in Queues : one = <<Head(s)>> /\ t = Tail(s) /\ s = Cat(one, t)
  <2>1. <<Head(s)>> \in Queues /\ Tail(s) \in Queues /\ s = <<Head(s)>> \o Tail(s)
    BY QueueIsFirstThenRest
  <2>2. QED
    BY <2>1 DEF Cat
<1>2. PICK p \in Queues : p = Cat(Cat(t, w), r)
  BY CatRegroupedTwice
<1>3. Cat(Cat(s, w), r) = Cat(one, p)
  <2>1. Cat(Cat(Cat(one, t), w), r) = Cat(one, Cat(Cat(t, w), r))
    BY CatRegroupedTwice
  <2>2. QED
    BY <1>1, <1>2, <2>1
<1>4. p = t \o w \o r /\ s \o w \o r = one \o p
  BY <1>2, <1>3 DEF Cat
<1>5. QED
  BY <1>1, <1>4 DEF SplitsOff

\* A frame of the socket is read.
LEMMA ReadFlow ==
  ASSUME NEW s \in Queues, NEW w \in Queues, NEW r \in Queues, s # <<>>,
         NEW a \in Nat, NEW b \in Nat, InOrder(s \o w \o r, a, b)
  PROVE  IF Head(s)[1] = "message" THEN InOrder(Tail(s) \o w \o r, a + 1, b) /\ a <= b
                                   ELSE InOrder(Tail(s) \o w \o r, a, b)
<1>1. /\ Head(s) \in Frames /\ Tail(s) \in Queues /\ <<Head(s)>> \in Queues
      /\ s = <<Head(s)>> \o Tail(s)
  BY QueueIsFirstThenRest
<1>2. PICK f \in Frames, one \in Queues, t \in Queues :
        f = Head(s) /\ one = <<f>> /\ t = Tail(s) /\ s = one \o t
  BY <1>1
<1>3. PICK p \in Queues : p = t \o w \o r /\ s \o w \o r = one \o p
  <2>1. SplitsOff(s, w, r)
    BY SplitOff
  <2>2. PICK p \in Queues : p = Tail(s) \o w \o r /\ s \o w \o r = <<Head(s)>> \o p
    BY <2>1 DEF SplitsOff
  <2>3. QED
    BY <1>2, <2>2
<1>4. s \o w \o r = one \o p
  BY <1>3
<1>5. PICK q : q = one \o p
  OBVIOUS
<1>6. PICK n \in Nat : n = Len(p)
  BY LenProperties DEF Queues
<1>7. Len(q) = n + 1 /\ q[1] = f /\ \A i \in 1 .. n : q[i + 1] = p[i]
  BY <1>2, <1>5, <1>6, FirstThenRest
<1>8. CASE f[1] = "message"
  <2>1. InOrder(p, a + 1, b) /\ a <= b
    BY <1>4, <1>5, <1>6, <1>7, <1>8, OrderWithoutFirst
  <2>2. QED
    BY <1>2, <1>3, <1>8, <2>1
<1>9. CASE f[1] # "message"
  <2>1. PICK k \in 0 .. n : k = 0
    OBVIOUS
  <2>2. /\ q[k + 1][1] # "message" /\ \A i \in 1 .. k : q[i] = p[i]
        /\ \A i \in (k + 1) .. n : q[i + 1] = p[i]
    BY <1>7, <1>9, <2>1
  <2>3. InOrder(q, a, b) <=> InOrder(p, a, b)
    BY <1>6, <1>7, <2>2, OrderWithNotice
  <2>4. QED
    BY <1>2, <1>3, <1>4, <1>5, <1>9, <2>3
<1>10. QED
  BY <1>8, <1>9

\* A frame goes from out_rx into the hands of the writer, which had none.
LEMMA TakenFlow ==
  ASSUME NEW s \in Queues, NEW r \in Queues, r # <<>>
  PROVE  s \o <<>> \o r = s \o <<Head(r)>> \o Tail(r)
<1>1. /\ <<Head(r)>> \in Queues /\ Tail(r) \in Queues
      /\ r = <<Head(r)>> \o Tail(r)
  BY QueueIsFirstThenRest
<1>2. PICK one \in Queues, t \in Queues : one = <<Head(r)>> /\ t = Tail(r) /\ r = one \o t
  BY <1>1
<1>3. (s \o one) \o t = s \o (one \o t)
  BY Regrouped, SMTT(30)
<1>4. s \o <<>> = s
  BY ConcatEmptySeq DEF Queues
<1>5. QED
  BY <1>2, <1>3, <1>4

\* What was written has left the writer.
LEMMA WrittenFlow ==
  ASSUME NEW s \in Queues, NEW w \in Queues, NEW r \in Queues
  PROVE  (s \o w) \o <<>> \o r = s \o w \o r
<1>1. PICK q \in Queues : q = s \o w
  BY ConcatProperties DEF Queues
<1>2. q \o <<>> = q
  BY ConcatEmptySeq DEF Queues
<1>3. QED
  BY <1>1, <1>2

\* A notice overtakes what is queued.
LEMMA NoticeFlow ==
  ASSUME NEW s \in Queues, NEW r \in Queues, NEW f \in Frames, f[1] # "message",
         NEW a, NEW b, InOrder(s \o <<>> \o r, a, b)
  PROVE  InOrder(s \o <<f>> \o r, a, b)
<1>1. PICK k \in Nat, m \in Nat : k = Len(s) /\ m = Len(r)
  BY LenProperties DEF Queues
<1>2. PICK q \in Queues : q = s \o r
  BY Joined
<1>3. PICK t : t = <<f>> \o r
  OBVIOUS
<1>0. /\ t \in Queues /\ Len(t) = m + 1 /\ t[1] = f
      /\ \A i \in 1 .. m : t[i + 1] = r[i]
  BY <1>1, <1>3, FirstThenRest
<1>4. PICK p \in Queues : p = s \o t
  BY <1>0, Joined
<1>5. /\ Len(q) = k + m
      /\ \A i \in 1 .. (k + m) : q[i] = IF i <= k THEN s[i] ELSE r[i - k]
  BY <1>1, <1>2, Joined
<1>6. /\ Len(p) = k + m + 1
      /\ \A i \in 1 .. (k + m + 1) : p[i] = IF i <= k THEN s[i] ELSE t[i - k]
  <2>1. /\ Len(p) = k + (m + 1)
        /\ \A i \in 1 .. (k + (m + 1)) : p[i] = IF i <= k THEN s[i] ELSE t[i - k]
    <3>1. /\ Len(p) = Len(s) + Len(t)
          /\ \A i \in 1 .. (Len(s) + Len(t)) : p[i] = IF i <= Len(s) THEN s[i] ELSE t[i - Len(s)]
      BY <1>0, <1>4, Joined
    <3>2. Len(s) = k /\ Len(t) = m + 1
      BY <1>0, <1>1
    <3>3. QED
      BY <3>1, <3>2
  <2>2. k + (m + 1) = k + m + 1
    OBVIOUS
  <2>3. QED
    BY <2>1, <2>2
<1>7. p[k + 1] = f
  <2>1. PICK j : j = k + 1
    OBVIOUS
  <2>2. j \in 1 .. (k + m + 1) /\ ~(j <= k) /\ j - k = 1
    BY <2>1
  <2>3. QED
    BY <1>0, <1>6, <2>1, <2>2
<1>8. \A i \in 1 .. k : p[i] = q[i]
  BY <1>5, <1>6
<1>9. ASSUME NEW i \in (k + 1) .. (k + m)
      PROVE  p[i + 1] = q[i]
  <2>1. PICK j, h : j = i + 1 /\ h = i - k
    OBVIOUS
  <2>2. /\ j \in 1 .. (k + m + 1) /\ ~(j <= k) /\ j - k = h + 1 /\ h \in 1 .. m
        /\ i \in 1 .. (k + m) /\ ~(i <= k)
    BY <2>1
  <2>3. p[j] = t[h + 1] /\ q[i] = r[h]
    BY <1>5, <1>6, <2>1, <2>2
  <2>4. QED
    BY <1>0, <2>1, <2>2, <2>3
<1>10. PICK n \in Nat : n = k + m
  OBVIOUS
<1>11. InOrder(p, a, b) <=> InOrder(q, a, b)
  <2>1. k \in 0 .. n /\ Len(q) = n /\ Len(p) = n + 1
    BY <1>5, <1>6, <1>10
  <2>2. /\ p[k + 1][1] # "message" /\ \A i \in 1 .. k : p[i] = q[i]
        /\ \A i \in (k + 1) .. n : p[i + 1] = q[i]
    BY <1>7, <1>8, <1>9, <1>10
  <2>3. QED
    BY <2>1, <2>2, OrderWithNotice
<1>12. s \o <<>> \o r = q
  <2>1. s \o <<>> = s
    BY ConcatEmptySeq DEF Queues
  <2>2. QED
    BY <1>2, <2>1
<1>13. s \o <<f>> \o r = p
  <2>1. PICK one \in Queues : one = <<f>>
    BY One
  <2>2. (s \o one) \o r = s \o (one \o r)
    BY Regrouped, SMTT(30)
  <2>3. QED
    BY <1>3, <1>4, <2>1, <2>2
<1>14. QED
  BY <1>11, <1>12, <1>13

\* The next message is queued.
LEMMA QueuedFlow ==
  ASSUME NEW s \in Queues, NEW w \in Queues, NEW r \in Queues,
         NEW a \in Nat, NEW b \in Nat, a <= b + 1, InOrder(s \o w \o r, a, b)
  PROVE  InOrder(s \o w \o Append(r, <<"message", b + 1>>), a, b + 1)
<1>1. PICK u \in Queues : u = s \o w
  BY Joined
<1>2. PICK f \in Frames : f = <<"message", b + 1>>
  <2>1. <<"message", b + 1>> \in Frames
    BY DEF Frames
  <2>2. QED
    BY <2>1
<1>3. PICK l \in Nat, m \in Nat : l = Len(u) /\ m = Len(r)
  BY LenProperties DEF Queues
<1>4. PICK t : t = Append(r, f)
  OBVIOUS
<1>0. /\ t \in Queues /\ Len(t) = m + 1 /\ t[m + 1] = f
      /\ \A i \in 1 .. m : t[i] = r[i]
  BY <1>3, <1>4, AppendProperties DEF Queues
<1>5. PICK q \in Queues, p \in Queues : q = u \o r /\ p = u \o t
  BY <1>0, Joined
<1>6. /\ Len(q) = l + m
      /\ \A i \in 1 .. (l + m) : q[i] = IF i <= l THEN u[i] ELSE r[i - l]
  BY <1>3, <1>5, Joined
<1>7. /\ Len(p) = l + (m + 1)
      /\ \A i \in 1 .. (l + (m + 1)) : p[i] = IF i <= l THEN u[i] ELSE t[i - l]
  <2>1. /\ Len(p) = Len(u) + Len(t)
        /\ \A i \in 1 .. (Len(u) + Len(t)) : p[i] = IF i <= Len(u) THEN u[i] ELSE t[i - Len(u)]
    <3>1. t \in Queues
      BY <1>0
    <3>2. p = u \o t
      BY <1>5
    <3>3. QED
      BY <3>1, <3>2, Joined
  <2>2. Len(u) = l /\ Len(t) = m + 1
    BY <1>0, <1>3
  <2>3. QED
    BY <2>1, <2>2
<1>8. PICK n \in Nat : n = l + m
  OBVIOUS
<1>9. ASSUME NEW i \in 1 .. n
      PROVE  p[i] = q[i]
  <2>1. i \in 1 .. (l + m) /\ i \in 1 .. (l + (m + 1)) /\ (~(i <= l) => i - l \in 1 .. m)
    BY <1>8
  <2>2. QED
    BY <1>0, <1>6, <1>7, <2>1
<1>10. p[n + 1] = f
  <2>1. PICK j : j = n + 1
    OBVIOUS
  <2>2. j \in 1 .. (l + (m + 1)) /\ ~(j <= l) /\ j - l = m + 1
    BY <1>8, <2>1
  <2>3. QED
    BY <1>0, <1>7, <2>1, <2>2
<1>11. Len(q) = n /\ Len(p) = n + 1
  BY <1>6, <1>7, <1>8
<1>12. InOrder(p, a, b + 1)
  BY <1>1, <1>2, <1>5, <1>9, <1>10, <1>11, OrderWithLast
<1>13. QED
  BY <1>1, <1>2, <1>4, <1>5, <1>12

\* MessagesKeepTheirOrder of one session; before it opens it is empty.
Flow(c) ==
  /\ c \in Served /\ ~eof[c] =>
        /\ InOrder(socket[c] \o writing[c] \o out_rx[c], got[c] + 1, queued[c])
        /\ got[c] <= queued[c]
  /\ stage[c] = "off" => /\ socket[c] = <<>> /\ writing[c] = <<>> /\ out_rx[c] = <<>>
                         /\ queued[c] = 0 /\ got[c] = 0

Flows == \A c \in Conns : Flow(c)

LEMMA FlowKept ==
  ASSUME NEW c \in Conns, Flow(c),
         UNCHANGED <<socket[c], writing[c], out_rx[c], queued[c], got[c]>>,
         \/ stage'[c] = stage[c]
         \/ stage[c] # "off" /\ stage'[c] = "closed"
         \/ c \in Served /\ stage'[c] \in {"select", "write"} \cup Handlers,
         ~eof'[c] => ~eof[c]
  PROVE  Flow(c)'
BY DEF Flow, Served, Handlers

LEMMA EmptyFlow == InOrder(<<>>, 1, 0)
<1>1. PICK q, a, b : q = <<>> /\ a = 1 /\ b = 0
  OBVIOUS
<1>2. 1 .. Len(q) = {} /\ a .. b = {}
  BY <1>1
<1>3. InOrder(q, a, b)
  BY <1>2 DEF InOrder
<1>4. QED
  BY <1>1, <1>3

\* What a step does to the flow of its own session.
LEMMA OwnFlow ==
  ASSUME TypeOK, NEW c \in Conns, Flow(c),
         Open(c) \/ ClientReads(c) \/ Recv(c) \/ Answer(c) \/ Write(c)
  PROVE  Flow(c)'
<1> USE DEF input, output, clock, bounds, seen
<1>0. /\ socket \in [Conns -> Queues] /\ writing \in [Conns -> Queues]
      /\ out_rx \in [Conns -> Queues] /\ queued \in [Conns -> Nat] /\ got \in [Conns -> Nat]
      /\ eof \in [Conns -> BOOLEAN]
      /\ stage \in [Conns -> {"off", "select", "write", "closed"} \cup Handlers]
      /\ stage[c] # "write" => writing[c] = <<>>
  BY TypeParts DEF TypeInput, TypeOutput, TypeStage
<1>1. PICK s \in Queues, w \in Queues, r \in Queues, a \in Nat, b \in Nat :
        s = socket[c] /\ w = writing[c] /\ r = out_rx[c] /\ a = got[c] /\ b = queued[c]
  BY <1>0
<1>2. /\ c \in Served /\ ~eof[c] => InOrder(s \o w \o r, a + 1, b) /\ a <= b
      /\ stage[c] = "off" => s = <<>> /\ w = <<>> /\ r = <<>> /\ a = 0 /\ b = 0
  BY <1>1 DEF Flow
<1>3. CASE Open(c)
  <2>1. /\ UNCHANGED <<socket, writing, out_rx, queued, got>>
        /\ s = <<>> /\ w = <<>> /\ r = <<>> /\ a = 0 /\ b = 0 /\ stage'[c] = "select"
    BY <1>0, <1>2, <1>3 DEF Open, Goto
  <2>2. s \o w \o r = <<>>
    <3>1. s \o w = <<>>
      BY <2>1, ConcatEmptySeq DEF Queues
    <3>2. <<>> \o r = <<>>
      BY <2>1, ConcatEmptySeq DEF Queues
    <3>3. QED
      BY <3>1, <3>2
  <2>3. InOrder(s \o w \o r, a + 1, b)
    <3>1. a + 1 = 1 /\ b = 0
      BY <2>1
    <3>2. QED
      BY <2>2, <3>1, EmptyFlow
  <2>4. QED
    BY <1>1, <1>2, <2>1, <2>3 DEF Flow
<1>4. CASE ClientReads(c)
  <2>1. ~eof[c] /\ s # <<>> /\ UNCHANGED <<stage, writing, out_rx, eof, queued>>
    BY <1>1, <1>4 DEF ClientReads
  <2>2. socket'[c] = Tail(s) /\ got'[c] = IF Head(s)[1] = "message" THEN a + 1 ELSE a
    BY <1>0, <1>1, <1>4 DEF ClientReads
  <2>3. stage[c] # "off"
    BY <1>2, <2>1
  <2>4. CASE c \in Served
    <3>1. InOrder(s \o w \o r, a + 1, b)
      BY <1>2, <2>1, <2>4
    <3>2. a + 1 \in Nat
      OBVIOUS
    <3>3. CASE Head(s)[1] = "message"
      <4>1. InOrder(Tail(s) \o w \o r, (a + 1) + 1, b) /\ a + 1 <= b
        BY <2>1, <3>1, <3>2, <3>3, ReadFlow
      <4>2. QED
        BY <1>1, <2>1, <2>2, <2>3, <3>3, <4>1 DEF Flow
    <3>4. CASE Head(s)[1] # "message"
      <4>1. InOrder(Tail(s) \o w \o r, a + 1, b)
        BY <2>1, <3>1, <3>2, <3>4, ReadFlow
      <4>2. a <= b
        BY <1>2, <2>1, <2>4
      <4>3. QED
        BY <1>1, <2>1, <2>2, <2>3, <3>4, <4>1, <4>2 DEF Flow
    <3>5. QED
      BY <3>3, <3>4
  <2>5. CASE c \notin Served
    <3>1. c \notin Served' /\ stage'[c] # "off"
      BY <2>1, <2>3, <2>5 DEF Served
    <3>2. QED
      BY <3>1 DEF Flow
  <2>6. QED
    BY <2>4, <2>5
<1>5. CASE Recv(c)
  <2>1. /\ stage[c] = "select" /\ r # <<>> /\ w = <<>>
        /\ UNCHANGED <<socket, eof, queued, got>>
    BY <1>0, <1>1, <1>5 DEF Recv
  <2>2. writing'[c] = <<Head(r)>> /\ out_rx'[c] = Tail(r) /\ stage'[c] = "write"
    BY <1>0, <1>1, <1>5 DEF Recv, Goto
  <2>3. s \o w \o r = s \o <<Head(r)>> \o Tail(r)
    BY <2>1, TakenFlow
  <2>4. ~eof[c] => InOrder(s \o <<Head(r)>> \o Tail(r), a + 1, b) /\ a <= b
    BY <1>2, <2>1, <2>3 DEF Served
  <2>5. QED
    BY <1>1, <1>2, <2>1, <2>2, <2>4 DEF Flow
<1>6. CASE Answer(c)
  <2>1. /\ stage[c] = "answer" /\ w = <<>> /\ UNCHANGED <<socket, out_rx, eof, queued, got>>
    BY <1>0, <1>1, <1>6 DEF Answer
  <2>2. PICK f \in Frames : f = <<"notice", 0>> /\ f[1] # "message"
    <3>1. <<"notice", 0>> \in Frames /\ <<"notice", 0>>[1] # "message"
      BY DEF Frames
    <3>2. QED
      BY <3>1
  <2>3. writing'[c] = <<f>> /\ stage'[c] = "write"
    BY <1>0, <1>6, <2>2 DEF Answer, Goto
  <2>4. ~eof[c] => InOrder(s \o <<>> \o r, a + 1, b) /\ a <= b
    BY <1>2, <2>1 DEF Served, Handlers
  <2>5. ASSUME ~eof[c]
        PROVE  InOrder(s \o <<f>> \o r, a + 1, b)
    <3>1. a + 1 \in Nat /\ InOrder(s \o <<>> \o r, a + 1, b)
      BY <2>4, <2>5
    <3>2. QED
      BY <2>2, <3>1, NoticeFlow
  <2>6. QED
    BY <1>1, <1>2, <2>1, <2>3, <2>4, <2>5 DEF Flow
<1>7. CASE Write(c)
  <2>1. /\ stage[c] = "write" /\ UNCHANGED <<out_rx, eof, queued, got>>
        /\ ~eof[c] => socket'[c] = s \o w
    BY <1>0, <1>1, <1>7 DEF Write
  <2>2. writing'[c] = <<>> /\ stage'[c] = "select"
    BY <1>0, <1>7 DEF Write, Goto
  <2>3. ~eof[c] => InOrder((s \o w) \o <<>> \o r, a + 1, b) /\ a <= b
    BY <1>2, <2>1, WrittenFlow DEF Served
  <2>4. QED
    BY <1>1, <1>2, <2>1, <2>2, <2>3 DEF Flow
<1>8. QED
  BY <1>3, <1>4, <1>5, <1>6, <1>7

\* A post reaches every session.
LEMMA PostFlow ==
  ASSUME TypeOK, Flows, NEW c \in Conns, Post(c), NEW d \in Conns
  PROVE  Flow(d)'
<1> USE DEF clock, bounds
<1>0. /\ socket \in [Conns -> Queues] /\ writing \in [Conns -> Queues]
      /\ out_rx \in [Conns -> Queues] /\ queued \in [Conns -> Nat] /\ got \in [Conns -> Nat]
      /\ eof \in [Conns -> BOOLEAN]
      /\ stage \in [Conns -> {"off", "select", "write", "closed"} \cup Handlers]
  BY TypeParts DEF TypeInput, TypeOutput, TypeStage
<1>1. UNCHANGED <<socket, writing, eof, got>> /\ stage[c] = "post"
  BY DEF Post
<1>2. \/ d = c /\ stage'[d] = "select"
      \/ d # c /\ stage'[d] = stage[d]
  <2>1. stage' = [stage EXCEPT ![c] = "select"]
    BY DEF Post, Goto
  <2>2. QED
    BY <1>0, <2>1
<1>3. Flow(d)
  BY DEF Flows
<1>4. CASE d \in Served
  <2>1. PICK s \in Queues, w \in Queues, r \in Queues, a \in Nat, b \in Nat :
          s = socket[d] /\ w = writing[d] /\ r = out_rx[d] /\ a = got[d] /\ b = queued[d]
    BY <1>0
  <2>2. ~eof[d] => a <= b /\ InOrder(s \o w \o r, a + 1, b)
    BY <1>3, <1>4, <2>1 DEF Flow
  <2>3. queued'[d] = b + 1
    BY <1>0, <1>4, <2>1 DEF Post
  <2>4. out_rx'[d] = Append(r, <<"message", b + 1>>)
    BY <1>0, <1>4, <2>1, <2>3 DEF Post
  <2>5. ~eof[d] => InOrder(s \o w \o Append(r, <<"message", b + 1>>), a + 1, b + 1)
    <3>1. a + 1 \in Nat /\ (~eof[d] => a + 1 <= b + 1)
      BY <2>2
    <3>2. QED
      BY <2>2, <3>1, QueuedFlow
  <2>6. stage'[d] # "off" /\ (~eof[d] => a <= b + 1)
    BY <1>2, <1>4, <2>2 DEF Served, Handlers
  <2>7. QED
    BY <1>1, <2>1, <2>3, <2>4, <2>5, <2>6 DEF Flow
<1>5. CASE d \notin Served
  <2>1. d # c /\ out_rx'[d] = out_rx[d] /\ queued'[d] = queued[d]
    BY <1>0, <1>1, <1>5 DEF Post, Served, Handlers
  <2>2. QED
    BY <1>1, <1>2, <1>3, <2>1, FlowKept
<1>6. QED
  BY <1>4, <1>5

LEMMA FlowsNext ==
  ASSUME TypeOK, Flows, [Next]_vars
  PROVE  Flows'
<1> USE DEF vars, input, output, clock, bounds, seen
<1>0. /\ socket \in [Conns -> Queues] /\ writing \in [Conns -> Queues]
      /\ out_rx \in [Conns -> Queues] /\ queued \in [Conns -> Nat] /\ got \in [Conns -> Nat]
      /\ eof \in [Conns -> BOOLEAN]
      /\ stage \in [Conns -> {"off", "select", "write", "closed"} \cup Handlers]
  BY TypeParts DEF TypeInput, TypeOutput, TypeStage
<1>1. CASE Tick \/ UNCHANGED vars
  <2>1. UNCHANGED <<stage, eof, socket, writing, out_rx, queued, got>>
    BY <1>1 DEF Tick
  <2>2. QED
    BY <2>1, FlowKept DEF Flows
<1>2. ASSUME NEW c \in Conns, NEW d \in Conns, Post(c)
      PROVE  Flow(d)'
  BY <1>2, PostFlow
<1>3. ASSUME NEW c \in Conns, NEW d \in Conns, d # c,
             \/ Open(c) \/ Send(c) \/ ClientReads(c) \/ Hangup(c)
             \/ Heartbeat(c) \/ Recv(c) \/ Read(c) \/ Answer(c) \/ Write(c) \/ Panic(c)
      PROVE  Flow(d)'
  <2>1. UNCHANGED <<socket[d], writing[d], out_rx[d], queued[d], got[d]>>
    BY <1>0, <1>3 DEF Open, Send, ClientReads, Hangup, Heartbeat, Recv, Read, TakePiece,
                      ReadLine, ReadRest, End, Answer, Panic, Write
  <2>2. UNCHANGED <<stage[d], eof[d]>>
    BY <1>0, <1>3 DEF Open, Send, ClientReads, Hangup, Heartbeat, Recv, Read, TakePiece,
                      ReadLine, ReadRest, End, Answer, Panic, Write, Dispatch, Goto
  <2>3. QED
    BY <2>1, <2>2, FlowKept DEF Flows
<1>4. ASSUME NEW c \in Conns, Open(c) \/ ClientReads(c) \/ Recv(c) \/ Answer(c) \/ Write(c)
      PROVE  Flow(c)'
  BY <1>4, OwnFlow DEF Flows
<1>5. ASSUME NEW c \in Conns, Send(c) \/ Heartbeat(c) \/ TakePiece(c) \/ ReadLine(c) \/ ReadRest(c)
      PROVE  Flow(c)'
  <2>1. UNCHANGED <<socket, writing, out_rx, queued, got, eof>>
    BY <1>5 DEF Send, Heartbeat, TakePiece, ReadLine, ReadRest
  <2>2. \/ stage'[c] = stage[c]
        \/ c \in Served /\ stage'[c] \in {"select", "write"} \cup Handlers
    BY <1>0, <1>5 DEF Send, Heartbeat, TakePiece, ReadLine, ReadRest, Dispatch, Goto, Served
  <2>3. QED
    BY <2>1, <2>2, FlowKept DEF Flows
<1>6. ASSUME NEW c \in Conns, Hangup(c) \/ End(c) \/ Panic(c)
      PROVE  Flow(c)'
  <2>1. /\ stage[c] # "off" /\ stage'[c] # "off" /\ UNCHANGED <<queued, got>>
        /\ c \notin Served' \/ eof'[c]
    BY <1>0, <1>6 DEF Hangup, End, Panic, Goto, Served, Handlers
  <2>2. QED
    BY <2>1 DEF Flow, Flows
<1>7. QED
  BY <1>1, <1>2, <1>3, <1>4, <1>5, <1>6 DEF Next, Task, Read, Handle, Flows

(* A client gets the messages put into its session's queue, each once and  *)
(* in their order, however slowly it reads and whatever answers come in    *)
(* between: a task writes one frame at a time, and what it writes or       *)
(* answers never moves a queued message.                                   *)
THEOREM MessagesInOrder == Spec => []MessagesKeepTheirOrder
<1>1. Init => Flows
  BY DEF Init, Flows, Flow, Served, Handlers
<1>2. Flows => MessagesKeepTheirOrder
  BY DEF Flows, Flow, Served, MessagesKeepTheirOrder
<1>3. QED
  BY TypeInit, TypeNext, <1>1, <1>2, FlowsNext, PTL DEF Spec
=============================================================================

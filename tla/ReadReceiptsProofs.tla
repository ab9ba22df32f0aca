------------------------- MODULE ReadReceiptsProofs -------------------------
(***************************************************************************)
(* Theorems about ReadReceipts, for every set of clients and of rooms,     *)
(* every order of the memberships and every number of lines.               *)
(***************************************************************************)
EXTENDS ReadReceipts, SequenceTheorems, FiniteSetTheorems, TLAPS

-----------------------------------------------------------------------------
(* Facts about numbers and lists.                                          *)

(* Induction up to n for a set.  If n were missing, x + 1 would map the    *)
(* numbers up to n that are in S one to one into all of them but 0, one    *)
(* place too few.                                                          *)
LEMMA ReachedFromZero ==
  ASSUME NEW S, NEW n \in Nat, 0 \in S, \A m \in 0..(n - 1) : m \in S => m + 1 \in S
  PROVE  n \in S
<1> SUFFICES ASSUME n \notin S PROVE FALSE
  OBVIOUS
<1> DEFINE A == (0..n) \cap S
           f == [x \in A |-> x + 1]
<1>1. IsFiniteSet(A) /\ Cardinality(A) \in Nat
  <2>1. IsFiniteSet(0..n)
    BY FS_Interval
  <2>2. QED
    BY <2>1, FS_Subset, FS_CardinalityType
<1>2. IsFiniteSet(A \ {0}) /\ Cardinality(A \ {0}) = Cardinality(A) - 1
  <2>1. 0 \in A
    OBVIOUS
  <2> HIDE DEF A
  <2>2. QED
    BY <1>1, <2>1, FS_RemoveElement
<1>3. f \in [A -> A \ {0}]
  <2>1. \A x \in A : x + 1 \in A \ {0}
    OBVIOUS
  <2> HIDE DEF A
  <2>2. QED
    BY <2>1
<1>4. \A x, y \in A : f[x] = f[y] => x = y
  OBVIOUS
<1> HIDE DEF A, f
<1>5. \E x, y \in A : x # y /\ f[x] = f[y]
  <2>1. Cardinality(A \ {0}) < Cardinality(A)
    BY <1>1, <1>2
  <2>2. QED
    BY <1>1, <1>2, <1>3, <2>1, FS_PigeonHole
<1>6. QED
  BY <1>4, <1>5

(* A room is taken out of a list once, if it is there; the others stay.    *)
LEMMA WithoutType ==
  ASSUME NEW S, NEW names \in Seq(S), NEW r
  PROVE  /\ Without(names, r) \in Seq(S)
         /\ Len(names) > 1 => Without(names, r) # <<>>
         /\ \A x : x # r /\ Listed(x, names) => Listed(x, Without(names, r))
<1>1. Len(names) \in Nat
  BY LenProperties
<1>2. CASE \E i \in 1..Len(names) : names[i] = r
  <2> DEFINE i == CHOOSE j \in 1..Len(names) : names[j] = r
             before == SubSeq(names, 1, i-1)
             after  == SubSeq(names, i+1, Len(names))
  <2>1. i \in 1..Len(names) /\ names[i] = r
    BY <1>2
  <2>2. Without(names, r) = before \o after
    BY <1>2 DEF Without, RemoveAt
  <2> HIDE DEF i
  <2>3. /\ before \in Seq(S) /\ Len(before) = i - 1
        /\ \A j \in 1..(i-1) : before[j] = names[j]
    <3>1. \A j \in 1..(i-1) : names[j] \in S
      BY <1>1, <2>1, ElementOfSeq
    <3>2. QED
      BY <1>1, <2>1, <3>1, SubSeqProperties
  <2>4. /\ after \in Seq(S) /\ Len(after) = Len(names) - i
        /\ \A j \in 1..(Len(names) - i) : after[j] = names[i + j]
    <3>1. \A j \in (i+1)..Len(names) : names[j] \in S
      BY <1>1, <2>1, ElementOfSeq
    <3>2. QED
      BY <1>1, <2>1, <3>1, SubSeqProperties
  <2> HIDE DEF before, after
  <2>5. /\ before \o after \in Seq(S) /\ Len(before \o after) = Len(names) - 1
        /\ \A j \in 1..(Len(names) - 1) :
             (before \o after)[j] = IF j <= i - 1 THEN before[j] ELSE after[j - (i - 1)]
    <3>1. Len(before) + Len(after) = Len(names) - 1
      BY <1>1, <2>1, <2>3, <2>4
    <3>2. /\ before \o after \in Seq(S)
          /\ Len(before \o after) = Len(before) + Len(after)
          /\ \A j \in 1..(Len(before) + Len(after)) : (before \o after)[j] =
               IF j <= Len(before) THEN before[j] ELSE after[j - Len(before)]
      BY <2>3, <2>4, ConcatProperties
    <3>3. Len(before) = i - 1
      BY <2>3
    <3>4. QED
      BY <3>1, <3>2, <3>3
  <2>6. ASSUME NEW x, x # r, Listed(x, names)
        PROVE  Listed(x, before \o after)
    <3>1. PICK k \in 1..Len(names) : names[k] = x
      BY <2>6 DEF Listed
    <3>2. CASE k < i
      <4>1. k \in 1..(i-1) /\ k \in 1..(Len(names) - 1) /\ k <= i - 1
        BY <1>1, <2>1, <3>2
      <4>2. (before \o after)[k] = names[k]
        BY <2>3, <2>5, <4>1
      <4>3. QED
        BY <2>5, <3>1, <4>1, <4>2 DEF Listed
    <3>3. CASE k > i
      <4>1. PICK j \in 1..(Len(names) - i) : j = k - i
        BY <1>1, <2>1, <3>3
      <4>2. k - 1 \in 1..(Len(names) - 1) /\ ~(k - 1 <= i - 1) /\ (k - 1) - (i - 1) = j /\ i + j = k
        BY <1>1, <2>1, <3>3, <4>1
      <4>3. (before \o after)[k - 1] = names[k]
        BY <2>4, <2>5, <4>1, <4>2
      <4>4. QED
        BY <2>5, <3>1, <4>2, <4>3 DEF Listed
    <3>4. k # i
      BY <2>1, <2>6, <3>1
    <3>5. QED
      BY <1>1, <2>1, <3>1, <3>2, <3>3, <3>4
  <2>7. QED
    BY <1>1, <2>1, <2>2, <2>5, <2>6, EmptySeq
<1>3. CASE ~ \E i \in 1..Len(names) : names[i] = r
  BY <1>1, <1>3, EmptySeq DEF Without
<1>4. QED
  BY <1>2, <1>3

LEMMA MembershipType ==
  ASSUME NEW S, NEW names \in Seq(S), NEW r \in S
  PROVE  /\ save_room_membership(names, r) \in Seq(S) \ {<<>>}
         /\ \A x : Listed(x, names) => Listed(x, save_room_membership(names, r))
<1> DEFINE left == Without(names, r)
           q    == <<r>> \o left
<1>1. save_room_membership(names, r) = q
  BY DEF save_room_membership
<1>2. left \in Seq(S) /\ Len(left) \in Nat /\ <<r>> \in Seq(S) /\ Len(<<r>>) = 1
  BY WithoutType, LenProperties
<1>3. \A x : x # r /\ Listed(x, names) => Listed(x, left)
  BY WithoutType
<1> HIDE DEF left
<1>4. /\ q \in Seq(S) /\ Len(q) = 1 + Len(left) /\ q[1] = r
      /\ \A j \in 1..Len(left) : q[1 + j] = left[j]
  BY <1>2, ConcatProperties
<1> HIDE DEF q
<1>5. q # <<>>
  BY <1>2, <1>4, EmptySeq
<1>6. \A x : x = r \/ Listed(x, left) => Listed(x, q)
  <2>1. \A j \in 1..Len(left) : 1 + j \in 1..Len(q)
    BY <1>2, <1>4
  <2>2. 1 \in 1..Len(q)
    BY <1>2, <1>4
  <2>3. QED
    BY <1>4, <2>1, <2>2 DEF Listed
<1>7. QED
  BY <1>1, <1>3, <1>4, <1>5, <1>6

(* A list that is not empty has its first room.                            *)
LEMMA FirstIsIn ==
  ASSUME NEW S, NEW names \in Seq(S), names # <<>>
  PROVE  Head(names) \in S
BY HeadTailProperties

LEMMA ListedIsThere ==
  ASSUME NEW S, NEW names \in Seq(S), NEW r, Listed(r, names)
  PROVE  names # <<>> /\ r \in S
<1>1. PICK i \in 1..Len(names) : names[i] = r
  BY DEF Listed
<1>2. Len(names) \in Nat
  BY LenProperties
<1>3. QED
  BY <1>1, <1>2, EmptySeq, ElementOfSeq

(* What a queue holds after it was extended, and without its first.        *)
LEMMA QueueExtends ==
  ASSUME NEW S, NEW p \in Seq(S), NEW q \in Seq(S), NEW i \in 1..Len(p \o q)
  PROVE  /\ Len(p \o q) = Len(p) + Len(q)
         /\ Len(p) \in Nat /\ Len(q) \in Nat
         /\ \/ i \in 1..Len(p) /\ (p \o q)[i] = p[i]
            \/ i - Len(p) \in 1..Len(q) /\ (p \o q)[i] = q[i - Len(p)]
<1>1. Len(p) \in Nat /\ Len(q) \in Nat
  BY LenProperties
<1>2. Len(p \o q) = Len(p) + Len(q)
  BY ConcatProperties
<1>3. i \in 1..(Len(p) + Len(q))
  BY <1>2
<1>4. (p \o q)[i] = IF i <= Len(p) THEN p[i] ELSE q[i - Len(p)]
  BY <1>3, ConcatProperties
<1>5. QED
  BY <1>1, <1>2, <1>3, <1>4

LEMMA QueueAdvances ==
  ASSUME NEW S, NEW q \in Seq(S), q # <<>>
  PROVE  /\ Head(q) = q[1] /\ 1 \in 1..Len(q) /\ Tail(q) \in Seq(S) /\ Head(q) \in S
         /\ Len(Tail(q)) = Len(q) - 1 /\ Len(q) \in Nat
         /\ \A i \in 1..Len(Tail(q)) : i + 1 \in 1..Len(q) /\ Tail(q)[i] = q[i + 1]
<1>1. Len(q) \in Nat \ {0}
  BY LenProperties, EmptySeq
<1>2. QED
  BY <1>1, HeadTailProperties

LEMMA QueueAppends ==
  ASSUME NEW S, NEW q \in Seq(S), NEW e \in S
  PROVE  /\ Append(q, e) \in Seq(S) /\ Len(Append(q, e)) = Len(q) + 1 /\ Len(q) \in Nat
         /\ Append(q, e)[Len(q) + 1] = e
         /\ \A i \in 1..Len(q) : Append(q, e)[i] = q[i]
BY LenProperties, AppendProperties

(* The rows of a room, up to each of them.                                 *)
RowsUpTo(f, room, k) ==
  f = [n \in 0..k |->
        IF n = 0 THEN <<>>
        ELSE f[n - 1] \o IF RoomOf(n) = room THEN <<Message(n, TRUE)>> ELSE <<>>]

LEMMA RowsExist ==
  ASSUME NEW room, NEW k \in Nat
  PROVE  \E f : RowsUpTo(f, room, k)
<1> DEFINE S == {j \in Nat : \E f : RowsUpTo(f, room, j)}
<1>1. 0 \in S
  <2> DEFINE f == [n \in {0} |-> <<>>]
  <2>1. f = [n \in 0..0 |->
              IF n = 0 THEN <<>>
              ELSE f[n - 1] \o IF RoomOf(n) = room THEN <<Message(n, TRUE)>> ELSE <<>>]
    OBVIOUS
  <2> HIDE DEF f
  <2>2. RowsUpTo(f, room, 0)
    BY <2>1 DEF RowsUpTo
  <2>3. QED
    BY <2>2
<1>2. ASSUME NEW m \in Nat, m \in S
      PROVE  m + 1 \in S
  <2>1. PICK f : RowsUpTo(f, room, m)
    BY <1>2
  <2>2. PICK row : row = IF RoomOf(m + 1) = room THEN <<Message(m + 1, TRUE)>> ELSE <<>>
    OBVIOUS
  <2> DEFINE g == [n \in 0..(m + 1) |-> IF n = m + 1 THEN f[m] \o row ELSE f[n]]
  <2>3. \A n \in 0..m : g[n] = f[n]
    OBVIOUS
  <2>4. g[m + 1] = f[m] \o row
    OBVIOUS
  <2>5. \A n \in 0..m : f[n] =
          IF n = 0 THEN <<>>
          ELSE f[n - 1] \o IF RoomOf(n) = room THEN <<Message(n, TRUE)>> ELSE <<>>
    BY <2>1 DEF RowsUpTo
  <2>6. ASSUME NEW n \in 0..(m + 1)
        PROVE  g[n] = IF n = 0 THEN <<>>
               ELSE g[n - 1] \o IF RoomOf(n) = room THEN <<Message(n, TRUE)>> ELSE <<>>
    <3>1. CASE n = m + 1
      <4>1. n # 0 /\ n - 1 = m /\ m \in 0..m
        BY <3>1
      <4> HIDE DEF g
      <4>2. QED
        BY <2>2, <2>3, <2>4, <3>1, <4>1
    <3>2. CASE n # m + 1 /\ n # 0
      <4>1. n \in 0..m /\ n - 1 \in 0..m
        BY <3>2
      <4> HIDE DEF g
      <4>2. QED
        BY <2>3, <2>5, <3>2, <4>1
    <3>3. CASE n = 0
      <4>1. 0 \in 0..m
        OBVIOUS
      <4> HIDE DEF g
      <4>2. QED
        BY <2>3, <2>5, <3>3, <4>1
    <3>4. QED
      BY <3>1, <3>2, <3>3
  <2>7. g = [n \in 0..(m + 1) |-> g[n]]
    OBVIOUS
  <2> HIDE DEF g
  <2>8. RowsUpTo(g, room, m + 1)
    BY <2>6, <2>7 DEF RowsUpTo
  <2>9. QED
    BY <2>8
<1> HIDE DEF S
<1>3. k \in S
  BY <1>1, <1>2, ReachedFromZero
<1>4. QED
  BY <1>3 DEF S

(* What replay_history sends are rows of the room.                         *)
RowsOf(room) == {Message(m, TRUE) : m \in In(room)}

LEMMA HistoryType ==
  ASSUME NEW room, Len(posted) \in Nat
  PROVE  History(room) \in Seq(RowsOf(room))
<1>1. PICK k \in Nat : k = Len(posted)
  OBVIOUS
<1> DEFINE f == CHOOSE g : RowsUpTo(g, room, k)
<1>2. RowsUpTo(f, room, k)
  BY RowsExist
<1>3. History(room) = f[k]
  BY <1>1 DEF History, RowsUpTo
<1> HIDE DEF f
<1>4. \A n \in 0..k : f[n] =
        IF n = 0 THEN <<>>
        ELSE f[n - 1] \o IF RoomOf(n) = room THEN <<Message(n, TRUE)>> ELSE <<>>
  BY <1>2 DEF RowsUpTo
<1>0. PICK rows : rows = RowsOf(room)
  OBVIOUS
<1> DEFINE S == {n \in Nat : n <= k /\ f[n] \in Seq(rows)}
<1>5. 0 \in S
  <2>1. f[0] = <<>>
    <3>1. 0 \in 0..k
      OBVIOUS
    <3>2. f[0] = IF 0 = 0 THEN <<>>
                 ELSE f[0 - 1] \o IF RoomOf(0) = room THEN <<Message(0, TRUE)>> ELSE <<>>
      BY <1>4, <3>1, Zenon
    <3>3. QED
      BY <3>2
  <2>2. f[0] \in Seq(rows)
    BY <2>1
  <2>3. QED
    BY <2>2
<1>6. ASSUME NEW n \in 0..(k - 1), n \in S
      PROVE  n + 1 \in S
  <2>1. n + 1 \in 0..k /\ n + 1 # 0 /\ (n + 1) - 1 = n /\ n + 1 \in 1..Len(posted)
    BY <1>1
  <2>2. PICK row : row = IF RoomOf(n + 1) = room THEN <<Message(n + 1, TRUE)>> ELSE <<>>
    OBVIOUS
  <2>3. f[n + 1] = f[n] \o row
    BY <1>4, <2>1, <2>2
  <2>4. row \in Seq(rows)
    <3>1. CASE RoomOf(n + 1) = room
      <4>1. n + 1 \in In(room)
        BY <2>1, <3>1 DEF In
      <4>2. PICK x \in rows : x = Message(n + 1, TRUE)
        BY <1>0, <4>1 DEF RowsOf
      <4>3. <<x>> \in Seq(rows)
        OBVIOUS
      <4>4. QED
        BY <2>2, <3>1, <4>2, <4>3
    <3>2. CASE RoomOf(n + 1) # room
      <4>1. row = <<>>
        BY <2>2, <3>2
      <4>2. QED
        BY <4>1
    <3>3. QED
      BY <3>1, <3>2
  <2>5. f[n] \o row \in Seq(rows)
    BY <1>6, <2>4, ConcatProperties
  <2>6. f[n + 1] \in Seq(rows)
    BY <2>3, <2>5
  <2>7. n + 1 \in Nat /\ n + 1 <= k
    BY <2>1
  <2>8. QED
    BY <2>6, <2>7
<1>7. k \in S
  <2> HIDE DEF S
  <2>1. QED
    BY <1>5, <1>6, ReachedFromZero
<1>8. QED
  BY <1>0, <1>3, <1>7

-----------------------------------------------------------------------------
(* Type correctness.  Nobody leaves the default room, so that no list of   *)
(* memberships is ever empty.                                              *)

Lines        == [cmd : Cmds, room : Rooms, ids : SUBSET MessageIds]
Held         == [id : MessageIds, is_history : BOOLEAN]
GeneralStays == \A c \in Clients : Listed(General, mine[c])
TypeInv      == TypeOK /\ GeneralStays

LEMMA InitType == Init => TypeInv
<1> SUFFICES ASSUME Init
             PROVE  TypeInv
  OBVIOUS
<1>1. ASSUME NEW c \in Clients
      PROVE  /\ StartRooms[c] \in Seq(Rooms) /\ StartRooms[c] \in Seq(Rooms \ Rejected)
             /\ StartRooms[c] # <<>> /\ Head(StartRooms[c]) \in Rooms
             /\ Listed(General, StartRooms[c])
  <2>1. StartRooms[c] \in Seq(Rooms \ Rejected) /\ Listed(General, StartRooms[c])
    BY ReceiptsAssumption
  <2>2. StartRooms[c] # <<>>
    BY <2>1, ListedIsThere
  <2>3. Head(StartRooms[c]) \in Rooms \ Rejected
    BY <2>1, <2>2, FirstIsIn
  <2>4. Seq(Rooms \ Rejected) \subseteq Seq(Rooms)
    OBVIOUS
  <2>5. QED
    BY <2>1, <2>2, <2>3, <2>4
<1>2. /\ <<General>> \in Seq(Rooms) /\ <<General>> # <<>> /\ Head(<<General>>) = General
      /\ General \in Rooms
  BY ReceiptsAssumption
<1>3. rooms \in [Clients -> Names] /\ current \in [Clients -> Rooms]
  <2>1. \A c \in Clients : rooms[c] = IF c \in Late THEN <<General>> ELSE StartRooms[c]
    BY DEF Init
  <2>2. \A c \in Clients : rooms[c] \in Names /\ Head(rooms[c]) \in Rooms
    BY <1>1, <1>2, <2>1 DEF Names
  <2>3. rooms = [c \in Clients |-> rooms[c]] /\ current = [c \in Clients |-> Head(rooms[c])]
    BY DEF Init
  <2>4. QED
    BY <2>2, <2>3
<1>4. active \in [Clients -> Rooms] /\ mine \in [Clients -> Seq(Rooms \ Rejected)]
  BY <1>1, ReceiptsAssumption DEF Init
<1>5. GeneralStays
  BY <1>1 DEF Init, GeneralStays
<1>6. posted \in Seq([from : Clients, room : Rooms, kind : {"text", "media"}])
  BY DEF Init
<1>7. /\ up \in [Clients -> Seq(Lines)] /\ down \in [Clients -> Seq(Frames)]
      /\ messages \in [Clients -> SUBSET Held]
      /\ flagged \in [Clients -> SUBSET MessageIds]
      /\ unread_rooms \in [Clients -> SUBSET Rooms]
      /\ read_message_ids \in [Clients -> SUBSET MessageIds]
      /\ replayed \in [Clients -> SUBSET MessageIds]
      /\ entry \in [Clients -> [Rooms -> {"marked", "left", "moved"}]]
      /\ shown \in SUBSET (Clients \X MessageIds)
      /\ late \in SUBSET Clients /\ lines \in Nat
  BY ReceiptsAssumption DEF Init
<1>8. QED
  BY <1>3, <1>4, <1>5, <1>6, <1>7 DEF TypeOK, TypeInv, Lines, Held

(* Messages: those held are of posted ones.                                *)
LEMMA IdsType ==
  ASSUME TypeOK, NEW held \in SUBSET Held
  PROVE  Ids(held) \subseteq MessageIds
BY DEF Ids, Held

LEMMA LenPosted == TypeOK => Len(posted) \in Nat /\ MessageIds = 1..Len(posted)
BY LenProperties DEF TypeOK, MessageIds

LEMMA RoomOfType ==
  ASSUME TypeOK, NEW m \in MessageIds
  PROVE  RoomOf(m) \in Rooms /\ posted[m].from \in Clients
<1>1. PICK q \in Seq([from : Clients, room : Rooms, kind : {"text", "media"}]) : q = posted
  BY DEF TypeOK
<1>2. m \in 1..Len(q)
  BY <1>1 DEF MessageIds
<1>3. q[m] \in [from : Clients, room : Rooms, kind : {"text", "media"}]
  BY <1>2, ElementOfSeq
<1>4. QED
  BY <1>1, <1>3 DEF RoomOf

(* What a client's step changes of its own, and of what types.             *)
LEMMA ScreenType ==
  ASSUME TypeOK, NEW c \in Clients, NEW room \in Rooms, NEW held \in SUBSET Held,
         Screen(c, room, held)
  PROVE  /\ current' \in [Clients -> Rooms]
         /\ messages' \in [Clients -> SUBSET Held]
         /\ shown' \in SUBSET (Clients \X MessageIds)
<1>1. current' \in [Clients -> Rooms] /\ messages' \in [Clients -> SUBSET Held]
  BY DEF TypeOK, Screen, Held
<1>2. Ids(held) \subseteq MessageIds
  BY IdsType
<1>3. shown' \in SUBSET (Clients \X MessageIds)
  BY <1>2 DEF TypeOK, Screen
<1>4. QED
  BY <1>1, <1>3

LEMMA ClearType ==
  ASSUME TypeOK, NEW c \in Clients, NEW room \in Rooms, clear_room_read_state(c, room)
  PROVE  /\ flagged' \in [Clients -> SUBSET MessageIds]
         /\ unread_rooms' \in [Clients -> SUBSET Rooms]
BY DEF TypeOK, clear_room_read_state

LEMMA EntersType ==
  ASSUME TypeOK, NEW c \in Clients, NEW room \in Rooms,
         NEW how \in {"marked", "left", "moved"}, Enters(c, room, how)
  PROVE  entry' \in [Clients -> [Rooms -> {"marked", "left", "moved"}]]
BY DEF TypeOK, Enters

LEMMA ReceiptType ==
  ASSUME NEW room \in Rooms, NEW ids \in SUBSET MessageIds
  PROVE  Receipt(room, ids) \in Seq(Lines)
<1>1. PICK line : line = Line("read", room, ids)
  OBVIOUS
<1>2. line \in Lines
  BY <1>1 DEF Line, Lines, Cmds
<1>3. <<line>> \in Seq(Lines)
  BY <1>2
<1>4. QED
  BY <1>1, <1>3 DEF Receipt

LEMMA MarkType ==
  ASSUME TypeOK, NEW c \in Clients, NEW room \in Rooms, NEW after \in Seq(Lines),
         mark_all_read(c, room, after)
  PROVE  /\ flagged' \in [Clients -> SUBSET MessageIds]
         /\ unread_rooms' \in [Clients -> SUBSET Rooms]
         /\ entry' \in [Clients -> [Rooms -> {"marked", "left", "moved"}]]
         /\ up' \in [Clients -> Seq(Lines)]
<1>1. PICK ids : ids = collect_unread_ids(c, room)
  OBVIOUS
<1>2. ids \in SUBSET MessageIds
  <2>1. messages[c] \in SUBSET Held
    BY DEF TypeOK, Held
  <2>2. QED
    BY <1>1, <2>1, IdsType DEF collect_unread_ids
<1>3. PICK more : more = Receipt(room, ids)
  OBVIOUS
<1>4. more \in Seq(Lines)
  BY <1>2, <1>3, ReceiptType
<1>5. up[c] \in Seq(Lines)
  BY DEF TypeOK, Lines
<1>6. (up[c] \o more) \o after \in Seq(Lines)
  BY <1>4, <1>5, ConcatProperties
<1>7. up' = [up EXCEPT ![c] = (up[c] \o more) \o after]
  BY <1>1, <1>3 DEF mark_all_read
<1>8. up' \in [Clients -> Seq(Lines)]
  BY <1>6, <1>7 DEF TypeOK, Lines
<1>9. clear_room_read_state(c, room) /\ Enters(c, room, "marked")
  BY DEF mark_all_read
<1>10. QED
  BY <1>8, <1>9, ClearType, EntersType

LEMMA LineType ==
  ASSUME NEW cmd \in Cmds, NEW room \in Rooms
  PROVE  <<Line(cmd, room, {})>> \in Seq(Lines) /\ Line(cmd, room, {}) \in Lines
<1>1. PICK line : line = Line(cmd, room, {})
  OBVIOUS
<1>2. line \in Lines
  BY <1>1 DEF Line, Lines
<1>3. QED
  BY <1>1, <1>2

(* The steps of a client leave the server's state alone, and what was      *)
(* posted with it.                                                         *)
Lists  == [Clients -> Names]
Marks  == [Clients -> [Rooms -> {"marked", "left", "moved"}]]

LEMMA ClientTypes ==
  ASSUME TypeOK, UNCHANGED server,
         current' \in [Clients -> Rooms], rooms' \in Lists,
         messages' \in [Clients -> SUBSET Held],
         flagged' \in [Clients -> SUBSET MessageIds],
         unread_rooms' \in [Clients -> SUBSET Rooms],
         read_message_ids' \in [Clients -> SUBSET MessageIds],
         up' \in [Clients -> Seq(Lines)], down' \in [Clients -> Seq(Frames)],
         lines' \in Nat, shown' \in SUBSET (Clients \X MessageIds), entry' \in Marks,
         replayed' \in [Clients -> SUBSET MessageIds]
  PROVE  TypeOK'
<1>1. UNCHANGED <<active, mine, posted, late>>
  BY DEF server
<1>2. MessageIds' = MessageIds /\ Frames' = Frames
  BY <1>1 DEF MessageIds, Frames
<1>3. UNCHANGED <<Held, Lines>>
  BY <1>2 DEF Held, Lines
<1>4. QED
  BY <1>1, <1>2, <1>3 DEF TypeOK, Lists, Marks, Held, Lines

LEMMA Typing ==
  ASSUME TypeOK
  PROVE  /\ current \in [Clients -> Rooms] /\ rooms \in Lists
         /\ messages \in [Clients -> SUBSET Held]
         /\ flagged \in [Clients -> SUBSET MessageIds]
         /\ unread_rooms \in [Clients -> SUBSET Rooms]
         /\ read_message_ids \in [Clients -> SUBSET MessageIds]
         /\ up \in [Clients -> Seq(Lines)] /\ down \in [Clients -> Seq(Frames)]
         /\ lines \in Nat /\ shown \in SUBSET (Clients \X MessageIds) /\ entry \in Marks
         /\ replayed \in [Clients -> SUBSET MessageIds]
BY DEF TypeOK, Held, Lines, Lists, Marks

LEMMA RoomsAreNames ==
  ASSUME TypeOK, NEW c \in Clients
  PROVE  /\ rooms[c] \in Seq(Rooms) /\ rooms[c] # <<>> /\ Head(rooms[c]) \in Rooms
         /\ current[c] \in Rooms /\ messages[c] \in SUBSET Held
<1>1. rooms[c] \in Seq(Rooms) /\ rooms[c] # <<>>
  BY Typing DEF Lists, Names
<1>2. QED
  BY <1>1, FirstIsIn, Typing

LEMMA UserType ==
  ASSUME TypeOK, NEW c \in Clients, UserStep(c)
  PROVE  TypeOK' /\ UNCHANGED server
<1> USE Typing
<1>0. /\ rooms[c] \in Seq(Rooms) /\ current[c] \in Rooms /\ messages[c] \in SUBSET Held
      /\ lines + 1 \in Nat
  BY RoomsAreNames
<1>1. ASSUME NEW room \in Rooms, NEW after \in Seq(Lines), rooms' \in Lists, Typed,
             Screen(c, room, messages[c]), mark_all_read(c, room, after),
             UNCHANGED <<read_message_ids, down, server, replayed>>
      PROVE  TypeOK' /\ UNCHANGED server
  <2>1. /\ current' \in [Clients -> Rooms] /\ messages' \in [Clients -> SUBSET Held]
        /\ shown' \in SUBSET (Clients \X MessageIds)
    BY <1>0, <1>1, ScreenType
  <2>2. /\ flagged' \in [Clients -> SUBSET MessageIds]
        /\ unread_rooms' \in [Clients -> SUBSET Rooms]
        /\ entry' \in Marks /\ up' \in [Clients -> Seq(Lines)]
    BY <1>1, MarkType DEF Marks
  <2>3. lines' \in Nat
    BY <1>0, <1>1 DEF Typed
  <2>4. QED
    BY <1>1, <2>1, <2>2, <2>3, ClientTypes
<1>2. ASSUME NEW room \in Rooms, select_room(c, room)
      PROVE  TypeOK' /\ UNCHANGED server
  <2>1. <<Line("switch", room, {})>> \in Seq(Lines)
    BY LineType DEF Cmds
  <2>2. QED
    BY <1>1, <1>2, <2>1 DEF select_room
<1>3. ASSUME NEW room \in Targets, cmd_join(c, room)
      PROVE  TypeOK' /\ UNCHANGED server
  <2>0. room \in Rooms
    BY ReceiptsAssumption
  <2>1. <<Line("join", room, {})>> \in Seq(Lines)
    BY <2>0, LineType DEF Cmds
  <2>2. Append(rooms[c], room) \in Names
    <3>1. PICK more : more = Append(rooms[c], room)
      OBVIOUS
    <3>2. more \in Seq(Rooms) /\ Len(more) = Len(rooms[c]) + 1 /\ Len(rooms[c]) \in Nat
      BY <1>0, <2>0, <3>1, QueueAppends
    <3>3. more # <<>>
      BY <3>2, EmptySeq
    <3>4. QED
      BY <3>1, <3>2, <3>3 DEF Names
  <2>3. rooms' \in Lists
    <3>1. PICK more : more = Append(rooms[c], room)
      OBVIOUS
    <3>2. \/ rooms' = [rooms EXCEPT ![c] = rooms[c]]
          \/ rooms' = [rooms EXCEPT ![c] = more]
      <4>1. rooms' = [rooms EXCEPT ![c] = IF Listed(room, rooms[c]) THEN rooms[c]
                                          ELSE Append(rooms[c], room)]
        BY <1>3 DEF cmd_join
      <4>2. QED
        BY <3>1, <4>1
    <3>3. QED
      BY <2>2, <3>1, <3>2 DEF Lists
  <2>4. QED
    BY <1>1, <1>3, <2>0, <2>1, <2>3 DEF cmd_join
<1>4. CASE SendText(c)
  <2>1. <<Line("text", current[c], {})>> \in Seq(Lines)
    BY <1>0, LineType DEF Cmds
  <2>2. QED
    BY <1>0, <1>1, <1>4, <2>1 DEF SendText
<1>5. CASE cmd_leave(c)
  <2>1. PICK left : left = Without(rooms[c], current[c])
    OBVIOUS
  <2>2. left \in Seq(Rooms) /\ left # <<>>
    BY <1>0, <1>5, <2>1, WithoutType DEF cmd_leave
  <2>3. Head(left) \in Rooms
    BY <2>2, FirstIsIn
  <2>4. /\ rooms' = [rooms EXCEPT ![c] = left] /\ Screen(c, Head(left), messages[c])
        /\ clear_room_read_state(c, Head(left)) /\ Enters(c, Head(left), "left")
        /\ up' = [up EXCEPT ![c] = Append(up[c], Line("leave", current[c], {}))]
        /\ lines' = lines + 1 /\ UNCHANGED <<read_message_ids, down, server, replayed>>
    BY <1>5, <2>1 DEF cmd_leave, Typed
  <2>5. rooms' \in Lists
    BY <2>2, <2>4 DEF Lists, Names
  <2>6. up' \in [Clients -> Seq(Lines)]
    <3>1. Line("leave", current[c], {}) \in Lines
      BY <1>0, LineType DEF Cmds
    <3>2. Append(up[c], Line("leave", current[c], {})) \in Seq(Lines)
      BY <3>1, QueueAppends
    <3>3. QED
      BY <2>4, <3>2
  <2>7. /\ current' \in [Clients -> Rooms] /\ messages' \in [Clients -> SUBSET Held]
        /\ shown' \in SUBSET (Clients \X MessageIds)
    BY <1>0, <2>3, <2>4, ScreenType
  <2>8. /\ flagged' \in [Clients -> SUBSET MessageIds]
        /\ unread_rooms' \in [Clients -> SUBSET Rooms]
    BY <2>3, <2>4, ClearType
  <2>9. entry' \in Marks
    BY <2>3, <2>4, EntersType DEF Marks
  <2>10. QED
    BY <1>0, <2>4, <2>5, <2>6, <2>7, <2>8, <2>9, ClientTypes
<1>6. CASE cmd_clear(c)
  <2>1. PICK held : held = {x \in messages[c] : RoomOf(x.id) # current[c]}
    OBVIOUS
  <2>2. held \in SUBSET Held
    BY <1>0, <2>1
  <2>3. /\ Screen(c, current[c], held) /\ lines' = lines + 1
        /\ flagged' = [flagged EXCEPT ![c] = flagged[c] \ In(current[c])]
        /\ UNCHANGED <<rooms, unread_rooms, read_message_ids, up, down, server, entry, replayed>>
    BY <1>6, <2>1 DEF cmd_clear, Typed
  <2>4. /\ current' \in [Clients -> Rooms] /\ messages' \in [Clients -> SUBSET Held]
        /\ shown' \in SUBSET (Clients \X MessageIds)
    BY <1>0, <2>2, <2>3, ScreenType
  <2>5. flagged' \in [Clients -> SUBSET MessageIds]
    BY <2>3
  <2>6. QED
    BY <1>0, <2>3, <2>4, <2>5, ClientTypes
<1>7. CASE SendMedia(c)
  <2>1. Line("media", current[c], {}) \in Lines
    BY <1>0, LineType DEF Cmds
  <2>2. Append(up[c], Line("media", current[c], {})) \in Seq(Lines)
    BY <2>1, QueueAppends
  <2>3. up' \in [Clients -> Seq(Lines)]
    BY <1>7, <2>2 DEF SendMedia
  <2>4. lines' \in Nat /\ UNCHANGED <<view, down, server>>
    BY <1>0, <1>7 DEF SendMedia, Typed
  <2>5. QED
    BY <2>3, <2>4, ClientTypes DEF view, reading
<1>8. QED
  BY <1>2, <1>3, <1>4, <1>5, <1>6, <1>7 DEF UserStep

(* The frame a client handles next.                                        *)
LEMMA NextFrame ==
  ASSUME TypeOK, NEW c \in Clients, down[c] # <<>>
  PROVE  /\ Head(down[c]) \in Frames /\ Tail(down[c]) \in Seq(Frames)
         /\ Head(down[c]) = down[c][1] /\ 1 \in 1..Len(down[c])
         /\ Len(Tail(down[c])) = Len(down[c]) - 1 /\ Len(down[c]) \in Nat
         /\ \A i \in 1..Len(Tail(down[c])) :
              i + 1 \in 1..Len(down[c]) /\ Tail(down[c])[i] = down[c][i + 1]
<1>1. PICK q \in Seq(Frames) : q = down[c]
  BY Typing
<1>2. QED
  BY <1>1, QueueAdvances

LEMMA IngestType ==
  ASSUME TypeOK, NEW c \in Clients, handle_server_message(c)
  PROVE  TypeOK' /\ UNCHANGED server
<1> USE Typing
<1>0. /\ rooms[c] \in Seq(Rooms) /\ current[c] \in Rooms /\ messages[c] \in SUBSET Held
  BY RoomsAreNames
<1>1. PICK f \in Frames : f = Head(down[c])
  BY NextFrame DEF handle_server_message
<1>2. down' \in [Clients -> Seq(Frames)] /\ UNCHANGED <<server, lines>>
  BY NextFrame DEF handle_server_message
<1>3. CASE f.kind = "Message" /\ IngestMessage(c, f.id, f.is_history)
  <2>1. PICK m, hist : m = f.id /\ hist = f.is_history
    OBVIOUS
  <2>2. m \in MessageIds /\ hist \in BOOLEAN
    BY <1>3, <2>1 DEF Frames
  <2>3. PICK room : room = RoomOf(m)
    OBVIOUS
  <2>4. room \in Rooms
    BY <2>2, <2>3, RoomOfType
  <2>5. IngestMessage(c, m, hist)
    BY <1>3, <2>1
  <2>6. PICK held : held = messages[c] \cup {[id |-> m, is_history |-> hist]}
    OBVIOUS
  <2>7. held \in SUBSET Held
    BY <1>0, <2>2, <2>6 DEF Held
  <2>8. Screen(c, current[c], held)
    BY <2>5, <2>6 DEF IngestMessage
  <2>9. /\ current' \in [Clients -> Rooms] /\ messages' \in [Clients -> SUBSET Held]
        /\ shown' \in SUBSET (Clients \X MessageIds)
    BY <1>0, <2>7, <2>8, ScreenType
  <2>10. /\ flagged' \in [Clients -> SUBSET MessageIds]
         /\ unread_rooms' \in [Clients -> SUBSET Rooms] /\ entry' \in Marks
    <3>1. CASE clear_room_read_state(c, room)
               /\ IF entry[c][room] = "moved" THEN Enters(c, room, "left") ELSE UNCHANGED entry
      BY <2>4, <3>1, ClearType, EntersType DEF Marks
    <3>2. CASE /\ flagged' = [flagged EXCEPT ![c] = @ \cup {m}]
               /\ unread_rooms' = [unread_rooms EXCEPT ![c] = @ \cup {room}]
               /\ UNCHANGED entry
      BY <2>2, <2>4, <3>2
    <3>3. CASE UNCHANGED <<flagged, unread_rooms, entry>>
      BY <3>3
    <3>4. QED
      BY <2>3, <2>5, <3>1, <3>2, <3>3 DEF IngestMessage
  <2>11. /\ read_message_ids' \in [Clients -> SUBSET MessageIds]
         /\ replayed' \in [Clients -> SUBSET MessageIds]
    <3>1. \/ /\ read_message_ids' = [read_message_ids EXCEPT ![c] = @ \cup {m}]
             /\ replayed' = [replayed EXCEPT ![c] = @ \cup {m}]
          \/ UNCHANGED <<read_message_ids, replayed>>
      BY <2>5 DEF IngestMessage
    <3>2. CASE UNCHANGED <<read_message_ids, replayed>>
      BY <3>2
    <3>3. CASE /\ read_message_ids' = [read_message_ids EXCEPT ![c] = @ \cup {m}]
               /\ replayed' = [replayed EXCEPT ![c] = @ \cup {m}]
      BY <2>2, <3>3
    <3>4. QED
      BY <3>1, <3>2, <3>3
  <2>12. up' \in [Clients -> Seq(Lines)]
    <3>1. PICK ids : ids = IF Acked(c, m, hist) THEN {m} ELSE {}
      OBVIOUS
    <3>2. Receipt(room, ids) \in Seq(Lines)
      BY <2>2, <2>4, <3>1, ReceiptType
    <3>3. up[c] \o Receipt(room, ids) \in Seq(Lines)
      BY <3>2, ConcatProperties
    <3>4. up' = [up EXCEPT ![c] = up[c] \o Receipt(room, ids)]
      BY <2>3, <2>5, <3>1 DEF IngestMessage
    <3>5. QED
      BY <3>3, <3>4
  <2>13. UNCHANGED rooms
    BY <2>5 DEF IngestMessage
  <2>14. QED
    <3>1. lines' \in Nat /\ rooms' \in Lists
      BY <1>2, <2>13
    <3>2. QED
      BY <1>2, <2>9, <2>10, <2>11, <2>12, <3>1, ClientTypes
<1>4. CASE f.kind = "RoomList" /\ IngestRoomList(c, f.names)
  <2>1. f.names \in Seq(Rooms) /\ f.names # <<>> /\ f.names \in Names
    BY <1>4 DEF Frames, Names
  <2>2. Head(f.names) \in Rooms
    BY <2>1, FirstIsIn
  <2>3. PICK room : room = IF Listed(current[c], f.names) THEN current[c] ELSE Head(f.names)
    OBVIOUS
  <2>4. room \in Rooms
    BY <1>0, <2>2, <2>3
  <2>5. /\ rooms' = [rooms EXCEPT ![c] = f.names] /\ Screen(c, room, messages[c])
        /\ IF room = current[c] THEN UNCHANGED entry ELSE Enters(c, room, "moved")
        /\ UNCHANGED <<flagged, unread_rooms, read_message_ids, up, replayed>>
    BY <1>4, <2>3 DEF IngestRoomList
  <2>6. /\ current' \in [Clients -> Rooms] /\ messages' \in [Clients -> SUBSET Held]
        /\ shown' \in SUBSET (Clients \X MessageIds)
    BY <1>0, <2>4, <2>5, ScreenType
  <2>7. rooms' \in Lists /\ entry' \in Marks
    BY <2>1, <2>4, <2>5, EntersType DEF Lists, Marks
  <2>8. QED
    BY <1>2, <2>5, <2>6, <2>7, ClientTypes
<1>5. CASE f.kind = "SetActiveRoom" /\ IngestSetActiveRoom(c, f.room)
  <2>1. PICK room \in Rooms : room = f.room
    BY <1>5 DEF Frames
  <2>2. /\ Screen(c, room, messages[c]) /\ mark_all_read(c, room, <<>>)
        /\ UNCHANGED <<rooms, read_message_ids, replayed>>
    BY <1>5, <2>1 DEF IngestSetActiveRoom
  <2>3. <<>> \in Seq(Lines)
    OBVIOUS
  <2>4. /\ current' \in [Clients -> Rooms] /\ messages' \in [Clients -> SUBSET Held]
        /\ shown' \in SUBSET (Clients \X MessageIds)
    BY <1>0, <2>2, ScreenType
  <2>5. /\ flagged' \in [Clients -> SUBSET MessageIds]
        /\ unread_rooms' \in [Clients -> SUBSET Rooms]
        /\ entry' \in Marks /\ up' \in [Clients -> Seq(Lines)]
    BY <2>2, <2>3, MarkType DEF Marks
  <2>6. QED
    BY <1>2, <2>2, <2>4, <2>5, ClientTypes
<1>6. CASE f.kind = "ReadReceipt" /\ IngestReceipt(c, f.ids)
  <2>1. f.ids \in SUBSET MessageIds
    BY <1>6 DEF Frames
  <2>2. read_message_ids' \in [Clients -> SUBSET MessageIds]
    BY <1>6, <2>1 DEF IngestReceipt
  <2>3. QED
    BY <1>2, <1>6, <2>2, ClientTypes DEF IngestReceipt
<1>7. QED
  BY <1>1, <1>2, <1>3, <1>4, <1>5, <1>6 DEF handle_server_message

(* The steps of the server: what is posted stays, and the clients get more *)
(* frames.                                                                 *)
LEMMA MoreIds ==
  ASSUME MessageIds \subseteq MessageIds'
  PROVE  Frames \subseteq Frames' /\ Lines \subseteq Lines' /\ Held \subseteq Held'
<1>1. ASSUME NEW f \in Frames
      PROVE  f \in Frames'
  <2>1. CASE f \in [kind : {"Message"}, id : MessageIds, is_history : BOOLEAN]
    BY <2>1 DEF Frames
  <2>2. CASE f \in [kind : {"ReadReceipt"}, by : Clients, ids : SUBSET MessageIds]
    BY <2>2 DEF Frames
  <2>3. CASE f \in [kind : {"RoomList"}, names : Names] \cup [kind : {"SetActiveRoom"}, room : Rooms]
    BY <2>3 DEF Frames, Names
  <2>4. QED
    BY <2>1, <2>2, <2>3 DEF Frames
<1>2. Lines \subseteq Lines'
  BY DEF Lines
<1>3. Held \subseteq Held'
  BY DEF Held
<1>4. QED
  BY <1>1, <1>2, <1>3

Posts == [from : Clients, room : Rooms, kind : {"text", "media"}]

LEMMA ServerTypes ==
  ASSUME TypeOK, UNCHANGED <<view, lines>>, MessageIds \subseteq MessageIds',
         up' \in [Clients -> Seq(Lines)], down' \in [Clients -> Seq(Frames')],
         active' \in [Clients -> Rooms], mine' \in [Clients -> Seq(Rooms \ Rejected)],
         posted' \in Seq(Posts), late' \in SUBSET Clients
  PROVE  TypeOK'
<1> USE Typing
<1>1. UNCHANGED <<current, rooms, messages, flagged, unread_rooms, read_message_ids, shown,
                  entry, replayed, lines>>
  BY DEF view, reading
<1>2. Frames \subseteq Frames' /\ Lines \subseteq Lines' /\ Held \subseteq Held'
  BY MoreIds
<1>3. messages' \in [Clients -> SUBSET Held']
  <2>1. SUBSET Held \subseteq SUBSET Held'
    BY <1>2
  <2>2. QED
    BY <1>1, <2>1
<1>4. /\ flagged' \in [Clients -> SUBSET MessageIds']
      /\ read_message_ids' \in [Clients -> SUBSET MessageIds']
      /\ replayed' \in [Clients -> SUBSET MessageIds']
      /\ shown' \in SUBSET (Clients \X MessageIds')
  <2>1. SUBSET MessageIds \subseteq SUBSET MessageIds'
    OBVIOUS
  <2>2. QED
    BY <1>1, <2>1
<1>5. up' \in [Clients -> Seq(Lines')]
  <2>1. Seq(Lines) \subseteq Seq(Lines')
    BY <1>2
  <2>2. QED
    BY <2>1
<1>6. /\ current' \in [Clients -> Rooms] /\ rooms' \in Lists
      /\ unread_rooms' \in [Clients -> SUBSET Rooms] /\ entry' \in Marks /\ lines' \in Nat
  BY <1>1
<1>7. QED
  BY <1>3, <1>4, <1>5, <1>6 DEF TypeOK, Held, Lines, Posts, Lists, Marks

(* A line is taken, and its handler may answer.                            *)
LEMMA TakeLineType ==
  ASSUME TypeOK, NEW c \in Clients, NEW cmd, TakeLine(c, cmd)
  PROVE  /\ up' \in [Clients -> Seq(Lines)] /\ UNCHANGED <<view, late, lines>>
         /\ Head(up[c]) \in Lines /\ Head(up[c]).cmd = cmd
         /\ Head(up[c]) = up[c][1] /\ 1 \in 1..Len(up[c])
<1> USE Typing
<1>1. PICK q \in Seq(Lines) : q = up[c]
  OBVIOUS
<1>2. q # <<>> /\ up' = [up EXCEPT ![c] = Tail(q)]
  BY <1>1 DEF TakeLine
<1>3. Tail(q) \in Seq(Lines) /\ Head(q) \in Lines /\ Head(q) = q[1] /\ 1 \in 1..Len(q)
  BY <1>2, QueueAdvances
<1>4. QED
  BY <1>1, <1>2, <1>3 DEF TakeLine

LEMMA AnswerType ==
  ASSUME TypeOK, NEW c \in Clients, NEW frames \in Seq(Frames), Answer(c, frames)
  PROVE  down' \in [Clients -> Seq(Frames)]
<1> USE Typing
<1>1. down[c] \o frames \in Seq(Frames)
  BY ConcatProperties
<1>2. down' = [down EXCEPT ![c] = down[c] \o frames]
  BY DEF Answer
<1>3. QED
  BY <1>1, <1>2

(* The history of a room, followed by frames of the handler.               *)
LEMMA RowsAreFrames ==
  ASSUME TypeOK, NEW room
  PROVE  History(room) \in Seq(RowsOf(room)) /\ History(room) \in Seq(Frames)
<1>1. History(room) \in Seq(RowsOf(room))
  BY HistoryType, LenPosted
<1>2. \A m \in MessageIds : Message(m, TRUE) \in Frames
  BY DEF Frames, Message
<1>3. RowsOf(room) \subseteq Frames
  BY <1>2 DEF RowsOf, In, MessageIds
<1>4. Seq(RowsOf(room)) \subseteq Seq(Frames)
  BY <1>3
<1>5. QED
  BY <1>1, <1>4

LEMMA ListType ==
  ASSUME TypeOK, NEW names \in Seq(Rooms) \ {<<>>}
  PROVE  RoomList(names) \in Frames
BY DEF RoomList, Frames, Names

LEMMA BroadcastType ==
  ASSUME TypeOK, MessageIds \subseteq MessageIds', NEW room, NEW frame \in Frames',
         Broadcast(room, frame)
  PROVE  down' \in [Clients -> Seq(Frames')]
<1> USE Typing
<1>1. PICK S : S = Frames'
  OBVIOUS
<1>2. Seq(Frames) \subseteq Seq(S)
  BY <1>1, MoreIds
<1>3. \A d \in Clients : down[d] \in Seq(S)
  BY <1>2
<1>4. \A d \in Clients : Append(down[d], frame) \in Seq(S)
  BY <1>1, <1>3, AppendProperties
<1>5. down' = [d \in Clients |-> IF Listed(room, mine[d]) THEN Append(down[d], frame) ELSE down[d]]
  BY DEF Broadcast
<1>6. QED
  BY <1>1, <1>3, <1>4, <1>5

LEMMA MineType ==
  ASSUME TypeInv, NEW c \in Clients
  PROVE  /\ mine[c] \in Seq(Rooms \ Rejected) /\ mine[c] \in Seq(Rooms) \ {<<>>}
         /\ Listed(General, mine[c]) /\ active[c] \in Rooms
<1>1. mine[c] \in Seq(Rooms \ Rejected) /\ Listed(General, mine[c]) /\ active[c] \in Rooms
  BY DEF TypeInv, TypeOK, GeneralStays
<1>2. mine[c] # <<>>
  BY <1>1, ListedIsThere
<1>3. Seq(Rooms \ Rejected) \subseteq Seq(Rooms)
  OBVIOUS
<1>4. QED
  BY <1>1, <1>2, <1>3

LEMMA PostType ==
  ASSUME TypeInv, NEW c \in Clients, NEW cmd \in {"text", "media"}, Post(c, cmd)
  PROVE  /\ TypeInv'
         /\ Len(posted') = Len(posted) + 1 /\ Len(posted) \in Nat
         /\ \A m \in MessageIds : m \in MessageIds' /\ posted'[m] = posted[m]
         /\ posted'[Len(posted) + 1].room = active[c]
<1> USE Typing DEF TypeInv
<1>1. PICK q \in Seq(Posts) : q = posted
  BY DEF TypeOK, Posts
<1>2. PICK post : post = [from |-> c, room |-> active[c], kind |-> cmd]
  OBVIOUS
<1>3. post \in Posts /\ post.room = active[c]
  BY <1>2, MineType DEF Posts
<1>4. posted' = Append(q, post)
  BY <1>1, <1>2 DEF Post
<1>5. /\ posted' \in Seq(Posts) /\ Len(posted') = Len(q) + 1 /\ Len(q) \in Nat
      /\ posted'[Len(q) + 1] = post /\ \A i \in 1..Len(q) : posted'[i] = q[i]
  BY <1>3, <1>4, QueueAppends
<1>6. /\ \A m \in MessageIds : m \in MessageIds' /\ posted'[m] = posted[m]
      /\ Len(q) + 1 \in MessageIds'
  BY <1>1, <1>5 DEF MessageIds
<1>7. PICK frame : frame = Message(Len(q) + 1, FALSE)
  OBVIOUS
<1>8. frame \in Frames'
  BY <1>6, <1>7 DEF Frames, Message
<1>9. Broadcast(active[c], frame) /\ TakeLine(c, cmd) /\ UNCHANGED <<active, mine>>
  BY <1>1, <1>7 DEF Post
<1>10. down' \in [Clients -> Seq(Frames')]
  <2>1. MessageIds \subseteq MessageIds'
    BY <1>6
  <2>2. QED
    BY <1>8, <1>9, <2>1, BroadcastType
<1>11. up' \in [Clients -> Seq(Lines)] /\ UNCHANGED <<view, late, lines>>
  BY <1>9, TakeLineType
<1>12. TypeOK'
  <2>1. /\ MessageIds \subseteq MessageIds' /\ active' \in [Clients -> Rooms]
        /\ mine' \in [Clients -> Seq(Rooms \ Rejected)] /\ late' \in SUBSET Clients
    BY <1>6, <1>9, <1>11 DEF TypeOK
  <2>2. QED
    BY <1>5, <1>10, <1>11, <2>1, ServerTypes
<1>13. GeneralStays'
  BY <1>9 DEF GeneralStays
<1>14. QED
  BY <1>1, <1>3, <1>5, <1>6, <1>12, <1>13

(* Where no message is posted.                                             *)
LEMMA QuietTypes ==
  ASSUME TypeInv, UNCHANGED <<view, posted, lines>>,
         up' \in [Clients -> Seq(Lines)], down' \in [Clients -> Seq(Frames)],
         active' \in [Clients -> Rooms], mine' \in [Clients -> Seq(Rooms \ Rejected)],
         GeneralStays', late' \in SUBSET Clients
  PROVE  TypeInv'
<1>1. MessageIds' = MessageIds
  BY DEF MessageIds
<1>2. Frames' = Frames
  BY <1>1 DEF Frames
<1>3. TypeOK /\ posted' \in Seq(Posts)
  BY DEF TypeInv, TypeOK, Posts
<1>4. MessageIds \subseteq MessageIds' /\ down' \in [Clients -> Seq(Frames')]
  BY <1>1, <1>2
<1>5. TypeOK'
  BY <1>3, <1>4, ServerTypes
<1>6. QED
  BY <1>5 DEF TypeInv

LEMMA GreetType ==
  ASSUME TypeInv, NEW c \in Clients, Greet(c)
  PROVE  /\ TypeInv' /\ UNCHANGED <<view, posted, lines, up>>
         /\ \E room \in Rooms, names \in Seq(Rooms) \ {<<>>} :
              Answer(c, History(active[c]) \o <<RoomList(names), SetActiveRoom(room)>>)
<1> USE Typing DEF TypeInv
<1>1. PICK room \in Rooms : room = active[c]
  BY MineType
<1>2. PICK names \in Seq(Rooms) \ {<<>>} : names = mine[c]
  BY MineType
<1>3. PICK f \in Frames, g \in Frames : f = RoomList(names) /\ g = SetActiveRoom(room)
  <2>1. SetActiveRoom(room) \in Frames
    BY DEF SetActiveRoom, Frames
  <2>2. QED
    BY <2>1, ListType
<1>4. <<f, g>> \in Seq(Frames)
  OBVIOUS
<1>5. History(room) \o <<f, g>> \in Seq(Frames)
  BY <1>4, RowsAreFrames, ConcatProperties
<1>6. Answer(c, History(room) \o <<f, g>>)
  BY <1>1, <1>2, <1>3 DEF Greet
<1>7. down' \in [Clients -> Seq(Frames)]
  BY <1>5, <1>6, AnswerType
<1>8. UNCHANGED <<view, up, active, mine, posted, lines>> /\ late' \in SUBSET Clients
  BY DEF Greet, TypeOK
<1>9. /\ up' \in [Clients -> Seq(Lines)] /\ active' \in [Clients -> Rooms]
      /\ mine' \in [Clients -> Seq(Rooms \ Rejected)] /\ GeneralStays'
  BY <1>8 DEF TypeOK, GeneralStays
<1>10. TypeInv'
  BY <1>7, <1>8, <1>9, QuietTypes
<1>11. QED
  BY <1>1, <1>3, <1>6, <1>8, <1>10

(* /join and /leave answer with the history of the room and a list.        *)
Moves(c) == \E room \in Rooms, names \in Seq(Rooms) \ {<<>>} :
              Answer(c, Append(History(room), RoomList(names)))

LEMMA MoveType ==
  ASSUME TypeInv, NEW c \in Clients, NEW room \in Rooms, NEW names \in Seq(Rooms \ Rejected),
         Listed(General, names), NEW cmd, TakeLine(c, cmd), UNCHANGED posted,
         active' = [active EXCEPT ![c] = room], mine' = [mine EXCEPT ![c] = names],
         Answer(c, Append(History(room), RoomList(names)))
  PROVE  TypeInv' /\ UNCHANGED <<view, posted, lines>> /\ Moves(c)
<1> USE Typing DEF TypeInv
<1>1. up' \in [Clients -> Seq(Lines)] /\ UNCHANGED <<view, late, lines>>
  BY TakeLineType
<1>2. names \in Seq(Rooms) \ {<<>>}
  <2>1. names # <<>>
    BY ListedIsThere
  <2>2. Seq(Rooms \ Rejected) \subseteq Seq(Rooms)
    OBVIOUS
  <2>3. QED
    BY <2>1, <2>2
<1>3. Append(History(room), RoomList(names)) \in Seq(Frames)
  BY <1>2, RowsAreFrames, ListType, AppendProperties
<1>4. down' \in [Clients -> Seq(Frames)]
  BY <1>3, AnswerType
<1>5. active' \in [Clients -> Rooms] /\ mine' \in [Clients -> Seq(Rooms \ Rejected)]
  BY DEF TypeOK
<1>6. GeneralStays'
  BY DEF GeneralStays, TypeOK
<1>7. late' \in SUBSET Clients
  BY <1>1 DEF TypeOK
<1>8. TypeInv'
  BY <1>1, <1>4, <1>5, <1>6, <1>7, QuietTypes
<1>9. QED
  BY <1>1, <1>2, <1>8 DEF Moves

LEMMA JoinType ==
  ASSUME TypeInv, NEW c \in Clients, handle_join_command(c)
  PROVE  /\ TypeInv' /\ UNCHANGED <<view, posted, lines>> /\ TakeLine(c, "join")
         /\ UNCHANGED down \/ Moves(c)
<1> USE Typing DEF TypeInv
<1>1. PICK room : room = Head(up[c]).room
  OBVIOUS
<1>2. TakeLine(c, "join") /\ UNCHANGED posted
  BY DEF handle_join_command
<1>3. room \in Rooms /\ up' \in [Clients -> Seq(Lines)] /\ UNCHANGED <<view, late, lines>>
  BY <1>1, <1>2, TakeLineType DEF Lines
<1>4. CASE room \in Rejected /\ UNCHANGED <<active, mine, down>>
  <2>1. /\ down' \in [Clients -> Seq(Frames)] /\ active' \in [Clients -> Rooms]
        /\ mine' \in [Clients -> Seq(Rooms \ Rejected)] /\ GeneralStays'
        /\ late' \in SUBSET Clients
    BY <1>3, <1>4 DEF TypeOK, GeneralStays
  <2>2. TypeInv'
    BY <1>2, <1>3, <2>1, QuietTypes
  <2>3. QED
    BY <1>2, <1>3, <1>4, <2>2
<1>5. CASE room \notin Rejected
  <2>1. PICK names : names = save_room_membership(mine[c], room)
    OBVIOUS
  <2>2. names \in Seq(Rooms \ Rejected) /\ Listed(General, names)
    BY <1>3, <1>5, <2>1, MineType, MembershipType
  <2>3. /\ active' = [active EXCEPT ![c] = room] /\ mine' = [mine EXCEPT ![c] = names]
    BY <1>1, <1>5, <2>1 DEF handle_join_command
  <2>4. mine'[c] = names
    BY <2>3 DEF TypeOK
  <2>5. Answer(c, Append(History(room), RoomList(names)))
    BY <1>1, <1>5, <2>4 DEF handle_join_command
  <2>6. QED
    BY <1>2, <1>3, <2>2, <2>3, <2>5, MoveType
<1>6. QED
  BY <1>1, <1>4, <1>5 DEF handle_join_command

LEMMA LeaveType ==
  ASSUME TypeInv, NEW c \in Clients, handle_leave_command(c)
  PROVE  /\ TypeInv' /\ UNCHANGED <<view, posted, lines>> /\ TakeLine(c, "leave")
         /\ UNCHANGED down \/ Moves(c)
<1> USE Typing DEF TypeInv
<1>1. TakeLine(c, "leave") /\ UNCHANGED posted
  BY DEF handle_leave_command
<1>2. up' \in [Clients -> Seq(Lines)] /\ UNCHANGED <<view, late, lines>>
  BY <1>1, TakeLineType
<1>3. CASE active[c] = General /\ UNCHANGED <<active, mine, down>>
  <2>1. /\ down' \in [Clients -> Seq(Frames)] /\ active' \in [Clients -> Rooms]
        /\ mine' \in [Clients -> Seq(Rooms \ Rejected)] /\ GeneralStays'
        /\ late' \in SUBSET Clients
    BY <1>2, <1>3 DEF TypeOK, GeneralStays
  <2>2. TypeInv'
    BY <1>1, <1>2, <2>1, QuietTypes
  <2>3. QED
    BY <1>1, <1>2, <1>3, <2>2
<1>4. CASE active[c] # General
  <2>1. PICK names : names = Without(mine[c], active[c])
    OBVIOUS
  <2>2. names \in Seq(Rooms \ Rejected) /\ Listed(General, names)
    BY <1>4, <2>1, MineType, WithoutType
  <2>3. names # <<>> /\ Head(names) \in Rooms
    BY <2>2, ListedIsThere, FirstIsIn
  <2>4. /\ mine' = [mine EXCEPT ![c] = names]
        /\ active' = [active EXCEPT ![c] = LastRoomOr(mine'[c], General)]
        /\ Answer(c, Append(History(active'[c]), RoomList(mine'[c])))
    BY <1>4, <2>1 DEF handle_leave_command, remove_room_membership
  <2>5. mine'[c] = names
    BY <2>4 DEF TypeOK
  <2>6. PICK room \in Rooms : room = LastRoomOr(names, General)
    BY <2>3 DEF LastRoomOr
  <2>7. active' = [active EXCEPT ![c] = room] /\ active'[c] = room
    BY <2>4, <2>5, <2>6 DEF TypeOK
  <2>8. Answer(c, Append(History(room), RoomList(names)))
    BY <2>4, <2>5, <2>7
  <2>9. QED
    BY <1>1, <2>2, <2>4, <2>7, <2>8, MoveType
<1>5. QED
  BY <1>3, <1>4 DEF handle_leave_command

LEMMA SwitchType ==
  ASSUME TypeInv, NEW c \in Clients, handle_switch_command(c)
  PROVE  TypeInv' /\ UNCHANGED <<view, posted, lines, down>> /\ TakeLine(c, "switch")
<1> USE Typing DEF TypeInv
<1>1. PICK room : room = Head(up[c]).room
  OBVIOUS
<1>2. /\ TakeLine(c, "switch") /\ UNCHANGED <<mine, posted, down>>
      /\ active' = [active EXCEPT ![c] = room]
  BY <1>1 DEF handle_switch_command
<1>3. room \in Rooms /\ up' \in [Clients -> Seq(Lines)] /\ UNCHANGED <<view, late, lines>>
  BY <1>1, <1>2, TakeLineType DEF Lines
<1>4. /\ down' \in [Clients -> Seq(Frames)] /\ active' \in [Clients -> Rooms]
      /\ mine' \in [Clients -> Seq(Rooms \ Rejected)] /\ GeneralStays' /\ late' \in SUBSET Clients
  BY <1>2, <1>3 DEF TypeOK, GeneralStays
<1>5. QED
  BY <1>2, <1>3, <1>4, QuietTypes

LEMMA ReadType ==
  ASSUME TypeInv, NEW c \in Clients, handle_read_command(c)
  PROVE  TypeInv' /\ UNCHANGED <<view, posted, lines>> /\ TakeLine(c, "read")
<1> USE Typing DEF TypeInv
<1>1. PICK room, ids : room = Head(up[c]).room /\ ids = Head(up[c]).ids
  OBVIOUS
<1>2. /\ TakeLine(c, "read") /\ UNCHANGED <<active, mine, posted>>
      /\ Broadcast(room, ReadReceipt(c, ids))
  BY <1>1 DEF handle_read_command
<1>3. /\ ids \in SUBSET MessageIds /\ up' \in [Clients -> Seq(Lines)]
      /\ UNCHANGED <<view, late, lines>>
  BY <1>1, <1>2, TakeLineType DEF Lines
<1>4. PICK frame \in Frames : frame = ReadReceipt(c, ids)
  BY <1>3 DEF ReadReceipt, Frames
<1>5. MessageIds' = MessageIds /\ Frames' = Frames
  BY <1>2 DEF MessageIds, Frames
<1>6. down' \in [Clients -> Seq(Frames)]
  <2>1. MessageIds \subseteq MessageIds' /\ frame \in Frames'
    BY <1>5
  <2>2. down' \in [Clients -> Seq(Frames')]
    BY <1>2, <1>4, <2>1, BroadcastType
  <2>3. QED
    BY <1>5, <2>2
<1>7. /\ active' \in [Clients -> Rooms] /\ late' \in SUBSET Clients
      /\ mine' \in [Clients -> Seq(Rooms \ Rejected)] /\ GeneralStays'
  BY <1>2, <1>3 DEF TypeOK, GeneralStays
<1>8. QED
  BY <1>2, <1>3, <1>6, <1>7, QuietTypes

LEMMA TypeStep ==
  ASSUME TypeInv, [Next]_vars
  PROVE  TypeInv'
<1> USE DEF TypeInv
<1>1. ASSUME NEW c \in Clients, UserStep(c) \/ handle_server_message(c)
      PROVE  TypeInv'
  <2>1. TypeOK' /\ UNCHANGED server
    BY <1>1, UserType, IngestType
  <2>2. QED
    BY <2>1 DEF server, GeneralStays
<1>2. ASSUME NEW c \in Clients, TaskStep(c)
      PROVE  TypeInv'
  BY <1>2, GreetType, PostType, JoinType, LeaveType, SwitchType, ReadType DEF TaskStep
<1>3. CASE UNCHANGED vars
  BY <1>3 DEF vars, view, reading, server, TypeOK, GeneralStays, MessageIds, Frames
<1>4. QED
  BY <1>1, <1>2, <1>3 DEF Next

(* No line and no frame names a message that was never posted, and no list *)
(* of rooms is empty, whatever the users enter and in whatever order lines *)
(* and frames are handled.                                                 *)
THEOREM ReceiptsTypeCorrect == Spec => []TypeOK
<1>1. TypeInv => TypeOK
  BY DEF TypeInv
<1>2. QED
  BY <1>1, InitType, TypeStep, PTL DEF Spec

-----------------------------------------------------------------------------
(* What is reported as read was on the reader's screen.                    *)

InQueue(q) == {q[i] : i \in 1..Len(q)}

LEMMA InExtended ==
  ASSUME NEW S, NEW p \in Seq(S), NEW q \in Seq(S)
  PROVE  InQueue(p \o q) \subseteq InQueue(p) \cup InQueue(q)
<1> SUFFICES ASSUME NEW i \in 1..Len(p \o q)
             PROVE  (p \o q)[i] \in InQueue(p) \cup InQueue(q)
  BY DEF InQueue
<1>1. \/ i \in 1..Len(p) /\ (p \o q)[i] = p[i]
      \/ i - Len(p) \in 1..Len(q) /\ (p \o q)[i] = q[i - Len(p)]
  BY QueueExtends
<1>2. QED
  BY <1>1 DEF InQueue

LEMMA InAppended ==
  ASSUME NEW S, NEW q \in Seq(S), NEW e \in S
  PROVE  InQueue(Append(q, e)) \subseteq InQueue(q) \cup {e}
<1> SUFFICES ASSUME NEW i \in 1..Len(Append(q, e))
             PROVE  Append(q, e)[i] \in InQueue(q) \cup {e}
  BY DEF InQueue
<1>1. /\ Len(Append(q, e)) = Len(q) + 1 /\ Len(q) \in Nat /\ Append(q, e)[Len(q) + 1] = e
      /\ \A j \in 1..Len(q) : Append(q, e)[j] = q[j]
  BY QueueAppends
<1>2. i = Len(q) + 1 \/ i \in 1..Len(q)
  BY <1>1
<1>3. QED
  BY <1>1, <1>2 DEF InQueue

LEMMA InAdvanced ==
  ASSUME NEW S, NEW q \in Seq(S), q # <<>>
  PROVE  InQueue(Tail(q)) \subseteq InQueue(q) /\ Head(q) \in InQueue(q)
BY QueueAdvances DEF InQueue

(* The property, queue by queue.                                           *)
LineShown(c, line)  == line.ids \subseteq Reportable(c)
FrameShown(f)       == f.kind = "ReadReceipt" => f.ids \subseteq Reportable(f.by)
ReadShown(c, m)     == m \in replayed[c] \/ \E d \in Clients : m \in Reportable(d)

LEMMA ShownByQueue ==
  ReadMeansShown <=>
    \A c \in Clients :
      /\ \A line \in InQueue(up[c]) : LineShown(c, line)
      /\ \A f \in InQueue(down[c]) : FrameShown(f)
      /\ \A m \in read_message_ids[c] : ReadShown(c, m)
BY DEF ReadMeansShown, InQueue, LineShown, FrameShown, ReadShown

(* Nothing posted or shown is taken back.                                  *)
Kept == /\ shown \subseteq shown'
        /\ \A m \in MessageIds : m \in MessageIds' /\ posted'[m] = posted[m]
        /\ \A d \in Clients : replayed[d] \subseteq replayed'[d]

LEMMA ReportsStay ==
  ASSUME Kept, NEW d
  PROVE  Reportable(d) \subseteq Reportable(d)'
<1> SUFFICES ASSUME NEW m \in Reportable(d)
             PROVE  m \in Reportable(d)'
  OBVIOUS
<1>1. m \in MessageIds /\ m \notin By(d) /\ <<d, m>> \in shown
  BY DEF Reportable
<1>2. m \in MessageIds' /\ posted'[m] = posted[m] /\ <<d, m>> \in shown'
  BY <1>1 DEF Kept
<1>3. posted[m].from # d
  BY <1>1 DEF By, MessageIds
<1>4. m \notin By(d)'
  BY <1>2, <1>3 DEF By
<1>5. QED
  BY <1>2, <1>4 DEF Reportable

(* The client's part: the lines it sends name what it shows, and it learns *)
(* of reads from the receipts in its queue.                                *)
ClientTells(c) ==
  /\ Kept
  /\ \A d \in Clients : \A line \in InQueue(up'[d]) :
       line \in InQueue(up[d]) \/ LineShown(d, line)'
  /\ \A d \in Clients : InQueue(down'[d]) \subseteq InQueue(down[d])
  /\ \A d \in Clients : \A m \in read_message_ids'[d] :
       \/ m \in read_message_ids[d] \/ m \in replayed'[d]
       \/ \E f \in InQueue(down[d]) : f.kind = "ReadReceipt" /\ m \in f.ids

LEMMA TellsShown ==
  ASSUME TypeOK, ReadMeansShown, NEW c \in Clients, ClientTells(c)
  PROVE  ReadMeansShown'
<1> SUFFICES ASSUME NEW d \in Clients
             PROVE  /\ \A line \in InQueue(up'[d]) : LineShown(d, line)'
                    /\ \A f \in InQueue(down'[d]) : FrameShown(f)'
                    /\ \A m \in read_message_ids'[d] : ReadShown(d, m)'
  BY ShownByQueue DEF ReadMeansShown, InQueue, LineShown, FrameShown, ReadShown
<1>0. Kept /\ \A e : Reportable(e) \subseteq Reportable(e)'
  BY ReportsStay DEF ClientTells
<1>1. ASSUME NEW line \in InQueue(up'[d])
      PROVE  LineShown(d, line)'
  <2>1. CASE line \in InQueue(up[d])
    <3>1. line.ids \subseteq Reportable(d)
      BY <2>1, ShownByQueue DEF LineShown
    <3>2. line.ids \subseteq Reportable(d)'
      BY <1>0, <3>1
    <3>3. QED
      BY <3>2 DEF LineShown
  <2>2. QED
    BY <2>1 DEF ClientTells
<1>2. ASSUME NEW f \in InQueue(down'[d])
      PROVE  FrameShown(f)'
  <2>1. f \in InQueue(down[d])
    BY DEF ClientTells
  <2>2. f.kind = "ReadReceipt" => f.ids \subseteq Reportable(f.by)
    BY <2>1, ShownByQueue DEF FrameShown
  <2>3. f.kind = "ReadReceipt" => f.ids \subseteq Reportable(f.by)'
    BY <1>0, <2>2
  <2>4. QED
    BY <2>3 DEF FrameShown
<1>3. ASSUME NEW m \in read_message_ids'[d]
      PROVE  ReadShown(d, m)'
  <2>1. CASE m \in read_message_ids[d]
    <3>1. m \in replayed[d] \/ \E e \in Clients : m \in Reportable(e)
      BY <2>1, ShownByQueue DEF ReadShown
    <3>2. m \in replayed'[d] \/ \E e \in Clients : m \in Reportable(e)'
      BY <1>0, <3>1 DEF Kept
    <3>3. QED
      BY <3>2 DEF ReadShown
  <2>2. CASE m \in replayed'[d]
    BY <2>2 DEF ReadShown
  <2>3. CASE \E f \in InQueue(down[d]) : f.kind = "ReadReceipt" /\ m \in f.ids
    <3>1. PICK f \in InQueue(down[d]) : f.kind = "ReadReceipt" /\ m \in f.ids
      BY <2>3
    <3>2. m \in Reportable(f.by)
      BY <3>1, ShownByQueue DEF FrameShown
    <3>3. f.by \in Clients
      <4>1. f \in Frames
        BY <3>1, Typing, ElementOfSeq DEF InQueue
      <4>2. QED
        BY <3>1, <4>1 DEF Frames
    <3>4. \E e \in Clients : m \in Reportable(e)'
      BY <1>0, <3>2, <3>3
    <3>5. QED
      BY <3>4 DEF ReadShown
  <2>4. QED
    BY <2>1, <2>2, <2>3 DEF ClientTells
<1>4. QED
  BY <1>1, <1>2, <1>3

(* A room put on the screen shows what is held of it.                      *)
LEMMA ScreenShows ==
  ASSUME TypeOK, NEW c \in Clients, NEW room, NEW held \in SUBSET Held, Screen(c, room, held),
         UNCHANGED <<posted, replayed>>
  PROVE  /\ Kept
         /\ \A m \in (Ids(held) \cap In(room)) \ By(c) : m \in Reportable(c)'
<1>1. Kept
  BY DEF Kept, Screen, MessageIds
<1>2. ASSUME NEW m \in (Ids(held) \cap In(room)) \ By(c)
      PROVE  m \in Reportable(c)'
  <2>1. m \in MessageIds' /\ <<c, m>> \in shown'
    BY IdsType DEF Screen, MessageIds
  <2>2. m \notin By(c)'
    BY DEF By
  <2>3. QED
    BY <2>1, <2>2 DEF Reportable
<1>3. QED
  BY <1>1, <1>2

(* mark_all_read reports what the room it shows holds.                     *)
LEMMA MarkTells ==
  ASSUME TypeOK, NEW c \in Clients, NEW room \in Rooms, NEW after \in Seq(Lines),
         \A line \in InQueue(after) : line.ids = {},
         Screen(c, room, messages[c]), mark_all_read(c, room, after),
         UNCHANGED <<posted, replayed, read_message_ids>>,
         \A d \in Clients : InQueue(down'[d]) \subseteq InQueue(down[d])
  PROVE  ClientTells(c)
<1> USE Typing
<1>1. /\ Kept
      /\ \A m \in (Ids(messages[c]) \cap In(room)) \ By(c) : m \in Reportable(c)'
  BY ScreenShows
<1>2. PICK ids : ids = collect_unread_ids(c, room)
  OBVIOUS
<1>3. ids \subseteq Reportable(c)' /\ ids \in SUBSET MessageIds
  <2>1. ids \subseteq (Ids(messages[c]) \cap In(room)) \ By(c)
    BY <1>2 DEF collect_unread_ids
  <2>2. Ids(messages[c]) \subseteq MessageIds
    BY IdsType
  <2>3. QED
    BY <1>1, <2>1, <2>2
<1>4. PICK more \in Seq(Lines) : more = Receipt(room, ids)
  BY <1>3, ReceiptType
<1>5. \A line \in InQueue(more) : line.ids = ids
  <2>1. PICK x : x = Line("read", room, ids)
    OBVIOUS
  <2>2. x.ids = ids
    BY <2>1 DEF Line
  <2>3. more = <<>> \/ more = <<x>>
    BY <1>4, <2>1 DEF Receipt
  <2>4. QED
    BY <2>2, <2>3 DEF InQueue
<1>6. up' = [up EXCEPT ![c] = (up[c] \o more) \o after]
  BY <1>2, <1>4 DEF mark_all_read
<1>7. InQueue(up'[c]) \subseteq InQueue(up[c]) \cup InQueue(more) \cup InQueue(after)
  <2>1. up'[c] = (up[c] \o more) \o after
    BY <1>6
  <2>2. up[c] \o more \in Seq(Lines)
    BY ConcatProperties
  <2>3. InQueue((up[c] \o more) \o after) \subseteq InQueue(up[c] \o more) \cup InQueue(after)
    BY <2>2, InExtended
  <2>4. InQueue(up[c] \o more) \subseteq InQueue(up[c]) \cup InQueue(more)
    BY InExtended
  <2>5. QED
    BY <2>1, <2>3, <2>4
<1>8. ASSUME NEW d \in Clients, NEW line \in InQueue(up'[d])
      PROVE  line \in InQueue(up[d]) \/ LineShown(d, line)'
  <2>1. CASE d = c
    <3>1. line \in InQueue(up[c]) \/ line.ids = ids \/ line.ids = {}
      BY <1>5, <1>7, <2>1
    <3>2. QED
      BY <1>3, <2>1, <3>1 DEF LineShown
  <2>2. CASE d # c
    BY <1>6, <2>2
  <2>3. QED
    BY <2>1, <2>2
<1>9. QED
  BY <1>1, <1>8 DEF ClientTells

LEMMA EmptyLine ==
  ASSUME NEW cmd \in Cmds, NEW room \in Rooms
  PROVE  \A line \in InQueue(<<Line(cmd, room, {})>>) : line.ids = {}
<1>1. PICK x : x = Line(cmd, room, {})
  OBVIOUS
<1>2. x.ids = {}
  BY <1>1 DEF Line
<1>3. InQueue(<<x>>) = {x}
  BY DEF InQueue
<1>4. QED
  BY <1>1, <1>2, <1>3

(* The steps that send one line, or none, and no receipt.                  *)
LEMMA PlainTells ==
  ASSUME TypeOK, NEW c \in Clients, NEW line \in Lines, line.ids = {}, Kept,
         up' = [up EXCEPT ![c] = Append(up[c], line)] \/ UNCHANGED up,
         UNCHANGED read_message_ids,
         \A d \in Clients : InQueue(down'[d]) \subseteq InQueue(down[d])
  PROVE  ClientTells(c)
<1> USE Typing
<1>1. ASSUME NEW d \in Clients, NEW x \in InQueue(up'[d])
      PROVE  x \in InQueue(up[d]) \/ LineShown(d, x)'
  <2>1. CASE UNCHANGED up
    BY <1>1, <2>1
  <2>2. CASE up' = [up EXCEPT ![c] = Append(up[c], line)]
    <3>1. InQueue(Append(up[c], line)) \subseteq InQueue(up[c]) \cup {line}
      BY InAppended
    <3>2. x \in InQueue(up[d]) \/ x = line
      BY <1>1, <2>2, <3>1
    <3>3. QED
      BY <3>2 DEF LineShown
  <2>3. QED
    BY <2>1, <2>2
<1>2. QED
  BY <1>1 DEF ClientTells

LEMMA UserTells ==
  ASSUME TypeOK, NEW c \in Clients, UserStep(c)
  PROVE  ClientTells(c)
<1> USE Typing
<1>0. /\ rooms[c] \in Seq(Rooms) /\ current[c] \in Rooms /\ messages[c] \in SUBSET Held
  BY RoomsAreNames
<1>1. ASSUME NEW room \in Rooms, select_room(c, room)
      PROVE  ClientTells(c)
  <2>1. PICK after \in Seq(Lines) : /\ after = <<Line("switch", room, {})>>
                                   /\ \A line \in InQueue(after) : line.ids = {}
    BY LineType, EmptyLine DEF Cmds
  <2>2. /\ Screen(c, room, messages[c]) /\ mark_all_read(c, room, after)
        /\ UNCHANGED <<posted, replayed, read_message_ids, down>>
    BY <1>1, <2>1 DEF select_room, server
  <2>3. QED
    BY <2>1, <2>2, MarkTells
<1>2. ASSUME NEW room \in Targets, cmd_join(c, room)
      PROVE  ClientTells(c)
  <2>0. room \in Rooms
    BY ReceiptsAssumption
  <2>1. PICK after \in Seq(Lines) : /\ after = <<Line("join", room, {})>>
                                   /\ \A line \in InQueue(after) : line.ids = {}
    BY <2>0, LineType, EmptyLine DEF Cmds
  <2>2. /\ Screen(c, room, messages[c]) /\ mark_all_read(c, room, after)
        /\ UNCHANGED <<posted, replayed, read_message_ids, down>>
    BY <1>2, <2>1 DEF cmd_join, server
  <2>3. QED
    BY <2>0, <2>1, <2>2, MarkTells
<1>3. CASE SendText(c)
  <2>1. PICK after \in Seq(Lines) : /\ after = <<Line("text", current[c], {})>>
                                   /\ \A line \in InQueue(after) : line.ids = {}
    BY <1>0, LineType, EmptyLine DEF Cmds
  <2>2. /\ Screen(c, current[c], messages[c]) /\ mark_all_read(c, current[c], after)
        /\ UNCHANGED <<posted, replayed, read_message_ids, down>>
    BY <1>3, <2>1 DEF SendText, server
  <2>3. QED
    BY <1>0, <2>1, <2>2, MarkTells
<1>4. CASE cmd_leave(c)
  <2>1. PICK line \in Lines : line = Line("leave", current[c], {}) /\ line.ids = {}
    BY <1>0, LineType DEF Cmds, Line
  <2>2. PICK room : room = Head(Without(rooms[c], current[c]))
    OBVIOUS
  <2>3. /\ Screen(c, room, messages[c]) /\ up' = [up EXCEPT ![c] = Append(up[c], line)]
        /\ UNCHANGED <<posted, replayed, read_message_ids, down>>
    BY <1>4, <2>1, <2>2 DEF cmd_leave, server
  <2>4. Kept
    BY <1>0, <2>3, ScreenShows
  <2>5. QED
    BY <2>1, <2>3, <2>4, PlainTells
<1>5. CASE cmd_clear(c) \/ SendMedia(c)
  <2>1. PICK line \in Lines : line = Line("media", current[c], {}) /\ line.ids = {}
    BY <1>0, LineType DEF Cmds, Line
  <2>2. /\ up' = [up EXCEPT ![c] = Append(up[c], line)] \/ UNCHANGED up
        /\ UNCHANGED <<posted, replayed, read_message_ids, down>>
        /\ shown \subseteq shown'
    BY <1>5, <2>1 DEF cmd_clear, SendMedia, Screen, server, view, reading
  <2>3. Kept
    BY <2>2 DEF Kept, MessageIds
  <2>4. QED
    BY <2>1, <2>2, <2>3, PlainTells
<1>6. QED
  BY <1>1, <1>2, <1>3, <1>4, <1>5 DEF UserStep

LEMMA IngestTells ==
  ASSUME TypeOK, NEW c \in Clients, handle_server_message(c)
  PROVE  ClientTells(c)
<1> USE Typing
<1>0. /\ rooms[c] \in Seq(Rooms) /\ current[c] \in Rooms /\ messages[c] \in SUBSET Held
  BY RoomsAreNames
<1>1. PICK f \in Frames : f = Head(down[c]) /\ f \in InQueue(down[c])
  BY NextFrame, InAdvanced DEF handle_server_message
<1>2. \A d \in Clients : InQueue(down'[d]) \subseteq InQueue(down[d])
  <2>1. InQueue(Tail(down[c])) \subseteq InQueue(down[c])
    BY InAdvanced DEF handle_server_message
  <2>2. down' = [down EXCEPT ![c] = Tail(down[c])]
    BY DEF handle_server_message
  <2>3. QED
    BY <2>1, <2>2
<1>3. UNCHANGED <<posted, active, mine, late>>
  BY DEF handle_server_message, server
<1>4. CASE f.kind = "Message" /\ IngestMessage(c, f.id, f.is_history)
  <2>1. PICK m, hist : m = f.id /\ hist = f.is_history
    OBVIOUS
  <2>2. m \in MessageIds /\ hist \in BOOLEAN
    BY <1>4, <2>1 DEF Frames
  <2>3. PICK room \in Rooms : room = RoomOf(m)
    BY <2>2, RoomOfType
  <2>4. IngestMessage(c, m, hist)
    BY <1>4, <2>1
  <2>5. PICK held : held = messages[c] \cup {[id |-> m, is_history |-> hist]}
    OBVIOUS
  <2>6. held \in SUBSET Held /\ m \in Ids(held)
    <3>1. PICK x \in Held : x = [id |-> m, is_history |-> hist]
      BY <2>2 DEF Held
    <3>2. held \in SUBSET Held /\ x \in held /\ x.id = m
      BY <1>0, <2>5, <3>1
    <3>3. QED
      BY <3>2 DEF Ids
  <2>7. Screen(c, current[c], held)
    BY <2>4, <2>5 DEF IngestMessage
  <2>8. Kept
    <3>1. \A d \in Clients : replayed[d] \subseteq replayed'[d]
      <4>1. \/ replayed' = [replayed EXCEPT ![c] = @ \cup {m}]
            \/ UNCHANGED replayed
        BY <2>4 DEF IngestMessage
      <4>2. QED
        BY <4>1
    <3>2. QED
      BY <1>3, <2>7, <3>1 DEF Kept, Screen, MessageIds
  <2>9. PICK ids : ids = IF Acked(c, m, hist) THEN {m} ELSE {}
    OBVIOUS
  <2>10. ids \subseteq Reportable(c)' /\ ids \in SUBSET MessageIds
    <3>1. ASSUME Acked(c, m, hist)
          PROVE  m \in Reportable(c)'
      <4>1. m \in In(current[c]) /\ m \notin By(c)
        BY <2>2, <3>1 DEF Acked, In, MessageIds
      <4>2. <<c, m>> \in shown'
        BY <2>6, <2>7, <4>1 DEF Screen
      <4>3. m \in MessageIds' /\ m \notin By(c)'
        BY <1>3, <2>2, <4>1 DEF By, MessageIds
      <4>4. QED
        BY <4>2, <4>3 DEF Reportable
    <3>2. QED
      BY <2>2, <2>9, <3>1
  <2>11. PICK more \in Seq(Lines) : more = Receipt(room, ids)
    BY <2>10, ReceiptType
  <2>12. \A line \in InQueue(more) : line.ids = ids
    <3>1. PICK x : x = Line("read", room, ids)
      OBVIOUS
    <3>2. x.ids = ids
      BY <3>1 DEF Line
    <3>3. more = <<>> \/ more = <<x>>
      BY <2>11, <3>1 DEF Receipt
    <3>4. QED
      BY <3>2, <3>3 DEF InQueue
  <2>13. up' = [up EXCEPT ![c] = up[c] \o more]
    BY <2>3, <2>4, <2>9, <2>11 DEF IngestMessage
  <2>14. ASSUME NEW d \in Clients, NEW line \in InQueue(up'[d])
         PROVE  line \in InQueue(up[d]) \/ LineShown(d, line)'
    <3>1. CASE d # c
      BY <2>13, <2>14, <3>1
    <3>2. CASE d = c
      <4>1. InQueue(up[c] \o more) \subseteq InQueue(up[c]) \cup InQueue(more)
        BY InExtended
      <4>2. line \in InQueue(up[c]) \/ line.ids = ids
        BY <2>12, <2>13, <2>14, <3>2, <4>1
      <4>3. QED
        BY <2>10, <3>2, <4>2 DEF LineShown
    <3>3. QED
      BY <3>1, <3>2
  <2>15. \A d \in Clients : \A k \in read_message_ids'[d] :
           k \in read_message_ids[d] \/ k \in replayed'[d]
    <3>1. CASE UNCHANGED <<read_message_ids, replayed>>
      BY <3>1
    <3>2. CASE /\ read_message_ids' = [read_message_ids EXCEPT ![c] = @ \cup {m}]
               /\ replayed' = [replayed EXCEPT ![c] = @ \cup {m}]
      BY <3>2
    <3>3. QED
      BY <2>4, <3>1, <3>2 DEF IngestMessage
  <2>16. QED
    BY <1>2, <2>8, <2>14, <2>15 DEF ClientTells
<1>5. CASE f.kind = "RoomList" /\ IngestRoomList(c, f.names)
  <2>1. UNCHANGED <<up, read_message_ids, replayed>> /\ shown \subseteq shown'
    BY <1>5 DEF IngestRoomList, Screen
  <2>2. Kept
    BY <1>3, <2>1 DEF Kept, MessageIds
  <2>3. QED
    BY <1>2, <2>1, <2>2 DEF ClientTells
<1>6. CASE f.kind = "SetActiveRoom" /\ IngestSetActiveRoom(c, f.room)
  <2>1. PICK room \in Rooms : room = f.room
    BY <1>6 DEF Frames
  <2>2. PICK after \in Seq(Lines) : after = <<>> /\ InQueue(after) = {}
    <3>1. PICK q : q = <<>>
      OBVIOUS
    <3>2. q \in Seq(Lines) /\ InQueue(q) = {}
      BY <3>1 DEF InQueue
    <3>3. QED
      BY <3>1, <3>2
  <2>3. /\ Screen(c, room, messages[c]) /\ mark_all_read(c, room, after)
        /\ UNCHANGED <<read_message_ids, replayed>>
    BY <1>6, <2>1, <2>2 DEF IngestSetActiveRoom
  <2>4. QED
    BY <1>2, <1>3, <2>2, <2>3, MarkTells
<1>7. CASE f.kind = "ReadReceipt" /\ IngestReceipt(c, f.ids)
  <2>1. /\ UNCHANGED <<up, shown, replayed>>
        /\ read_message_ids' = [read_message_ids EXCEPT ![c] = @ \cup f.ids]
    BY <1>7 DEF IngestReceipt
  <2>2. Kept
    BY <1>3, <2>1 DEF Kept, MessageIds
  <2>3. \A d \in Clients : \A k \in read_message_ids'[d] :
          k \in read_message_ids[d] \/ (d = c /\ k \in f.ids)
    BY <2>1
  <2>4. QED
    BY <1>1, <1>2, <1>7, <2>1, <2>2, <2>3 DEF ClientTells
<1>8. QED
  BY <1>1, <1>4, <1>5, <1>6, <1>7 DEF handle_server_message

(* The server's part: it passes on receipts from lines, and frames that    *)
(* are no receipts.                                                        *)
ServerTells ==
  /\ Kept
  /\ \A d \in Clients : InQueue(up'[d]) \subseteq InQueue(up[d])
  /\ \A d \in Clients : \A f \in InQueue(down'[d]) :
       \/ f \in InQueue(down[d])
       \/ f.kind = "ReadReceipt" =>
            f.by \in Clients /\ \E line \in InQueue(up[f.by]) : f.ids = line.ids
  /\ UNCHANGED <<read_message_ids, replayed>>

LEMMA PassedOnShown ==
  ASSUME TypeOK, ReadMeansShown, ServerTells
  PROVE  ReadMeansShown'
<1> SUFFICES ASSUME NEW d \in Clients
             PROVE  /\ \A line \in InQueue(up'[d]) : LineShown(d, line)'
                    /\ \A f \in InQueue(down'[d]) : FrameShown(f)'
                    /\ \A m \in read_message_ids'[d] : ReadShown(d, m)'
  BY DEF ReadMeansShown, InQueue, LineShown, FrameShown, ReadShown
<1>0. \A e : Reportable(e) \subseteq Reportable(e)'
  BY ReportsStay DEF ServerTells
<1>1. ASSUME NEW line \in InQueue(up'[d])
      PROVE  LineShown(d, line)'
  <2>1. line.ids \subseteq Reportable(d)
    BY ShownByQueue DEF ServerTells, LineShown
  <2>2. line.ids \subseteq Reportable(d)'
    BY <1>0, <2>1
  <2>3. QED
    BY <2>2 DEF LineShown
<1>2. ASSUME NEW f \in InQueue(down'[d])
      PROVE  FrameShown(f)'
  <2>1. CASE f \in InQueue(down[d])
    <3>1. f.kind = "ReadReceipt" => f.ids \subseteq Reportable(f.by)
      BY <2>1, ShownByQueue DEF FrameShown
    <3>2. f.kind = "ReadReceipt" => f.ids \subseteq Reportable(f.by)'
      BY <1>0, <3>1
    <3>3. QED
      BY <3>2 DEF FrameShown
  <2>2. CASE f.kind = "ReadReceipt" =>
               f.by \in Clients /\ \E line \in InQueue(up[f.by]) : f.ids = line.ids
    <3>1. f.kind = "ReadReceipt" => f.ids \subseteq Reportable(f.by)
      BY <2>2, ShownByQueue DEF LineShown
    <3>2. f.kind = "ReadReceipt" => f.ids \subseteq Reportable(f.by)'
      BY <1>0, <3>1
    <3>3. QED
      BY <3>2 DEF FrameShown
  <2>3. QED
    BY <2>1, <2>2 DEF ServerTells
<1>3. ASSUME NEW m \in read_message_ids'[d]
      PROVE  ReadShown(d, m)'
  <2>1. m \in replayed[d] \/ \E e \in Clients : m \in Reportable(e)
    BY ShownByQueue DEF ServerTells, ReadShown
  <2>2. m \in replayed'[d] \/ \E e \in Clients : m \in Reportable(e)'
    BY <1>0, <2>1 DEF ServerTells
  <2>3. QED
    BY <2>2 DEF ReadShown
<1>4. QED
  BY <1>1, <1>2, <1>3

(* The frames an answer or a broadcast adds.                               *)
LEMMA AnswerAdds ==
  ASSUME TypeOK, NEW c \in Clients, NEW more \in Seq(Frames), Answer(c, more)
  PROVE  \A d \in Clients :
           /\ InQueue(down'[d]) \subseteq InQueue(down[d]) \cup InQueue(more)
           /\ \A i \in 1..Len(down'[d]) :
                \/ i \in 1..Len(down[d]) /\ down'[d][i] = down[d][i]
                \/ i > Len(down[d]) /\ down'[d][i] \in InQueue(more)
<1> USE Typing
<1> TAKE d \in Clients
<1>1. down'[d] = down[d] \/ down'[d] = down[d] \o more
  BY DEF Answer
<1>2. InQueue(down[d] \o more) \subseteq InQueue(down[d]) \cup InQueue(more)
  BY InExtended
<1>3. ASSUME NEW i \in 1..Len(down[d] \o more)
      PROVE  \/ i \in 1..Len(down[d]) /\ (down[d] \o more)[i] = down[d][i]
             \/ i > Len(down[d]) /\ (down[d] \o more)[i] \in InQueue(more)
  <2>1. /\ Len(down[d]) \in Nat /\ Len(more) \in Nat
        /\ \/ i \in 1..Len(down[d]) /\ (down[d] \o more)[i] = down[d][i]
           \/ /\ i - Len(down[d]) \in 1..Len(more)
              /\ (down[d] \o more)[i] = more[i - Len(down[d])]
        /\ Len(down[d] \o more) = Len(down[d]) + Len(more)
    BY QueueExtends
  <2>2. QED
    BY <2>1 DEF InQueue
<1>4. QED
  BY <1>1, <1>2, <1>3

LEMMA BroadcastAdds ==
  ASSUME TypeOK, NEW room, NEW frame, Broadcast(room, frame)
  PROVE  \A d \in Clients :
           /\ InQueue(down'[d]) \subseteq InQueue(down[d]) \cup {frame}
           /\ \A i \in 1..Len(down'[d]) :
                \/ i \in 1..Len(down[d]) /\ down'[d][i] = down[d][i]
                \/ i = Len(down[d]) + 1 /\ down'[d][i] = frame
<1> USE Typing
<1> TAKE d \in Clients
<1>1. down'[d] = down[d] \/ down'[d] = Append(down[d], frame)
  BY DEF Broadcast
<1>2. down[d] \in Seq(Frames \cup {frame}) /\ frame \in Frames \cup {frame}
  OBVIOUS
<1>3. InQueue(Append(down[d], frame)) \subseteq InQueue(down[d]) \cup {frame}
  BY <1>2, InAppended
<1>4. /\ Len(Append(down[d], frame)) = Len(down[d]) + 1 /\ Len(down[d]) \in Nat
      /\ Append(down[d], frame)[Len(down[d]) + 1] = frame
      /\ \A i \in 1..Len(down[d]) : Append(down[d], frame)[i] = down[d][i]
  BY <1>2, QueueAppends
<1>5. \A i \in 1..Len(Append(down[d], frame)) :
        \/ i \in 1..Len(down[d]) /\ Append(down[d], frame)[i] = down[d][i]
        \/ i = Len(down[d]) + 1 /\ Append(down[d], frame)[i] = frame
  <2>1. PICK q, n : q = Append(down[d], frame) /\ n = Len(down[d])
    OBVIOUS
  <2>2. /\ Len(q) = n + 1 /\ n \in Nat /\ q[n + 1] = frame
        /\ \A i \in 1..n : q[i] = down[d][i]
    BY <1>4, <2>1
  <2>3. \A i \in 1..Len(q) : i \in 1..n \/ i = n + 1
    BY <2>2
  <2>4. QED
    BY <2>1, <2>2, <2>3
<1>6. QED
  BY <1>1, <1>3, <1>5

(* Frames of a history, and of what follows it.                            *)
LEMMA MovesAdd ==
  ASSUME TypeOK, NEW c \in Clients,
         \/ Moves(c)
         \/ \E room \in Rooms, names \in Seq(Rooms) \ {<<>>} :
              Answer(c, History(active[c]) \o <<RoomList(names), SetActiveRoom(room)>>)
  PROVE  \A d \in Clients :
           /\ \A f \in InQueue(down'[d]) :
                f \in InQueue(down[d]) \/ (f.kind # "ReadReceipt")
           /\ \A i \in 1..Len(down'[d]) :
                \/ i \in 1..Len(down[d]) /\ down'[d][i] = down[d][i]
                \/ i > Len(down[d]) /\ (down'[d][i].kind = "Message" => down'[d][i].is_history)
<1> DEFINE Quiet(f) == f.kind # "ReadReceipt" /\ (f.kind = "Message" => f.is_history)
<1>1. ASSUME NEW more \in Seq(Frames), Answer(c, more), \A f \in InQueue(more) : Quiet(f)
      PROVE  \A d \in Clients :
               /\ \A f \in InQueue(down'[d]) :
                    f \in InQueue(down[d]) \/ (f.kind # "ReadReceipt")
               /\ \A i \in 1..Len(down'[d]) :
                    \/ i \in 1..Len(down[d]) /\ down'[d][i] = down[d][i]
                    \/ i > Len(down[d]) /\ (down'[d][i].kind = "Message" => down'[d][i].is_history)
  <2> HIDE DEF Quiet
  <2>1. \A d \in Clients :
           /\ InQueue(down'[d]) \subseteq InQueue(down[d]) \cup InQueue(more)
           /\ \A i \in 1..Len(down'[d]) :
                \/ i \in 1..Len(down[d]) /\ down'[d][i] = down[d][i]
                \/ i > Len(down[d]) /\ down'[d][i] \in InQueue(more)
    BY <1>1, AnswerAdds
  <2>2. \A f \in InQueue(more) : f.kind # "ReadReceipt" /\ (f.kind = "Message" => f.is_history)
    BY <1>1 DEF Quiet
  <2>3. QED
    BY <2>1, <2>2
<1>2. ASSUME NEW room
      PROVE  /\ History(room) \in Seq(Frames)
             /\ \A f \in InQueue(History(room)) : Quiet(f)
  <2>1. PICK q : q = History(room)
    OBVIOUS
  <2>2. q \in Seq(RowsOf(room)) /\ q \in Seq(Frames)
    BY <2>1, RowsAreFrames
  <2>3. \A f \in InQueue(q) : f \in RowsOf(room)
    BY <2>2, ElementOfSeq DEF InQueue
  <2>4. \A m : Quiet(Message(m, TRUE))
    BY DEF Message
  <2> HIDE DEF Quiet
  <2>5. \A f \in InQueue(q) : Quiet(f)
    BY <2>3, <2>4 DEF RowsOf
  <2>6. QED
    BY <2>1, <2>2, <2>5
<1>3. CASE Moves(c)
  <2>1. PICK room \in Rooms, names \in Seq(Rooms) \ {<<>>} :
               Answer(c, Append(History(room), RoomList(names)))
    BY <1>3 DEF Moves
  <2>2. PICK f \in Frames : f = RoomList(names)
    BY ListType
  <2>3. Quiet(f)
    BY <2>2 DEF RoomList
  <2>4. PICK more \in Seq(Frames) : more = Append(History(room), f)
    BY <1>2, AppendProperties
  <2>5. InQueue(more) \subseteq InQueue(History(room)) \cup {f}
    BY <1>2, <2>4, InAppended
  <2> HIDE DEF Quiet
  <2>6. \A g \in InQueue(more) : Quiet(g)
    BY <1>2, <2>3, <2>5
  <2>7. QED
    BY <1>1, <2>1, <2>2, <2>4, <2>6
<1>4. CASE \E room \in Rooms, names \in Seq(Rooms) \ {<<>>} :
             Answer(c, History(active[c]) \o <<RoomList(names), SetActiveRoom(room)>>)
  <2>1. PICK room \in Rooms, names \in Seq(Rooms) \ {<<>>} :
               Answer(c, History(active[c]) \o <<RoomList(names), SetActiveRoom(room)>>)
    BY <1>4
  <2>2. PICK f \in Frames, g \in Frames : f = RoomList(names) /\ g = SetActiveRoom(room)
    <3>1. SetActiveRoom(room) \in Frames
      BY DEF SetActiveRoom, Frames
    <3>2. QED
      BY <3>1, ListType
  <2>3. Quiet(f) /\ Quiet(g)
    BY <2>2 DEF RoomList, SetActiveRoom
  <2>4. PICK tl \in Seq(Frames) : tl = <<f, g>> /\ InQueue(tl) \subseteq {f, g}
    <3>1. PICK q : q = <<f, g>>
      OBVIOUS
    <3>2. q \in Seq(Frames)
      BY <3>1
    <3>3. InQueue(q) \subseteq {f, g}
      BY <3>1 DEF InQueue
    <3>4. QED
      BY <3>1, <3>2, <3>3
  <2>5. PICK more \in Seq(Frames) : more = History(active[c]) \o tl
    BY <1>2, ConcatProperties
  <2>6. InQueue(more) \subseteq InQueue(History(active[c])) \cup InQueue(tl)
    BY <1>2, <2>5, InExtended
  <2> HIDE DEF Quiet
  <2>7. \A h \in InQueue(more) : Quiet(h)
    BY <1>2, <2>3, <2>4, <2>6
  <2>8. QED
    BY <1>1, <2>1, <2>2, <2>4, <2>5, <2>7
<1>5. QED
  BY <1>3, <1>4

(* A handler takes a line off its queue.                                   *)
LEMMA LineTaken ==
  ASSUME TypeOK, NEW c \in Clients, NEW cmd, TakeLine(c, cmd)
  PROVE  \A d \in Clients : InQueue(up'[d]) \subseteq InQueue(up[d])
<1> USE Typing
<1>1. InQueue(Tail(up[c])) \subseteq InQueue(up[c])
  BY InAdvanced DEF TakeLine
<1>2. up' = [up EXCEPT ![c] = Tail(up[c])]
  BY DEF TakeLine
<1>3. QED
  BY <1>1, <1>2

LEMMA ViewKept ==
  ASSUME UNCHANGED view
  PROVE  UNCHANGED <<current, rooms, messages, flagged, unread_rooms, read_message_ids, shown,
                     entry, replayed>>
BY DEF view, reading

LEMMA TaskTells ==
  ASSUME TypeInv, NEW c \in Clients, TaskStep(c)
  PROVE  ServerTells
<1>0. TypeOK
  BY DEF TypeInv
<1>1. CASE Greet(c)
  <2>1. UNCHANGED <<view, posted, up>>
    BY <1>1, GreetType
  <2>2. \A d \in Clients : \A f \in InQueue(down'[d]) :
          f \in InQueue(down[d]) \/ (f.kind # "ReadReceipt")
    BY <1>0, <1>1, GreetType, MovesAdd
  <2>3. Kept
    BY <2>1, ViewKept DEF Kept, MessageIds
  <2>4. QED
    BY <2>1, <2>2, <2>3, ViewKept DEF ServerTells
<1>2. CASE handle_join_command(c) \/ handle_leave_command(c)
  <2>0. UNCHANGED <<view, posted>>
    BY <1>2, JoinType, LeaveType DEF TakeLine
  <2>1. /\ TakeLine(c, "join") \/ TakeLine(c, "leave")
        /\ UNCHANGED down \/ Moves(c)
    BY <1>2, JoinType, LeaveType
  <2>2. \A d \in Clients : \A f \in InQueue(down'[d]) :
          f \in InQueue(down[d]) \/ (f.kind # "ReadReceipt")
    BY <1>0, <2>1, MovesAdd
  <2>3. Kept
    BY <2>0, ViewKept DEF Kept, MessageIds
  <2>4. UNCHANGED view /\ \A d \in Clients : InQueue(up'[d]) \subseteq InQueue(up[d])
    BY <1>0, <2>0, <2>1, LineTaken
  <2>5. QED
    BY <2>2, <2>3, <2>4, ViewKept DEF ServerTells
<1>3. CASE handle_switch_command(c)
  <2>1. UNCHANGED <<view, posted, down>> /\ TakeLine(c, "switch")
    BY <1>3, SwitchType
  <2>2. Kept
    BY <2>1, ViewKept DEF Kept, MessageIds
  <2>3. QED
    BY <1>0, <2>1, <2>2, LineTaken, ViewKept DEF ServerTells
<1>4. CASE handle_read_command(c)
  <2>1. UNCHANGED <<view, posted>> /\ TakeLine(c, "read")
    BY <1>4, ReadType
  <2>2. Kept
    BY <2>1, ViewKept DEF Kept, MessageIds
  <2>3. PICK line \in InQueue(up[c]) : line = Head(up[c])
    BY <1>0, <2>1, TakeLineType DEF InQueue
  <2>4. PICK frame : frame = ReadReceipt(c, line.ids)
    OBVIOUS
  <2>5. frame.by = c /\ frame.ids = line.ids
    BY <2>4 DEF ReadReceipt
  <2>6. Broadcast(line.room, frame)
    BY <1>4, <2>3, <2>4 DEF handle_read_command
  <2>7. \A d \in Clients : \A f \in InQueue(down'[d]) : f \in InQueue(down[d]) \/ f = frame
    BY <1>0, <2>6, BroadcastAdds
  <2>8. QED
    BY <1>0, <2>1, <2>2, <2>3, <2>5, <2>7, LineTaken, ViewKept DEF ServerTells
<1>5. ASSUME NEW cmd \in {"text", "media"}, Post(c, cmd)
      PROVE  ServerTells
  <2>1. PICK frame : frame = Message(Len(posted) + 1, FALSE)
    OBVIOUS
  <2>2. frame.kind # "ReadReceipt"
    BY <2>1 DEF Message
  <2>3. TakeLine(c, cmd) /\ Broadcast(active[c], frame)
    BY <1>5, <2>1 DEF Post
  <2>4. \A d \in Clients : \A f \in InQueue(down'[d]) : f \in InQueue(down[d]) \/ f = frame
    BY <1>0, <2>3, BroadcastAdds
  <2>5. UNCHANGED view
    BY <2>3 DEF TakeLine
  <2>6. Kept
    BY <1>5, <2>5, PostType, ViewKept DEF Kept
  <2>7. QED
    BY <1>0, <2>2, <2>3, <2>4, <2>5, <2>6, LineTaken, ViewKept DEF ServerTells
<1>6. QED
  BY <1>1, <1>2, <1>3, <1>4, <1>5 DEF TaskStep

LEMMA ShownStep ==
  ASSUME TypeInv, ReadMeansShown, [Next]_vars
  PROVE  ReadMeansShown'
<1>0. TypeOK
  BY DEF TypeInv
<1>1. ASSUME NEW c \in Clients, UserStep(c) \/ handle_server_message(c)
      PROVE  ReadMeansShown'
  BY <1>0, <1>1, UserTells, IngestTells, TellsShown
<1>2. ASSUME NEW c \in Clients, TaskStep(c)
      PROVE  ReadMeansShown'
  BY <1>0, <1>2, TaskTells, PassedOnShown
<1>3. CASE UNCHANGED vars
  <2>1. UNCHANGED <<view, up, down, posted>>
    BY <1>3 DEF vars, server
  <2>2. Kept
    BY <2>1, ViewKept DEF Kept, MessageIds
  <2>3. ServerTells
    BY <2>1, <2>2, ViewKept DEF ServerTells
  <2>4. QED
    BY <1>0, <2>3, PassedOnShown
<1>4. QED
  BY <1>1, <1>2, <1>3 DEF Next

LEMMA InitShown == Init => ReadMeansShown
<1> SUFFICES ASSUME Init
             PROVE  ReadMeansShown
  OBVIOUS
<1>1. \A c \in Clients : up[c] = <<>> /\ down[c] = <<>> /\ read_message_ids[c] = {}
  BY DEF Init
<1>2. InQueue(<<>>) = {}
  <2>1. PICK q : q = <<>>
    OBVIOUS
  <2>2. InQueue(q) = {}
    BY <2>1 DEF InQueue
  <2>3. QED
    BY <2>1, <2>2
<1>3. QED
  BY <1>1, <1>2, ShownByQueue

(* Whatever a /read line, a receipt on its way or a client's list of read  *)
(* messages names was on its reader's screen, or is the client's own and   *)
(* came back to it in a history: mark_all_read and the receipt of a live   *)
(* text go with the screen, and nobody else makes up a receipt.            *)
THEOREM ReceiptsAreTrue == Spec => []ReadMeansShown
<1>1. Init => TypeInv /\ ReadMeansShown
  BY InitType, InitShown
<1>2. TypeInv /\ ReadMeansShown /\ [Next]_vars => (TypeInv /\ ReadMeansShown)'
  BY TypeStep, ShownStep
<1>3. QED
  BY <1>1, <1>2, PTL DEF Spec

-----------------------------------------------------------------------------
(* The unread marks.                                                       *)

Live(f) == f.kind = "Message" /\ ~f.is_history

(* UnreadIsMarked of one client, given what it holds, flags, marks and has *)
(* shown, the room on its screen and how it entered the rooms; the room of *)
(* every flagged message is marked, too.                                   *)
Marked(c, held, flags, marks, seen, room, how) ==
  /\ \A x \in held : ~x.is_history /\ <<c, x.id>> \notin seen => x.id \in flags
  /\ \A m \in flags : RoomOf(m) \in marks /\ (how[RoomOf(m)] # "moved" => <<c, m>> \notin seen)
  /\ \A r \in marks : how[r] # "moved" => r # room /\ flags \cap In(r) # {}

(* A message that arrives live is new: the client has neither had it on    *)
(* its screen nor holds it, and no frame before it brings it.              *)
Fresh(c, q, held, seen) ==
  \A j \in 1..Len(q) : Live(q[j]) =>
    /\ q[j].id \notin Ids(held) /\ <<c, q[j].id>> \notin seen
    /\ \A i \in 1..(j - 1) : q[i].kind = "Message" => q[i].id # q[j].id

MarksInv ==
  \A c \in Clients :
    /\ Marked(c, messages[c], flagged[c], unread_rooms[c], shown, current[c], entry[c])
    /\ Fresh(c, down[c], messages[c], shown)

LEMMA MarksImply == TypeOK /\ MarksInv => UnreadIsMarked
BY DEF MarksInv, Marked, UnreadIsMarked

(* What is flagged in the room on the screen was put there by a room list. *)
LEMMA ScreenUnflagged ==
  ASSUME NEW c, NEW held, NEW flags, NEW marks, NEW seen, NEW room, NEW how,
         Marked(c, held, flags, marks, seen, room, how), how[room] # "moved"
  PROVE  \A m \in flags : RoomOf(m) # room
BY DEF Marked

Seen(c, held, room) == {<<c, m>> : m \in Ids(held) \cap In(room)}

(* A room opened and cleared.                                              *)
LEMMA OpenMarked ==
  ASSUME NEW c, NEW held \in SUBSET Held, NEW flags \in SUBSET MessageIds, NEW marks, NEW seen,
         NEW old, NEW how, Marked(c, held, flags, marks, seen, old, how),
         NEW room, NEW how2, \A r \in Rooms \ {room} : how2[r] = how[r],
         NEW more \in SUBSET Held, \A x \in more : RoomOf(x.id) = room,
         marks \subseteq Rooms, TypeOK
  PROVE  Marked(c, held \cup more, flags \ In(room), marks \ {room},
                seen \cup Seen(c, held \cup more, room), room, how2)
<1> DEFINE flags2 == flags \ In(room)
           marks2 == marks \ {room}
           seen2 == seen \cup Seen(c, held \cup more, room)
<1>0. \A m \in MessageIds : m \in In(room) <=> RoomOf(m) = room
  BY DEF In, MessageIds
<1>1. ASSUME NEW x \in held \cup more, ~x.is_history, <<c, x.id>> \notin seen2
      PROVE  x.id \in flags2
  <2>1. x.id \in Ids(held \cup more) /\ x.id \in MessageIds
    BY DEF Ids, Held
  <2>2. x.id \notin In(room)
    BY <1>1, <2>1 DEF Seen
  <2>3. x \in held
    BY <1>0, <2>1, <2>2
  <2>4. QED
    BY <1>1, <2>2, <2>3 DEF Marked
<1>2. ASSUME NEW m \in flags2
      PROVE  RoomOf(m) \in marks2 /\ (how2[RoomOf(m)] # "moved" => <<c, m>> \notin seen2)
  <2>1. m \in flags /\ m \notin In(room) /\ RoomOf(m) # room
    BY <1>0
  <2>2. RoomOf(m) \in marks /\ (how[RoomOf(m)] # "moved" => <<c, m>> \notin seen)
    BY <2>1 DEF Marked
  <2>3. how2[RoomOf(m)] = how[RoomOf(m)]
    BY <2>1, <2>2
  <2>4. <<c, m>> \notin Seen(c, held \cup more, room)
    BY <2>1 DEF Seen
  <2>5. QED
    BY <2>1, <2>2, <2>3, <2>4
<1>3. ASSUME NEW r \in marks2, how2[r] # "moved"
      PROVE  r # room /\ flags2 \cap In(r) # {}
  <2>1. r \in marks /\ r # room /\ how[r] # "moved"
    BY <1>3
  <2>2. PICK m \in flags : m \in In(r)
    BY <2>1 DEF Marked
  <2>3. m \notin In(room)
    BY <2>1, <2>2 DEF In
  <2>4. QED
    BY <2>1, <2>2, <2>3
<1>4. QED
  BY <1>1, <1>2, <1>3 DEF Marked

(* A frame that brings nothing unread, whatever the screen shows then.     *)
LEMMA SeenMarked ==
  ASSUME NEW c, NEW held \in SUBSET Held, NEW flags \in SUBSET MessageIds, NEW marks, NEW seen,
         NEW old, NEW how, Marked(c, held, flags, marks, seen, old, how),
         NEW room, NEW how2, \A r \in Rooms \ {room} : how2[r] = how[r],
         (room = old /\ how2[room] = how[room]) \/ how2[room] = "moved",
         NEW more \in SUBSET Held, \A x \in more : x.is_history,
         marks \subseteq Rooms
  PROVE  Marked(c, held \cup more, flags, marks,
                seen \cup Seen(c, held \cup more, room), room, how2)
<1> DEFINE seen2 == seen \cup Seen(c, held \cup more, room)
<1>1. ASSUME NEW x \in held \cup more, ~x.is_history, <<c, x.id>> \notin seen2
      PROVE  x.id \in flags
  BY <1>1 DEF Marked
<1>2. ASSUME NEW m \in flags
      PROVE  RoomOf(m) \in marks /\ (how2[RoomOf(m)] # "moved" => <<c, m>> \notin seen2)
  <2>1. RoomOf(m) \in marks /\ (how[RoomOf(m)] # "moved" => <<c, m>> \notin seen)
    BY DEF Marked
  <2>2. ASSUME how2[RoomOf(m)] # "moved"
        PROVE  RoomOf(m) # room /\ how[RoomOf(m)] # "moved"
    BY <2>1, <2>2 DEF Marked
  <2>3. RoomOf(m) # room => <<c, m>> \notin Seen(c, held \cup more, room)
    BY DEF Seen, In
  <2>4. QED
    BY <2>1, <2>2, <2>3
<1>3. ASSUME NEW r \in marks, how2[r] # "moved"
      PROVE  r # room /\ flags \cap In(r) # {}
  BY <1>3 DEF Marked
<1>4. QED
  BY <1>1, <1>2, <1>3 DEF Marked

(* A live message for another room.                                        *)
LEMMA FlagMarked ==
  ASSUME NEW c, NEW held \in SUBSET Held, NEW flags \in SUBSET MessageIds, NEW marks, NEW seen,
         NEW room, NEW how, Marked(c, held, flags, marks, seen, room, how),
         NEW x \in Held, RoomOf(x.id) # room, <<c, x.id>> \notin seen,
         marks \subseteq Rooms
  PROVE  Marked(c, held \cup {x}, flags \cup {x.id}, marks \cup {RoomOf(x.id)},
                seen \cup Seen(c, held \cup {x}, room), room, how)
<1> DEFINE flags2 == flags \cup {x.id}
           marks2 == marks \cup {RoomOf(x.id)}
           seen2 == seen \cup Seen(c, held \cup {x}, room)
<1>1. ASSUME NEW y \in held \cup {x}, ~y.is_history, <<c, y.id>> \notin seen2
      PROVE  y.id \in flags2
  BY <1>1 DEF Marked
<1>2. ASSUME NEW m \in flags2
      PROVE  RoomOf(m) \in marks2 /\ (how[RoomOf(m)] # "moved" => <<c, m>> \notin seen2)
  <2>1. RoomOf(m) # room => <<c, m>> \notin Seen(c, held \cup {x}, room)
    BY DEF Seen, In
  <2>2. CASE m = x.id
    BY <2>1, <2>2
  <2>3. CASE m \in flags
    <3>1. RoomOf(m) \in marks /\ (how[RoomOf(m)] # "moved" => <<c, m>> \notin seen)
      BY <2>3 DEF Marked
    <3>2. how[RoomOf(m)] # "moved" => RoomOf(m) # room
      BY <3>1 DEF Marked
    <3>3. QED
      BY <2>1, <3>1, <3>2
  <2>4. QED
    BY <2>2, <2>3
<1>3. ASSUME NEW r \in marks2, how[r] # "moved"
      PROVE  r # room /\ flags2 \cap In(r) # {}
  <2>1. CASE r = RoomOf(x.id)
    <3>1. x.id \in In(r)
      BY <2>1 DEF In, Held, MessageIds
    <3>2. QED
      BY <2>1, <3>1
  <2>2. CASE r \in marks
    BY <1>3, <2>2 DEF Marked
  <2>3. QED
    BY <2>1, <2>2
<1>4. QED
  BY <1>1, <1>2, <1>3 DEF Marked

(* A step of one client leaves what the others hold, flag and have shown.  *)
OthersKept(c) ==
  \A d \in Clients \ {c} :
    /\ messages'[d] = messages[d] /\ flagged'[d] = flagged[d]
    /\ unread_rooms'[d] = unread_rooms[d] /\ current'[d] = current[d] /\ entry'[d] = entry[d]
    /\ down'[d] = down[d]
    /\ \A m : <<d, m>> \in shown' => <<d, m>> \in shown

LEMMA MarksByClient ==
  ASSUME TypeOK, MarksInv, NEW c \in Clients, UNCHANGED posted, shown \subseteq shown',
         OthersKept(c),
         Marked(c, messages'[c], flagged'[c], unread_rooms'[c], shown', current'[c], entry'[c]),
         Fresh(c, down'[c], messages'[c], shown')
  PROVE  MarksInv'
<1>1. ASSUME NEW d \in Clients
      PROVE  /\ Marked(d, messages'[d], flagged'[d], unread_rooms'[d], shown', current'[d],
                       entry'[d])
             /\ Fresh(d, down'[d], messages'[d], shown')
  <2>1. CASE d = c
    BY <2>1
  <2>2. CASE d # c
    <3>1. /\ Marked(d, messages[d], flagged[d], unread_rooms[d], shown, current[d], entry[d])
          /\ Fresh(d, down[d], messages[d], shown)
      BY DEF MarksInv
    <3>2. \A m : <<d, m>> \in shown' <=> <<d, m>> \in shown
      BY <2>2 DEF OthersKept
    <3>3. Marked(d, messages[d], flagged[d], unread_rooms[d], shown', current[d], entry[d])
      BY <3>1, <3>2 DEF Marked
    <3>4. Fresh(d, down[d], messages[d], shown')
      BY <3>1, <3>2 DEF Fresh
    <3>5. QED
      BY <2>2, <3>3, <3>4 DEF OthersKept
  <2>3. QED
    BY <2>1, <2>2
<1>2. \A m : RoomOf(m)' = RoomOf(m)
  BY DEF RoomOf
<1>3. \A r : In(r)' = In(r)
  BY DEF In, RoomOf
<1>4. ASSUME NEW d \in Clients
      PROVE  Marked(d, messages[d], flagged[d], unread_rooms[d], shown, current[d], entry[d])'
  BY <1>1, <1>2, <1>3 DEF Marked
<1>5. ASSUME NEW d \in Clients
      PROVE  Fresh(d, down[d], messages[d], shown)'
  BY <1>1 DEF Fresh, Ids, Live
<1>6. QED
  BY <1>4, <1>5 DEF MarksInv

(* The room a client puts on the screen, and what it thereby has shown.    *)
LEMMA ScreenGives ==
  ASSUME TypeOK, NEW c \in Clients, NEW room, NEW held, Screen(c, room, held)
  PROVE  /\ current'[c] = room /\ messages'[c] = held
         /\ shown' = shown \cup Seen(c, held, room)
         /\ \A d \in Clients \ {c} :
              /\ current'[d] = current[d] /\ messages'[d] = messages[d]
              /\ \A m : <<d, m>> \in shown' => <<d, m>> \in shown
BY Typing DEF Screen, Seen

LEMMA ClearGives ==
  ASSUME TypeOK, NEW c \in Clients, NEW room, clear_room_read_state(c, room)
  PROVE  /\ flagged'[c] = flagged[c] \ In(room) /\ unread_rooms'[c] = unread_rooms[c] \ {room}
         /\ \A d \in Clients \ {c} :
              flagged'[d] = flagged[d] /\ unread_rooms'[d] = unread_rooms[d]
BY Typing DEF clear_room_read_state

LEMMA EntersGives ==
  ASSUME TypeOK, NEW c \in Clients, NEW room, NEW how, Enters(c, room, how)
  PROVE  /\ \A r \in Rooms \ {room} : entry'[c][r] = entry[c][r]
         /\ room \in Rooms => entry'[c][room] = how
         /\ \A d \in Clients \ {c} : entry'[d] = entry[d]
BY Typing DEF Enters, Marks

(* A frame read off the queue leaves the later ones behind it.             *)
LEMMA FreshAfter ==
  ASSUME TypeOK, NEW c \in Clients, NEW q \in Seq(Frames), NEW held, NEW seen,
         Fresh(c, q, held, seen), q # <<>>
  PROVE  /\ Fresh(c, Tail(q), held, seen)
         /\ Head(q).kind = "Message" =>
              \A j \in 1..Len(Tail(q)) : Live(Tail(q)[j]) => Tail(q)[j].id # Head(q).id
         /\ Live(Head(q)) => Head(q).id \notin Ids(held) /\ <<c, Head(q).id>> \notin seen
<1>1. /\ Head(q) = q[1] /\ 1 \in 1..Len(q) /\ Len(q) \in Nat
      /\ Len(Tail(q)) = Len(q) - 1
      /\ \A i \in 1..Len(Tail(q)) : i + 1 \in 1..Len(q) /\ Tail(q)[i] = q[i + 1]
  BY QueueAdvances
<1>2. PICK p, n : p = Tail(q) /\ n = Len(q)
  OBVIOUS
<1>3. n \in Nat /\ n >= 1 /\ Len(p) = n - 1
  <2>1. n \in Nat /\ 1 \in 1..n
    BY <1>1, <1>2
  <2>2. Len(p) = n - 1
    BY <1>1, <1>2
  <2>3. QED
    BY <2>1, <2>2
<1>4. \A i \in 1..(n - 1) : i + 1 \in 1..n /\ p[i] = q[i + 1]
  BY <1>1, <1>2, <1>3
<1>5. Fresh(c, p, held, seen)
  <2>1. ASSUME NEW j \in 1..(n - 1), Live(p[j])
        PROVE  /\ p[j].id \notin Ids(held) /\ <<c, p[j].id>> \notin seen
               /\ \A i \in 1..(j - 1) : p[i].kind = "Message" => p[i].id # p[j].id
    <3>1. j + 1 \in 1..n /\ Live(q[j + 1]) /\ p[j] = q[j + 1]
      BY <1>3, <1>4, <2>1
    <3>2. \A i \in 1..((j + 1) - 1) : q[i].kind = "Message" => q[i].id # q[j + 1].id
      BY <1>2, <1>3, <3>1 DEF Fresh
    <3>3. ASSUME NEW i \in 1..(j - 1)
          PROVE  p[i] = q[i + 1] /\ i + 1 \in 1..((j + 1) - 1)
      <4>1. i \in 1..(n - 1) /\ i + 1 \in 1..((j + 1) - 1)
        BY <1>3
      <4>2. QED
        BY <1>3, <1>4, <4>1
    <3>4. \A i \in 1..(j - 1) : p[i].kind = "Message" => p[i].id # p[j].id
      BY <3>1, <3>2, <3>3
    <3>5. QED
      BY <1>2, <1>3, <3>1, <3>4 DEF Fresh
  <2>2. QED
    BY <1>3, <2>1 DEF Fresh
<1>6. ASSUME q[1].kind = "Message", NEW j \in 1..(n - 1), Live(p[j])
      PROVE  p[j].id # q[1].id
  <2>1. j + 1 \in 1..n /\ p[j] = q[j + 1] /\ 1 \in 1..((j + 1) - 1)
    BY <1>3, <1>4
  <2>2. QED
    BY <1>2, <1>3, <1>6, <2>1 DEF Fresh
<1>7. Live(q[1]) => q[1].id \notin Ids(held) /\ <<c, q[1].id>> \notin seen
  BY <1>1 DEF Fresh
<1>8. QED
  BY <1>1, <1>2, <1>3, <1>5, <1>6, <1>7

(* What the screen shows is held, and so no live message to come.          *)
LEMMA FreshShown ==
  ASSUME NEW c, NEW q, NEW held, NEW seen, Fresh(c, q, held, seen),
         NEW held2, NEW room, \A j \in 1..Len(q) : Live(q[j]) => q[j].id \notin Ids(held2)
  PROVE  Fresh(c, q, held2, seen \cup Seen(c, held2, room))
BY DEF Fresh, Seen

(* A client opens a room and clears it, with or without a receipt.         *)
LEMMA OpenKeepsMarks ==
  ASSUME TypeOK, MarksInv, NEW c \in Clients, NEW room \in Rooms, UNCHANGED <<posted, down>>,
         Screen(c, room, messages[c]), clear_room_read_state(c, room),
         NEW how, Enters(c, room, how)
  PROVE  MarksInv'
<1> USE Typing
<1>1. /\ Marked(c, messages[c], flagged[c], unread_rooms[c], shown, current[c], entry[c])
      /\ Fresh(c, down[c], messages[c], shown)
  BY DEF MarksInv
<1>2. \A r \in Rooms \ {room} : entry'[c][r] = entry[c][r]
  BY EntersGives
<1>3. Marked(c, messages[c] \cup {}, flagged[c] \ In(room), unread_rooms[c] \ {room},
             shown \cup Seen(c, messages[c] \cup {}, room), room, entry'[c])
  <2>1. /\ messages[c] \in SUBSET Held /\ flagged[c] \in SUBSET MessageIds
        /\ unread_rooms[c] \subseteq Rooms
    OBVIOUS
  <2>2. PICK none \in SUBSET Held : none = {}
    OBVIOUS
  <2>3. \A x \in none : RoomOf(x.id) = room
    BY <2>2
  <2>4. Marked(c, messages[c] \cup none, flagged[c] \ In(room), unread_rooms[c] \ {room},
               shown \cup Seen(c, messages[c] \cup none, room), room, entry'[c])
    BY <1>1, <1>2, <2>1, <2>3, OpenMarked
  <2>5. QED
    BY <2>2, <2>4
<1>4. /\ current'[c] = room /\ messages'[c] = messages[c]
      /\ shown' = shown \cup Seen(c, messages[c], room)
  BY ScreenGives
<1>5. flagged'[c] = flagged[c] \ In(room) /\ unread_rooms'[c] = unread_rooms[c] \ {room}
  BY ClearGives
<1>6. messages[c] \cup {} = messages[c]
  OBVIOUS
<1>7. Marked(c, messages'[c], flagged'[c], unread_rooms'[c], shown', current'[c], entry'[c])
  BY <1>3, <1>4, <1>5, <1>6
<1>8. Fresh(c, down'[c], messages'[c], shown')
  <2>1. \A j \in 1..Len(down[c]) : Live(down[c][j]) => down[c][j].id \notin Ids(messages[c])
    BY <1>1 DEF Fresh
  <2>2. Fresh(c, down[c], messages[c], shown \cup Seen(c, messages[c], room))
    BY <1>1, <2>1, FreshShown
  <2>3. QED
    BY <1>4, <2>2
<1>9. OthersKept(c)
  BY ScreenGives, ClearGives, EntersGives DEF OthersKept
<1>10. QED
  BY <1>4, <1>7, <1>8, <1>9, MarksByClient

LEMMA UserMarks ==
  ASSUME TypeOK, MarksInv, NEW c \in Clients, UserStep(c)
  PROVE  MarksInv'
<1> USE Typing
<1>0. /\ rooms[c] \in Seq(Rooms) /\ current[c] \in Rooms /\ messages[c] \in SUBSET Held
  BY RoomsAreNames
<1>1. ASSUME NEW room \in Rooms, NEW after, UNCHANGED <<posted, down>>,
             Screen(c, room, messages[c]), mark_all_read(c, room, after)
      PROVE  MarksInv'
  BY <1>1, OpenKeepsMarks DEF mark_all_read
<1>2. ASSUME NEW room \in Rooms, select_room(c, room)
      PROVE  MarksInv'
  BY <1>1, <1>2 DEF select_room, server
<1>3. ASSUME NEW room \in Targets, cmd_join(c, room)
      PROVE  MarksInv'
  BY <1>1, <1>3, ReceiptsAssumption DEF cmd_join, server
<1>4. CASE cmd_leave(c)
  <2>1. PICK left : left = Without(rooms[c], current[c])
    OBVIOUS
  <2>2. PICK room : room = Head(left)
    OBVIOUS
  <2>3. left \in Seq(Rooms) /\ left # <<>>
    BY <1>0, <1>4, <2>1, WithoutType DEF cmd_leave
  <2>4. room \in Rooms
    BY <2>2, <2>3, FirstIsIn
  <2>5. /\ Screen(c, room, messages[c]) /\ clear_room_read_state(c, room)
        /\ Enters(c, room, "left") /\ UNCHANGED <<posted, down>>
    BY <1>4, <2>1, <2>2 DEF cmd_leave, server
  <2>6. QED
    BY <2>4, <2>5, OpenKeepsMarks
<1>5. CASE SendText(c)
  BY <1>0, <1>1, <1>5 DEF SendText, server
<1>6. CASE SendMedia(c)
  <2>1. UNCHANGED <<view, down, posted>>
    BY <1>6 DEF SendMedia, server
  <2>2. UNCHANGED <<messages, flagged, unread_rooms, shown, current, entry, down, posted>>
    BY <2>1, ViewKept
  <2>3. QED
    BY <2>2 DEF MarksInv, Marked, Fresh, Live, Ids, RoomOf, In
<1>7. CASE cmd_clear(c)
  <2>1. PICK room \in Rooms : room = current[c]
    BY <1>0
  <2>2. PICK held : held = {x \in messages[c] : RoomOf(x.id) # room}
    OBVIOUS
  <2>3. /\ Screen(c, room, held) /\ UNCHANGED <<unread_rooms, down, posted, entry>>
        /\ flagged' = [flagged EXCEPT ![c] = flagged[c] \ In(room)]
    BY <1>7, <2>1, <2>2 DEF cmd_clear, server
  <2>4. /\ Marked(c, messages[c], flagged[c], unread_rooms[c], shown, room, entry[c])
        /\ Fresh(c, down[c], messages[c], shown)
    BY <2>1 DEF MarksInv
  <2>5. Seen(c, held, room) = {} /\ Ids(held) \subseteq Ids(messages[c])
    BY <2>2 DEF Seen, Ids, In
  <2>6. /\ current'[c] = room /\ messages'[c] = held /\ shown' = shown
        /\ flagged'[c] = flagged[c] \ In(room)
    <3>1. /\ current'[c] = room /\ messages'[c] = held
          /\ shown' = shown \cup Seen(c, held, room)
      BY <2>3, ScreenGives
    <3>2. flagged'[c] = flagged[c] \ In(room)
      BY <2>3
    <3>3. QED
      BY <2>5, <3>1, <3>2
  <2>7. Marked(c, held, flagged[c] \ In(room), unread_rooms[c], shown, room, entry[c])
    <3>1. ASSUME NEW x \in held, ~x.is_history, <<c, x.id>> \notin shown
          PROVE  x.id \in flagged[c] \ In(room)
      BY <2>2, <2>4, <3>1 DEF Marked, In
    <3>2. ASSUME NEW r \in unread_rooms[c], entry[c][r] # "moved"
          PROVE  r # room /\ (flagged[c] \ In(room)) \cap In(r) # {}
      <4>1. r # room
        BY <2>4, <3>2 DEF Marked
      <4>2. PICK m \in flagged[c] : m \in In(r)
        BY <2>4, <3>2 DEF Marked
      <4>3. m \notin In(room)
        BY <4>1, <4>2 DEF In
      <4>4. QED
        BY <4>1, <4>2, <4>3
    <3>3. \A m \in flagged[c] \ In(room) :
            RoomOf(m) \in unread_rooms[c] /\ (entry[c][RoomOf(m)] # "moved" => <<c, m>> \notin shown)
      BY <2>4 DEF Marked
    <3>4. QED
      BY <3>1, <3>2, <3>3 DEF Marked
  <2>8. Fresh(c, down[c], held, shown)
    BY <2>4, <2>5 DEF Fresh
  <2>9. OthersKept(c)
    BY <2>3, ScreenGives DEF OthersKept
  <2>10. QED
    BY <2>3, <2>6, <2>7, <2>8, <2>9, MarksByClient
<1>8. QED
  BY <1>2, <1>3, <1>4, <1>5, <1>6, <1>7 DEF UserStep

(* A message arrives: on the screen, where it clears the room; live in     *)
(* another room, where it is flagged; or as part of a history.             *)
LEMMA MessageMarks ==
  ASSUME TypeOK, MarksInv, NEW c \in Clients, NEW f \in Frames, f.kind = "Message",
         UNCHANGED posted, down[c] # <<>>, f = Head(down[c]),
         down' = [down EXCEPT ![c] = Tail(down[c])], IngestMessage(c, f.id, f.is_history)
  PROVE  MarksInv'
<1> USE Typing
<1>0. PICK cur \in Rooms : cur = current[c]
  OBVIOUS
<1>1. PICK x \in Held : x = [id |-> f.id, is_history |-> f.is_history]
                        /\ x.id = f.id /\ x.is_history = f.is_history
  <2>1. f.id \in MessageIds /\ f.is_history \in BOOLEAN
    BY DEF Frames
  <2>2. PICK y : y = [id |-> f.id, is_history |-> f.is_history]
    OBVIOUS
  <2>3. y \in Held /\ y.id = f.id /\ y.is_history = f.is_history
    BY <2>1, <2>2 DEF Held
  <2>4. QED
    BY <2>2, <2>3
<1>2. PICK q \in Seq(Frames) : q = down[c]
  OBVIOUS
<1>3. /\ Marked(c, messages[c], flagged[c], unread_rooms[c], shown, cur, entry[c])
      /\ Fresh(c, q, messages[c], shown)
  BY <1>0, <1>2 DEF MarksInv
<1>4. /\ Fresh(c, Tail(q), messages[c], shown)
      /\ \A j \in 1..Len(Tail(q)) : Live(Tail(q)[j]) => Tail(q)[j].id # x.id
      /\ ~x.is_history => x.id \notin Ids(messages[c]) /\ <<c, x.id>> \notin shown
  <2>1. q # <<>> /\ f = Head(q)
    BY <1>2
  <2>2. /\ Fresh(c, Tail(q), messages[c], shown)
        /\ Head(q).kind = "Message" =>
             \A j \in 1..Len(Tail(q)) : Live(Tail(q)[j]) => Tail(q)[j].id # Head(q).id
        /\ Live(Head(q)) => Head(q).id \notin Ids(messages[c]) /\ <<c, Head(q).id>> \notin shown
    BY <1>2, <1>3, <2>1, FreshAfter
  <2>3. ~x.is_history => Live(f)
    BY <1>1 DEF Live
  <2>4. QED
    BY <1>1, <2>1, <2>2, <2>3
<1>5. PICK held \in SUBSET Held : held = messages[c] \cup {x}
  OBVIOUS
<1>6. Screen(c, cur, held)
  BY <1>0, <1>1, <1>5 DEF IngestMessage
<1>7. current'[c] = cur /\ messages'[c] = held /\ shown' = shown \cup Seen(c, held, cur)
  BY <1>6, ScreenGives
<1>8. Fresh(c, down'[c], messages'[c], shown')
  <2>1. PICK p : p = Tail(q)
    OBVIOUS
  <2>2. \A j \in 1..Len(p) : Live(p[j]) => p[j].id \notin Ids(messages[c]) /\ p[j].id # x.id
    BY <1>4, <2>1 DEF Fresh
  <2>3. \A j \in 1..Len(p) : Live(p[j]) => p[j].id \notin Ids(held)
    BY <1>5, <2>2 DEF Ids
  <2>4. Fresh(c, p, held, shown \cup Seen(c, held, cur))
    BY <1>4, <2>1, <2>3, FreshShown
  <2>5. down'[c] = p
    BY <1>2, <2>1
  <2>6. QED
    BY <1>7, <2>4, <2>5
<1>9. shown \subseteq shown'
  BY <1>7
<1>10. PICK room \in Rooms : room = RoomOf(x.id)
  BY <1>1, RoomOfType DEF Held
<1>11. flagged[c] \in SUBSET MessageIds /\ unread_rooms[c] \subseteq Rooms
       /\ messages[c] \in SUBSET Held
  OBVIOUS
<1>12. CASE /\ room = cur /\ ~x.is_history
            /\ clear_room_read_state(c, room)
            /\ Enters(c, room, "left") \/ UNCHANGED entry
  <2>1. /\ flagged'[c] = flagged[c] \ In(cur) /\ unread_rooms'[c] = unread_rooms[c] \ {cur}
        /\ \A d \in Clients \ {c} : flagged'[d] = flagged[d] /\ unread_rooms'[d] = unread_rooms[d]
    BY <1>12, ClearGives
  <2>2. (\A r \in Rooms \ {cur} : entry'[c][r] = entry[c][r])
        /\ \A d \in Clients \ {c} : entry'[d] = entry[d]
    BY <1>12, EntersGives
  <2>3. PICK more \in SUBSET Held : more = {x}
    OBVIOUS
  <2>4. \A y \in more : RoomOf(y.id) = cur
    BY <1>10, <1>12, <2>3
  <2>5. Marked(c, messages[c] \cup more, flagged[c] \ In(cur), unread_rooms[c] \ {cur},
               shown \cup Seen(c, messages[c] \cup more, cur), cur, entry'[c])
    <3>1. PICK how2 : how2 = entry'[c]
      OBVIOUS
    <3>2. \A r \in Rooms \ {cur} : how2[r] = entry[c][r]
      BY <2>2, <3>1
    <3>3. Marked(c, messages[c] \cup more, flagged[c] \ In(cur), unread_rooms[c] \ {cur},
                 shown \cup Seen(c, messages[c] \cup more, cur), cur, how2)
      BY <1>3, <1>11, <2>4, <3>2, OpenMarked
    <3>4. QED
      BY <3>1, <3>3
  <2>6. Marked(c, messages'[c], flagged'[c], unread_rooms'[c], shown', current'[c], entry'[c])
    BY <1>5, <1>7, <2>1, <2>3, <2>5
  <2>7. OthersKept(c)
    BY <1>6, <2>1, <2>2, ScreenGives DEF OthersKept
  <2>8. QED
    BY <1>8, <1>9, <2>6, <2>7, MarksByClient
<1>13. CASE /\ room # cur /\ ~x.is_history
            /\ flagged' = [flagged EXCEPT ![c] = flagged[c] \cup {x.id}]
            /\ unread_rooms' = [unread_rooms EXCEPT ![c] = unread_rooms[c] \cup {room}]
            /\ UNCHANGED entry
  <2>1. /\ flagged'[c] = flagged[c] \cup {x.id} /\ unread_rooms'[c] = unread_rooms[c] \cup {room}
        /\ \A d \in Clients \ {c} : flagged'[d] = flagged[d] /\ unread_rooms'[d] = unread_rooms[d]
    BY <1>13
  <2>2. Marked(c, messages[c] \cup {x}, flagged[c] \cup {x.id}, unread_rooms[c] \cup {RoomOf(x.id)},
               shown \cup Seen(c, messages[c] \cup {x}, cur), cur, entry[c])
    BY <1>3, <1>4, <1>10, <1>11, <1>13, FlagMarked
  <2>3. Marked(c, messages'[c], flagged'[c], unread_rooms'[c], shown', current'[c], entry'[c])
    BY <1>5, <1>7, <1>10, <1>13, <2>1, <2>2
  <2>4. OthersKept(c)
    BY <1>6, <1>13, <2>1, ScreenGives DEF OthersKept
  <2>5. QED
    BY <1>8, <1>9, <2>3, <2>4, MarksByClient
<1>14. CASE x.is_history /\ UNCHANGED <<flagged, unread_rooms, entry>>
  <2>1. PICK more \in SUBSET Held : more = {x}
    OBVIOUS
  <2>2. \A y \in more : y.is_history
    BY <1>14, <2>1
  <2>3. Marked(c, messages[c] \cup more, flagged[c], unread_rooms[c],
               shown \cup Seen(c, messages[c] \cup more, cur), cur, entry[c])
    BY <1>3, <1>11, <2>2, SeenMarked
  <2>4. Marked(c, messages'[c], flagged'[c], unread_rooms'[c], shown', current'[c], entry'[c])
    BY <1>5, <1>7, <1>14, <2>1, <2>3
  <2>5. OthersKept(c)
    BY <1>6, <1>14, ScreenGives DEF OthersKept
  <2>6. QED
    BY <1>8, <1>9, <2>4, <2>5, MarksByClient
<1>15. QED
  BY <1>0, <1>1, <1>10, <1>12, <1>13, <1>14 DEF IngestMessage, Unread

LEMMA IngestMarks ==
  ASSUME TypeOK, MarksInv, NEW c \in Clients, handle_server_message(c)
  PROVE  MarksInv'
<1> USE Typing
<1>1. PICK f \in Frames : f = Head(down[c])
  BY NextFrame DEF handle_server_message
<1>2. /\ down[c] # <<>> /\ down' = [down EXCEPT ![c] = Tail(down[c])] /\ UNCHANGED posted
  BY DEF handle_server_message, server
<1>3. PICK q \in Seq(Frames) : q = down[c]
  OBVIOUS
<1>4. PICK cur \in Rooms : cur = current[c]
  OBVIOUS
<1>5. /\ Marked(c, messages[c], flagged[c], unread_rooms[c], shown, cur, entry[c])
      /\ Fresh(c, q, messages[c], shown)
  BY <1>3, <1>4 DEF MarksInv
<1>6. PICK p : p = Tail(q) /\ down'[c] = p
  BY <1>2, <1>3
<1>7. Fresh(c, p, messages[c], shown)
  <2>1. q # <<>>
    BY <1>2, <1>3
  <2>2. Fresh(c, Tail(q), messages[c], shown)
    BY <1>5, <2>1, FreshAfter
  <2>3. QED
    BY <1>6, <2>2
<1>8. ASSUME NEW room, Screen(c, room, messages[c])
      PROVE  Fresh(c, down'[c], messages'[c], shown')
  <2>1. \A j \in 1..Len(p) : Live(p[j]) => p[j].id \notin Ids(messages[c])
    BY <1>7 DEF Fresh
  <2>2. Fresh(c, p, messages[c], shown \cup Seen(c, messages[c], room))
    BY <1>7, <2>1, FreshShown
  <2>3. messages'[c] = messages[c] /\ shown' = shown \cup Seen(c, messages[c], room)
    BY <1>8, ScreenGives
  <2>4. QED
    BY <1>6, <2>2, <2>3
<1>9. /\ \A d \in Clients \ {c} : down'[d] = down[d]
      /\ flagged[c] \in SUBSET MessageIds /\ unread_rooms[c] \subseteq Rooms
      /\ messages[c] \in SUBSET Held
  BY <1>2
<1>10. PICK none \in SUBSET Held : none = {}
  OBVIOUS
<1>11. CASE f.kind = "Message" /\ IngestMessage(c, f.id, f.is_history)
  BY <1>1, <1>2, <1>11, MessageMarks
<1>12. CASE f.kind = "RoomList" /\ IngestRoomList(c, f.names)
  <2>1. PICK room : room = IF Listed(cur, f.names) THEN cur ELSE Head(f.names)
    OBVIOUS
  <2>2. /\ Screen(c, room, messages[c]) /\ UNCHANGED <<flagged, unread_rooms>>
        /\ IF room = cur THEN UNCHANGED entry ELSE Enters(c, room, "moved")
    BY <1>4, <1>12, <2>1 DEF IngestRoomList
  <2>3. room \in Rooms
    <3>1. f.names \in Seq(Rooms) /\ f.names # <<>>
      BY <1>12 DEF Frames, Names
    <3>2. QED
      BY <2>1, <3>1, FirstIsIn
  <2>4. /\ \A r \in Rooms \ {room} : entry'[c][r] = entry[c][r]
        /\ (room = cur /\ entry'[c][room] = entry[c][room]) \/ entry'[c][room] = "moved"
        /\ \A d \in Clients \ {c} : entry'[d] = entry[d]
    BY <2>2, <2>3, EntersGives
  <2>5. \A x \in none : x.is_history
    BY <1>10
  <2>6. Marked(c, messages[c] \cup none, flagged[c], unread_rooms[c],
               shown \cup Seen(c, messages[c] \cup none, room), room, entry'[c])
    <3>1. PICK how2 : how2 = entry'[c]
      OBVIOUS
    <3>2. /\ \A r \in Rooms \ {room} : how2[r] = entry[c][r]
          /\ (room = cur /\ how2[room] = entry[c][room]) \/ how2[room] = "moved"
      BY <2>4, <3>1
    <3>3. Marked(c, messages[c] \cup none, flagged[c], unread_rooms[c],
                 shown \cup Seen(c, messages[c] \cup none, room), room, how2)
      BY <1>5, <1>9, <2>5, <3>2, SeenMarked
    <3>4. QED
      BY <3>1, <3>3
  <2>7. /\ current'[c] = room /\ messages'[c] = messages[c]
        /\ shown' = shown \cup Seen(c, messages[c], room)
    BY <2>2, ScreenGives
  <2>8. messages[c] \cup none = messages[c]
    BY <1>10
  <2>9. Marked(c, messages'[c], flagged'[c], unread_rooms'[c], shown', current'[c], entry'[c])
    BY <2>2, <2>6, <2>7, <2>8
  <2>10. OthersKept(c)
    BY <1>9, <2>2, <2>4, ScreenGives DEF OthersKept
  <2>11. QED
    BY <1>2, <1>8, <2>2, <2>7, <2>9, <2>10, MarksByClient
<1>13. CASE f.kind = "SetActiveRoom" /\ IngestSetActiveRoom(c, f.room)
  <2>1. PICK room \in Rooms : room = f.room
    BY <1>13 DEF Frames
  <2>2. /\ Screen(c, room, messages[c]) /\ clear_room_read_state(c, room)
        /\ Enters(c, room, "marked")
    BY <1>13, <2>1 DEF IngestSetActiveRoom, mark_all_read
  <2>3. /\ \A r \in Rooms \ {room} : entry'[c][r] = entry[c][r]
        /\ \A d \in Clients \ {c} : entry'[d] = entry[d]
    BY <2>2, EntersGives
  <2>4. \A x \in none : RoomOf(x.id) = room
    BY <1>10
  <2>5. Marked(c, messages[c] \cup none, flagged[c] \ In(room), unread_rooms[c] \ {room},
               shown \cup Seen(c, messages[c] \cup none, room), room, entry'[c])
    <3>1. PICK how2 : how2 = entry'[c]
      OBVIOUS
    <3>2. \A r \in Rooms \ {room} : how2[r] = entry[c][r]
      BY <2>3, <3>1
    <3>3. Marked(c, messages[c] \cup none, flagged[c] \ In(room), unread_rooms[c] \ {room},
                 shown \cup Seen(c, messages[c] \cup none, room), room, how2)
      BY <1>5, <1>9, <2>4, <3>2, OpenMarked
    <3>4. QED
      BY <3>1, <3>3
  <2>6. /\ current'[c] = room /\ messages'[c] = messages[c]
        /\ shown' = shown \cup Seen(c, messages[c], room)
    BY <2>2, ScreenGives
  <2>7. /\ flagged'[c] = flagged[c] \ In(room) /\ unread_rooms'[c] = unread_rooms[c] \ {room}
        /\ \A d \in Clients \ {c} : flagged'[d] = flagged[d] /\ unread_rooms'[d] = unread_rooms[d]
    BY <2>2, ClearGives
  <2>8. messages[c] \cup none = messages[c]
    BY <1>10
  <2>9. Marked(c, messages'[c], flagged'[c], unread_rooms'[c], shown', current'[c], entry'[c])
    BY <2>5, <2>6, <2>7, <2>8
  <2>10. OthersKept(c)
    BY <1>9, <2>2, <2>3, <2>7, ScreenGives DEF OthersKept
  <2>11. QED
    BY <1>2, <1>8, <2>2, <2>6, <2>9, <2>10, MarksByClient
<1>14. CASE f.kind = "ReadReceipt" /\ IngestReceipt(c, f.ids)
  <2>1. UNCHANGED <<current, messages, flagged, unread_rooms, shown, entry>>
    BY <1>14 DEF IngestReceipt
  <2>2. OthersKept(c)
    BY <1>9, <2>1 DEF OthersKept
  <2>3. /\ Marked(c, messages'[c], flagged'[c], unread_rooms'[c], shown', current'[c], entry'[c])
        /\ Fresh(c, down'[c], messages'[c], shown')
    BY <1>4, <1>5, <1>6, <1>7, <2>1
  <2>4. QED
    BY <1>2, <2>1, <2>2, <2>3, MarksByClient
<1>15. QED
  BY <1>1, <1>11, <1>12, <1>13, <1>14 DEF handle_server_message

(* The server's steps: the messages posted keep their rooms, and a live    *)
(* frame is the last of its queue and names a new message.                 *)
LEMMA MarksByServer ==
  ASSUME TypeOK, MarksInv, UNCHANGED view, MessageIds \subseteq MessageIds',
         \A m \in MessageIds : posted'[m].room = posted[m].room,
         \A d \in Clients : \A i \in 1..Len(down'[d]) :
           \/ i \in 1..Len(down[d]) /\ down'[d][i] = down[d][i]
           \/ i > Len(down[d]) /\ ~Live(down'[d][i])
           \/ i = Len(down[d]) + 1 /\ down'[d][i].id \notin MessageIds
  PROVE  MarksInv'
<1> USE Typing
<1>1. UNCHANGED <<messages, flagged, unread_rooms, shown, current, entry>>
  BY ViewKept
<1>2. \A m \in MessageIds : RoomOf(m)' = RoomOf(m)
  BY DEF RoomOf
<1>3. \A m \in MessageIds : \A r : m \in In(r) => m \in In(r)'
  BY <1>2 DEF In, RoomOf, MessageIds
<1>4. ASSUME NEW d \in Clients
      PROVE  Marked(d, messages[d], flagged[d], unread_rooms[d], shown, current[d], entry[d])'
  <2>1. Marked(d, messages[d], flagged[d], unread_rooms[d], shown, current[d], entry[d])
    BY DEF MarksInv
  <2>2. flagged[d] \subseteq MessageIds
    OBVIOUS
  <2>3. \A m \in flagged[d] : RoomOf(m)' = RoomOf(m)
    BY <1>2, <2>2
  <2>4. \A r : flagged[d] \cap In(r) # {} => flagged[d] \cap In(r)' # {}
    BY <1>3, <2>2
  <2>5. QED
    BY <1>1, <2>1, <2>3, <2>4 DEF Marked
<1>5. ASSUME NEW d \in Clients
      PROVE  Fresh(d, down[d], messages[d], shown)'
  <2>1. PICK old \in Seq(Frames), n \in Nat : old = down[d] /\ n = Len(old)
    BY LenProperties
  <2>2. Fresh(d, old, messages[d], shown)
    BY <2>1 DEF MarksInv
  <2>3. PICK new : new = down'[d]
    OBVIOUS
  <2>4. \A i \in 1..Len(new) : \/ i \in 1..n /\ new[i] = old[i]
                               \/ i > n /\ ~Live(new[i])
                               \/ i = n + 1 /\ new[i].id \notin MessageIds
    BY <2>1, <2>3
  <2>5. ASSUME NEW j \in 1..Len(new), Live(new[j])
        PROVE  /\ new[j].id \notin Ids(messages[d]) /\ <<d, new[j].id>> \notin shown
               /\ \A i \in 1..(j - 1) : new[i].kind = "Message" => new[i].id # new[j].id
    <3>0. \A i \in 1..(j - 1) : i \in 1..Len(new) /\ i < j
      OBVIOUS
    <3>1. CASE j \in 1..n /\ new[j] = old[j]
      <4>1. ASSUME NEW i \in 1..(j - 1)
            PROVE  new[i] = old[i]
        <5>1. i \in 1..Len(new) /\ ~(i > n) /\ i # n + 1
          BY <3>0, <3>1
        <5>2. QED
          BY <2>4, <5>1
      <4>2. /\ old[j].id \notin Ids(messages[d]) /\ <<d, old[j].id>> \notin shown
            /\ \A i \in 1..(j - 1) : old[i].kind = "Message" => old[i].id # old[j].id
        <5>1. j \in 1..Len(old) /\ Live(old[j])
          BY <2>1, <2>5, <3>1
        <5>2. QED
          BY <2>2, <5>1 DEF Fresh
      <4>3. QED
        BY <3>1, <4>1, <4>2
    <3>2. CASE j = n + 1 /\ new[j].id \notin MessageIds
      <4>1. new[j].id \notin Ids(messages[d])
        BY <3>2, IdsType
      <4>2. <<d, new[j].id>> \notin shown
        BY <3>2
      <4>3. ASSUME NEW i \in 1..(j - 1), new[i].kind = "Message"
            PROVE  new[i].id # new[j].id
        <5>1. i \in 1..n /\ new[i] = old[i]
          BY <2>4, <3>0, <3>2
        <5>2. old[i] \in Frames
          BY <2>1, <5>1, ElementOfSeq
        <5>3. new[i].id \in MessageIds
          BY <4>3, <5>1, <5>2 DEF Frames
        <5>4. QED
          BY <3>2, <5>3
      <4>4. QED
        BY <4>1, <4>2, <4>3
    <3>3. QED
      BY <2>4, <2>5, <3>1, <3>2
  <2>6. Fresh(d, new, messages[d], shown)
    BY <2>5 DEF Fresh
  <2>7. QED
    BY <1>1, <2>3, <2>6 DEF Fresh, Live, Ids
<1>6. QED
  BY <1>4, <1>5 DEF MarksInv

LEMMA TaskMarks ==
  ASSUME TypeInv, MarksInv, NEW c \in Clients, TaskStep(c)
  PROVE  MarksInv'
<1> USE Typing
<1>0. TypeOK
  BY DEF TypeInv
<1>1. ASSUME UNCHANGED <<view, posted>>,
             UNCHANGED down
               \/ \A d \in Clients : \A i \in 1..Len(down'[d]) :
                    \/ i \in 1..Len(down[d]) /\ down'[d][i] = down[d][i]
                    \/ i > Len(down[d]) /\ ~Live(down'[d][i])
      PROVE  MarksInv'
  <2>1. MessageIds \subseteq MessageIds' /\ \A m \in MessageIds : posted'[m].room = posted[m].room
    BY <1>1 DEF MessageIds
  <2>2. \A d \in Clients : \A i \in 1..Len(down'[d]) :
          \/ i \in 1..Len(down[d]) /\ down'[d][i] = down[d][i]
          \/ i > Len(down[d]) /\ ~Live(down'[d][i])
    BY <1>1
  <2>3. QED
    BY <1>0, <1>1, <2>1, <2>2, MarksByServer
<1>2. CASE Greet(c)
  <2>1. UNCHANGED <<view, posted>>
    BY <1>2, GreetType
  <2>2. \A d \in Clients : \A i \in 1..Len(down'[d]) :
          \/ i \in 1..Len(down[d]) /\ down'[d][i] = down[d][i]
          \/ i > Len(down[d]) /\ ~Live(down'[d][i])
    BY <1>0, <1>2, GreetType, MovesAdd DEF Live
  <2>3. QED
    BY <1>1, <2>1, <2>2
<1>3. CASE handle_join_command(c) \/ handle_leave_command(c)
  <2>1. UNCHANGED <<view, posted>>
    BY <1>3, JoinType, LeaveType
  <2>2. UNCHANGED down \/ Moves(c)
    BY <1>3, JoinType, LeaveType
  <2>3. Moves(c) => \A d \in Clients : \A i \in 1..Len(down'[d]) :
          \/ i \in 1..Len(down[d]) /\ down'[d][i] = down[d][i]
          \/ i > Len(down[d]) /\ ~Live(down'[d][i])
    BY <1>0, MovesAdd DEF Live
  <2>4. QED
    BY <1>1, <2>1, <2>2, <2>3
<1>4. CASE handle_switch_command(c)
  BY <1>1, <1>4, SwitchType
<1>5. CASE handle_read_command(c)
  <2>1. UNCHANGED <<view, posted>>
    BY <1>5, ReadType
  <2>2. PICK room, frame : frame = ReadReceipt(c, Head(up[c]).ids) /\ Broadcast(room, frame)
    BY <1>5 DEF handle_read_command
  <2>3. ~Live(frame)
    BY <2>2 DEF ReadReceipt, Live
  <2>4. \A d \in Clients : \A i \in 1..Len(down'[d]) :
          \/ i \in 1..Len(down[d]) /\ down'[d][i] = down[d][i]
          \/ i = Len(down[d]) + 1 /\ down'[d][i] = frame
    <3>1. Broadcast(room, frame)
      BY <2>2
    <3>2. QED
      BY <1>0, <3>1, BroadcastAdds, SMTT(30)
  <2>5. \A d \in Clients : Len(down[d]) \in Nat
    BY <1>0, LenProperties
  <2>6. \A d \in Clients : \A i \in 1..Len(down'[d]) :
          \/ i \in 1..Len(down[d]) /\ down'[d][i] = down[d][i]
          \/ i > Len(down[d]) /\ ~Live(down'[d][i])
    BY <2>3, <2>4, <2>5
  <2>7. QED
    BY <1>1, <2>1, <2>6
<1>6. ASSUME NEW cmd \in {"text", "media"}, Post(c, cmd)
      PROVE  MarksInv'
  <2>1. /\ MessageIds \subseteq MessageIds'
        /\ \A m \in MessageIds : posted'[m].room = posted[m].room
    BY <1>6, PostType
  <2>2. PICK frame : frame = Message(Len(posted) + 1, FALSE) /\ Broadcast(active[c], frame)
    BY <1>6 DEF Post
  <2>3. frame.id \notin MessageIds
    BY <1>0, <2>2, LenPosted DEF Message
  <2>4. \A d \in Clients : \A i \in 1..Len(down'[d]) :
          \/ i \in 1..Len(down[d]) /\ down'[d][i] = down[d][i]
          \/ i = Len(down[d]) + 1 /\ down'[d][i] = frame
    <3>1. Broadcast(active[c], frame)
      BY <2>2
    <3>2. QED
      BY <1>0, <3>1, BroadcastAdds, SMTT(30)
  <2>5. UNCHANGED view
    BY <1>6 DEF Post, TakeLine
  <2>6. QED
    BY <1>0, <2>1, <2>3, <2>4, <2>5, MarksByServer
<1>7. QED
  BY <1>2, <1>3, <1>4, <1>5, <1>6 DEF TaskStep

LEMMA MarksStep ==
  ASSUME TypeInv, MarksInv, [Next]_vars
  PROVE  MarksInv'
<1>0. TypeOK
  BY DEF TypeInv
<1>1. ASSUME NEW c \in Clients, UserStep(c) \/ handle_server_message(c) \/ TaskStep(c)
      PROVE  MarksInv'
  BY <1>0, <1>1, UserMarks, IngestMarks, TaskMarks
<1>2. CASE UNCHANGED vars
  <2>1. UNCHANGED <<view, posted, down>>
    BY <1>2 DEF vars, server
  <2>2. /\ MessageIds \subseteq MessageIds'
        /\ \A m \in MessageIds : posted'[m].room = posted[m].room
    BY <2>1 DEF MessageIds
  <2>3. \A d \in Clients : \A i \in 1..Len(down'[d]) :
          i \in 1..Len(down[d]) /\ down'[d][i] = down[d][i]
    BY <2>1
  <2>4. QED
    BY <1>0, <2>1, <2>2, <2>3, MarksByServer
<1>3. QED
  BY <1>1, <1>2 DEF Next

LEMMA InitMarks == Init => MarksInv
<1> SUFFICES ASSUME Init, NEW c \in Clients
             PROVE  /\ Marked(c, messages[c], flagged[c], unread_rooms[c], shown, current[c],
                              entry[c])
                    /\ Fresh(c, down[c], messages[c], shown)
  BY DEF MarksInv
<1>1. messages[c] = {} /\ flagged[c] = {} /\ unread_rooms[c] = {} /\ down[c] = <<>>
  BY DEF Init
<1>2. PICK q : q = down[c]
  OBVIOUS
<1>3. 1..Len(q) = {}
  BY <1>1, <1>2
<1>4. Fresh(c, q, messages[c], shown)
  BY <1>3 DEF Fresh
<1>5. Marked(c, messages[c], flagged[c], unread_rooms[c], shown, current[c], entry[c])
  BY <1>1 DEF Marked
<1>6. QED
  BY <1>2, <1>4, <1>5

(* A live message that has not been on the screen is flagged and its room  *)
(* marked, and what is flagged or marked has not been on the screen,       *)
(* unless a room list put the room there: the client hears of a message    *)
(* live but once, and before any history brings it, so that nothing that   *)
(* was seen is flagged again.                                              *)
THEOREM UnreadMarksAreTrue == Spec => []UnreadIsMarked
<1>1. Init => TypeInv /\ MarksInv
  BY InitType, InitMarks
<1>2. TypeInv /\ MarksInv /\ [Next]_vars => (TypeInv /\ MarksInv)'
  BY TypeStep, MarksStep
<1>3. TypeInv /\ MarksInv => UnreadIsMarked
  BY MarksImply DEF TypeInv
<1>4. QED
  BY <1>1, <1>2, <1>3, PTL DEF Spec

=============================================================================

----------------------------- MODULE AuthProofs -----------------------------
(***************************************************************************)
(* Theorems about Auth, for every set of users and connections, every      *)
(* limit and every number of faults.                                       *)
(***************************************************************************)
EXTENDS Auth, FiniteSetTheorems, TLAPS

-----------------------------------------------------------------------------
(* Type correctness.                                                       *)

LEMMA TypeInit == Init => TypeOK
BY AuthAssumption DEF Init, TypeOK, Steps, Notices, Registered

LEMMA TypeStep == TypeOK /\ [Next]_vars => TypeOK'
<1> SUFFICES ASSUME TypeOK, [Next]_vars PROVE TypeOK'
  OBVIOUS
<1> USE AuthAssumption DEF TypeOK, Steps, Notices, Goto, Tell, Reply, conn, table, key
<1>1. ASSUME NEW c \in Conns, ServerStep(c) PROVE TypeOK'
  <2>1. CASE Prompt(c)         BY <2>1 DEF Prompt
  <2>2. CASE CountUsers(c)     BY <2>2 DEF CountUsers
  <2>3. CASE InsertUser(c)     BY <2>3 DEF InsertUser
  <2>4. CASE GetAttempts(c)    BY <2>4 DEF GetAttempts
  <2>5. CASE SelectHash(c)     BY <2>5 DEF SelectHash
  <2>6. CASE DelAttempts(c)    BY <2>6 DEF DelAttempts
  <2>7. CASE IncrAttempts(c)   BY <2>7 DEF IncrAttempts
  <2>8. CASE ExpireAttempts(c) BY <2>8 DEF ExpireAttempts
  <2>9. CASE OpenSession(c)    BY <2>9 DEF OpenSession
  <2>10. QED
    BY <1>1, <2>1, <2>2, <2>3, <2>4, <2>5, <2>6, <2>7, <2>8, <2>9 DEF ServerStep
<1>2. ASSUME NEW c \in Conns, Connect(c) PROVE TypeOK'
  BY <1>2 DEF Connect
<1>3. ASSUME NEW c \in Conns, Hangup(c) PROVE TypeOK'
  BY <1>3 DEF Hangup
<1>4. ASSUME NEW c \in Conns, OtherLine(c) PROVE TypeOK'
  BY <1>4 DEF OtherLine
<1>5. ASSUME NEW c \in Conns, StatementFails(c) PROVE TypeOK'
  BY <1>5 DEF StatementFails
<1>6. ASSUME NEW c \in Conns, NEW p \in Passwords, Register(c, p) PROVE TypeOK'
  BY <1>6 DEF Register
<1>7. ASSUME NEW c \in Conns, NEW p \in Passwords, Login(c, p) PROVE TypeOK'
  BY <1>7 DEF Login
<1>8. ASSUME NEW u \in Users, Lapse(u) PROVE TypeOK'
  BY <1>8 DEF Lapse
<1>9. CASE UNCHANGED vars
  BY <1>9 DEF vars
<1>10. QED
  BY <1>1, <1>2, <1>3, <1>4, <1>5, <1>6, <1>7, <1>8, <1>9 DEF Next

(* Every variable of authenticate_user keeps its type.                     *)
THEOREM AuthTypeCorrect == Spec => []TypeOK
BY TypeInit, TypeStep, PTL DEF Spec

-----------------------------------------------------------------------------
(* The table of users.  HasAdmin and OwnPassword are inductive together    *)
(* with four facts: whoever has a role has a row; a connection that is     *)
(* about to insert a plain user counted at least one row, and rows are     *)
(* never deleted; a password that matched still does, because no statement *)
(* changes it; and a connection that handles a line has a password from it.*)
RolesHaveRows == \A u \in Users : roles[u] = "none" <=> ~Registered(u)

UserOnlyIfCounted ==
  \A c \in Conns :
    pc[c] = "insert" /\ role[c] = "user" => \E u \in Users : Registered(u)

Matched ==
  \A c \in Conns : pc[c] = "del" => typed[c] = password[UserOf[c]]

HasTyped ==
  \A c \in Conns :
    pc[c] \in {"count", "insert", "attempts", "select", "del", "incr", "expire",
               "session", "in"}
      => typed[c] \in Passwords

TableInv ==
  /\ HasAdmin /\ OwnPassword
  /\ RolesHaveRows /\ UserOnlyIfCounted /\ Matched /\ HasTyped

LEMMA TableInit == Init => TableInv
BY DEF Init, TableInv, HasAdmin, OwnPassword, RolesHaveRows, UserOnlyIfCounted,
       Matched, HasTyped, Registered

LEMMA TableStep == TypeOK /\ TableInv /\ [Next]_vars => TableInv'
<1> SUFFICES ASSUME TypeOK, TableInv, [Next]_vars PROVE TableInv'
  OBVIOUS
<1> USE AuthAssumption DEF TypeOK, Steps, Notices, Goto, Tell, Reply, conn, table,
        TableInv, HasAdmin, OwnPassword, RolesHaveRows, UserOnlyIfCounted, Matched,
        HasTyped, Registered, SomeAdmin
<1>1. ASSUME NEW c \in Conns, ServerStep(c) PROVE TableInv'
  <2>1. CASE Prompt(c)         BY <2>1 DEF Prompt
  <2>2. CASE CountUsers(c)     BY <2>2 DEF CountUsers
  <2>3. CASE InsertUser(c)
    <3>1. CASE Registered(UserOf[c])
      BY <2>3, <3>1 DEF InsertUser
    <3>2. CASE ~Registered(UserOf[c])
      <4>1. /\ UserOf[c] \in Users
            /\ password' = [password EXCEPT ![UserOf[c]] = typed[c]]
            /\ roles' = [roles EXCEPT ![UserOf[c]] = role[c]]
            /\ pc' = [pc EXCEPT ![c] = "session"]
            /\ pc[c] = "insert"
            /\ typed' = typed /\ role' = role
        BY <2>3, <3>2 DEF InsertUser
      <4>2. HasAdmin'
        <5>1. CASE role[c] = "admin"
          <6>1. roles'[UserOf[c]] = "admin"
            BY <4>1, <5>1
          <6>2. QED
            BY <4>1, <6>1
        <5>2. CASE role[c] = "user"
          <6>1. PICK a \in Users : roles[a] = "admin"
            BY <4>1, <5>2
          <6>2. Registered(a)
            BY <6>1
          <6>3. roles'[a] = "admin"
            BY <4>1, <3>2, <6>1, <6>2
          <6>4. QED
            BY <6>3
        <5>3. QED
          BY <5>1, <5>2
      <4>3. OwnPassword'
        BY <4>1, <3>2
      <4>4. RolesHaveRows'
        BY <4>1, <3>2
      <4>5. UserOnlyIfCounted' /\ Matched' /\ HasTyped'
        BY <4>1, <3>2
      <4>6. QED
        BY <4>2, <4>3, <4>4, <4>5
    <3>3. QED
      BY <3>1, <3>2
  <2>4. CASE GetAttempts(c)    BY <2>4 DEF GetAttempts
  <2>5. CASE SelectHash(c)     BY <2>5 DEF SelectHash
  <2>6. CASE DelAttempts(c)    BY <2>6 DEF DelAttempts
  <2>7. CASE IncrAttempts(c)   BY <2>7 DEF IncrAttempts
  <2>8. CASE ExpireAttempts(c) BY <2>8 DEF ExpireAttempts
  <2>9. CASE OpenSession(c)    BY <2>9 DEF OpenSession
  <2>10. QED
    BY <1>1, <2>1, <2>2, <2>3, <2>4, <2>5, <2>6, <2>7, <2>8, <2>9 DEF ServerStep
<1>2. ASSUME NEW c \in Conns, Connect(c) PROVE TableInv'
  BY <1>2 DEF Connect
<1>3. ASSUME NEW c \in Conns, Hangup(c) PROVE TableInv'
  BY <1>3 DEF Hangup
<1>4. ASSUME NEW c \in Conns, OtherLine(c) PROVE TableInv'
  BY <1>4 DEF OtherLine
<1>5. ASSUME NEW c \in Conns, StatementFails(c) PROVE TableInv'
  BY <1>5 DEF StatementFails
<1>6. ASSUME NEW c \in Conns, NEW p \in Passwords, Register(c, p) PROVE TableInv'
  BY <1>6 DEF Register
<1>7. ASSUME NEW c \in Conns, NEW p \in Passwords, Login(c, p) PROVE TableInv'
  BY <1>7 DEF Login
<1>8. ASSUME NEW u \in Users, Lapse(u) PROVE TableInv'
  BY <1>8 DEF Lapse
<1>9. CASE UNCHANGED vars
  BY <1>9 DEF vars
<1>10. QED
  BY <1>1, <1>2, <1>3, <1>4, <1>5, <1>6, <1>7, <1>8, <1>9 DEF Next

(* However the first registrations interleave, and whatever statement      *)
(* fails, a table with a row has an admin.                                 *)
THEOREM AdminExists == Spec => []HasAdmin
<1>1. TableInv => HasAdmin
  BY DEF TableInv
<1>2. QED
  BY AuthTypeCorrect, TableInit, TableStep, <1>1, PTL DEF Spec

(* Nobody is let in with a password that is not the one of the row.        *)
THEOREM OnlyOwnersGetIn == Spec => []OwnPassword
<1>1. TableInv => OwnPassword
  BY DEF TableInv
<1>2. QED
  BY AuthTypeCorrect, TableInit, TableStep, <1>1, PTL DEF Spec

-----------------------------------------------------------------------------
(* The attempts.  A connection that passed the check and has not counted   *)
(* its attempt yet is counted in advance.                                  *)
AttemptsInv ==
  /\ faults <= MaxFaults
  /\ \A u \in Users : ConnsOf(u) # {} =>
       attempts[u] + Cardinality(Trying(u))
         < Limit + Cardinality(ConnsOf(u)) + faults

(* The connections of a user that are trying are some of its connections.  *)
LEMMA TryingFacts ==
  ASSUME NEW u \in Users
  PROVE  /\ IsFiniteSet(ConnsOf(u)) /\ IsFiniteSet(Trying(u))
         /\ Cardinality(ConnsOf(u)) \in Nat /\ Cardinality(Trying(u)) \in Nat
         /\ Cardinality(Trying(u)) <= Cardinality(ConnsOf(u))
         /\ ConnsOf(u) # {} => Cardinality(ConnsOf(u)) > 0
<1>1. ConnsOf(u) \subseteq Conns /\ Trying(u) \subseteq ConnsOf(u)
  BY DEF ConnsOf, Trying
<1>2. IsFiniteSet(ConnsOf(u))
  BY <1>1, AuthAssumption, FS_Subset
<1>3. IsFiniteSet(Trying(u)) /\ Cardinality(Trying(u)) <= Cardinality(ConnsOf(u))
  BY <1>1, <1>2, FS_Subset
<1>4. QED
  BY <1>2, <1>3, FS_CardinalityType, FS_EmptySet

(* A step after which no more connections of u are trying than before, and *)
(* that counts no attempt, keeps the bound.                                *)
LEMMA FewerTrying ==
  ASSUME TypeOK, TypeOK', AttemptsInv, NEW u \in Users, ConnsOf(u) # {},
         attempts'[u] <= attempts[u], faults' >= faults, Trying(u)' \subseteq Trying(u)
  PROVE  attempts'[u] + Cardinality(Trying(u)') < Limit + Cardinality(ConnsOf(u)) + faults'
<1>1. /\ Cardinality(Trying(u)) \in Nat /\ Cardinality(ConnsOf(u)) \in Nat
      /\ Cardinality(Trying(u)') \in Nat
      /\ Cardinality(Trying(u)') <= Cardinality(Trying(u))
  BY TryingFacts, FS_Subset, FS_CardinalityType
<1>2. attempts[u] + Cardinality(Trying(u)) < Limit + Cardinality(ConnsOf(u)) + faults
  BY DEF AttemptsInv
<1>3. QED
  BY <1>1, <1>2, AuthAssumption DEF TypeOK

LEMMA AttemptsStep == TypeOK /\ AttemptsInv /\ [Next]_vars => AttemptsInv'
<1> SUFFICES ASSUME TypeOK, AttemptsInv, [Next]_vars PROVE AttemptsInv'
  OBVIOUS
<1>0. TypeOK'
  BY TypeStep
<1>1. faults' <= MaxFaults /\ faults' >= faults
  <2>1. \/ UNCHANGED faults
        \/ faults < MaxFaults /\ faults' = faults + 1
    BY DEF Next, ServerStep, Prompt, CountUsers, InsertUser, GetAttempts, SelectHash,
           DelAttempts, IncrAttempts, ExpireAttempts, OpenSession, Connect, Hangup,
           OtherLine, StatementFails, Register, Login, Lapse, vars
  <2>2. QED
    BY <2>1, AuthAssumption DEF AttemptsInv, TypeOK
<1> SUFFICES ASSUME NEW u \in Users, ConnsOf(u) # {}
             PROVE  attempts'[u] + Cardinality(Trying(u)')
                      < Limit + Cardinality(ConnsOf(u)) + faults'
  BY <1>1 DEF AttemptsInv, ConnsOf
<1> DEFINE Bounded == attempts'[u] + Cardinality(Trying(u)')
                        < Limit + Cardinality(ConnsOf(u)) + faults'
<1>2. ASSUME attempts'[u] <= attempts[u], Trying(u)' \subseteq Trying(u) PROVE Bounded
  BY <1>0, <1>1, <1>2, FewerTrying
<1>3. ASSUME NEW c \in Conns,
             UNCHANGED key \/ DelAttempts(c) \/ ExpireAttempts(c),
             \A d \in Conns : d # c => pc'[d] = pc[d],
             pc'[c] \in {"select", "incr"} => pc[c] \in {"select", "incr"}
      PROVE  Bounded
  <2>1. attempts'[u] <= attempts[u]
    BY <1>3, AuthAssumption DEF key, DelAttempts, ExpireAttempts, TypeOK
  <2>2. Trying(u)' \subseteq Trying(u)
    BY <1>3 DEF Trying, ConnsOf
  <2>3. QED
    BY <1>2, <2>1, <2>2
<1>4. ASSUME NEW c \in Conns, pc[c] = "attempts", pc' = [pc EXCEPT ![c] = "select"],
             UNCHANGED key, attempts[UserOf[c]] < Limit \/ faults' = faults + 1
      PROVE  Bounded
  <2>1. CASE UserOf[c] # u
    <3>1. Trying(u)' \subseteq Trying(u) /\ attempts' = attempts
      BY <1>4, <2>1 DEF Trying, ConnsOf, TypeOK, key
    <3>2. QED
      BY <3>1, <1>2 DEF TypeOK
  <2>2. CASE UserOf[c] = u
    <3>1. Trying(u)' = Trying(u) \cup {c} /\ c \notin Trying(u) /\ attempts' = attempts
      BY <1>4, <2>2 DEF Trying, ConnsOf, TypeOK, key
    <3>2. Cardinality(Trying(u)') = Cardinality(Trying(u)) + 1
      BY <3>1, TryingFacts, FS_AddElement
    <3>3. Trying(u)' \subseteq ConnsOf(u)
      BY DEF Trying, ConnsOf
    <3>4. Cardinality(Trying(u)') <= Cardinality(ConnsOf(u))
      BY <3>3, TryingFacts, FS_Subset
    <3>5. attempts[u] + Cardinality(Trying(u)) < Limit + Cardinality(ConnsOf(u)) + faults
      BY DEF AttemptsInv
    <3>6. /\ attempts[u] \in Nat /\ faults \in Nat /\ faults' \in Nat /\ Limit \in Nat
          /\ Cardinality(Trying(u)) \in Nat /\ Cardinality(ConnsOf(u)) \in Nat
      BY <1>0, TryingFacts, AuthAssumption DEF TypeOK
    <3>7. CASE attempts[u] < Limit
      BY <3>1, <3>2, <3>4, <3>6, <3>7
    <3>8. CASE faults' = faults + 1
      BY <3>1, <3>2, <3>5, <3>6, <3>8
    <3>9. QED
      BY <1>4, <2>2, <3>7, <3>8
  <2>3. QED
    BY <2>1, <2>2
<1>5. ASSUME NEW c \in Conns, IncrAttempts(c) PROVE Bounded
  <2>1. /\ pc[c] = "incr"
        /\ pc'[c] \in {"expire", "reading"}
        /\ \A d \in Conns : d # c => pc'[d] = pc[d]
        /\ attempts' = [attempts EXCEPT ![UserOf[c]] = @ + 1]
    BY <1>5 DEF IncrAttempts, Goto, Reply, TypeOK
  <2>2. CASE UserOf[c] # u
    <3>1. Trying(u)' \subseteq Trying(u) /\ attempts'[u] <= attempts[u]
      BY <2>1, <2>2, AuthAssumption DEF Trying, ConnsOf, TypeOK
    <3>2. QED
      BY <3>1, <1>2
  <2>3. CASE UserOf[c] = u
    <3>1. Trying(u)' = Trying(u) \ {c} /\ c \in Trying(u)
      BY <2>1, <2>3 DEF Trying, ConnsOf, TypeOK
    <3>2. Cardinality(Trying(u)') = Cardinality(Trying(u)) - 1
      BY <3>1, TryingFacts, FS_RemoveElement
    <3>3. attempts'[u] = attempts[u] + 1
      BY <2>1, <2>3 DEF TypeOK
    <3>4. attempts[u] + Cardinality(Trying(u)) < Limit + Cardinality(ConnsOf(u)) + faults
      BY DEF AttemptsInv
    <3>5. /\ attempts[u] \in Nat /\ faults \in Nat /\ faults' \in Nat /\ Limit \in Nat
          /\ Cardinality(Trying(u)) \in Nat /\ Cardinality(ConnsOf(u)) \in Nat
      BY <1>0, TryingFacts, AuthAssumption DEF TypeOK
    <3>6. QED
      BY <1>1, <3>2, <3>3, <3>4, <3>5
  <2>4. QED
    BY <2>2, <2>3
<1> USE DEF Goto, Reply, TypeOK, Steps
<1>6. ASSUME NEW c \in Conns, ServerStep(c) PROVE Bounded
  <2>1. CASE Prompt(c)         BY <2>1, <1>3 DEF Prompt
  <2>2. CASE CountUsers(c)     BY <2>2, <1>3 DEF CountUsers
  <2>3. CASE InsertUser(c)     BY <2>3, <1>3 DEF InsertUser
  <2>4. CASE GetAttempts(c)
    <3>1. CASE attempts[UserOf[c]] >= Limit
      BY <2>4, <3>1, <1>3 DEF GetAttempts
    <3>2. CASE attempts[UserOf[c]] < Limit
      BY <2>4, <3>2, <1>4, AuthAssumption DEF GetAttempts
    <3>3. QED
      BY <3>1, <3>2, AuthAssumption
  <2>5. CASE SelectHash(c)     BY <2>5, <1>3 DEF SelectHash
  <2>6. CASE DelAttempts(c)    BY <2>6, <1>3 DEF DelAttempts
  <2>7. CASE IncrAttempts(c)   BY <2>7, <1>5
  <2>8. CASE ExpireAttempts(c) BY <2>8, <1>3 DEF ExpireAttempts
  <2>9. CASE OpenSession(c)    BY <2>9, <1>3 DEF OpenSession
  <2>10. QED
    BY <1>6, <2>1, <2>2, <2>3, <2>4, <2>5, <2>6, <2>7, <2>8, <2>9 DEF ServerStep
<1>7. ASSUME NEW c \in Conns, Connect(c) \/ Hangup(c) \/ OtherLine(c) PROVE Bounded
  BY <1>7, <1>3 DEF Connect, Hangup, OtherLine
<1>8. ASSUME NEW c \in Conns, StatementFails(c) PROVE Bounded
  <2>1. CASE pc[c] = "attempts"
    BY <1>8, <2>1, <1>4 DEF StatementFails
  <2>2. CASE pc[c] # "attempts"
    BY <1>8, <2>2, <1>3 DEF StatementFails
  <2>3. QED
    BY <2>1, <2>2
<1>9. ASSUME NEW c \in Conns, NEW p \in Passwords, Register(c, p) \/ Login(c, p)
      PROVE  Bounded
  BY <1>9, <1>3 DEF Register, Login
<1>10. ASSUME NEW v \in Users, Lapse(v) PROVE Bounded
  <2>1. attempts'[u] <= attempts[u] /\ Trying(u)' = Trying(u)
    BY <1>10 DEF Lapse, Trying, ConnsOf, conn
  <2>2. QED
    BY <2>1, <1>2
<1>11. CASE UNCHANGED vars
  <2>1. attempts'[u] <= attempts[u] /\ Trying(u)' = Trying(u)
    BY <1>11 DEF vars, Trying, ConnsOf, conn, key
  <2>2. QED
    BY <2>1, <1>2
<1>12. QED
  BY <1>6, <1>7, <1>8, <1>9, <1>10, <1>11 DEF Next

(* However many connections of a user try at once, and however many GETs   *)
(* are lost, the attempts counted stay within the bound: the code's check  *)
(* of the limit is not atomic with its INCR, and this is what it is worth. *)
THEOREM AttemptsAreBounded == Spec => []AttemptsBounded
<1>1. Init => AttemptsInv
  <2> SUFFICES ASSUME Init PROVE AttemptsInv
    OBVIOUS
  <2>1. faults <= MaxFaults
    BY AuthAssumption DEF Init
  <2>2. ASSUME NEW u \in Users, ConnsOf(u) # {}
        PROVE  attempts[u] + Cardinality(Trying(u))
                 < Limit + Cardinality(ConnsOf(u)) + faults
    <3>1. Trying(u) = {}
      BY DEF Init, Trying, ConnsOf
    <3>2. Cardinality(Trying(u)) = 0
      BY <3>1, FS_EmptySet
    <3>3. attempts[u] = 0 /\ faults = 0
      BY DEF Init
    <3>4. QED
      BY <2>2, <3>2, <3>3, TryingFacts, AuthAssumption
  <2>3. QED
    BY <2>1, <2>2 DEF AttemptsInv
<1>2. TypeOK /\ AttemptsInv => AttemptsBounded
  <2> SUFFICES ASSUME TypeOK, AttemptsInv, NEW u \in Users, ConnsOf(u) # {}
               PROVE  attempts[u] < Limit + Cardinality(ConnsOf(u)) + MaxFaults
    BY DEF AttemptsBounded
  <2>1. /\ faults <= MaxFaults
        /\ attempts[u] + Cardinality(Trying(u))
             < Limit + Cardinality(ConnsOf(u)) + faults
    BY DEF AttemptsInv
  <2>2. /\ attempts[u] \in Nat /\ faults \in Nat
        /\ Cardinality(Trying(u)) \in Nat /\ Cardinality(ConnsOf(u)) \in Nat
    BY TryingFacts DEF TypeOK
  <2>3. QED
    BY <2>1, <2>2, AuthAssumption
<1>3. QED
  BY AuthTypeCorrect, AttemptsStep, <1>1, <1>2, PTL DEF Spec

-----------------------------------------------------------------------------
(* Locks.  While no statement has failed, a lock comes to an end by        *)
(* itself: the connection whose INCR made the key is still about to set    *)
(* its time to live, or somebody has.                                      *)
LEMMA LocksStep == TypeOK /\ LocksLapse /\ [Next]_vars => LocksLapse'
<1> SUFFICES ASSUME TypeOK, LocksLapse, [Next]_vars PROVE LocksLapse'
  OBVIOUS
<1> USE AuthAssumption DEF TypeOK, Steps, Goto, Reply, conn, key, LocksLapse, ConnsOf
<1>1. ASSUME NEW c \in Conns, ServerStep(c) PROVE LocksLapse'
  <2>1. CASE Prompt(c)         BY <2>1 DEF Prompt
  <2>2. CASE CountUsers(c)     BY <2>2 DEF CountUsers
  <2>3. CASE InsertUser(c)     BY <2>3 DEF InsertUser
  <2>4. CASE GetAttempts(c)    BY <2>4 DEF GetAttempts
  <2>5. CASE SelectHash(c)     BY <2>5 DEF SelectHash
  <2>6. CASE DelAttempts(c)    BY <2>6 DEF DelAttempts
  <2>7. CASE IncrAttempts(c)   BY <2>7 DEF IncrAttempts
  <2>8. CASE ExpireAttempts(c) BY <2>8 DEF ExpireAttempts
  <2>9. CASE OpenSession(c)    BY <2>9 DEF OpenSession
  <2>10. QED
    BY <1>1, <2>1, <2>2, <2>3, <2>4, <2>5, <2>6, <2>7, <2>8, <2>9 DEF ServerStep
<1>2. ASSUME NEW c \in Conns, Connect(c) \/ Hangup(c) \/ OtherLine(c) PROVE LocksLapse'
  BY <1>2 DEF Connect, Hangup, OtherLine
<1>3. ASSUME NEW c \in Conns, StatementFails(c) PROVE LocksLapse'
  BY <1>3 DEF StatementFails
<1>4. ASSUME NEW c \in Conns, NEW p \in Passwords, Register(c, p) \/ Login(c, p)
      PROVE  LocksLapse'
  BY <1>4 DEF Register, Login
<1>5. ASSUME NEW u \in Users, Lapse(u) PROVE LocksLapse'
  BY <1>5 DEF Lapse
<1>6. CASE UNCHANGED vars
  BY <1>6 DEF vars
<1>7. QED
  BY <1>1, <1>2, <1>3, <1>4, <1>5, <1>6 DEF Next

(* Without a failed statement no key of login_attempts is left without a   *)
(* time to live.                                                           *)
THEOREM LocksEnd == Spec => []LocksLapse
<1>1. Init => LocksLapse
  BY DEF Init, LocksLapse
<1>2. QED
  BY AuthTypeCorrect, LocksStep, <1>1, PTL DEF Spec
=============================================================================

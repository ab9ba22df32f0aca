-------------------------------- MODULE Auth --------------------------------
(***************************************************************************)
(* Logging in: the first lines of handle_connection, up to the return of   *)
(* authenticate_user, for connections that race on the users table and on  *)
(* the Redis key login_attempts:<username>.                                *)
(*                                                                         *)
(* Every SQL statement and every Redis command is a step of its own.  The  *)
(* client is free here: any line may arrive.  LoginUI restricts it to what *)
(* the login screen sends.                                                 *)
(***************************************************************************)
EXTENDS Naturals, FiniteSets

CONSTANTS
  Users,       \* usernames clients connect with, all valid and not banned
  Conns,       \* connections, each used once
  UserOf,      \* UserOf[c]: the username on the first line of c
  Passwords,   \* what may be typed after /register and /login
  Short,       \* the passwords with less than 8 bytes
  Unset,       \* no password
  StartRows,   \* what the table may hold at the start: passwords, Unset if no row
  Limit,       \* failed attempts before /login is refused (3 in the code)
  MaxFaults    \* bound: statements that fail

ASSUME AuthAssumption ==
  /\ UserOf \in [Conns -> Users]
  /\ IsFiniteSet(Conns)
  /\ Short \subseteq Passwords
  /\ Unset \notin Passwords
  /\ StartRows \subseteq [Users -> Passwords \cup {Unset}]
  /\ Limit \in Nat \ {0}
  /\ MaxFaults \in Nat

VARIABLES
  pc,        \* what each connection does next
  typed,     \* the password of the line it is handling
  role,      \* the role it is about to insert
  prompt,    \* the last notice sent to its client
  password,  \* users.password_hash, Unset where there is no row
  roles,     \* users.role
  attempts,  \* login_attempts, 0 where there is no key
  expiring,  \* does that key have a time to live?
  faults     \* the statements that failed

conn  == <<pc, typed, role, prompt>>
table == <<password, roles>>
key   == <<attempts, expiring>>
vars  == <<conn, table, key, faults>>

Steps == {"off", "prompting", "reading", "count", "insert", "attempts",
          "select", "del", "incr", "expire", "session", "in", "closed"}

Notices == {"none", "login", "register", "short", "taken", "empty", "locked",
            "unknown", "wrong", "usage", "token", "error"}

Registered(u) == password[u] # Unset
SomeAdmin     == \E u \in Users : roles[u] = "admin"

Init ==
  /\ pc = [c \in Conns |-> "off"]
  /\ typed = [c \in Conns |-> Unset]
  /\ role = [c \in Conns |-> "user"]
  /\ prompt = [c \in Conns |-> "none"]
  /\ password \in StartRows
  /\ roles \in [Users -> {"none", "admin", "user"}]
  /\ \A u \in Users : roles[u] = "none" <=> ~Registered(u)
  /\ (\E u \in Users : Registered(u)) => SomeAdmin
  /\ attempts = [u \in Users |-> 0]
  /\ expiring = [u \in Users |-> FALSE]
  /\ faults = 0

-----------------------------------------------------------------------------
Goto(c, step)    == pc' = [pc EXCEPT ![c] = step]
Tell(c, notice)  == prompt' = [prompt EXCEPT ![c] = notice]

(* Back to read_line, with a notice.                                       *)
Reply(c, notice) == Goto(c, "reading") /\ Tell(c, notice)

Connect(c) ==
  /\ pc[c] = "off"
  /\ Goto(c, "prompting")
  /\ UNCHANGED <<typed, role, prompt, table, key, faults>>

(* The first prompt says whether the username has a row.                   *)
Prompt(c) ==
  /\ pc[c] = "prompting"
  /\ Reply(c, IF Registered(UserOf[c]) THEN "login" ELSE "register")
  /\ UNCHANGED <<typed, role, table, key, faults>>

(* EOF, or the process behind the socket is gone.                          *)
Hangup(c) ==
  /\ pc[c] = "reading"
  /\ Goto(c, "closed")
  /\ UNCHANGED <<typed, role, prompt, table, key, faults>>

Register(c, p) ==
  /\ pc[c] = "reading"
  /\ typed' = [typed EXCEPT ![c] = p]
  /\ IF p \in Short THEN Reply(c, "short") ELSE Goto(c, "count") /\ UNCHANGED prompt
  /\ UNCHANGED <<role, table, key, faults>>

Login(c, p) ==
  /\ pc[c] = "reading"
  /\ typed' = [typed EXCEPT ![c] = p]
  /\ Goto(c, "attempts")
  /\ UNCHANGED <<role, prompt, table, key, faults>>

(* "/login " with nothing after it, or neither command.                    *)
OtherLine(c) ==
  /\ pc[c] = "reading"
  /\ \E notice \in {"empty", "usage"} : Reply(c, notice)
  /\ UNCHANGED <<typed, role, table, key, faults>>

(* Wrong: the role is decided before anything is counted.                  *)
CountAfterwards(c) ==
  /\ pc[c] = "count"
  /\ role' = [role EXCEPT ![c] = "user"]
  /\ Goto(c, "insert")
  /\ UNCHANGED <<typed, prompt, table, key, faults>>

(* SELECT COUNT( * ): whoever finds the table empty will be the admin.     *)
CountUsers(c) ==
  /\ pc[c] = "count"
  /\ role' = [role EXCEPT ![c] =
       IF \A u \in Users : ~Registered(u) THEN "admin" ELSE "user"]
  /\ Goto(c, "insert")
  /\ UNCHANGED <<typed, prompt, table, key, faults>>

(* Wrong: the hash is written over the one that is there.                  *)
UpsertUser(c) ==
  LET u == UserOf[c] IN
  /\ pc[c] = "insert"
  /\ password' = [password EXCEPT ![u] = typed[c]]
  /\ roles' = IF Registered(u) THEN roles ELSE [roles EXCEPT ![u] = role[c]]
  /\ Goto(c, "session")
  /\ UNCHANGED <<typed, role, prompt, key, faults>>

(* INSERT: usernames are UNIQUE.                                           *)
InsertUser(c) ==
  LET u == UserOf[c] IN
  /\ pc[c] = "insert"
  /\ IF Registered(u)
     THEN Reply(c, "taken") /\ UNCHANGED table
     ELSE /\ password' = [password EXCEPT ![u] = typed[c]]
          /\ roles' = [roles EXCEPT ![u] = role[c]]
          /\ Goto(c, "session") /\ UNCHANGED prompt
  /\ UNCHANGED <<typed, role, key, faults>>

(* Wrong: the limit is not looked at.                                      *)
GetAttemptsOnly(c) ==
  /\ pc[c] = "attempts"
  /\ Goto(c, "select")
  /\ UNCHANGED <<typed, role, prompt, table, key, faults>>

GetAttempts(c) ==
  /\ pc[c] = "attempts"
  /\ IF attempts[UserOf[c]] >= Limit
     THEN Reply(c, "locked")
     ELSE Goto(c, "select") /\ UNCHANGED prompt
  /\ UNCHANGED <<typed, role, table, key, faults>>

SelectHash(c) ==
  LET u == UserOf[c] IN
  /\ pc[c] = "select"
  /\ \/ ~Registered(u) /\ Reply(c, "unknown")
     \/ Registered(u) /\ password[u] = typed[c] /\ Goto(c, "del") /\ UNCHANGED prompt
     \/ Registered(u) /\ password[u] # typed[c] /\ Goto(c, "incr") /\ UNCHANGED prompt
  /\ UNCHANGED <<typed, role, table, key, faults>>

DelAttempts(c) ==
  LET u == UserOf[c] IN
  /\ pc[c] = "del"
  /\ attempts' = [attempts EXCEPT ![u] = 0]
  /\ expiring' = [expiring EXCEPT ![u] = FALSE]
  /\ Goto(c, "session")
  /\ UNCHANGED <<typed, role, prompt, table, faults>>

(* Wrong: the key is given its time to live when the limit is reached.     *)
IncrSetsTtlLate(c) ==
  LET u == UserOf[c] IN
  /\ pc[c] = "incr"
  /\ attempts' = [attempts EXCEPT ![u] = @ + 1]
  /\ IF attempts[u] = Limit
     THEN Goto(c, "expire") /\ UNCHANGED prompt
     ELSE Reply(c, "wrong")
  /\ UNCHANGED <<typed, role, table, expiring, faults>>

(* INCR; the first attempt is followed by EXPIRE.                          *)
IncrAttempts(c) ==
  LET u == UserOf[c] IN
  /\ pc[c] = "incr"
  /\ attempts' = [attempts EXCEPT ![u] = @ + 1]
  /\ IF attempts[u] = 0
     THEN Goto(c, "expire") /\ UNCHANGED prompt
     ELSE Reply(c, "wrong")
  /\ UNCHANGED <<typed, role, table, expiring, faults>>

(* EXPIRE does nothing when the key is gone.                               *)
ExpireAttempts(c) ==
  LET u == UserOf[c] IN
  /\ pc[c] = "expire"
  /\ expiring' = [expiring EXCEPT ![u] = attempts[u] > 0]
  /\ Reply(c, "wrong")
  /\ UNCHANGED <<typed, role, table, attempts, faults>>

(* SET session:<token>, and the client is in.                              *)
OpenSession(c) ==
  /\ pc[c] = "session"
  /\ Goto(c, "in")
  /\ Tell(c, "token")
  /\ UNCHANGED <<typed, role, table, key, faults>>

(* The 60 seconds of a key are over.                                       *)
Lapse(u) ==
  /\ expiring[u]
  /\ attempts' = [attempts EXCEPT ![u] = 0]
  /\ expiring' = [expiring EXCEPT ![u] = FALSE]
  /\ UNCHANGED <<conn, table, faults>>

(* A statement fails: the first SELECT and the one of the hash end the     *)
(* connection, COUNT reads as 0, INSERT as a taken name, GET as 0 and DEL  *)
(* is ignored; INCR, EXPIRE and SET are unwrapped and their task dies.     *)
StatementFails(c) ==
  /\ faults < MaxFaults
  /\ faults' = faults + 1
  /\ \/ /\ pc[c] \in {"prompting", "select"}
        /\ Goto(c, "closed") /\ Tell(c, "error") /\ UNCHANGED role
     \/ /\ pc[c] \in {"incr", "expire", "session"}
        /\ Goto(c, "closed") /\ UNCHANGED <<role, prompt>>
     \/ /\ pc[c] = "count"
        /\ role' = [role EXCEPT ![c] = "admin"]
        /\ Goto(c, "insert") /\ UNCHANGED prompt
     \/ pc[c] = "insert" /\ Reply(c, "taken") /\ UNCHANGED role
     \/ pc[c] = "attempts" /\ Goto(c, "select") /\ UNCHANGED <<role, prompt>>
     \/ pc[c] = "del" /\ Goto(c, "session") /\ UNCHANGED <<role, prompt>>
  /\ UNCHANGED <<typed, table, key>>

-----------------------------------------------------------------------------
ServerStep(c) ==
  \/ Prompt(c)     \/ CountUsers(c)  \/ InsertUser(c)   \/ GetAttempts(c)
  \/ SelectHash(c) \/ DelAttempts(c) \/ IncrAttempts(c) \/ ExpireAttempts(c)
  \/ OpenSession(c)

Next ==
  \/ \E c \in Conns :
       \/ ServerStep(c) \/ Connect(c) \/ Hangup(c) \/ OtherLine(c) \/ StatementFails(c)
       \/ \E p \in Passwords : Register(c, p) \/ Login(c, p)
  \/ \E u \in Users : Lapse(u)

Spec == Init /\ [][Next]_vars

-----------------------------------------------------------------------------
(* Properties.                                                             *)

TypeOK ==
  /\ pc \in [Conns -> Steps]
  /\ typed \in [Conns -> Passwords \cup {Unset}]
  /\ role \in [Conns -> {"admin", "user"}]
  /\ prompt \in [Conns -> Notices]
  /\ password \in [Users -> Passwords \cup {Unset}]
  /\ roles \in [Users -> {"none", "admin", "user"}]
  /\ attempts \in [Users -> Nat]
  /\ expiring \in [Users -> BOOLEAN]
  /\ faults \in Nat

(* However the registrations of the first users interleave, once anybody   *)
(* has a row somebody is an admin: only an admin can mute or ban, and      *)
(* nobody is made one later.                                               *)
HasAdmin == (\E u \in Users : Registered(u)) => SomeAdmin

(* Whoever is let in typed the password of the row: of two connections     *)
(* that register one name at once, only the one whose INSERT succeeded.    *)
OwnPassword ==
  \A c \in Conns : pc[c] \in {"session", "in"} => typed[c] = password[UserOf[c]]

(* The attempts a user can make before it is locked out.  Connections that *)
(* pass the check together may each add one, and so may a lost GET.        *)
ConnsOf(u)  == {c \in Conns : UserOf[c] = u}
Trying(u)   == {c \in ConnsOf(u) : pc[c] \in {"select", "incr"}}

AttemptsBounded ==
  \A u \in Users : ConnsOf(u) # {} =>
    attempts[u] < Limit + Cardinality(ConnsOf(u)) + MaxFaults

(* "Too many failed attempts. Try again in {} seconds.": a lock that holds *)
(* when nobody is about to set its time to live has one, as long as no     *)
(* statement failed: a task that ends between INCR and EXPIRE leaves one   *)
(* that has no end.                                                        *)
LocksLapse ==
  \A u \in Users : attempts[u] > 0 /\ faults = 0 =>
    expiring[u] \/ \E c \in ConnsOf(u) : pc[c] = "expire"
=============================================================================

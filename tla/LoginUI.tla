------------------------------- MODULE LoginUI -------------------------------
(***************************************************************************)
(* The login screen in front of Auth: run_login_ui keeps the last notice   *)
(* of the server and sends what the user typed as /register when that      *)
(* notice contains "Register", as /login otherwise.                        *)
(***************************************************************************)
EXTENDS Auth

(* The notices with the word: "Register a password." and "Registered and   *)
(* logged in."; "User not found. Use /register first." has it in lower     *)
(* case only.                                                              *)
SaysRegister == {"register"}

(* Wrong: the login screen that keeps to its first command.                *)
RegistersAlways(c, p) == Register(c, p)

(* Enter: nothing is sent while the field is empty.                        *)
Enter(c, p) ==
  IF prompt[c] \in SaysRegister THEN Register(c, p) ELSE Login(c, p)

UINext ==
  \/ \E c \in Conns :
       \/ ServerStep(c) \/ Connect(c) \/ Hangup(c) \/ StatementFails(c)
       \/ \E p \in Passwords : Enter(c, p)
  \/ \E u \in Users : Lapse(u)

UISpec == Init /\ [][UINext]_vars

(* Redis lets a key expire, the runtime polls the tasks, and the user      *)
(* keeps trying the password the row has, or a long one if there is none.  *)
RightPassword(c) ==
  \E p \in Passwords \ Short :
    /\ Registered(UserOf[c]) => p = password[UserOf[c]]
    /\ Enter(c, p)

FairUISpec ==
  /\ UISpec
  /\ \A u \in Users : WF_vars(Lapse(u))
  /\ \A c \in Conns : WF_vars(ServerStep(c)) /\ WF_vars(RightPassword(c))

(* A line of c with a wrong password is being handled: c will count it.    *)
Mistaken(c) ==
  /\ pc[c] \in {"attempts", "select", "incr"}
  /\ typed[c] # password[UserOf[c]]

(* A user with a row who keeps entering the right password gets in,        *)
(* whatever the first prompt said and however often the name was locked,   *)
(* if the connection is not ended and the wrong passwords on the name, its *)
(* own and those of other connections, stop at some time.  The lock is on  *)
(* the name: whoever goes on typing wrong passwords under it locks the     *)
(* owner out again after every lapse, and nothing in the code ends that;   *)
(* nor a lock whose EXPIRE failed, hence faults = 0.                       *)
OwnerGetsIn ==
  \A c \in Conns :
    <>[](faults = 0 /\ \A d \in ConnsOf(UserOf[c]) : ~Mistaken(d)) =>
      (pc[c] = "reading" /\ Registered(UserOf[c]) ~> pc[c] \in {"in", "closed"})
=============================================================================

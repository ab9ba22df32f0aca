---------------------------- MODULE MCAdmission ----------------------------
(* One user with two connections, an administrator who may also be the     *)
(* target: what one connection orders meets what the other is doing.       *)
(* A second name is banned from the start.                                 *)
EXTENDS Admission, TLC

CONSTANTS bob, eve, b1, b2

MCOwner == (b1 :> bob) @@ (b2 :> bob)
=============================================================================

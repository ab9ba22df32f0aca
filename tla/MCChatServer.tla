---------------------------- MODULE MCChatServer ----------------------------
(* Instances of ChatServer for TLC. *)
EXTENDS ChatServer

CONSTANTS alice, bob, s1, s2, s3, general, dev

(* One connection each, two users. *)
OwnerTwo == (s1 :> alice) @@ (s2 :> bob)
(* alice connects twice. *)
OwnerTwice == (s1 :> alice) @@ (s2 :> bob) @@ (s3 :> alice)

(* Nobody has been here before. *)
StartEmpty == {[u \in Users |-> <<>>]}
(* Nobody has, or everybody was in dev last. *)
StartDev == StartEmpty \cup {[u \in Users |-> <<dev, general>>]}
(* alice and bob were in their DM last. *)
StartDm == {[u \in Users |-> <<dm_room(alice, bob), general>>]}
StartAny == StartDev \cup StartDm
=============================================================================

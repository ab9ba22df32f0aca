---------------------------- MODULE MCConnection ----------------------------
(* Two sessions of one user; the client of one may stop reading.           *)
EXTENDS Connection, TLC

CONSTANTS bob, c1, c2

MCOwner == (c1 :> bob) @@ (c2 :> bob)
MCLines == (c1 :> 2) @@ (c2 :> 0)
=============================================================================

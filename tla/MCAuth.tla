------------------------------- MODULE MCAuth -------------------------------
(* Up to three connections: two of ann, one of bob.                        *)
EXTENDS LoginUI, TLC

CONSTANTS ann, bob, a1, a2, b1, secret, other

MCUsers  == {ann, bob}
MCUserOf == (a1 :> ann) @@ (a2 :> ann) @@ (b1 :> bob)
Nobody   == (ann :> Unset) @@ (bob :> Unset)
AnnOnly  == (ann :> secret) @@ (bob :> Unset)
StartAny == {Nobody, AnnOnly}
=============================================================================

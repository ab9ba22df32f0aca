--------------------------- MODULE MCReadReceipts ---------------------------
(* Two users in two channels, one of them still connecting, and a name the *)
(* server refuses.                                                         *)
EXTENDS ReadReceipts, TLC

CONSTANTS general, tea, dotted, ann, bob

MCStart == (ann :> <<general, tea>>) @@ (bob :> <<tea, general>>)
=============================================================================

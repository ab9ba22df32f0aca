------------------------------ MODULE MCMedia -------------------------------
(* Two uploads, each of which may be a recording, an audio file or an      *)
(* image: nothing tells them apart before they are made.                   *)
EXTENDS Media, TLC

CONSTANTS u1, u2
=============================================================================

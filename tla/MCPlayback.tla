----------------------------- MODULE MCPlayback -----------------------------
(* Two notes and two playbacks, of one note or of both.                    *)
EXTENDS Playback, TLC

CONSTANTS n1, n2, p1, p2
=============================================================================

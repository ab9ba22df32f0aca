---------------------------- MODULE MCActiveRoom ----------------------------
(* A channel, a DM of the user's and a name the server refuses, besides    *)
(* the default room.                                                       *)
EXTENDS ActiveRoom, TLC

CONSTANTS general, tea, dm, dotted, me, peer

MCRooms == {general, tea, dm, dotted}
MCDmOf  == (peer :> dm)
MCStart == <<tea, general>>
(* A user who was sent a DM between registering and joining the first room. *)
NewUser == <<dm>>
=============================================================================

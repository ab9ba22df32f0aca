------------------------------ MODULE AppState ------------------------------
(***************************************************************************)
(* The shared registry of the chat server, struct AppState: each operator  *)
(* is what one method does between taking and releasing its lock, or what  *)
(* one SQL statement does to the table it touches.                         *)
(*                                                                         *)
(*   rms        AppState.rooms: for every room how many times its Vec     *)
(*              holds each pair <<username, tx>>.  The Vec's order is left *)
(*              out: no method looks at it.  A tx is named by the          *)
(*              connection whose channel it writes to.                     *)
(*   mine       the rows of room_members of one user, as the sequence of   *)
(*              its rooms by last_joined_at, the latest first.             *)
(***************************************************************************)
EXTENDS Sequences, SequencesExt

Subscribed(rms, room, e) == rms[room][e] > 0

(* retain(|(name, _)| name != user), and push.                             *)
retain_others(members, user) ==
  [e \in DOMAIN members |-> IF e[1] = user THEN 0 ELSE members[e]]

push(members, e) == [members EXCEPT ![e] = @ + 1]

(* Wrong: subscribe_room that does not look for an older entry.            *)
subscribe_room_no_retain(rms, user, room, tx) ==
  [rms EXCEPT ![room] = push(@, <<user, tx>>)]

subscribe_room(rms, user, room, tx) ==
  [rms EXCEPT ![room] = push(retain_others(@, user), <<user, tx>>)]

leave_all_rooms(rms, user) ==
  [r \in DOMAIN rms |-> retain_others(rms[r], user)]

(* Wrong: unsubscribe_room that loses the user's other rooms.              *)
unsubscribe_room_everywhere(rms, user, room) == leave_all_rooms(rms, user)

unsubscribe_room(rms, user, room) ==
  [rms EXCEPT ![room] = retain_others(@, user)]

get_user_subscribed_rooms(rms, user) ==
  {r \in DOMAIN rms : \E e \in DOMAIN rms[r] : e[1] = user /\ Subscribed(rms, r, e)}

(* Wrong: send_to_room that ignores which sends failed.                    *)
send_to_room_no_retain(rms, room, open) == rms

(* send_to_room keeps the subscribers whose send succeeded: those whose    *)
(* receiver still exists.                                                  *)
send_to_room(rms, room, open) ==
  [rms EXCEPT ![room] =
     [e \in DOMAIN @ |-> IF e[2] \in open THEN @[e] ELSE 0]]

(* The one row a user has for a room, wherever it stands in the order.     *)
Without(mine, room) ==
  IF \E i \in 1..Len(mine) : mine[i] = room
  THEN RemoveAt(mine, CHOOSE i \in 1..Len(mine) : mine[i] = room)
  ELSE mine

(* An upsert that sets last_joined_at to now().                            *)
save_room_membership(mine, room) == <<room>> \o Without(mine, room)

remove_room_membership(mine, room) == Without(mine, room)

(* get_last_room(..).unwrap_or("general").                                 *)
LastRoomOr(mine, default) == IF mine = <<>> THEN default ELSE Head(mine)
=============================================================================

------------------------------ MODULE Playback ------------------------------
(***************************************************************************)
(* Playing audio notes in the terminal client.                             *)
(*                                                                         *)
(* start_playback spawns a task that fetches the note, a ticker that sends *)
(* spectrum bins, and a thread that plays it and reports when it is over.  *)
(* They share with the event loop a stop flag, made anew for each          *)
(* playback, and two channels: server_tx, which also carries the lines of  *)
(* the server, and spectrum_tx.  The event loop reads a key, then all of   *)
(* server_rx, then all of spectrum_rx.                                     *)
(***************************************************************************)
EXTENDS Naturals, Sequences, FiniteSets

CONSTANTS
  Notes,     \* the audio notes of the current room, by message id
  Plays,     \* playbacks: each stands for one call of start_playback
  NoNote,    \* playing_audio = None
  NoPlay,    \* spectrum_stop = None, live_spectrum empty
  MaxBins    \* bound: bins in spectrum_rx

ASSUME PlaybackAssumption ==
  /\ NoNote \notin Notes
  /\ NoPlay \notin Plays
  /\ MaxBins \in Nat

VARIABLES
  playing,   \* audio.playing_audio
  current,   \* the playback whose flag audio.spectrum_stop holds
  note,      \* the note each playback plays
  job,       \* what the task of each playback is doing
  stop,      \* its stop flag
  ticker,    \* is its ticker running?
  events,    \* server_rx
  bins,      \* spectrum_rx: the playbacks whose bins are in it
  live,      \* the playback whose bins live_spectrum shows
  phase,     \* what the event loop reads next
  quit       \* should_quit

audio == <<playing, current, live>>
tasks == <<note, job, ticker>>
vars  == <<audio, tasks, stop, events, bins, phase, quit>>

Jobs   == {"off", "fetching", "opening", "playing", "done", "failed"}
Events == [kind : {"done"}, note : Notes] \cup [kind : {"error", "closed"}, note : {NoNote}]

Init ==
  /\ playing = NoNote
  /\ current = NoPlay
  /\ note = [p \in Plays |-> NoNote]
  /\ job = [p \in Plays |-> "off"]
  /\ stop = [p \in Plays |-> FALSE]
  /\ ticker = [p \in Plays |-> FALSE]
  /\ events = <<>>
  /\ bins = <<>>
  /\ live = NoPlay
  /\ phase = "keys"
  /\ quit = FALSE

-----------------------------------------------------------------------------
(* The tasks of a playback.                                                *)

Send(kind, n) == events' = Append(events, [kind |-> kind, note |-> n])

Fetch(p) ==
  /\ job[p] = "fetching"
  /\ \/ /\ job' = [job EXCEPT ![p] = "opening"]
        /\ \E decodes \in BOOLEAN : ticker' = [ticker EXCEPT ![p] = decodes]
        /\ UNCHANGED events
     \/ /\ job' = [job EXCEPT ![p] = "failed"]
        /\ Send("error", NoNote)
        /\ UNCHANGED ticker
  /\ UNCHANGED <<audio, note, stop, bins, phase, quit>>

(* The output device and the decoder.                                      *)
Open(p) ==
  /\ job[p] = "opening"
  /\ \/ job' = [job EXCEPT ![p] = "playing"] /\ UNCHANGED events
     \/ job' = [job EXCEPT ![p] = "failed"] /\ Send("error", NoNote)
  /\ UNCHANGED <<audio, note, ticker, stop, bins, phase, quit>>

(* Wrong: a thread that was told to stop does not report.                  *)
EndSilently(p) ==
  /\ job[p] = "playing"
  /\ job' = [job EXCEPT ![p] = "done"]
  /\ UNCHANGED <<audio, note, ticker, stop, events, bins, phase, quit>>

(* The note is over, or the flag is set: the thread reports either way.    *)
End(p) ==
  /\ job[p] = "playing"
  /\ job' = [job EXCEPT ![p] = "done"]
  /\ Send("done", note[p])
  /\ UNCHANGED <<audio, note, ticker, stop, bins, phase, quit>>

Tick(p) ==
  /\ ticker[p]
  /\ \/ /\ ~stop[p] /\ Len(bins) < MaxBins
        /\ bins' = Append(bins, p) /\ UNCHANGED ticker
     \/ ticker' = [ticker EXCEPT ![p] = FALSE] /\ UNCHANGED bins
  /\ UNCHANGED <<audio, note, job, stop, events, phase, quit>>

(* The reader task: the server closed the connection.                      *)
ConnClosed ==
  /\ \A i \in 1..Len(events) : events[i].kind # "closed"
  /\ ~quit
  /\ Send("closed", NoNote)
  /\ UNCHANGED <<audio, tasks, stop, bins, phase, quit>>

-----------------------------------------------------------------------------
(* The event loop.                                                         *)

stop_playback ==
  /\ stop' = IF current = NoPlay THEN stop ELSE [stop EXCEPT ![current] = TRUE]
  /\ playing' = NoNote
  /\ current' = NoPlay
  /\ live' = NoPlay

(* start_playback, of a note found in the current room.                    *)
start_playback(n) ==
  \E p \in Plays :
    /\ job[p] = "off"
    /\ job' = [job EXCEPT ![p] = "fetching"]
    /\ note' = [note EXCEPT ![p] = n]
    /\ playing' = n
    /\ current' = p

(* A key or a click: toggle_play_audio stops whatever plays.               *)
TogglePlayAudio ==
  /\ phase = "keys" /\ ~quit
  /\ phase' = "events"
  /\ \/ /\ playing # NoNote
        /\ stop_playback /\ UNCHANGED tasks
     \/ /\ playing = NoNote
        /\ \E n \in Notes : start_playback(n)
        /\ UNCHANGED <<ticker, stop, live>>
  /\ UNCHANGED <<events, bins, quit>>

(* Wrong: the player button starts a note without stopping another one.    *)
PlayOverAnother(n) ==
  /\ phase = "keys" /\ ~quit
  /\ phase' = "events"
  /\ playing # n
  /\ start_playback(n)
  /\ UNCHANGED <<ticker, stop, live, events, bins, quit>>

(* toggle_play_message stops the note n, or starts it in place of another. *)
TogglePlayMessage(n) ==
  /\ phase = "keys" /\ ~quit
  /\ phase' = "events"
  /\ \/ /\ playing = n
        /\ stop_playback /\ UNCHANGED tasks
     \/ /\ playing # n
        /\ start_playback(n)
        /\ stop' = IF current = NoPlay THEN stop ELSE [stop EXCEPT ![current] = TRUE]
        /\ live' = IF playing = NoNote THEN live ELSE NoPlay
        /\ UNCHANGED ticker
  /\ UNCHANGED <<events, bins, quit>>

OtherKey ==
  /\ phase = "keys" /\ ~quit
  /\ phase' = "events"
  /\ UNCHANGED <<audio, tasks, stop, events, bins, quit>>

(* Wrong: the bins stay on the screen.                                     *)
DoneKeepsBins ==
  /\ phase = "events" /\ events # <<>>
  /\ events' = Tail(events)
  /\ IF Head(events).kind = "done" /\ playing = Head(events).note
     THEN /\ stop' = [stop EXCEPT ![current] = TRUE]
          /\ playing' = NoNote /\ current' = NoPlay /\ live' = live
     ELSE UNCHANGED <<audio, stop>>
  /\ UNCHANGED <<tasks, bins, phase, quit>>

(* A line of server_rx.  "__PLAYBACK_DONE__:id" counts if the note id is   *)
(* playing; "__CONN_CLOSED__" ends the program after this iteration.       *)
HandleServerMessage ==
  LET e == Head(events) IN
  /\ phase = "events" /\ events # <<>>
  /\ events' = Tail(events)
  /\ \/ /\ e.kind = "done" /\ playing = e.note
        /\ stop_playback /\ UNCHANGED quit
     \/ /\ e.kind = "closed"
        /\ stop_playback /\ quit' = TRUE
     \/ /\ e.kind = "error" \/ (e.kind = "done" /\ playing # e.note)
        /\ UNCHANGED <<audio, stop, quit>>
  /\ UNCHANGED <<tasks, bins, phase>>

ServerRxEmpty ==
  /\ phase = "events" /\ events = <<>>
  /\ phase' = "bins"
  /\ UNCHANGED <<audio, tasks, stop, events, bins, quit>>

(* Bins count if their note is playing.                                    *)
TakeBins ==
  /\ phase = "bins" /\ bins # <<>>
  /\ bins' = Tail(bins)
  /\ live' = IF playing = note[Head(bins)] THEN Head(bins) ELSE live
  /\ UNCHANGED <<playing, current, tasks, stop, events, phase, quit>>

SpectrumRxEmpty ==
  /\ phase = "bins" /\ bins = <<>>
  /\ phase' = IF quit THEN "over" ELSE "keys"
  /\ UNCHANGED <<audio, tasks, stop, events, bins, quit>>

-----------------------------------------------------------------------------
TaskStep(p) == Fetch(p) \/ Open(p) \/ End(p)

(* What an iteration of the event loop does after the key.                 *)
LoopStep == HandleServerMessage \/ ServerRxEmpty \/ TakeBins \/ SpectrumRxEmpty

Next ==
  \/ \E p \in Plays : TaskStep(p) \/ Tick(p)
  \/ ConnClosed
  \/ TogglePlayAudio \/ OtherKey
  \/ \E n \in Notes : TogglePlayMessage(n)
  \/ LoopStep

Spec == Init /\ [][Next]_vars

(* Notes and downloads are finite; the event loop keeps turning, with or   *)
(* without a key: event::poll waits 16 ms.                                 *)
FairSpec ==
  /\ Spec
  /\ \A p \in Plays : WF_vars(TaskStep(p)) /\ WF_vars(Tick(p) /\ UNCHANGED bins)
  /\ WF_vars(LoopStep) /\ WF_vars(OtherKey)

-----------------------------------------------------------------------------
(* Properties.                                                             *)

(* The types.  There is a flag as long as a note is playing, and it is the *)
(* flag of a playback of that note.                                        *)
TypeOK ==
  /\ playing \in Notes \cup {NoNote}
  /\ current \in Plays \cup {NoPlay}
  /\ note \in [Plays -> Notes \cup {NoNote}]
  /\ job \in [Plays -> Jobs]
  /\ stop \in [Plays -> BOOLEAN]
  /\ ticker \in [Plays -> BOOLEAN]
  /\ events \in Seq(Events)
  /\ bins \in Seq(Plays)
  /\ live \in Plays \cup {NoPlay}
  /\ phase \in {"keys", "events", "bins", "over"}
  /\ quit \in BOOLEAN
  /\ playing = NoNote <=> current = NoPlay
  /\ current # NoPlay => note[current] = playing

Running(p) == job[p] \in {"fetching", "opening", "playing"} \/ ticker[p]

(* Two notes never play over each other: a playback that has not been told *)
(* to stop is the current one, whatever reports are still under way.       *)
OneAtATime ==
  \A p \in Plays : Running(p) /\ ~stop[p] => p = current

(* The bars on the screen are those of the note shown as playing, however  *)
(* late the bins of an earlier playback come in.                           *)
BarsOfPlayingNote == live # NoPlay => note[live] = playing

(* A playback that came to its end is not shown as playing for ever.       *)
EndIsShown ==
  \A p \in Plays : job[p] = "done" /\ ~quit ~> current # p
=============================================================================

------------------------------- MODULE Media --------------------------------
(***************************************************************************)
(* Recordings, uploads and attachments.                                    *)
(*                                                                         *)
(* The client records with /record or by holding the grave key, and        *)
(* uploads recordings, audio files and images from tasks it spawns.  The   *)
(* upload server writes a file, for an image a thumbnail too, and then a   *)
(* row of attachments, whose id is in its answer.  The task sends the      *)
(* address to the chat server as an /audio or /image line, and clients     *)
(* that show the message fetch it from there.                              *)
(***************************************************************************)
EXTENDS Naturals, FiniteSets

CONSTANTS
  Uploads,        \* recordings and uploads: each stands for one /record, /audio or /image
  NoTake,         \* record_samples = None
  ReleaseEvents,  \* does the terminal report that a key is released?
  MaxFaults,      \* bound: uploads that fail anywhere on the way
  MaxFetchFaults  \* bound: fetches of an image that fail

ASSUME MediaAssumption ==
  /\ NoTake \notin Uploads
  /\ ReleaseEvents \in BOOLEAN
  /\ MaxFaults \in Nat /\ MaxFetchFaults \in Nat

VARIABLES
  take,    \* the recording audio.record_samples belongs to
  held,    \* audio.push_to_talk_active
  down,    \* is the grave key down?
  byKey,   \* was push_to_talk_active set when the recording began?
  kind,    \* what each upload sends
  pc,      \* where its task is, and the upload server's handler for it
  wav,     \* what retro_audio_record.wav holds, the one file of all recordings
  lapped,  \* history: the recordings that had it open while a task was using it
  body,    \* what the bytes of each upload hold
  token,   \* is the session key of the user's token in Redis?
  files,   \* uploads whose file is in uploads/
  thumbs,  \* uploads whose thumbnail is in uploads/
  rows,    \* uploads with a row of attachments
  view,    \* what a client that shows the message has of each image
  faults, fetchFaults

recorder == <<take, held, down, byKey>>
store    == <<files, thumbs, rows>>
viewer   == <<view, fetchFaults>>
temp     == <<wav, lapped>>
vars     == <<recorder, kind, pc, temp, body, token, store, viewer, faults>>

Kinds  == {"record", "audio", "image"}
Stages == {"off", "recording", "create", "samples", "rest", "read", "request", "file",
           "thumb", "row", "answer", "line", "sent", "posted", "lost", "failed"}

(* A recording, or a file, is written in two parts.                        *)
Whole(u) == {u} \X {"first", "last"}
Parts    == Uploads \X {"first", "last"}

is_recording == take # NoTake

Init ==
  /\ take = NoTake /\ held = FALSE /\ down = FALSE /\ byKey = FALSE
  /\ kind = [u \in Uploads |-> "record"]
  /\ pc = [u \in Uploads |-> "off"]
  /\ wav = {} /\ lapped = [u \in Uploads |-> {}]
  /\ body = [u \in Uploads |-> {}]
  /\ token = TRUE
  /\ files = {} /\ thumbs = {} /\ rows = {}
  /\ view = [u \in Uploads |-> "none"]
  /\ faults = 0 /\ fetchFaults = 0

Goto(u, stage) == pc' = [pc EXCEPT ![u] = stage]

-----------------------------------------------------------------------------
(* The recorder.                                                           *)

(* No device, or one that does not start, leaves is_recording as it was.   *)
start_recording ==
  \/ UNCHANGED <<take, byKey, kind, pc>>
  \/ \E u \in Uploads :
       /\ pc[u] = "off"
       /\ take' = u
       /\ byKey' = held'
       /\ kind' = [kind EXCEPT ![u] = "record"]
       /\ Goto(u, "recording")

(* The first 100 ms are cut off; what is left is what was recorded.  The   *)
(* task is spawned only if the microphone delivered something.             *)
stop_recording ==
  /\ take' = NoTake
  /\ byKey' = FALSE
  /\ UNCHANGED kind
  /\ IF is_recording THEN \E stage \in {"create", "failed"} : Goto(take, stage)
                     ELSE UNCHANGED pc

(* /record                                                                 *)
cmd_record ==
  /\ UNCHANGED <<held, down, temp, body, token, store, viewer, faults>>
  /\ IF is_recording THEN stop_recording ELSE start_recording

(* Wrong: the key does not look whether a recording is going on.           *)
PressWhileRecording ==
  /\ down' = TRUE
  /\ UNCHANGED <<temp, body, token, store, viewer, faults>>
  /\ IF ~held THEN held' = TRUE /\ start_recording
              ELSE UNCHANGED <<held, take, byKey, kind, pc>>

(* The key in the message list or the sidebar.                             *)
PressGrave ==
  /\ down' = TRUE
  /\ UNCHANGED <<temp, body, token, store, viewer, faults>>
  /\ IF ~is_recording /\ ~held
     THEN held' = TRUE /\ start_recording
     ELSE UNCHANGED <<held, take, byKey, kind, pc>>

(* Wrong: the flag is cleared, the recording goes on.                      *)
ReleaseOnlyClears == held' = FALSE /\ UNCHANGED <<take, byKey, kind, pc>>

handle_key_release ==
  IF held THEN held' = FALSE /\ stop_recording
          ELSE UNCHANGED <<held, take, byKey, kind, pc>>

(* Without the release events the client hears nothing of it.              *)
ReleaseGrave ==
  /\ down
  /\ down' = FALSE
  /\ UNCHANGED <<temp, body, token, store, viewer, faults>>
  /\ IF ReleaseEvents THEN handle_key_release
                      ELSE UNCHANGED <<held, take, byKey, kind, pc>>

-----------------------------------------------------------------------------
(* The task of an upload.  A request that fails ends it with a notice.     *)

(* /audio and /image with a path                                           *)
UploadFile(u) ==
  /\ pc[u] = "off"
  /\ \E k \in {"audio", "image"} : kind' = [kind EXCEPT ![u] = k]
  /\ Goto(u, "read")
  /\ UNCHANGED <<recorder, temp, body, token, store, viewer, faults>>

(* The encoder of w has the temporary file open; the task of u relies on   *)
(* what it has put there.                                                  *)
Open(w)  == pc[w] \in {"samples", "rest"}
InUse(u) == Open(u) \/ (pc[u] = "read" /\ kind[u] = "record")

Overlapping(u) ==
  [v \in Uploads |-> IF v = u THEN {w \in Uploads : Open(w)}
                     ELSE IF InUse(v) THEN lapped[v] \cup {u} ELSE lapped[v]]

(* Wrong: the file is opened without being emptied.                        *)
OpenWav(u) ==
  /\ pc[u] = "create"
  /\ lapped' = Overlapping(u)
  /\ Goto(u, "samples")
  /\ UNCHANGED <<recorder, kind, wav, body, token, store, viewer, faults>>

(* WavWriter::create empties the file, whoever's samples it holds.         *)
CreateWav(u) ==
  /\ pc[u] = "create"
  /\ wav' = {}
  /\ lapped' = Overlapping(u)
  /\ Goto(u, "samples")
  /\ UNCHANGED <<recorder, kind, body, token, store, viewer, faults>>

(* Each writer has its own place in the file: what it wrote is left as it  *)
(* is, and of the samples of others some are overwritten.                  *)
Write(u, part) ==
  \E left \in SUBSET wav :
    /\ wav \cap Whole(u) \subseteq left
    /\ wav' = left \cup {<<u, part>>}

WriteSamples(u) ==
  /\ pc[u] = "samples"
  /\ Write(u, "first") /\ UNCHANGED lapped
  /\ Goto(u, "rest")
  /\ UNCHANGED <<recorder, kind, body, token, store, viewer, faults>>

FinalizeWav(u) ==
  /\ pc[u] = "rest"
  /\ Write(u, "last") /\ UNCHANGED lapped
  /\ Goto(u, "read")
  /\ UNCHANGED <<recorder, kind, body, token, store, viewer, faults>>

(* Creating, writing or finalizing the file fails, which is reported; the  *)
(* writer, dropped, may have flushed some of its samples.                  *)
WavFails(u) ==
  /\ pc[u] \in {"create", "samples", "rest"}
  /\ faults < MaxFaults
  /\ faults' = faults + 1
  /\ wav' \in IF Open(u) THEN SUBSET (wav \cup Whole(u)) ELSE {wav}
  /\ Goto(u, "failed")
  /\ UNCHANGED <<recorder, kind, lapped, body, token, store, viewer>>

(* A path the user typed may not exist.                                    *)
ReadFile(u) ==
  /\ pc[u] = "read"
  /\ \/ /\ body' = [body EXCEPT ![u] = IF kind[u] = "record" THEN wav ELSE Whole(u)]
        /\ Goto(u, "request")
     \/ /\ kind[u] # "record"
        /\ Goto(u, "failed")
        /\ UNCHANGED body
  /\ UNCHANGED <<recorder, kind, temp, token, store, viewer, faults>>

-----------------------------------------------------------------------------
(* The upload server: handle_audio_upload and handle_upload.               *)

(* Wrong: the task is not told of a token that has lapsed.                 *)
AcceptOrDrop(u) ==
  /\ pc[u] = "request" /\ token
  /\ \/ body[u] # {} /\ Goto(u, "file")
     \/ Goto(u, "failed")
  /\ UNCHANGED <<recorder, kind, temp, body, token, store, viewer, faults>>

(* Refused are an unknown token and a file that is too large, empty or not *)
(* of the kind.                                                            *)
Accept(u) ==
  /\ pc[u] = "request"
  /\ \/ token /\ body[u] # {} /\ Goto(u, "file")
     \/ Goto(u, "failed")
  /\ UNCHANGED <<recorder, kind, temp, body, token, store, viewer, faults>>

WriteFile(u) ==
  /\ pc[u] = "file"
  /\ files' = files \cup {u}
  /\ Goto(u, IF kind[u] = "image" THEN "thumb" ELSE "row")
  /\ UNCHANGED <<recorder, kind, temp, body, token, thumbs, rows, viewer, faults>>

WriteThumb(u) ==
  /\ pc[u] = "thumb"
  /\ thumbs' = thumbs \cup {u}
  /\ Goto(u, "row")
  /\ UNCHANGED <<recorder, kind, temp, body, token, files, rows, viewer, faults>>

InsertRow(u) ==
  /\ pc[u] = "row"
  /\ rows' = rows \cup {u}
  /\ Goto(u, "answer")
  /\ UNCHANGED <<recorder, kind, temp, body, token, files, thumbs, viewer, faults>>

Answer(u) ==
  /\ pc[u] = "answer"
  /\ Goto(u, "line")
  /\ UNCHANGED <<recorder, kind, temp, body, token, store, viewer, faults>>

(* Wrong: the client does not look at the status of the answer.            *)
StatusIgnored(u) ==
  /\ pc[u] \in {"request", "file", "thumb", "row", "answer"}
  /\ faults < MaxFaults
  /\ faults' = faults + 1
  /\ Goto(u, "line")
  /\ UNCHANGED <<recorder, kind, temp, body, token, store, viewer>>

(* The file cannot be read, the request is lost, or a write or the INSERT  *)
(* fails: what was done by then stays, and the client reports the failure. *)
RequestFails(u) ==
  /\ pc[u] \in {"read", "request", "file", "thumb", "row", "answer"}
  /\ faults < MaxFaults
  /\ faults' = faults + 1
  /\ Goto(u, "failed")
  /\ UNCHANGED <<recorder, kind, temp, body, token, store, viewer>>

(* The key of the session lives a day and nothing renews it.               *)
SessionLapses ==
  /\ token
  /\ token' = FALSE
  /\ UNCHANGED <<recorder, kind, pc, temp, body, store, viewer, faults>>

-----------------------------------------------------------------------------
(* The message.                                                            *)

SendLine(u) ==
  /\ pc[u] = "line"
  /\ Goto(u, "sent")
  /\ UNCHANGED <<recorder, kind, temp, body, token, store, viewer, faults>>

(* The connection to the chat server ends before it has handled the line:  *)
(* the error of write_all is dropped, and nobody is told.                  *)
LineIsLost(u) ==
  /\ pc[u] \in {"line", "sent"}
  /\ faults < MaxFaults
  /\ faults' = faults + 1
  /\ Goto(u, "lost")
  /\ UNCHANGED <<recorder, kind, temp, body, token, store, viewer>>

(* The chat server broadcasts it with the address, unchecked.              *)
Broadcast(u) ==
  /\ pc[u] = "sent"
  /\ Goto(u, "posted")
  /\ UNCHANGED <<recorder, kind, temp, body, token, store, viewer, faults>>

(* Does the upload server find something under the address of u?           *)
get_attachment(u)       == u \in rows \cap files
get_attachment_thumb(u) == u \in rows /\ u \in thumbs \cup files

(* Wrong: the id is put in flight before it is looked for there.           *)
RenderMarksFirst(u) ==
  /\ pc[u] = "posted" /\ kind[u] = "image"
  /\ view[u] = "none"
  /\ view' = [view EXCEPT ![u] = "given up"]
  /\ UNCHANGED <<recorder, kind, pc, temp, body, token, store, fetchFaults, faults>>

(* Rendering an image that is neither cached nor in flight fetches it.     *)
Render(u) ==
  /\ pc[u] = "posted" /\ kind[u] = "image"
  /\ view[u] = "none"
  /\ view' = [view EXCEPT ![u] = "inflight"]
  /\ UNCHANGED <<recorder, kind, pc, temp, body, token, store, fetchFaults, faults>>

(* A fetch that fails ends without a word, and the image stays in flight.  *)
Fetch(u) ==
  /\ view[u] = "inflight"
  /\ \/ /\ get_attachment_thumb(u)
        /\ view' = [view EXCEPT ![u] = "cached"]
        /\ UNCHANGED fetchFaults
     \/ /\ ~get_attachment_thumb(u)
        /\ view' = [view EXCEPT ![u] = "given up"]
        /\ UNCHANGED fetchFaults
     \/ /\ fetchFaults < MaxFetchFaults
        /\ fetchFaults' = fetchFaults + 1
        /\ view' = [view EXCEPT ![u] = "given up"]
  /\ UNCHANGED <<recorder, kind, pc, temp, body, token, store, faults>>

-----------------------------------------------------------------------------
TaskStep(u) ==
  CreateWav(u) \/ WriteSamples(u) \/ FinalizeWav(u) \/ ReadFile(u) \/ SendLine(u)

ServerStep(u) ==
  Accept(u) \/ WriteFile(u) \/ WriteThumb(u) \/ InsertRow(u) \/ Answer(u) \/ Broadcast(u)

Next ==
  \/ cmd_record \/ PressGrave \/ ReleaseGrave \/ SessionLapses
  \/ \E u \in Uploads : \/ UploadFile(u) \/ TaskStep(u)
                        \/ ServerStep(u)
                        \/ WavFails(u) \/ RequestFails(u) \/ LineIsLost(u)
                        \/ Render(u) \/ Fetch(u)

Spec == Init /\ [][Next]_vars

(* The runtimes poll the tasks, and a client draws what it shows.          *)
FairSpec ==
  Spec /\ \A u \in Uploads : /\ WF_vars(TaskStep(u)) /\ WF_vars(ServerStep(u))
                             /\ WF_vars(Render(u))   /\ WF_vars(Fetch(u))

-----------------------------------------------------------------------------
(* The types, and record_samples is that of the one recording going on.    *)
TypeOK ==
  /\ take \in Uploads \cup {NoTake}
  /\ \A u \in Uploads : pc[u] = "recording" <=> take = u
  /\ held \in BOOLEAN /\ down \in BOOLEAN /\ byKey \in BOOLEAN /\ token \in BOOLEAN
  /\ kind \in [Uploads -> Kinds]
  /\ pc \in [Uploads -> Stages]
  /\ wav \subseteq Parts
  /\ lapped \in [Uploads -> SUBSET Uploads]
  /\ body \in [Uploads -> SUBSET Parts]
  /\ files \subseteq Uploads /\ thumbs \subseteq Uploads /\ rows \subseteq Uploads
  /\ view \in [Uploads -> {"none", "inflight", "cached", "given up"}]
  /\ faults \in 0 .. MaxFaults /\ fetchFaults \in 0 .. MaxFetchFaults

(* Whatever fails on the way, an address that was announced is served: its *)
(* row is there, its file, and the thumbnail of an image                   *)
(* (handle_upload, handle_audio_upload, stop_recording).                   *)
PostedIsServed ==
  \A u \in Uploads : pc[u] \in {"line", "sent", "posted", "lost"} =>
    /\ get_attachment(u)
    /\ kind[u] = "image" => u \in thumbs

(* All recordings go through one temporary file.  What is uploaded of a    *)
(* recording, trimmed as stop_recording does, is all of it and nothing     *)
(* else, unless another encoder had the file open between the creation of  *)
(* the file for it and the reading of it; and then it holds samples of     *)
(* such others at most, never of a recording that was done before          *)
(* (stop_recording, do_audio_upload).                                      *)
MixedOnlyByOverlap ==
  \A u \in files :
    /\ body[u] \subseteq UNION {Whole(v) : v \in lapped[u] \cup {u}}
    /\ lapped[u] = {} => body[u] = Whole(u)

(* A recording begun with the key goes on only while the key is down       *)
(* (handle_key_release).                                                   *)
TalkNeedsKey == is_recording /\ byKey => down

(* Recording goes on undisturbed until it is stopped: it is not replaced   *)
(* by another, and a task is started for it or the user is told that       *)
(* nothing was captured (cmd_record, handle_key, stop_recording).  A       *)
(* client that quits is outside of the model.                              *)
TakeIsKept ==
  [][is_recording /\ take' # take =>
       take' = NoTake /\ pc'[take] \in {"create", "failed"}]_vars

(* Every upload ends: the message is announced or the user is told why     *)
(* not, unless the connection to the chat server ends under its line.      *)
(* Then the attachment stays in the store, and nobody hears of it          *)
(* (stop_recording, cmd_audio, upload_and_send_image).                     *)
UploadsEnd ==
  \A u \in Uploads : pc[u] \in Stages \ {"off", "recording"} ~> pc[u] \in {"posted", "failed", "lost"}

(* An image that was announced is shown by those who look at it, unless a  *)
(* fetch failed: nothing repeats that (render_messages,                    *)
(* spawn_image_fetch).                                                     *)
ImagesAreShown ==
  \A u \in Uploads :
    pc[u] = "posted" /\ kind[u] = "image" ~> view[u] = "cached" \/ fetchFaults > 0
=============================================================================

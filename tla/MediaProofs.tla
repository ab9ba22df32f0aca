---------------------------- MODULE MediaProofs -----------------------------
(***************************************************************************)
(* Theorems about Media, for every set of uploads and every bound.         *)
(***************************************************************************)
EXTENDS Media, TLAPS

-----------------------------------------------------------------------------
(* Where a task is tells what the upload server has stored for it.         *)
Stored ==
  \A u \in Uploads :
    /\ pc[u] \in {"off", "recording", "create", "samples", "rest", "read", "request", "file"} => u \notin files
    /\ pc[u] \in {"thumb", "row", "answer", "line", "sent", "posted", "lost"} => u \in files
    /\ pc[u] \in {"row", "answer", "line", "sent", "posted", "lost"} /\ kind[u] = "image" => u \in thumbs
    /\ pc[u] \in {"answer", "line", "sent", "posted", "lost"} => u \in rows

TypeAndStore == TypeOK /\ Stored

(* A bounded counter that stays or goes up by one below its bound.         *)
LEMMA CountUp ==
  ASSUME NEW m \in Nat, NEW n \in 0 .. m, NEW k, k = n \/ (n < m /\ k = n + 1)
  PROVE  k \in 0 .. m
OBVIOUS

LEMMA StoreInit == Init => TypeAndStore
<1> SUFFICES ASSUME Init PROVE TypeOK /\ Stored
  BY DEF TypeAndStore
<1>1. TypeOK
  <2> USE MediaAssumption DEF Init
  <2>1. \A u \in Uploads : pc[u] = "recording" <=> take = u
    OBVIOUS
  <2>2. faults \in 0 .. MaxFaults /\ fetchFaults \in 0 .. MaxFetchFaults
    OBVIOUS
  <2>3. pc \in [Uploads -> Stages] /\ kind \in [Uploads -> Kinds]
    BY DEF Stages, Kinds
  <2>4. QED
    BY <2>1, <2>2, <2>3 DEF TypeOK
<1>2. Stored
  BY DEF Init, Stored
<1>3. QED
  BY <1>1, <1>2

(* Steps of the recorder: the store is not touched, and only an upload     *)
(* that is off or recording moves.                                         *)
LEMMA RecorderKeepsStore ==
  ASSUME TypeAndStore, cmd_record \/ PressGrave \/ ReleaseGrave
  PROVE  TypeAndStore'
<1> USE MediaAssumption
    DEF TypeAndStore, TypeOK, Stored, Kinds, Stages, Goto, is_recording, temp, store, viewer
<1>1. ASSUME start_recording, held' \in BOOLEAN, down' \in BOOLEAN, ~is_recording,
             UNCHANGED <<temp, body, token, store, viewer, faults>>
      PROVE  TypeAndStore'
  <2>1. CASE UNCHANGED <<take, byKey, kind, pc>>
    BY <1>1, <2>1
  <2>2. ASSUME NEW u \in Uploads, pc[u] = "off", take' = u, byKey' = held',
               kind' = [kind EXCEPT ![u] = "record"], Goto(u, "recording")
        PROVE  TypeAndStore'
    BY <1>1, <2>2
  <2>3. QED
    BY <1>1, <2>1, <2>2 DEF start_recording
<1>2. ASSUME stop_recording, held' \in BOOLEAN, down' \in BOOLEAN,
             UNCHANGED <<temp, body, token, store, viewer, faults>>
      PROVE  TypeAndStore'
  <2>1. CASE is_recording
    <3>1. take \in Uploads
      BY <2>1
    <3>2. PICK stage \in {"create", "failed"} : Goto(take, stage)
      BY <1>2, <2>1 DEF stop_recording
    <3>3. QED
      BY <1>2, <3>1, <3>2 DEF stop_recording
  <2>2. CASE ~is_recording
    BY <1>2, <2>2 DEF stop_recording
  <2>3. QED
    BY <2>1, <2>2
<1>3. CASE cmd_record
  BY <1>1, <1>2, <1>3 DEF cmd_record
<1>4. CASE PressGrave
  <2>1. CASE ~is_recording /\ ~held
    BY <1>1, <1>4, <2>1 DEF PressGrave
  <2>2. CASE ~(~is_recording /\ ~held)
    BY <1>4, <2>2 DEF PressGrave
  <2>3. QED
    BY <2>1, <2>2
<1>5. CASE ReleaseGrave
  <2>1. CASE ReleaseEvents /\ held
    BY <1>2, <1>5, <2>1 DEF ReleaseGrave, handle_key_release
  <2>2. CASE ~(ReleaseEvents /\ held)
    BY <1>5, <2>2 DEF ReleaseGrave, handle_key_release
  <2>3. QED
    BY <2>1, <2>2
<1>6. QED
  BY <1>3, <1>4, <1>5

(* What a task puts into the file, and whom it meets there.                *)
LEMMA WritesAreParts ==
  ASSUME NEW u \in Uploads, wav \subseteq Parts, NEW part \in {"first", "last"}, Write(u, part)
  PROVE  wav' \subseteq Parts
BY DEF Write, Parts

LEMMA LapsAreUploads ==
  ASSUME NEW u \in Uploads, lapped \in [Uploads -> SUBSET Uploads]
  PROVE  Overlapping(u) \in [Uploads -> SUBSET Uploads]
BY DEF Overlapping

LEMMA TaskKeepsStore ==
  ASSUME TypeAndStore, NEW u \in Uploads, UploadFile(u) \/ TaskStep(u)
  PROVE  TypeAndStore'
<1> USE MediaAssumption
    DEF TypeAndStore, TypeOK, Stored, Kinds, Stages, Goto, recorder, temp, store, viewer
<1>1. CASE UploadFile(u)
  <2>1. kind' \in [Uploads -> Kinds]
    BY <1>1 DEF UploadFile
  <2>2. pc' \in [Uploads -> Stages] /\ \A v \in Uploads : pc'[v] = "recording" <=> take' = v
    BY <1>1 DEF UploadFile
  <2>3. \A v \in Uploads : v # u => pc'[v] = pc[v] /\ kind'[v] = kind[v]
    BY <1>1 DEF UploadFile
  <2>4. pc'[u] = "read" /\ u \notin files
    BY <1>1 DEF UploadFile
  <2>5. UNCHANGED <<recorder, temp, body, token, store, viewer, faults>>
    BY <1>1 DEF UploadFile
  <2>6. Stored'
    BY <2>3, <2>4, <2>5
  <2>7. TypeOK'
    BY <2>1, <2>2, <2>5
  <2>8. QED
    BY <2>6, <2>7
<1>2. CASE CreateWav(u)
  <2>1. lapped' \in [Uploads -> SUBSET Uploads]
    BY <1>2, LapsAreUploads DEF CreateWav
  <2>2. wav' = {} /\ UNCHANGED <<recorder, kind, body, token, store, viewer, faults>>
    BY <1>2 DEF CreateWav
  <2>3. pc[u] = "create" /\ pc' = [pc EXCEPT ![u] = "samples"] /\ u # take
    BY <1>2 DEF CreateWav
  <2>4. QED
    BY <2>1, <2>2, <2>3
<1>3. CASE WriteSamples(u) \/ FinalizeWav(u)
  <2>1. wav' \subseteq Parts
    BY <1>3, WritesAreParts DEF WriteSamples, FinalizeWav
  <2>2. UNCHANGED <<recorder, kind, lapped, body, token, store, viewer, faults>>
    BY <1>3 DEF WriteSamples, FinalizeWav
  <2>3. PICK stage \in {"rest", "read"} : pc' = [pc EXCEPT ![u] = stage]
    BY <1>3 DEF WriteSamples, FinalizeWav
  <2>4. pc[u] \in {"samples", "rest"} /\ u # take
    BY <1>3 DEF WriteSamples, FinalizeWav
  <2>5. QED
    BY <2>1, <2>2, <2>3, <2>4
<1>4. CASE ReadFile(u)
  <2>1. \/ body' = [body EXCEPT ![u] = wav]
        \/ body' = [body EXCEPT ![u] = Whole(u)]
        \/ body' = body
    BY <1>4 DEF ReadFile
  <2>2. body' \in [Uploads -> SUBSET Parts]
    <3>1. wav \in SUBSET Parts /\ Whole(u) \in SUBSET Parts
      BY DEF Whole, Parts
    <3>2. body \in [Uploads -> SUBSET Parts]
      OBVIOUS
    <3>3. QED
      BY ONLY <2>1, <3>1, <3>2
  <2>3. UNCHANGED <<recorder, kind, temp, token, store, viewer, faults>>
    BY <1>4 DEF ReadFile
  <2>4. PICK stage \in {"request", "failed"} : pc' = [pc EXCEPT ![u] = stage]
    BY <1>4 DEF ReadFile
  <2>5. pc[u] = "read" /\ u # take
    BY <1>4 DEF ReadFile
  <2>6. pc' \in [Uploads -> Stages] /\ \A v \in Uploads : pc'[v] = "recording" <=> take' = v
    BY <2>3, <2>4, <2>5
  <2>7. Stored'
    BY <2>3, <2>4, <2>5
  <2>8. TypeOK'
    BY <2>2, <2>3, <2>6
  <2>9. QED
    BY <2>7, <2>8
<1>5. CASE SendLine(u)
  BY <1>5 DEF SendLine
<1>6. QED
  BY <1>1, <1>2, <1>3, <1>4, <1>5 DEF TaskStep

LEMMA ServerKeepsStore ==
  ASSUME TypeAndStore, NEW u \in Uploads, ServerStep(u)
  PROVE  TypeAndStore'
<1> USE MediaAssumption
    DEF TypeAndStore, TypeOK, Stored, Kinds, Stages, Goto, recorder, temp, store, viewer
<1>1. CASE Accept(u)
  <2>1. UNCHANGED <<recorder, kind, temp, body, token, store, viewer, faults>>
    BY <1>1 DEF Accept
  <2>2. PICK stage \in {"file", "failed"} : pc' = [pc EXCEPT ![u] = stage]
    BY <1>1 DEF Accept
  <2>3. pc[u] = "request" /\ u # take
    BY <1>1 DEF Accept
  <2>4. TypeOK'
    BY <2>1, <2>2, <2>3
  <2>5. Stored'
    BY <2>1, <2>2, <2>3
  <2>6. QED
    BY <2>4, <2>5
<1>2. CASE WriteFile(u)
  BY <1>2 DEF WriteFile
<1>3. CASE WriteThumb(u)
  BY <1>3 DEF WriteThumb
<1>4. CASE InsertRow(u)
  BY <1>4 DEF InsertRow
<1>5. CASE Answer(u)
  BY <1>5 DEF Answer
<1>6. CASE Broadcast(u)
  BY <1>6 DEF Broadcast
<1>7. QED
  BY <1>1, <1>2, <1>3, <1>4, <1>5, <1>6 DEF ServerStep

(* One of the failures of an upload.                                       *)
Fault(u) == WavFails(u) \/ RequestFails(u) \/ LineIsLost(u)

LEMMA FaultKeepsStore ==
  ASSUME TypeAndStore, NEW u \in Uploads, Fault(u)
  PROVE  TypeAndStore'
<1> USE MediaAssumption
    DEF TypeAndStore, TypeOK, Stored, Kinds, Stages, Goto, recorder, temp, store, viewer
<1>1. faults' \in 0 .. MaxFaults
  <2>1. MaxFaults \in Nat /\ faults \in 0 .. MaxFaults
    OBVIOUS
  <2>2. faults < MaxFaults /\ faults' = faults + 1
    BY DEF Fault, WavFails, RequestFails, LineIsLost
  <2>3. QED
    BY ONLY <2>1, <2>2, CountUp
<1>2. wav' \subseteq Parts
  <2>1. Whole(u) \subseteq Parts
    BY DEF Whole, Parts
  <2>2. CASE WavFails(u)
    BY <2>1, <2>2 DEF WavFails
  <2>3. CASE RequestFails(u) \/ LineIsLost(u)
    BY <2>3 DEF RequestFails, LineIsLost
  <2>4. QED
    BY <2>2, <2>3 DEF Fault
<1>3. UNCHANGED <<recorder, kind, lapped, body, token, store, viewer>>
  BY DEF Fault, WavFails, RequestFails, LineIsLost
<1>4. /\ pc[u] \in Stages \ {"recording"}
      /\ \/ pc' = [pc EXCEPT ![u] = "failed"]
         \/ pc' = [pc EXCEPT ![u] = "lost"] /\ pc[u] \in {"line", "sent"}
  BY DEF Fault, WavFails, RequestFails, LineIsLost
<1>5. pc' \in [Uploads -> Stages] /\ \A v \in Uploads : pc'[v] = "recording" <=> take' = v
  BY <1>3, <1>4
<1>6. TypeOK'
  BY <1>1, <1>2, <1>3, <1>5
<1>7. Stored'
  <2>1. \A v \in Uploads : v # u => pc'[v] = pc[v]
    BY <1>4
  <2>2. pc'[u] = "failed" \/ (pc'[u] = "lost" /\ pc[u] \in {"line", "sent"})
    BY <1>4
  <2>3. files' = files /\ thumbs' = thumbs /\ rows' = rows /\ kind' = kind
    BY <1>3
  <2>4. QED
    BY ONLY <2>1, <2>2, <2>3, Stored DEF Stored
<1>8. QED
  BY <1>6, <1>7

LEMMA ViewerKeepsStore ==
  ASSUME TypeAndStore, NEW u \in Uploads, Render(u) \/ Fetch(u)
  PROVE  TypeAndStore'
<1> USE MediaAssumption DEF TypeAndStore, TypeOK, Stored, recorder, temp, store
<1>1. CASE Render(u)
  BY <1>1 DEF Render
<1>2. CASE Fetch(u)
  <2>1. fetchFaults' \in 0 .. MaxFetchFaults
    <3>1. MaxFetchFaults \in Nat /\ fetchFaults \in 0 .. MaxFetchFaults
      OBVIOUS
    <3>2. \/ fetchFaults' = fetchFaults
          \/ fetchFaults < MaxFetchFaults /\ fetchFaults' = fetchFaults + 1
      BY <1>2 DEF Fetch
    <3>3. QED
      BY ONLY <3>1, <3>2, CountUp
  <2>2. view' \in [Uploads -> {"none", "inflight", "cached", "given up"}]
    BY <1>2 DEF Fetch
  <2>3. UNCHANGED <<recorder, kind, pc, temp, body, token, store, faults>>
    BY <1>2 DEF Fetch
  <2>4. QED
    BY <2>1, <2>2, <2>3
<1>3. QED
  BY <1>1, <1>2

LEMMA StoreNext == TypeAndStore /\ [Next]_vars => TypeAndStore'
<1> SUFFICES ASSUME TypeAndStore, [Next]_vars PROVE TypeAndStore'
  OBVIOUS
<1>1. CASE cmd_record \/ PressGrave \/ ReleaseGrave
  BY <1>1, RecorderKeepsStore
<1>2. CASE SessionLapses
  BY <1>2 DEF SessionLapses, TypeAndStore, TypeOK, Stored, recorder, temp, store, viewer
<1>3. ASSUME NEW u \in Uploads,
             \/ UploadFile(u) \/ TaskStep(u)
             \/ ServerStep(u) \/ Fault(u)
             \/ Render(u) \/ Fetch(u)
      PROVE  TypeAndStore'
  BY <1>3, TaskKeepsStore, ServerKeepsStore, FaultKeepsStore, ViewerKeepsStore
<1>4. CASE UNCHANGED vars
  BY <1>4 DEF vars, TypeAndStore, TypeOK, Stored, recorder, temp, store, viewer
<1>5. QED
  BY <1>1, <1>2, <1>3, <1>4 DEF Next, Fault

LEMMA StoreInvariant == Spec => []TypeAndStore
BY StoreInit, StoreNext, PTL DEF Spec

-----------------------------------------------------------------------------
(* The types, and that one recording goes on at most, the one whose        *)
(* samples record_samples holds (start_recording, stop_recording).         *)
THEOREM MediaTypeCorrect == Spec => []TypeOK
<1>1. TypeAndStore => TypeOK
  BY DEF TypeAndStore
<1>2. QED
  BY <1>1, StoreInvariant, PTL

(* Whatever fails on the way, an address that is announced is served       *)
(* (handle_upload, handle_audio_upload).                                   *)
THEOREM AnnouncedIsServed == Spec => []PostedIsServed
<1>1. TypeAndStore => PostedIsServed
  BY DEF TypeAndStore, Stored, PostedIsServed, get_attachment
<1>2. QED
  BY <1>1, StoreInvariant, PTL

(* A recording that goes on is never replaced by another, and ends in an   *)
(* upload or a notice (cmd_record, handle_key, handle_key_release).        *)
THEOREM RecordingIsKept == Spec => TakeIsKept
<1>1. ASSUME TypeAndStore, is_recording, take' # take, [Next]_vars
      PROVE  take' = NoTake /\ pc'[take] \in {"create", "failed"}
  <2> USE <1>1 DEF is_recording, recorder
  <2>1. ASSUME stop_recording
        PROVE  take' = NoTake /\ pc'[take] \in {"create", "failed"}
    BY <2>1 DEF stop_recording, Goto, TypeAndStore, TypeOK
  <2>2. CASE cmd_record
    BY <2>1, <2>2 DEF cmd_record
  <2>3. CASE PressGrave
    BY <2>3 DEF PressGrave
  <2>4. CASE ReleaseGrave
    BY <2>1, <2>4 DEF ReleaseGrave, handle_key_release
  <2>5. CASE SessionLapses
    BY <2>5 DEF SessionLapses
  <2>6. ASSUME NEW u \in Uploads, UploadFile(u) \/ TaskStep(u) PROVE FALSE
    BY <2>6 DEF UploadFile, TaskStep, CreateWav, WriteSamples, FinalizeWav, ReadFile, SendLine
  <2>7. ASSUME NEW u \in Uploads, ServerStep(u) \/ Fault(u) PROVE FALSE
    BY <2>7 DEF ServerStep, Accept, WriteFile, WriteThumb, InsertRow, Answer, Broadcast,
                Fault, WavFails, RequestFails, LineIsLost
  <2>8. ASSUME NEW u \in Uploads, Render(u) \/ Fetch(u) PROVE FALSE
    BY <2>8 DEF Render, Fetch
  <2>9. CASE UNCHANGED vars
    BY <2>9 DEF vars
  <2>10. QED
    BY <2>2, <2>3, <2>4, <2>5, <2>6, <2>7, <2>8, <2>9 DEF Next, Fault
<1>2. TypeAndStore /\ [Next]_vars =>
        [is_recording /\ take' # take =>
           take' = NoTake /\ pc'[take] \in {"create", "failed"}]_vars
  BY <1>1
<1>3. QED
  BY <1>2, StoreInvariant, PTL DEF Spec, TakeIsKept
-----------------------------------------------------------------------------
(* Where release events arrive, push_to_talk_active means that the key is  *)
(* down, and a recording begun by the key that it is active.               *)
KeyInv == TypeOK /\ (held => down) /\ (byKey => held)

(* With release events a recording begun with the key ends when the key is *)
(* released (handle_key_release).                                          *)
THEOREM TalkStopsOnRelease ==
  ASSUME ReleaseEvents
  PROVE  Spec => []TalkNeedsKey
<1>1. Init => KeyInv
  BY StoreInit DEF Init, KeyInv, TypeAndStore
<1>2. TypeOK' /\ KeyInv /\ [Next]_vars => KeyInv'
  <2> SUFFICES ASSUME TypeOK', KeyInv, [Next]_vars PROVE KeyInv'
    OBVIOUS
  <2> USE DEF KeyInv
  <2>1. CASE cmd_record
    BY <2>1 DEF cmd_record, start_recording, stop_recording, TypeOK
  <2>2. CASE PressGrave
    BY <2>2 DEF PressGrave, start_recording, TypeOK
  <2>3. CASE ReleaseGrave
    <3>1. CASE held
      <4>1. ~held' /\ ~byKey'
        BY <2>3, <3>1 DEF ReleaseGrave, handle_key_release, stop_recording
      <4>2. QED
        BY <4>1
    <3>2. CASE ~held
      BY <2>3, <3>2 DEF ReleaseGrave, handle_key_release
    <3>3. QED
      BY <3>1, <3>2
  <2>4. CASE SessionLapses
    BY <2>4 DEF SessionLapses, recorder
  <2>5. ASSUME NEW u \in Uploads, UploadFile(u) \/ TaskStep(u) PROVE KeyInv'
    BY <2>5 DEF UploadFile, TaskStep, CreateWav, WriteSamples, FinalizeWav, ReadFile, SendLine, recorder
  <2>6. ASSUME NEW u \in Uploads, ServerStep(u) \/ Fault(u) PROVE KeyInv'
    BY <2>6 DEF ServerStep, Accept, WriteFile, WriteThumb, InsertRow, Answer, Broadcast,
                Fault, WavFails, RequestFails, LineIsLost, recorder
  <2>7. ASSUME NEW u \in Uploads, Render(u) \/ Fetch(u) PROVE KeyInv'
    <3>1. UNCHANGED recorder
      BY <2>7 DEF Render, Fetch
    <3>2. QED
      BY <3>1 DEF recorder
  <2>8. CASE UNCHANGED vars
    BY <2>8 DEF vars, recorder
  <2>9. QED
    BY <2>1, <2>2, <2>3, <2>4, <2>5, <2>6, <2>7, <2>8 DEF Next, Fault
<1>3. KeyInv => TalkNeedsKey
  BY DEF KeyInv, TalkNeedsKey
<1>4. QED
  BY <1>1, <1>2, <1>3, MediaTypeCorrect, PTL DEF Spec

-----------------------------------------------------------------------------
(* The temporary file.  What an encoder that has it open may write is      *)
(* noted with every task that is using it; what is in it are samples of    *)
(* its own and of those; and without those it is what it has written.      *)
Mine(u) == UNION {Whole(v) : v \in lapped[u] \cup {u}}

Written(u) ==
  CASE pc[u] = "samples" -> {}
    [] pc[u] = "rest"    -> {<<u, "first">>}
    [] OTHER             -> Whole(u)

Alone(u)  == lapped[u] = {} => wav = Written(u)
FileOf(u) == InUse(u) => wav \subseteq Mine(u) /\ Alone(u)
BodyOf(u) == body[u] \subseteq Mine(u) /\ (lapped[u] = {} => body[u] = Whole(u))

Unread == {"off", "recording", "create", "samples", "rest", "read", "failed"}

FileInv ==
  /\ \A u \in Uploads : pc[u] \in {"recording", "create", "samples", "rest"} => kind[u] = "record"
  /\ \A u \in Uploads : pc[u] = "read" /\ kind[u] # "record" => lapped[u] = {}
  /\ \A u \in Uploads : pc[u] = "off" => lapped[u] = {}
  /\ \A u, v \in Uploads : Open(u) /\ InUse(v) /\ u # v => u \in lapped[v]
  /\ \A u \in Uploads : FileOf(u)
  /\ \A u \in Uploads : pc[u] \notin Unread \/ u \in files => BodyOf(u)


(* A step of u that leaves the file, and what tasks have read, alone.      *)
LEMMA FileAside ==
  ASSUME FileInv, NEW u \in Uploads,
         \A v \in Uploads : v # u => pc'[v] = pc[v] /\ kind'[v] = kind[v],
         Open(u)' => Open(u), InUse(u)' => InUse(u), UNCHANGED <<wav, lapped, body>>,
         InUse(u)' => pc'[u] = pc[u],
         \A v \in Uploads : v # u /\ v \in files' => v \in files,
         pc'[u] \notin Unread \/ u \in files' => BodyOf(u),
         pc'[u] \in {"recording", "create", "samples", "rest"} => kind'[u] = "record",
         pc'[u] \in {"off", "read"} => InUse(u)' \/ lapped[u] = {}
  PROVE  FileInv'
<1>1. \A v \in Uploads : v # u => (InUse(v)' <=> InUse(v)) /\ (Open(v)' <=> Open(v))
  BY DEF InUse, Open
<1>2. \A v \in Uploads : Written(v)' = Written(v) \/ (v = u /\ ~InUse(v)')
  BY DEF Written
<1>3. \A v \in Uploads : Mine(v)' = Mine(v)
  BY DEF Mine
<1>4. \A v \in Uploads : FileOf(v)'
  <2> SUFFICES ASSUME NEW v \in Uploads, InUse(v)' PROVE (wav \subseteq Mine(v) /\ Alone(v))'
    BY DEF FileOf
  <2>1. InUse(v)
    BY <1>1
  <2>2. wav \subseteq Mine(v) /\ Alone(v)
    BY <2>1 DEF FileInv, FileOf
  <2>3. Written(v)' = Written(v) /\ Mine(v)' = Mine(v)
    BY <1>2, <1>3
  <2>4. QED
    BY <2>2, <2>3 DEF Alone
<1>5. \A v \in Uploads : BodyOf(v)' <=> BodyOf(v)
  BY <1>3 DEF BodyOf
<1>6. \A v \in Uploads : pc'[v] \notin Unread \/ v \in files' => BodyOf(v)'
  BY <1>5 DEF FileInv
<1>7. \A v, w \in Uploads : (Open(v) /\ InUse(w))' /\ v # w => v \in lapped'[w]
  BY <1>1 DEF FileInv
<1>8. \A v \in Uploads : /\ pc'[v] \in {"recording", "create", "samples", "rest"} => kind'[v] = "record"
                         /\ pc'[v] = "read" /\ kind'[v] # "record" => lapped'[v] = {}
                         /\ pc'[v] = "off" => lapped'[v] = {}
  BY DEF FileInv, InUse, Open
<1>9. QED
  BY <1>4, <1>6, <1>7, <1>8 DEF FileInv

LEMMA FileRecorder ==
  ASSUME TypeAndStore, FileInv, cmd_record \/ PressGrave \/ ReleaseGrave
  PROVE  FileInv'
<1>1. pc \in [Uploads -> Stages] /\ kind \in [Uploads -> Kinds] /\ take \in Uploads \cup {NoTake}
  BY DEF TypeAndStore, TypeOK
<1>2. UNCHANGED <<wav, lapped, body, files>>
  BY DEF cmd_record, PressGrave, ReleaseGrave, temp, store
<1>3. \A v \in Uploads : pc[v] \in {"off", "recording", "create", "failed"} => ~InUse(v) /\ ~Open(v)
  BY DEF InUse, Open
<1>4. ASSUME start_recording PROVE FileInv'
  <2>1. CASE UNCHANGED <<kind, pc>>
    BY ONLY <1>2, <2>1, FileInv DEF FileInv, FileOf, BodyOf, Mine, Alone, Written, InUse, Open
  <2>2. ASSUME NEW u \in Uploads, pc[u] = "off", kind' = [kind EXCEPT ![u] = "record"],
               pc' = [pc EXCEPT ![u] = "recording"]
        PROVE  FileInv'
    <3>1. /\ \A v \in Uploads : v # u => pc'[v] = pc[v] /\ kind'[v] = kind[v]
          /\ pc'[u] = "recording" /\ kind'[u] = "record" /\ lapped[u] = {}
      BY <1>1, <2>2 DEF FileInv
    <3>2. ~Open(u)' /\ ~InUse(u)'
      BY <3>1 DEF Open, InUse
    <3>3. u \notin files
      BY <2>2 DEF TypeAndStore, Stored
    <3>4. QED
      BY <1>2, <3>1, <3>2, <3>3, FileAside DEF Unread
  <2>3. QED
    BY <1>4, <2>1, <2>2 DEF start_recording, Goto
<1>5. ASSUME stop_recording PROVE FileInv'
  <2>1. CASE is_recording
    <3>1. take \in Uploads /\ kind' = kind
      BY <1>1, <1>5, <2>1 DEF stop_recording, is_recording
    <3>2. PICK stage \in {"create", "failed"} : pc' = [pc EXCEPT ![take] = stage]
      BY <1>5, <2>1 DEF stop_recording, Goto
    <3>3. PICK u \in Uploads : u = take
      BY <3>1
    <3>4. pc[u] = "recording" /\ kind[u] = "record" /\ u \notin files
      BY <3>3 DEF TypeAndStore, TypeOK, Stored, FileInv
    <3>5. /\ \A v \in Uploads : v # u => pc'[v] = pc[v] /\ kind'[v] = kind[v]
          /\ pc'[u] \in {"create", "failed"} /\ kind'[u] = "record"
      BY <1>1, <3>1, <3>2, <3>3, <3>4
    <3>6. ~Open(u)' /\ ~InUse(u)'
      BY <3>5 DEF Open, InUse
    <3>7. QED
      BY <1>2, <3>4, <3>5, <3>6, FileAside DEF Unread
  <2>2. CASE ~is_recording
    <3>1. UNCHANGED <<kind, pc>>
      BY <1>5, <2>2 DEF stop_recording
    <3>2. QED
      BY ONLY <1>2, <3>1, FileInv DEF FileInv, FileOf, BodyOf, Mine, Alone, Written, InUse, Open
  <2>3. QED
    BY <2>1, <2>2
<1>6. ASSUME UNCHANGED <<kind, pc>> PROVE FileInv'
  BY ONLY <1>2, <1>6, FileInv DEF FileInv, FileOf, BodyOf, Mine, Alone, Written, InUse, Open
<1>7. QED
  BY <1>4, <1>5, <1>6 DEF cmd_record, PressGrave, ReleaseGrave, handle_key_release

(* The file is created: it is empty for all that use it, and they and u    *)
(* are noted with each other.                                              *)
LEMMA FileCreate ==
  ASSUME TypeAndStore, FileInv, NEW u \in Uploads, CreateWav(u)
  PROVE  FileInv'
<1>1. /\ pc[u] = "create" /\ wav' = {} /\ lapped' = Overlapping(u)
      /\ UNCHANGED <<kind, body, files>>
  BY DEF CreateWav, store
<1>2. \A v \in Uploads : pc'[v] = IF v = u THEN "samples" ELSE pc[v]
  BY DEF CreateWav, Goto, TypeAndStore, TypeOK
<1>3. \A v \in Uploads : v # u => (InUse(v)' <=> InUse(v)) /\ (Open(v)' <=> Open(v))
  BY <1>1, <1>2 DEF InUse, Open
<1>4. Open(u)' /\ InUse(u)' /\ ~InUse(u)
  BY <1>1, <1>2 DEF InUse, Open
<1>5. lapped'[u] = {w \in Uploads : Open(w)}
  BY <1>1 DEF Overlapping
<1>6. \A v \in Uploads : v # u => lapped'[v] = IF InUse(v) THEN lapped[v] \cup {u} ELSE lapped[v]
  BY <1>1 DEF Overlapping
<1>7. \A v \in Uploads : FileOf(v)'
  <2> SUFFICES ASSUME NEW v \in Uploads, InUse(v)' PROVE (wav \subseteq Mine(v) /\ Alone(v))'
    BY DEF FileOf
  <2>1. CASE v = u
    BY <1>1, <1>2, <2>1 DEF Alone, Written
  <2>2. CASE v # u
    <3>1. lapped'[v] # {}
      BY <1>3, <1>6, <2>2
    <3>2. QED
      BY <1>1, <3>1 DEF Alone
  <2>3. QED
    BY <2>1, <2>2
<1>8. \A v, w \in Uploads : (Open(v) /\ InUse(w))' /\ v # w => v \in lapped'[w]
  <2> SUFFICES ASSUME NEW v \in Uploads, NEW w \in Uploads, Open(v)', InUse(w)', v # w
               PROVE  v \in lapped'[w]
    OBVIOUS
  <2>1. CASE w = u
    BY <1>3, <1>5, <2>1
  <2>2. CASE w # u
    BY <1>3, <1>6, <2>2 DEF FileInv
  <2>3. QED
    BY <2>1, <2>2
<1>9. \A v \in Uploads : pc'[v] \notin Unread \/ v \in files' => BodyOf(v)'
  <2> SUFFICES ASSUME NEW v \in Uploads, pc'[v] \notin Unread \/ v \in files' PROVE BodyOf(v)'
    OBVIOUS
  <2>1. u \notin files
    BY <1>1 DEF TypeAndStore, Stored
  <2>2. v # u
    BY <1>1, <1>2, <2>1 DEF Unread
  <2>3. ~InUse(v) /\ BodyOf(v)
    <3>1. pc[v] \notin Unread \/ v \in files
      BY <1>1, <1>2, <2>2
    <3>2. ~InUse(v)
      BY <3>1 DEF InUse, Open, Unread, TypeAndStore, Stored
    <3>3. QED
      BY <3>1, <3>2 DEF FileInv
  <2>4. lapped'[v] = lapped[v]
    BY <1>6, <2>2, <2>3
  <2>5. QED
    BY <1>1, <2>3, <2>4 DEF BodyOf, Mine
<1>10. \A v \in Uploads : /\ pc'[v] \in {"recording", "create", "samples", "rest"} => kind'[v] = "record"
                          /\ pc'[v] = "read" /\ kind'[v] # "record" => lapped'[v] = {}
                          /\ pc'[v] = "off" => lapped'[v] = {}
  <2> SUFFICES ASSUME NEW v \in Uploads
               PROVE  /\ pc'[v] \in {"recording", "create", "samples", "rest"} => kind'[v] = "record"
                      /\ pc'[v] = "read" /\ kind'[v] # "record" => lapped'[v] = {}
                      /\ pc'[v] = "off" => lapped'[v] = {}
    OBVIOUS
  <2>1. CASE v = u
    BY <1>1, <1>2, <2>1 DEF FileInv
  <2>2. CASE v # u
    BY <1>1, <1>2, <1>6, <2>2 DEF FileInv, InUse, Open
  <2>3. QED
    BY <2>1, <2>2
<1>11. QED
  BY <1>7, <1>8, <1>9, <1>10 DEF FileInv

(* Whoever has the file open writes: those who use it have noted it, and   *)
(* its own samples are all it adds to the file.                            *)
LEMMA FileWrite ==
  ASSUME TypeAndStore, FileInv, NEW u \in Uploads, Open(u),
         wav' \subseteq wav \cup Whole(u),
         \A v \in Uploads : v # u => pc'[v] = pc[v],
         pc'[u] \in {"rest", "read", "failed"},
         InUse(u)' /\ wav = Written(u) => wav' = Written(u)',
         UNCHANGED <<kind, lapped, body, files>>
  PROVE  FileInv'
<1>1. \A v \in Uploads : v # u => (InUse(v)' <=> InUse(v)) /\ (Open(v)' <=> Open(v))
  BY DEF InUse, Open
<1>2. InUse(u) /\ kind[u] = "record"
  BY DEF InUse, Open, FileInv
<1>3. \A v \in Uploads : Mine(v)' = Mine(v)
  BY DEF Mine
<1>4. \A v \in Uploads : FileOf(v)'
  <2> SUFFICES ASSUME NEW v \in Uploads, InUse(v)' PROVE (wav \subseteq Mine(v) /\ Alone(v))'
    BY DEF FileOf
  <2>1. InUse(v) /\ wav \subseteq Mine(v) /\ Alone(v)
    BY <1>1, <1>2 DEF FileInv, FileOf
  <2>2. u \in lapped[v] \cup {v}
    BY <2>1 DEF FileInv
  <2>3. Whole(u) \subseteq Mine(v)
    BY <2>2 DEF Mine
  <2>4. wav' \subseteq Mine(v)'
    BY <1>3, <2>1, <2>3
  <2>5. Alone(v)'
    <3>1. CASE v = u
      BY <2>1, <3>1 DEF Alone
    <3>2. CASE v # u
      BY <2>2, <3>2 DEF Alone
    <3>3. QED
      BY <3>1, <3>2
  <2>6. QED
    BY <2>4, <2>5
<1>5. \A v, w \in Uploads : (Open(v) /\ InUse(w))' /\ v # w => v \in lapped'[w]
  <2>1. \A v \in Uploads : Open(v)' => Open(v)
    BY <1>1
  <2>2. \A v \in Uploads : InUse(v)' => InUse(v)
    BY <1>1, <1>2
  <2>3. QED
    BY <2>1, <2>2 DEF FileInv
<1>6. \A v \in Uploads : pc'[v] \notin Unread \/ v \in files' => BodyOf(v)'
  <2> SUFFICES ASSUME NEW v \in Uploads, pc'[v] \notin Unread \/ v \in files' PROVE BodyOf(v)'
    OBVIOUS
  <2>1. pc[v] \notin Unread \/ v \in files
    BY DEF Unread
  <2>2. QED
    BY <1>3, <2>1 DEF FileInv, BodyOf
<1>7. \A v \in Uploads : /\ pc'[v] \in {"recording", "create", "samples", "rest"} => kind'[v] = "record"
                         /\ pc'[v] = "read" /\ kind'[v] # "record" => lapped'[v] = {}
                         /\ pc'[v] = "off" => lapped'[v] = {}
  BY <1>2 DEF FileInv
<1>8. QED
  BY <1>4, <1>5, <1>6, <1>7 DEF FileInv

LEMMA FileTask ==
  ASSUME TypeAndStore, FileInv, NEW u \in Uploads, UploadFile(u) \/ TaskStep(u)
  PROVE  FileInv'
<1>1. pc \in [Uploads -> Stages] /\ kind \in [Uploads -> Kinds] /\ body \in [Uploads -> SUBSET Parts]
  BY DEF TypeAndStore, TypeOK
<1>2. CASE UploadFile(u)
  <2>1. PICK k \in {"audio", "image"} : kind' = [kind EXCEPT ![u] = k]
    BY <1>2 DEF UploadFile
  <2>2. /\ \A v \in Uploads : v # u => pc'[v] = pc[v] /\ kind'[v] = kind[v]
        /\ pc[u] = "off" /\ pc'[u] = "read" /\ kind'[u] # "record"
        /\ UNCHANGED <<wav, lapped, body, files>>
    BY <1>1, <1>2, <2>1 DEF UploadFile, Goto, temp, store
  <2>3. ~Open(u)' /\ ~InUse(u)' /\ lapped[u] = {} /\ u \notin files
    BY <2>2 DEF Open, InUse, FileInv, TypeAndStore, Stored
  <2>4. QED
    BY <2>2, <2>3, FileAside DEF Unread
<1>3. CASE WriteSamples(u) \/ FinalizeWav(u)
  <2>1. PICK part \in {"first", "last"}, stage \in {"rest", "read"} :
          /\ Write(u, part) /\ pc' = [pc EXCEPT ![u] = stage]
          /\ \/ part = "first" /\ stage = "rest" /\ pc[u] = "samples"
             \/ part = "last" /\ stage = "read" /\ pc[u] = "rest"
    BY <1>3 DEF WriteSamples, FinalizeWav, Goto
  <2>2. PICK left \in SUBSET wav : wav \cap Whole(u) \subseteq left /\ wav' = left \cup {<<u, part>>}
    BY <2>1 DEF Write
  <2>3. Open(u) /\ UNCHANGED <<kind, lapped, body, files>>
    BY <1>3, <2>1 DEF WriteSamples, FinalizeWav, Open, store
  <2>4. \A v \in Uploads : v # u => pc'[v] = pc[v]
    BY <1>1, <2>1
  <2>5. pc'[u] = stage
    BY <1>1, <2>1
  <2>6. wav' \subseteq wav \cup Whole(u)
    BY <2>2 DEF Whole
  <2>7. wav = Written(u) => wav' = Written(u)'
    BY <2>1, <2>2, <2>5 DEF Written, Whole
  <2>8. QED
    BY <2>3, <2>4, <2>5, <2>6, <2>7, FileWrite
<1>4. CASE ReadFile(u)
  <2>1. /\ \A v \in Uploads : v # u => pc'[v] = pc[v] /\ body'[v] = body[v]
        /\ pc[u] = "read" /\ pc'[u] \in {"request", "failed"}
        /\ UNCHANGED <<kind, wav, lapped, files>>
    BY <1>1, <1>4 DEF ReadFile, Goto, temp, store
  <2>2. \A v \in Uploads : v # u => (InUse(v)' <=> InUse(v)) /\ (Open(v)' <=> Open(v))
    BY <2>1 DEF InUse, Open
  <2>3. ~Open(u)' /\ ~InUse(u)' /\ u \notin files
    BY <2>1 DEF InUse, Open, TypeAndStore, Stored
  <2>4. \A v \in Uploads : Mine(v)' = Mine(v)
    BY <2>1 DEF Mine
  <2>5. \A v \in Uploads : FileOf(v)'
    <3> SUFFICES ASSUME NEW v \in Uploads, InUse(v)' PROVE (wav \subseteq Mine(v) /\ Alone(v))'
      BY DEF FileOf
    <3>1. v # u /\ InUse(v)
      BY <2>2, <2>3
    <3>2. Written(v)' = Written(v)
      BY <2>1, <3>1 DEF Written
    <3>3. QED
      BY <2>1, <2>4, <3>1, <3>2 DEF FileInv, FileOf, Alone
  <2>6. pc'[u] = "request" => BodyOf(u)'
    <3> SUFFICES ASSUME pc'[u] = "request" PROVE BodyOf(u)'
      OBVIOUS
    <3>1. body'[u] = IF kind[u] = "record" THEN wav ELSE Whole(u)
      BY <1>1, <1>4, <2>1 DEF ReadFile, Goto
    <3>2. CASE kind[u] = "record"
      <4>1. InUse(u) /\ wav \subseteq Mine(u) /\ Alone(u)
        BY <2>1, <3>2 DEF InUse, FileInv, FileOf
      <4>2. Written(u) = Whole(u)
        BY <2>1 DEF Written
      <4>3. QED
        BY <2>1, <2>4, <3>1, <3>2, <4>1, <4>2 DEF Alone, BodyOf
    <3>3. CASE kind[u] # "record"
      <4>1. body'[u] = Whole(u) /\ Whole(u) \subseteq Mine(u)
        BY <3>1, <3>3 DEF Mine
      <4>2. QED
        BY <2>4, <4>1 DEF BodyOf
    <3>4. QED
      BY <3>2, <3>3
  <2>7. \A v \in Uploads : pc'[v] \notin Unread \/ v \in files' => BodyOf(v)'
    <3> SUFFICES ASSUME NEW v \in Uploads, pc'[v] \notin Unread \/ v \in files' PROVE BodyOf(v)'
      OBVIOUS
    <3>1. CASE v = u
      BY <2>1, <2>3, <2>6, <3>1 DEF Unread
    <3>2. CASE v # u
      BY <2>1, <2>4, <3>2 DEF FileInv, BodyOf
    <3>3. QED
      BY <3>1, <3>2
  <2>8. \A v, w \in Uploads : (Open(v) /\ InUse(w))' /\ v # w => v \in lapped'[w]
    BY <2>1, <2>2, <2>3 DEF FileInv
  <2>9. \A v \in Uploads : /\ pc'[v] \in {"recording", "create", "samples", "rest"} => kind'[v] = "record"
                           /\ pc'[v] = "read" /\ kind'[v] # "record" => lapped'[v] = {}
                           /\ pc'[v] = "off" => lapped'[v] = {}
    BY <2>1 DEF FileInv
  <2>10. QED
    BY <2>5, <2>7, <2>8, <2>9 DEF FileInv
<1>5. CASE SendLine(u)
  <2>1. /\ \A v \in Uploads : v # u => pc'[v] = pc[v] /\ kind'[v] = kind[v]
        /\ pc[u] = "line" /\ pc'[u] = "sent" /\ UNCHANGED <<wav, lapped, body, files>>
    BY <1>1, <1>5 DEF SendLine, Goto, temp, store
  <2>2. ~Open(u)' /\ ~InUse(u)' /\ BodyOf(u)
    BY <2>1 DEF Open, InUse, FileInv, Unread
  <2>3. QED
    BY <2>1, <2>2, FileAside
<1>6. QED
  BY <1>2, <1>3, <1>4, <1>5, FileCreate DEF TaskStep

(* The stages of a request.                                                *)
Busy == {"request", "file", "thumb", "row", "answer", "line", "sent"}

LEMMA FileRequest ==
  ASSUME TypeAndStore, FileInv, NEW u \in Uploads, ServerStep(u) \/ Fault(u)
  PROVE  FileInv'
<1>1. pc \in [Uploads -> Stages]
  BY DEF TypeAndStore, TypeOK
<1>2. CASE WavFails(u)
  <2>1. /\ \A v \in Uploads : v # u => pc'[v] = pc[v]
        /\ pc'[u] = "failed" /\ pc[u] \in {"create", "samples", "rest"}
        /\ UNCHANGED <<kind, lapped, body, files>>
    BY <1>1, <1>2 DEF WavFails, Goto, store
  <2>2. ~Open(u)' /\ ~InUse(u)' /\ u \notin files
    BY <2>1 DEF Open, InUse, TypeAndStore, Stored
  <2>3. CASE Open(u)
    <3>1. wav' \subseteq wav \cup Whole(u)
      BY <1>2, <2>3 DEF WavFails
    <3>2. QED
      BY <2>1, <2>2, <2>3, <3>1, FileWrite
  <2>4. CASE ~Open(u)
    <3>1. wav' = wav
      BY <1>2, <2>4 DEF WavFails
    <3>2. QED
      BY <2>1, <2>2, <3>1, FileAside DEF Unread
  <2>5. QED
    BY <2>3, <2>4
<1>3. CASE RequestFails(u) \/ LineIsLost(u)
  <2>1. /\ \A v \in Uploads : v # u => pc'[v] = pc[v]
        /\ pc[u] \in Busy \cup {"read"} /\ pc'[u] \in {"failed", "lost"}
        /\ pc[u] = "read" => pc'[u] = "failed"
        /\ UNCHANGED <<kind, wav, lapped, body, files>>
    BY <1>1, <1>3 DEF RequestFails, LineIsLost, Goto, Busy, temp, store
  <2>2. ~Open(u)' /\ ~InUse(u)'
    BY <2>1 DEF Open, InUse
  <2>3. pc[u] = "read" => u \notin files
    BY DEF TypeAndStore, Stored
  <2>4. pc[u] \in Busy => BodyOf(u)
    BY DEF FileInv, Busy, Unread
  <2>5. QED
    BY <2>1, <2>2, <2>3, <2>4, FileAside DEF Unread
<1>4. CASE ServerStep(u)
  <2>1. /\ \A v \in Uploads : v # u => pc'[v] = pc[v]
        /\ pc[u] \in Busy /\ pc'[u] \in Busy \cup {"posted", "failed"}
        /\ UNCHANGED <<kind, wav, lapped, body>>
        /\ files' \subseteq files \cup {u}
    BY <1>1, <1>4 DEF ServerStep, Accept, WriteFile, WriteThumb, InsertRow, Answer, Broadcast,
                      Goto, Busy, temp, store
  <2>2. ~Open(u)' /\ ~InUse(u)'
    BY <2>1 DEF Open, InUse, Busy
  <2>3. BodyOf(u)
    BY <2>1 DEF FileInv, Busy, Unread
  <2>4. QED
    BY <2>1, <2>2, <2>3, FileAside DEF Busy
<1>5. QED
  BY <1>2, <1>3, <1>4 DEF Fault

(* However recordings follow each other: an upload is the whole of its own *)
(* recording if no other encoder had the temporary file open meanwhile,    *)
(* and holds samples of those at most that had (stop_recording,            *)
(* do_audio_upload).                                                       *)
THEOREM UploadsMixOnlyByOverlap == Spec => []MixedOnlyByOverlap
<1>1. Init => FileInv
  BY MediaAssumption DEF Init, FileInv, FileOf, BodyOf, InUse, Open, Unread
<1>2. TypeAndStore /\ FileInv /\ [Next]_vars => FileInv'
  <2> SUFFICES ASSUME TypeAndStore, FileInv, [Next]_vars PROVE FileInv'
    OBVIOUS
  <2>1. CASE cmd_record \/ PressGrave \/ ReleaseGrave
    BY <2>1, FileRecorder
  <2>2. ASSUME UNCHANGED <<kind, pc, wav, lapped, body, files>> PROVE FileInv'
    BY ONLY <2>2, FileInv DEF FileInv, FileOf, BodyOf, Mine, Alone, Written, InUse, Open
  <2>3. CASE SessionLapses
    BY <2>2, <2>3 DEF SessionLapses, temp, store
  <2>4. ASSUME NEW u \in Uploads, Render(u) \/ Fetch(u) PROVE FileInv'
    BY <2>2, <2>4 DEF Render, Fetch, temp, store
  <2>5. ASSUME NEW u \in Uploads, UploadFile(u) \/ TaskStep(u) \/ ServerStep(u) \/ Fault(u)
        PROVE  FileInv'
    BY <2>5, FileTask, FileRequest
  <2>6. CASE UNCHANGED vars
    BY <2>2, <2>6 DEF vars, temp, store
  <2>7. QED
    BY <2>1, <2>3, <2>4, <2>5, <2>6 DEF Next, Fault
<1>3. TypeAndStore /\ FileInv => MixedOnlyByOverlap
  BY DEF TypeAndStore, TypeOK, FileInv, BodyOf, Mine, MixedOnlyByOverlap
<1>4. QED
  BY <1>1, <1>2, <1>3, StoreInvariant, PTL DEF Spec
=============================================================================

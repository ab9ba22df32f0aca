--------------------------- MODULE PlaybackProofs ---------------------------
(***************************************************************************)
(* Theorems about Playback, for every set of notes and playbacks.          *)
(***************************************************************************)
EXTENDS Playback, SequenceTheorems, TLAPS

-----------------------------------------------------------------------------
(* The inductive invariant.  OneAtATime does not follow from itself: that  *)
(* a playback is started only while no other one is left without its flag  *)
(* set needs every playback that ever started to be flagged or current,    *)
(* ended or not; and a playback that has not started has no note, no       *)
(* ticker and no bins.                                                     *)
StoppedOrCurrent == \A p \in Plays : job[p] # "off" /\ ~stop[p] => p = current

OffIsFresh ==
  \A p \in Plays : job[p] = "off" =>
    /\ ~ticker[p] /\ ~stop[p]
    /\ p # current /\ p # live
    /\ \A i \in 1..Len(bins) : bins[i] # p

StartedHasNote == \A p \in Plays : job[p] # "off" => note[p] \in Notes

IInv ==
  /\ TypeOK
  /\ StoppedOrCurrent /\ OffIsFresh /\ StartedHasNote
  /\ BarsOfPlayingNote

LEMMA InvInit == Init => IInv
<1> SUFFICES ASSUME Init PROVE IInv
  OBVIOUS
<1>1. TypeOK
  BY PlaybackAssumption, EmptySeq DEF Init, TypeOK, Jobs
<1>2. StoppedOrCurrent /\ StartedHasNote /\ BarsOfPlayingNote
  BY DEF Init, StoppedOrCurrent, StartedHasNote, BarsOfPlayingNote
<1>3. OffIsFresh
  BY PlaybackAssumption DEF Init, OffIsFresh
<1>4. QED
  BY <1>1, <1>2, <1>3 DEF IInv

(* What the channels hold after a send and after a receive.                *)
LEMMA ChannelFacts ==
  ASSUME NEW S, NEW q \in Seq(S)
  PROVE  /\ \A e \in S : /\ Append(q, e) \in Seq(S)
                         /\ \A i \in 1..Len(Append(q, e)) :
                              Append(q, e)[i] = e \/ \E j \in 1..Len(q) : Append(q, e)[i] = q[j]
         /\ q # <<>> => /\ Tail(q) \in Seq(S)
                        /\ Head(q) \in S
                        /\ \E j \in 1..Len(q) : Head(q) = q[j]
                        /\ \A i \in 1..Len(Tail(q)) : \E j \in 1..Len(q) : Tail(q)[i] = q[j]
<1>1. ASSUME NEW e \in S
      PROVE  /\ Append(q, e) \in Seq(S)
             /\ \A i \in 1..Len(Append(q, e)) :
                  Append(q, e)[i] = e \/ \E j \in 1..Len(q) : Append(q, e)[i] = q[j]
  BY AppendProperties, LenProperties
<1>2. ASSUME q # <<>>
      PROVE  /\ Tail(q) \in Seq(S)
             /\ Head(q) \in S
             /\ \E j \in 1..Len(q) : Head(q) = q[j]
             /\ \A i \in 1..Len(Tail(q)) : \E j \in 1..Len(q) : Tail(q)[i] = q[j]
  BY <1>2, HeadTailProperties, LenProperties, EmptySeq
<1>3. QED
  BY <1>1, <1>2

-----------------------------------------------------------------------------
LEMMA TaskKeeps ==
  ASSUME IInv, NEW p \in Plays, TaskStep(p) \/ Tick(p) PROVE IInv'
<1> USE PlaybackAssumption
    DEF IInv, TypeOK, Jobs, StoppedOrCurrent, OffIsFresh, StartedHasNote,
        BarsOfPlayingNote, audio, tasks
<1>1. Append(events, [kind |-> "error", note |-> NoNote]) \in Seq(Events)
  <2>1. [kind |-> "error", note |-> NoNote] \in Events
    BY DEF Events
  <2>2. QED
    BY <2>1, ChannelFacts
<1>2. note[p] \in Notes => Append(events, [kind |-> "done", note |-> note[p]]) \in Seq(Events)
  <2>1. note[p] \in Notes => [kind |-> "done", note |-> note[p]] \in Events
    BY DEF Events
  <2>2. QED
    BY <2>1, ChannelFacts
<1>3. CASE Fetch(p)
  <2>1. events' \in Seq(Events)
    BY <1>1, <1>2, <1>3 DEF Fetch, Send
  <2>2. /\ job[p] = "fetching" /\ p \in Plays
        /\ \/ job' = [job EXCEPT ![p] = "opening"]
           \/ job' = [job EXCEPT ![p] = "failed"]
        /\ ticker' = ticker \/ \E d \in BOOLEAN : ticker' = [ticker EXCEPT ![p] = d]
        /\ UNCHANGED <<audio, note, stop, bins, phase, quit>>
    BY <1>3 DEF Fetch
  <2>3. TypeOK'
    <3>1. job \in [Plays -> Jobs] /\ ticker \in [Plays -> BOOLEAN]
      OBVIOUS
    <3>2. job' \in [Plays -> Jobs]
      BY ONLY <2>2, <3>1 DEF Jobs
    <3>3. ticker' \in [Plays -> BOOLEAN]
      BY ONLY <2>2, <3>1
    <3>4. UNCHANGED <<playing, current, live, note, stop, bins, phase, quit>>
      BY ONLY <2>2 DEF audio
    <3>5. QED
      BY ONLY IInv, <2>1, <3>2, <3>3, <3>4 DEF IInv, TypeOK
  <2>4. (StoppedOrCurrent /\ StartedHasNote /\ BarsOfPlayingNote)'
    BY <2>1, <2>2
  <2>5. OffIsFresh'
    <3>1. job \in [Plays -> Jobs] /\ ticker \in [Plays -> BOOLEAN]
      OBVIOUS
    <3>2. \A q \in Plays : q # p => job'[q] = job[q] /\ ticker'[q] = ticker[q]
      BY ONLY <2>2, <3>1
    <3>3. job'[p] # "off"
      BY ONLY <2>2, <3>1
    <3>4. UNCHANGED <<current, live, stop, bins>>
      BY ONLY <2>2 DEF audio
    <3>5. QED
      BY ONLY OffIsFresh, <3>2, <3>3, <3>4 DEF OffIsFresh
  <2>6. QED
    BY <2>3, <2>4, <2>5
<1>4. CASE Open(p)
  <2>1. events' \in Seq(Events)
    BY <1>1, <1>2, <1>4 DEF Open, Send
  <2>2. /\ job[p] = "opening"
        /\ \/ job' = [job EXCEPT ![p] = "playing"]
           \/ job' = [job EXCEPT ![p] = "failed"]
        /\ UNCHANGED <<audio, note, ticker, stop, bins, phase, quit>>
    BY <1>4 DEF Open
  <2>3. TypeOK'
    BY <2>1, <2>2
  <2>4. (StoppedOrCurrent /\ StartedHasNote /\ BarsOfPlayingNote)'
    BY <2>1, <2>2
  <2>5. OffIsFresh'
    BY <2>1, <2>2
  <2>6. QED
    BY <2>3, <2>4, <2>5
<1>5. CASE End(p)
  BY <1>1, <1>2, <1>5 DEF End, Send
<1>6. CASE Tick(p)
  <2>1. CASE bins' = bins
    BY <1>6, <2>1 DEF Tick
  <2>2. CASE bins' = Append(bins, p)
    <3>1. /\ bins' \in Seq(Plays)
          /\ \A i \in 1..Len(bins') : bins'[i] = p \/ \E j \in 1..Len(bins) : bins'[i] = bins[j]
      BY <2>2, ChannelFacts
    <3>2. job[p] # "off"
      BY <1>6 DEF Tick
    <3>3. UNCHANGED <<audio, note, job, ticker, stop, events, phase, quit>>
      BY <1>6, <2>2 DEF Tick
    <3>4. TypeOK'
      BY <3>1, <3>3
    <3>5. OffIsFresh'
      BY <3>1, <3>2, <3>3
    <3>6. (StoppedOrCurrent /\ StartedHasNote /\ BarsOfPlayingNote)'
      BY <3>3
    <3>7. QED
      BY <3>4, <3>5, <3>6
  <2>3. QED
    BY <1>6, <2>1, <2>2 DEF Tick
<1>7. QED
  BY <1>3, <1>4, <1>5, <1>6 DEF TaskStep

LEMMA KeysKeep ==
  ASSUME IInv,
         TogglePlayAudio \/ OtherKey \/ (\E n \in Notes : TogglePlayMessage(n))
  PROVE  IInv'
<1> USE PlaybackAssumption
    DEF IInv, TypeOK, Jobs, StoppedOrCurrent, OffIsFresh, StartedHasNote,
        BarsOfPlayingNote, audio, tasks
<1>1. CASE TogglePlayAudio
  <2>1. CASE stop_playback /\ UNCHANGED tasks
    BY <1>1, <2>1 DEF TogglePlayAudio, stop_playback
  <2>2. CASE /\ playing = NoNote
             /\ \E n \in Notes : start_playback(n)
             /\ UNCHANGED <<ticker, stop, live>>
    <3>1. PICK n \in Notes : start_playback(n)
      BY <2>2
    <3>2. PICK p \in Plays : /\ job[p] = "off"
                             /\ job' = [job EXCEPT ![p] = "fetching"]
                             /\ note' = [note EXCEPT ![p] = n]
                             /\ playing' = n
                             /\ current' = p
      BY <3>1 DEF start_playback
    <3>3. live = NoPlay
      BY <2>2
    <3>4. QED
      BY <1>1, <2>2, <3>2, <3>3 DEF TogglePlayAudio
  <2>3. QED
    BY <1>1, <2>1, <2>2 DEF TogglePlayAudio
<1>2. CASE OtherKey
  BY <1>2 DEF OtherKey
<1>3. ASSUME NEW n \in Notes, TogglePlayMessage(n) PROVE IInv'
  <2>1. CASE stop_playback /\ UNCHANGED tasks
    BY <1>3, <2>1 DEF TogglePlayMessage, stop_playback
  <2>2. CASE /\ start_playback(n)
             /\ stop' = IF current = NoPlay THEN stop ELSE [stop EXCEPT ![current] = TRUE]
             /\ live' = IF playing = NoNote THEN live ELSE NoPlay
             /\ UNCHANGED ticker
    <3>1. PICK p \in Plays : /\ job[p] = "off"
                             /\ job' = [job EXCEPT ![p] = "fetching"]
                             /\ note' = [note EXCEPT ![p] = n]
                             /\ playing' = n
                             /\ current' = p
      BY <2>2 DEF start_playback
    <3>2. live' = NoPlay
      BY <2>2
    <3>3. \A q \in Plays : job'[q] # "off" /\ ~stop'[q] => q = current'
      BY <2>2, <3>1
    <3>4. OffIsFresh'
      BY <1>3, <2>2, <3>1, <3>2 DEF TogglePlayMessage
    <3>5. QED
      BY <1>3, <2>2, <3>1, <3>2, <3>3, <3>4 DEF TogglePlayMessage
  <2>3. QED
    BY <1>3, <2>1, <2>2 DEF TogglePlayMessage
<1>4. QED
  BY <1>1, <1>2, <1>3

LEMMA LoopKeeps == ASSUME IInv, LoopStep PROVE IInv'
<1> USE PlaybackAssumption
    DEF IInv, TypeOK, Jobs, StoppedOrCurrent, OffIsFresh, StartedHasNote,
        BarsOfPlayingNote, audio, tasks
<1>1. CASE HandleServerMessage
  <2>1. events' \in Seq(Events)
    BY <1>1, ChannelFacts DEF HandleServerMessage
  <2>2. CASE stop_playback
    BY <1>1, <2>1, <2>2 DEF HandleServerMessage, stop_playback
  <2>3. CASE UNCHANGED <<audio, stop>>
    BY <1>1, <2>1, <2>3 DEF HandleServerMessage
  <2>4. QED
    BY <1>1, <2>2, <2>3 DEF HandleServerMessage
<1>2. CASE ServerRxEmpty
  BY <1>2 DEF ServerRxEmpty
<1>3. CASE TakeBins
  <2>1. /\ bins' \in Seq(Plays) /\ Head(bins) \in Plays
        /\ job[Head(bins)] # "off"
        /\ \A i \in 1..Len(bins') : \E j \in 1..Len(bins) : bins'[i] = bins[j]
    BY <1>3, ChannelFacts DEF TakeBins
  <2>2. QED
    BY <1>3, <2>1 DEF TakeBins
<1>4. CASE SpectrumRxEmpty
  BY <1>4 DEF SpectrumRxEmpty
<1>5. QED
  BY <1>1, <1>2, <1>3, <1>4 DEF LoopStep

LEMMA InvStep == IInv /\ [Next]_vars => IInv'
<1> SUFFICES ASSUME IInv, [Next]_vars PROVE IInv'
  OBVIOUS
<1>1. CASE ConnClosed
  <2>1. [kind |-> "closed", note |-> NoNote] \in Events
    BY DEF Events
  <2>2. events' \in Seq(Events)
    BY <1>1, <2>1, ChannelFacts DEF ConnClosed, Send, IInv, TypeOK
  <2>3. QED
    BY <1>1, <2>2
    DEF ConnClosed, IInv, TypeOK, StoppedOrCurrent, OffIsFresh, StartedHasNote,
        BarsOfPlayingNote, audio, tasks
<1>2. CASE UNCHANGED vars
  BY <1>2
  DEF vars, IInv, TypeOK, StoppedOrCurrent, OffIsFresh, StartedHasNote,
      BarsOfPlayingNote, audio, tasks
<1>3. QED
  BY <1>1, <1>2, TaskKeeps, KeysKeep, LoopKeeps DEF Next

-----------------------------------------------------------------------------
(* Every variable of the player keeps its type, and the flag is always     *)
(* that of a playback of the note shown as playing.                        *)
THEOREM PlaybackTypeCorrect == Spec => []TypeOK
<1>1. IInv => TypeOK
  BY DEF IInv
<1>2. QED
  BY InvInit, InvStep, <1>1, PTL DEF Spec

(* Whatever reports of earlier playbacks are under way, no two notes play  *)
(* over each other.                                                        *)
THEOREM NotesPlayOneAtATime == Spec => []OneAtATime
<1>1. IInv => OneAtATime
  BY DEF IInv, StoppedOrCurrent, OffIsFresh, OneAtATime, Running
<1>2. QED
  BY InvInit, InvStep, <1>1, PTL DEF Spec

(* The bars on the screen are never those of another note.                 *)
THEOREM BarsAreOfPlayingNote == Spec => []BarsOfPlayingNote
<1>1. IInv => BarsOfPlayingNote
  BY DEF IInv
<1>2. QED
  BY InvInit, InvStep, <1>1, PTL DEF Spec
=============================================================================

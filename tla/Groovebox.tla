------------------------------ MODULE Groovebox ------------------------------
(***************************************************************************)
(* MODE_GROOVEBOX: the pulse ISR, which plays the tracks of the sequence   *)
(* and erases what a recording passes, against the main thread, which      *)
(* records keys, clears, previews, changes track, starts and stops.        *)
(* seqLock is the lock: while it is set, pulses are dropped.               *)
(*                                                                         *)
(* The ISR takes a step of its own for each track at a boundary, and the   *)
(* main thread stands still meanwhile; the audio ISR does not.  What the   *)
(* main thread does to a voice without the lock takes a step for each      *)
(* write to its midiVal, phase and trigger, and pulses fall in between: a  *)
(* note on the ISR starts there has writes meant for the former note over  *)
(* it.  Such a voice is `torn'.  A note on takes two steps, since it waits *)
(* for the audio ISR.  A handler that neither lets a pulse in nor waits is *)
(* a step.  seq is indexed by track, then by position.  Left out: the      *)
(* metronome, transposition, velocity, volume, and the waveform knob,      *)
(* which changes no voice of a track.                                      *)
(***************************************************************************)
EXTENDS Integers, FiniteSets

CONSTANTS
  MAX_NOTES, SEQ_LENGTH, SEQ_NUM_TRACKS,
  seqStartPulse,          \* pulses from one position to the next
  WORD,                   \* 2^16, the range of startPulse and duration
  Key,                    \* the keys of the player's keyboard
  DrumKey,                \* the notes the player has on channel 10
  DrumPitch,              \* the pitch each of them plays at
  Control,                \* what the player touches
  KnobAt,                 \* tracks the knob may stand at when reset() reads it
  SampleChosen,           \* what a waveform may be: {FALSE}, no sample, or BOOLEAN
  MaxPulse,               \* bound on pulseClock
  Cost,                   \* what a move of each control takes of MaxMoves
  MaxMoves                \* bound on the player's moves

UNSET    == -1   \* 255 in the firmware
NOTE_OFF == -2   \* 0 in the firmware

Voice == 0 .. (MAX_NOTES - 1)
Track == 0 .. (SEQ_NUM_TRACKS - 1)
Slot  == 0 .. (SEQ_LENGTH - 1)
Pitch == Key \cup {DrumPitch[k] : k \in DrumKey}

ASSUME GrooveboxAssumption ==
  /\ MAX_NOTES \in Nat \ {0} /\ SEQ_LENGTH \in Nat \ {0} /\ SEQ_NUM_TRACKS \in Nat \ {0}
  /\ seqStartPulse \in Nat \ {0} /\ WORD \in Nat \ {0, 1} /\ MaxPulse \in Nat \ {0}
  /\ SampleChosen \subseteq BOOLEAN /\ KnobAt \subseteq Track
  /\ MaxMoves \in Nat /\ Cost \in [Control -> Nat]
  /\ Key \subseteq 21 .. 108 /\ DrumKey \subseteq 35 .. 81
  /\ DrumPitch \in [DrumKey -> 21 .. 108]

VARIABLES
  pulseClock, seqIndex,
  seqRunning, seqSynchStart, seqPreview, seqLock,
  currentTrack, selectedSettings,
  seq, track, note,
  waiting,       \* the main thread is in the loop of button 1
  doing,         \* the step the main thread is at
  head,          \* the track the ISR comes to next at a boundary
  moves,         \* what the player's moves so far have cost, to bound them
  held, plain    \* ghosts: the keys that are down; no key was down at a panel move

clock  == <<pulseClock, seqIndex>>
modes  == <<seqRunning, seqSynchStart, seqPreview>>
choice == <<currentTrack, selectedSettings>>
ghosts == <<moves, held, plain>>
vars   == <<clock, modes, seqLock, choice, seq, track, note, waiting, doing, head, ghosts>>

Press    == [drum : {FALSE}, note : Key] \cup [drum : {TRUE}, note : DrumKey]
\* owner and torn are ghosts: the track a voice was started for, and whether
\* a write meant for its former note has fallen on it
NoteT    == [midiVal : Pitch \cup {NOTE_OFF}, drum : DrumKey \cup {UNSET}, channel : Track,
             envelopePhase : {"OFF", "ON", "RELEASE"}, isSample : BOOLEAN,
             trigger : Track \cup {UNSET}, owner : Track \cup {UNSET}, torn : BOOLEAN]
SeqNoteT == [midiVal : Key \cup DrumKey \cup {UNSET}, drum : BOOLEAN, sample : BOOLEAN,
             noteIndex : Voice, startPulse : 0 .. (WORD - 1), duration : 0 .. (WORD - 1)]
TrackT   == [noteSeqIndex : Slot, state : {"SEQ_PLAY", "SEQ_RECORD"}]

Idle   == [step |-> "idle"]
OnT    == [step : {"on"}, key : Press, snap : Slot, start : 0 .. (WORD - 1)]
ServeT == [step : {"switch", "end", "end:phase", "end:trigger"}, voice : Voice]
OffT   == [step : {"off", "off:release", "off:trigger"}, note : Key \cup DrumKey,
           drum : BOOLEAN, voice : Voice, sample : BOOLEAN, turn : Track \cup {UNSET}]
QuietT == [step : {"quiet", "quiet:mark", "quiet:wait"}, channel : Track, voice : Voice]
TurnT  == [step : {"turn"}, turn : Track, ends : BOOLEAN, stops : BOOLEAN]
DoingT == {Idle} \cup OnT \cup ServeT \cup OffT \cup QuietT \cup TurnT

TypeOK ==
  /\ pulseClock \in 0 .. MaxPulse /\ seqIndex \in Slot
  /\ seqRunning \in BOOLEAN /\ seqSynchStart \in BOOLEAN /\ seqPreview \in BOOLEAN
  /\ seqLock \in BOOLEAN /\ waiting \in BOOLEAN /\ plain \in BOOLEAN
  /\ currentTrack \in Track /\ selectedSettings \in Track
  /\ seq \in [Track -> [Slot -> SeqNoteT]]
  /\ track \in [Track -> TrackT]
  /\ note \in [Voice -> NoteT]
  /\ doing \in DoingT
  /\ head \in Track \cup {UNSET}
  /\ held \subseteq Press /\ moves \in 0 .. MaxMoves

SilentNote == [midiVal |-> NOTE_OFF, drum |-> UNSET, channel |-> 0,
               envelopePhase |-> "OFF", isSample |-> FALSE, trigger |-> UNSET,
               owner |-> UNSET, torn |-> FALSE]
EmptySlot  == [midiVal |-> UNSET, drum |-> FALSE, sample |-> FALSE,
               noteIndex |-> 0, startPulse |-> 0, duration |-> 0]
Playing    == [noteSeqIndex |-> 0, state |-> "SEQ_PLAY"]

Init ==
  /\ pulseClock = 0 /\ seqIndex = SEQ_LENGTH - 1
  /\ seqRunning = FALSE /\ seqSynchStart = FALSE /\ seqPreview = FALSE
  /\ seqLock = FALSE /\ waiting = FALSE /\ doing = Idle /\ head = UNSET
  /\ currentTrack = 0 /\ selectedSettings \in KnobAt
  /\ seq = [t \in Track |-> [s \in Slot |-> EmptySlot]]
  /\ track = [t \in Track |-> Playing]
  /\ note = [v \in Voice |-> SilentNote]
  /\ moves = 0 /\ held = {} /\ plain = TRUE
-----------------------------------------------------------------------------
(* Functions on voices *)

Sn(t)      == seq[t][track[t].noteSeqIndex]
OfTrack(t) == note[Sn(t).noteIndex]
On(n)      == n.envelopePhase \notin {"OFF", "RELEASE"}

\* What nothing reads of a silent voice is put back here.
Marked(n) == [n EXCEPT !.midiVal = NOTE_OFF, !.drum = UNSET, !.channel = 0,
                       !.owner = UNSET, !.torn = FALSE]
StopNote(n)  == [Marked(n) EXCEPT !.envelopePhase = "OFF"]
Unclaimed(n) == [StopNote(n) EXCEPT !.trigger = UNSET]

\* releaseNote(); the audio ISR may end a sample just before it is put to RELEASE
ReleaseNote(n, cut) ==
  [n EXCEPT !.midiVal = IF n.isSample /\ cut THEN NOTE_OFF ELSE @,
            !.envelopePhase = "RELEASE",
            !.trigger = IF n.isSample THEN UNSET ELSE @]

\* findNoteIndex(), without the order of age: a free voice, else a waveform
Choices(voices) ==
  LET free  == {v \in Voice : voices[v].midiVal = NOTE_OFF}
      waves == {v \in Voice : ~voices[v].isSample}
  IN  IF free # {} THEN {v \in free : \A w \in free : v <= w}
      ELSE IF waves # {} THEN waves ELSE Voice

\* doNoteOn() and, for a drum, setDrumParameters(); the audio ISR may end a
\* sample before its length is set, unless it is a drum
NewNote(key, drum, channel, sample, cut, owner) ==
  [midiVal |-> IF drum THEN DrumPitch[key] ELSE IF cut THEN NOTE_OFF ELSE key,
   drum |-> IF drum THEN key ELSE UNSET, channel |-> channel,
   envelopePhase |-> "ON", isSample |-> drum \/ sample,
   trigger |-> owner, owner |-> owner, torn |-> FALSE]
-----------------------------------------------------------------------------
(* The pulse ISR *)

Elapsed(t) == (pulseClock - Sn(t).startPulse) % WORD

\* wrong variant: the pulse at which the duration has just elapsed is let pass
IsDueLate(t) ==
  /\ track[t].state = "SEQ_PLAY"
  /\ OfTrack(t).trigger = t /\ On(OfTrack(t))
  /\ Elapsed(t) > Sn(t).duration

IsDue(t) ==
  /\ track[t].state = "SEQ_PLAY"
  /\ OfTrack(t).trigger = t /\ On(OfTrack(t))
  /\ Elapsed(t) >= Sn(t).duration

\* Counts the clock only, while the sequence does not run.
IdlePulse ==
  /\ ~seqRunning /\ ~seqLock
  /\ pulseClock < MaxPulse
  /\ pulseClock' = pulseClock + 1
  /\ UNCHANGED <<seqIndex, modes, seqLock, choice, seq, track, note, waiting, doing, head,
                 ghosts>>

\* Notes whose duration has elapsed are released; at a boundary the head moves.
Pulse ==
  /\ seqRunning /\ ~seqLock /\ head = UNSET
  /\ pulseClock < MaxPulse
  /\ \E cut \in SUBSET Voice :
       note' = [v \in Voice |->
                  IF \E t \in Track : IsDue(t) /\ Sn(t).noteIndex = v
                  THEN ReleaseNote(note[v], v \in cut) ELSE note[v]]
  /\ seq' = [t \in Track |->
               IF IsDue(t) THEN [seq[t] EXCEPT ![track[t].noteSeqIndex].duration = Elapsed(t)]
               ELSE seq[t]]
  /\ IF pulseClock % seqStartPulse = 0
     THEN seqIndex' = (seqIndex + 1) % SEQ_LENGTH /\ head' = 0 /\ UNCHANGED pulseClock
     ELSE pulseClock' = pulseClock + 1 /\ UNCHANGED <<seqIndex, head>>
  /\ UNCHANGED <<modes, seqLock, choice, track, waiting, doing, ghosts>>

NextTrack(t) ==
  IF t + 1 \in Track THEN head' = t + 1 /\ UNCHANGED pulseClock
  ELSE head' = UNSET /\ pulseClock' = pulseClock + 1

DoubleHit(slot) == /\ pulseClock > slot.startPulse
                   /\ pulseClock - slot.startPulse < seqStartPulse

\* the note of the track that a note at the head cuts short, and its duration
CutShort(t) ==
  IF OfTrack(t).trigger = t
  THEN <<IF On(OfTrack(t)) THEN [seq[t] EXCEPT ![track[t].noteSeqIndex].duration = Elapsed(t)]
         ELSE seq[t],
         [note EXCEPT ![Sn(t).noteIndex] = Unclaimed(@)]>>
  ELSE <<seq[t], note>>

\* the head comes to a note of a track that is playing
PlaySlot(t) ==
  LET slots  == CutShort(t)[1]
      voices == CutShort(t)[2]
      slot   == slots[seqIndex]
  IN
  /\ head = t /\ track[t].state = "SEQ_PLAY" /\ seq[t][seqIndex].midiVal # UNSET
  /\ IF DoubleHit(slot)
     THEN seq' = [seq EXCEPT ![t] = slots] /\ note' = voices /\ UNCHANGED track
     ELSE \E v \in Choices(voices), cut \in SampleChosen :
            /\ note' = [voices EXCEPT ![v] =
                 NewNote(slot.midiVal, slot.drum, t, slot.sample, cut, t)]
            /\ seq' = [seq EXCEPT ![t] = [slots EXCEPT ![seqIndex].noteIndex = v,
                                                       ![seqIndex].startPulse = pulseClock % WORD]]
            /\ track' = [track EXCEPT ![t].noteSeqIndex = seqIndex]
  /\ NextTrack(t)
  /\ UNCHANGED <<seqIndex, modes, seqLock, choice, waiting, doing, ghosts>>

\* the head comes to a note of a track that is recording another one
EraseSlot(t) ==
  /\ head = t /\ track[t].state = "SEQ_RECORD" /\ seqIndex # track[t].noteSeqIndex
  /\ seq[t][seqIndex].midiVal # UNSET
  /\ seq' = [seq EXCEPT ![t][seqIndex] = EmptySlot]
  /\ NextTrack(t)
  /\ UNCHANGED <<seqIndex, modes, seqLock, choice, track, note, waiting, doing, ghosts>>

\* the head passes
PassSlot(t) ==
  /\ head = t
  /\ \/ seq[t][seqIndex].midiVal = UNSET
     \/ track[t].state = "SEQ_RECORD" /\ seqIndex = track[t].noteSeqIndex
  /\ NextTrack(t)
  /\ UNCHANGED <<seqIndex, modes, seqLock, choice, seq, track, note, waiting, doing, ghosts>>

\* The audio ISR: a sample is at its end, or it is one that stopNote() waits for.
VoiceEnds(v) ==
  /\ note[v].isSample
  /\ \/ note[v].midiVal # NOTE_OFF
     \/ doing.step = "quiet:wait" /\ doing.voice = v
  /\ note' = [note EXCEPT ![v] = StopNote(@)]
  /\ UNCHANGED <<clock, modes, seqLock, choice, seq, track, waiting, doing, head, ghosts>>
-----------------------------------------------------------------------------
(* The service loop *)

Main  == head = UNSET /\ doing = Idle
At(s) == head = UNSET /\ doing.step = s
Frame == UNCHANGED <<clock, modes, seqLock, choice, seq, track, waiting, head, ghosts>>

\* processEnvelope() reads the phase of a waveform: it goes on to the next
\* phase, or it is done.  SUSTAIN, where it does neither, is not told from the
\* phases before it.
Serve(v) ==
  /\ Main /\ ~waiting
  /\ note[v].midiVal # NOTE_OFF /\ ~note[v].isSample
  /\ \/ On(note[v]) /\ doing' = [step |-> "switch", voice |-> v]
     \/ note[v].envelopePhase = "RELEASE" /\ doing' = [step |-> "end", voice |-> v]
  /\ UNCHANGED note /\ Frame

\* It writes the phase that comes after the one it read.
SwitchPhase ==
  LET v == doing.voice IN
  /\ At("switch")
  /\ note' = [note EXCEPT ![v].envelopePhase = "ON",
                          ![v].torn = @ \/ (note[v].midiVal # NOTE_OFF /\ ~On(note[v]))]
  /\ doing' = Idle
  /\ Frame

\* The note is done: its midiVal, its phase and its trigger are put back.
EndNote ==
  /\ At("end")
  /\ note' = [note EXCEPT ![doing.voice] = Marked(@)]
  /\ doing' = [doing EXCEPT !.step = "end:phase"]
  /\ Frame

\* a voice that has a midiVal again was restarted since it was marked
Restarted(n) == n.midiVal # NOTE_OFF

EndPhase ==
  /\ At("end:phase")
  /\ note' = [note EXCEPT ![doing.voice].envelopePhase = "OFF",
                          ![doing.voice].torn = Restarted(note[doing.voice])]
  /\ doing' = [doing EXCEPT !.step = "end:trigger"]
  /\ Frame

EndTrigger ==
  /\ At("end:trigger")
  /\ note' = [note EXCEPT ![doing.voice].trigger = UNSET,
                          ![doing.voice].torn = Restarted(note[doing.voice])]
  /\ doing' = Idle
  /\ Frame
-----------------------------------------------------------------------------
(* Keys, by MIDI *)

May(control) == Main /\ control \in Control
\* a move of the player, who has so many
Move(control) == /\ May(control) /\ moves + Cost[control] <= MaxMoves
                 /\ moves' = moves + Cost[control]
AtPanel(control) == Move(control) /\ ~waiting

\* wrong variant: the position after the last is not the first
SnapIndexOverrun == IF seqSynchStart THEN 0 ELSE
                    IF pulseClock % seqStartPulse \in 1 .. seqStartPulse \div 2
                    THEN seqIndex ELSE seqIndex + 1

Offset   == pulseClock % seqStartPulse
SnapBack == Offset > 0 /\ Offset <= seqStartPulse \div 2
SnapIndex == IF seqSynchStart THEN 0
             ELSE IF SnapBack THEN seqIndex ELSE (seqIndex + 1) % SEQ_LENGTH
\* the boundary the note of the key snaps to
SnapPulse == IF Offset > 0 /\ ~SnapBack THEN pulseClock + seqStartPulse - Offset
             ELSE pulseClock - Offset

\* wrong variant: the ISR is not locked out
LockNothing == UNCHANGED seqLock

Lock == seqLock' = TRUE

\* grooveboxNoteOn(), up to the end of stopNote() on the track's former note
BeginNoteOn(k) ==
  LET t == currentTrack
      claimed == /\ OfTrack(t).trigger = t
                 /\ OfTrack(t).envelopePhase # "OFF" \/ OfTrack(t).isSample
  IN
  /\ Move("keys") /\ k \notin held
  /\ held' = held \cup {k}
  /\ Lock
  /\ doing' = [step |-> "on", key |-> k, snap |-> SnapIndex, start |-> pulseClock % WORD]
  /\ note' = IF claimed THEN [note EXCEPT ![Sn(t).noteIndex] = Unclaimed(@)] ELSE note
  /\ seq' = IF /\ claimed /\ ~seqPreview /\ seqRunning /\ OfTrack(t).envelopePhase # "RELEASE"
               /\ Sn(t).duration = 0 /\ track[t].noteSeqIndex # SnapIndex
            THEN [seq EXCEPT ![t][track[t].noteSeqIndex].duration =
                                (SnapPulse - Sn(t).startPulse) % WORD]
            ELSE seq
  /\ UNCHANGED <<clock, modes, choice, track, waiting, head, plain>>

\* the rest: the new note starts, and is recorded
FinishNoteOn ==
  LET k == doing.key
      t == currentTrack
      recorded == ~seqPreview /\ (seqRunning \/ seqSynchStart)
  IN
  /\ At("on")
  /\ \E v \in Choices(note), sample \in SampleChosen, cut \in BOOLEAN :
       LET new == NewNote(k.note, k.drum, selectedSettings, sample, sample /\ cut,
                          IF recorded THEN t ELSE UNSET) IN
       /\ note' = [note EXCEPT ![v] = new]
       /\ IF recorded
          THEN /\ seq' = [seq EXCEPT ![t][doing.snap] =
                    [midiVal |-> k.note, drum |-> k.drum, sample |-> new.isSample,
                     noteIndex |-> v, startPulse |-> doing.start, duration |-> 0]]
               /\ track' = [track EXCEPT ![t] = [noteSeqIndex |-> doing.snap,
                                                 state |-> "SEQ_RECORD"]]
          ELSE UNCHANGED <<seq, track>>
  /\ plain' = (plain /\ ~seqSynchStart)
  /\ seqSynchStart' = FALSE /\ seqLock' = FALSE /\ doing' = Idle
  /\ UNCHANGED <<clock, seqRunning, seqPreview, choice, waiting, head, moves, held>>

\* the part of grooveboxNoteOff() while the sequence runs: the duration is
\* known, the note is released if it is still the track's
EndRecording(key) ==
  LET t == currentTrack
      length == (pulseClock - Sn(t).startPulse) % WORD
  IN IF Sn(t).midiVal = key
     THEN /\ seq' = [seq EXCEPT ![t][track[t].noteSeqIndex].duration =
                                   IF length = 0 THEN 1 ELSE length]
          /\ IF OfTrack(t).trigger = t
             THEN \E cut \in BOOLEAN :
                    note' = [note EXCEPT ![Sn(t).noteIndex] = ReleaseNote(@, cut)]
             ELSE UNCHANGED note
          /\ track' = [track EXCEPT ![t].state = "SEQ_PLAY"]
     ELSE UNCHANGED <<seq, note, track>>

\* doNoteOff() or doDrumNoteOff(), for the track knob (turn) or a key (UNSET)
NotesOff(key, drum, turn) ==
  [step |-> "off", note |-> key, drum |-> drum, voice |-> 0, sample |-> FALSE, turn |-> turn]

NoteOff(k) ==
  /\ May("keys") /\ k \in held
  /\ held' = held \ {k}
  /\ IF seqPreview \/ ~seqRunning
     THEN doing' = NotesOff(k.note, k.drum, UNSET) /\ UNCHANGED <<seq, note, track>>
     ELSE EndRecording(k.note) /\ UNCHANGED doing
  /\ UNCHANGED <<clock, modes, seqLock, choice, waiting, head, moves, plain>>

\* the next voice of the loop over the voices; after the last, back
NextOff ==
  doing' = IF doing.voice + 1 \in Voice
           THEN [doing EXCEPT !.voice = @ + 1, !.step = "off", !.sample = FALSE]
           ELSE IF doing.turn = UNSET THEN Idle
           ELSE [step |-> "turn", turn |-> doing.turn, ends |-> FALSE, stops |-> ~seqRunning]

\* the voice is looked at: releaseNote() is called if it has the note
FindNoteOff ==
  LET n == note[doing.voice]
      match == IF doing.drum THEN n.drum = doing.note /\ n.midiVal # NOTE_OFF
               ELSE n.midiVal = doing.note /\ n.channel = selectedSettings
  IN
  /\ At("off")
  /\ IF match THEN doing' = [doing EXCEPT !.step = "off:release", !.sample = n.isSample]
     ELSE NextOff
  /\ UNCHANGED note /\ Frame

\* its phase is put to RELEASE; that of a sample is not all
ReleasePhase ==
  /\ At("off:release")
  /\ note' = [note EXCEPT ![doing.voice].envelopePhase = "RELEASE"]
  /\ IF doing.sample THEN doing' = [doing EXCEPT !.step = "off:trigger"] ELSE NextOff
  /\ Frame

ReleaseTrigger ==
  LET v == doing.voice IN
  /\ At("off:trigger")
  /\ note' = [note EXCEPT ![v].trigger = UNSET,
                          ![v].torn = @ \/ (note[v].midiVal # NOTE_OFF /\ On(note[v]))]
  /\ NextOff
  /\ Frame

\* the controller ALL_NOTES_OFF
AllNotesOff(channel) ==
  /\ Move("midi")
  /\ doing' = [step |-> "quiet", channel |-> channel, voice |-> 0]
  /\ UNCHANGED <<clock, modes, seqLock, choice, seq, track, note, waiting, head, held, plain>>

NextQuiet ==
  doing' = IF doing.voice + 1 \in Voice
           THEN [doing EXCEPT !.voice = @ + 1, !.step = "quiet"] ELSE Idle

FindQuiet ==
  LET n == note[doing.voice] IN
  /\ At("quiet")
  /\ IF n.channel = doing.channel /\ n.midiVal # NOTE_OFF
     THEN doing' = [doing EXCEPT !.step = "quiet:mark"] ELSE NextQuiet
  /\ UNCHANGED note /\ Frame

\* stopNote(): NOTE_PENDING_OFF, the wait, and OFF; that the ISR restarts the
\* voice ends the wait as well, since its increments are then 0
QuietMark ==
  /\ At("quiet:mark")
  /\ note' = [note EXCEPT ![doing.voice] = Marked(@)]
  /\ doing' = [doing EXCEPT !.step = "quiet:wait"]
  /\ Frame

QuietPhase ==
  /\ At("quiet:wait")
  /\ note' = [note EXCEPT ![doing.voice].envelopePhase = "OFF",
                          ![doing.voice].torn = Restarted(note[doing.voice])]
  /\ NextQuiet
  /\ Frame
-----------------------------------------------------------------------------
(* Transport *)

ResetGroovebox ==
  /\ seqIndex' = SEQ_LENGTH - 1
  /\ track' = [t \in Track |-> [track[t] EXCEPT !.state = "SEQ_PLAY"]]

\* wrong variant: only the track that is recording is stopped
StopSequencerRecording ==
  /\ note' = [v \in Voice |->
       IF \E t \in Track : /\ Sn(t).noteIndex = v /\ note[v].envelopePhase # "OFF"
                           /\ track[t].state = "SEQ_RECORD"
       THEN Unclaimed(note[v]) ELSE note[v]]
  /\ seqPreview' = FALSE

StopSequencer ==
  /\ note' = [v \in Voice |->
       IF \E t \in Track : Sn(t).noteIndex = v /\ note[v].envelopePhase # "OFF"
       THEN Unclaimed(note[v]) ELSE note[v]]
  /\ seqPreview' = FALSE

Undisturbed == plain /\ held = {}

\* MIDI start and continue; a pulse may fall between the two assignments
HandleStart ==
  /\ Move("midi") /\ ~seqRunning
  /\ ResetGroovebox
  /\ pulseClock' \in {0, 1}
  /\ seqRunning' = TRUE
  /\ plain' = Undisturbed
  /\ UNCHANGED <<seqSynchStart, seqPreview, seqLock, choice, seq, note, waiting, doing,
                 head, held>>

HandleStop ==
  /\ Move("midi") /\ seqRunning
  /\ seqRunning' = FALSE
  /\ StopSequencer
  /\ plain' = Undisturbed
  /\ UNCHANGED <<clock, seqSynchStart, seqLock, choice, seq, track, waiting, doing, head, held>>

\* button 1 while the sequence stands: wait in a loop for the first note
PressStart ==
  /\ AtPanel("start") /\ ~seqRunning
  /\ ResetGroovebox
  /\ pulseClock' = 0
  /\ seqSynchStart' = TRUE /\ waiting' = TRUE
  /\ plain' = Undisturbed
  /\ UNCHANGED <<seqRunning, seqPreview, seqLock, choice, seq, note, doing, head, held>>

\* button 4 in that loop: back without a start
LeaveToSave ==
  /\ May("start") /\ waiting
  /\ waiting' = FALSE
  /\ UNCHANGED <<clock, modes, seqLock, choice, seq, track, note, doing, head, ghosts>>

\* the end of that loop, or button 1 while the sequence runs
StartOrStop ==
  /\ May("start") /\ (waiting \/ seqRunning)
  /\ waiting' = FALSE
  /\ seqSynchStart' = FALSE
  /\ seqRunning' = ~seqRunning
  /\ IF seqRunning THEN StopSequencer ELSE UNCHANGED <<note, seqPreview>>
  /\ plain' = Undisturbed
  /\ UNCHANGED <<clock, seqLock, choice, seq, track, doing, head, moves, held>>
-----------------------------------------------------------------------------
(* The panel *)

\* button 2
Clear ==
  /\ AtPanel("clear")
  /\ seq' = [seq EXCEPT ![currentTrack] =
               [s \in Slot |-> IF s = track[currentTrack].noteSeqIndex
                              THEN [seq[currentTrack][s] EXCEPT !.midiVal = UNSET]
                              ELSE EmptySlot]]
  /\ plain' = Undisturbed
  /\ UNCHANGED <<clock, modes, seqLock, choice, track, note, waiting, doing, head, held>>

\* button 3
TogglePreview ==
  /\ AtPanel("preview") /\ seqRunning
  /\ seqPreview' = ~seqPreview
  /\ plain' = Undisturbed
  /\ UNCHANGED <<clock, seqRunning, seqSynchStart, seqLock, choice, seq, track, note,
                 waiting, doing, head, held>>

\* The track knob: handleNoteOff() on the note being recorded, which turns
\* back a drum's midiVal of more than MIDI_HIGH, and stopNote() if stopped.
SelectTrack(t) ==
  LET old == currentTrack
      sounding == OfTrack(old).trigger = old /\ OfTrack(old).envelopePhase # "OFF"
      ended == /\ sounding /\ track[old].state = "SEQ_RECORD"
               /\ ~Sn(old).drum /\ Sn(old).midiVal # UNSET
  IN
  /\ AtPanel("track") /\ selectedSettings # t
  /\ doing' = IF ended /\ (seqPreview \/ ~seqRunning)
              THEN NotesOff(Sn(old).midiVal, FALSE, t)
              ELSE [step |-> "turn", turn |-> t, ends |-> ended,
                    stops |-> sounding /\ ~seqRunning]
  /\ plain' = Undisturbed
  /\ UNCHANGED <<clock, modes, seqLock, choice, seq, track, note, waiting, head, held>>

FinishTurn ==
  /\ At("turn")
  /\ IF doing.ends THEN EndRecording(Sn(currentTrack).midiVal)
     ELSE /\ note' = IF doing.stops
                     THEN [note EXCEPT ![Sn(currentTrack).noteIndex] = StopNote(@)] ELSE note
          /\ UNCHANGED <<seq, track>>
  /\ selectedSettings' = doing.turn /\ currentTrack' = doing.turn
  /\ doing' = Idle
  /\ UNCHANGED <<clock, modes, seqLock, waiting, head, ghosts>>

\* reset() in this mode, without a patch
Reset ==
  /\ AtPanel("reset")
  /\ seqRunning' = FALSE /\ seqPreview' = FALSE
  /\ note' = [v \in Voice |-> SilentNote]
  /\ seq' = [t \in Track |-> [s \in Slot |-> EmptySlot]]
  /\ track' = [t \in Track |-> Playing]
  /\ selectedSettings' \in KnobAt
  /\ plain' = Undisturbed
  /\ UNCHANGED <<clock, seqSynchStart, seqLock, currentTrack, waiting, doing, head, held>>

\* what the main thread does to a voice without the lock
OnVoices ==
  \/ \E v \in Voice : Serve(v)
  \/ SwitchPhase \/ EndNote \/ EndPhase \/ EndTrigger
  \/ FindNoteOff \/ ReleasePhase \/ ReleaseTrigger
  \/ FindQuiet \/ QuietMark \/ QuietPhase

Handler ==
  \/ OnVoices
  \/ \E k \in Press : BeginNoteOn(k) \/ NoteOff(k)
  \/ FinishNoteOn \/ FinishTurn
  \/ HandleStart \/ HandleStop \/ PressStart \/ LeaveToSave \/ StartOrStop
  \/ Clear \/ TogglePreview \/ Reset
  \/ \E t \in Track : SelectTrack(t) \/ AllNotesOff(t)

ISR == \/ IdlePulse \/ Pulse
       \/ \E t \in Track : PlaySlot(t) \/ EraseSlot(t) \/ PassSlot(t)
       \/ \E v \in Voice : VoiceEnds(v)

\* the end of the bounded clock, where a player out of moves stands still
EndOfClock == pulseClock = MaxPulse /\ UNCHANGED vars

Next == Handler \/ ISR \/ EndOfClock
Spec == Init /\ [][Next]_vars
-----------------------------------------------------------------------------
(* Properties *)

\* heard, and not released
Sounding(n) == n.midiVal # NOTE_OFF /\ n.envelopePhase # "RELEASE"

\* A voice that was started for a track and sounds is the one the sequencer
\* finds by the track's position, with its trigger and a phase that is not
\* OFF, to release it, cut it short or stop it: none is orphaned, and no track
\* sounds twice.  Torn voices are left out: the code orphans those.
TrackOwnsItsVoice ==
  doing.step # "on" =>
    \A v \in Voice, t \in Track :
      note[v].owner = t /\ Sounding(note[v]) /\ ~note[v].torn =>
        note[v].trigger = t /\ On(note[v]) /\ Sn(t).noteIndex = v

\* A sequence that has been stopped is silent, but for torn voices.
StopsEverything ==
  [][seqRunning /\ ~seqRunning' =>
       \A v \in Voice :
         note'[v].owner \in Track /\ ~note'[v].torn => ~Sounding(note'[v])]_vars

\* A note whose key was never seen to go up, since its voice was taken from it,
\* has duration 0 and is released at the next pulse.
Length(slot) == IF slot.duration = 0 THEN 1 ELSE slot.duration

\* While the sequence runs a note of a track ends: its key is down and its
\* track waits for the key, or its duration has not elapsed.  This is for
\* tracks edited and transports used with no key down, and for notes that
\* do not start the sequence; a track can be left recording by the others.
\* Torn voices are left out: one whose release is overwritten outlasts it.
HeldOrTimed ==
  plain /\ seqRunning /\ doing.step # "on" =>
    \A t \in Track : LET n == OfTrack(t) IN
      n.owner = t /\ Sounding(n) /\ ~n.torn =>
        \/ /\ track[t].state = "SEQ_RECORD"
           /\ [drum |-> Sn(t).drum, note |-> Sn(t).midiVal] \in held
        \/ track[t].state = "SEQ_PLAY" /\ Elapsed(t) <= Length(Sn(t))
=============================================================================

----------------------------- MODULE Arpeggiator -----------------------------
(***************************************************************************)
(* MODE_ARPEGGIATOR: the pulse ISR, which plays the arpeggio, against the  *)
(* main thread, which edits it.  arpRunning is the lock: the handlers      *)
(* clear it while they edit and put it back, and the ISR does nothing, not *)
(* even count, while it is clear.                                          *)
(*                                                                         *)
(* A handler makes its first assignments at once and leaves the rest in    *)
(* `todo', a sequence of the steps it still has to take; the ISR can run   *)
(* between any two.  Of the voices only their use by the arpeggiator is    *)
(* kept; how one is chosen and stopped is the subject of Voices and Synth. *)
(* arpMIDILatch is TRUE from initArpeggiator() on, so a key that is        *)
(* released stays in the arpeggio until the next key is pressed.           *)
(***************************************************************************)
EXTENDS Integers, Sequences, FiniteSets

CONSTANTS
  MAX_NOTES,              \* number of voices
  ARP_MAX_NOTES,          \* length of arpeggio[] and of midiArpeggioNotes[]
  PPQ,                    \* pulses per quarter note
  ARP_TIME_DIVISION_MAX,
  ChordIntervals,         \* arpIntervals[], a sequence for each chord type
  Key,                    \* the MIDI keys the player has
  Root,                   \* positions of the root note knob
  Control,                \* what the player touches
  MaxPulse,               \* bound on pulseClock
  MaxTime                 \* bound on millis()

MIDI_LOW  == 21
MIDI_HIGH == 108
UNSET     == -1   \* 255 in the firmware

Slot         == 0 .. (ARP_MAX_NOTES - 1)
Voice        == 0 .. (MAX_NOTES - 1)
ARP_TYPE_MIDI == Len(ChordIntervals)
Pattern      == {"up", "down", "updown", "random"}
Byte         == 0 .. 255
VoiceUse     == {"silent", "held", "released"}

ASSUME ArpeggiatorAssumption ==
  /\ MAX_NOTES \in Nat \ {0} /\ ARP_MAX_NOTES \in 1 .. 255
  /\ ARP_TIME_DIVISION_MAX \in Nat \ {0, 1} /\ PPQ \in Nat /\ PPQ >= 12
  /\ \A d \in 0 .. ARP_TIME_DIVISION_MAX : PPQ \div 2 ^ d \in 3 .. PPQ
  /\ ChordIntervals \in Seq(Seq(0 .. 12)) /\ ChordIntervals # <<>>
  /\ \A t \in DOMAIN ChordIntervals : Len(ChordIntervals[t]) \in 1 .. ARP_MAX_NOTES
  /\ Key \subseteq MIDI_LOW .. MIDI_HIGH
  /\ Root \subseteq MIDI_LOW .. (MIDI_HIGH - 12)
  /\ MaxPulse \in Nat /\ MaxTime \in Nat

VARIABLES
  arpRunning,
  pulseClock, arpReleaseTime, arpTimeDivision, arpNoteStartPulse, arpNoteLength,
  arpNoteIndex, voice,                    \* voice: what each one is used for
  arpeggio, arpLength, arpPosition, arpPattern, arpDirection, arpType, arpRootNote,
  midiArpeggioNotes, midiArpeggioNoteTime,
  todo, oldArpRunning,                    \* the handler the main thread is in
  now,                                    \* millis()
  stray,                                  \* a write has missed arpeggio[]
  pressed, latched, source                \* ghosts: see below

timing == <<pulseClock, arpReleaseTime, arpTimeDivision, arpNoteStartPulse, arpNoteLength>>
playing == <<arpNoteIndex, voice>>
notes  == <<arpeggio, arpLength, arpPosition>>
panel  == <<arpPattern, arpDirection, arpType, arpRootNote>>
slots  == <<midiArpeggioNotes, midiArpeggioNoteTime>>
thread == <<todo, oldArpRunning>>
ghosts == <<pressed, latched, source>>
vars   == <<arpRunning, timing, playing, notes, panel, slots, thread, now, stray, ghosts>>

\* pressed: when each key that is down was pressed, if it found a place.
\* latched: `pressed' when the arpeggio was last made from the keys.
\* source: what arpeggio[] holds, a chord, the latched keys, or these moved.
NoKeys == [k \in Key |-> UNSET]
Down(times) == {k \in Key : times[k] # UNSET}

Do(op)       == [op |-> op, root |-> MIDI_LOW]
Transpose(r) == [op |-> "transpose", root |-> r]
StepT == [op : {"lock", "fill", "measure", "stop", "rewind", "unlock", "start", "transpose"},
          root : MIDI_LOW .. MIDI_HIGH]

SetArpeggioNotes == <<Do("lock"), Do("fill"), Do("measure"), Do("unlock")>>
ResetArpeggiator == <<Do("lock"), Do("stop"), Do("rewind"), Do("unlock")>>
AutoStart        == (IF arpRunning THEN <<>> ELSE ResetArpeggiator) \o <<Do("start")>>

TypeOK ==
  /\ arpRunning \in BOOLEAN /\ oldArpRunning \in BOOLEAN /\ stray \in BOOLEAN
  /\ pulseClock \in Nat /\ arpReleaseTime \in Nat /\ now \in Nat
  /\ arpTimeDivision \in 0 .. ARP_TIME_DIVISION_MAX
  /\ arpNoteStartPulse \in 1 .. PPQ
  /\ arpNoteLength \in 1 .. (PPQ - 1)
  /\ arpNoteIndex \in {UNSET} \cup Voice
  /\ voice \in [Voice -> VoiceUse]
  /\ arpeggio \in [Slot -> Byte]
  /\ arpLength \in 0 .. ARP_MAX_NOTES
  /\ arpPosition \in Slot
  /\ arpPattern \in Pattern /\ arpDirection \in {1, -1}
  /\ arpType \in 0 .. ARP_TYPE_MIDI
  /\ arpRootNote \in MIDI_LOW .. MIDI_HIGH
  /\ midiArpeggioNotes \in [Slot -> {0} \cup Key]
  /\ midiArpeggioNoteTime \in [Slot -> Nat]
  /\ todo \in Seq(StepT)
  /\ pressed \in [Key -> {UNSET} \cup Nat] /\ latched \in [Key -> {UNSET} \cup Nat]
  /\ source \in {"chord", "keys", "moved"}

ChordLength(type) == Len(ChordIntervals[type + 1])
ChordNotes(old, root, type) ==
  [i \in Slot |-> IF i < ChordLength(type)
                  THEN root + ChordIntervals[type + 1][i + 1] ELSE old[i]]

\* power-up in this mode
Init ==
  /\ arpRunning = FALSE /\ oldArpRunning = FALSE /\ todo = <<>> /\ stray = FALSE
  /\ pulseClock = 0 /\ arpReleaseTime = 0 /\ now = 0
  /\ arpTimeDivision = 2 /\ arpNoteStartPulse = PPQ \div 4 /\ arpNoteLength = PPQ \div 8
  /\ arpNoteIndex = UNSET /\ voice = [v \in Voice |-> "silent"]
  /\ arpPattern = "up" /\ arpDirection = 1 /\ arpType = 0 /\ arpRootNote = 60
  /\ arpPosition = 0 /\ arpLength = ChordLength(0)
  /\ arpeggio = ChordNotes([i \in Slot |-> 0], 60, 0)
  /\ midiArpeggioNotes = [i \in Slot |-> 0]
  /\ midiArpeggioNoteTime = [i \in Slot |-> 0]
  /\ pressed = NoKeys /\ latched = NoKeys /\ source = "chord"

\* initArpeggiator(), called by reset() with the interrupt at rest
InitArpeggiator(old) ==
  /\ arpRunning' = FALSE
  /\ arpTimeDivision' = 2
  /\ arpNoteStartPulse' = PPQ \div 4
  /\ arpNoteLength' = PPQ \div 8
  /\ arpRootNote' = 60
  /\ arpPosition' = 0
  /\ arpNoteIndex' = UNSET
  /\ arpPattern' = "up" /\ arpDirection' = 1
  /\ arpType' = 0
  /\ arpLength' = ChordLength(0)
  /\ arpeggio' = ChordNotes(old, 60, 0)
-----------------------------------------------------------------------------
(* The pulse ISR: doArpeggiator() and pulseClock++ *)

\* releaseNote(&note[v]); it does nothing to a voice that is silent
Released(voices, v) ==
  IF v = UNSET \/ voices[v] = "silent" THEN voices
  ELSE [voices EXCEPT ![v] = "released"]

\* findNoteIndex(): a free voice if there is one
Choices(voices) ==
  LET free == {v \in Voice : voices[v] = "silent"}
  IN  IF free # {} THEN {v \in free : \A w \in free : v <= w} ELSE Voice

\* wrong variant: going up and down, the turn at the top comes one note late
NextPositionTurnsLate ==
  IF arpPattern = "updown"
  THEN IF arpDirection = 1 /\ arpPosition + 1 > arpLength
       THEN arpPosition' = arpLength - 1 /\ arpDirection' = -1
       ELSE arpPosition' = arpPosition + 1 /\ UNCHANGED arpDirection
  ELSE arpPosition' = (arpPosition + 1) % arpLength /\ UNCHANGED arpDirection

\* the changes of arpPosition and arpDirection at the end of a note's start
NextPosition ==
  CASE arpPattern = "random" ->
         arpPosition' \in 0 .. (arpLength - 1) /\ UNCHANGED arpDirection
    [] arpPattern = "up" ->
         arpPosition' = (arpPosition + 1) % arpLength /\ UNCHANGED arpDirection
    [] arpPattern = "down" ->
         /\ arpPosition' = IF arpPosition = 0 THEN arpLength - 1 ELSE arpPosition - 1
         /\ UNCHANGED arpDirection
    [] arpPattern = "updown" /\ arpDirection = 1 ->
         IF arpPosition + 1 >= arpLength
         THEN arpPosition' = arpLength - 1 /\ arpDirection' = -1
         ELSE arpPosition' = arpPosition + 1 /\ UNCHANGED arpDirection
    [] arpPattern = "updown" /\ arpDirection = -1 ->
         IF arpPosition = 0
         THEN arpDirection' = 1 /\ UNCHANGED arpPosition
         ELSE arpPosition' = arpPosition - 1 /\ UNCHANGED arpDirection

ReleaseDue == pulseClock = arpReleaseTime
StartDue   == arpLength > 0 /\ pulseClock % arpNoteStartPulse = 0

\* the branch "**** stuck!" included: a note still on is released first
StartNote(voices, current) ==
  /\ \E v \in Choices(Released(voices, current)) :
       /\ voice' = [Released(voices, current) EXCEPT ![v] = "held"]
       /\ arpNoteIndex' = v
  /\ arpReleaseTime' = pulseClock + arpNoteLength
  /\ NextPosition

Pulse ==
  /\ arpRunning
  /\ pulseClock < MaxPulse
  /\ LET voices  == IF ReleaseDue THEN Released(voice, arpNoteIndex) ELSE voice
         current == IF ReleaseDue THEN UNSET ELSE arpNoteIndex
     IN  IF StartDue THEN StartNote(voices, current)
         ELSE /\ voice' = voices /\ arpNoteIndex' = current
              /\ UNCHANGED <<arpReleaseTime, arpPosition, arpDirection>>
  /\ pulseClock' = pulseClock + 1
  /\ UNCHANGED <<arpRunning, arpTimeDivision, arpNoteStartPulse, arpNoteLength,
                 arpeggio, arpLength, arpPattern, arpType, arpRootNote, slots,
                 thread, now, stray, ghosts>>

\* A released note fades out, a sample comes to its end, or a controller
\* (ALL_NOTES_OFF) stops the voice.
VoiceEnds(v) ==
  /\ voice[v] # "silent"
  /\ voice' = [voice EXCEPT ![v] = "silent"]
  /\ UNCHANGED <<arpRunning, timing, arpNoteIndex, notes, panel, slots, thread,
                 now, stray, ghosts>>

Millis ==
  /\ now < MaxTime
  /\ now' = now + 1
  /\ UNCHANGED <<arpRunning, timing, playing, notes, panel, slots, thread, stray, ghosts>>
-----------------------------------------------------------------------------
(* The steps a handler is made of *)

Doing(op) == todo # <<>> /\ Head(todo).op = op /\ todo' = Tail(todo)

\* wrong variant: the ISR is not locked out
LockKeepsRunning ==
  /\ Doing("lock")
  /\ oldArpRunning' = arpRunning
  /\ UNCHANGED <<arpRunning, timing, playing, notes, panel, slots, now, stray, ghosts>>

Lock ==
  /\ Doing("lock")
  /\ oldArpRunning' = arpRunning
  /\ arpRunning' = FALSE
  /\ UNCHANGED <<timing, playing, notes, panel, slots, now, stray, ghosts>>

Unlock ==
  /\ Doing("unlock")
  /\ arpRunning' = oldArpRunning
  /\ UNCHANGED <<oldArpRunning, timing, playing, notes, panel, slots, now, stray, ghosts>>

Filled == {i \in Slot : midiArpeggioNotes[i] # 0}

Earlier(i, j) == \/ midiArpeggioNoteTime[i] < midiArpeggioNoteTime[j]
                 \/ midiArpeggioNoteTime[i] = midiArpeggioNoteTime[j] /\ i < j

\* where the bubble sort, which is stable, takes the note of slot i
Rank(i) == Cardinality({j \in Filled : Earlier(j, i)})

SortedKeys ==
  [n \in Slot |-> IF \E i \in Filled : Rank(i) = n
                  THEN midiArpeggioNotes[CHOOSE i \in Filled : Rank(i) = n]
                  ELSE arpeggio[n]]

\* setArpeggioNotes() and setMIDIArpeggioNotes(): first the notes ...
FillNotes ==
  /\ Doing("fill")
  /\ arpeggio' = IF arpType = ARP_TYPE_MIDI THEN SortedKeys
                 ELSE ChordNotes(arpeggio, arpRootNote, arpType)
  /\ UNCHANGED <<arpRunning, oldArpRunning, timing, playing, arpLength, arpPosition,
                 panel, slots, now, stray, ghosts>>

\* wrong variant: the position after the last note is let through
ClampedLate(position, length) ==
  IF position <= length THEN position ELSE length

Clamped(position, length) ==
  IF position < length THEN position ELSE IF length > 0 THEN length - 1 ELSE 0

\* ... then their number, and the position if the keys made it too large
MeasureNotes ==
  /\ Doing("measure")
  /\ IF arpType = ARP_TYPE_MIDI
     THEN /\ arpLength' = Cardinality(Filled)
          /\ arpPosition' = Clamped(arpPosition, Cardinality(Filled))
          /\ source' = "keys" /\ latched' = pressed
     ELSE /\ arpLength' = ChordLength(arpType)
          /\ source' = "chord"
          /\ UNCHANGED <<arpPosition, latched>>
  /\ UNCHANGED <<arpRunning, oldArpRunning, timing, playing, arpeggio, panel, slots,
                 now, stray, pressed>>

\* resetArpeggiator(): stopNote() on every voice ...
StopVoices ==
  /\ Doing("stop")
  /\ voice' = [v \in Voice |-> "silent"]
  /\ UNCHANGED <<arpRunning, oldArpRunning, timing, arpNoteIndex, notes, panel, slots,
                 now, stray, ghosts>>

\* wrong variant: the note length of a longer time division is kept
RewindKeepsLength ==
  /\ Doing("rewind")
  /\ arpNoteIndex' = UNSET
  /\ arpPosition' = 0
  /\ pulseClock' = 0 /\ arpReleaseTime' = 0
  /\ arpNoteStartPulse' = PPQ \div 2 ^ arpTimeDivision
  /\ UNCHANGED <<arpRunning, oldArpRunning, voice, arpTimeDivision, arpNoteLength, arpeggio,
                 arpLength, panel, slots, now, stray, ghosts>>

\* ... and the clock and the position go back to the start
Rewind ==
  /\ Doing("rewind")
  /\ arpNoteIndex' = UNSET
  /\ arpPosition' = 0
  /\ pulseClock' = 0 /\ arpReleaseTime' = 0
  /\ arpNoteStartPulse' = PPQ \div 2 ^ arpTimeDivision
  /\ arpNoteLength' = IF arpNoteLength >= arpNoteStartPulse'
                      THEN arpNoteStartPulse' - 1 ELSE arpNoteLength
  /\ UNCHANGED <<arpRunning, oldArpRunning, voice, arpTimeDivision, arpeggio, arpLength,
                 panel, slots, now, stray, ghosts>>

StartRunning ==
  /\ Doing("start")
  /\ arpRunning' = TRUE
  /\ UNCHANGED <<oldArpRunning, timing, playing, notes, panel, slots, now, stray, ghosts>>

\* one note of transposeMIDIArpeggio(), in bytes
Transposed(note, root) ==
  LET byte == (root + note - arpeggio[0]) % 256
  IN  IF byte > MIDI_HIGH THEN MIDI_HIGH ELSE byte

\* With no notes the loop runs from 255 down and writes 239 bytes behind
\* arpeggio[]: nothing is said of the program after that.
TransposeNotes ==
  /\ Doing("transpose")
  /\ LET root == Head(todo).root IN
     arpeggio' = [i \in Slot |-> IF i = 0 THEN root
                                 ELSE IF i < arpLength THEN Transposed(arpeggio[i], root)
                                 ELSE arpeggio[i]]
  /\ stray' = (arpLength = 0)
  /\ source' = "moved"
  /\ UNCHANGED <<arpRunning, oldArpRunning, timing, playing, arpLength, arpPosition, panel,
                 slots, now, pressed, latched>>
-----------------------------------------------------------------------------
(* The handlers *)

Begin(control) == todo = <<>> /\ control \in Control

Without(k) == [i \in Slot |-> IF midiArpeggioNotes[i] = k THEN 0 ELSE midiArpeggioNotes[i]]
TimesWithout(k) == [i \in Slot |-> IF midiArpeggioNotes[i] = k THEN 0
                                   ELSE midiArpeggioNoteTime[i]]

\* arpeggiatorNoteOn(): a key pressed again goes to the end; with every slot
\* taken the key is left out
NoteOn(k) ==
  LET empty == {i \in Slot : Without(k)[i] = 0}
      first == CHOOSE i \in empty : \A j \in empty : i <= j
  IN
  /\ Begin("keys")
  /\ IF arpType # ARP_TYPE_MIDI
     THEN arpRootNote' = k /\ UNCHANGED <<slots, pressed>>
     ELSE /\ midiArpeggioNotes' = IF empty = {} THEN Without(k)
                                  ELSE [Without(k) EXCEPT ![first] = k]
          /\ midiArpeggioNoteTime' = IF empty = {} THEN TimesWithout(k)
                                     ELSE [TimesWithout(k) EXCEPT ![first] = now]
          /\ pressed' = [pressed EXCEPT ![k] =
                           IF Cardinality(Down(pressed) \ {k}) < ARP_MAX_NOTES
                           THEN now ELSE UNSET]
          /\ UNCHANGED arpRootNote
  /\ todo' = SetArpeggioNotes \o AutoStart
  /\ UNCHANGED <<arpRunning, oldArpRunning, timing, playing, notes, arpPattern,
                 arpDirection, arpType, now, stray, latched, source>>

\* arpeggiatorNoteOff()
NoteOff(k) ==
  /\ Begin("keys")
  /\ midiArpeggioNotes' = Without(k)
  /\ midiArpeggioNoteTime' = TimesWithout(k)
  /\ pressed' = [pressed EXCEPT ![k] = UNSET]
  /\ UNCHANGED <<arpRunning, timing, playing, notes, panel, thread, now, stray,
                 latched, source>>

\* wrong variant: stopping only clears the flag
StartStopKeepsVoices ==
  /\ Begin("start")
  /\ arpRunning' = FALSE
  /\ todo' = IF arpRunning THEN <<>> ELSE <<Do("start")>>
  /\ UNCHANGED <<oldArpRunning, timing, playing, notes, panel, slots, now, stray, ghosts>>

\* button 1, or MIDI start, continue and stop
StartStop ==
  /\ Begin("start")
  /\ arpRunning' = FALSE
  /\ todo' = IF arpRunning THEN ResetArpeggiator ELSE ResetArpeggiator \o <<Do("start")>>
  /\ UNCHANGED <<oldArpRunning, timing, playing, notes, panel, slots, now, stray, ghosts>>

\* button 2
SelectPattern ==
  /\ Begin("pattern")
  /\ arpPattern' = CASE arpPattern = "up" -> "down"
                     [] arpPattern = "down" -> "updown"
                     [] arpPattern = "updown" -> "random"
                     [] arpPattern = "random" -> "up"
  /\ UNCHANGED <<arpRunning, timing, playing, notes, arpDirection, arpType, arpRootNote,
                 slots, thread, now, stray, ghosts>>

\* button 3
SelectType ==
  /\ Begin("type")
  /\ arpType' = IF arpType = ARP_TYPE_MIDI THEN 0 ELSE arpType + 1
  /\ IF arpType' = ARP_TYPE_MIDI
     THEN /\ midiArpeggioNotes' = [i \in Slot |-> 0]
          /\ midiArpeggioNoteTime' = [i \in Slot |-> 0]
          /\ pressed' = NoKeys
     ELSE UNCHANGED <<slots, pressed>>
  /\ todo' = SetArpeggioNotes
  /\ UNCHANGED <<arpRunning, oldArpRunning, timing, playing, notes, arpPattern,
                 arpDirection, arpRootNote, now, stray, latched, source>>

\* button 3 with the function button
SelectTimeDivision ==
  /\ Begin("division")
  /\ arpTimeDivision' = IF arpTimeDivision = ARP_TIME_DIVISION_MAX THEN 0
                        ELSE arpTimeDivision + 1
  /\ todo' = ResetArpeggiator
  /\ UNCHANGED <<arpRunning, oldArpRunning, pulseClock, arpReleaseTime, arpNoteStartPulse,
                 arpNoteLength, playing, notes, panel, slots, now, stray, ghosts>>

\* the root note knob, or controller GENERAL_PURPOSE_3
TurnRoot(r) ==
  /\ Begin("root")
  /\ IF arpType # ARP_TYPE_MIDI
     THEN arpRootNote' = r /\ todo' = SetArpeggioNotes
     ELSE /\ UNCHANGED arpRootNote
          /\ todo' = IF arpRunning THEN <<Do("lock"), Transpose(r), Do("unlock")>>
                     ELSE <<>>
  /\ UNCHANGED <<arpRunning, oldArpRunning, timing, playing, notes, arpPattern,
                 arpDirection, arpType, slots, now, stray, ghosts>>

\* the note length knob, or controller GENERAL_PURPOSE_2
TurnLength ==
  /\ Begin("length")
  /\ arpNoteLength' \in 2 .. (arpNoteStartPulse - 1)
  /\ UNCHANGED <<arpRunning, pulseClock, arpReleaseTime, arpTimeDivision, arpNoteStartPulse,
                 playing, notes, panel, slots, thread, now, stray, ghosts>>

\* reset() with this mode kept: it clears arpRunning before anything else
Reset ==
  /\ Begin("reset")
  /\ InitArpeggiator(arpeggio)
  /\ voice' = [v \in Voice |-> "silent"]
  /\ source' = "chord"
  /\ UNCHANGED <<pulseClock, arpReleaseTime, slots, thread, now, stray, pressed, latched>>

Handler ==
  \/ \E k \in Key : NoteOn(k) \/ NoteOff(k)
  \/ StartStop \/ SelectPattern \/ SelectType \/ SelectTimeDivision
  \/ \E r \in Root : TurnRoot(r)
  \/ TurnLength \/ Reset

Step == \/ Lock \/ Unlock \/ FillNotes \/ MeasureNotes \/ StopVoices \/ Rewind
        \/ StartRunning \/ TransposeNotes

Next == \/ ~stray /\ (Handler \/ Step \/ Pulse \/ Millis \/ \E v \in Voice : VoiceEnds(v))
        \/ stray /\ UNCHANGED vars

Spec == Init /\ [][Next]_vars
-----------------------------------------------------------------------------
(* Properties *)

Settled == arpRunning \/ todo = <<>>

\* Every note the arpeggiator started is released or stopped: the one voice it
\* holds is the one it will release, and none once it has been stopped.
NoHangingNotes ==
  /\ \A v \in Voice : voice[v] = "held" => v = arpNoteIndex
  /\ ~arpRunning /\ todo = <<>> => \A v \in Voice : voice[v] # "held"

\* The branch that prints "**** stuck!" is dead: whatever is done to the time
\* division and the note length, a note's release is due before, or at, the
\* pulse that starts the next one.
NeverStuck == arpRunning /\ arpNoteIndex # UNSET /\ StartDue => ReleaseDue

\* While the ISR may play, an arpeggio made from the keys is exactly the keys
\* that were down, each once, in the order they were pressed.
ArpeggioOfKeys ==
  Settled /\ source = "keys" =>
    LET played == {i \in Slot : i < arpLength} IN
    /\ {arpeggio[i] : i \in played} = Down(latched)
    /\ arpLength = Cardinality(Down(latched))
    /\ \A i, j \in played : i < j => latched[arpeggio[i]] <= latched[arpeggio[j]]

\* While the ISR may play the keys, its position is one of theirs, whichever
\* keys have gone since.
PositionAmongKeys ==
  Settled /\ source \in {"keys", "moved"} /\ arpLength > 0 => arpPosition < arpLength
=============================================================================

------------------------------- MODULE Voices -------------------------------
(***************************************************************************)
(* The voice pool of synth.cpp: the type of one element of note[] and the  *)
(* functions that read and write it.  No variables: Synth.tla keeps the    *)
(* array and composes these operators into the handlers of the firmware.   *)
(*                                                                         *)
(* Data abstraction.  Amplitudes and envelope tables are Envelope.tla's    *)
(* subject; here `steps' is only the number of level changes left before   *)
(* volIndex meets targetVolIndex (round the byte, when it moves away),     *)
(* `fades' says that the target is silence, and the two halves of the      *)
(* phase increment are kept as "positive or zero", which is all that the   *)
(* busy-waits and the audio ISR ask.                                       *)
(* isSample and waveformBuf are one field, `buf'; origMidiVal is only read *)
(* under the 0x80 bit of midiChannel, so `drum' is that bit and the value. *)
(***************************************************************************)
EXTENDS Integers, FiniteSets

CONSTANTS
  MAX_NOTES,        \* number of voices
  N_MIDI_CHANNELS,  \* number of logical channels, each with its settings
  N_NOTE_BUTTONS,   \* number of panel buttons that play a note
  Pitch,            \* playable MIDI notes, MIDI_LOW..MIDI_HIGH in the firmware
  DrumKey,          \* keys of the drum channel, 35..81 in the firmware
  DrumPitch,        \* pitch at which setDrumParameters plays each drum key
  Slow,             \* <<buf, pitch>> whose phase increment is below one sample
  MaxSteps          \* bound on the levels of one envelope phase

NOTE_OFF         == 0
NOTE_PENDING_OFF == 1
UNSET            == -1   \* 255 in the firmware, outside every index range

Voice   == 0 .. (MAX_NOTES - 1)
Channel == 1 .. N_MIDI_CHANNELS
Button  == 0 .. (N_NOTE_BUTTONS - 1)
Buf     == {"wave", "noise", "sample"}
Knob    == {"zero", "some", "full"}

Unlocked == {"ATTACK", "DECAY", "SUSTAIN"}   \* phases of a key that is down
Envelope == Unlocked \cup {"RELEASE", "OFF"}

ASSUME VoicesAssumption ==
  /\ MAX_NOTES \in Nat \ {0}
  /\ N_MIDI_CHANNELS \in Nat \ {0}
  /\ N_NOTE_BUTTONS \in Nat \ {0}
  /\ Pitch \subseteq Nat
  /\ \A p \in Pitch : p > NOTE_PENDING_OFF
  /\ DrumKey \subseteq Pitch
  /\ DrumPitch \in [DrumKey -> Pitch]
  /\ MaxSteps \in Nat

\* note_t
NoteT == [ midiVal          : {NOTE_OFF, NOTE_PENDING_OFF} \cup Pitch,
           midiChannel      : {0} \cup Channel,
           drum             : {UNSET} \cup DrumKey,
           buf              : Buf,
           envelopePhase    : Envelope,
           steps            : 0 .. MaxSteps,
           fades            : BOOLEAN,
           phaseInc         : BOOLEAN,
           phaseFractionInc : BOOLEAN,
           trigger          : {UNSET} \cup Button,
           startTime        : Nat ]

\* a voice after reset()
SilentNote ==
  [ midiVal |-> NOTE_OFF, midiChannel |-> 0, drum |-> UNSET, buf |-> "wave",
    envelopePhase |-> "OFF", steps |-> 0, fades |-> FALSE, phaseInc |-> FALSE,
    phaseFractionInc |-> FALSE, trigger |-> UNSET, startTime |-> 0 ]

Sounding(n) == n.midiVal > NOTE_PENDING_OFF
Moving(n)   == n.phaseInc \/ n.phaseFractionInc
IsSample(n) == n.buf = "sample"

\* wrong variant: the busy-wait only looks at the fraction of the increment
WaitedOnFraction(n) == n.midiVal = NOTE_OFF \/ ~n.phaseFractionInc

\* the exit condition of the busy-waits of findNoteIndex() and stopNote()
Waited(n) == n.midiVal = NOTE_OFF \/ ~Moving(n)

\* A voice that sounds and that nobody has released yet.
Unreleased(n) == Sounding(n) /\ n.envelopePhase # "RELEASE"
-----------------------------------------------------------------------------
(* Writing one voice.  The audio ISR may fall inside a call and end a      *)
(* sample there: `cut' says that it does, in a window in which the call    *)
(* does not leave the voice as an ISR before or after it would.            *)

\* initNote(); every caller goes on to assign both halves of buf
InitNote(n, midiNote) ==
  [n EXCEPT !.midiVal = midiNote, !.midiChannel = 0, !.drum = UNSET,
            !.phaseInc = FALSE, !.phaseFractionInc = FALSE,
            !.trigger = UNSET]

\* the part of doNoteOn() after findNoteIndex(); a sample starts at its target
\* volume, a waveform with an attack has `levels' levels to climb.  While the
\* voice is a sample of stale length, 0 perhaps, the ISR may cut it.
DoNoteOn(n, channelNum, midiNote, buf, now, levels, cut) ==
  [InitNote(n, midiNote) EXCEPT
     !.startTime = now, !.midiChannel = channelNum, !.buf = buf,
     !.midiVal = IF cut /\ (IsSample(n) \/ buf = "sample") THEN NOTE_OFF ELSE @,
     !.envelopePhase = "ATTACK", !.fades = FALSE,
     !.steps = IF buf = "sample" THEN 0 ELSE levels]

\* midiVal is set again, and the length before isSample: no cut is left
SetDrumParameters(n, midiNote) ==
  [n EXCEPT !.drum = midiNote, !.midiVal = DrumPitch[midiNote],
            !.buf = "sample", !.steps = 0]

\* `levels' is the distance to silence.  The length of a sample is cut down to
\* where it is before the phase is written: the ISR may end it in between.
ReleaseNote(n, levels, cut) ==
  IF IsSample(n)
  THEN [n EXCEPT !.midiVal = IF cut THEN NOTE_OFF ELSE @,
                 !.envelopePhase = "RELEASE", !.trigger = UNSET]
  ELSE [n EXCEPT !.envelopePhase = "RELEASE", !.steps = levels, !.fades = TRUE]

\* wrong variants: the level is stepped at the target too; RELEASE never ends
EnvelopeStepPastTarget(n, knob, levels) == [n EXCEPT !.steps = @ - 1]

EnvelopeStepNoEnd(n, knob, levels) ==
  IF n.steps > 0 THEN [n EXCEPT !.steps = @ - 1]
  ELSE IF n.envelopePhase = "ATTACK"
       THEN [n EXCEPT !.envelopePhase = "SUSTAIN"] ELSE n

\* The assignments of processEnvelope() when volLevelRemaining has run out.
\* `knob' is the setting the step reads: the sustain level at the end of ATTACK
\* (full: no decay; zero: the decay fades too), the release time in RELEASE
\* (zero: volIndex is set to 0, the target only of a voice that fades).  At the
\* end of ATTACK volIndex changes scale and may leave its target.
EnvelopeStep(n, knob, levels) ==
  IF n.steps > 0
  THEN IF n.envelopePhase = "RELEASE" /\ knob = "zero"
       THEN [n EXCEPT !.steps = IF n.fades THEN 0 ELSE levels]
       ELSE [n EXCEPT !.steps = @ - 1]
  ELSE CASE n.envelopePhase = "ATTACK" ->
              [n EXCEPT !.envelopePhase = IF knob = "full" THEN "SUSTAIN"
                                                           ELSE "DECAY",
                        !.steps = levels, !.fades = (knob = "zero")]
         [] n.envelopePhase = "DECAY" ->
              [n EXCEPT !.envelopePhase = "SUSTAIN"]
         [] n.envelopePhase = "RELEASE" ->
              [n EXCEPT !.midiVal = NOTE_PENDING_OFF,
                        !.envelopePhase = "OFF", !.trigger = UNSET]
         [] n.envelopePhase \in {"SUSTAIN", "OFF"} -> n

ProcessEnvelope(n, elapsed, knob, levels) ==
  IF IsSample(n) \/ n.envelopePhase = "SUSTAIN" \/ ~elapsed
  THEN n ELSE EnvelopeStep(n, knob, levels)

\* setPhaseIncrement(): noise has its own increment; a slow note only has a
\* fraction; another note has a whole part and may have a fraction
SetPhaseIncrement(n, pitch, fraction) ==
  IF n.buf = "noise" THEN [n EXCEPT !.phaseInc = TRUE]
  ELSE IF <<n.buf, pitch>> \in Slow
       THEN [n EXCEPT !.phaseInc = FALSE, !.phaseFractionInc = TRUE]
       ELSE [n EXCEPT !.phaseInc = TRUE, !.phaseFractionInc = fraction]

\* What setWaveform() and the channel select do to a voice they retarget.
\* isSample is set before the length: the ISR may end the voice on the old one.
ChangeBuf(n, buf, cut) ==
  LET changed == [n EXCEPT !.buf = buf, !.phaseInc = FALSE]
  IN  IF cut /\ buf = "sample" /\ n.midiVal # NOTE_OFF
      THEN [changed EXCEPT !.midiVal = NOTE_OFF, !.envelopePhase = "OFF"]
      ELSE changed

\* wrong variants: the ISR forgets envelopePhase; it ignores NOTE_PENDING_OFF
AudioStepKeepsPhase(n, boundary) ==
  IF boundary \/ n.midiVal = NOTE_PENDING_OFF
  THEN [n EXCEPT !.midiVal = NOTE_OFF] ELSE n

AudioStepWraps(n, boundary) ==
  IF IsSample(n) /\ boundary /\ n.midiVal # NOTE_OFF
  THEN [n EXCEPT !.midiVal = NOTE_OFF, !.envelopePhase = "OFF"] ELSE n

\* One pass of the audio ISR over a voice.  `boundary': the phase passes the
\* end of the waveform, or of the sample, at this output sample.
AudioStep(n, boundary) ==
  LET pending == n.midiVal = NOTE_PENDING_OFF
      ends == CASE n.buf = "sample" ->
                     pending \/ (boundary /\ (Moving(n) \/ n.envelopePhase = "RELEASE"))
                [] n.buf = "noise" -> pending
                [] n.buf = "wave"  -> pending /\ boundary /\ Moving(n)
  IN  IF n.midiVal = NOTE_OFF \/ ~ends THEN n
      ELSE [n EXCEPT !.midiVal = NOTE_OFF,
                     !.envelopePhase = IF IsSample(n) THEN "OFF" ELSE @]
-----------------------------------------------------------------------------
(* Choosing a voice: the three searches of findNoteIndex() *)

\* wrong variant: the comparison is the other way round
Youngest(note, S) ==
  CHOOSE v \in S : \A w \in S : \/ note[v].startTime > note[w].startTime
                                \/ /\ note[v].startTime = note[w].startTime
                                   /\ v <= w

\* the first voice a loop with a strict < settles on
Oldest(note, S) ==
  CHOOSE v \in S : \A w \in S : \/ note[v].startTime < note[w].startTime
                                \/ /\ note[v].startTime = note[w].startTime
                                   /\ v <= w

FreeVoices(note)         == {v \in Voice : ~Sounding(note[v])}
ReleasedVoices(note,now) == {v \in Voice : /\ note[v].envelopePhase = "RELEASE"
                                           /\ ~IsSample(note[v])
                                           /\ note[v].startTime < now}
NonSamples(note)         == {v \in Voice : ~IsSample(note[v])}

First(S) == CHOOSE v \in S : \A w \in S : v <= w

FindNoteIndex(note, now) ==
  LET released == ReleasedVoices(note, now) IN
  CASE FreeVoices(note) # {} -> First(FreeVoices(note))
    [] FreeVoices(note) = {} /\ released # {} -> Oldest(note, released)
    [] FreeVoices(note) = {} /\ released = {} /\ NonSamples(note) # {} ->
         Oldest(note, NonSamples(note))
    [] OTHER -> Oldest(note, Voice)

\* Does findNoteIndex() call stopNote() on the voice it chose?
StopsVoice(note, now) ==
  /\ FreeVoices(note) = {}
  /\ ReleasedVoices(note, now) = {} =>
       note[FindNoteIndex(note, now)].phaseInc
=============================================================================

------------------------------ MODULE VoiceRace ------------------------------
(***************************************************************************)
(* One voice in MODE_ARPEGGIATOR, statement by statement: the main thread  *)
(* in the service loop (processEnvelope(), setPhaseIncrement()) or in      *)
(* setWaveform(), the pulse interrupt, which calls releaseNote() and       *)
(* doNoteOn() between any two of its statements, and the audio interrupt   *)
(* above both.  Nothing locks the voice: arpRunning is clear only in the   *)
(* handlers that edit the arpeggio (Arpeggiator).                          *)
(*                                                                         *)
(* A frequency is the note it was looked up for and how it was bent        *)
(* (detune, pitch bend, LFO); an increment is the frequency it was computed*)
(* for, and whether for a sample.  Levels are left out: whether the voice  *)
(* has reached its target is a free choice.                                *)
(***************************************************************************)
EXTENDS Integers

CONSTANTS
  Pitch,       \* the notes the arpeggiator plays
  Slow,        \* those that advance by less than a sample of a waveform
  Bend,        \* how frequencies can be bent
  Waveform     \* the waveforms the knob selects

NOTE_OFF == 0
NOTE_PENDING_OFF == 1

ASSUME RaceAssumption ==
  /\ Pitch \subseteq Nat \ {NOTE_OFF, NOTE_PENDING_OFF} /\ Slow \subseteq Pitch
  /\ Bend \subseteq Nat /\ Bend # {}
  /\ Waveform \subseteq {"wave", "noise", "sample"}

VARIABLES
  midiVal, envelopePhase, buf, isSample,
  frequency, lastFrequency, phaseInc, phaseFractionInc,
  measured,      \* sampleLength of the voice has been set
  waveform,      \* settings[0].waveform
  arp,           \* arpNoteIndex is this voice
  pc, phase,     \* where the main thread is; phase in processEnvelope()
  isr,           \* where the pulse interrupt is
  pulsed,        \* it has run since the main thread's last step
  quiet          \* ghost: nor has it, or setWaveform(), since the last pass began

increments == <<lastFrequency, phaseInc, phaseFractionInc>>
sound      == <<buf, isSample, measured>>
note       == <<midiVal, envelopePhase, sound, frequency, increments>>
pulseVars  == <<arp, isr>>
vars       == <<note, waveform, pulseVars, pc, phase, pulsed, quiet>>

Zero          == <<NOTE_OFF, -1>>          \* the frequency 0.0
Frequency     == (Pitch \cup {NOTE_OFF}) \X Bend
Stopped       == <<Zero, FALSE>>           \* an increment of 0
NoiseRate     == <<Zero, TRUE>>            \* the probability of a step of noise
Increment     == ((Frequency \cup {Zero}) \X BOOLEAN)

Sounding == midiVal \notin {NOTE_OFF, NOTE_PENDING_OFF}
Moving   == phaseInc # Stopped \/ phaseFractionInc # Stopped
IsNoise  == buf = "noise"

Init ==
  /\ midiVal = NOTE_OFF /\ envelopePhase = "OFF"
  /\ buf = "wave" /\ isSample = FALSE /\ measured = FALSE /\ waveform = "wave"
  /\ frequency = Zero /\ lastFrequency = Zero
  /\ phaseInc = Stopped /\ phaseFractionInc = Stopped
  /\ arp = FALSE /\ isr = "none"
  /\ pc = "idle" /\ phase = "OFF" /\ pulsed = FALSE /\ quiet = FALSE
-----------------------------------------------------------------------------
(* The main thread: it runs when the pulse interrupt does not *)

Goto(here, there) ==
  /\ isr = "none" /\ pc = here /\ pc' = there
  /\ pulsed' = FALSE /\ UNCHANGED <<waveform, pulseVars>>

\* The service loop comes to the voice.
Service ==
  /\ Goto("idle", "frequency") /\ Sounding
  /\ quiet' = TRUE /\ UNCHANGED <<note, phase>>

\* note[i].frequency = noteTable[...]: midiVal is read a second time, and the
\* audio interrupt may have ended the note meanwhile.
SetFrequency ==
  /\ Goto("frequency", "envelope")
  /\ \E b \in Bend : frequency' = <<midiVal, b>>
  /\ UNCHANGED <<midiVal, envelopePhase, sound, increments, phase, quiet>>

\* processEnvelope(): nothing to do, or not at the target
NotAtTarget == Goto("envelope", "bend") /\ UNCHANGED <<note, phase, quiet>>

\* byte phase = note[i].envelopePhase, at the target
AtTarget ==
  /\ Goto("envelope", "switch")
  /\ ~isSample /\ envelopePhase # "SUSTAIN"
  /\ phase' = envelopePhase /\ UNCHANGED <<note, quiet>>

NextPhases == CASE phase = "ATTACK" -> {"SUSTAIN", "DECAY"}
                [] phase = "DECAY"  -> {"SUSTAIN"}
                [] OTHER            -> {}

SwitchPhase ==
  /\ Goto("switch", "bend")
  /\ envelopePhase' \in NextPhases
  /\ UNCHANGED <<midiVal, sound, frequency, increments, phase, quiet>>

NoSwitch ==
  Goto("switch", "bend") /\ phase \in {"SUSTAIN", "OFF"} /\ UNCHANGED <<note, phase, quiet>>

\* "done with this note."
EndNote ==
  /\ Goto("switch", "end") /\ phase = "RELEASE"
  /\ midiVal' = NOTE_PENDING_OFF
  /\ UNCHANGED <<envelopePhase, sound, frequency, increments, phase, quiet>>

EndPhase ==
  /\ Goto("end", "bend")
  /\ envelopePhase' = "OFF"
  /\ UNCHANGED <<midiVal, sound, frequency, increments, phase, quiet>>

\* Detune, pitch bend and LFO
BendFrequency ==
  /\ Goto("bend", "compare")
  /\ IF isSample THEN UNCHANGED frequency
     ELSE \E b \in Bend : frequency' = <<frequency[1], b>>
  /\ UNCHANGED <<midiVal, envelopePhase, sound, increments, phase, quiet>>

\* setPhaseIncrement()
SetNoise ==
  /\ Goto("compare", "idle") /\ IsNoise
  /\ phaseInc' = NoiseRate
  /\ UNCHANGED <<midiVal, envelopePhase, sound, frequency, lastFrequency,
                 phaseFractionInc, phase, quiet>>

Unchanged ==
  /\ Goto("compare", "idle") /\ ~IsNoise /\ frequency = lastFrequency
  /\ UNCHANGED <<note, phase, quiet>>

Changed ==
  /\ Goto("compare", "remember") /\ ~IsNoise /\ frequency # lastFrequency
  /\ UNCHANGED <<note, phase, quiet>>

SetLastFrequency ==
  /\ Goto("remember", "whole")
  /\ lastFrequency' = frequency
  /\ UNCHANGED <<midiVal, envelopePhase, sound, frequency, phaseInc, phaseFractionInc,
                 phase, quiet>>

SetPhaseInc ==
  /\ Goto("whole", "fraction")
  /\ phaseInc' = <<frequency, isSample>>
  /\ UNCHANGED <<midiVal, envelopePhase, sound, frequency, lastFrequency,
                 phaseFractionInc, phase, quiet>>

SetPhaseFractionInc ==
  /\ Goto("fraction", "idle")
  /\ phaseFractionInc' = <<frequency, isSample>>
  /\ UNCHANGED <<midiVal, envelopePhase, sound, frequency, lastFrequency, phaseInc,
                 phase, quiet>>

(* setWaveform(): the knob, or a program change *)

SetSetting(w) ==
  /\ isr = "none" /\ pc = "idle" /\ pc' = "buf" /\ pulsed' = FALSE
  /\ waveform' = w /\ quiet' = FALSE
  /\ UNCHANGED <<note, pulseVars, phase>>

SetBuf ==
  /\ Goto("buf", "stop") /\ buf' = waveform
  /\ UNCHANGED <<midiVal, envelopePhase, isSample, measured, frequency, increments, phase, quiet>>

StopInc ==
  /\ Goto("stop", "forget") /\ phaseInc' = Stopped
  /\ UNCHANGED <<midiVal, envelopePhase, sound, frequency, lastFrequency,
                 phaseFractionInc, phase, quiet>>

ForgetFrequency ==
  /\ Goto("forget", "sample") /\ lastFrequency' = Zero
  /\ UNCHANGED <<midiVal, envelopePhase, sound, frequency, phaseInc, phaseFractionInc,
                 phase, quiet>>

SetIsSample ==
  /\ Goto("sample", "length") /\ isSample' = (waveform = "sample")
  /\ UNCHANGED <<midiVal, envelopePhase, buf, measured, frequency, increments, phase, quiet>>

SetSampleLength ==
  /\ Goto("length", "idle") /\ measured' = (measured \/ isSample)
  /\ UNCHANGED <<midiVal, envelopePhase, buf, isSample, frequency, increments, phase, quiet>>

ServiceLoop ==
  \/ Service \/ SetFrequency \/ NotAtTarget \/ AtTarget \/ SwitchPhase \/ NoSwitch
  \/ EndNote \/ EndPhase \/ BendFrequency
  \/ SetNoise \/ Unchanged \/ Changed
  \/ SetLastFrequency \/ SetPhaseInc \/ SetPhaseFractionInc

SetWaveform ==
  \/ \E w \in Waveform : SetSetting(w)
  \/ SetBuf \/ StopInc \/ ForgetFrequency \/ SetIsSample \/ SetSampleLength

MainThread == ServiceLoop \/ SetWaveform
-----------------------------------------------------------------------------
(* The pulse interrupt, doArpeggiator().  It comes milliseconds apart, never *)
(* twice between two statements of the main thread.                          *)

Interrupts == isr = "none" /\ ~pulsed /\ pulsed' = TRUE /\ quiet' = FALSE

\* wrong variant: a voice in phase OFF is taken for silent
ReleasedPhaseIfOn == IF arp /\ envelopePhase # "OFF" THEN "RELEASE" ELSE envelopePhase

ReleasedPhase == IF arp THEN "RELEASE" ELSE envelopePhase

\* Time to release the note, and none to start.
Release ==
  /\ Interrupts /\ arp
  /\ envelopePhase' = ReleasedPhase /\ arp' = FALSE
  /\ UNCHANGED <<midiVal, sound, frequency, increments, waveform, isr, pc, phase>>

\* The next note starts on another voice.
StartElsewhere ==
  /\ Interrupts
  /\ envelopePhase' = ReleasedPhase /\ arp' = FALSE
  /\ UNCHANGED <<midiVal, sound, frequency, increments, waveform, isr, pc, phase>>

\* findNoteIndex() settles on this voice, and stops it if it must.
Stops ==
  /\ Sounding
  /\ \/ ReleasedPhase = "RELEASE" /\ ~isSample
     \/ phaseInc # Stopped /\ phaseInc[1][1] \notin Slow

StartHere ==
  /\ Interrupts
  /\ envelopePhase' = ReleasedPhase /\ arp' = FALSE
  /\ midiVal' = (IF Stops THEN NOTE_PENDING_OFF ELSE midiVal)
  /\ isr' = (IF Sounding /\ ~Stops THEN "init" ELSE "wait")
  /\ UNCHANGED <<sound, frequency, increments, waveform, pc, phase>>

\* wrong variant: the wait does not ask whether the voice moves at all
WaitsForSilence == midiVal # NOTE_OFF

Waits == midiVal # NOTE_OFF /\ Moving

\* wrong variant: initNote() leaves lastFrequency alone
InitNoteKeepsFrequency ==
  lastFrequency' = lastFrequency /\ phaseInc' = Stopped /\ phaseFractionInc' = Stopped

InitNote ==
  lastFrequency' = Zero /\ phaseInc' = Stopped /\ phaseFractionInc' = Stopped

\* doNoteOn().  sampleLength is set after isSample: the audio interrupt finds
\* a voice that plays its first sample at its end.
StartNote(p) ==
  /\ isr = "wait" => ~Waits
  /\ isr # "none"
  /\ isr' = "none" /\ arp' = TRUE
  /\ InitNote
  /\ buf' = waveform /\ isSample' = (waveform = "sample")
  /\ measured' = (measured \/ isSample')
  /\ midiVal' = p \/ (isSample' /\ ~measured /\ midiVal' = NOTE_OFF)
  /\ envelopePhase' = "ATTACK"
  /\ UNCHANGED <<frequency, waveform, pc, phase, pulsed, quiet>>

PulseISR == Release \/ StartElsewhere \/ StartHere \/ \E p \in Pitch : StartNote(p)

(* The audio interrupt: a note that is to end ends with its waveform, noise *)
(* at once; a sample also where it is over.                                 *)

EndsNoise == IsNoise /\ midiVal = NOTE_PENDING_OFF /\ envelopePhase' = envelopePhase
EndsWave  == /\ ~IsNoise /\ ~isSample /\ midiVal = NOTE_PENDING_OFF /\ Moving
             /\ envelopePhase' = envelopePhase
EndsSample == /\ ~IsNoise /\ isSample
              /\ \/ midiVal = NOTE_PENDING_OFF \/ Moving
                 \/ envelopePhase = "RELEASE" \/ ~measured
              /\ envelopePhase' = "OFF"

AudioEnds == midiVal # NOTE_OFF /\ midiVal' = NOTE_OFF /\ (EndsNoise \/ EndsWave \/ EndsSample)

\* Any other output sample leaves the voice as it is here.
PlaysOn == UNCHANGED <<midiVal, envelopePhase>>

AudioISR ==
  /\ AudioEnds \/ PlaysOn
  /\ UNCHANGED <<sound, frequency, increments, waveform, pulseVars, pc, phase, pulsed, quiet>>

Next == MainThread \/ PulseISR \/ AudioISR

Spec == Init /\ [][Next]_vars

\* The audio timer goes on, a moving phase reaches the end of the waveform, and
\* an interrupt that does not wait goes on.
FairSpec ==
  /\ Spec
  /\ WF_vars(AudioISR /\ midiVal = NOTE_PENDING_OFF)
  /\ WF_vars(\E p \in Pitch : StartNote(p))
-----------------------------------------------------------------------------
(* Properties *)

TypeOK ==
  /\ midiVal \in Pitch \cup {NOTE_OFF, NOTE_PENDING_OFF}
  /\ envelopePhase \in {"ATTACK", "DECAY", "SUSTAIN", "RELEASE", "OFF"}
  /\ {buf, waveform} \subseteq {"wave", "noise", "sample"}
  /\ {isSample, measured, arp, pulsed, quiet} \subseteq BOOLEAN
  /\ frequency \in Frequency \cup {Zero} /\ lastFrequency \in Frequency \cup {Zero}
  /\ phaseInc \in Increment /\ phaseFractionInc \in Increment
  /\ isr \in {"none", "wait", "init"}
  /\ pc \in {"idle", "frequency", "envelope", "switch", "end", "bend", "compare", "remember",
             "whole", "fraction", "buf", "stop", "forget", "sample", "length"}

\* The increments are those of the frequency they are skipped for.
IncFollowsLast ==
  lastFrequency # Zero /\ pc \notin {"whole", "fraction", "stop", "forget"} =>
    ~IsNoise /\ phaseInc = <<lastFrequency, isSample>> /\ phaseFractionInc = phaseInc

\* However the pulse interrupt cut into the computation of increments
\* before, a voice that sounds after one undisturbed pass advances at the rate of
\* the note it plays: the test for a frequency that has not changed never
\* skips increments that were left zero or are another note's
\* (setPhaseIncrement(), initNote(), setWaveform()).
InTune ==
  quiet /\ pc = "idle" /\ Sounding =>
    IF IsNoise THEN phaseInc = NoiseRate
    ELSE phaseInc = <<frequency, isSample>> /\ phaseFractionInc = phaseInc
         /\ frequency[1] = midiVal

\* A note that was started between the two statements that end the note before
\* it goes on in phase OFF, but the arpeggiator still owns and will release it
\* (processEnvelope(), doArpeggiator()).
OffIsOwned == pc # "end" /\ Sounding /\ envelopePhase = "OFF" => arp

\* The wait for the audio interrupt inside the pulse interrupt, which holds off
\* the main thread and the serial port, ends, whatever the main thread has half
\* done to the voice (findNoteIndex(), stopNote()).
PulseReturns == isr # "none" ~> isr = "none"

\* "Time to release the currently playing note." (arpeggiator.cpp:45): what the
\* pulse interrupt has released, the main thread does not take back.
ReleaseHolds ==
  [][MainThread /\ envelopePhase = "RELEASE" => envelopePhase' \in {"RELEASE", "OFF"}]_vars
=============================================================================

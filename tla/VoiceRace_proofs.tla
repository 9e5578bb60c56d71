--------------------------- MODULE VoiceRace_proofs ---------------------------
(***************************************************************************)
(* For any notes, bends and waveforms: a voice is in tune after a pass that*)
(* nothing disturbed, and a note that sounds in phase OFF is owned.        *)
(*                                                                         *)
(* Why InTune holds: setPhaseIncrement() skips its work only when          *)
(* lastFrequency is the frequency, so whoever makes the increments wrong   *)
(* must leave lastFrequency zero.  IncFollowsLast says that between any two*)
(* statements, but for those of the code that is changing the increments,  *)
(* a lastFrequency that is not zero tells the truth.  It is not inductive  *)
(* alone: Remembered and Forgotten say what holds at the excepted places,  *)
(* and NotNoise with BufFollows that a noise voice never gets that far.    *)
(***************************************************************************)
EXTENDS VoiceRace, TLAPS

Loop == {"idle", "frequency", "envelope", "switch", "end", "bend", "compare", "remember",
         "whole", "fraction"}

LooseTypes   == midiVal \in Nat /\ frequency \in Nat \X Int

\* quiet is told by the service loop, and lost by whoever else changes the voice.
QuietPass    == quiet => isr = "none" /\ pc \in Loop

\* In a quiet pass the frequency is that of the note, and is remembered as such.
QuietNote    == quiet /\ pc # "frequency" => /\ frequency # Zero
                                             /\ Sounding => frequency[1] = midiVal
QuietLast    == quiet /\ pc \in {"whole", "fraction"} => lastFrequency = frequency

BufFollows   == pc # "buf" => buf = waveform
NotNoise     == pc \in {"remember", "whole", "fraction"} => ~IsNoise
Forgotten    == pc = "sample" => lastFrequency = Zero
Remembered   == pc \in {"whole", "fraction"} /\ lastFrequency # Zero =>
                  /\ lastFrequency = frequency
                  /\ pc = "fraction" => phaseInc = <<lastFrequency, isSample>>

TuneInv == /\ LooseTypes /\ QuietPass /\ QuietNote /\ QuietLast
           /\ BufFollows /\ NotNoise /\ Forgotten /\ Remembered
           /\ IncFollowsLast /\ InTune
-----------------------------------------------------------------------------
LEMMA ZeroIsNotBent == \A p \in Nat, b \in Bend : <<p, b>> # Zero /\ <<p, b>> \in Nat \X Int
<1>1. Bend \subseteq Nat
  BY RaceAssumption
<1> QED
  BY <1>1 DEF Zero

LEMMA PitchesSound == Pitch \subseteq Nat /\ \A p \in Pitch : p > 1
<1>1. Pitch \subseteq Nat \ {0, 1}
  BY RaceAssumption DEF NOTE_OFF, NOTE_PENDING_OFF
<1> QED
  BY <1>1

LEMMA TuneInit == Init => TuneInv
BY DEF Init, TuneInv, LooseTypes, QuietPass, QuietNote, QuietLast, BufFollows, NotNoise,
       Forgotten, Remembered, IncFollowsLast, InTune, Sounding, IsNoise, Zero, NOTE_OFF

\* The service loop up to the frequency it has bent
LEMMA TunePassBegins ==
  ASSUME TuneInv,
         \/ Service \/ SetFrequency \/ NotAtTarget \/ AtTarget \/ SwitchPhase \/ NoSwitch
         \/ EndNote \/ EndPhase \/ BendFrequency
  PROVE  TuneInv'
<1>. USE DEF TuneInv, LooseTypes, QuietPass, QuietNote, QuietLast, BufFollows, NotNoise,
             Forgotten, Remembered, IncFollowsLast, InTune, Sounding, IsNoise, Loop,
             Goto, note, sound, increments, pulseVars, NOTE_OFF, NOTE_PENDING_OFF
<1>1. CASE Service
  BY <1>1 DEF Service
<1>2. CASE SetFrequency
  BY <1>2, ZeroIsNotBent DEF SetFrequency
<1>3. CASE NotAtTarget
  BY <1>3 DEF NotAtTarget
<1>4. CASE AtTarget
  BY <1>4 DEF AtTarget
<1>5. CASE SwitchPhase
  BY <1>5 DEF SwitchPhase
<1>6. CASE NoSwitch
  BY <1>6 DEF NoSwitch
<1>7. CASE EndNote
  BY <1>7 DEF EndNote
<1>8. CASE EndPhase
  BY <1>8 DEF EndPhase
<1>9. CASE BendFrequency
  BY <1>9, ZeroIsNotBent DEF BendFrequency
<1> QED
  BY <1>1, <1>2, <1>3, <1>4, <1>5, <1>6, <1>7, <1>8, <1>9

\* setPhaseIncrement()
LEMMA TuneIncrement ==
  ASSUME TuneInv,
         \/ SetNoise \/ Unchanged \/ Changed
         \/ SetLastFrequency \/ SetPhaseInc \/ SetPhaseFractionInc
  PROVE  TuneInv'
<1>. USE DEF TuneInv, LooseTypes, QuietPass, QuietNote, QuietLast, BufFollows, NotNoise,
             Forgotten, Remembered, IncFollowsLast, InTune, Sounding, IsNoise, Loop,
             Goto, note, sound, increments, pulseVars
<1>1. CASE SetNoise
  BY <1>1 DEF SetNoise
<1>2. CASE Unchanged
  BY <1>2 DEF Unchanged
<1>3. CASE Changed
  BY <1>3 DEF Changed
<1>4. CASE SetLastFrequency
  BY <1>4 DEF SetLastFrequency
<1>5. CASE SetPhaseInc
  BY <1>5 DEF SetPhaseInc
<1>6. CASE SetPhaseFractionInc
  BY <1>6 DEF SetPhaseFractionInc
<1> QED
  BY <1>1, <1>2, <1>3, <1>4, <1>5, <1>6

LEMMA TuneSetWaveform ==
  ASSUME TuneInv, SetWaveform
  PROVE  TuneInv'
<1>. USE DEF TuneInv, LooseTypes, QuietPass, QuietNote, QuietLast, BufFollows, NotNoise,
             Forgotten, Remembered, IncFollowsLast, InTune, Sounding, IsNoise, Loop,
             Goto, note, sound, increments, pulseVars
<1>1. ASSUME NEW w \in Waveform, SetSetting(w) PROVE TuneInv'
  BY <1>1 DEF SetSetting
<1>2. CASE SetBuf
  BY <1>2 DEF SetBuf
<1>3. CASE StopInc
  BY <1>3 DEF StopInc
<1>4. CASE ForgetFrequency
  BY <1>4 DEF ForgetFrequency
<1>5. CASE SetIsSample
  BY <1>5 DEF SetIsSample
<1>6. CASE SetSampleLength
  BY <1>6 DEF SetSampleLength
<1> QED
  BY <1>1, <1>2, <1>3, <1>4, <1>5, <1>6 DEF SetWaveform

\* The interrupts: the pulse takes quiet away, the audio only ends notes.
LEMMA TuneInterrupts ==
  ASSUME TuneInv, PulseISR \/ AudioISR
  PROVE  TuneInv'
<1>. USE DEF TuneInv, LooseTypes, QuietPass, QuietNote, QuietLast, BufFollows, NotNoise,
             Forgotten, Remembered, IncFollowsLast, InTune, Sounding, IsNoise, Loop,
             Interrupts, sound, increments, pulseVars, NOTE_OFF, NOTE_PENDING_OFF
<1>1. CASE Release
  BY <1>1 DEF Release
<1>2. CASE StartElsewhere
  BY <1>2 DEF StartElsewhere
<1>3. CASE StartHere
  BY <1>3 DEF StartHere
<1>4. ASSUME NEW p \in Pitch, StartNote(p) PROVE TuneInv'
  <2>1. lastFrequency' = Zero /\ buf' = waveform /\ ~quiet /\ midiVal' \in Nat
    BY <1>4, PitchesSound DEF StartNote, InitNote
  <2> QED
    BY <1>4, <2>1 DEF StartNote
<1>5. CASE AudioISR
  BY <1>5 DEF AudioISR, AudioEnds, PlaysOn
<1> QED
  BY <1>1, <1>2, <1>3, <1>4, <1>5 DEF PulseISR

LEMMA TuneNext == TuneInv /\ [Next]_vars => TuneInv'
<1> SUFFICES ASSUME TuneInv, [Next]_vars PROVE TuneInv'
  OBVIOUS
<1>1. CASE UNCHANGED vars
  BY <1>1 DEF TuneInv, LooseTypes, QuietPass, QuietNote, QuietLast, BufFollows, NotNoise,
              Forgotten, Remembered, IncFollowsLast, InTune, Sounding, IsNoise,
              vars, note, sound, increments, pulseVars
<1>2. CASE MainThread
  BY <1>2, TunePassBegins, TuneIncrement, TuneSetWaveform DEF MainThread, ServiceLoop
<1>3. CASE PulseISR \/ AudioISR
  BY <1>3, TuneInterrupts
<1> QED
  BY <1>1, <1>2, <1>3 DEF Next

\* For any notes, bends and waveforms, the increments of a voice that sounds are
\* those of its note after a pass of the service loop that nothing disturbed,
\* whatever the pulse interrupt and setWaveform() did before (setPhaseIncrement(),
\* initNote(), setWaveform()).
THEOREM AlwaysInTune == Spec => []InTune
<1>1. Init => TuneInv
  BY TuneInit
<1>2. TuneInv /\ [Next]_vars => TuneInv'
  BY TuneNext
<1>3. TuneInv => InTune
  BY DEF TuneInv
<1> QED
  BY <1>1, <1>2, <1>3, PTL DEF Spec
-----------------------------------------------------------------------------
(* A note that sounds in phase OFF was started between the two statements  *)
(* that end the note before it: its pulse is the only one between them.    *)

EndIsOwned == pc = "end" /\ Sounding => arp /\ pulsed
IsrPulsed  == isr # "none" => pulsed

OwnInv == midiVal \in Nat /\ IsrPulsed /\ EndIsOwned /\ OffIsOwned

LEMMA OwnMainThread ==
  ASSUME OwnInv, MainThread
  PROVE  OwnInv'
<1>. USE DEF OwnInv, IsrPulsed, EndIsOwned, OffIsOwned, Sounding,
             Goto, note, sound, increments, pulseVars, NOTE_OFF, NOTE_PENDING_OFF
<1>1. CASE EndNote
  BY <1>1 DEF EndNote
<1>2. CASE EndPhase
  BY <1>2 DEF EndPhase
<1>3. CASE SwitchPhase
  <2>1. envelopePhase' # "OFF"
    BY <1>3 DEF SwitchPhase, NextPhases
  <2> QED
    BY <1>3, <2>1 DEF SwitchPhase
<1>4. CASE \/ Service \/ SetFrequency \/ NotAtTarget \/ AtTarget \/ NoSwitch \/ BendFrequency
           \/ SetNoise \/ Unchanged \/ Changed
           \/ SetLastFrequency \/ SetPhaseInc \/ SetPhaseFractionInc
  BY <1>4 DEF Service, SetFrequency, NotAtTarget, AtTarget, NoSwitch, BendFrequency,
              SetNoise, Unchanged, Changed, SetLastFrequency, SetPhaseInc, SetPhaseFractionInc
<1>5. CASE SetWaveform
  BY <1>5 DEF SetWaveform, SetSetting, SetBuf, StopInc, ForgetFrequency, SetIsSample,
              SetSampleLength
<1> QED
  BY <1>1, <1>2, <1>3, <1>4, <1>5 DEF MainThread, ServiceLoop

LEMMA OwnInterrupts ==
  ASSUME OwnInv, PulseISR \/ AudioISR
  PROVE  OwnInv'
<1>. USE DEF OwnInv, IsrPulsed, EndIsOwned, OffIsOwned, Sounding,
             Interrupts, NOTE_OFF, NOTE_PENDING_OFF
<1>1. ASSUME Interrupts, Sounding PROVE ReleasedPhase # "OFF"
  BY <1>1 DEF ReleasedPhase
<1>2. CASE Release \/ StartElsewhere
  BY <1>1, <1>2 DEF Release, StartElsewhere
<1>3. CASE StartHere
  BY <1>1, <1>3 DEF StartHere
<1>4. ASSUME NEW p \in Pitch, StartNote(p) PROVE OwnInv'
  <2>1. arp' /\ envelopePhase' = "ATTACK" /\ midiVal' \in Nat
    BY <1>4, PitchesSound DEF StartNote
  <2> QED
    BY <1>4, <2>1 DEF StartNote
<1>5. CASE AudioISR
  BY <1>5 DEF AudioISR, AudioEnds, PlaysOn, pulseVars
<1> QED
  BY <1>2, <1>3, <1>4, <1>5 DEF PulseISR

\* For any notes, bends and waveforms, a note that sounds in phase OFF is one the
\* arpeggiator owns and will release (processEnvelope(), doArpeggiator()).
THEOREM OffAlwaysOwned == Spec => []OffIsOwned
<1>1. Init => OwnInv
  BY DEF Init, OwnInv, IsrPulsed, EndIsOwned, OffIsOwned, Sounding, NOTE_OFF
<1>2. OwnInv /\ [Next]_vars => OwnInv'
  <2> SUFFICES ASSUME OwnInv, [Next]_vars PROVE OwnInv'
    OBVIOUS
  <2>1. CASE UNCHANGED vars
    BY <2>1 DEF vars, note, pulseVars, OwnInv, IsrPulsed, EndIsOwned, OffIsOwned, Sounding
  <2> QED
    BY <2>1, OwnMainThread, OwnInterrupts DEF Next
<1>3. OwnInv => OffIsOwned
  BY DEF OwnInv
<1> QED
  BY <1>1, <1>2, <1>3, PTL DEF Spec
=============================================================================

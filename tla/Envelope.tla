------------------------------ MODULE Envelope ------------------------------
(***************************************************************************)
(* One element of note[] with its amplitude: processEnvelope() stepping    *)
(* volIndex through the logarithmic tables, releaseNote() and the end of   *)
(* ATTACK changing scale, and the audio ISR, which lets `volume' follow    *)
(* `volumeNext' only when the waveform passes its end.                     *)
(*                                                                         *)
(* Data abstraction.  A level time (volLevelDuration) is zero or not;      *)
(* volLevelRemaining is "elapsed or not" at every call.  volumeScale is    *)
(* the groovebox's track fader: it is 1.0 here, as everywhere in synth     *)
(* mode.  The audio ISR comes between the calls; what it does to a sample  *)
(* inside one is Synth.tla's subject (`cut').  `astray' is history, no     *)
(* field of note_t, and nothing but the properties reads it.               *)
(***************************************************************************)
EXTENDS Integers

CONSTANTS
  Velocity,    \* velocities of the note ons
  Sustain,     \* sustain levels, in thousandths of the note's volume index
  LevelTime,   \* level times of the three knobs: zero, or any other time
  Junk,        \* what the bytes behind a table may hold
  Waveform     \* kinds of waveform of a note on, and of a program change

ASSUME EnvelopeAssumption ==
  /\ Velocity \subseteq 1 .. 127
  /\ Sustain \subseteq 0 .. 1000
  /\ LevelTime \subseteq {0, 1}
  /\ Junk \subseteq 0 .. 255 /\ Junk # {}
  /\ Waveform \subseteq {"wave", "noise", "sample"}

VARIABLE n

NOTE_OFF         == 0
NOTE_PENDING_OFF == 1
PLAYED           == 60   \* stands for every note
MAX_NOTE_VOL     == 64
MAX_VELOCITY     == 50
Byte             == 0 .. 255
-----------------------------------------------------------------------------
(* The tables, indexed from 0 as in C *)

Table(seq) == [i \in 0 .. MAX_NOTE_VOL |-> seq[i + 1]]

attackLogVolume == Table(<<
   0,  4,  8, 11, 15, 18, 21, 24, 27, 29, 31, 33, 35, 36, 37, 38, 39, 40, 41,
  42, 43, 44, 45, 46, 47, 48, 49, 50, 51, 52, 53, 53, 54, 54, 55, 55, 56, 56,
  57, 57, 58, 58, 58, 59, 59, 59, 60, 60, 60, 60, 61, 61, 61, 61, 62, 62, 62,
  62, 62, 63, 63, 63, 63, 63, 64>>)

inverseAttackLogVolume == Table(<<
   0,  0,  0,  0,  1,  1,  1,  1,  2,  2,  2,  3,  3,  3,  3,  4,  4,  4,  5,
   5,  5,  6,  6,  6,  7,  7,  7,  8,  8,  9,  9, 10, 10, 11, 11, 12, 13, 14,
  15, 16, 17, 18, 19, 20, 21, 22, 23, 24, 25, 26, 27, 28, 29, 31, 33, 35, 37,
  39, 42, 45, 49, 53, 58, 63, 64>>)

logVolume == Table(<<
   0,  1,  1,  1,  1,  1,  2,  2,  2,  2,  2,  3,  3,  3,  3,  4,  4,  4,  4,
   5,  5,  5,  6,  6,  6,  7,  7,  8,  8,  9,  9, 10, 10, 11, 11, 12, 13, 14,
  15, 16, 17, 18, 19, 20, 21, 22, 23, 24, 25, 26, 27, 28, 29, 31, 33, 35, 37,
  40, 43, 46, 49, 53, 56, 60, 64>>)

inverseLogVolume == Table(<<
   0,  5, 10, 14, 18, 21, 24, 26, 28, 30, 32, 34, 35, 36, 37, 38, 39, 40, 41,
  42, 43, 44, 45, 46, 47, 48, 49, 50, 51, 52, 52, 53, 53, 54, 54, 55, 55, 56,
  56, 56, 57, 57, 57, 58, 58, 58, 59, 59, 59, 60, 60, 60, 60, 61, 61, 61, 62,
  62, 62, 62, 63, 63, 63, 63, 64>>)

\* A read behind the end of a table finds whatever the linker put there.
Read(table, i) == IF i <= MAX_NOTE_VOL THEN {table[i]} ELSE Junk
-----------------------------------------------------------------------------
Init == n = [ midiVal |-> NOTE_OFF, buf |-> "wave", envelopePhase |-> "OFF",
              volIndex |-> 0, targetVolIndex |-> 0, volIndexInc |-> 1,
              volLevelDuration |-> 0, volume |-> 0, volumeNext |-> 0,
              astray |-> FALSE ]

Sounding    == n.midiVal > NOTE_PENDING_OFF
IsSample    == n.buf = "sample"

\* the way to silence, which releaseNote() gives a waveform
Fades == n.targetVolIndex = 0 /\ n.volIndexInc = -1

\* doNoteOn(); the voice may have been free or stolen
NoteOn(velocity, attack, buf) ==
  LET capped == IF velocity > MAX_VELOCITY THEN MAX_VELOCITY ELSE velocity
      full   == (capped * MAX_NOTE_VOL) \div MAX_VELOCITY
      climbs == attack > 0 /\ buf # "sample"
      start  == IF climbs THEN 0 ELSE full
  IN  n' = [ midiVal |-> PLAYED, buf |-> buf, envelopePhase |-> "ATTACK",
             volIndex |-> start, volIndexInc |-> 1, volLevelDuration |-> attack,
             targetVolIndex |-> IF climbs
                                THEN inverseAttackLogVolume[logVolume[full]]
                                ELSE full,
             volume |-> logVolume[start], volumeNext |-> logVolume[start],
             astray |-> FALSE ]

\* releaseNote().  A sample plays to its end and gets no way to silence: should
\* the panel or a program change make it a waveform again, it is astray.
ReleaseNote(release) ==
  LET fading == [n EXCEPT !.envelopePhase = "RELEASE", !.volIndexInc = -1,
                          !.targetVolIndex = 0, !.volLevelDuration = release]
  IN  /\ Sounding
      /\ \/ IsSample /\ n' = [n EXCEPT !.envelopePhase = "RELEASE",
                                        !.astray = @ \/ ~Fades]
         \/ /\ ~IsSample
            /\ ~(release > 0 /\ n.envelopePhase = "ATTACK")
            /\ n' = fading
         \/ /\ ~IsSample /\ release > 0 /\ n.envelopePhase = "ATTACK"
            /\ \E i \in Read(inverseLogVolume, n.volume) :
               \E v \in Read(logVolume, i) :
                 n' = [fading EXCEPT !.volIndex = i, !.volume = v,
                                     !.volumeNext = v]

\* stopNote(), up to its busy-wait for the ISR and after it
StopNote == Sounding /\ n' = [n EXCEPT !.midiVal = NOTE_PENDING_OFF]
Stopped  == n.midiVal = NOTE_OFF /\ n' = [n EXCEPT !.envelopePhase = "OFF"]

\* setWaveform() and the channel select, for a voice they retarget
SetWaveform(buf) == n' = [n EXCEPT !.buf = buf]
-----------------------------------------------------------------------------
(* processEnvelope() with the level time elapsed *)

Serviced == Sounding /\ ~IsSample /\ n.envelopePhase # "SUSTAIN"
AtTarget == n.volIndex = n.targetVolIndex

\* wrong variant: volIndexInc is still the attack's
EndAttackClimbing(sustain, decay) ==
  /\ Serviced /\ AtTarget /\ n.envelopePhase = "ATTACK"
  /\ \E i \in Read(inverseLogVolume, n.volume) :
       n' = [n EXCEPT !.envelopePhase = "DECAY", !.volIndex = i,
                      !.targetVolIndex = (sustain * @) \div 1000,
                      !.volLevelDuration = decay]

\* wrong variant: the sustain level is taken for a percentage
EndAttackPercent(sustain, decay) ==
  /\ Serviced /\ AtTarget /\ n.envelopePhase = "ATTACK"
  /\ \E i \in Read(inverseLogVolume, n.volume) :
       n' = [n EXCEPT !.envelopePhase = "DECAY", !.volIndex = i,
                      !.targetVolIndex = (sustain * @) \div 100,
                      !.volIndexInc = -1, !.volLevelDuration = decay]

\* End of ATTACK: volIndex moves to the logarithmic scale, by way of the volume
\* the ISR last took over.  The maximum is the branch that prints ERROR.
EndAttack(sustain, decay) ==
  /\ Serviced /\ AtTarget /\ n.envelopePhase = "ATTACK"
  /\ \E i \in Read(inverseLogVolume, n.volume) :
       LET level == (sustain * n.targetVolIndex) \div 1000 IN
       n' = IF sustain = 1000
            THEN [n EXCEPT !.envelopePhase = "SUSTAIN", !.volIndex = i]
            ELSE [n EXCEPT !.envelopePhase = "DECAY",
                           !.volIndex = IF level > i THEN level ELSE i,
                           !.targetVolIndex = level, !.volIndexInc = -1,
                           !.volLevelDuration = decay]

\* wrong variant: the end of RELEASE leaves midiVal
EndDecayOrReleaseKeepsNote ==
  /\ Serviced /\ AtTarget
  /\ \/ n.envelopePhase = "DECAY" /\ n' = [n EXCEPT !.envelopePhase = "SUSTAIN"]
     \/ n.envelopePhase = "RELEASE" /\ n' = [n EXCEPT !.envelopePhase = "OFF"]

EndDecayOrRelease ==
  /\ Serviced /\ AtTarget
  /\ \/ /\ n.envelopePhase = "DECAY"
        /\ n' = [n EXCEPT !.envelopePhase = "SUSTAIN"]
     \/ /\ n.envelopePhase = "RELEASE"
        /\ n' = [n EXCEPT !.midiVal = NOTE_PENDING_OFF, !.envelopePhase = "OFF"]

\* wrong variant: only the volume is cut, not the index
CutReleaseVolumeOnly ==
  /\ Serviced /\ ~AtTarget
  /\ n.envelopePhase = "RELEASE" /\ n.volLevelDuration = 0
  /\ n' = [n EXCEPT !.volumeNext = 0]

\* a release without duration
CutRelease ==
  /\ Serviced /\ ~AtTarget
  /\ n.envelopePhase = "RELEASE" /\ n.volLevelDuration = 0
  /\ n' = [n EXCEPT !.volIndex = 0, !.volumeNext = 0]

\* wrong variant: the attack's contour is used in every phase
StepLevelOnAttackContour ==
  /\ Serviced /\ ~AtTarget
  /\ ~(n.envelopePhase = "RELEASE" /\ n.volLevelDuration = 0)
  /\ LET i == (n.volIndex + n.volIndexInc) % 256 IN
     \E v \in Read(attackLogVolume, i) :
       n' = [n EXCEPT !.volIndex = i, !.volumeNext = v]

\* one step towards the target; volIndex is a byte
StepLevel ==
  /\ Serviced /\ ~AtTarget
  /\ ~(n.envelopePhase = "RELEASE" /\ n.volLevelDuration = 0)
  /\ LET i       == (n.volIndex + n.volIndexInc) % 256
         contour == IF n.envelopePhase = "ATTACK" THEN attackLogVolume
                                                  ELSE logVolume
     IN  \E v \in Read(contour, i) :
           n' = [n EXCEPT !.volIndex = i, !.volumeNext = v]

ProcessEnvelope ==
  \/ \E sustain \in Sustain, decay \in LevelTime : EndAttack(sustain, decay)
  \/ EndDecayOrRelease
  \/ CutRelease
  \/ StepLevel
-----------------------------------------------------------------------------
(* The audio ISR.  `boundary': the phase passes the end of the waveform, or *)
(* of the sample; noise has no boundary and follows at every sample.        *)

AudioISR(boundary) ==
  LET pending == n.midiVal = NOTE_PENDING_OFF IN
  /\ n.midiVal # NOTE_OFF
  /\ \/ /\ IsSample /\ (boundary \/ pending)
        /\ n' = [n EXCEPT !.midiVal = NOTE_OFF, !.envelopePhase = "OFF"]
     \/ /\ ~IsSample /\ (boundary \/ n.buf = "noise")
        /\ n' = IF pending THEN [n EXCEPT !.midiVal = NOTE_OFF]
                ELSE [n EXCEPT !.volume = n.volumeNext]

Input ==
  \/ \E velocity \in Velocity, attack \in LevelTime, buf \in Waveform :
       NoteOn(velocity, attack, buf)
  \/ \E release \in LevelTime : ReleaseNote(release)
  \/ StopNote
  \/ \E buf \in Waveform : SetWaveform(buf)

Next == Input \/ Stopped \/ ProcessEnvelope \/ \E boundary \in BOOLEAN : AudioISR(boundary)

Spec == Init /\ [][Next]_n

\* The main loop services every sounding voice, and the audio timer counts the
\* level time down and passes the end of the waveform, again and again.
FairSpec == Spec /\ WF_n(ProcessEnvelope) /\ WF_n(AudioISR(TRUE)) /\ WF_n(Stopped)
-----------------------------------------------------------------------------
(* Properties *)

TypeOK ==
  n \in [ midiVal          : {NOTE_OFF, NOTE_PENDING_OFF, PLAYED},
          buf              : {"wave", "noise", "sample"},
          envelopePhase    : {"ATTACK", "DECAY", "SUSTAIN", "RELEASE", "OFF"},
          volIndex         : Byte,
          targetVolIndex   : 0 .. MAX_NOTE_VOL,
          volIndexInc      : {-1, 1},
          volLevelDuration : {0, 1},
          volume           : Byte,
          volumeNext       : Byte,
          astray           : BOOLEAN ]

\* Through every change of scale, direction and waveform, also while the note
\* sounds, volIndex and the two volumes that index the inverse tables stay inside
\* the 65 entries, and volIndex lies on the side of its target from which
\* volIndexInc leads to it.  The exception is the note released as a sample: as a
\* waveform again it goes on from whatever its levels were, by way of the byte.
InTable ==
  Serviced /\ ~n.astray =>
    /\ n.volIndex <= MAX_NOTE_VOL
    /\ n.volume <= MAX_NOTE_VOL /\ n.volumeNext <= MAX_NOTE_VOL
    /\ n.volIndexInc = 1  => n.volIndex <= n.targetVolIndex
    /\ n.volIndexInc = -1 => n.volIndex >= n.targetVolIndex

Loudest == IF n.volume > n.volumeNext THEN n.volume ELSE n.volumeNext

\* A note that decays or has been released never gets louder, whatever volume
\* the ISR had last taken over when the phase began and whatever waveforms it
\* goes through, unless it was released as a sample.
NeverSwells ==
  [][n'.envelopePhase \in {"DECAY", "RELEASE", "OFF"} /\ ~n'.astray =>
       n'.volume <= Loudest /\ n'.volumeNext <= Loudest]_n

Ending == n.envelopePhase = "RELEASE" /\ (IsSample \/ Fades)

\* A released note ends, once no new key, no further note off, no stop and no
\* program change disturbs it: a sample, a waveform, and one that has been the
\* other, but for a waveform released as a sample and not since.
ReleaseEnds == <>[][~Input]_n => (Ending ~> ~Ending)

(* Refinement *)

\* What Voices keeps of this voice.  `steps' counts the level changes to the
\* target round the byte, whichever way volIndexInc leads.
absNote ==
  [ midiVal |-> n.midiVal, buf |-> n.buf, envelopePhase |-> n.envelopePhase,
    steps   |-> ((n.targetVolIndex - n.volIndex) * n.volIndexInc) % 256,
    fades   |-> Fades ]

VE == INSTANCE VoiceEnvelope WITH
        MAX_NOTES <- 1, N_MIDI_CHANNELS <- 1, N_NOTE_BUTTONS <- 1,
        Pitch <- {PLAYED}, DrumKey <- {}, DrumPitch <- <<>>, Slow <- {},
        MaxSteps <- 255, view <- absNote

\* Every step of the levels and tables is a step, or a stutter, of the voice
\* the rest of the model sees.
VoiceEnvelopeSpec == VE!Spec
=============================================================================

--------------------------- MODULE Envelope_proofs ---------------------------
(***************************************************************************)
(* For any velocities, sustain levels, level times and whatever lies behind*)
(* the tables: the envelope keeps its types, stays inside its tables and   *)
(* never swells, and it implements VoiceEnvelope.                          *)
(***************************************************************************)
EXTENDS Envelope, TLAPS

(* The tables *)

LEMMA AttackRange == \A i \in 0 .. 64 : attackLogVolume[i] \in 0 .. 64
BY SMTT(60) DEF Table, MAX_NOTE_VOL, attackLogVolume

LEMMA InverseAttackRange == \A i \in 0 .. 64 : inverseAttackLogVolume[i] \in 0 .. 64
BY SMTT(60) DEF Table, MAX_NOTE_VOL, inverseAttackLogVolume

LEMMA LogRange == \A i \in 0 .. 64 : logVolume[i] \in 0 .. 64
BY SMTT(60) DEF Table, MAX_NOTE_VOL, logVolume

LEMMA InverseLogRange == \A i \in 0 .. 64 : inverseLogVolume[i] \in 0 .. 64
BY SMTT(60) DEF Table, MAX_NOTE_VOL, inverseLogVolume

LEMMA LogClimbs == \A i \in 0 .. 64 : \A j \in 0 .. i : logVolume[j] <= logVolume[i]
BY SMTT(60) DEF Table, MAX_NOTE_VOL, logVolume

LEMMA AttackClimbs == \A i \in 0 .. 63 : attackLogVolume[i] <= attackLogVolume[i + 1]
BY SMTT(60) DEF Table, MAX_NOTE_VOL, attackLogVolume

LEMMA AttackAboveLog ==
  /\ \A i \in 0 .. 64 : logVolume[i] <= attackLogVolume[i]
  /\ logVolume[0] = 0 /\ attackLogVolume[0] = 0
BY SMTT(60) DEF Table, MAX_NOTE_VOL, logVolume, attackLogVolume

\* A volume looked up in the inverse table and back is never louder.
LEMMA InverseNotLouder == \A v \in 0 .. 64 : logVolume[inverseLogVolume[v]] <= v
BY SMTT(60) DEF Table, MAX_NOTE_VOL, logVolume, inverseLogVolume

LEMMA ReadInside ==
  ASSUME NEW table, NEW i \in 0 .. 64
  PROVE  Read(table, i) = {table[i]}
BY DEF Read, MAX_NOTE_VOL

\* A read gives a byte, wherever it goes.
LEMMA ReadByte ==
  ASSUME NEW table, NEW i \in Byte, i <= 64 => table[i] \in 0 .. 64
  PROVE  Read(table, i) \subseteq Byte
<1>1. CASE i <= 64
  <2>1. Read(table, i) = {table[i]}
    BY <1>1, ReadInside DEF Byte
  <2> QED
    BY <1>1, <2>1 DEF Byte
<1>2. CASE ~(i <= 64)
  <2>1. Junk \subseteq Byte
    BY EnvelopeAssumption DEF Byte
  <2> QED
    BY <1>2, <2>1 DEF Read, MAX_NOTE_VOL
<1> QED
  BY <1>1, <1>2

\* The sustain level is a share of the target.
Share(s, t) == (s * t) \div 1000

Index    == 0 .. MAX_NOTE_VOL
PerMille == 0 .. 1000

LEMMA ShareOf ==
  ASSUME NEW s \in PerMille, NEW t \in Index
  PROVE  Share(s, t) \in Index /\ Share(s, t) <= t
<1>1. s * t \in Nat /\ s * t <= 1000 * t /\ t \in 0 .. 64
  BY DEF PerMille, Index, MAX_NOTE_VOL
<1>2. \A x \in Nat : x <= 1000 * t => x \div 1000 \in 0 .. 64 /\ x \div 1000 <= t
  BY <1>1
<1> QED
  BY <1>1, <1>2 DEF Share, Index, MAX_NOTE_VOL
-----------------------------------------------------------------------------
(* Types *)

Capped(velocity) == IF velocity > MAX_VELOCITY THEN MAX_VELOCITY ELSE velocity
FullIndex(velocity) == (Capped(velocity) * MAX_NOTE_VOL) \div MAX_VELOCITY

LEMMA FullInTable == \A velocity \in Velocity : FullIndex(velocity) \in 0 .. 64
<1>1. \A c \in 0 .. 50 : (c * 64) \div 50 \in 0 .. 64
  OBVIOUS
<1>2. \A velocity \in Velocity : Capped(velocity) \in 0 .. 50
  BY EnvelopeAssumption DEF Capped, MAX_VELOCITY
<1> QED
  BY <1>1, <1>2 DEF FullIndex, MAX_NOTE_VOL, MAX_VELOCITY

\* What doNoteOn() makes of a velocity: a note at its target, or one that climbs.
LEMMA NewNote ==
  ASSUME NEW velocity \in Velocity, NEW attack \in LevelTime, NEW buf \in Waveform,
         NoteOn(velocity, attack, buf)
  PROVE  \E start, target \in Index :
           /\ n' = [ midiVal |-> PLAYED, buf |-> buf, envelopePhase |-> "ATTACK",
                     volIndex |-> start, volIndexInc |-> 1, volLevelDuration |-> attack,
                     targetVolIndex |-> target,
                     volume |-> logVolume[start], volumeNext |-> logVolume[start],
                     astray |-> FALSE ]
           /\ start = target \/ (start = 0 /\ buf # "sample")
<1>. DEFINE full   == FullIndex(velocity)
            climbs == attack > 0 /\ buf # "sample"
            start  == IF climbs THEN 0 ELSE full
            target == IF climbs THEN inverseAttackLogVolume[logVolume[full]] ELSE full
<1>1. full \in 0 .. 64
  BY FullInTable
<1>2. logVolume[full] \in 0 .. 64
  BY <1>1, LogRange
<1>3. inverseAttackLogVolume[logVolume[full]] \in 0 .. 64
  BY <1>2, InverseAttackRange
<1>4. n' = [ midiVal |-> PLAYED, buf |-> buf, envelopePhase |-> "ATTACK",
             volIndex |-> start, volIndexInc |-> 1, volLevelDuration |-> attack,
             targetVolIndex |-> target,
             volume |-> logVolume[start], volumeNext |-> logVolume[start],
             astray |-> FALSE ]
  BY Zenon DEF NoteOn, FullIndex, Capped
<1>5. start \in Index /\ target \in Index
  BY <1>1, <1>3 DEF Index, MAX_NOTE_VOL
<1>6. start = target \/ (start = 0 /\ buf # "sample")
  OBVIOUS
<1>. HIDE DEF start, target
<1> QED
  BY <1>4, <1>5, <1>6

\* The sets of the fields, by names that need no expansion
MidiVal == {NOTE_OFF, NOTE_PENDING_OFF, PLAYED}
Kind    == {"wave", "noise", "sample"}
Phase   == {"ATTACK", "DECAY", "SUSTAIN", "RELEASE", "OFF"}
Inc     == {-1, 1}
Time    == {0, 1}

NoteT == [ midiVal : MidiVal, buf : Kind, envelopePhase : Phase,
           volIndex : Byte, targetVolIndex : Index, volIndexInc : Inc,
           volLevelDuration : Time, volume : Byte, volumeNext : Byte,
           astray : BOOLEAN ]

TypeInv == n \in NoteT

LEMMA TypeIsNote == TypeOK <=> n \in NoteT
BY DEF TypeOK, NoteT, MidiVal, Kind, Phase, Index, Inc, Time

LEMMA Members ==
  /\ NOTE_OFF \in MidiVal /\ NOTE_PENDING_OFF \in MidiVal /\ PLAYED \in MidiVal
  /\ "ATTACK" \in Phase /\ "DECAY" \in Phase /\ "SUSTAIN" \in Phase
  /\ "RELEASE" \in Phase /\ "OFF" \in Phase
  /\ 0 \in Index /\ 0 \in Byte /\ -1 \in Inc /\ 1 \in Inc
  /\ LevelTime \subseteq Time /\ Waveform \subseteq Kind
BY EnvelopeAssumption DEF MidiVal, Phase, Index, Inc, Time, Kind, Byte, MAX_NOTE_VOL

LEMMA Numbers ==
  /\ Index = 0 .. 64 /\ Byte = 0 .. 255 /\ Index \subseteq Byte
  /\ Inc = {-1, 1} /\ Sustain \subseteq PerMille
BY EnvelopeAssumption DEF Index, Byte, Inc, PerMille, MAX_NOTE_VOL

LEMMA TypeNoteOn ==
  ASSUME NEW velocity \in Velocity, NEW attack \in LevelTime, NEW buf \in Waveform,
         NoteOn(velocity, attack, buf)
  PROVE  n' \in NoteT
<1>1. PICK start \in Index, target \in Index :
        n' = [ midiVal |-> PLAYED, buf |-> buf, envelopePhase |-> "ATTACK",
               volIndex |-> start, volIndexInc |-> 1, volLevelDuration |-> attack,
               targetVolIndex |-> target,
               volume |-> logVolume[start], volumeNext |-> logVolume[start],
               astray |-> FALSE ]
  BY NewNote, Zenon
<1>2. logVolume[start] \in 0 .. 64
  BY LogRange, Numbers
<1>3. start \in Byte /\ target \in Index /\ logVolume[start] \in Byte
  BY <1>2, Numbers
<1> QED
  BY <1>1, <1>3, Members DEF NoteT

LEMMA TypeRelease ==
  ASSUME n \in NoteT, NEW release \in LevelTime, ReleaseNote(release)
  PROVE  n' \in NoteT
<1>1. CASE n' = [n EXCEPT !.envelopePhase = "RELEASE", !.astray = @ \/ ~Fades]
  <2>. DEFINE lost == n.astray \/ ~Fades
  <2>1. lost \in BOOLEAN
    OBVIOUS
  <2>2. n' = [n EXCEPT !.envelopePhase = "RELEASE", !.astray = lost]
    BY <1>1
  <2>. HIDE DEF lost
  <2> QED
    BY <2>1, <2>2, Members DEF NoteT
<1>2. CASE n' = [n EXCEPT !.envelopePhase = "RELEASE", !.volIndexInc = -1,
                          !.targetVolIndex = 0, !.volLevelDuration = release]
  BY <1>2, Members DEF NoteT
<1>3. ASSUME NEW i \in Read(inverseLogVolume, n.volume), NEW v \in Read(logVolume, i),
             n' = [n EXCEPT !.envelopePhase = "RELEASE", !.volIndexInc = -1,
                            !.targetVolIndex = 0, !.volLevelDuration = release,
                            !.volIndex = i, !.volume = v, !.volumeNext = v]
      PROVE  n' \in NoteT
  <2>1. n.volume \in Byte
    BY DEF NoteT
  <2>2. n.volume <= 64 => inverseLogVolume[n.volume] \in 0 .. 64
    <3>1. n.volume <= 64 => n.volume \in 0 .. 64
      BY <2>1, Numbers
    <3> QED
      BY <3>1, InverseLogRange, Zenon
  <2>3. i \in Byte
    BY <2>1, <2>2, ReadByte
  <2>4. i <= 64 => logVolume[i] \in 0 .. 64
    BY <2>3, Numbers, LogRange
  <2>5. v \in Byte
    BY <2>3, <2>4, ReadByte
  <2> QED
    BY <1>3, <2>3, <2>5, Members DEF NoteT
<1> QED
  BY <1>1, <1>2, <1>3 DEF ReleaseNote

LEMMA TypeEndAttack ==
  ASSUME n \in NoteT, NEW sustain \in Sustain, NEW decay \in LevelTime,
         EndAttack(sustain, decay)
  PROVE  n' \in NoteT
<1>. DEFINE level == Share(sustain, n.targetVolIndex)
<1>1. PICK i \in Read(inverseLogVolume, n.volume) :
        n' = IF sustain = 1000
             THEN [n EXCEPT !.envelopePhase = "SUSTAIN", !.volIndex = i]
             ELSE [n EXCEPT !.envelopePhase = "DECAY",
                            !.volIndex = IF level > i THEN level ELSE i,
                            !.targetVolIndex = level, !.volIndexInc = -1,
                            !.volLevelDuration = decay]
  BY DEF EndAttack, Share
<1>2. n.targetVolIndex \in Index /\ n.volume \in Byte
  BY DEF NoteT
<1>3. level \in Index
  <2>1. sustain \in PerMille
    BY Numbers
  <2> QED
    BY <1>2, <2>1, ShareOf, Zenon
<1>4. n.volume <= 64 => inverseLogVolume[n.volume] \in 0 .. 64
  <2>1. n.volume <= 64 => n.volume \in 0 .. 64
    BY <1>2, Numbers
  <2> QED
    BY <2>1, InverseLogRange, Zenon
<1>5. i \in Byte
  BY <1>2, <1>4, ReadByte
<1>. HIDE DEF level
<1>6. level \in Index /\ (IF level > i THEN level ELSE i) \in Byte
  BY <1>2, <1>3, <1>5, Numbers
<1>7. CASE sustain = 1000
  <2>1. n' = [n EXCEPT !.envelopePhase = "SUSTAIN", !.volIndex = i]
    BY <1>1, <1>7
  <2> QED
    BY <1>5, <2>1, Members DEF NoteT
<1>8. CASE sustain # 1000
  <2>. DEFINE higher == IF level > i THEN level ELSE i
  <2>1. higher \in Byte
    BY <1>6
  <2>2. n' = [n EXCEPT !.envelopePhase = "DECAY", !.volIndex = higher,
                       !.targetVolIndex = level, !.volIndexInc = -1,
                       !.volLevelDuration = decay]
    BY <1>1, <1>8
  <2>. HIDE DEF higher
  <2> QED
    BY <1>6, <2>1, <2>2, Members DEF NoteT
<1> QED
  BY <1>7, <1>8

LEMMA TypeStepLevel ==
  ASSUME n \in NoteT, StepLevel
  PROVE  n' \in NoteT
<1>. DEFINE i == (n.volIndex + n.volIndexInc) % 256
            contour == IF n.envelopePhase = "ATTACK" THEN attackLogVolume ELSE logVolume
<1>1. PICK v \in Read(contour, i) : n' = [n EXCEPT !.volIndex = i, !.volumeNext = v]
  BY DEF StepLevel
<1>2. n.volIndex \in Byte /\ n.volIndexInc \in Inc
  BY DEF NoteT
<1>3. i \in Byte
  BY <1>2, Numbers
<1>. HIDE DEF i
<1>4. i <= 64 => attackLogVolume[i] \in 0 .. 64
  BY <1>3, Numbers, AttackRange
<1>5. i <= 64 => logVolume[i] \in 0 .. 64
  BY <1>3, Numbers, LogRange
<1>6. Read(attackLogVolume, i) \subseteq Byte /\ Read(logVolume, i) \subseteq Byte
  BY <1>3, <1>4, <1>5, ReadByte
<1>7. v \in Byte
  BY <1>6
<1> QED
  BY <1>1, <1>3, <1>7 DEF NoteT

LEMMA TypeStep == n \in NoteT /\ [Next]_n => n' \in NoteT
<1>. SUFFICES ASSUME n \in NoteT, [Next]_n PROVE n' \in NoteT
  OBVIOUS
<1>1. CASE StopNote \/ Stopped
  BY <1>1, Members DEF StopNote, Stopped, NoteT
<1>2. ASSUME NEW buf \in Waveform, SetWaveform(buf) PROVE n' \in NoteT
  BY <1>2, Members DEF SetWaveform, NoteT
<1>3. CASE EndDecayOrRelease
  BY <1>3, Members DEF EndDecayOrRelease, NoteT
<1>4. CASE CutRelease
  BY <1>4, Members DEF CutRelease, NoteT
<1>5. ASSUME NEW boundary \in BOOLEAN, AudioISR(boundary) PROVE n' \in NoteT
  BY <1>5, Members DEF AudioISR, NoteT
<1>6. CASE n' = n
  BY <1>6
<1> QED
  BY <1>1, <1>2, <1>3, <1>4, <1>5, <1>6, TypeNoteOn, TypeRelease, TypeEndAttack, TypeStepLevel
     DEF Next, Input, ProcessEnvelope

LEMMA TypeInit == Init => n \in NoteT
<1>1. "wave" \in Kind /\ 0 \in Time
  BY DEF Kind, Time
<1> QED
  BY <1>1, Members DEF Init, NoteT

\* Every byte of the envelope keeps its type, whatever a read behind a table
\* finds (processEnvelope(), releaseNote()).
THEOREM EnvelopeTypes == Spec => []TypeOK
<1>1. Init => TypeInv
  BY TypeInit DEF TypeInv
<1>2. TypeInv /\ [Next]_n => TypeInv'
  BY TypeStep DEF TypeInv
<1>3. TypeInv => TypeOK
  BY TypeIsNote DEF TypeInv
<1> QED
  BY <1>1, <1>2, <1>3, PTL DEF Spec
-----------------------------------------------------------------------------
(* Levels, of a note that was not released as a sample: such a note is left  *)
(* without a target of silence, and as a waveform again its volIndex walks   *)
(* wherever volIndexInc points.                                             *)

\* volIndex never promises more than is heard; the attack climbs, decay and
\* release fall.
InRange   == n.volIndex \in 0 .. 64 /\ n.volume \in 0 .. 64 /\ n.volumeNext \in 0 .. 64
Heard     == logVolume[n.volIndex] <= n.volumeNext
OffSilent == n.envelopePhase = "OFF" => ~Sounding
Climbing  == n.envelopePhase = "ATTACK" =>
               /\ n.volIndexInc = 1 /\ n.volIndex <= n.targetVolIndex
               /\ n.volume <= n.volumeNext
               /\ AtTarget \/ n.volumeNext = attackLogVolume[n.volIndex]
Falling   == n.envelopePhase \in {"DECAY", "RELEASE"} =>
               \/ AtTarget
               \/ /\ n.volIndexInc = -1 /\ n.volIndex >= n.targetVolIndex
                  /\ n.envelopePhase = "RELEASE" => n.targetVolIndex = 0

LevelInv == TypeInv /\ InRange /\ Heard /\ OffSilent /\ Climbing /\ Falling

\* nothing is known of the levels of a note that is astray
HomeInv == TypeInv /\ OffSilent /\ (~n.astray => LevelInv)

\* what NeverSwells says of a step
NoLouder == n'.envelopePhase \in {"DECAY", "RELEASE", "OFF"} /\ ~n'.astray =>
              n'.volume <= Loudest /\ n'.volumeNext <= Loudest

LEMMA FieldTypes ==
  ASSUME TypeInv
  PROVE  /\ n.volIndex \in 0 .. 255 /\ n.targetVolIndex \in 0 .. 64
         /\ n.volume \in 0 .. 255 /\ n.volumeNext \in 0 .. 255
         /\ n.volIndexInc \in {-1, 1} /\ n.volLevelDuration \in {0, 1}
<1>1. /\ n.volIndex \in Byte /\ n.targetVolIndex \in Index
      /\ n.volume \in Byte /\ n.volumeNext \in Byte
      /\ n.volIndexInc \in Inc /\ n.volLevelDuration \in Time
  BY DEF TypeInv, NoteT
<1> QED
  BY <1>1, Numbers DEF Time

\* Neither the volumes nor the levels are touched.
LEMMA LevelsKept ==
  ASSUME LevelInv, TypeInv', n'.envelopePhase = n.envelopePhase \/ n'.envelopePhase = "OFF",
         n'.envelopePhase = "OFF" => n'.midiVal \in {NOTE_OFF, NOTE_PENDING_OFF},
         n'.volIndex = n.volIndex, n'.targetVolIndex = n.targetVolIndex,
         n'.volIndexInc = n.volIndexInc, n'.volumeNext = n.volumeNext,
         n'.volume = n.volume \/ n'.volume = n.volumeNext
  PROVE  LevelInv' /\ NoLouder
<1>1. n.volume \in 0 .. 64 /\ n.volumeNext \in 0 .. 64
  BY DEF LevelInv, InRange
<1>2. NoLouder
  BY <1>1 DEF NoLouder, Loudest
<1>3. InRange' /\ Heard' /\ Falling'
  BY <1>1 DEF LevelInv, InRange, Heard, Falling, AtTarget
<1>4. Climbing'
  BY <1>1 DEF LevelInv, Climbing, AtTarget
<1>5. OffSilent'
  BY DEF OffSilent, Sounding, NOTE_OFF, NOTE_PENDING_OFF
<1> QED
  BY <1>2, <1>3, <1>4, <1>5 DEF LevelInv

LEMMA LevelNoteOn ==
  ASSUME TypeInv', NEW velocity \in Velocity, NEW attack \in LevelTime,
         NEW buf \in Waveform, NoteOn(velocity, attack, buf)
  PROVE  LevelInv' /\ NoLouder
<1>1. PICK start \in Index, target \in Index :
        /\ n' = [ midiVal |-> PLAYED, buf |-> buf, envelopePhase |-> "ATTACK",
                  volIndex |-> start, volIndexInc |-> 1, volLevelDuration |-> attack,
                  targetVolIndex |-> target,
                  volume |-> logVolume[start], volumeNext |-> logVolume[start],
                  astray |-> FALSE ]
        /\ start = target \/ (start = 0 /\ buf # "sample")
  BY NewNote, Zenon
<1>2. /\ n'.buf = buf /\ n'.envelopePhase = "ATTACK" /\ n'.volIndex = start
      /\ n'.volIndexInc = 1 /\ n'.targetVolIndex = target
      /\ n'.volume = logVolume[start] /\ n'.volumeNext = logVolume[start]
  BY <1>1
<1>3. /\ start \in 0 .. 64 /\ target \in 0 .. 64 /\ logVolume[start] \in 0 .. 64
      /\ logVolume[0] = 0 /\ attackLogVolume[0] = 0
  BY LogRange, AttackAboveLog, Numbers
<1>4. start = target \/ (start = 0 /\ buf # "sample")
  BY <1>1
<1> QED
  BY <1>2, <1>3, <1>4 DEF LevelInv, InRange, Heard, OffSilent, Climbing, Falling, AtTarget,
                          NoLouder

LEMMA LevelRelease ==
  ASSUME LevelInv, TypeInv', NEW release \in LevelTime, ReleaseNote(release)
  PROVE  (n'.astray \/ LevelInv') /\ NoLouder
<1>1. n \in NoteT /\ n.volume \in 0 .. 64 /\ n.volumeNext \in 0 .. 64 /\ n.volIndex \in 0 .. 64
  BY DEF LevelInv, TypeInv, InRange
<1>2. CASE IsSample /\ n' = [n EXCEPT !.envelopePhase = "RELEASE", !.astray = @ \/ ~Fades]
  <2>. DEFINE lost == n.astray \/ ~Fades
  <2>1. n' = [n EXCEPT !.envelopePhase = "RELEASE", !.astray = lost]
    BY <1>2
  <2>2. ~lost => n.volIndexInc = -1 /\ n.targetVolIndex = 0
    BY DEF Fades
  <2>. HIDE DEF lost
  <2>3. /\ n'.envelopePhase = "RELEASE" /\ n'.volIndex = n.volIndex
        /\ n'.targetVolIndex = n.targetVolIndex /\ n'.volIndexInc = n.volIndexInc
        /\ n'.volume = n.volume /\ n'.volumeNext = n.volumeNext /\ n'.astray = lost
    BY <1>1, <2>1 DEF NoteT
  <2> QED
    BY <1>1, <2>2, <2>3 DEF LevelInv, InRange, Heard, OffSilent, Climbing, Falling, NoLouder, Loudest
<1>3. CASE /\ ~IsSample
           /\ n' = [n EXCEPT !.envelopePhase = "RELEASE", !.volIndexInc = -1,
                             !.targetVolIndex = 0, !.volLevelDuration = release]
  <2>1. /\ n'.buf = n.buf /\ n'.envelopePhase = "RELEASE" /\ n'.volIndex = n.volIndex
        /\ n'.targetVolIndex = 0 /\ n'.volIndexInc = -1
        /\ n'.volume = n.volume /\ n'.volumeNext = n.volumeNext
    BY <1>1, <1>3 DEF NoteT
  <2> QED
    BY <1>1, <1>3, <2>1 DEF LevelInv, InRange, Heard, OffSilent, Climbing, Falling, AtTarget,
                            NoLouder, Loudest, IsSample
<1>4. ASSUME ~IsSample,
             NEW i \in Read(inverseLogVolume, n.volume), NEW v \in Read(logVolume, i),
             n' = [n EXCEPT !.envelopePhase = "RELEASE", !.volIndexInc = -1,
                            !.targetVolIndex = 0, !.volLevelDuration = release,
                            !.volIndex = i, !.volume = v, !.volumeNext = v]
      PROVE  LevelInv' /\ NoLouder
  <2>1. i = inverseLogVolume[n.volume] /\ i \in 0 .. 64
    <3>1. Read(inverseLogVolume, n.volume) = {inverseLogVolume[n.volume]}
      BY <1>1, ReadInside
    <3>2. inverseLogVolume[n.volume] \in 0 .. 64
      BY <1>1, InverseLogRange
    <3> QED
      BY <1>4, <3>1, <3>2
  <2>2. v = logVolume[i] /\ v \in 0 .. 64
    <3>1. Read(logVolume, i) = {logVolume[i]}
      BY <2>1, ReadInside
    <3>2. logVolume[i] \in 0 .. 64
      BY <2>1, LogRange
    <3> QED
      BY <1>4, <3>1, <3>2
  <2>3. v <= n.volume
    BY <1>1, <2>1, <2>2, InverseNotLouder
  <2>4. /\ n'.buf = n.buf /\ n'.envelopePhase = "RELEASE" /\ n'.volIndex = i
        /\ n'.targetVolIndex = 0 /\ n'.volIndexInc = -1 /\ n'.volume = v /\ n'.volumeNext = v
    BY <1>1, <1>4 DEF NoteT
  <2>5. InRange' /\ Heard'
    BY <2>1, <2>2, <2>4 DEF InRange, Heard
  <2>6. OffSilent'
    BY <2>4 DEF OffSilent
  <2>7. Climbing' /\ Falling'
    BY <2>1, <2>4 DEF Climbing, Falling, AtTarget
  <2>8. NoLouder
    BY <1>1, <2>2, <2>3, <2>4 DEF NoLouder, Loudest
  <2> QED
    BY <2>5, <2>6, <2>7, <2>8 DEF LevelInv
<1> QED
  BY <1>2, <1>3, <1>4 DEF ReleaseNote

LEMMA LevelEndAttack ==
  ASSUME LevelInv, TypeInv', NEW sustain \in Sustain, NEW decay \in LevelTime,
         EndAttack(sustain, decay)
  PROVE  LevelInv' /\ NoLouder
<1>. DEFINE level == Share(sustain, n.targetVolIndex)
<1>1. n \in NoteT /\ n.volume \in 0 .. 64 /\ n.volumeNext \in 0 .. 64 /\ n.volIndex \in 0 .. 64
  BY DEF LevelInv, TypeInv, InRange
<1>2. /\ n.volIndex = n.targetVolIndex /\ n.buf # "sample" /\ n.volume <= n.volumeNext
      /\ logVolume[n.volIndex] <= n.volumeNext
  BY DEF EndAttack, LevelInv, Climbing, Heard, Serviced, IsSample, AtTarget
<1>3. level \in 0 .. n.volIndex
  <2>1. sustain \in PerMille /\ n.targetVolIndex \in Index
    BY <1>1, Numbers DEF NoteT
  <2>2. level \in Index /\ level <= n.targetVolIndex
    BY <2>1, ShareOf, Zenon
  <2> QED
    BY <1>1, <1>2, <2>2, Numbers
<1>4. PICK i \in Read(inverseLogVolume, n.volume) :
        n' = IF sustain = 1000
             THEN [n EXCEPT !.envelopePhase = "SUSTAIN", !.volIndex = i]
             ELSE [n EXCEPT !.envelopePhase = "DECAY",
                            !.volIndex = IF level > i THEN level ELSE i,
                            !.targetVolIndex = level, !.volIndexInc = -1,
                            !.volLevelDuration = decay]
  BY DEF EndAttack, Share
<1>. HIDE DEF level
<1>5. i = inverseLogVolume[n.volume] /\ i \in 0 .. 64 /\ logVolume[i] <= n.volume
  <2>1. Read(inverseLogVolume, n.volume) = {inverseLogVolume[n.volume]}
    BY <1>1, ReadInside
  <2>2. inverseLogVolume[n.volume] \in 0 .. 64
    BY <1>1, InverseLogRange, Zenon
  <2>3. logVolume[inverseLogVolume[n.volume]] <= n.volume
    BY <1>1, InverseNotLouder, Zenon
  <2> QED
    BY <2>1, <2>2, <2>3, Zenon
<1>6. CASE sustain = 1000
  <2>1. n' = [n EXCEPT !.envelopePhase = "SUSTAIN", !.volIndex = i]
    BY <1>4, <1>6
  <2>2. /\ n'.buf = n.buf /\ n'.envelopePhase = "SUSTAIN" /\ n'.volIndex = i
        /\ n'.volume = n.volume /\ n'.volumeNext = n.volumeNext
    BY <1>1, <2>1 DEF NoteT
  <2>3. logVolume[i] <= n.volumeNext
    <3>1. logVolume[i] \in 0 .. 64
      BY <1>5, LogRange
    <3>2. \A x, y, z \in 0 .. 64 : x <= y /\ y <= z => x <= z
      OBVIOUS
    <3> QED
      BY ONLY <1>1, <1>2, <1>5, <3>1, <3>2, Zenon
  <2> QED
    BY <1>1, <1>2, <1>5, <2>2, <2>3
       DEF LevelInv, InRange, Heard, OffSilent, Climbing, Falling, NoLouder
<1>7. CASE sustain # 1000
  <2>. DEFINE higher == IF level > i THEN level ELSE i
  <2>1. n' = [n EXCEPT !.envelopePhase = "DECAY", !.volIndex = higher,
                       !.targetVolIndex = level, !.volIndexInc = -1,
                       !.volLevelDuration = decay]
    BY <1>4, <1>7
  <2>2. higher \in 0 .. 64 /\ higher >= level
    BY <1>1, <1>3, <1>5
  <2>3. logVolume[level] <= logVolume[n.volIndex]
    BY <1>1, <1>3, LogClimbs
  <2>4. /\ logVolume[i] \in 0 .. 64 /\ logVolume[level] \in 0 .. 64
        /\ logVolume[n.volIndex] \in 0 .. 64
    <3>1. level \in 0 .. 64
      BY <1>1, <1>3
    <3> QED
      BY ONLY <1>1, <1>5, <3>1, LogRange, Zenon
  <2>5. logVolume[level] <= n.volumeNext /\ logVolume[i] <= n.volumeNext
    <3>1. \A x, y, z \in 0 .. 64 : x <= y /\ y <= z => x <= z
      OBVIOUS
    <3>2. logVolume[level] <= n.volumeNext
      BY <1>1, <1>2, <2>3, <2>4, <3>1
    <3>3. logVolume[i] <= n.volumeNext
      BY <1>1, <1>2, <1>5, <2>4, <3>1
    <3> QED
      BY <3>2, <3>3
  <2>6. logVolume[higher] <= n.volumeNext
    BY <2>5
  <2>. HIDE DEF higher
  <2>7. /\ n'.buf = n.buf /\ n'.envelopePhase = "DECAY" /\ n'.volIndex = higher
        /\ n'.targetVolIndex = level /\ n'.volIndexInc = -1
        /\ n'.volume = n.volume /\ n'.volumeNext = n.volumeNext
    BY <1>1, <2>1 DEF NoteT
  <2> QED
    BY <1>1, <1>2, <2>2, <2>6, <2>7
       DEF LevelInv, InRange, Heard, OffSilent, Climbing, Falling, NoLouder, Loudest
<1> QED
  BY <1>6, <1>7

LEMMA LevelEndDecayOrRelease ==
  ASSUME LevelInv, TypeInv', EndDecayOrRelease
  PROVE  LevelInv' /\ NoLouder
<1>1. n \in NoteT /\ n.volume \in 0 .. 64 /\ n.volumeNext \in 0 .. 64
  BY DEF LevelInv, TypeInv, InRange
<1>2. CASE n' = [n EXCEPT !.envelopePhase = "SUSTAIN"]
  <2>1. /\ n'.buf = n.buf /\ n'.envelopePhase = "SUSTAIN" /\ n'.volIndex = n.volIndex
        /\ n'.targetVolIndex = n.targetVolIndex /\ n'.volIndexInc = n.volIndexInc
        /\ n'.volume = n.volume /\ n'.volumeNext = n.volumeNext
    BY <1>1, <1>2 DEF NoteT
  <2> QED
    BY <1>1, <2>1 DEF LevelInv, InRange, Heard, OffSilent, Climbing, Falling, AtTarget,
                      NoLouder
<1>3. CASE n' = [n EXCEPT !.midiVal = NOTE_PENDING_OFF, !.envelopePhase = "OFF"]
  <2>1. /\ n'.midiVal = NOTE_PENDING_OFF /\ n'.buf = n.buf /\ n'.envelopePhase = "OFF"
        /\ n'.volIndex = n.volIndex
        /\ n'.targetVolIndex = n.targetVolIndex /\ n'.volIndexInc = n.volIndexInc
        /\ n'.volume = n.volume /\ n'.volumeNext = n.volumeNext
    BY <1>1, <1>3 DEF NoteT
  <2> QED
    BY <2>1, LevelsKept
<1> QED
  BY <1>2, <1>3 DEF EndDecayOrRelease

LEMMA LevelCutRelease ==
  ASSUME LevelInv, TypeInv', CutRelease
  PROVE  LevelInv' /\ NoLouder
<1>1. /\ n \in NoteT /\ n.volume \in 0 .. 64 /\ n.volumeNext \in 0 .. 64
      /\ n.targetVolIndex \in 0 .. 64
  BY FieldTypes DEF LevelInv, TypeInv, InRange
<1>2. /\ n.envelopePhase = "RELEASE" /\ n.buf # "sample"
      /\ n.volIndexInc = -1 /\ n.targetVolIndex = 0
  BY DEF CutRelease, LevelInv, Falling, Serviced, IsSample
<1>3. n' = [n EXCEPT !.volIndex = 0, !.volumeNext = 0]
  BY DEF CutRelease
<1>4. /\ n'.buf = n.buf /\ n'.envelopePhase = "RELEASE" /\ n'.volIndex = 0
      /\ n'.targetVolIndex = 0 /\ n'.volIndexInc = -1
      /\ n'.volume = n.volume /\ n'.volumeNext = 0
  BY <1>1, <1>2, <1>3 DEF NoteT
<1>5. logVolume[0] = 0
  BY AttackAboveLog
<1> QED
  BY <1>1, <1>2, <1>4, <1>5
     DEF LevelInv, InRange, Heard, OffSilent, Climbing, Falling, AtTarget,
         NoLouder, Loudest

LEMMA LevelStepLevel ==
  ASSUME LevelInv, TypeInv', StepLevel
  PROVE  LevelInv' /\ NoLouder
<1>. DEFINE i == (n.volIndex + n.volIndexInc) % 256
            contour == IF n.envelopePhase = "ATTACK" THEN attackLogVolume ELSE logVolume
<1>1. /\ n \in NoteT /\ n.volume \in 0 .. 64 /\ n.volumeNext \in 0 .. 64
      /\ n.volIndex \in 0 .. 64 /\ n.targetVolIndex \in 0 .. 64
  BY FieldTypes DEF LevelInv, TypeInv, InRange
<1>2. /\ n.volIndex # n.targetVolIndex /\ n.buf # "sample"
      /\ n.envelopePhase \in {"ATTACK", "DECAY", "RELEASE"}
  <2>1. n.envelopePhase \in Phase
    BY <1>1 DEF NoteT
  <2> QED
    BY <2>1 DEF StepLevel, AtTarget, Serviced, IsSample, LevelInv, OffSilent, Phase
<1>3. PICK v \in Read(contour, i) : n' = [n EXCEPT !.volIndex = i, !.volumeNext = v]
  BY DEF StepLevel
<1>. HIDE DEF i
<1>4. /\ n'.buf = n.buf /\ n'.envelopePhase = n.envelopePhase /\ n'.volIndex = i
      /\ n'.targetVolIndex = n.targetVolIndex /\ n'.volIndexInc = n.volIndexInc
      /\ n'.volume = n.volume /\ n'.volumeNext = v
  BY <1>1, <1>3 DEF NoteT
<1>5. CASE n.envelopePhase = "ATTACK"
  <2>1. /\ n.volIndexInc = 1 /\ n.volIndex <= n.targetVolIndex /\ n.volume <= n.volumeNext
        /\ n.volumeNext = attackLogVolume[n.volIndex]
    BY <1>2, <1>5 DEF LevelInv, Climbing, AtTarget
  <2>2. n.volIndex \in 0 .. 63 /\ i = n.volIndex + 1 /\ i \in 0 .. 64 /\ i <= n.targetVolIndex
    BY <1>1, <1>2, <2>1 DEF i
  <2>3. v = attackLogVolume[i]
    BY <1>3, <1>5, <2>2, ReadInside
  <2>4. v \in 0 .. 64
    BY <2>2, <2>3, AttackRange
  <2>5. attackLogVolume[n.volIndex] <= v
    BY <2>2, <2>3, AttackClimbs
  <2>6. logVolume[i] <= v
    BY <2>2, <2>3, AttackAboveLog
  <2>7. n.volume <= v
    BY <1>1, <2>1, <2>4, <2>5
  <2> QED
    BY <1>1, <1>2, <1>4, <1>5, <2>1, <2>2, <2>3, <2>4, <2>6, <2>7
       DEF LevelInv, InRange, Heard, OffSilent, Climbing, Falling, AtTarget, NoLouder
<1>6. CASE n.envelopePhase \in {"DECAY", "RELEASE"}
  <2>1. /\ n.volIndexInc = -1 /\ n.volIndex >= n.targetVolIndex
        /\ n.envelopePhase = "RELEASE" => n.targetVolIndex = 0
    BY <1>2, <1>6 DEF LevelInv, Falling, AtTarget
  <2>2. i = n.volIndex - 1 /\ i \in 0 .. 64 /\ i >= n.targetVolIndex /\ i \in 0 .. n.volIndex
    BY <1>1, <1>2, <2>1 DEF i
  <2>3. v = logVolume[i]
    BY <1>3, <1>6, <2>2, ReadInside
  <2>4. v \in 0 .. 64 /\ logVolume[n.volIndex] \in 0 .. 64
    BY <1>1, <2>2, <2>3, LogRange
  <2>5. v <= logVolume[n.volIndex]
    BY <1>1, <2>2, <2>3, LogClimbs
  <2>6. logVolume[n.volIndex] <= n.volumeNext
    BY DEF LevelInv, Heard
  <2>7. v <= n.volumeNext
    BY <1>1, <2>4, <2>5, <2>6
  <2>8. InRange' /\ Heard'
    BY <1>1, <1>4, <2>2, <2>3, <2>4 DEF InRange, Heard
  <2>9. OffSilent' /\ Climbing'
    BY <1>2, <1>4, <1>6 DEF OffSilent, Climbing
  <2>10. Falling'
    BY <1>4, <2>1, <2>2 DEF Falling
  <2>11. NoLouder
    BY <1>1, <1>4, <2>4, <2>7 DEF NoLouder, Loudest
  <2> QED
    BY <2>8, <2>9, <2>10, <2>11 DEF LevelInv
<1> QED
  BY <1>2, <1>5, <1>6

LEMMA LevelAudioISR ==
  ASSUME LevelInv, TypeInv', NEW boundary \in BOOLEAN, AudioISR(boundary)
  PROVE  LevelInv' /\ NoLouder
<1>1. n \in NoteT
  BY DEF LevelInv, TypeInv
<1>2. CASE n' = [n EXCEPT !.midiVal = NOTE_OFF, !.envelopePhase = "OFF"]
  <2>1. /\ n'.midiVal = NOTE_OFF /\ n'.buf = n.buf /\ n'.envelopePhase = "OFF"
        /\ n'.volIndex = n.volIndex
        /\ n'.targetVolIndex = n.targetVolIndex /\ n'.volIndexInc = n.volIndexInc
        /\ n'.volume = n.volume /\ n'.volumeNext = n.volumeNext
    BY <1>1, <1>2 DEF NoteT
  <2> QED
    BY <2>1, LevelsKept
<1>3. CASE n' = [n EXCEPT !.midiVal = NOTE_OFF]
  <2>1. /\ n'.midiVal = NOTE_OFF /\ n'.buf = n.buf /\ n'.envelopePhase = n.envelopePhase
        /\ n'.volIndex = n.volIndex
        /\ n'.targetVolIndex = n.targetVolIndex /\ n'.volIndexInc = n.volIndexInc
        /\ n'.volume = n.volume /\ n'.volumeNext = n.volumeNext
    BY <1>1, <1>3 DEF NoteT
  <2> QED
    BY <2>1, LevelsKept
<1>4. CASE n' = [n EXCEPT !.volume = n.volumeNext] /\ n.midiVal # NOTE_PENDING_OFF
  <2>1. /\ n'.midiVal = n.midiVal /\ n'.buf = n.buf /\ n'.envelopePhase = n.envelopePhase
        /\ n'.volIndex = n.volIndex
        /\ n'.targetVolIndex = n.targetVolIndex /\ n'.volIndexInc = n.volIndexInc
        /\ n'.volume = n.volumeNext /\ n'.volumeNext = n.volumeNext
    BY <1>1, <1>4 DEF NoteT
  <2>2. n.envelopePhase = "OFF" => n.midiVal \in {NOTE_OFF, NOTE_PENDING_OFF}
    <3>1. n.midiVal \in MidiVal
      BY <1>1 DEF NoteT
    <3> QED
      BY <3>1 DEF LevelInv, OffSilent, Sounding, MidiVal, NOTE_OFF, NOTE_PENDING_OFF, PLAYED
  <2> QED
    BY <2>1, <2>2, LevelsKept
<1> QED
  BY <1>2, <1>3, <1>4 DEF AudioISR

LEMMA LevelOthers ==
  ASSUME LevelInv, TypeInv',
         \/ StopNote
         \/ Stopped
         \/ \E buf \in Waveform : SetWaveform(buf)
         \/ n' = n
  PROVE  LevelInv' /\ NoLouder
<1>1. n \in NoteT
  BY DEF LevelInv, TypeInv
<1>2. n.envelopePhase = "OFF" => n.midiVal \in {NOTE_OFF, NOTE_PENDING_OFF}
  <2>1. n.midiVal \in MidiVal
    BY <1>1 DEF NoteT
  <2> QED
    BY <2>1 DEF LevelInv, OffSilent, Sounding, MidiVal, NOTE_OFF, NOTE_PENDING_OFF, PLAYED
<1>3. CASE StopNote
  <2>1. n' = [n EXCEPT !.midiVal = NOTE_PENDING_OFF]
    BY <1>3 DEF StopNote
  <2>2. /\ n'.midiVal = NOTE_PENDING_OFF /\ n'.buf = n.buf /\ n'.envelopePhase = n.envelopePhase
        /\ n'.volIndex = n.volIndex
        /\ n'.targetVolIndex = n.targetVolIndex /\ n'.volIndexInc = n.volIndexInc
        /\ n'.volume = n.volume /\ n'.volumeNext = n.volumeNext
    BY <1>1, <2>1 DEF NoteT
  <2> QED
    BY <2>2, LevelsKept
<1>4. CASE Stopped
  <2>1. n.midiVal = NOTE_OFF /\ n' = [n EXCEPT !.envelopePhase = "OFF"]
    BY <1>4 DEF Stopped
  <2>2. /\ n'.midiVal = NOTE_OFF /\ n'.buf = n.buf /\ n'.envelopePhase = "OFF"
        /\ n'.volIndex = n.volIndex
        /\ n'.targetVolIndex = n.targetVolIndex /\ n'.volIndexInc = n.volIndexInc
        /\ n'.volume = n.volume /\ n'.volumeNext = n.volumeNext
    BY <1>1, <2>1 DEF NoteT
  <2> QED
    BY <2>2, LevelsKept
<1>5. ASSUME NEW buf \in Waveform, SetWaveform(buf) PROVE LevelInv' /\ NoLouder
  <2>1. n' = [n EXCEPT !.buf = buf]
    BY <1>5 DEF SetWaveform
  <2>2. /\ n'.midiVal = n.midiVal /\ n'.buf = buf /\ n'.envelopePhase = n.envelopePhase
        /\ n'.volIndex = n.volIndex
        /\ n'.targetVolIndex = n.targetVolIndex /\ n'.volIndexInc = n.volIndexInc
        /\ n'.volume = n.volume /\ n'.volumeNext = n.volumeNext
    BY <1>1, <2>1 DEF NoteT
  <2> QED
    BY <1>2, <2>2, LevelsKept
<1>6. CASE n' = n
  <2>1. /\ n'.midiVal = n.midiVal /\ n'.buf = n.buf /\ n'.envelopePhase = n.envelopePhase
        /\ n'.volIndex = n.volIndex
        /\ n'.targetVolIndex = n.targetVolIndex /\ n'.volIndexInc = n.volIndexInc
        /\ n'.volume = n.volume /\ n'.volumeNext = n.volumeNext
    BY <1>6
  <2> QED
    BY <1>2, <2>1, LevelsKept
<1> QED
  BY <1>3, <1>4, <1>5, <1>6

LEMMA LevelNext ==
  ASSUME LevelInv, [Next]_n
  PROVE  (n'.astray \/ LevelInv') /\ NoLouder
<1>1. TypeInv'
  BY TypeStep DEF LevelInv, TypeInv
<1> QED
  BY <1>1, LevelNoteOn, LevelRelease, LevelEndAttack, LevelEndDecayOrRelease,
     LevelCutRelease, LevelStepLevel, LevelAudioISR, LevelOthers
     DEF Next, Input, ProcessEnvelope

\* Phase OFF is silent, and only the next note brings home a voice that is astray.
LEMMA OffNext ==
  ASSUME TypeInv, OffSilent, [Next]_n,
         \A velocity \in Velocity, attack \in LevelTime, buf \in Waveform :
           ~NoteOn(velocity, attack, buf)
  PROVE  OffSilent' /\ (n.astray => n'.astray)
<1>. n \in NoteT
  BY DEF TypeInv
<1>1. ASSUME NEW release \in LevelTime, ReleaseNote(release)
      PROVE  n'.envelopePhase = "RELEASE" /\ (n.astray => n'.astray)
  BY <1>1 DEF ReleaseNote, NoteT
<1>2. ASSUME NEW sustain \in Sustain, NEW decay \in LevelTime, EndAttack(sustain, decay)
      PROVE  n'.envelopePhase \in {"SUSTAIN", "DECAY"} /\ (n.astray => n'.astray)
  BY <1>2 DEF EndAttack, NoteT
<1>3. CASE StopNote \/ Stopped \/ \E buf \in Waveform : SetWaveform(buf)
  BY <1>3 DEF StopNote, Stopped, SetWaveform, NoteT, OffSilent, Sounding, NOTE_OFF, NOTE_PENDING_OFF
<1>4. CASE EndDecayOrRelease
  <2>1. CASE n' = [n EXCEPT !.envelopePhase = "SUSTAIN"]
    BY <2>1 DEF NoteT, OffSilent
  <2>2. CASE n' = [n EXCEPT !.midiVal = NOTE_PENDING_OFF, !.envelopePhase = "OFF"]
    <3>1. n'.midiVal = NOTE_PENDING_OFF /\ n'.astray = n.astray
      BY <2>2 DEF NoteT
    <3> QED
      BY <3>1 DEF OffSilent, Sounding, NOTE_PENDING_OFF
  <2> QED
    BY <1>4, <2>1, <2>2 DEF EndDecayOrRelease
<1>5. CASE CutRelease
  BY <1>5 DEF CutRelease, NoteT, OffSilent, Sounding
<1>6. CASE StepLevel
  <2>. DEFINE i == (n.volIndex + n.volIndexInc) % 256
              contour == IF n.envelopePhase = "ATTACK" THEN attackLogVolume ELSE logVolume
  <2>1. PICK v \in Read(contour, i) : n' = [n EXCEPT !.volIndex = i, !.volumeNext = v]
    BY <1>6 DEF StepLevel
  <2>. HIDE DEF i
  <2> QED
    BY <2>1 DEF NoteT, OffSilent, Sounding
<1>7. ASSUME NEW boundary \in BOOLEAN, AudioISR(boundary) PROVE OffSilent' /\ (n.astray => n'.astray)
  <2>1. CASE \/ n' = [n EXCEPT !.midiVal = NOTE_OFF, !.envelopePhase = "OFF"]
             \/ n' = [n EXCEPT !.midiVal = NOTE_OFF]
    <3>1. n'.midiVal = NOTE_OFF /\ n'.astray = n.astray
      BY <2>1 DEF NoteT
    <3> QED
      BY <3>1 DEF OffSilent, Sounding, NOTE_OFF, NOTE_PENDING_OFF
  <2>2. CASE n' = [n EXCEPT !.volume = n.volumeNext]
    BY <2>2 DEF NoteT, OffSilent, Sounding
  <2> QED
    BY <1>7, <2>1, <2>2 DEF AudioISR
<1>8. CASE n' = n
  BY <1>8 DEF OffSilent, Sounding
<1> QED
  BY <1>1, <1>2, <1>3, <1>4, <1>5, <1>6, <1>7, <1>8
     DEF Next, Input, ProcessEnvelope, OffSilent

LEMMA HomeNext ==
  ASSUME HomeInv, [Next]_n
  PROVE  HomeInv' /\ NoLouder
<1>1. TypeInv /\ TypeInv' /\ OffSilent
  BY TypeStep DEF HomeInv, TypeInv
<1>2. ASSUME NEW velocity \in Velocity, NEW attack \in LevelTime, NEW buf \in Waveform,
             NoteOn(velocity, attack, buf)
      PROVE  HomeInv' /\ NoLouder
  <2>1. LevelInv' /\ NoLouder
    BY <1>1, <1>2, LevelNoteOn
  <2> QED
    BY <2>1 DEF HomeInv, LevelInv
<1>3. CASE \A velocity \in Velocity, attack \in LevelTime, buf \in Waveform :
             ~NoteOn(velocity, attack, buf)
  <2>1. OffSilent' /\ (n.astray => n'.astray)
    BY <1>1, <1>3, OffNext
  <2>2. ~n.astray => (n'.astray \/ LevelInv') /\ NoLouder
    BY LevelNext DEF HomeInv
  <2> QED
    BY <1>1, <2>1, <2>2 DEF HomeInv, NoLouder
<1> QED
  BY <1>2, <1>3

LEMMA LevelInit == Init => LevelInv /\ HomeInv
<1>. SUFFICES ASSUME Init PROVE LevelInv
  BY DEF HomeInv, LevelInv
<1>1. TypeInv
  BY TypeInit DEF TypeInv
<1>2. /\ n.midiVal = NOTE_OFF /\ n.buf = "wave" /\ n.envelopePhase = "OFF" /\ n.volIndex = 0
      /\ n.volume = 0 /\ n.volumeNext = 0
  BY DEF Init
<1>3. logVolume[0] = 0
  BY AttackAboveLog
<1> QED
  BY <1>1, <1>2, <1>3 DEF LevelInv, InRange, Heard, OffSilent, Climbing, Falling,
                          Sounding, NOTE_OFF, NOTE_PENDING_OFF

LEMMA LevelInTable == HomeInv => InTable
<1>. SUFFICES ASSUME LevelInv, Serviced PROVE
       /\ n.volIndex <= 64 /\ n.volume <= 64 /\ n.volumeNext <= 64
       /\ n.volIndexInc = 1  => n.volIndex <= n.targetVolIndex
       /\ n.volIndexInc = -1 => n.volIndex >= n.targetVolIndex
  BY DEF InTable, MAX_NOTE_VOL, HomeInv
<1>1. /\ n.volume \in 0 .. 64 /\ n.volumeNext \in 0 .. 64 /\ n.volIndex \in 0 .. 64
      /\ n.targetVolIndex \in 0 .. 64
  BY FieldTypes DEF LevelInv, InRange
<1>2. n.envelopePhase \in {"ATTACK", "DECAY", "RELEASE"}
  <2>1. n.envelopePhase \in Phase
    BY DEF LevelInv, TypeInv, NoteT
  <2> QED
    BY <2>1 DEF Serviced, LevelInv, OffSilent, Phase
<1>3. CASE n.envelopePhase = "ATTACK"
  BY <1>1, <1>3 DEF LevelInv, Climbing
<1>4. CASE n.envelopePhase \in {"DECAY", "RELEASE"}
  BY <1>1, <1>4 DEF LevelInv, Falling, AtTarget
<1> QED
  BY <1>1, <1>2, <1>3, <1>4

\* While a voice is serviced, every table is read inside its 65 entries and
\* volIndex lies on the side of its target volIndexInc leads to: for any
\* velocities, sustain levels and times, and whatever waveforms a sounding voice
\* is switched to, samples included, unless its note was released as a sample
\* (processEnvelope(), releaseNote(), setWaveform()).
THEOREM EnvelopeInTable == Spec => []InTable
<1>1. Init => HomeInv
  BY LevelInit
<1>2. HomeInv /\ [Next]_n => HomeInv'
  BY HomeNext
<1>3. HomeInv => InTable
  BY LevelInTable
<1> QED
  BY <1>1, <1>2, <1>3, PTL DEF Spec

\* A note that decays or was released never gets louder, whatever volume the
\* audio ISR had taken over and whatever waveforms the note goes through, unless
\* it was released as a sample (inverseLogVolume[]).
THEOREM EnvelopeNeverSwells == Spec => NeverSwells
<1>1. Init => HomeInv
  BY LevelInit
<1>2. HomeInv /\ [Next]_n => HomeInv' /\ [NoLouder]_n
  BY HomeNext
<1>3. HomeInv /\ [Next]_n => HomeInv'
  BY <1>2
<1>4. Spec => [][NoLouder]_n
  BY <1>1, <1>2, <1>3, PTL DEF Spec
<1> QED
  BY <1>4 DEF NeverSwells, NoLouder
-----------------------------------------------------------------------------
(* The refinement of VoiceEnvelope, the abstract voice the other modules   *)
(* are built from: for any velocities, settings and table overruns, samples*)
(* included.                                                               *)

\* processEnvelope() looks at volIndexInc only where doNoteOn() or a fade has
\* set it: the attack always leads upwards.
AttackUp == n.envelopePhase = "ATTACK" => n.volIndexInc = 1

StepsInv == TypeInv /\ AttackUp

\* the number of level changes to the target, round the byte
StepsTo(t, v, inc) == ((t - v) * inc) % 256
OneStep(v, inc)    == (v + inc) % 256

LEMMA StepsRange ==
  ASSUME NEW t \in Index, NEW v \in Byte, NEW inc \in Inc
  PROVE  StepsTo(t, v, inc) \in Byte
BY Numbers DEF StepsTo

LEMMA StepsLeft ==
  ASSUME NEW t \in Index, NEW v \in Byte, NEW inc \in Inc, v # t
  PROVE  StepsTo(t, v, inc) # 0
<1>1. CASE inc = 1
  BY <1>1, Numbers DEF StepsTo
<1>2. CASE inc = -1
  BY <1>2, Numbers DEF StepsTo
<1> QED
  BY <1>1, <1>2, Numbers

LEMMA NoStepsLeft ==
  ASSUME NEW t \in Index, NEW inc \in Inc
  PROVE  StepsTo(t, t, inc) = 0
BY Numbers DEF StepsTo

LEMMA StepsLess ==
  ASSUME NEW t \in Index, NEW v \in Byte, NEW inc \in Inc, v # t
  PROVE  StepsTo(t, OneStep(v, inc), inc) = StepsTo(t, v, inc) - 1
<1>1. CASE inc = 1
  BY <1>1, Numbers DEF StepsTo, OneStep
<1>2. CASE inc = -1
  BY <1>2, Numbers DEF StepsTo, OneStep
<1> QED
  BY <1>1, <1>2, Numbers

LEMMA LevelFields ==
  ASSUME TypeInv
  PROVE  n.volIndex \in Byte /\ n.targetVolIndex \in Index /\ n.volIndexInc \in Inc
BY DEF TypeInv, NoteT

LEMMA UpInit == Init => StepsInv
BY TypeInit DEF Init, StepsInv, TypeInv, AttackUp

LEMMA UpNext == StepsInv /\ [Next]_n => StepsInv'
<1>. SUFFICES ASSUME StepsInv, [Next]_n PROVE AttackUp'
  BY TypeStep DEF StepsInv, TypeInv
<1>. n \in NoteT /\ AttackUp
  BY DEF StepsInv, TypeInv
<1>1. ASSUME NEW velocity \in Velocity, NEW attack \in LevelTime, NEW buf \in Waveform,
             NoteOn(velocity, attack, buf)
      PROVE  n'.volIndexInc = 1
  <2>1. PICK start \in Index, target \in Index :
          n' = [ midiVal |-> PLAYED, buf |-> buf, envelopePhase |-> "ATTACK",
                 volIndex |-> start, volIndexInc |-> 1, volLevelDuration |-> attack,
                 targetVolIndex |-> target,
                 volume |-> logVolume[start], volumeNext |-> logVolume[start],
                 astray |-> FALSE ]
    BY <1>1, NewNote, Zenon
  <2> QED
    BY <2>1
<1>2. ASSUME NEW release \in LevelTime, ReleaseNote(release)
      PROVE  n'.envelopePhase = "RELEASE"
  BY <1>2 DEF ReleaseNote, NoteT
<1>3. ASSUME NEW sustain \in Sustain, NEW decay \in LevelTime, EndAttack(sustain, decay)
      PROVE  n'.envelopePhase \in {"SUSTAIN", "DECAY"}
  BY <1>3 DEF EndAttack, NoteT
<1>4. CASE StopNote \/ Stopped \/ \E buf \in Waveform : SetWaveform(buf)
  BY <1>4 DEF StopNote, Stopped, SetWaveform, NoteT, AttackUp
<1>5. CASE EndDecayOrRelease
  BY <1>5 DEF EndDecayOrRelease, NoteT, AttackUp
<1>6. CASE CutRelease
  BY <1>6 DEF CutRelease, NoteT, AttackUp
<1>7. CASE StepLevel
  <2>. DEFINE i == (n.volIndex + n.volIndexInc) % 256
              contour == IF n.envelopePhase = "ATTACK" THEN attackLogVolume ELSE logVolume
  <2>1. PICK v \in Read(contour, i) : n' = [n EXCEPT !.volIndex = i, !.volumeNext = v]
    BY <1>7 DEF StepLevel
  <2>. HIDE DEF i
  <2> QED
    BY <2>1 DEF NoteT, AttackUp
<1>8. ASSUME NEW boundary \in BOOLEAN, AudioISR(boundary) PROVE AttackUp'
  BY <1>8 DEF AudioISR, NoteT, AttackUp
<1>9. CASE n' = n
  BY <1>9 DEF AttackUp
<1> QED
  BY <1>1, <1>2, <1>3, <1>4, <1>5, <1>6, <1>7, <1>8, <1>9
     DEF Next, Input, ProcessEnvelope, AttackUp
-----------------------------------------------------------------------------
(* The operators of Voices on a view *)

\* A view of the abstract voice, field by field
ViewOf(m, b, p, s, f) ==
  [midiVal |-> m, buf |-> b, envelopePhase |-> p, steps |-> s, fades |-> f]

LEMMA AbstractNoteOn ==
  ASSUME NEW w, NEW buf, NEW levels
  PROVE  VE!View(VE!DoNoteOn(VE!Full(w), 1, PLAYED, buf, 0, levels, FALSE))
           = ViewOf(PLAYED, buf, "ATTACK", IF buf = "sample" THEN 0 ELSE levels, FALSE)
BY DEF VE!View, VE!DoNoteOn, VE!InitNote, VE!Full, VE!SilentNote, ViewOf

LEMMA AbstractFields ==
  ASSUME NEW w
  PROVE  /\ VE!Full(w).midiVal = w.midiVal /\ VE!Full(w).buf = w.buf
         /\ VE!Full(w).envelopePhase = w.envelopePhase /\ VE!Full(w).steps = w.steps
         /\ VE!Full(w).fades = w.fades /\ VE!Full(w).phaseInc = TRUE
BY DEF VE!Full, VE!SilentNote

LEMMA AbstractRelease ==
  ASSUME NEW w, NEW levels
  PROVE  VE!View(VE!ReleaseNote(VE!Full(w), levels, FALSE))
           = IF w.buf = "sample" THEN ViewOf(w.midiVal, w.buf, "RELEASE", w.steps, w.fades)
             ELSE ViewOf(w.midiVal, w.buf, "RELEASE", levels, TRUE)
BY DEF VE!View, VE!ReleaseNote, VE!IsSample, VE!Full, VE!SilentNote, ViewOf

LEMMA AbstractEnvelope ==
  ASSUME NEW w, NEW knob, NEW levels, w.buf # "sample", w.envelopePhase # "SUSTAIN"
  PROVE  VE!View(VE!ProcessEnvelope(VE!Full(w), TRUE, knob, levels))
           = VE!View(VE!EnvelopeStep(VE!Full(w), knob, levels))
BY AbstractFields DEF VE!ProcessEnvelope, VE!IsSample

LEMMA AbstractLevel ==
  ASSUME NEW w, NEW levels, w.buf # "sample", w.envelopePhase # "SUSTAIN",
         w.steps \in Nat, w.steps > 0
  PROVE  VE!View(VE!ProcessEnvelope(VE!Full(w), TRUE, "some", levels))
           = ViewOf(w.midiVal, w.buf, w.envelopePhase, w.steps - 1, w.fades)
BY DEF VE!ProcessEnvelope, VE!IsSample, VE!EnvelopeStep, VE!View, VE!Full, VE!SilentNote, ViewOf

LEMMA AbstractCut ==
  ASSUME NEW w, NEW levels, w.buf # "sample", w.envelopePhase = "RELEASE",
         w.steps \in Nat, w.steps > 0
  PROVE  VE!View(VE!ProcessEnvelope(VE!Full(w), TRUE, "zero", levels))
           = ViewOf(w.midiVal, w.buf, "RELEASE", IF w.fades THEN 0 ELSE levels, w.fades)
<1>. DEFINE full == VE!Full(w)
            left == IF w.fades THEN 0 ELSE levels
<1>1. VE!ProcessEnvelope(full, TRUE, "zero", levels) = [full EXCEPT !.steps = left]
  BY AbstractFields DEF VE!ProcessEnvelope, VE!IsSample, VE!EnvelopeStep
<1>. HIDE DEF left
<1>2. VE!View([full EXCEPT !.steps = left])
        = ViewOf(w.midiVal, w.buf, w.envelopePhase, left, w.fades)
  BY DEF VE!View, VE!Full, VE!SilentNote, ViewOf
<1> QED
  BY <1>1, <1>2 DEF left

LEMMA AbstractEndAttack ==
  ASSUME NEW w, NEW levels, NEW knob, w.buf # "sample", w.envelopePhase = "ATTACK", w.steps = 0
  PROVE  VE!View(VE!ProcessEnvelope(VE!Full(w), TRUE, knob, levels))
           = ViewOf(w.midiVal, w.buf, IF knob = "full" THEN "SUSTAIN" ELSE "DECAY",
                    levels, knob = "zero")
<1>. DEFINE full  == VE!Full(w)
            phase == IF knob = "full" THEN "SUSTAIN" ELSE "DECAY"
            fade  == knob = "zero"
<1>1. VE!ProcessEnvelope(full, TRUE, knob, levels)
        = [full EXCEPT !.envelopePhase = phase, !.steps = levels, !.fades = fade]
  <2>1. full.buf # "sample" /\ full.envelopePhase = "ATTACK" /\ ~(full.steps > 0)
    <3>1. full.buf = w.buf /\ full.envelopePhase = w.envelopePhase /\ full.steps = w.steps
      BY AbstractFields
    <3>. HIDE DEF full
    <3>2. full.steps = 0
      BY <3>1
    <3> QED
      BY <3>1, <3>2
  <2>. HIDE DEF full
  <2>2. VE!ProcessEnvelope(full, TRUE, knob, levels) = VE!EnvelopeStep(full, knob, levels)
    BY <2>1 DEF VE!ProcessEnvelope, VE!IsSample
  <2>3. VE!EnvelopeStep(full, knob, levels)
          = [full EXCEPT !.envelopePhase = phase, !.steps = levels, !.fades = fade]
    BY <2>1, Zenon DEF VE!EnvelopeStep
  <2> QED
    BY <2>2, <2>3
<1>. HIDE DEF phase, fade
<1>2. VE!View([full EXCEPT !.envelopePhase = phase, !.steps = levels, !.fades = fade])
        = ViewOf(w.midiVal, w.buf, phase, levels, fade)
  BY DEF VE!View, VE!Full, VE!SilentNote, ViewOf
<1> QED
  BY <1>1, <1>2 DEF phase, fade

LEMMA AbstractEnd ==
  ASSUME NEW w, NEW levels, NEW knob, w.buf # "sample", w.steps = 0,
         w.envelopePhase \in {"DECAY", "RELEASE"}
  PROVE  VE!View(VE!ProcessEnvelope(VE!Full(w), TRUE, knob, levels))
           = IF w.envelopePhase = "DECAY"
             THEN ViewOf(w.midiVal, w.buf, "SUSTAIN", 0, w.fades)
             ELSE ViewOf(NOTE_PENDING_OFF, w.buf, "OFF", 0, w.fades)
BY DEF VE!ProcessEnvelope, VE!IsSample, VE!EnvelopeStep, VE!View, VE!Full, VE!SilentNote, ViewOf,
       VE!NOTE_PENDING_OFF, NOTE_PENDING_OFF

LEMMA AbstractAudio ==
  ASSUME NEW w, w.midiVal = NOTE_PENDING_OFF \/ (w.buf = "sample" /\ w.midiVal # NOTE_OFF),
         w.buf \in {"wave", "noise", "sample"}
  PROVE  VE!View(VE!AudioStep(VE!Full(w), TRUE))
           = ViewOf(NOTE_OFF, w.buf, IF w.buf = "sample" THEN "OFF" ELSE w.envelopePhase,
                    w.steps, w.fades)
<1>. DEFINE full == VE!Full(w)
            phase == IF w.buf = "sample" THEN "OFF" ELSE w.envelopePhase
<1>1. /\ full.midiVal = w.midiVal /\ full.buf = w.buf /\ full.envelopePhase = w.envelopePhase
      /\ full.phaseInc = TRUE
  BY AbstractFields
<1>2. VE!AudioStep(full, TRUE) = [full EXCEPT !.midiVal = NOTE_OFF, !.envelopePhase = phase]
  <2>. HIDE DEF full
  <2>1. full.midiVal # NOTE_OFF
    BY <1>1 DEF NOTE_OFF, NOTE_PENDING_OFF
  <2>2. VE!Moving(full)
    BY <1>1 DEF VE!Moving
  <2> QED
    BY <1>1, <2>1, <2>2 DEF VE!AudioStep, VE!IsSample, VE!NOTE_OFF, VE!NOTE_PENDING_OFF, NOTE_OFF,
                            NOTE_PENDING_OFF
<1>. HIDE DEF phase
<1>3. VE!View([full EXCEPT !.midiVal = NOTE_OFF, !.envelopePhase = phase])
        = ViewOf(NOTE_OFF, w.buf, phase, w.steps, w.fades)
  BY DEF VE!View, VE!Full, VE!SilentNote, ViewOf
<1> QED
  BY <1>2, <1>3 DEF phase

LEMMA AbstractOthers ==
  ASSUME NEW w, NEW buf
  PROVE  /\ VE!View(VE!ChangeBuf(VE!Full(w), buf, FALSE))
              = ViewOf(w.midiVal, buf, w.envelopePhase, w.steps, w.fades)
         /\ VE!View([VE!Full(w) EXCEPT !.midiVal = NOTE_PENDING_OFF])
              = ViewOf(NOTE_PENDING_OFF, w.buf, w.envelopePhase, w.steps, w.fades)
         /\ VE!View([VE!Full(w) EXCEPT !.envelopePhase = "OFF"])
              = ViewOf(w.midiVal, w.buf, "OFF", w.steps, w.fades)
BY DEF VE!ChangeBuf, VE!View, VE!Full, VE!SilentNote, ViewOf
-----------------------------------------------------------------------------
(* Every step *)

Steps == StepsTo(n.targetVolIndex, n.volIndex, n.volIndexInc)

LEMMA AbstractView ==
  /\ absNote = ViewOf(n.midiVal, n.buf, n.envelopePhase, Steps, Fades)
  /\ absNote.midiVal = n.midiVal /\ absNote.buf = n.buf
  /\ absNote.envelopePhase = n.envelopePhase /\ absNote.steps = Steps /\ absNote.fades = Fades
BY DEF absNote, ViewOf, Steps, Fades, StepsTo

LEMMA AbstractViewNext ==
  /\ absNote' = ViewOf(n'.midiVal, n'.buf, n'.envelopePhase, Steps', Fades')
  /\ absNote'.steps = Steps' /\ absNote'.buf = n'.buf
BY DEF absNote, ViewOf, Steps, Fades, StepsTo

LEMMA StepsType ==
  ASSUME TypeInv
  PROVE  Steps \in 0 .. 255 /\ (Steps = 0 <=> AtTarget)
<1>1. n.volIndex \in Byte /\ n.targetVolIndex \in Index /\ n.volIndexInc \in Inc
  BY LevelFields
<1>2. Steps \in Byte
  BY <1>1, StepsRange, Zenon DEF Steps
<1>3. n.volIndex # n.targetVolIndex => Steps # 0
  BY <1>1, StepsLeft, Zenon DEF Steps
<1>4. n.volIndex = n.targetVolIndex => Steps = 0
  <2>1. StepsTo(n.targetVolIndex, n.targetVolIndex, n.volIndexInc) = 0
    BY <1>1, NoStepsLeft, Zenon
  <2> QED
    BY <2>1 DEF Steps
<1> QED
  BY <1>2, <1>3, <1>4, Numbers DEF AtTarget

\* How the abstract voice moves, for some number of levels.
LEMMA Moves ==
  ASSUME absNote'.steps \in 0 .. 255, absNote'.buf \in {"wave", "noise", "sample"},
         LET levels == absNote'.steps
             buf    == absNote'.buf
             full   == VE!Full(absNote)
         IN  \/ absNote' = VE!View(VE!DoNoteOn(full, 1, PLAYED, buf, 0, levels, FALSE))
             \/ Sounding /\ absNote' = VE!View(VE!ReleaseNote(full, levels, FALSE))
             \/ Sounding /\ \E knob \in {"zero", "some", "full"} :
                  absNote' = VE!View(VE!ProcessEnvelope(full, TRUE, knob, levels))
             \/ Sounding /\ absNote' = VE!View([full EXCEPT !.midiVal = NOTE_PENDING_OFF])
             \/ n.midiVal = NOTE_OFF /\ absNote' = VE!View([full EXCEPT !.envelopePhase = "OFF"])
             \/ absNote' = VE!View(VE!ChangeBuf(full, buf, FALSE))
             \/ absNote' = VE!View(VE!AudioStep(full, TRUE))
  PROVE  VE!Next
<1>1. VE!Full(absNote).midiVal = n.midiVal
  BY AbstractFields, AbstractView
<1>2. VE!Sounding(VE!Full(absNote)) <=> Sounding
  BY <1>1 DEF VE!Sounding, Sounding, VE!NOTE_PENDING_OFF, NOTE_PENDING_OFF
<1>3. VE!Played = PLAYED
  BY DEF VE!Played
<1> QED
  BY <1>1, <1>2, <1>3 DEF VE!Next, VE!Buf, VE!Knob, VE!NOTE_OFF, VE!NOTE_PENDING_OFF,
                          NOTE_OFF, NOTE_PENDING_OFF

LEMMA StepsTypeNext ==
  ASSUME TypeInv'
  PROVE  /\ absNote'.steps \in 0 .. 255 /\ Steps' \in 0 .. 255 /\ (Steps' = 0 <=> AtTarget')
         /\ absNote'.buf \in {"wave", "noise", "sample"}
<1>1. (TypeInv => Steps \in 0 .. 255 /\ (Steps = 0 <=> AtTarget))'
  BY StepsType, PTL
<1>2. n'.buf \in Kind
  BY DEF TypeInv, NoteT
<1> QED
  BY <1>1, <1>2, AbstractViewNext DEF Kind

\* The levels are left alone.
LEMMA StepsKept ==
  ASSUME n'.volIndex = n.volIndex, n'.targetVolIndex = n.targetVolIndex,
         n'.volIndexInc = n.volIndexInc
  PROVE  absNote' = ViewOf(n'.midiVal, n'.buf, n'.envelopePhase, absNote.steps, absNote.fades)
BY AbstractView, AbstractViewNext DEF Steps, Fades

LEMMA MovesNoteOn ==
  ASSUME TypeInv', NEW velocity \in Velocity, NEW attack \in LevelTime, NEW buf \in Waveform,
         NoteOn(velocity, attack, buf)
  PROVE  VE!Next
<1>. DEFINE levels == absNote'.steps
<1>1. PICK start \in Index, target \in Index :
        /\ n' = [ midiVal |-> PLAYED, buf |-> buf, envelopePhase |-> "ATTACK",
                  volIndex |-> start, volIndexInc |-> 1, volLevelDuration |-> attack,
                  targetVolIndex |-> target,
                  volume |-> logVolume[start], volumeNext |-> logVolume[start],
                  astray |-> FALSE ]
        /\ start = target \/ (start = 0 /\ buf # "sample")
  BY NewNote, Zenon
<1>2. /\ n'.midiVal = PLAYED /\ n'.buf = buf /\ n'.envelopePhase = "ATTACK"
      /\ n'.volIndex = start /\ n'.volIndexInc = 1 /\ n'.targetVolIndex = target
  BY <1>1
<1>3. Fades' = FALSE
  BY <1>2 DEF Fades
<1>4. absNote' = ViewOf(PLAYED, buf, "ATTACK", levels, FALSE)
  BY <1>2, <1>3, AbstractViewNext
<1>5. buf = "sample" => levels = 0
  BY <1>1, <1>2, StepsTypeNext, AbstractViewNext DEF AtTarget
<1>6. levels = IF buf = "sample" THEN 0 ELSE levels
  BY <1>5
<1>7. absNote' = VE!View(VE!DoNoteOn(VE!Full(absNote), 1, PLAYED, buf, 0, levels, FALSE))
  BY <1>4, <1>6, AbstractNoteOn
<1>8. absNote'.buf = buf
  BY <1>2, AbstractViewNext
<1> QED
  BY <1>7, <1>8, StepsTypeNext, Moves

LEMMA MovesRelease ==
  ASSUME TypeInv, TypeInv', NEW release \in LevelTime, ReleaseNote(release)
  PROVE  VE!Next
<1>. DEFINE levels == absNote'.steps
<1>1. n \in NoteT /\ Sounding
  BY DEF TypeInv, ReleaseNote
<1>2. CASE IsSample /\ n' = [n EXCEPT !.envelopePhase = "RELEASE", !.astray = @ \/ ~Fades]
  <2>1. /\ n'.midiVal = n.midiVal /\ n'.buf = n.buf /\ n'.envelopePhase = "RELEASE"
        /\ n'.volIndex = n.volIndex /\ n'.targetVolIndex = n.targetVolIndex
        /\ n'.volIndexInc = n.volIndexInc
    BY <1>1, <1>2 DEF NoteT
  <2>2. absNote' = ViewOf(n.midiVal, n.buf, "RELEASE", absNote.steps, absNote.fades)
    BY <2>1, StepsKept
  <2>3. absNote' = VE!View(VE!ReleaseNote(VE!Full(absNote), levels, FALSE))
    BY <1>2, <2>2, AbstractRelease, AbstractView DEF IsSample
  <2> QED
    BY <1>1, <2>3, StepsTypeNext, Moves
<1>3. CASE /\ ~IsSample
           /\ n'.midiVal = n.midiVal /\ n'.buf = n.buf /\ n'.envelopePhase = "RELEASE"
           /\ n'.targetVolIndex = 0 /\ n'.volIndexInc = -1
  <2>1. Fades' = TRUE
    BY <1>3 DEF Fades
  <2>2. absNote' = ViewOf(n.midiVal, n.buf, "RELEASE", levels, TRUE)
    BY <1>3, <2>1, AbstractViewNext
  <2>3. absNote' = VE!View(VE!ReleaseNote(VE!Full(absNote), levels, FALSE))
    BY <1>3, <2>2, AbstractRelease, AbstractView DEF IsSample
  <2> QED
    BY <1>1, <2>3, StepsTypeNext, Moves
<1>4. CASE /\ ~IsSample
           /\ n' = [n EXCEPT !.envelopePhase = "RELEASE", !.volIndexInc = -1,
                             !.targetVolIndex = 0, !.volLevelDuration = release]
  BY <1>1, <1>3, <1>4 DEF NoteT
<1>5. ASSUME ~IsSample, NEW i, NEW v,
             n' = [n EXCEPT !.envelopePhase = "RELEASE", !.volIndexInc = -1,
                            !.targetVolIndex = 0, !.volLevelDuration = release,
                            !.volIndex = i, !.volume = v, !.volumeNext = v]
      PROVE  VE!Next
  BY <1>1, <1>3, <1>5 DEF NoteT
<1> QED
  BY <1>2, <1>4, <1>5 DEF ReleaseNote

LEMMA MovesEndAttack ==
  ASSUME StepsInv, TypeInv', NEW sustain \in Sustain, NEW decay \in LevelTime,
         EndAttack(sustain, decay)
  PROVE  VE!Next
<1>. DEFINE level  == Share(sustain, n.targetVolIndex)
            levels == absNote'.steps
            full   == VE!Full(absNote)
<1>1. /\ n \in NoteT /\ Sounding /\ n.buf # "sample" /\ n.envelopePhase = "ATTACK"
      /\ AtTarget /\ n.volIndexInc = 1
  BY DEF StepsInv, TypeInv, EndAttack, Serviced, IsSample, AttackUp
<1>2. PICK i \in Read(inverseLogVolume, n.volume) :
        n' = IF sustain = 1000
             THEN [n EXCEPT !.envelopePhase = "SUSTAIN", !.volIndex = i]
             ELSE [n EXCEPT !.envelopePhase = "DECAY",
                            !.volIndex = IF level > i THEN level ELSE i,
                            !.targetVolIndex = level, !.volIndexInc = -1,
                            !.volLevelDuration = decay]
  BY DEF EndAttack, Share
<1>. HIDE DEF level
<1>3. absNote.buf # "sample" /\ absNote.envelopePhase = "ATTACK" /\ absNote.steps = 0
  BY <1>1, AbstractView, StepsType DEF StepsInv
<1>4. ASSUME NEW knob
      PROVE  VE!View(VE!ProcessEnvelope(full, TRUE, knob, levels))
               = ViewOf(n.midiVal, n.buf, IF knob = "full" THEN "SUSTAIN" ELSE "DECAY",
                        levels, knob = "zero")
  <2>1. absNote.midiVal = n.midiVal /\ absNote.buf = n.buf
    BY AbstractView
  <2>. HIDE DEF levels
  <2>2. VE!View(VE!ProcessEnvelope(VE!Full(absNote), TRUE, knob, levels))
          = ViewOf(absNote.midiVal, absNote.buf,
                   IF knob = "full" THEN "SUSTAIN" ELSE "DECAY", levels, knob = "zero")
    BY <1>3, AbstractEndAttack, Zenon
  <2> QED
    BY <2>1, <2>2, Zenon
<1>5. CASE sustain = 1000
  <2>1. n' = [n EXCEPT !.envelopePhase = "SUSTAIN", !.volIndex = i]
    BY <1>2, <1>5
  <2>2. /\ n'.midiVal = n.midiVal /\ n'.buf = n.buf /\ n'.envelopePhase = "SUSTAIN"
        /\ n'.volIndexInc = 1
    BY <1>1, <2>1 DEF NoteT
  <2>3. Fades' = FALSE
    BY <2>2 DEF Fades
  <2>4. absNote' = ViewOf(n.midiVal, n.buf, "SUSTAIN", levels, FALSE)
    BY <2>2, <2>3, AbstractViewNext
  <2>5. absNote' = VE!View(VE!ProcessEnvelope(full, TRUE, "full", levels))
    <3>1. ("full" = "zero") = FALSE
      OBVIOUS
    <3> QED
      BY <1>4, <2>4, <3>1
  <2> QED
    BY <1>1, <2>5, StepsTypeNext, Moves
<1>6. CASE sustain # 1000
  <2>. DEFINE higher == IF level > i THEN level ELSE i
              knob   == IF level = 0 THEN "zero" ELSE "some"
  <2>1. n' = [n EXCEPT !.envelopePhase = "DECAY", !.volIndex = higher,
                       !.targetVolIndex = level, !.volIndexInc = -1,
                       !.volLevelDuration = decay]
    BY <1>2, <1>6
  <2>. HIDE DEF higher
  <2>2. /\ n'.midiVal = n.midiVal /\ n'.buf = n.buf /\ n'.envelopePhase = "DECAY"
        /\ n'.targetVolIndex = level /\ n'.volIndexInc = -1
    BY <1>1, <2>1 DEF NoteT
  <2>3. Fades' = (knob = "zero")
    BY <2>2 DEF Fades
  <2>4. knob # "full" /\ knob \in {"zero", "some", "full"}
    OBVIOUS
  <2>. HIDE DEF knob
  <2>5. absNote' = ViewOf(n.midiVal, n.buf, "DECAY", levels, knob = "zero")
    BY <2>2, <2>3, AbstractViewNext
  <2>6. absNote' = VE!View(VE!ProcessEnvelope(full, TRUE, knob, levels))
    BY <1>4, <2>4, <2>5
  <2> QED
    BY <1>1, <2>4, <2>6, StepsTypeNext, Moves
<1> QED
  BY <1>5, <1>6

LEMMA MovesProcessEnvelope ==
  ASSUME StepsInv, TypeInv', EndDecayOrRelease \/ CutRelease \/ StepLevel
  PROVE  VE!Next
<1>. DEFINE levels == absNote'.steps
            full   == VE!Full(absNote)
<1>1. /\ n \in NoteT /\ Sounding /\ n.buf # "sample" /\ n.envelopePhase # "SUSTAIN"
      /\ absNote.buf # "sample" /\ absNote.envelopePhase # "SUSTAIN"
  BY AbstractView
     DEF StepsInv, TypeInv, EndDecayOrRelease, CutRelease, StepLevel, Serviced, IsSample
<1>2. absNote.steps \in 0 .. 255 /\ (absNote.steps = 0 <=> AtTarget)
  BY StepsType, AbstractView DEF StepsInv
<1>3. CASE EndDecayOrRelease
  <2>1. absNote.steps = 0 /\ absNote.envelopePhase \in {"DECAY", "RELEASE"}
    BY <1>2, <1>3, AbstractView DEF EndDecayOrRelease
  <2>2. VE!View(VE!ProcessEnvelope(full, TRUE, "some", levels))
          = IF n.envelopePhase = "DECAY"
            THEN ViewOf(n.midiVal, n.buf, "SUSTAIN", 0, absNote.fades)
            ELSE ViewOf(NOTE_PENDING_OFF, n.buf, "OFF", 0, absNote.fades)
    BY <1>1, <2>1, AbstractEnd, AbstractView
  <2>3. CASE n.envelopePhase = "DECAY" /\ n' = [n EXCEPT !.envelopePhase = "SUSTAIN"]
    <3>1. /\ n'.midiVal = n.midiVal /\ n'.buf = n.buf /\ n'.envelopePhase = "SUSTAIN"
          /\ n'.volIndex = n.volIndex /\ n'.targetVolIndex = n.targetVolIndex
          /\ n'.volIndexInc = n.volIndexInc
      BY <1>1, <2>3 DEF NoteT
    <3>2. absNote' = VE!View(VE!ProcessEnvelope(full, TRUE, "some", levels))
      BY <2>1, <2>2, <2>3, <3>1, StepsKept
    <3> QED
      BY <1>1, <3>2, StepsTypeNext, Moves
  <2>4. CASE /\ n.envelopePhase = "RELEASE"
             /\ n' = [n EXCEPT !.midiVal = NOTE_PENDING_OFF, !.envelopePhase = "OFF"]
    <3>1. /\ n'.midiVal = NOTE_PENDING_OFF /\ n'.buf = n.buf /\ n'.envelopePhase = "OFF"
          /\ n'.volIndex = n.volIndex /\ n'.targetVolIndex = n.targetVolIndex
          /\ n'.volIndexInc = n.volIndexInc
      BY <1>1, <2>4 DEF NoteT
    <3>2. absNote' = VE!View(VE!ProcessEnvelope(full, TRUE, "some", levels))
      BY <2>1, <2>2, <2>4, <3>1, StepsKept
    <3> QED
      BY <1>1, <3>2, StepsTypeNext, Moves
  <2> QED
    BY <1>3, <2>3, <2>4 DEF EndDecayOrRelease
<1>4. CASE CutRelease
  <2>1. absNote.steps \in Nat /\ absNote.steps > 0 /\ absNote.envelopePhase = "RELEASE"
    BY <1>2, <1>4, AbstractView DEF CutRelease
  <2>2. n' = [n EXCEPT !.volIndex = 0, !.volumeNext = 0]
    BY <1>4 DEF CutRelease
  <2>3. /\ n'.midiVal = n.midiVal /\ n'.buf = n.buf /\ n'.envelopePhase = n.envelopePhase
        /\ n'.volIndex = 0 /\ n'.targetVolIndex = n.targetVolIndex
        /\ n'.volIndexInc = n.volIndexInc
    BY <1>1, <2>2 DEF NoteT
  <2>4. Fades' = absNote.fades
    BY <2>3, AbstractView DEF Fades
  <2>5. absNote.fades => levels = 0
    BY <2>3, AbstractView, AbstractViewNext, StepsTypeNext DEF Fades, AtTarget
  <2>6. absNote' = ViewOf(n.midiVal, n.buf, "RELEASE", levels, absNote.fades)
    BY <2>1, <2>3, <2>4, AbstractView, AbstractViewNext
  <2>7. VE!View(VE!ProcessEnvelope(full, TRUE, "zero", levels))
          = ViewOf(n.midiVal, n.buf, "RELEASE", IF absNote.fades THEN 0 ELSE levels,
                   absNote.fades)
    BY <1>1, <2>1, AbstractCut, AbstractView
  <2>8. levels = IF absNote.fades THEN 0 ELSE levels
    BY <2>5
  <2>9. absNote' = VE!View(VE!ProcessEnvelope(full, TRUE, "zero", levels))
    BY <2>6, <2>7, <2>8
  <2> QED
    BY <1>1, <2>9, StepsTypeNext, Moves
<1>5. CASE StepLevel
  <2>. DEFINE i == (n.volIndex + n.volIndexInc) % 256
              contour == IF n.envelopePhase = "ATTACK" THEN attackLogVolume ELSE logVolume
  <2>1. absNote.steps \in Nat /\ absNote.steps > 0 /\ ~AtTarget
    <3>1. ~AtTarget
      BY <1>5 DEF StepLevel
    <3> QED
      BY <1>2, <3>1
  <2>2. PICK v \in Read(contour, i) : n' = [n EXCEPT !.volIndex = i, !.volumeNext = v]
    BY <1>5 DEF StepLevel
  <2>. HIDE DEF i
  <2>3. /\ n'.midiVal = n.midiVal /\ n'.buf = n.buf /\ n'.envelopePhase = n.envelopePhase
        /\ n'.volIndex = i /\ n'.targetVolIndex = n.targetVolIndex
        /\ n'.volIndexInc = n.volIndexInc
    BY <1>1, <2>2 DEF NoteT
  <2>4. Fades' = absNote.fades
    BY <2>3, AbstractView DEF Fades
  <2>5. levels = absNote.steps - 1
    <3>1. StepsTo(n.targetVolIndex, i, n.volIndexInc)
            = StepsTo(n.targetVolIndex, n.volIndex, n.volIndexInc) - 1
      <4>1. n.targetVolIndex # n.volIndex
        BY <2>1 DEF AtTarget
      <4>2. StepsTo(n.targetVolIndex, OneStep(n.volIndex, n.volIndexInc), n.volIndexInc)
              = StepsTo(n.targetVolIndex, n.volIndex, n.volIndexInc) - 1
        BY <4>1, LevelFields, StepsLess, Zenon DEF StepsInv
      <4> QED
        BY <4>2 DEF i, OneStep
    <3>2. Steps' = StepsTo(n.targetVolIndex, i, n.volIndexInc)
      BY <2>3 DEF Steps
    <3>3. levels = Steps' /\ absNote.steps = StepsTo(n.targetVolIndex, n.volIndex, n.volIndexInc)
      BY AbstractView, AbstractViewNext DEF Steps
    <3> QED
      BY <3>1, <3>2, <3>3
  <2>6. absNote' = ViewOf(n.midiVal, n.buf, n.envelopePhase, levels, absNote.fades)
    BY <2>3, <2>4, AbstractViewNext
  <2>7. VE!View(VE!ProcessEnvelope(full, TRUE, "some", levels))
          = ViewOf(n.midiVal, n.buf, n.envelopePhase, absNote.steps - 1, absNote.fades)
    BY <1>1, <2>1, AbstractLevel, AbstractView
  <2>8. absNote' = VE!View(VE!ProcessEnvelope(full, TRUE, "some", levels))
    BY <2>5, <2>6, <2>7
  <2> QED
    BY <1>1, <2>8, StepsTypeNext, Moves
<1> QED
  BY <1>3, <1>4, <1>5

LEMMA MovesAudioISR ==
  ASSUME TypeInv, TypeInv', NEW boundary \in BOOLEAN, AudioISR(boundary)
  PROVE  VE!Next \/ absNote' = absNote
<1>1. n \in NoteT /\ n.midiVal # NOTE_OFF /\ n.buf \in {"wave", "noise", "sample"}
  BY DEF TypeInv, AudioISR, NoteT, Kind
<1>2. CASE IsSample /\ n' = [n EXCEPT !.midiVal = NOTE_OFF, !.envelopePhase = "OFF"]
  <2>1. /\ n'.midiVal = NOTE_OFF /\ n'.buf = n.buf /\ n'.envelopePhase = "OFF"
        /\ n'.volIndex = n.volIndex /\ n'.targetVolIndex = n.targetVolIndex
        /\ n'.volIndexInc = n.volIndexInc
    BY <1>1, <1>2 DEF NoteT
  <2>2. absNote' = ViewOf(NOTE_OFF, n.buf, "OFF", absNote.steps, absNote.fades)
    BY <2>1, StepsKept
  <2>3. absNote' = VE!View(VE!AudioStep(VE!Full(absNote), TRUE))
    BY <1>1, <1>2, <2>2, AbstractAudio, AbstractView DEF IsSample
  <2> QED
    BY <2>3, StepsTypeNext, Moves
<1>3. CASE ~IsSample /\ n.midiVal = NOTE_PENDING_OFF /\ n' = [n EXCEPT !.midiVal = NOTE_OFF]
  <2>1. /\ n'.midiVal = NOTE_OFF /\ n'.buf = n.buf /\ n'.envelopePhase = n.envelopePhase
        /\ n'.volIndex = n.volIndex /\ n'.targetVolIndex = n.targetVolIndex
        /\ n'.volIndexInc = n.volIndexInc
    BY <1>1, <1>3 DEF NoteT
  <2>2. absNote' = ViewOf(NOTE_OFF, n.buf, n.envelopePhase, absNote.steps, absNote.fades)
    BY <2>1, StepsKept
  <2>3. absNote' = VE!View(VE!AudioStep(VE!Full(absNote), TRUE))
    BY <1>1, <1>3, <2>2, AbstractAudio, AbstractView DEF IsSample
  <2> QED
    BY <2>3, StepsTypeNext, Moves
<1>4. CASE n' = [n EXCEPT !.volume = n.volumeNext]
  <2>1. /\ n'.midiVal = n.midiVal /\ n'.buf = n.buf /\ n'.envelopePhase = n.envelopePhase
        /\ n'.volIndex = n.volIndex /\ n'.targetVolIndex = n.targetVolIndex
        /\ n'.volIndexInc = n.volIndexInc
    BY <1>1, <1>4 DEF NoteT
  <2> QED
    BY <2>1, StepsKept, AbstractView
<1> QED
  BY <1>2, <1>3, <1>4 DEF AudioISR

LEMMA MovesOthers ==
  ASSUME TypeInv, TypeInv', StopNote \/ Stopped \/ \E buf \in Waveform : SetWaveform(buf)
  PROVE  VE!Next
<1>1. n \in NoteT
  BY DEF TypeInv
<1>2. CASE StopNote
  <2>1. Sounding /\ n' = [n EXCEPT !.midiVal = NOTE_PENDING_OFF]
    BY <1>2 DEF StopNote
  <2>2. /\ n'.midiVal = NOTE_PENDING_OFF /\ n'.buf = n.buf /\ n'.envelopePhase = n.envelopePhase
        /\ n'.volIndex = n.volIndex /\ n'.targetVolIndex = n.targetVolIndex
        /\ n'.volIndexInc = n.volIndexInc
    BY <1>1, <2>1 DEF NoteT
  <2>3. absNote' = VE!View([VE!Full(absNote) EXCEPT !.midiVal = NOTE_PENDING_OFF])
    BY <2>2, StepsKept, AbstractOthers, AbstractView
  <2> QED
    BY <2>1, <2>3, StepsTypeNext, Moves
<1>3. CASE Stopped
  <2>1. n.midiVal = NOTE_OFF /\ n' = [n EXCEPT !.envelopePhase = "OFF"]
    BY <1>3 DEF Stopped
  <2>2. /\ n'.midiVal = n.midiVal /\ n'.buf = n.buf /\ n'.envelopePhase = "OFF"
        /\ n'.volIndex = n.volIndex /\ n'.targetVolIndex = n.targetVolIndex
        /\ n'.volIndexInc = n.volIndexInc
    BY <1>1, <2>1 DEF NoteT
  <2>3. absNote' = VE!View([VE!Full(absNote) EXCEPT !.envelopePhase = "OFF"])
    BY <2>2, StepsKept, AbstractOthers, AbstractView
  <2> QED
    BY <2>1, <2>3, StepsTypeNext, Moves
<1>4. ASSUME NEW buf \in Waveform, SetWaveform(buf) PROVE VE!Next
  <2>1. n' = [n EXCEPT !.buf = buf]
    BY <1>4 DEF SetWaveform
  <2>2. /\ n'.midiVal = n.midiVal /\ n'.buf = buf /\ n'.envelopePhase = n.envelopePhase
        /\ n'.volIndex = n.volIndex /\ n'.targetVolIndex = n.targetVolIndex
        /\ n'.volIndexInc = n.volIndexInc
    BY <1>1, <2>1 DEF NoteT
  <2>3. absNote' = VE!View(VE!ChangeBuf(VE!Full(absNote), buf, FALSE))
    BY <2>2, StepsKept, AbstractOthers, AbstractView
  <2>4. absNote'.buf = buf
    BY <2>2, AbstractViewNext
  <2> QED
    BY <2>3, <2>4, StepsTypeNext, Moves
<1> QED
  BY <1>2, <1>3, <1>4

LEMMA MovesNext ==
  ASSUME StepsInv, [Next]_n
  PROVE  [VE!Next]_absNote
<1>1. TypeInv /\ TypeInv'
  BY TypeStep DEF StepsInv, TypeInv
<1>2. CASE n' = n
  BY <1>2 DEF absNote, Fades
<1> QED
  BY <1>1, <1>2, MovesNoteOn, MovesRelease, MovesEndAttack, MovesProcessEnvelope,
     MovesAudioISR, MovesOthers DEF Next, Input, ProcessEnvelope

LEMMA MovesInit == Init => VE!Init
<1>. SUFFICES ASSUME Init PROVE absNote = VE!View(VE!SilentNote)
  BY DEF VE!Init
<1>1. /\ n.midiVal = NOTE_OFF /\ n.buf = "wave" /\ n.envelopePhase = "OFF" /\ n.volIndex = 0
      /\ n.targetVolIndex = 0 /\ n.volIndexInc = 1
  BY DEF Init
<1>2. Steps = 0 /\ Fades = FALSE
  BY <1>1 DEF Steps, StepsTo, Fades
<1>3. absNote = ViewOf(NOTE_OFF, "wave", "OFF", 0, FALSE)
  BY <1>1, <1>2, AbstractView
<1>4. VE!View(VE!SilentNote) = ViewOf(NOTE_OFF, "wave", "OFF", 0, FALSE)
  BY DEF VE!View, VE!SilentNote, ViewOf, VE!NOTE_OFF, NOTE_OFF
<1> QED
  BY <1>3, <1>4

\* The levels, tables and scales of the envelope are an implementation of the
\* voice the other modules count on, for all settings and for every kind of
\* waveform a voice is switched to (processEnvelope(), releaseNote(), the ISR).
THEOREM EnvelopeImplementsVoice == Spec => VoiceEnvelopeSpec
<1>1. Init => StepsInv /\ VE!Init
  BY UpInit, MovesInit
<1>2. StepsInv /\ [Next]_n => StepsInv' /\ [VE!Next]_absNote
  BY UpNext, MovesNext
<1> QED
  BY <1>1, <1>2, PTL DEF Spec, VoiceEnvelopeSpec, VE!Spec
=============================================================================

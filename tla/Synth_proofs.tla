---------------------------- MODULE Synth_proofs ----------------------------
(***************************************************************************)
(* Theorems about Synth for every number of voices, channels, buttons and  *)
(* pitches, every drum map, every set of slow notes and every bound: its   *)
(* types; the configuration, the life and the choice of voices; keys and   *)
(* buttons.                                                                *)
(***************************************************************************)
EXTENDS Synth, TLAPS, WellFoundedInduction

-----------------------------------------------------------------------------
(* The voice searches *)

\* A nonempty set of naturals has a least element.
LEMMA LeastNatural ==
  ASSUME NEW T \in SUBSET Nat, T # {}
  PROVE  \E x \in T : \A y \in T : x <= y
<1> DEFINE R == {ss \in Nat \X Nat : ss[1] < ss[2]}
<1>1. IsWellFoundedOn(R, Nat)
  BY NatLessThanWellFounded DEF OpToRel
<1>2. PICK x \in T : \A y \in T : ~ (<<y, x>> \in R)
  <2> HIDE DEF R
  <2> QED BY <1>1, WFMin
<1>3. ASSUME NEW y \in T PROVE x <= y
  <2>1. <<y, x>> \in R <=> y < x
    BY SMT
  <2> QED BY <1>2, <2>1
<1> QED BY <1>3

\* `Oldest' returns a voice of the set it is given, and none there is older.
LEMMA OldestIsOldest ==
  ASSUME NEW notes \in [Voice -> NoteT], NEW S \in SUBSET Voice, S # {}
  PROVE  /\ Oldest(notes, S) \in S
         /\ \A w \in S : notes[Oldest(notes, S)].startTime <= notes[w].startTime
<1> DEFINE Age(v) == notes[v].startTime
<1>1. \A v \in S : Age(v) \in Nat
  BY DEF NoteT
<1>2. PICK t \in {Age(v) : v \in S} : \A u \in {Age(v) : v \in S} : t <= u
  <2>1. {Age(v) : v \in S} \in SUBSET Nat /\ {Age(v) : v \in S} # {}
    BY <1>1
  <2> QED BY <2>1, LeastNatural
<1> DEFINE Same == {v \in S : Age(v) = t}
<1>3. PICK m \in Same : \A w \in Same : m <= w
  <2>1. Same \in SUBSET Nat /\ Same # {}
    <3>1. \E v \in S : Age(v) = t
      BY <1>2
    <3>2. Voice \subseteq Nat
      BY VoicesAssumption DEF Voice
    <3> HIDE DEF Age
    <3> QED BY <3>1, <3>2
  <2> QED BY <2>1, LeastNatural
<1>4. \A w \in S : Age(m) < Age(w) \/ (Age(m) = Age(w) /\ m <= w)
  <2> TAKE w \in S
  <2>1. Age(m) = t /\ t \in Nat /\ Age(w) \in Nat /\ t <= Age(w)
    BY <1>1, <1>2, <1>3
  <2>2. Age(w) = t => m <= w
    BY <1>3
  <2> HIDE DEF Age
  <2> QED BY <2>1, <2>2
<1>5. /\ Oldest(notes, S) \in S
      /\ \A w \in S : \/ Age(Oldest(notes, S)) < Age(w)
                      \/ Age(Oldest(notes, S)) = Age(w) /\ Oldest(notes, S) <= w
  BY <1>3, <1>4 DEF Oldest
<1> HIDE DEF Age
<1>6. \A w \in S : Age(Oldest(notes, S)) <= Age(w)
  BY <1>1, <1>5
<1> QED BY <1>5, <1>6 DEF Age

\* `First' returns a voice of the set it is given.
LEMMA FirstIsMember ==
  ASSUME NEW S \in SUBSET Voice, S # {}
  PROVE  First(S) \in S
<1>1. S \in SUBSET Nat
  BY VoicesAssumption DEF Voice
<1> QED BY <1>1, LeastNatural DEF First

\* Whatever the voices hold, findNoteIndex() finds one.
LEMMA FindNoteIndexFinds ==
  ASSUME NEW notes \in [Voice -> NoteT], NEW t
  PROVE  FindNoteIndex(notes, t) \in Voice
<1> DEFINE free     == FreeVoices(notes)
           released == ReleasedVoices(notes, t)
           melodic  == NonSamples(notes)
<1>1. free \in SUBSET Voice /\ released \in SUBSET Voice /\ melodic \in SUBSET Voice
  BY DEF FreeVoices, ReleasedVoices, NonSamples
<1>2. 0 \in Voice
  BY VoicesAssumption DEF Voice
<1>3. CASE free # {}
  BY <1>1, <1>3, FirstIsMember DEF FindNoteIndex
<1>4. CASE free = {} /\ released # {}
  BY <1>1, <1>4, OldestIsOldest DEF FindNoteIndex
<1>5. CASE free = {} /\ released = {} /\ melodic # {}
  BY <1>1, <1>5, OldestIsOldest DEF FindNoteIndex
<1>6. CASE free = {} /\ released = {} /\ melodic = {}
  BY <1>2, <1>6, OldestIsOldest DEF FindNoteIndex
<1> QED BY <1>3, <1>4, <1>5, <1>6
-----------------------------------------------------------------------------
(* Every function of Voices returns a voice. *)

LEMMA DoNoteOnType ==
  ASSUME NEW n \in NoteT, NEW c \in Channel, NEW p \in Pitch, NEW buf \in Buf,
         NEW t \in Nat, NEW levels \in 0 .. MaxSteps, NEW cut \in BOOLEAN
  PROVE  DoNoteOn(n, c, p, buf, t, levels, cut) \in NoteT
<1> DEFINE m == InitNote(n, p)
           k == IF cut /\ (IsSample(n) \/ buf = "sample") THEN NOTE_OFF ELSE m.midiVal
           s == IF buf = "sample" THEN 0 ELSE levels
<1>1. m \in NoteT
  BY DEF InitNote, NoteT
<1>2. "ATTACK" \in Envelope /\ s \in 0 .. MaxSteps
  BY VoicesAssumption DEF Envelope, Unlocked
<1>4. k \in {NOTE_OFF, NOTE_PENDING_OFF} \cup Pitch
  BY <1>1 DEF NoteT
<1>3. DoNoteOn(n, c, p, buf, t, levels, cut) =
        [m EXCEPT !.startTime = t, !.midiChannel = c, !.buf = buf, !.midiVal = k,
                  !.envelopePhase = "ATTACK", !.fades = FALSE, !.steps = s]
  BY DEF DoNoteOn
<1> HIDE DEF m, s, k
<1> DEFINE x == [m EXCEPT !.startTime = t, !.midiChannel = c, !.buf = buf]
<1>5. x \in NoteT
  BY <1>1 DEF NoteT
<1>6. DoNoteOn(n, c, p, buf, t, levels, cut) =
        [x EXCEPT !.midiVal = k, !.envelopePhase = "ATTACK", !.fades = FALSE, !.steps = s]
  BY <1>1, <1>3 DEF NoteT
<1> HIDE DEF x
<1> QED BY <1>2, <1>4, <1>5, <1>6 DEF NoteT

LEMMA SetDrumParametersType ==
  ASSUME NEW n \in NoteT, NEW k \in DrumKey
  PROVE  SetDrumParameters(n, k) \in NoteT
<1>1. DrumPitch[k] \in Pitch /\ "sample" \in Buf /\ 0 \in 0 .. MaxSteps
  BY VoicesAssumption DEF Buf
<1> QED BY <1>1 DEF SetDrumParameters, NoteT

LEMMA ReleaseNoteType ==
  ASSUME NEW n \in NoteT, NEW levels \in 0 .. MaxSteps, NEW cut
  PROVE  ReleaseNote(n, levels, cut) \in NoteT
BY DEF ReleaseNote, NoteT, Envelope

LEMMA EnvelopeStepType ==
  ASSUME NEW n \in NoteT, NEW knob \in Knob, NEW levels \in 0 .. MaxSteps
  PROVE  EnvelopeStep(n, knob, levels) \in NoteT
<1>1. CASE n.steps > 0 /\ n.envelopePhase = "RELEASE" /\ knob = "zero"
  <2>1. (IF n.fades THEN 0 ELSE levels) \in 0 .. MaxSteps
    BY VoicesAssumption
  <2> QED BY <1>1, <2>1 DEF EnvelopeStep, NoteT
<1>2. CASE n.steps > 0 /\ ~(n.envelopePhase = "RELEASE" /\ knob = "zero")
  <2>1. n.steps - 1 \in 0 .. MaxSteps
    BY <1>2, VoicesAssumption DEF NoteT
  <2> QED BY <1>2, <2>1 DEF EnvelopeStep, NoteT
<1>3. CASE ~(n.steps > 0) /\ n.envelopePhase = "ATTACK"
  BY <1>3 DEF EnvelopeStep, NoteT, Envelope, Unlocked
<1>4. CASE ~(n.steps > 0) /\ n.envelopePhase = "DECAY"
  BY <1>4 DEF EnvelopeStep, NoteT, Envelope, Unlocked
<1>5. CASE ~(n.steps > 0) /\ n.envelopePhase = "RELEASE"
  BY <1>5 DEF EnvelopeStep, NoteT, Envelope, Unlocked
<1>6. CASE ~(n.steps > 0) /\ n.envelopePhase \in {"SUSTAIN", "OFF"}
  BY <1>6 DEF EnvelopeStep
<1> QED BY <1>1, <1>2, <1>3, <1>4, <1>5, <1>6 DEF NoteT, Envelope, Unlocked

LEMMA SetPhaseIncrementType ==
  ASSUME NEW n \in NoteT, NEW p, NEW fraction \in BOOLEAN
  PROVE  SetPhaseIncrement(n, p, fraction) \in NoteT
BY DEF SetPhaseIncrement, NoteT

LEMMA ChangeBufType ==
  ASSUME NEW n \in NoteT, NEW buf \in Buf, NEW cut
  PROVE  ChangeBuf(n, buf, cut) \in NoteT
BY DEF ChangeBuf, NoteT, Envelope

LEMMA AudioStepType ==
  ASSUME NEW n \in NoteT, NEW boundary
  PROVE  AudioStep(n, boundary) \in NoteT
<1>1. \A p \in Envelope : [n EXCEPT !.midiVal = NOTE_OFF, !.envelopePhase = p] \in NoteT
  BY DEF NoteT
<1>2. n.envelopePhase \in Envelope /\ "OFF" \in Envelope
  BY DEF NoteT, Envelope
<1>3. \/ AudioStep(n, boundary) = n
      \/ AudioStep(n, boundary) =
           [n EXCEPT !.midiVal = NOTE_OFF,
                     !.envelopePhase = IF IsSample(n) THEN "OFF" ELSE n.envelopePhase]
  BY DEF AudioStep
<1> QED BY <1>1, <1>2, <1>3

LEMMA PendingType ==
  ASSUME NEW n \in NoteT
  PROVE  [n EXCEPT !.midiVal = NOTE_PENDING_OFF] \in NoteT
BY DEF NoteT

LEMMA SilentType == SilentNote \in NoteT
BY VoicesAssumption DEF SilentNote, NoteT, Envelope, Unlocked, Buf
-----------------------------------------------------------------------------
(* The calls that more than one action makes *)

LEMMA BeginNoteOnType ==
  ASSUME TypeOK, NEW c \in Channel, NEW p \in Pitch, NEW drum \in BOOLEAN,
         NEW b \in {UNSET} \cup Button, BeginNoteOn(c, p, drum, b)
  PROVE  /\ note' \in [Voice -> NoteT]
         /\ call' \in OnCall /\ call'.drum = drum /\ call'.midiNote = p
<1> DEFINE v == FindNoteIndex(note, now)
<1>1. v \in Voice
  BY FindNoteIndexFinds DEF TypeOK
<1>2. note' \in [Voice -> NoteT]
  <2>1. [note[v] EXCEPT !.midiVal = NOTE_PENDING_OFF] \in NoteT
    BY <1>1, PendingType DEF TypeOK
  <2> HIDE DEF v
  <2>2. [note EXCEPT ![v].midiVal = NOTE_PENDING_OFF] \in [Voice -> NoteT]
    BY <1>1, <2>1 DEF TypeOK
  <2> QED BY <2>2 DEF BeginNoteOn, TypeOK, v
<1>3. call' \in OnCall /\ call'.drum = drum /\ call'.midiNote = p
  <2>1. (StopsVoice(note, now) \/ FreeVoices(note) # {}) \in BOOLEAN
    OBVIOUS
  <2> HIDE DEF v
  <2> QED BY <1>1, <2>1 DEF BeginNoteOn, OnCall, v
<1> QED BY <1>2, <1>3

LEMMA ReleaseNotesType ==
  ASSUME NEW notes \in [Voice -> NoteT], NEW matches, ReleaseNotes(notes, matches)
  PROVE  note' \in [Voice -> NoteT]
<1>1. PICK levels \in [Voice -> 0 .. MaxSteps], cut \in SUBSET matches :
        note' = [v \in Voice |-> IF v \in matches
                                 THEN ReleaseNote(notes[v], levels[v], v \in cut)
                                 ELSE notes[v]]
  BY DEF ReleaseNotes
<1>2. \A v \in Voice : ReleaseNote(notes[v], levels[v], v \in cut) \in NoteT
  BY ReleaseNoteType
<1> QED BY <1>1, <1>2

LEMMA SetWaveformType ==
  ASSUME TypeOK, NEW c \in Channel, NEW buf \in Buf, SetWaveform(c, buf)
  PROVE  note' \in [Voice -> NoteT] /\ waveform' \in [Channel -> Buf]
<1>1. PICK cut :
        note' = [v \in Voice |->
                   IF /\ v \in {w \in Voice : note[w].midiChannel = c /\ note[w].drum = UNSET}
                      /\ ~seqPreview
                   THEN ChangeBuf(note[v], buf, v \in cut) ELSE note[v]]
  BY DEF SetWaveform, Retarget
<1>2. \A v \in Voice : ChangeBuf(note[v], buf, v \in cut) \in NoteT
  BY ChangeBufType DEF TypeOK
<1>3. note' \in [Voice -> NoteT]
  BY <1>1, <1>2 DEF TypeOK
<1> QED BY <1>3 DEF SetWaveform, TypeOK

LEMMA StopFromType ==
  ASSUME NEW notes \in [Voice -> NoteT], NEW first, NEW c \in {0} \cup Channel,
         StopFrom(notes, first, c)
  PROVE  note' \in [Voice -> NoteT] /\ call' \in {NoCall} \cup StopCall
<1> DEFINE targets == {v \in Voice : /\ v >= first
                                     /\ c # 0 => /\ notes[v].midiChannel = c
                                                 /\ Sounding(notes[v])}
           v == First(targets)
<1>1. CASE targets = {}
  BY <1>1 DEF StopFrom
<1>2. CASE targets # {}
  <2>1. v \in Voice
    BY <1>2, FirstIsMember
  <2>2. /\ note' = [notes EXCEPT ![v].midiVal = NOTE_PENDING_OFF]
        /\ call' = [op |-> "stop", at |-> v, channelNum |-> c]
    BY <1>2 DEF StopFrom
  <2> HIDE DEF v
  <2>3. [notes[v] EXCEPT !.midiVal = NOTE_PENDING_OFF] \in NoteT
    BY <2>1, PendingType
  <2> QED BY <2>1, <2>2, <2>3 DEF StopCall
<1> QED BY <1>1, <1>2

LEMMA LogicalChannelType ==
  ASSUME NEW c \in WireChannel
  PROVE  LogicalChannel(c) \in Channel
<1>1. c \in Nat /\ N_MIDI_CHANNELS \in Nat \ {0}
  BY VoicesAssumption, SynthAssumption
<1>2. c % N_MIDI_CHANNELS \in 0 .. (N_MIDI_CHANNELS - 1)
  BY <1>1
<1> QED BY <1>1, <1>2 DEF LogicalChannel, Channel
-----------------------------------------------------------------------------
(* Type correctness *)

LEMMA AdvanceType ==
  ASSUME idx \in Nat, pc \in Stage, NEW stage \in Stage, NEW bound,
         Advance(bound, stage)
  PROVE  pc' \in Stage /\ idx' \in Nat
BY DEF Advance, GoTo

LEMMA InitType == Init => TypeOK
<1> SUFFICES ASSUME Init PROVE TypeOK
  OBVIOUS
<1>1. note \in [Voice -> NoteT]
  BY SilentType DEF Init
<1>2. button \in [Button -> ButtonT]
  <2>1. 0 \in Voice
    BY VoicesAssumption DEF Voice
  <2> QED BY <2>1, SynthAssumption DEF Init, ButtonT
<1>3. waveform \in [Channel -> Buf]
  BY SynthAssumption DEF Init
<1>4. seqPreview \in BOOLEAN
  BY SynthAssumption DEF Init
<1> QED BY <1>1, <1>2, <1>3, <1>4 DEF Init, TypeOK, Stage, NoCall

LEMMA FinishNoteOnType == TypeOK /\ FinishNoteOn => TypeOK'
<1> SUFFICES ASSUME TypeOK, FinishNoteOn PROVE TypeOK'
  OBVIOUS
<1>1. call \in OnCall
  BY DEF FinishNoteOn, TypeOK, NoCall, StopCall
<1>2. /\ call.at \in Voice /\ call.channelNum \in Channel
      /\ call.midiNote \in Pitch /\ call.button \in {UNSET} \cup Button
      /\ call.drum => call.midiNote \in DrumKey
  BY <1>1 DEF OnCall, TypeOK
<1>3. PICK levels \in 0 .. MaxSteps, cut \in BOOLEAN :
        LET started == DoNoteOn(note[call.at], call.channelNum, call.midiNote,
                                waveform[call.channelNum], now, levels, cut)
            drummed == IF call.drum THEN SetDrumParameters(started, call.midiNote)
                       ELSE started
            owned   == IF call.button = UNSET THEN drummed
                       ELSE [drummed EXCEPT !.trigger = call.button]
        IN  note' = [note EXCEPT ![call.at] = owned]
  BY DEF FinishNoteOn
<1> DEFINE started == DoNoteOn(note[call.at], call.channelNum, call.midiNote,
                               waveform[call.channelNum], now, levels, cut)
           drummed == IF call.drum THEN SetDrumParameters(started, call.midiNote)
                      ELSE started
           owned   == IF call.button = UNSET THEN drummed
                      ELSE [drummed EXCEPT !.trigger = call.button]
<1>4. started \in NoteT
  BY <1>2, DoNoteOnType DEF TypeOK
<1>5. drummed \in NoteT
  <2> HIDE DEF started
  <2> QED BY <1>2, <1>4, SetDrumParametersType
<1>6. owned \in NoteT
  <2> HIDE DEF drummed
  <2> QED BY <1>2, <1>5 DEF NoteT
<1>7. note' \in [Voice -> NoteT]
  <2>1. note' = [note EXCEPT ![call.at] = owned]
    BY <1>3
  <2> HIDE DEF owned
  <2> QED BY <1>2, <1>6, <2>1 DEF TypeOK
<1>8. button' \in [Button -> ButtonT]
  BY <1>2 DEF FinishNoteOn, TypeOK, ButtonT
<1> QED BY <1>7, <1>8 DEF FinishNoteOn, TypeOK, NoCall, loop

LEMMA NoteOnType ==
  ASSUME TypeOK, NEW c \in WireChannel, NEW p \in Pitch, HandleNoteOn(c, p)
  PROVE  TypeOK'
<1>1. LogicalChannel(c) \in Channel
  BY LogicalChannelType
<1>2. /\ note' \in [Voice -> NoteT]
      /\ call' \in OnCall /\ call'.drum = (c = DRUM_CHANNEL) /\ call'.midiNote = p
  BY <1>1, BeginNoteOnType DEF HandleNoteOn
<1>3. down' \subseteq Key
  BY <1>1 DEF HandleNoteOn, TypeOK, Key
<1> QED BY <1>2, <1>3 DEF HandleNoteOn, TypeOK, loop

LEMMA NoteOffType ==
  ASSUME TypeOK, NEW c \in WireChannel, NEW p \in Pitch, HandleNoteOff(c, p)
  PROVE  TypeOK'
<1>1. note' \in [Voice -> NoteT]
  BY ReleaseNotesType DEF HandleNoteOff, DoNoteOff, DoDrumNoteOff, TypeOK
<1>2. down' \subseteq Key
  BY DEF HandleNoteOff, TypeOK
<1> QED BY <1>1, <1>2 DEF HandleNoteOff, TypeOK, loop

LEMMA ProgramChangeType ==
  ASSUME TypeOK, NEW c \in WireChannel, NEW buf \in Waveform,
         HandleProgramChange(c, buf)
  PROVE  TypeOK'
<1>1. LogicalChannel(c) \in Channel /\ buf \in Buf
  BY LogicalChannelType, SynthAssumption
<1> QED BY <1>1, SetWaveformType DEF HandleProgramChange, TypeOK, loop

LEMMA AllNotesOffType ==
  ASSUME TypeOK, NEW c \in WireChannel, AllNotesOff(c)
  PROVE  TypeOK'
<1>1. note' \in [Voice -> NoteT] /\ call' \in {NoCall} \cup StopCall
  BY LogicalChannelType, StopFromType DEF AllNotesOff, TypeOK
<1> QED BY <1>1 DEF AllNotesOff, TypeOK, loop, NoCall, StopCall

LEMMA ResetType ==
  ASSUME TypeOK, BeginReset \/ ContinueStop \/ FinishReset
  PROVE  TypeOK'
<1>1. CASE BeginReset
  <2>1. note' \in [Voice -> NoteT] /\ call' \in {NoCall} \cup StopCall
    BY <1>1, StopFromType DEF BeginReset, TypeOK
  <2> QED BY <1>1, <2>1 DEF BeginReset, TypeOK, loop, NoCall, StopCall
<1>2. CASE ContinueStop
  <2>1. call \in StopCall
    BY <1>2 DEF ContinueStop, StopDone, TypeOK, NoCall, OnCall
  <2>2. call.at \in Voice /\ call.channelNum \in {0} \cup Channel
    BY <2>1 DEF StopCall
  <2>3. [note[call.at] EXCEPT !.envelopePhase = "OFF"] \in NoteT
    BY <2>2 DEF TypeOK, NoteT, Envelope
  <2>4. [note EXCEPT ![call.at].envelopePhase = "OFF"] \in [Voice -> NoteT]
    BY <2>2, <2>3 DEF TypeOK
  <2>5. note' \in [Voice -> NoteT] /\ call' \in {NoCall} \cup StopCall
    BY <1>2, <2>2, <2>4, StopFromType DEF ContinueStop
  <2> QED BY <1>2, <2>5 DEF ContinueStop, TypeOK, loop, NoCall, StopCall
<1>3. CASE FinishReset
  <2>1. note' \in [Voice -> NoteT]
    BY <1>3, SilentType DEF FinishReset
  <2>2. button' \in [Button -> ButtonT]
    <3>1. button \in [Button -> ButtonT]
      BY DEF TypeOK
    <3>2. \A b \in Button : ButtonPitch[b] \in Pitch
      BY SynthAssumption
    <3>3. ASSUME NEW b \in Button
          PROVE  [button[b] EXCEPT !.pressed = FALSE, !.midiVal = ButtonPitch[b]] \in ButtonT
      BY <3>1, <3>2 DEF ButtonT
    <3>4. button' = [b \in Button |-> [button[b] EXCEPT !.pressed = FALSE,
                                                       !.midiVal = ButtonPitch[b]]]
      BY <1>3 DEF FinishReset
    <3> QED BY <3>3, <3>4
  <2>3. waveform' \in [Channel -> Buf]
    BY <1>3, SynthAssumption DEF FinishReset
  <2> QED BY <1>3, <2>1, <2>2, <2>3 DEF FinishReset, TypeOK, loop, NoCall
<1> QED BY <1>1, <1>2, <1>3

LEMMA ChannelSelectType ==
  ASSUME TypeOK, NEW c \in Channel, ChannelSelect(c)
  PROVE  TypeOK'
<1>3. PICK cut :
        note' = [v \in Voice |->
                   IF v \in ButtonVoices
                   THEN [ChangeBuf(note[v], waveform[c], v \in cut) EXCEPT
                           !.midiChannel = c, !.drum = UNSET]
                   ELSE note[v]]
  BY DEF ChannelSelect
<1>1. \A v \in Voice :
        [ChangeBuf(note[v], waveform[c], v \in cut) EXCEPT
           !.midiChannel = c, !.drum = UNSET] \in NoteT
  <2> TAKE v \in Voice
  <2>1. ChangeBuf(note[v], waveform[c], v \in cut) \in NoteT
    BY ChangeBufType DEF TypeOK
  <2>2. \A m \in NoteT : [m EXCEPT !.midiChannel = c, !.drum = UNSET] \in NoteT
    BY DEF NoteT
  <2> QED BY <2>1, <2>2
<1>2. note' \in [Voice -> NoteT]
  BY <1>1, <1>3 DEF TypeOK
<1> QED BY <1>2 DEF ChannelSelect, GoTo, TypeOK, Stage

LEMMA ButtonType ==
  ASSUME TypeOK, NEW b \in Button, NEW again \in BOOLEAN,
         ButtonOn(b) \/ ButtonIdle(b) \/ ButtonHeld(b) \/ ButtonOff(b, again)
  PROVE  TypeOK'
<1>1. pc' \in Stage /\ idx' \in Nat
  <2>1. Polls(b)
    BY DEF ButtonOn, ButtonIdle, ButtonHeld, ButtonOff
  <2>2. "pots" \in Stage
    BY DEF Stage
  <2> QED BY <2>1, <2>2, AdvanceType DEF Polls, TypeOK
<1>2. CASE ButtonOn(b)
  <2>1. button[b].midiVal \in Pitch
    BY DEF TypeOK, ButtonT
  <2>2. note' \in [Voice -> NoteT] /\ call' \in OnCall /\ call'.drum = FALSE
    BY <1>2, <2>1, BeginNoteOnType DEF ButtonOn, TypeOK
  <2>3. button' \in [Button -> ButtonT]
    BY <1>2 DEF ButtonOn, TypeOK, ButtonT
  <2> QED BY <1>1, <1>2, <2>2, <2>3 DEF ButtonOn, TypeOK
<1>3. CASE ButtonIdle(b)
  BY <1>1, <1>3 DEF ButtonIdle, TypeOK, ButtonT
<1>4. CASE ButtonHeld(b)
  <2>1. PICK p \in Pitch, boundary \in BOOLEAN :
          /\ button' = [button EXCEPT ![b].midiVal = p]
          /\ note' = [note EXCEPT ![button[b].noteIndex] =
                        [AudioStep(@, boundary) EXCEPT !.midiVal = p]]
    BY <1>4 DEF ButtonHeld
  <2>6. \A m \in NoteT : [m EXCEPT !.midiVal = p] \in NoteT
    BY DEF NoteT
  <2>2. \A v \in Voice : [AudioStep(note[v], boundary) EXCEPT !.midiVal = p] \in NoteT
    BY <2>6, AudioStepType DEF TypeOK
  <2>3. button[b].noteIndex \in Voice
    BY <1>4 DEF ButtonHeld, HasVoice, TypeOK, ButtonT
  <2>4. note' \in [Voice -> NoteT]
    BY <2>1, <2>2, <2>3 DEF TypeOK
  <2>5. button' \in [Button -> ButtonT]
    BY <2>1 DEF TypeOK, ButtonT
  <2> QED BY <1>1, <1>4, <2>4, <2>5 DEF ButtonHeld, TypeOK
<1>5. CASE ButtonOff(b, again)
  <2> DEFINE v == button[b].noteIndex
  <2>1. v \in Voice
    BY <1>5 DEF ButtonOff, HasVoice, TypeOK, ButtonT
  <2>2. [note[v] EXCEPT !.trigger = UNSET] \in NoteT
    BY <2>1 DEF TypeOK, NoteT
  <2>3. [note EXCEPT ![v].trigger = UNSET] \in [Voice -> NoteT]
    BY <2>1, <2>2 DEF TypeOK
  <2>4. note' \in [Voice -> NoteT]
    BY <1>5, <2>3, ReleaseNotesType DEF ButtonOff, DoNoteOff, TypeOK
  <2>5. button' \in [Button -> ButtonT]
    BY <1>5 DEF ButtonOff, TypeOK, ButtonT
  <2> QED BY <1>1, <1>5, <2>4, <2>5 DEF ButtonOff, TypeOK
<1> QED BY <1>2, <1>3, <1>4, <1>5

LEMMA ServiceType ==
  ASSUME TypeOK, NEW v \in Voice, NEW elapsed \in BOOLEAN, Service(v, elapsed)
  PROVE  TypeOK'
<1>1. pc' \in Stage /\ idx' \in Nat
  <2>1. "read" \in Stage
    BY DEF Stage
  <2> QED BY <2>1, AdvanceType DEF Service, TypeOK
<1>2. CASE Sounding(note[v])
  <2>1. PICK knob \in Knob, fraction \in BOOLEAN, levels \in 0 .. MaxSteps :
          note' = [note EXCEPT ![v] =
                     SetPhaseIncrement(
                       ProcessEnvelope(note[v], elapsed, knob, levels),
                       note[v].midiVal, fraction)]
    BY <1>2 DEF Service
  <2>2. ProcessEnvelope(note[v], elapsed, knob, levels) \in NoteT
    BY EnvelopeStepType DEF ProcessEnvelope, TypeOK
  <2>3. note' \in [Voice -> NoteT]
    BY <2>1, <2>2, SetPhaseIncrementType DEF TypeOK
  <2> QED BY <1>1, <2>3 DEF Service, TypeOK
<1>3. CASE ~Sounding(note[v])
  BY <1>1, <1>3 DEF Service, TypeOK
<1> QED BY <1>2, <1>3

LEMMA AudioISRType ==
  ASSUME TypeOK, NEW boundary \in SUBSET Voice, AudioISR(boundary)
  PROVE  TypeOK'
<1>1. note' \in [Voice -> NoteT]
  BY AudioStepType DEF AudioISR, TypeOK
<1> QED BY <1>1 DEF AudioISR, TypeOK, loop

LEMMA StepType == TypeOK /\ [Next]_vars => TypeOK'
<1> SUFFICES ASSUME TypeOK, [Next]_vars PROVE TypeOK'
  OBVIOUS
<1>1. CASE Input
  <2>1. CASE \E c \in WireChannel, p \in Pitch : HandleNoteOn(c, p)
    BY <2>1, NoteOnType
  <2>2. CASE \E c \in WireChannel, p \in Pitch : HandleNoteOff(c, p)
    BY <2>2, NoteOffType
  <2>3. CASE \E c \in WireChannel, buf \in Waveform : HandleProgramChange(c, buf)
    BY <2>3, ProgramChangeType
  <2>4. CASE \E c \in WireChannel : AllNotesOff(c)
    BY <2>4, AllNotesOffType
  <2>5. CASE BeginReset
    BY <2>5, ResetType
  <2>6. CASE \E c \in Channel : ChannelSelect(c)
    BY <2>6, ChannelSelectType
  <2>7. CASE \E buf \in Waveform : WaveformKnob(buf)
    <3>1. PICK buf \in Waveform : WaveformKnob(buf)
      BY <2>7
    <3>2. note' \in [Voice -> NoteT] /\ waveform' \in [Channel -> Buf]
      BY <3>1, SetWaveformType, SynthAssumption DEF WaveformKnob, TypeOK
    <3> QED BY <3>1, <3>2 DEF WaveformKnob, GoTo, TypeOK, Stage
  <2>8. CASE \E b \in Button : PinChange(b)
    <3>1. PICK b \in Button : PinChange(b)
      BY <2>8
    <3>2. [button[b] EXCEPT !.pin = ~ button[b].pin] \in ButtonT
      BY DEF TypeOK, ButtonT
    <3>3. button' \in [Button -> ButtonT]
      BY <3>1, <3>2 DEF PinChange, TypeOK
    <3> QED BY <3>1, <3>3 DEF PinChange, TypeOK, loop
  <2> QED BY <1>1, <2>1, <2>2, <2>3, <2>4, <2>5, <2>6, <2>7, <2>8 DEF Input
<1>2. CASE Main
  <2>1. CASE FinishNoteOn
    BY <2>1, FinishNoteOnType
  <2>2. CASE ContinueStop \/ FinishReset
    BY <2>2, ResetType
  <2>3. CASE ReadDone \/ ChannelKept \/ PotsDone
    BY <2>3 DEF ReadDone, ChannelKept, PotsDone, GoTo, TypeOK, Stage
  <2>4. CASE \E b \in Button : ButtonOn(b) \/ ButtonIdle(b) \/ ButtonHeld(b)
    BY <2>4, ButtonType
  <2>5. CASE \E b \in Button, again \in BOOLEAN : ButtonOff(b, again)
    BY <2>5, ButtonType
  <2>6. CASE \E v \in Voice, elapsed \in BOOLEAN : Service(v, elapsed)
    BY <2>6, ServiceType
  <2> QED BY <1>2, <2>1, <2>2, <2>3, <2>4, <2>5, <2>6 DEF Main
<1>3. CASE \E boundary \in SUBSET Voice : AudioISR(boundary)
  BY <1>3, AudioISRType
<1>4. CASE Millis
  BY <1>4 DEF Millis, TypeOK, loop
<1>5. CASE UNCHANGED vars
  BY <1>5 DEF vars, TypeOK
<1> QED BY <1>1, <1>2, <1>3, <1>4, <1>5 DEF Next

\* Type correctness: note[], button[] and the suspended call keep their types;
\* so every index the handlers use, noteIndex and the voice of findNoteIndex()
\* among them, is inside its array.
THEOREM TypeCorrect == Spec => []TypeOK
<1> QED BY InitType, StepType, PTL DEF Spec
-----------------------------------------------------------------------------
(* What the passing of time does to a voice *)

Off(n) == n.envelopePhase = "OFF"

\* m is n with nothing but its end brought nearer.
Subsides(n, m) ==
  /\ m.buf = n.buf /\ m.midiChannel = n.midiChannel /\ m.drum = n.drum
  /\ m.trigger \in {n.trigger, UNSET}
  /\ Sounding(m) => Sounding(n) /\ m.midiVal = n.midiVal
  /\ Unreleased(m) => Unreleased(n) /\ m.trigger = n.trigger
  /\ Sounding(m) /\ Off(m) => Off(n)

LEMMA SelfSubsides ==
  ASSUME NEW n PROVE Subsides(n, n)
BY DEF Subsides

LEMMA PendingSubsides ==
  ASSUME NEW n \in NoteT
  PROVE  Subsides(n, [n EXCEPT !.midiVal = NOTE_PENDING_OFF])
BY DEF Subsides, NoteT, Sounding, Unreleased, NOTE_PENDING_OFF

LEMMA OffSubsides ==
  ASSUME NEW n \in NoteT, ~Sounding(n)
  PROVE  Subsides(n, [n EXCEPT !.envelopePhase = "OFF"])
BY DEF Subsides, NoteT, Sounding, Unreleased, Off

LEMMA ReleaseNoteSubsides ==
  ASSUME NEW n \in NoteT, NEW levels \in 0 .. MaxSteps, NEW cut
  PROVE  /\ Subsides(n, ReleaseNote(n, levels, cut))
         /\ ReleaseNote(n, levels, cut).envelopePhase = "RELEASE"
         /\ ReleaseNote(n, levels, cut).midiVal \in {n.midiVal, NOTE_OFF}
BY DEF ReleaseNote, Subsides, NoteT, Sounding, Unreleased, Off, NOTE_OFF, NOTE_PENDING_OFF

LEMMA EnvelopeStepSubsides ==
  ASSUME NEW n \in NoteT, NEW knob \in Knob, NEW levels \in 0 .. MaxSteps
  PROVE  Subsides(n, EnvelopeStep(n, knob, levels))
<1> DEFINE m == EnvelopeStep(n, knob, levels)
<1>1. CASE n.steps > 0
  <2>1. PICK s : m = [n EXCEPT !.steps = s]
    BY <1>1 DEF EnvelopeStep
  <2> HIDE DEF m
  <2>2. Subsides(n, m)
    BY <2>1 DEF Subsides, NoteT, Sounding, Unreleased, Off
  <2> QED BY <2>2 DEF m
<1>2. CASE ~(n.steps > 0) /\ n.envelopePhase = "ATTACK"
  BY <1>2 DEF EnvelopeStep, Subsides, NoteT, Sounding, Unreleased, Off
<1>3. CASE ~(n.steps > 0) /\ n.envelopePhase = "DECAY"
  BY <1>3 DEF EnvelopeStep, Subsides, NoteT, Sounding, Unreleased, Off
<1>4. CASE ~(n.steps > 0) /\ n.envelopePhase = "RELEASE"
  <2>1. m = [n EXCEPT !.midiVal = NOTE_PENDING_OFF,
                      !.envelopePhase = "OFF", !.trigger = UNSET]
    BY <1>4 DEF EnvelopeStep
  <2> HIDE DEF m
  <2>2. Subsides(n, m)
    BY <2>1 DEF Subsides, NoteT, Sounding, Unreleased, NOTE_PENDING_OFF
  <2> QED BY <2>2 DEF m
<1>5. CASE ~(n.steps > 0) /\ n.envelopePhase \in {"SUSTAIN", "OFF"}
  BY <1>5, SelfSubsides DEF EnvelopeStep
<1> QED BY <1>1, <1>2, <1>3, <1>4, <1>5 DEF NoteT, Envelope, Unlocked

\* Servicing a voice: envelope, then frequency.
LEMMA ServiceSubsides ==
  ASSUME NEW n \in NoteT, NEW elapsed, NEW knob \in Knob,
         NEW levels \in 0 .. MaxSteps, NEW p, NEW fraction \in BOOLEAN
  PROVE  Subsides(n, SetPhaseIncrement(ProcessEnvelope(n, elapsed, knob, levels),
                                       p, fraction))
<1> DEFINE m == ProcessEnvelope(n, elapsed, knob, levels)
<1>1. m \in NoteT /\ Subsides(n, m)
  BY EnvelopeStepType, EnvelopeStepSubsides, SelfSubsides DEF ProcessEnvelope
<1> HIDE DEF m
<1>2. Subsides(n, SetPhaseIncrement(m, p, fraction))
  BY <1>1 DEF SetPhaseIncrement, Subsides, NoteT, Sounding, Unreleased, Off
<1> QED BY <1>2 DEF m

LEMMA AudioStepSubsides ==
  ASSUME NEW n \in NoteT, NEW boundary
  PROVE  Subsides(n, AudioStep(n, boundary))
<1> DEFINE m == AudioStep(n, boundary)
<1>1. m = n \/ \E phase : m = [n EXCEPT !.midiVal = NOTE_OFF, !.envelopePhase = phase]
  <2>1. \/ m = n
        \/ m = [n EXCEPT !.midiVal = NOTE_OFF, !.envelopePhase = "OFF"]
        \/ m = [n EXCEPT !.midiVal = NOTE_OFF, !.envelopePhase = n.envelopePhase]
    BY DEF AudioStep
  <2> HIDE DEF m
  <2> QED BY <2>1
<1> HIDE DEF m
<1>2. ASSUME NEW phase, m = [n EXCEPT !.midiVal = NOTE_OFF, !.envelopePhase = phase]
      PROVE  Subsides(n, m)
  <2>1. /\ m.midiVal = NOTE_OFF /\ m.trigger = n.trigger
        /\ m.buf = n.buf /\ m.midiChannel = n.midiChannel /\ m.drum = n.drum
    BY <1>2 DEF NoteT
  <2> QED BY <2>1 DEF Subsides, Sounding, Unreleased, NOTE_OFF, NOTE_PENDING_OFF
<1>3. Subsides(n, m)
  BY <1>1, <1>2, SelfSubsides
<1> QED BY <1>3 DEF m
-----------------------------------------------------------------------------
(* What each kind of step does to the voices *)

Quiet == \A v \in Voice : Subsides(note[v], note'[v])

LEMMA BeginNoteOnQuiet ==
  ASSUME TypeOK, NEW c, NEW p, NEW drum, NEW b, BeginNoteOn(c, p, drum, b)
  PROVE  Quiet
<1> DEFINE v == FindNoteIndex(note, now)
<1>1. note' \in {note, [note EXCEPT ![v].midiVal = NOTE_PENDING_OFF]}
  BY DEF BeginNoteOn
<1>2. v \in Voice
  BY FindNoteIndexFinds DEF TypeOK
<1> HIDE DEF v
<1>3. ASSUME NEW w \in Voice
      PROVE  \/ note'[w] = note[w]
             \/ note'[w] = [note[w] EXCEPT !.midiVal = NOTE_PENDING_OFF]
  BY <1>1, <1>2 DEF TypeOK
<1> QED BY <1>3, SelfSubsides, PendingSubsides DEF Quiet, TypeOK

LEMMA ReleaseNotesQuiet ==
  ASSUME TypeOK, NEW matches, ReleaseNotes(note, matches)
  PROVE  Quiet
<1>1. PICK levels \in [Voice -> 0 .. MaxSteps], cut \in SUBSET matches :
        note' = [v \in Voice |-> IF v \in matches
                                 THEN ReleaseNote(note[v], levels[v], v \in cut)
                                 ELSE note[v]]
  BY DEF ReleaseNotes
<1>2. \A v \in Voice : Subsides(note[v], ReleaseNote(note[v], levels[v], v \in cut))
  BY ReleaseNoteSubsides DEF TypeOK
<1> QED BY <1>1, <1>2, SelfSubsides DEF Quiet

LEMMA StopFromQuiet ==
  ASSUME NEW notes \in [Voice -> NoteT], NEW first, NEW c, StopFrom(notes, first, c)
  PROVE  \A v \in Voice : Subsides(notes[v], note'[v])
<1> DEFINE targets == {v \in Voice : /\ v >= first
                                     /\ c # 0 => /\ notes[v].midiChannel = c
                                                 /\ Sounding(notes[v])}
           u == First(targets)
<1>1. CASE targets = {}
  BY <1>1, SelfSubsides DEF StopFrom
<1>2. CASE targets # {}
  <2>1. u \in Voice
    BY <1>2, FirstIsMember
  <2>2. note' = [notes EXCEPT ![u].midiVal = NOTE_PENDING_OFF]
    BY <1>2 DEF StopFrom
  <2> HIDE DEF u
  <2>3. ASSUME NEW w \in Voice
        PROVE  \/ note'[w] = notes[w]
               \/ note'[w] = [notes[w] EXCEPT !.midiVal = NOTE_PENDING_OFF]
    BY <2>1, <2>2
  <2> QED BY <2>3, SelfSubsides, PendingSubsides
<1> QED BY <1>1, <1>2

LEMMA SubsidesTransitive ==
  ASSUME NEW n, NEW m, NEW l, Subsides(n, m), Subsides(m, l)
  PROVE  Subsides(n, l)
BY DEF Subsides

LEMMA ContinueStopQuiet ==
  ASSUME TypeOK, ContinueStop, ~Sounding(note[call.at])
  PROVE  Quiet
<1> DEFINE notes == [note EXCEPT ![call.at].envelopePhase = "OFF"]
<1>1. call \in StopCall /\ call.at \in Voice
  BY DEF ContinueStop, StopDone, TypeOK, NoCall, OnCall, StopCall
<1>2. ASSUME NEW v \in Voice PROVE Subsides(note[v], notes[v])
  <2>1. notes[v] \in {note[v], [note[v] EXCEPT !.envelopePhase = "OFF"]}
    BY <1>1 DEF TypeOK
  <2> QED BY <2>1, SelfSubsides, OffSubsides DEF TypeOK
<1>3. notes \in [Voice -> NoteT]
  <2>1. [note[call.at] EXCEPT !.envelopePhase = "OFF"] \in NoteT
    BY <1>1 DEF TypeOK, NoteT, Envelope
  <2> QED BY <1>1, <2>1 DEF TypeOK
<1>4. \A v \in Voice : Subsides(notes[v], note'[v])
  <2>1. StopFrom(notes, call.at + 1, call.channelNum)
    BY DEF ContinueStop
  <2> HIDE DEF notes
  <2> QED BY <1>3, <2>1, StopFromQuiet
<1> HIDE DEF notes
<1> QED BY <1>2, <1>4, SubsidesTransitive DEF Quiet

LEMMA ServiceQuiet ==
  ASSUME TypeOK, NEW v \in Voice, NEW elapsed, Service(v, elapsed)
  PROVE  Quiet
<1>1. CASE Sounding(note[v])
  <2>1. PICK knob \in Knob, fraction \in BOOLEAN, levels \in 0 .. MaxSteps :
          note' = [note EXCEPT ![v] =
                     SetPhaseIncrement(
                       ProcessEnvelope(note[v], elapsed, knob, levels),
                       note[v].midiVal, fraction)]
    BY <1>1 DEF Service
  <2>2. Subsides(note[v], note'[v])
    BY <2>1, ServiceSubsides DEF TypeOK
  <2> QED BY <2>1, <2>2, SelfSubsides DEF Quiet, TypeOK
<1>2. CASE ~Sounding(note[v])
  BY <1>2, SelfSubsides DEF Service, Quiet
<1> QED BY <1>1, <1>2

LEMMA AudioISRQuiet ==
  ASSUME TypeOK, NEW boundary, AudioISR(boundary)
  PROVE  Quiet
BY AudioStepSubsides DEF AudioISR, Quiet, TypeOK

\* What a voice sounds like and where it belongs.
SameConfig(n, m) == m.buf = n.buf /\ m.midiChannel = n.midiChannel /\ m.drum = n.drum

\* The button's own voice loses its trigger; it is one of those doNoteOff()
\* releases if it still is at the button's note and channel.
LEMMA ButtonOffReleases ==
  ASSUME TypeOK, NEW b \in Button, NEW again, ButtonOff(b, again),
         note[button[b].noteIndex].envelopePhase # "RELEASE"
  PROVE  LET v == button[b].noteIndex IN
         /\ v \in Voice
         /\ \A w \in Voice : SameConfig(note[w], note'[w])
         /\ \A w \in Voice : w # v => Subsides(note[w], note'[w])
         /\ note'[v].trigger = UNSET
         /\ note'[v].midiVal \in {note[v].midiVal, NOTE_OFF}
         /\ note[v].midiVal = button[b].midiVal /\ note[v].midiChannel = selected
              => note'[v].envelopePhase = "RELEASE"
<1> DEFINE v == button[b].noteIndex
           notes == [note EXCEPT ![v].trigger = UNSET]
           matches == {w \in Voice : /\ notes[w].midiVal = button[b].midiVal
                                     /\ notes[w].midiChannel = selected}
<1>1. v \in Voice
  BY DEF ButtonOff, HasVoice, TypeOK, ButtonT
<1>2. /\ [note[v] EXCEPT !.trigger = UNSET] \in NoteT
      /\ notes \in [Voice -> NoteT]
  <2>1. [note[v] EXCEPT !.trigger = UNSET] \in NoteT
    BY <1>1 DEF TypeOK, NoteT
  <2> QED BY <1>1, <2>1 DEF TypeOK
<1>3. PICK levels \in [Voice -> 0 .. MaxSteps], cut \in SUBSET matches :
        note' = [w \in Voice |-> IF w \in matches
                                 THEN ReleaseNote(notes[w], levels[w], w \in cut)
                                 ELSE notes[w]]
  BY DEF ButtonOff, DoNoteOff, ReleaseNotes
<1>4. /\ \A w \in Voice : w # v => notes[w] = note[w]
      /\ notes[v].trigger = UNSET /\ notes[v].midiVal = note[v].midiVal
      /\ \A w \in Voice : SameConfig(note[w], notes[w])
  BY <1>1, <1>2 DEF SameConfig, TypeOK, NoteT
<1>5. /\ v \in matches <=> /\ notes[v].midiVal = button[b].midiVal
                           /\ notes[v].midiChannel = selected
      /\ \A w \in Voice : \/ note'[w] = notes[w] /\ w \notin matches
                          \/ note'[w] = ReleaseNote(notes[w], levels[w], w \in cut)
  BY <1>1, <1>3
<1> HIDE DEF notes, matches
<1>6. ASSUME NEW w \in Voice
      PROVE  /\ Subsides(notes[w], note'[w])
             /\ note'[w].midiVal \in {notes[w].midiVal, NOTE_OFF}
             /\ w \in matches => note'[w].envelopePhase = "RELEASE"
  <2>1. levels[w] \in 0 .. MaxSteps /\ notes[w] \in NoteT
    BY <1>2
  <2> QED BY <1>5, <2>1, ReleaseNoteSubsides, SelfSubsides
<1>7. \A w \in Voice : SameConfig(note[w], note'[w])
  BY <1>4, <1>6 DEF Subsides, SameConfig
<1>8. note'[v].trigger = UNSET
  BY <1>1, <1>4, <1>6 DEF Subsides
<1>9. ASSUME note[v].midiVal = button[b].midiVal /\ note[v].midiChannel = selected
      PROVE  note'[v].envelopePhase = "RELEASE"
  BY <1>1, <1>4, <1>5, <1>6, <1>9 DEF SameConfig
<1>10. note'[v].midiVal \in {note[v].midiVal, NOTE_OFF}
  BY <1>1, <1>4, <1>6
<1> QED BY <1>1, <1>4, <1>6, <1>7, <1>8, <1>9, <1>10

LEMMA QuietKeepsConfig ==
  ASSUME Quiet PROVE \A v \in Voice : SameConfig(note[v], note'[v])
BY DEF Quiet, Subsides, SameConfig

LEMMA FinishNoteOnStarts ==
  ASSUME TypeOK, FinishNoteOn
  PROVE  LET v == call.at IN
         /\ call \in OnCall
         /\ v \in Voice
         /\ \A w \in Voice : w # v => note'[w] = note[w]
         /\ note'[v].midiChannel = call.channelNum
         /\ note'[v].trigger = call.button
         /\ note'[v].envelopePhase = "ATTACK"
         /\ Sounding(note'[v]) \/ note'[v].midiVal = NOTE_OFF
         /\ call.drum => /\ note'[v].drum = call.midiNote
                         /\ note'[v].buf = "sample"
         /\ ~call.drum => /\ note'[v].drum = UNSET
                          /\ note'[v].buf = waveform[call.channelNum]
                          /\ note'[v].midiVal \in {call.midiNote, NOTE_OFF}
<1> DEFINE v == call.at
<1>1. call \in OnCall
  BY DEF FinishNoteOn, TypeOK, NoCall, StopCall
<1>2. /\ v \in Voice /\ call.channelNum \in Channel
      /\ call.midiNote \in Pitch /\ call.button \in {UNSET} \cup Button
      /\ call.drum \in BOOLEAN
      /\ call.drum => call.midiNote \in DrumKey
  BY <1>1 DEF OnCall, TypeOK
<1>3. PICK levels \in 0 .. MaxSteps, cut \in BOOLEAN :
        LET started == DoNoteOn(note[v], call.channelNum, call.midiNote,
                                waveform[call.channelNum], now, levels, cut)
            drummed == IF call.drum THEN SetDrumParameters(started, call.midiNote)
                       ELSE started
            owned   == IF call.button = UNSET THEN drummed
                       ELSE [drummed EXCEPT !.trigger = call.button]
        IN  note' = [note EXCEPT ![v] = owned]
  BY DEF FinishNoteOn
<1> DEFINE started == DoNoteOn(note[v], call.channelNum, call.midiNote,
                               waveform[call.channelNum], now, levels, cut)
           drummed == IF call.drum THEN SetDrumParameters(started, call.midiNote)
                      ELSE started
           owned   == IF call.button = UNSET THEN drummed
                      ELSE [drummed EXCEPT !.trigger = call.button]
<1>4. note' = [note EXCEPT ![v] = owned]
  BY <1>3
<1>5. /\ started \in NoteT
      /\ started.midiChannel = call.channelNum /\ started.trigger = UNSET
      /\ started.envelopePhase = "ATTACK" /\ started.midiVal \in {call.midiNote, NOTE_OFF}
      /\ started.drum = UNSET /\ started.buf = waveform[call.channelNum]
  <2>1. started \in NoteT
    BY <1>2, DoNoteOnType DEF TypeOK
  <2> DEFINE m == InitNote(note[v], call.midiNote)
             k == IF cut /\ (IsSample(note[v]) \/ waveform[call.channelNum] = "sample")
                  THEN NOTE_OFF ELSE m.midiVal
             l == IF waveform[call.channelNum] = "sample" THEN 0 ELSE levels
  <2>2. m \in NoteT /\ m.midiVal = call.midiNote /\ m.trigger = UNSET /\ m.drum = UNSET
    <3>1. note[v] \in NoteT
      BY <1>2 DEF TypeOK
    <3> QED BY <1>2, <3>1 DEF InitNote, NoteT
  <2>3. k \in {call.midiNote, NOTE_OFF}
    BY <2>2
  <2>4. started = [m EXCEPT !.startTime = now, !.midiChannel = call.channelNum,
                            !.buf = waveform[call.channelNum], !.midiVal = k,
                            !.envelopePhase = "ATTACK", !.fades = FALSE, !.steps = l]
    BY DEF DoNoteOn
  <2> HIDE DEF m, k, l
  <2> QED BY <2>1, <2>2, <2>3, <2>4 DEF NoteT
<1> HIDE DEF started
<1>6. /\ drummed \in NoteT
      /\ drummed.midiChannel = call.channelNum /\ drummed.trigger = UNSET
      /\ drummed.envelopePhase = "ATTACK" /\ drummed.midiVal \in Pitch \cup {NOTE_OFF}
      /\ call.drum => drummed.drum = call.midiNote /\ drummed.buf = "sample"
      /\ ~call.drum => drummed = started
  <2>1. CASE call.drum
    <3>1. drummed \in NoteT
      BY <1>2, <1>5, <2>1, SetDrumParametersType
    <3>2. DrumPitch[call.midiNote] \in Pitch
      BY <1>2, <2>1, VoicesAssumption
    <3> QED BY <1>5, <2>1, <3>1, <3>2 DEF SetDrumParameters, NoteT
  <2>2. CASE ~call.drum
    BY <1>2, <1>5, <2>2
  <2> QED BY <2>1, <2>2
<1> HIDE DEF drummed
<1>7. /\ owned.midiChannel = call.channelNum /\ owned.trigger = call.button
      /\ owned.envelopePhase = "ATTACK" /\ owned.midiVal \in Pitch \cup {NOTE_OFF}
      /\ call.drum => owned.drum = call.midiNote /\ owned.buf = "sample"
      /\ ~call.drum => /\ owned.drum = UNSET
                       /\ owned.buf = waveform[call.channelNum]
                       /\ owned.midiVal \in {call.midiNote, NOTE_OFF}
  BY <1>5, <1>6 DEF NoteT
<1> HIDE DEF owned
<1>8. note'[v] = owned /\ \A w \in Voice : w # v => note'[w] = note[w]
  BY <1>2, <1>4 DEF TypeOK
<1>9. Sounding(owned) \/ owned.midiVal = NOTE_OFF
  BY <1>7, VoicesAssumption DEF Sounding
<1> QED BY <1>1, <1>2, <1>7, <1>8, <1>9

LEMMA ButtonHeldBends ==
  ASSUME TypeOK, NEW b \in Button, ButtonHeld(b)
  PROVE  LET v == button[b].noteIndex IN
         /\ v \in Voice
         /\ \E p \in Pitch :
              /\ button' = [button EXCEPT ![b].midiVal = p]
              /\ \/ note'[v] = [note[v] EXCEPT !.midiVal = p]
                 \/ note'[v] = [note[v] EXCEPT !.midiVal = p, !.envelopePhase = "OFF"]
         /\ \A w \in Voice : w # v => note'[w] = note[w]
<1> DEFINE v == button[b].noteIndex
<1>1. v \in Voice
  BY DEF ButtonHeld, HasVoice, TypeOK, ButtonT
<1>2. PICK p \in Pitch, boundary \in BOOLEAN :
        /\ button' = [button EXCEPT ![b].midiVal = p]
        /\ note' = [note EXCEPT ![v] = [AudioStep(note[v], boundary) EXCEPT !.midiVal = p]]
  BY DEF ButtonHeld
<1>4. Sounding(note[v])
  BY DEF ButtonHeld, HasVoice
<1> HIDE DEF v
<1>3. /\ note'[v] = [AudioStep(note[v], boundary) EXCEPT !.midiVal = p]
      /\ \A w \in Voice : w # v => note'[w] = note[w]
  BY <1>1, <1>2 DEF TypeOK
<1>5. \/ AudioStep(note[v], boundary) = note[v]
      \/ AudioStep(note[v], boundary) =
           [note[v] EXCEPT !.midiVal = NOTE_OFF, !.envelopePhase = "OFF"]
  <2>1. note[v].midiVal # NOTE_PENDING_OFF /\ note[v].buf \in Buf
    BY <1>1, <1>4 DEF Sounding, NOTE_PENDING_OFF, TypeOK, NoteT
  <2> QED BY <2>1 DEF AudioStep, IsSample, Buf
<1>6. \/ note'[v] = [note[v] EXCEPT !.midiVal = p]
      \/ note'[v] = [note[v] EXCEPT !.midiVal = p, !.envelopePhase = "OFF"]
  BY <1>1, <1>3, <1>5 DEF TypeOK, NoteT
<1> QED BY <1>1, <1>2, <1>3, <1>6 DEF v

\* What the audio ISR leaves of a voice that it cuts as it is retargeted.
Cut(n, m) == n.midiVal # NOTE_OFF /\ m.midiVal = NOTE_OFF /\ m.envelopePhase = "OFF"

LEMMA SetWaveformRetargets ==
  ASSUME TypeOK, NEW c \in Channel, NEW buf \in Buf, SetWaveform(c, buf)
  PROVE  /\ waveform' = [waveform EXCEPT ![c] = buf]
         /\ \A v \in Voice :
              IF note[v].midiChannel = c /\ note[v].drum = UNSET /\ ~seqPreview
              THEN \E cut : note'[v] = ChangeBuf(note[v], buf, cut)
              ELSE note'[v] = note[v]
<1>1. PICK cut :
        note' = [v \in Voice |->
                   IF /\ v \in {w \in Voice : note[w].midiChannel = c /\ note[w].drum = UNSET}
                      /\ ~seqPreview
                   THEN ChangeBuf(note[v], buf, v \in cut) ELSE note[v]]
  BY DEF SetWaveform, Retarget
<1>2. ASSUME NEW v \in Voice
      PROVE  IF note[v].midiChannel = c /\ note[v].drum = UNSET /\ ~seqPreview
             THEN note'[v] = ChangeBuf(note[v], buf, v \in cut)
             ELSE note'[v] = note[v]
  BY <1>1
<1> QED BY <1>2 DEF SetWaveform

LEMMA ChannelSelectMoves ==
  ASSUME TypeOK, NEW c \in Channel, ChannelSelect(c), NEW v \in Voice
  PROVE  IF \E b \in Button : Owns(b, v)
         THEN /\ \/ /\ note'[v].midiVal = note[v].midiVal
                    /\ note'[v].envelopePhase = note[v].envelopePhase
                 \/ Cut(note[v], note'[v])
              /\ note'[v].trigger = note[v].trigger
              /\ note'[v].buf = waveform[c]
              /\ note'[v].midiChannel = c
              /\ note'[v].drum = UNSET
         ELSE note'[v] = note[v]
<1>1. note[v] \in NoteT
  BY DEF TypeOK
<1>2. PICK cut \in SUBSET ButtonVoices :
        note'[v] = IF v \in ButtonVoices
                   THEN [ChangeBuf(note[v], waveform[c], v \in cut) EXCEPT
                           !.midiChannel = c, !.drum = UNSET]
                   ELSE note[v]
  BY DEF ChannelSelect
<1> QED BY <1>1, <1>2 DEF ButtonVoices, ChangeBuf, Cut, NoteT
-----------------------------------------------------------------------------
(* midiVal and envelopePhase *)

\* What VoiceLifecycle says of one silent voice.
Settled(n) ==
  ~Sounding(n) => \/ Off(n)
                  \/ n.midiVal = NOTE_OFF /\ n.envelopePhase \in {"ATTACK", "RELEASE"}

\* All voices are settled, as they are whenever no call is suspended.
AllSettled(notes) == \A v \in Voice : Settled(notes[v])

\* The voice of a suspended call may not be, and stays silent if it is waited for.
SilentInv ==
  /\ \A v \in Voice : Settled(note[v]) \/ (call # NoCall /\ call.at = v)
  /\ (call.op = "on" /\ call.waits) \/ call.op = "stop" => ~Sounding(note[call.at])

\* From n to m the two fields keep in step.
KeepsLife(n, m) == /\ Settled(n) => Settled(m)
                   /\ ~Sounding(n) => ~Sounding(m)

LEMMA SilentInit == Init => SilentInv
BY DEF Init, SilentInv, Settled, Off, SilentNote, NoCall

\* Steps during which nothing else happens to the voices.
LEMMA KeepsSilentInv ==
  ASSUME SilentInv, call' = call,
         \A v \in Voice : KeepsLife(note[v], note'[v]),
         TypeOK
  PROVE  SilentInv'
<1>1. call # NoCall => call.at \in Voice
  BY DEF TypeOK, NoCall, OnCall, StopCall
<1>2. call.op \in {"on", "stop"} => call # NoCall
  BY DEF NoCall
<1> QED BY <1>1, <1>2 DEF SilentInv, KeepsLife

LEMMA ReleaseNoteKeepsLife ==
  ASSUME NEW n \in NoteT, Sounding(n), NEW levels \in 0 .. MaxSteps, NEW cut
  PROVE  KeepsLife(n, ReleaseNote(n, levels, cut))
<1>1. /\ ReleaseNote(n, levels, cut).envelopePhase = "RELEASE"
      /\ ReleaseNote(n, levels, cut).midiVal \in {n.midiVal, NOTE_OFF}
  BY ReleaseNoteSubsides
<1> QED BY <1>1 DEF KeepsLife, Settled, Sounding

LEMMA ReleaseNotesKeepsLife ==
  ASSUME NEW notes \in [Voice -> NoteT], NEW matches,
         \A v \in matches \cap Voice : Sounding(notes[v]),
         ReleaseNotes(notes, matches)
  PROVE  \A v \in Voice : KeepsLife(notes[v], note'[v])
<1>1. PICK levels \in [Voice -> 0 .. MaxSteps], cut \in SUBSET matches :
        note' = [v \in Voice |-> IF v \in matches
                                 THEN ReleaseNote(notes[v], levels[v], v \in cut)
                                 ELSE notes[v]]
  BY DEF ReleaseNotes
<1>2. \A v \in Voice : KeepsLife(notes[v], notes[v])
  BY DEF KeepsLife
<1>3. ASSUME NEW v \in Voice, v \in matches
      PROVE  KeepsLife(notes[v], ReleaseNote(notes[v], levels[v], v \in cut))
  <2>1. levels[v] \in 0 .. MaxSteps /\ notes[v] \in NoteT /\ Sounding(notes[v])
    BY <1>3
  <2> QED BY <2>1, ReleaseNoteKeepsLife
<1> QED BY <1>1, <1>2, <1>3

\* Servicing a sounding voice.
LEMMA ServiceKeepsLife ==
  ASSUME NEW n \in NoteT, Sounding(n), NEW elapsed, NEW knob \in Knob,
         NEW levels \in 0 .. MaxSteps, NEW p, NEW fraction \in BOOLEAN
  PROVE  KeepsLife(n, SetPhaseIncrement(ProcessEnvelope(n, elapsed, knob, levels),
                                        p, fraction))
<1> DEFINE m == ProcessEnvelope(n, elapsed, knob, levels)
           l == EnvelopeStep(n, knob, levels)
<1>1. \/ l.midiVal = NOTE_PENDING_OFF /\ Off(l)
      \/ l.midiVal = n.midiVal
  <2>1. CASE n.steps > 0
    BY <2>1 DEF EnvelopeStep, NoteT
  <2>2. CASE ~(n.steps > 0) /\ n.envelopePhase = "ATTACK"
    BY <2>2 DEF EnvelopeStep, NoteT
  <2>3. CASE ~(n.steps > 0) /\ n.envelopePhase = "DECAY"
    BY <2>3 DEF EnvelopeStep, NoteT
  <2>4. CASE ~(n.steps > 0) /\ n.envelopePhase = "RELEASE"
    BY <2>4 DEF EnvelopeStep, NoteT, Off
  <2>5. CASE ~(n.steps > 0) /\ n.envelopePhase \in {"SUSTAIN", "OFF"}
    BY <2>5 DEF EnvelopeStep
  <2> QED BY <2>1, <2>2, <2>3, <2>4, <2>5 DEF NoteT, Envelope, Unlocked
<1>2. m = n \/ m = l
  BY DEF ProcessEnvelope
<1>3. m \in NoteT
  BY <1>2, EnvelopeStepType
<1> HIDE DEF m, l
<1>4. /\ SetPhaseIncrement(m, p, fraction).midiVal = m.midiVal
      /\ SetPhaseIncrement(m, p, fraction).envelopePhase = m.envelopePhase
  BY <1>3 DEF SetPhaseIncrement, NoteT
<1>5. KeepsLife(n, SetPhaseIncrement(m, p, fraction))
  BY <1>1, <1>2, <1>4 DEF KeepsLife, Settled, Off, Sounding, NOTE_PENDING_OFF
<1> QED BY <1>5 DEF m

LEMMA AudioStepKeepsLife ==
  ASSUME NEW n \in NoteT, NEW boundary
  PROVE  KeepsLife(n, AudioStep(n, boundary))
<1> DEFINE m == AudioStep(n, boundary)
<1>1. \/ m = n
      \/ m = [n EXCEPT !.midiVal = NOTE_OFF, !.envelopePhase = "OFF"]
      \/ /\ m = [n EXCEPT !.midiVal = NOTE_OFF, !.envelopePhase = n.envelopePhase]
         /\ n.midiVal = NOTE_PENDING_OFF
  BY DEF AudioStep, NoteT, Buf, IsSample
<1> HIDE DEF m
<1>2. \/ m = n
      \/ m.midiVal = NOTE_OFF /\ Off(m)
      \/ /\ m.midiVal = NOTE_OFF /\ m.envelopePhase = n.envelopePhase
         /\ n.midiVal = NOTE_PENDING_OFF
  BY <1>1 DEF NoteT, Off
<1>3. KeepsLife(n, m)
  BY <1>2 DEF KeepsLife, Settled, Off, Sounding, NOTE_OFF, NOTE_PENDING_OFF
<1> QED BY <1>3 DEF m

\* What asking a voice to end does to it.
LEMMA PendingIsSilent ==
  ASSUME NEW n \in NoteT
  PROVE  LET m == [n EXCEPT !.midiVal = NOTE_PENDING_OFF] IN
         ~Sounding(m) /\ m.envelopePhase = n.envelopePhase
BY DEF NoteT, Sounding, NOTE_PENDING_OFF

LEMMA LifeWithoutCall ==
  ASSUME call = NoCall PROVE SilentInv <=> AllSettled(note)
BY DEF SilentInv, AllSettled, NoCall

LEMMA LifeAfterCall ==
  ASSUME call' = NoCall PROVE SilentInv' <=> AllSettled(note')
BY DEF SilentInv, AllSettled, NoCall

LEMMA BeginNoteOnKeepsLife ==
  ASSUME TypeOK, AllSettled(note), NEW c, NEW p, NEW drum, NEW b,
         BeginNoteOn(c, p, drum, b)
  PROVE  SilentInv'
<1> DEFINE v     == FindNoteIndex(note, now)
           stops == StopsVoice(note, now)
<1>1. /\ note' = IF stops THEN [note EXCEPT ![v].midiVal = NOTE_PENDING_OFF] ELSE note
      /\ call'.op = "on" /\ call'.at = v
      /\ call'.waits = (stops \/ FreeVoices(note) # {})
      /\ call' # NoCall
  BY DEF BeginNoteOn, NoCall
<1>2. v \in Voice /\ (FreeVoices(note) # {} => v \in FreeVoices(note))
  <2>1. v \in Voice
    BY FindNoteIndexFinds DEF TypeOK
  <2>2. ASSUME FreeVoices(note) # {} PROVE v \in FreeVoices(note)
    <3>1. First(FreeVoices(note)) \in FreeVoices(note)
      BY <2>2, FirstIsMember DEF FreeVoices
    <3>2. v = First(FreeVoices(note))
      BY <2>2 DEF FindNoteIndex
    <3> QED BY <3>1, <3>2
  <2> QED BY <2>1, <2>2
<1> HIDE DEF v, stops
<1>3. CASE stops
  <2>1. /\ ~Sounding(note'[v]) /\ note'[v].envelopePhase = note[v].envelopePhase
        /\ \A w \in Voice : w # v => note'[w] = note[w]
    BY <1>1, <1>2, <1>3, PendingIsSilent DEF TypeOK
  <2> QED BY <1>1, <1>2, <2>1
          DEF AllSettled, Settled, Off, SilentInv
<1>4. CASE ~stops
  <2>1. call'.waits => ~Sounding(note[v])
    BY <1>1, <1>2, <1>4 DEF FreeVoices
  <2> QED BY <1>1, <1>2, <1>4, <2>1
          DEF AllSettled, Settled, Off, SilentInv
<1> QED BY <1>3, <1>4

LEMMA StopFromKeepsLife ==
  ASSUME NEW notes \in [Voice -> NoteT], AllSettled(notes), NEW first, NEW c,
         StopFrom(notes, first, c)
  PROVE  SilentInv'
<1> DEFINE targets == {v \in Voice : /\ v >= first
                                     /\ c # 0 => /\ notes[v].midiChannel = c
                                                 /\ Sounding(notes[v])}
           u == First(targets)
<1>1. CASE targets = {}
  <2>1. note' = notes /\ call' = NoCall
    BY <1>1 DEF StopFrom
  <2> QED BY <2>1, LifeAfterCall
<1>2. CASE targets # {}
  <2>1. u \in Voice
    BY <1>2, FirstIsMember
  <2>2. /\ note' = [notes EXCEPT ![u].midiVal = NOTE_PENDING_OFF]
        /\ call'.op = "stop" /\ call'.at = u /\ call' # NoCall
    BY <1>2 DEF StopFrom, NoCall
  <2> HIDE DEF u
  <2>3. /\ ~Sounding(note'[u]) /\ note'[u].envelopePhase = notes[u].envelopePhase
        /\ \A w \in Voice : w # u => note'[w] = notes[w]
    BY <2>1, <2>2, PendingIsSilent
  <2> QED BY <2>1, <2>2, <2>3
          DEF AllSettled, Settled, Off, SilentInv
<1> QED BY <1>1, <1>2

LEMMA FinishNoteOnKeepsLife ==
  ASSUME TypeOK, SilentInv, FinishNoteOn PROVE SilentInv'
<1> DEFINE at == call.at
<1>1. /\ at \in Voice /\ \A w \in Voice : w # at => note'[w] = note[w]
      /\ note'[at].envelopePhase = "ATTACK"
      /\ Sounding(note'[at]) \/ note'[at].midiVal = NOTE_OFF
      /\ call' = NoCall
  BY FinishNoteOnStarts DEF FinishNoteOn
<1>2. AllSettled(note')
  BY <1>1 DEF AllSettled, Settled, SilentInv
<1> QED BY <1>1, <1>2, LifeAfterCall

LEMMA ContinueStopKeepsLife ==
  ASSUME TypeOK, SilentInv, ContinueStop PROVE SilentInv'
<1> DEFINE at    == call.at
           notes == [note EXCEPT ![at].envelopePhase = "OFF"]
<1>1. call.op = "stop" /\ at \in Voice
  BY DEF ContinueStop, StopDone, TypeOK, NoCall, OnCall, StopCall
<1>2. /\ [note[at] EXCEPT !.envelopePhase = "OFF"] \in NoteT
      /\ LET m == [note[at] EXCEPT !.envelopePhase = "OFF"] IN
         Off(m) /\ m.midiVal = note[at].midiVal
  BY <1>1 DEF TypeOK, NoteT, Envelope, Off
<1>3. /\ notes \in [Voice -> NoteT]
      /\ \A w \in Voice : w # at => notes[w] = note[w]
      /\ notes[at] = [note[at] EXCEPT !.envelopePhase = "OFF"]
  BY <1>1, <1>2 DEF TypeOK
<1>4. StopFrom(notes, at + 1, call.channelNum)
  BY DEF ContinueStop
<1> HIDE DEF notes, at
<1>6. AllSettled(notes)
  <2>1. \A w \in Voice : w # at => Settled(note[w])
    BY <1>1 DEF SilentInv, at
  <2> QED BY <1>2, <1>3, <2>1 DEF AllSettled, Settled
<1> QED BY <1>3, <1>4, <1>6, StopFromKeepsLife

\* Retargeting a voice and releasing a button's voice.
LEMMA ButtonOffKeepsLife ==
  ASSUME TypeOK, AllSettled(note), NEW b \in Button, NEW again \in BOOLEAN,
         ButtonOff(b, again)
  PROVE  AllSettled(note')
<1> DEFINE v     == button[b].noteIndex
           notes == [note EXCEPT ![v].trigger = UNSET]
           matches == {w \in Voice : /\ notes[w].midiVal = button[b].midiVal
                                     /\ notes[w].midiChannel = selected}
<1>1. v \in Voice /\ button[b].midiVal \in Pitch
  BY DEF ButtonOff, HasVoice, TypeOK, ButtonT
<1>2. CASE note[v].envelopePhase = "RELEASE"
  BY <1>2 DEF ButtonOff
<1>3. CASE note[v].envelopePhase # "RELEASE"
  <2>1. LET m == [note[v] EXCEPT !.trigger = UNSET] IN
        /\ m \in NoteT
        /\ m.midiVal = note[v].midiVal /\ m.envelopePhase = note[v].envelopePhase
    BY <1>1 DEF TypeOK, NoteT
  <2>2. /\ notes \in [Voice -> NoteT]
        /\ \A w \in Voice : /\ notes[w].midiVal = note[w].midiVal
                            /\ notes[w].envelopePhase = note[w].envelopePhase
    BY <1>1, <2>1 DEF TypeOK
  <2>3. ReleaseNotes(notes, matches)
    BY <1>3 DEF ButtonOff, DoNoteOff
  <2>4. \A w \in matches \cap Voice : Sounding(notes[w])
    BY <1>1, VoicesAssumption DEF Sounding
  <2> HIDE DEF notes, matches
  <2>5. \A w \in Voice : KeepsLife(notes[w], note'[w])
    BY <2>2, <2>3, <2>4, ReleaseNotesKeepsLife
  <2> QED BY <2>2, <2>5 DEF AllSettled, KeepsLife, Settled, Off, Sounding
<1> QED BY <1>2, <1>3

\* Steps that leave midiVal and envelopePhase as they are, or cut the voice.
LEMMA SameLife ==
  ASSUME SilentInv, call = NoCall, call' = NoCall,
         \A v \in Voice : \/ /\ note'[v].midiVal = note[v].midiVal
                             /\ note'[v].envelopePhase = note[v].envelopePhase
                          \/ Cut(note[v], note'[v])
  PROVE  SilentInv'
<1>1. AllSettled(note')
  BY LifeWithoutCall DEF AllSettled, Settled, Sounding, Off, Cut
<1> QED BY <1>1, LifeAfterCall

\* setWaveform() touches neither field of a voice, unless the audio ISR cuts it.
LEMMA SetWaveformLife ==
  ASSUME TypeOK, NEW c \in Channel, NEW buf \in Buf, SetWaveform(c, buf)
  PROVE  \A v \in Voice :
           \/ /\ note'[v].midiVal = note[v].midiVal
              /\ note'[v].envelopePhase = note[v].envelopePhase
           \/ Cut(note[v], note'[v])
<1>1. ASSUME NEW n \in NoteT, NEW cut
      PROVE  LET m == ChangeBuf(n, buf, cut) IN
             \/ m.midiVal = n.midiVal /\ m.envelopePhase = n.envelopePhase
             \/ Cut(n, m)
  BY DEF ChangeBuf, Cut, NoteT
<1> QED BY <1>1, SetWaveformRetargets DEF TypeOK

LEMMA SilentStep == TypeOK /\ SilentInv /\ [Next]_vars => SilentInv'
<1> SUFFICES ASSUME TypeOK, SilentInv, [Next]_vars PROVE SilentInv'
  OBVIOUS
<1>1. ASSUME call = NoCall PROVE AllSettled(note)
  BY <1>1, LifeWithoutCall
<1>2. ASSUME call' = call, note' = note PROVE SilentInv'
  BY <1>2 DEF SilentInv
<1>3. ASSUME NEW c \in Channel, NEW buf \in Buf, SetWaveform(c, buf),
             call = NoCall, call' = NoCall
      PROVE  SilentInv'
  <2> QED BY <1>3, SetWaveformLife, SameLife
<1>4. CASE Input
  <2>1. CASE \E c \in WireChannel, p \in Pitch : HandleNoteOn(c, p)
    BY <2>1, <1>1, BeginNoteOnKeepsLife DEF HandleNoteOn, At
  <2>2. ASSUME NEW c \in WireChannel, NEW p \in Pitch, HandleNoteOff(c, p)
        PROVE  SilentInv'
    <3>1. PICK matches : /\ ReleaseNotes(note, matches)
                         /\ \A v \in matches \cap Voice : Sounding(note[v])
      <4>1. CASE c = DRUM_CHANNEL
        BY <2>2, <4>1 DEF HandleNoteOff, DoDrumNoteOff
      <4>2. CASE c # DRUM_CHANNEL
        BY <2>2, <4>2, VoicesAssumption DEF HandleNoteOff, DoNoteOff, Sounding
      <4> QED BY <4>1, <4>2
    <3>2. \A v \in Voice : KeepsLife(note[v], note'[v])
      BY <3>1, ReleaseNotesKeepsLife DEF TypeOK
    <3> QED BY <2>2, <3>2, KeepsSilentInv DEF HandleNoteOff
  <2>3. ASSUME NEW c \in WireChannel, NEW buf \in Waveform, HandleProgramChange(c, buf)
        PROVE  SilentInv'
    <3>1. LogicalChannel(c) \in Channel /\ buf \in Buf
      BY LogicalChannelType, SynthAssumption
    <3> QED BY <2>3, <3>1, <1>3 DEF HandleProgramChange, At
  <2>4. CASE (\E c \in WireChannel : AllNotesOff(c)) \/ BeginReset
    BY <2>4, <1>1, StopFromKeepsLife DEF AllNotesOff, BeginReset, At, TypeOK
  <2>5. ASSUME NEW c \in Channel, ChannelSelect(c) PROVE SilentInv'
    <3>1. ASSUME NEW v \in Voice
          PROVE  \/ /\ note'[v].midiVal = note[v].midiVal
                    /\ note'[v].envelopePhase = note[v].envelopePhase
                 \/ Cut(note[v], note'[v])
      BY <2>5, ChannelSelectMoves
    <3>2. call = NoCall /\ call' = NoCall
      BY <2>5 DEF ChannelSelect, At
    <3> QED BY <3>1, <3>2, SameLife
  <2>6. ASSUME NEW buf \in Waveform, WaveformKnob(buf) PROVE SilentInv'
    <3>1. selected \in Channel /\ buf \in Buf
      BY SynthAssumption DEF TypeOK
    <3> QED BY <2>6, <3>1, <1>3 DEF WaveformKnob, At
  <2>7. CASE \E b \in Button : PinChange(b)
    BY <2>7, <1>2 DEF PinChange
  <2> QED BY <1>4, <2>1, <2>2, <2>3, <2>4, <2>5, <2>6, <2>7 DEF Input
<1>5. CASE Main
  <2>1. CASE FinishNoteOn \/ ContinueStop
    BY <2>1, FinishNoteOnKeepsLife, ContinueStopKeepsLife
  <2>2. CASE FinishReset
    <3>1. note' = [v \in Voice |-> SilentNote] /\ call' = NoCall
      BY <2>2 DEF FinishReset
    <3>2. Settled(SilentNote)
      BY DEF SilentNote, Settled, Off
    <3>3. AllSettled(note')
      BY <3>1, <3>2 DEF AllSettled
    <3> QED BY <3>1, <3>3, LifeAfterCall
  <2>3. CASE ReadDone \/ ChannelKept \/ PotsDone \/ \E b \in Button : ButtonIdle(b)
    BY <2>3, <1>2 DEF ReadDone, ChannelKept, PotsDone, ButtonIdle
  <2>4. CASE \E b \in Button : ButtonOn(b)
    BY <2>4, <1>1, BeginNoteOnKeepsLife DEF ButtonOn, Polls, At
  <2>5. ASSUME NEW b \in Button, ButtonHeld(b) PROVE SilentInv'
    <3> DEFINE u == button[b].noteIndex
    <3>1. /\ note[u] \in NoteT /\ Sounding(note[u])
          /\ \A w \in Voice : w # u => note'[w] = note[w]
      BY <2>5, ButtonHeldBends DEF ButtonHeld, HasVoice, TypeOK
    <3>2. PICK p \in Pitch :
            \/ note'[u] = [note[u] EXCEPT !.midiVal = p]
            \/ note'[u] = [note[u] EXCEPT !.midiVal = p, !.envelopePhase = "OFF"]
      BY <2>5, ButtonHeldBends
    <3> HIDE DEF u
    <3>3. Sounding(note'[u])
      BY <3>1, <3>2, VoicesAssumption DEF Sounding, NoteT
    <3>4. \A v \in Voice : KeepsLife(note[v], note'[v])
      BY <3>1, <3>3 DEF KeepsLife, Settled
    <3> QED BY <2>5, <3>4, KeepsSilentInv DEF ButtonHeld
  <2>6. ASSUME NEW b \in Button, NEW again \in BOOLEAN, ButtonOff(b, again)
        PROVE  SilentInv'
    <3>1. call = NoCall /\ call' = NoCall
      BY <2>6 DEF ButtonOff, Polls, At
    <3> QED BY <2>6, <3>1, <1>1, ButtonOffKeepsLife, LifeAfterCall
  <2>7. ASSUME NEW v \in Voice, NEW elapsed \in BOOLEAN, Service(v, elapsed)
        PROVE  SilentInv'
    <3>1. CASE Sounding(note[v])
      <4>1. PICK knob \in Knob, fraction \in BOOLEAN, levels \in 0 .. MaxSteps :
              note' = [note EXCEPT ![v] =
                         SetPhaseIncrement(
                           ProcessEnvelope(note[v], elapsed, knob, levels),
                           note[v].midiVal, fraction)]
        BY <2>7, <3>1 DEF Service
      <4>2. KeepsLife(note[v], note'[v])
        BY <3>1, <4>1, ServiceKeepsLife DEF TypeOK
      <4>3. \A w \in Voice : KeepsLife(note[w], note'[w])
        BY <4>1, <4>2 DEF KeepsLife, TypeOK
      <4> QED BY <2>7, <4>3, KeepsSilentInv DEF Service
    <3>2. CASE ~Sounding(note[v])
      BY <2>7, <3>2, <1>2 DEF Service
    <3> QED BY <3>1, <3>2
  <2> QED BY <1>5, <2>1, <2>2, <2>3, <2>4, <2>5, <2>6, <2>7 DEF Main
<1>6. ASSUME NEW boundary, AudioISR(boundary) PROVE SilentInv'
  <2>1. \A v \in Voice : KeepsLife(note[v], note'[v])
    BY <1>6, AudioStepKeepsLife DEF AudioISR, TypeOK
  <2> QED BY <1>6, <2>1, KeepsSilentInv DEF AudioISR
<1>7. CASE Millis \/ UNCHANGED vars
  BY <1>7, <1>2 DEF Millis, vars
<1> QED BY <1>4, <1>5, <1>6, <1>7 DEF Next

LEMMA SilentHolds == Spec => []SilentInv
BY TypeCorrect, SilentInit, SilentStep, PTL DEF Spec
-----------------------------------------------------------------------------
(* Channels and waveforms *)

ConfigInv == DrumVoicesAreSamples /\ WaveformFollowsChannel

LEMMA ConfigInit == Init => ConfigInv
BY DEF Init, ConfigInv, DrumVoicesAreSamples, WaveformFollowsChannel, SilentNote

LEMMA PreviewStays == [Next]_vars => seqPreview' = seqPreview
BY DEF Next, vars, Input, Main, HandleNoteOn, HandleNoteOff, HandleProgramChange, AllNotesOff,
       BeginReset, ChannelSelect, WaveformKnob, PinChange, FinishNoteOn, ContinueStop,
       FinishReset, ReadDone, ChannelKept, ButtonOn, ButtonIdle, ButtonHeld, ButtonOff,
       PotsDone, Service, AudioISR, Millis

\* The steps that leave every voice its channel, waveform and drum key.
LEMMA ConfigKept ==
  ASSUME TypeOK, SilentInv, [Next]_vars
  PROVE  \/ waveform' = waveform /\ \A v \in Voice : SameConfig(note[v], note'[v])
         \/ FinishNoteOn \/ FinishReset
         \/ \E c \in Channel, buf \in Buf : SetWaveform(c, buf)
         \/ \E c \in Channel : ChannelSelect(c)
<1> DEFINE Kept == waveform' = waveform /\ \A v \in Voice : SameConfig(note[v], note'[v])
<1>1. ASSUME note' = note, waveform' = waveform PROVE Kept
  BY <1>1 DEF SameConfig
<1>2. ASSUME Quiet, waveform' = waveform PROVE Kept
  BY <1>2, QuietKeepsConfig
<1> HIDE DEF Kept
<1>3. CASE Input
  <2>1. CASE \E c \in WireChannel, p \in Pitch : HandleNoteOn(c, p)
    BY <2>1, <1>2, BeginNoteOnQuiet DEF HandleNoteOn, Kept
  <2>2. CASE \E c \in WireChannel, p \in Pitch : HandleNoteOff(c, p)
    BY <2>2, <1>2, ReleaseNotesQuiet DEF HandleNoteOff, DoNoteOff, DoDrumNoteOff, Kept
  <2>3. CASE \E c \in WireChannel, buf \in Waveform : HandleProgramChange(c, buf)
    BY <2>3, LogicalChannelType, SynthAssumption DEF HandleProgramChange
  <2>4. CASE (\E c \in WireChannel : AllNotesOff(c)) \/ BeginReset
    <3>1. Quiet
      BY <2>4, StopFromQuiet DEF AllNotesOff, BeginReset, Quiet, TypeOK
    <3> QED BY <2>4, <3>1, <1>2 DEF AllNotesOff, BeginReset, Kept
  <2>5. CASE \E c \in Channel : ChannelSelect(c)
    BY <2>5
  <2>6. CASE \E buf \in Waveform : WaveformKnob(buf)
    BY <2>6, SynthAssumption DEF WaveformKnob, TypeOK
  <2>7. CASE \E b \in Button : PinChange(b)
    BY <2>7, <1>1 DEF PinChange, Kept
  <2> QED BY <1>3, <2>1, <2>2, <2>3, <2>4, <2>5, <2>6, <2>7 DEF Input
<1>4. CASE Main
  <2>1. CASE FinishNoteOn \/ FinishReset
    BY <2>1
  <2>2. CASE ContinueStop
    BY <2>2, <1>2, ContinueStopQuiet DEF ContinueStop, StopDone, SilentInv, Kept
  <2>3. CASE ReadDone \/ ChannelKept \/ PotsDone
    BY <2>3, <1>1 DEF ReadDone, ChannelKept, PotsDone, Kept
  <2>4. ASSUME NEW b \in Button, ButtonOn(b) PROVE Kept
    BY <2>4, <1>2, BeginNoteOnQuiet DEF ButtonOn
  <2>5. ASSUME NEW b \in Button, ButtonIdle(b) PROVE Kept
    BY <2>5, <1>1 DEF ButtonIdle
  <2>6. ASSUME NEW b \in Button, ButtonHeld(b) PROVE Kept
    <3>1. \A m \in NoteT, p \in Pitch :
            /\ SameConfig(m, [m EXCEPT !.midiVal = p])
            /\ SameConfig(m, [m EXCEPT !.midiVal = p, !.envelopePhase = "OFF"])
      BY DEF SameConfig, NoteT
    <3>2. PICK p \in Pitch :
            LET u == button[b].noteIndex IN
            /\ u \in Voice
            /\ \/ note'[u] = [note[u] EXCEPT !.midiVal = p]
               \/ note'[u] = [note[u] EXCEPT !.midiVal = p, !.envelopePhase = "OFF"]
            /\ \A w \in Voice : w # u => note'[w] = note[w]
      BY <2>6, ButtonHeldBends
    <3>3. \A w \in Voice : SameConfig(note[w], note'[w])
      <4>1. \A w \in Voice : note[w] \in NoteT
        BY DEF TypeOK
      <4> DEFINE u == button[b].noteIndex
      <4>2. /\ note[u] \in NoteT
            /\ \/ note'[u] = [note[u] EXCEPT !.midiVal = p]
               \/ note'[u] = [note[u] EXCEPT !.midiVal = p, !.envelopePhase = "OFF"]
        BY <3>2, <4>1
      <4>3. SameConfig(note[u], note'[u])
        <5> HIDE DEF u
        <5>1. /\ SameConfig(note[u], [note[u] EXCEPT !.midiVal = p])
              /\ SameConfig(note[u], [note[u] EXCEPT !.midiVal = p, !.envelopePhase = "OFF"])
          BY <3>1, <4>2
        <5> QED BY <4>2, <5>1
      <4>4. \A w \in Voice : w # u => note'[w] = note[w]
        BY <3>2
      <4> HIDE DEF u
      <4> QED BY <4>3, <4>4 DEF SameConfig
    <3> QED BY <2>6, <3>3 DEF ButtonHeld, Kept
  <2>7. ASSUME NEW b \in Button, NEW again \in BOOLEAN, ButtonOff(b, again)
        PROVE  Kept
    <3>1. CASE note[button[b].noteIndex].envelopePhase = "RELEASE"
      BY <2>7, <3>1, <1>1 DEF ButtonOff
    <3>2. CASE note[button[b].noteIndex].envelopePhase # "RELEASE"
      BY <2>7, <3>2, ButtonOffReleases DEF ButtonOff, Kept
    <3> QED BY <3>1, <3>2
  <2>8. CASE \E v \in Voice, elapsed \in BOOLEAN : Service(v, elapsed)
    BY <2>8, <1>2, ServiceQuiet DEF Service, Kept
  <2> QED BY <1>4, <2>1, <2>2, <2>3, <2>4, <2>5, <2>6, <2>7, <2>8 DEF Main, Kept
<1>5. CASE \E boundary \in SUBSET Voice : AudioISR(boundary)
  BY <1>5, <1>2, AudioISRQuiet DEF AudioISR, Kept
<1>6. CASE Millis \/ UNCHANGED vars
  BY <1>6, <1>1 DEF Millis, vars, Kept
<1> QED BY <1>3, <1>4, <1>5, <1>6 DEF Next

LEMMA ConfigStep == TypeOK /\ SilentInv /\ ConfigInv /\ [Next]_vars => ConfigInv'
<1> SUFFICES ASSUME TypeOK, SilentInv, ConfigInv, [Next]_vars PROVE ConfigInv'
  OBVIOUS
<1> USE DEF ConfigInv, DrumVoicesAreSamples, WaveformFollowsChannel, IsSample
<1>6. seqPreview' = seqPreview
  BY PreviewStays
<1>1. CASE waveform' = waveform /\ \A v \in Voice : SameConfig(note[v], note'[v])
  BY <1>1, <1>6 DEF SameConfig
<1>2. CASE FinishNoteOn
  <2>1. waveform' = waveform
    BY <1>2 DEF FinishNoteOn
  <2>2. call \in OnCall
    BY <1>2, FinishNoteOnStarts
  <2>3. call.midiNote \in Pitch
    BY <2>2 DEF OnCall
  <2>4. call.midiNote # UNSET
    BY <2>3, VoicesAssumption DEF UNSET, NOTE_PENDING_OFF
  <2> QED BY <1>2, <1>6, <2>1, <2>2, <2>4, FinishNoteOnStarts DEF OnCall
<1>3. CASE FinishReset
  BY <1>3 DEF FinishReset, SilentNote
<1>4. CASE \E c \in Channel, buf \in Buf : SetWaveform(c, buf)
  <2>1. PICK c \in Channel, buf \in Buf : SetWaveform(c, buf)
    BY <1>4
  <2>2. ASSUME NEW m \in NoteT, NEW cut
        PROVE
          /\ ChangeBuf(m, buf, cut).buf = buf
          /\ ChangeBuf(m, buf, cut).midiChannel = m.midiChannel
          /\ ChangeBuf(m, buf, cut).drum = m.drum
    BY DEF ChangeBuf, NoteT
  <2>3. waveform'[c] = buf /\ \A d \in Channel : d # c => waveform'[d] = waveform[d]
    BY <2>1, SetWaveformRetargets DEF TypeOK
  <2>4. \A v \in Voice : note[v] \in NoteT /\ note[v].midiChannel \in {0} \cup Channel
    BY DEF TypeOK, NoteT
  <2>5. ASSUME NEW v \in Voice
        PROVE  /\ note'[v].drum # UNSET => note'[v].buf = "sample"
               /\ ~seqPreview /\ note'[v].midiChannel # 0 /\ note'[v].drum = UNSET
                    => note'[v].buf = waveform'[note'[v].midiChannel]
    <3>1. CASE note[v].midiChannel = c /\ note[v].drum = UNSET /\ ~seqPreview
      BY <2>1, <2>2, <2>3, <2>4, <3>1, SetWaveformRetargets
    <3>2. CASE ~(note[v].midiChannel = c /\ note[v].drum = UNSET /\ ~seqPreview)
      BY <2>1, <2>3, <2>4, <3>2, SetWaveformRetargets
    <3> QED BY <3>1, <3>2
  <2> QED BY <1>6, <2>5
<1>5. CASE \E c \in Channel : ChannelSelect(c)
  <2>1. PICK c \in Channel : ChannelSelect(c)
    BY <1>5
  <2>2. waveform' = waveform
    BY <2>1 DEF ChannelSelect
  <2> QED BY <1>6, <2>1, <2>2, ChannelSelectMoves
<1> QED BY <1>1, <1>2, <1>3, <1>4, <1>5, ConfigKept

\* A voice that carries the drum bit is a sample, so releaseNote() never indexes
\* settings[] with the unmasked channel number.
THEOREM DrumVoicesStaySamples == Spec => []DrumVoicesAreSamples
<1>1. ConfigInv => DrumVoicesAreSamples
  BY DEF ConfigInv
<1> QED BY <1>1, TypeCorrect, SilentHolds, ConfigInit, ConfigStep, PTL DEF Spec

\* Every melodic voice plays the waveform its channel is set to, unless a stay
\* in MODE_GROOVEBOX left seqPreview set.
THEOREM WaveformsFollowChannels == Spec => []WaveformFollowsChannel
<1>1. ConfigInv => WaveformFollowsChannel
  BY DEF ConfigInv
<1> QED BY <1>1, TypeCorrect, SilentHolds, ConfigInit, ConfigStep, PTL DEF Spec
-----------------------------------------------------------------------------
(* The moment a voice is reused *)

\* A note on that does not wait has chosen a voice that stands still, or
\* advances by fractions only, and nobody sets it going meanwhile.
StandsStill ==
  call.op = "on" /\ ~call.waits => ~note[call.at].phaseInc

LEMMA BeginNoteOnFindsItStill ==
  ASSUME TypeOK, NEW c, NEW p, NEW drum, NEW b, BeginNoteOn(c, p, drum, b)
  PROVE  StandsStill'
<1> DEFINE v     == FindNoteIndex(note, now)
           stops == StopsVoice(note, now)
<1>1. /\ note' = IF stops THEN [note EXCEPT ![v].midiVal = NOTE_PENDING_OFF] ELSE note
      /\ call'.at = v /\ call'.waits = (stops \/ FreeVoices(note) # {})
  BY DEF BeginNoteOn
<1>2. ASSUME ~stops, FreeVoices(note) = {} PROVE ~note[v].phaseInc
  BY <1>2 DEF StopsVoice
<1> HIDE DEF v, stops
<1> QED BY <1>1, <1>2 DEF StandsStill

LEMMA StandsStillStep == TypeOK /\ StandsStill /\ [Next]_vars => StandsStill'
<1> SUFFICES ASSUME TypeOK, StandsStill, [Next]_vars PROVE StandsStill'
  OBVIOUS
<1>1. ASSUME call'.op # "on" PROVE StandsStill'
  BY <1>1 DEF StandsStill
<1>2. ASSUME NEW stage, At(stage), call' = call PROVE StandsStill'
  BY <1>1, <1>2 DEF At, NoCall
<1>3. ASSUME call' = call, note' = note PROVE StandsStill'
  BY <1>3 DEF StandsStill
<1>4. ASSUME NEW notes, NEW first, NEW c, StopFrom(notes, first, c)
      PROVE  StandsStill'
  BY <1>1, <1>4 DEF StopFrom, NoCall
<1>5. CASE Input
  <2>1. CASE \E c \in WireChannel, p \in Pitch : HandleNoteOn(c, p)
    BY <2>1, BeginNoteOnFindsItStill DEF HandleNoteOn
  <2>2. CASE \E c \in WireChannel, p \in Pitch : HandleNoteOff(c, p)
    BY <2>2, <1>2 DEF HandleNoteOff
  <2>3. CASE \E c \in WireChannel, buf \in Waveform : HandleProgramChange(c, buf)
    BY <2>3, <1>2 DEF HandleProgramChange
  <2>4. CASE (\E c \in WireChannel : AllNotesOff(c)) \/ BeginReset
    BY <2>4, <1>4 DEF AllNotesOff, BeginReset
  <2>5. CASE \E c \in Channel : ChannelSelect(c)
    BY <2>5, <1>2 DEF ChannelSelect
  <2>6. CASE \E buf \in Waveform : WaveformKnob(buf)
    BY <2>6, <1>2 DEF WaveformKnob
  <2>7. CASE \E b \in Button : PinChange(b)
    BY <2>7, <1>3 DEF PinChange
  <2> QED BY <1>5, <2>1, <2>2, <2>3, <2>4, <2>5, <2>6, <2>7 DEF Input
<1>6. CASE Main
  <2>1. CASE FinishNoteOn
    BY <2>1, <1>1 DEF FinishNoteOn, NoCall
  <2>2. CASE FinishReset
    BY <2>2, <1>1 DEF FinishReset, NoCall
  <2>3. CASE ContinueStop
    BY <2>3, <1>4 DEF ContinueStop
  <2>4. CASE ReadDone \/ ChannelKept \/ PotsDone
    BY <2>4, <1>3 DEF ReadDone, ChannelKept, PotsDone
  <2>5. CASE \E b \in Button : ButtonOn(b)
    BY <2>5, BeginNoteOnFindsItStill DEF ButtonOn
  <2>6. CASE \E b \in Button : ButtonIdle(b) \/ ButtonHeld(b)
    BY <2>6, <1>2 DEF ButtonIdle, ButtonHeld, Polls
  <2>7. CASE \E b \in Button, again \in BOOLEAN : ButtonOff(b, again)
    BY <2>7, <1>2 DEF ButtonOff, Polls
  <2>8. CASE \E v \in Voice, elapsed \in BOOLEAN : Service(v, elapsed)
    BY <2>8, <1>2 DEF Service
  <2> QED BY <1>6, <2>1, <2>2, <2>3, <2>4, <2>5, <2>6, <2>7, <2>8 DEF Main
<1>7. ASSUME NEW boundary, AudioISR(boundary) PROVE StandsStill'
  <2>1. ASSUME NEW n \in NoteT, NEW ends
        PROVE  AudioStep(n, ends).phaseInc = n.phaseInc
    BY DEF AudioStep, NoteT
  <2>2. \A v \in Voice : note'[v].phaseInc = note[v].phaseInc
    BY <1>7, <2>1 DEF AudioISR, TypeOK
  <2>3. call' = call /\ (call.op = "on" => call.at \in Voice)
    BY <1>7 DEF AudioISR, TypeOK, NoCall, StopCall, OnCall
  <2> QED BY <2>2, <2>3 DEF StandsStill
<1>8. CASE Millis \/ UNCHANGED vars
  BY <1>8, <1>3 DEF Millis, vars
<1> QED BY <1>5, <1>6, <1>7, <1>8 DEF Next

\* A voice that advances by whole samples is reused only after the audio ISR
\* has taken it to NOTE_OFF at the end of its waveform.
THEOREM ReusedAtBoundary == Spec => RestartedAtBoundary
<1>1. Init => StandsStill
  BY DEF Init, StandsStill, NoCall
<1>2. ASSUME TypeOK, StandsStill, [Next]_vars, NEW v \in Voice, Restarts(v)
      PROVE  note[v].midiVal = NOTE_OFF \/ ~note[v].phaseInc
  <2>1. FinishNoteOn
    <3>1. call.op = "on" /\ call' = NoCall
      BY <1>2 DEF Restarts
    <3>2. call' # call /\ ~StopDone /\ \A stage : ~At(stage)
      BY <3>1 DEF StopDone, At, NoCall
    <3>3. ~Input
      BY <3>2 DEF Input, HandleNoteOn, HandleNoteOff, HandleProgramChange,
                  AllNotesOff, BeginReset, ChannelSelect, WaveformKnob, PinChange
    <3>4. Main => FinishNoteOn
      BY <3>2 DEF Main, ContinueStop, FinishReset, ReadDone, ChannelKept,
                  PotsDone, ButtonOn, ButtonIdle, ButtonHeld, ButtonOff,
                  Polls, Service
    <3>5. \A boundary : ~AudioISR(boundary)
      BY <3>2 DEF AudioISR
    <3>6. ~Millis /\ ~UNCHANGED vars
      BY <3>2 DEF Millis, vars
    <3> QED BY <1>2, <3>3, <3>4, <3>5, <3>6 DEF Next
  <2>2. call.waits => Waited(note[v])
    BY <1>2, <2>1 DEF FinishNoteOn, Restarts
  <2>3. ~call.waits => ~note[v].phaseInc
    BY <1>2 DEF StandsStill, Restarts
  <2> QED BY <2>2, <2>3 DEF Waited, Moving
<1>3. TypeOK /\ StandsStill /\ [Next]_vars
        => [\A v \in Voice : Restarts(v) => \/ note[v].midiVal = NOTE_OFF
                                            \/ ~note[v].phaseInc]_vars
  BY <1>2
<1> QED BY <1>1, <1>3, TypeCorrect, StandsStillStep, PTL
        DEF Spec, RestartedAtBoundary
-----------------------------------------------------------------------------
(* Which voice a new note takes *)

\* With no voice free, findNoteIndex() respects class and age.
LEMMA StolenInOrder ==
  ASSUME TypeOK, FreeVoices(note) = {}
  PROVE  LET v        == FindNoteIndex(note, now)
             released == ReleasedVoices(note, now)
         IN  /\ v \in Voice
             /\ IsSample(note[v]) => \A w \in Voice : IsSample(note[w])
             /\ released # {} => v \in released
             /\ \A w \in Voice : note[w].startTime < note[v].startTime =>
                  \/ IsSample(note[w]) /\ ~IsSample(note[v])
                  \/ v \in released /\ w \notin released
<1> DEFINE v        == FindNoteIndex(note, now)
           released == ReleasedVoices(note, now)
           melodic  == NonSamples(note)
<1>1. /\ note \in [Voice -> NoteT]
      /\ released \in SUBSET Voice /\ melodic \in SUBSET Voice
      /\ \A w \in released : ~IsSample(note[w])
      /\ \A w \in Voice : w \in melodic <=> ~IsSample(note[w])
  BY DEF TypeOK, ReleasedVoices, NonSamples
<1>2. \A w \in Voice : note[w].startTime \in Nat
  BY <1>1 DEF NoteT
<1>3. v \in Voice
  BY <1>1, FindNoteIndexFinds
\* what follows from v being the oldest of a class
<1>4. ASSUME NEW S \in SUBSET Voice, v \in S,
             \A w \in S : note[v].startTime <= note[w].startTime
      PROVE  \A w \in S : ~(note[w].startTime < note[v].startTime)
  BY <1>2, <1>4
<1>5. CASE released # {}
  <2>1. v = Oldest(note, released)
    BY <1>5 DEF FindNoteIndex
  <2>2. v \in released /\ \A w \in released : note[v].startTime <= note[w].startTime
    BY <1>1, <1>5, <2>1, OldestIsOldest
  <2> HIDE DEF v, released, melodic
  <2>3. ~IsSample(note[v]) /\ \A w \in released : ~(note[w].startTime < note[v].startTime)
    BY <1>1, <1>4, <2>2
  <2>4. /\ IsSample(note[v]) => \A w \in Voice : IsSample(note[w])
        /\ released # {} => v \in released
        /\ \A w \in Voice : note[w].startTime < note[v].startTime =>
             \/ IsSample(note[w]) /\ ~IsSample(note[v])
             \/ v \in released /\ w \notin released
    BY <2>2, <2>3
  <2> QED BY <1>3, <2>4 DEF v, released
<1>6. CASE released = {} /\ melodic # {}
  <2>1. v = Oldest(note, melodic)
    BY <1>6 DEF FindNoteIndex
  <2>2. v \in melodic /\ \A w \in melodic : note[v].startTime <= note[w].startTime
    BY <1>1, <1>6, <2>1, OldestIsOldest
  <2> HIDE DEF v, released, melodic
  <2>3. \A w \in melodic : ~(note[w].startTime < note[v].startTime)
    BY <1>1, <1>4, <2>2
  <2>4. /\ ~IsSample(note[v])
        /\ \A w \in Voice : note[w].startTime < note[v].startTime => IsSample(note[w])
    BY <1>1, <2>2, <2>3
  <2> QED BY <1>3, <1>6, <2>4 DEF v, released
<1>7. CASE released = {} /\ melodic = {}
  <2>1. v = Oldest(note, Voice)
    BY <1>7 DEF FindNoteIndex
  <2>2. \A w \in Voice : note[v].startTime <= note[w].startTime
    BY <1>1, <1>3, <2>1, OldestIsOldest
  <2> HIDE DEF v, released, melodic
  <2>3. \A w \in Voice : ~(note[w].startTime < note[v].startTime) /\ IsSample(note[w])
    BY <1>1, <1>3, <1>4, <1>7, <2>2
  <2> QED BY <1>3, <1>7, <2>3 DEF v, released
<1> QED BY <1>5, <1>6, <1>7

\* A note is cut short only when every voice sounds, released before held,
\* oldest first, samples last.
THEOREM StolenOnlyInOrder == Spec => StealsInOrder
<1> DEFINE InOrder ==
      call = NoCall /\ call'.op = "on" /\ Sounding(note[call'.at]) =>
        LET v        == call'.at
            older(w) == note[w].startTime < note[v].startTime
            released == ReleasedVoices(note, now)
        IN  /\ \A w \in Voice : Sounding(note[w])
            /\ IsSample(note[v]) => \A w \in Voice : IsSample(note[w])
            /\ released # {} => v \in released
            /\ \A w \in Voice : older(w) =>
                 \/ IsSample(note[w]) /\ ~IsSample(note[v])
                 \/ v \in released /\ w \notin released
<1>1. ASSUME TypeOK, NEW c, NEW p, NEW drum, NEW b, BeginNoteOn(c, p, drum, b)
      PROVE  InOrder
  <2> SUFFICES ASSUME Sounding(note[call'.at]) PROVE InOrder
    OBVIOUS
  <2>1. call'.at = FindNoteIndex(note, now)
    BY <1>1 DEF BeginNoteOn
  <2>2. FreeVoices(note) = {}
    <3>1. SUFFICES ASSUME FreeVoices(note) # {} PROVE FALSE
      OBVIOUS
    <3>2. First(FreeVoices(note)) \in FreeVoices(note)
      BY <3>1, FirstIsMember DEF FreeVoices
    <3>3. call'.at = First(FreeVoices(note))
      BY <2>1, <3>1 DEF FindNoteIndex
    <3> QED BY <3>2, <3>3 DEF FreeVoices
  <2>3. \A w \in Voice : Sounding(note[w])
    BY <2>2 DEF FreeVoices
  <2> QED BY <1>1, <2>1, <2>2, <2>3, StolenInOrder
<1>2. ASSUME TypeOK, [Next]_vars, call = NoCall, call'.op = "on" PROVE InOrder
  <2>1. call' # call /\ call'.op # "none"
    BY <1>2 DEF NoCall
  <2>2. CASE Input
    <3>1. \A notes, first, c : ~StopFrom(notes, first, c)
      BY <1>2 DEF StopFrom, NoCall
    <3>2. \E c \in WireChannel, p \in Pitch : HandleNoteOn(c, p)
      BY <2>1, <2>2, <3>1
         DEF Input, HandleNoteOff, HandleProgramChange, AllNotesOff, BeginReset,
             ChannelSelect, WaveformKnob, PinChange
    <3> QED BY <1>1, <1>2, <3>2 DEF HandleNoteOn
  <2>3. CASE Main
    <3>1. call.op = "none"
      BY <1>2 DEF NoCall
    <3>2. \E b \in Button : ButtonOn(b)
      BY <2>1, <2>3, <3>1
         DEF Main, FinishNoteOn, ContinueStop, FinishReset, StopDone, ReadDone,
             ChannelKept, PotsDone, ButtonIdle, ButtonHeld, ButtonOff, Service
    <3> QED BY <1>1, <1>2, <3>2 DEF ButtonOn
  <2>4. (\A boundary : ~AudioISR(boundary)) /\ ~Millis /\ ~UNCHANGED vars
    BY <2>1 DEF AudioISR, Millis, vars
  <2> QED BY <1>2, <2>2, <2>3, <2>4 DEF Next
<1>3. TypeOK /\ [Next]_vars => [InOrder]_vars
  BY <1>2
<1> QED BY <1>3, TypeCorrect, PTL DEF Spec, StealsInOrder
-----------------------------------------------------------------------------
(* No note hangs, and a button's voice is the one its release will find.   *)

\* doNoteOff() compares channels, so a note that is held must have one.
HeldOnChannel ==
  \A v \in Voice : Unreleased(note[v]) => note[v].midiChannel \in Channel

\* A suspended note on belongs to a key that is still down, or to a pressed
\* button that has lost the voice it had.
CallInStep ==
  call.op = "on" =>
    LET b == call.button IN
    IF b = UNSET
    THEN <<IF call.drum THEN 0 ELSE call.channelNum, call.midiNote>> \in down
    ELSE /\ ~call.drum
         /\ call.channelNum = selected
         /\ call.midiNote = button[b].midiVal
         /\ button[b].pressed
         /\ \A v \in Voice : Unreleased(note[v]) => note[v].trigger # b

\* A voice that sounds in phase OFF has not lost its button.
RevivedHasButton ==
  \A v \in Voice : Sounding(note[v]) /\ Off(note[v]) => note[v].trigger # UNSET

KeysInv ==
  NoHangingNotes /\ ButtonVoiceInStep /\ HeldOnChannel /\ RevivedHasButton /\ CallInStep

LEMMA ButtonIsSet == UNSET \notin Button /\ UNSET \notin Voice
BY DEF UNSET, Button, Voice

LEMMA KeysInit == Init => KeysInv
<1> SUFFICES ASSUME Init PROVE KeysInv
  OBVIOUS
<1>1. \A v \in Voice : /\ ~Sounding(note[v]) /\ ~Unreleased(note[v])
                       /\ note[v].trigger = UNSET
  BY DEF Init, SilentNote, Sounding, Unreleased, NOTE_OFF, NOTE_PENDING_OFF
<1>2. call.op # "on"
  BY DEF Init, NoCall
<1> QED BY <1>1, <1>2, ButtonIsSet
        DEF KeysInv, NoHangingNotes, ButtonVoiceInStep, HeldOnChannel,
            RevivedHasButton, CallInStep, Owns
-----------------------------------------------------------------------------
(* The three invariants about voices, by what a step does to them *)

\* A voice that subsides keeps its key, its channel and its button.
LEMMA SubsidesKeeps ==
  ASSUME NEW n, NEW m, Subsides(n, m)
  PROVE  /\ Unreleased(m) => /\ Unreleased(n)
                             /\ KeyOf(m) = KeyOf(n)
                             /\ m.trigger = n.trigger
                             /\ m.midiChannel = n.midiChannel
         /\ m.trigger # UNSET => m.trigger = n.trigger
         /\ Sounding(m) => Sounding(n) /\ m.midiVal = n.midiVal
         /\ Sounding(m) /\ Off(m) => /\ Sounding(n) /\ Off(n)
                                     /\ m.trigger = n.trigger
         /\ m.midiChannel = n.midiChannel /\ m.drum = n.drum
<1>2. Sounding(m) /\ Off(m) => Unreleased(m)
  BY DEF Unreleased, Off
<1>1. Unreleased(m) => Sounding(m)
  BY DEF Unreleased
<1> QED BY <1>1, <1>2 DEF Subsides, KeyOf

VoicesInv ==
  NoHangingNotes /\ ButtonVoiceInStep /\ HeldOnChannel /\ RevivedHasButton

\* Steps that leave the voices alone but for their subsiding, release no key
\* and move no button under a voice.
LEMMA QuietKeepsVoices ==
  ASSUME TypeOK, VoicesInv, Quiet, selected' = selected, down \subseteq down',
         \A b \in Button : /\ button'[b].noteIndex = button[b].noteIndex
                           /\ button'[b].midiVal = button[b].midiVal
                           /\ button[b].pressed => button'[b].pressed
  PROVE  VoicesInv'
<1> USE DEF VoicesInv
<1>1. \A v \in Voice : Subsides(note[v], note'[v])
  BY DEF Quiet
<1>2. \A v \in Voice : note[v].trigger \in {UNSET} \cup Button
  BY DEF TypeOK, NoteT
<1>3. NoHangingNotes'
  BY <1>1, <1>2, SubsidesKeeps DEF NoHangingNotes
<1>4. ButtonVoiceInStep'
  <2>1. ASSUME NEW b \in Button, NEW v \in Voice,
               button'[b].noteIndex = v, note'[v].trigger = b
        PROVE  /\ note'[v].midiChannel = selected'
               /\ note'[v].drum = UNSET
               /\ Sounding(note'[v]) => note'[v].midiVal = button'[b].midiVal
    <3>1. Owns(b, v)
      BY <1>1, <2>1, SubsidesKeeps, ButtonIsSet DEF Owns
    <3> QED BY <1>1, <2>1, <3>1, SubsidesKeeps DEF ButtonVoiceInStep
  <2> QED BY <2>1 DEF ButtonVoiceInStep, Owns
<1>5. HeldOnChannel' /\ RevivedHasButton'
  BY <1>1, SubsidesKeeps DEF HeldOnChannel, RevivedHasButton
<1> QED BY <1>3, <1>4, <1>5

\* The same while a call is suspended and stays so.
LEMMA QuietKeepsCall ==
  ASSUME CallInStep, Quiet, call' = call, selected' = selected, down' = down,
         TypeOK,
         \A b \in Button : /\ button'[b].midiVal = button[b].midiVal
                           /\ button'[b].pressed = button[b].pressed
  PROVE  CallInStep'
<1>1. \A v \in Voice : Subsides(note[v], note'[v])
  BY DEF Quiet
<1>2. call.op = "on" => call.button \in {UNSET} \cup Button
  BY DEF TypeOK, NoCall, StopCall, OnCall
<1> QED BY <1>1, <1>2, SubsidesKeeps DEF CallInStep
-----------------------------------------------------------------------------
(* The steps that do more to a voice than let it subside *)

LEMMA FinishNoteOnKeepsVoices ==
  ASSUME TypeOK, VoicesInv, CallInStep, FinishNoteOn
  PROVE  VoicesInv'
<1> DEFINE at == call.at
<1> USE DEF VoicesInv
<1>1. /\ call \in OnCall /\ at \in Voice
      /\ \A w \in Voice : w # at => note'[w] = note[w]
      /\ note'[at].midiChannel = call.channelNum
      /\ note'[at].trigger = call.button
      /\ ~Off(note'[at])
      /\ call.drum => note'[at].drum = call.midiNote
      /\ ~call.drum => /\ note'[at].drum = UNSET
                       /\ Sounding(note'[at]) => note'[at].midiVal = call.midiNote
  BY FinishNoteOnStarts DEF Off, Sounding, NOTE_OFF, NOTE_PENDING_OFF
<1>2. /\ call.op = "on"
      /\ call.channelNum \in Channel /\ call.button \in {UNSET} \cup Button
      /\ call.midiNote # UNSET
  <2>1. call.midiNote \in Pitch
    BY <1>1 DEF OnCall
  <2>2. call.midiNote # UNSET
    BY <2>1, VoicesAssumption DEF UNSET, NOTE_PENDING_OFF
  <2> QED BY <1>1, <2>2 DEF OnCall
<1>3. selected' = selected /\ down' = down
  BY DEF FinishNoteOn
<1>4. \A b \in Button : /\ button'[b].midiVal = button[b].midiVal
                        /\ button'[b].pressed = button[b].pressed
                        /\ button'[b].noteIndex = IF b = call.button THEN at
                                                  ELSE button[b].noteIndex
  BY <1>1, <1>2, ButtonIsSet DEF FinishNoteOn, TypeOK, ButtonT
<1> HIDE DEF at
<1>5. ASSUME call.button = UNSET, Sounding(note'[at]) PROVE KeyOf(note'[at]) \in down'
  BY <1>1, <1>2, <1>3, <1>5 DEF KeyOf, CallInStep
<1>6. ASSUME NEW b \in Button, call.button = b
      PROVE  /\ ~call.drum /\ call.channelNum = selected
             /\ call.midiNote = button[b].midiVal /\ button[b].pressed
             /\ \A v \in Voice : Unreleased(note[v]) => note[v].trigger # b
  BY <1>2, <1>6, ButtonIsSet DEF CallInStep
<1>7. NoHangingNotes'
  <2>1. ASSUME NEW v \in Voice, Unreleased(note'[v])
        PROVE  IF note'[v].trigger = UNSET THEN KeyOf(note'[v]) \in down'
               ELSE /\ button'[note'[v].trigger].pressed
                    /\ button'[note'[v].trigger].noteIndex = v
    <3>1. CASE v = at
      <4>1. Sounding(note'[v])
        BY <2>1 DEF Unreleased
      <4> QED BY <1>1, <1>2, <1>4, <1>5, <1>6, <3>1, <4>1
    <3>2. CASE v # at
      <4>1. note'[v] = note[v] /\ note[v].trigger \in {UNSET} \cup Button
        BY <1>1, <3>2 DEF TypeOK, NoteT
      <4> QED BY <1>3, <1>4, <1>6, <2>1, <4>1 DEF NoHangingNotes
    <3> QED BY <3>1, <3>2
  <2> QED BY <2>1 DEF NoHangingNotes
<1>8. ButtonVoiceInStep'
  <2>1. ASSUME NEW b \in Button, NEW v \in Voice,
               button'[b].noteIndex = v, note'[v].trigger = b
        PROVE  /\ note'[v].midiChannel = selected'
               /\ note'[v].drum = UNSET
               /\ Sounding(note'[v]) => note'[v].midiVal = button'[b].midiVal
    <3>1. CASE v = at
      BY <1>1, <1>3, <1>4, <1>6, <2>1, <3>1
    <3>2. CASE v # at
      <4>1. Owns(b, v)
        BY <1>1, <1>4, <2>1, <3>2 DEF Owns
      <4> QED BY <1>1, <1>3, <1>4, <3>2, <4>1 DEF ButtonVoiceInStep
    <3> QED BY <3>1, <3>2
  <2> QED BY <2>1 DEF ButtonVoiceInStep, Owns
<1>9. HeldOnChannel' /\ RevivedHasButton'
  BY <1>1, <1>2 DEF HeldOnChannel, RevivedHasButton
<1> QED BY <1>7, <1>8, <1>9

\* What the loops of doNoteOff() and doDrumNoteOff() leave unreleased.
LEMMA ReleaseNotesReleases ==
  ASSUME TypeOK, NEW matches, ReleaseNotes(note, matches), NEW v \in matches \cap Voice
  PROVE  ~Unreleased(note'[v])
<1>1. PICK levels \in [Voice -> 0 .. MaxSteps], cut \in SUBSET matches :
        note' = [w \in Voice |-> IF w \in matches
                                 THEN ReleaseNote(note[w], levels[w], w \in cut)
                                 ELSE note[w]]
  BY DEF ReleaseNotes
<1>2. note[v] \in NoteT /\ levels[v] \in 0 .. MaxSteps
  BY DEF TypeOK
<1>3. note'[v] = ReleaseNote(note[v], levels[v], v \in cut)
  BY <1>1
<1>4. note'[v].envelopePhase = "RELEASE"
  BY <1>2, <1>3, ReleaseNoteSubsides
<1> QED BY <1>4 DEF Unreleased

\* A note off releases every voice of its key, and takes no key from another.
LEMMA HandleNoteOffKeepsVoices ==
  ASSUME TypeOK, VoicesInv, NEW c \in WireChannel, NEW p \in Pitch,
         HandleNoteOff(c, p)
  PROVE  VoicesInv'
<1> DEFINE key == IF c = DRUM_CHANNEL THEN <<0, p>> ELSE <<LogicalChannel(c), p>>
<1>1. down' = down \ {key} /\ button' = button /\ selected' = selected
  BY DEF HandleNoteOff
<1>2. Quiet
  BY ReleaseNotesQuiet DEF HandleNoteOff, DoNoteOff, DoDrumNoteOff
<1>3. \A v \in Voice : Subsides(note[v], note'[v])
  BY <1>2 DEF Quiet
<1>4. ASSUME NEW v \in Voice, Unreleased(note[v]), KeyOf(note[v]) = key
      PROVE  ~Unreleased(note'[v])
  <2>1. note[v].midiChannel \in Channel /\ Sounding(note[v])
    BY <1>4 DEF VoicesInv, HeldOnChannel, Unreleased
  <2>2. note[v].midiChannel # 0
    BY <2>1 DEF Channel
  <2>3. CASE c = DRUM_CHANNEL
    <3>1. note[v].drum = p
      BY <1>4, <2>2, <2>3 DEF KeyOf
    <3> QED BY <2>1, <2>3, <3>1, ReleaseNotesReleases
            DEF HandleNoteOff, DoDrumNoteOff
  <2>4. CASE c # DRUM_CHANNEL
    <3>1. LogicalChannel(c) # 0
      BY LogicalChannelType, SynthAssumption DEF Channel
    <3>2. note[v].midiChannel = LogicalChannel(c) /\ note[v].midiVal = p
      BY <1>4, <2>4, <3>1 DEF KeyOf
    <3> QED BY <2>4, <3>2, ReleaseNotesReleases DEF HandleNoteOff, DoNoteOff
  <2> QED BY <2>3, <2>4
<1>5. NoHangingNotes'
  <2>1. ASSUME NEW v \in Voice, Unreleased(note'[v])
        PROVE  IF note'[v].trigger = UNSET THEN KeyOf(note'[v]) \in down'
               ELSE /\ button'[note'[v].trigger].pressed
                    /\ button'[note'[v].trigger].noteIndex = v
    <3>1. /\ Unreleased(note[v]) /\ KeyOf(note'[v]) = KeyOf(note[v])
          /\ note'[v].trigger = note[v].trigger
      BY <1>3, <2>1, SubsidesKeeps
    <3>2. KeyOf(note[v]) # key
      BY <1>4, <2>1, <3>1
    <3> HIDE DEF key
    <3> QED BY <1>1, <3>1, <3>2 DEF VoicesInv, NoHangingNotes
  <2> QED BY <2>1 DEF NoHangingNotes
<1>6. ButtonVoiceInStep' /\ HeldOnChannel' /\ RevivedHasButton'
  <2>1. ASSUME NEW b \in Button, NEW v \in Voice,
               button'[b].noteIndex = v, note'[v].trigger = b
        PROVE  /\ note'[v].midiChannel = selected'
               /\ note'[v].drum = UNSET
               /\ Sounding(note'[v]) => note'[v].midiVal = button'[b].midiVal
    <3>1. Owns(b, v)
      BY <1>1, <1>3, <2>1, SubsidesKeeps, ButtonIsSet DEF Owns
    <3> QED BY <1>1, <1>3, <2>1, <3>1, SubsidesKeeps DEF VoicesInv, ButtonVoiceInStep
  <2>2. HeldOnChannel' /\ RevivedHasButton'
    BY <1>3, SubsidesKeeps DEF VoicesInv, HeldOnChannel, RevivedHasButton
  <2> QED BY <2>1, <2>2 DEF ButtonVoiceInStep, Owns
<1> QED BY <1>5, <1>6 DEF VoicesInv

\* Changing the waveform changes neither key, channel nor button.
LEMMA SetWaveformKeepsVoices ==
  ASSUME TypeOK, VoicesInv, NEW c \in Channel, NEW buf \in Buf,
         SetWaveform(c, buf), selected' = selected, down' = down, button' = button
  PROVE  VoicesInv'
<1>1. ASSUME NEW n \in NoteT, NEW cut
      PROVE  LET m == ChangeBuf(n, buf, cut) IN
             /\ m.midiChannel = n.midiChannel /\ m.drum = n.drum /\ m.trigger = n.trigger
             /\ \/ m.midiVal = n.midiVal /\ m.envelopePhase = n.envelopePhase
                \/ m.midiVal = NOTE_OFF
  BY DEF ChangeBuf, NoteT
<1>2. \A v \in Voice :
        note'[v] = note[v] \/ \E cut : note'[v] = ChangeBuf(note[v], buf, cut)
  BY SetWaveformRetargets
<1>3. ASSUME NEW v \in Voice
      PROVE  /\ note'[v].midiChannel = note[v].midiChannel
             /\ note'[v].drum = note[v].drum /\ note'[v].trigger = note[v].trigger
             /\ \/ /\ note'[v].midiVal = note[v].midiVal
                   /\ note'[v].envelopePhase = note[v].envelopePhase
                \/ note'[v].midiVal = NOTE_OFF
  BY <1>1, <1>2 DEF TypeOK
<1>4. \A v \in Voice :
        Sounding(note'[v]) => /\ Sounding(note[v])
                              /\ note'[v].midiVal = note[v].midiVal
                              /\ KeyOf(note'[v]) = KeyOf(note[v])
                              /\ note'[v].envelopePhase = note[v].envelopePhase
  BY <1>3 DEF Sounding, KeyOf, NOTE_OFF, NOTE_PENDING_OFF
<1> QED BY <1>3, <1>4
        DEF VoicesInv, NoHangingNotes, ButtonVoiceInStep, HeldOnChannel,
            RevivedHasButton, Owns, Unreleased, Off

\* The channel select moves every voice a button owns, and no other.
LEMMA ChannelSelectKeepsVoices ==
  ASSUME TypeOK, VoicesInv, NEW c \in Channel, ChannelSelect(c)
  PROVE  VoicesInv'
<1>1. selected' = c /\ down' = down /\ button' = button
  BY DEF ChannelSelect
<1>2. ASSUME NEW v \in Voice
      PROVE  /\ \/ /\ note'[v].midiVal = note[v].midiVal
                   /\ note'[v].envelopePhase = note[v].envelopePhase
                \/ note'[v].midiVal = NOTE_OFF
             /\ note'[v].trigger = note[v].trigger
             /\ IF \E b \in Button : Owns(b, v)
                THEN note'[v].midiChannel = c /\ note'[v].drum = UNSET
                ELSE note'[v] = note[v]
  BY <1>2, ChannelSelectMoves DEF Cut
<1>3. \A v \in Voice :
        /\ Sounding(note'[v]) => /\ Sounding(note[v])
                                 /\ note'[v].midiVal = note[v].midiVal
                                 /\ note'[v].envelopePhase = note[v].envelopePhase
        /\ Unreleased(note'[v]) => Unreleased(note[v])
  BY <1>2 DEF Unreleased, Sounding, NOTE_OFF, NOTE_PENDING_OFF
<1>4. NoHangingNotes'
  <2>1. ASSUME NEW v \in Voice, Unreleased(note'[v])
        PROVE  IF note'[v].trigger = UNSET THEN KeyOf(note'[v]) \in down'
               ELSE /\ button'[note'[v].trigger].pressed
                    /\ button'[note'[v].trigger].noteIndex = v
    <3>1. CASE note[v].trigger = UNSET
      <4>1. ~ \E b \in Button : Owns(b, v)
        BY <3>1, ButtonIsSet DEF Owns
      <4> QED BY <1>1, <1>2, <1>3, <2>1, <3>1, <4>1
              DEF VoicesInv, NoHangingNotes
    <3>2. CASE note[v].trigger # UNSET
      BY <1>1, <1>2, <1>3, <2>1, <3>2 DEF VoicesInv, NoHangingNotes
    <3> QED BY <3>1, <3>2
  <2> QED BY <2>1 DEF NoHangingNotes
<1>5. ButtonVoiceInStep'
  <2>1. ASSUME NEW b \in Button, NEW v \in Voice,
               button'[b].noteIndex = v, note'[v].trigger = b
        PROVE  /\ note'[v].midiChannel = selected'
               /\ note'[v].drum = UNSET
               /\ Sounding(note'[v]) => note'[v].midiVal = button'[b].midiVal
    <3>1. Owns(b, v)
      BY <1>1, <1>2, <2>1 DEF Owns
    <3> QED BY <1>1, <1>2, <1>3, <3>1 DEF VoicesInv, ButtonVoiceInStep
  <2> QED BY <2>1 DEF ButtonVoiceInStep, Owns
<1>6. HeldOnChannel' /\ RevivedHasButton'
  BY <1>2, <1>3 DEF VoicesInv, HeldOnChannel, RevivedHasButton, Off
<1> QED BY <1>4, <1>5, <1>6 DEF VoicesInv

\* An unreleased voice of a button is the one its noteIndex names.
LEMMA HeldVoiceIsNamed ==
  ASSUME TypeOK, VoicesInv, NEW b \in Button, NEW v \in Voice,
         Unreleased(note[v]), note[v].trigger = b
  PROVE  HasVoice(b) /\ button[b].noteIndex = v /\ button[b].pressed
<1>1. b # UNSET /\ v # UNSET
  BY ButtonIsSet
<1>2. button[b].noteIndex = v /\ button[b].pressed
  BY <1>1 DEF VoicesInv, NoHangingNotes
<1>3. Sounding(note[v])
  BY DEF Unreleased
<1> QED BY <1>1, <1>2, <1>3 DEF HasVoice

\* A new press starts only when its button holds no voice.
LEMMA ButtonOnKeeps ==
  ASSUME TypeOK, VoicesInv, NEW b \in Button, ButtonOn(b)
  PROVE  VoicesInv' /\ CallInStep'
<1>1. /\ Quiet /\ selected' = selected /\ down' = down
      /\ button' = [button EXCEPT ![b].pressed = TRUE]
  BY BeginNoteOnQuiet DEF ButtonOn
<1>2. ~button[b].pressed
  BY DEF ButtonOn, NewPress
<1>3. \A d \in Button : /\ button'[d].noteIndex = button[d].noteIndex
                        /\ button'[d].midiVal = button[d].midiVal
                        /\ button[d].pressed => button'[d].pressed
                        /\ d = b => button'[d].pressed
  BY <1>1 DEF TypeOK, ButtonT
<1>4. VoicesInv'
  BY <1>1, <1>3, QuietKeepsVoices
<1>5. /\ call'.op = "on" /\ call'.channelNum = selected /\ ~call'.drum
      /\ call'.midiNote = button[b].midiVal /\ call'.button = b
  BY DEF ButtonOn, BeginNoteOn
<1>6. \A v \in Voice : Unreleased(note'[v]) => note'[v].trigger # b
  <2>1. \A v \in Voice : Subsides(note[v], note'[v])
    BY <1>1 DEF Quiet
  <2> QED BY <1>2, <2>1, SubsidesKeeps, HeldVoiceIsNamed
<1>7. CallInStep'
  BY <1>1, <1>3, <1>5, <1>6, ButtonIsSet DEF CallInStep
<1> QED BY <1>4, <1>7

LEMMA HandleNoteOnKeeps ==
  ASSUME TypeOK, VoicesInv, NEW c \in WireChannel, NEW p \in Pitch,
         HandleNoteOn(c, p)
  PROVE  VoicesInv' /\ CallInStep'
<1>1. /\ Quiet /\ selected' = selected /\ button' = button
      /\ down' = down \cup {<<IF c = DRUM_CHANNEL THEN 0 ELSE LogicalChannel(c), p>>}
  BY BeginNoteOnQuiet DEF HandleNoteOn
<1>2. VoicesInv'
  BY <1>1, QuietKeepsVoices
<1>3. /\ call'.op = "on" /\ call'.channelNum = LogicalChannel(c)
      /\ call'.drum = (c = DRUM_CHANNEL)
      /\ call'.midiNote = p /\ call'.button = UNSET
  BY DEF HandleNoteOn, BeginNoteOn
<1>4. CallInStep'
  BY <1>1, <1>3 DEF CallInStep
<1> QED BY <1>2, <1>4

LEMMA ButtonIdleKeepsVoices ==
  ASSUME TypeOK, VoicesInv, NEW b \in Button, ButtonIdle(b)
  PROVE  VoicesInv'
<1>1. /\ note' = note /\ selected' = selected /\ down' = down
      /\ button' = [button EXCEPT ![b].pressed = button[b].pin]
      /\ ~HasVoice(b)
  BY DEF ButtonIdle
<1>2. \A d \in Button : /\ button'[d].noteIndex = button[d].noteIndex
                        /\ button'[d].midiVal = button[d].midiVal
                        /\ d # b => button'[d].pressed = button[d].pressed
  BY <1>1 DEF TypeOK, ButtonT
<1>3. \A v \in Voice : Unreleased(note[v]) => note[v].trigger # b
  BY <1>1, HeldVoiceIsNamed
<1>4. \A v \in Voice : note[v].trigger \in {UNSET} \cup Button
  BY DEF TypeOK, NoteT
<1> QED BY <1>1, <1>2, <1>3, <1>4
        DEF VoicesInv, NoHangingNotes, ButtonVoiceInStep, HeldOnChannel,
            RevivedHasButton, Owns

\* The pitch pot bends the button and its voice together.
LEMMA ButtonHeldKeepsVoices ==
  ASSUME TypeOK, VoicesInv, NEW b \in Button, ButtonHeld(b)
  PROVE  VoicesInv'
<1> DEFINE u == button[b].noteIndex
<1>1. /\ u \in Voice /\ \A w \in Voice : w # u => note'[w] = note[w]
      /\ selected' = selected /\ down' = down
  BY ButtonHeldBends DEF ButtonHeld
<1>2. PICK p \in Pitch :
        /\ button' = [button EXCEPT ![b].midiVal = p]
        /\ \/ note'[u] = [note[u] EXCEPT !.midiVal = p]
           \/ note'[u] = [note[u] EXCEPT !.midiVal = p, !.envelopePhase = "OFF"]
  BY ButtonHeldBends
<1>3. /\ note[u].trigger = b /\ Sounding(note[u]) /\ note[u] \in NoteT
      /\ button[b].pressed
      /\ note[u].midiChannel \in Channel
  <2>1. /\ note[u].trigger = b /\ Sounding(note[u]) /\ button[b].pressed
    BY <1>1 DEF ButtonHeld, HasVoice, NewPress
  <2>2. note[u].midiChannel = selected /\ selected \in Channel
    BY <1>1, <2>1 DEF VoicesInv, ButtonVoiceInStep, Owns, TypeOK
  <2> QED BY <1>1, <2>1, <2>2 DEF TypeOK
<1>4. \A d \in Button : /\ button'[d].noteIndex = button[d].noteIndex
                        /\ button'[d].pressed = button[d].pressed
                        /\ button'[d].midiVal = IF d = b THEN p ELSE button[d].midiVal
  BY <1>2 DEF TypeOK, ButtonT
<1> HIDE DEF u
<1>5. /\ note'[u].midiVal = p /\ note'[u].trigger = b
      /\ note'[u].midiChannel = note[u].midiChannel
      /\ note'[u].drum = note[u].drum
  <2>1. \/ note'[u] = [note[u] EXCEPT !.midiVal = p]
        \/ note'[u] = [note[u] EXCEPT !.midiVal = p, !.envelopePhase = "OFF"]
    BY <1>2
  <2>2. note[u] \in NoteT /\ note[u].trigger = b
    BY <1>3
  <2> QED BY <2>1, <2>2 DEF NoteT
<1>6. button[b].noteIndex = u
  BY DEF u
<1>7. \A v \in Voice : note[v].trigger \in {UNSET} \cup Button
  BY DEF TypeOK, NoteT
<1>8. NoHangingNotes' /\ HeldOnChannel' /\ RevivedHasButton'
  BY <1>1, <1>3, <1>4, <1>5, <1>6, <1>7, ButtonIsSet
     DEF VoicesInv, NoHangingNotes, HeldOnChannel, RevivedHasButton
<1>9. ButtonVoiceInStep'
  <2>1. ASSUME NEW d \in Button, NEW v \in Voice,
               button'[d].noteIndex = v, note'[v].trigger = d
        PROVE  /\ note'[v].midiChannel = selected'
               /\ note'[v].drum = UNSET
               /\ Sounding(note'[v]) => note'[v].midiVal = button'[d].midiVal
    <3>1. Owns(d, v)
      BY <1>1, <1>3, <1>4, <1>5, <2>1 DEF Owns
    <3>2. CASE v = u
      BY <1>1, <1>4, <1>5, <2>1, <3>1, <3>2 DEF VoicesInv, ButtonVoiceInStep
    <3>3. CASE v # u
      <4>1. d # b
        BY <1>4, <1>6, <2>1, <3>3
      <4> QED BY <1>1, <1>4, <3>1, <3>3, <4>1 DEF VoicesInv, ButtonVoiceInStep
    <3> QED BY <3>2, <3>3
  <2> QED BY <2>1 DEF ButtonVoiceInStep, Owns
<1> QED BY <1>8, <1>9 DEF VoicesInv

\* Letting go of a button releases its voice, which is still where doNoteOff()
\* looks for it.
LEMMA ButtonOffKeepsVoices ==
  ASSUME TypeOK, VoicesInv, NEW b \in Button, NEW again \in BOOLEAN,
         ButtonOff(b, again)
  PROVE  VoicesInv'
<1> DEFINE u == button[b].noteIndex
<1>1. /\ u \in Voice /\ selected' = selected /\ down' = down
      /\ HasVoice(b) /\ Owns(b, u)
  BY DEF ButtonOff, HasVoice, Owns, TypeOK, ButtonT
<1>2. note[u].midiVal = button[b].midiVal /\ note[u].midiChannel = selected
  BY <1>1 DEF HasVoice, VoicesInv, ButtonVoiceInStep
<1>3. \A d \in Button : /\ button'[d].midiVal = button[d].midiVal
                        /\ d # b => /\ button'[d].noteIndex = button[d].noteIndex
                                    /\ button'[d].pressed = button[d].pressed
                        /\ button'[b].noteIndex \in {UNSET, u}
  BY DEF ButtonOff, TypeOK, ButtonT
<1>4. /\ note'[u].envelopePhase = "RELEASE"
      /\ \A w \in Voice : Subsides(note[w], note'[w])
  <2>1. CASE note[u].envelopePhase = "RELEASE"
    BY <1>1, <2>1, SelfSubsides DEF ButtonOff
  <2>2. CASE note[u].envelopePhase # "RELEASE"
    <3>1. /\ note'[u].envelopePhase = "RELEASE"
          /\ SameConfig(note[u], note'[u])
          /\ note'[u].trigger = UNSET
          /\ note'[u].midiVal \in {note[u].midiVal, NOTE_OFF}
          /\ \A w \in Voice : w # u => Subsides(note[w], note'[w])
      BY <1>2, <2>2, ButtonOffReleases
    <3>2. Subsides(note[u], note'[u])
      BY <3>1 DEF Subsides, SameConfig, Sounding, Unreleased, Off, NOTE_OFF, NOTE_PENDING_OFF
    <3> QED BY <3>1, <3>2
  <2> QED BY <2>1, <2>2
<1> HIDE DEF u
<1>5. \A v \in Voice : Unreleased(note'[v]) => note'[v].trigger # b
  <2>1. ASSUME NEW v \in Voice, Unreleased(note'[v]), note'[v].trigger = b
        PROVE  FALSE
    <3>1. Unreleased(note[v]) /\ note[v].trigger = b
      BY <1>4, <2>1, SubsidesKeeps
    <3>2. v = u
      BY <3>1, HeldVoiceIsNamed DEF u
    <3> QED BY <1>4, <2>1, <3>2 DEF Unreleased
  <2> QED BY <2>1
<1>6. \A v \in Voice : note[v].trigger \in {UNSET} \cup Button
  BY DEF TypeOK, NoteT
<1>7. NoHangingNotes'
  <2>1. ASSUME NEW v \in Voice, Unreleased(note'[v])
        PROVE  IF note'[v].trigger = UNSET THEN KeyOf(note'[v]) \in down'
               ELSE /\ button'[note'[v].trigger].pressed
                    /\ button'[note'[v].trigger].noteIndex = v
    <3>1. /\ Unreleased(note[v]) /\ KeyOf(note'[v]) = KeyOf(note[v])
          /\ note'[v].trigger = note[v].trigger /\ note[v].trigger # b
      BY <1>4, <1>5, <2>1, SubsidesKeeps
    <3> QED BY <1>1, <1>3, <1>6, <3>1 DEF VoicesInv, NoHangingNotes
  <2> QED BY <2>1 DEF NoHangingNotes
<1>8. ButtonVoiceInStep'
  <2>1. ASSUME NEW d \in Button, NEW v \in Voice,
               button'[d].noteIndex = v, note'[v].trigger = d
        PROVE  /\ note'[v].midiChannel = selected'
               /\ note'[v].drum = UNSET
               /\ Sounding(note'[v]) => note'[v].midiVal = button'[d].midiVal
    <3>1. note[v].trigger = d
      BY <1>4, <2>1, SubsidesKeeps, ButtonIsSet
    <3>2. button[d].noteIndex = v
      BY <1>3, <2>1, ButtonIsSet DEF u
    <3> QED BY <1>1, <1>3, <1>4, <3>1, <3>2, SubsidesKeeps
            DEF VoicesInv, ButtonVoiceInStep, Owns
  <2> QED BY <2>1 DEF ButtonVoiceInStep, Owns
<1>9. HeldOnChannel' /\ RevivedHasButton'
  BY <1>4, SubsidesKeeps DEF VoicesInv, HeldOnChannel, RevivedHasButton
<1> QED BY <1>7, <1>8, <1>9 DEF VoicesInv

LEMMA FinishResetKeepsVoices ==
  ASSUME FinishReset PROVE VoicesInv'
<1>1. \A v \in Voice : /\ ~Sounding(note'[v]) /\ ~Unreleased(note'[v])
                       /\ note'[v].trigger = UNSET
  <2>1. ~Sounding(SilentNote) /\ SilentNote.trigger = UNSET
    BY DEF SilentNote, Sounding, NOTE_OFF, NOTE_PENDING_OFF
  <2>2. \A v \in Voice : note'[v] = SilentNote
    BY DEF FinishReset
  <2> QED BY <2>1, <2>2 DEF Unreleased
<1> QED BY <1>1, ButtonIsSet
        DEF VoicesInv, NoHangingNotes, ButtonVoiceInStep, HeldOnChannel,
            RevivedHasButton, Owns
-----------------------------------------------------------------------------
\* A step that leaves no note on suspended has nothing to say for it.
LEMMA NoCallInStep == ASSUME call'.op # "on" PROVE CallInStep'
BY DEF CallInStep

LEMMA StopFromStops ==
  ASSUME NEW notes, NEW first, NEW c, StopFrom(notes, first, c)
  PROVE  call'.op # "on"
BY DEF StopFrom, NoCall

LEMMA KeysStep == TypeOK /\ SilentInv /\ KeysInv /\ [Next]_vars => KeysInv'
<1> SUFFICES ASSUME TypeOK, SilentInv, VoicesInv, CallInStep, [Next]_vars
             PROVE  VoicesInv' /\ CallInStep'
  BY DEF KeysInv, VoicesInv
<1>1. ASSUME Quiet, selected' = selected, down' = down, button' = button
      PROVE  VoicesInv'
  BY <1>1, QuietKeepsVoices
<1>2. ASSUME NEW stage, At(stage), call' = call PROVE CallInStep'
  <2>1. call'.op # "on"
    BY <1>2 DEF At, NoCall
  <2> QED BY <2>1, NoCallInStep
<1>3. ASSUME note' = note PROVE Quiet
  BY <1>3, SelfSubsides DEF Quiet
<1>4. CASE Input
  <2>1. CASE \E c \in WireChannel, p \in Pitch : HandleNoteOn(c, p)
    BY <2>1, HandleNoteOnKeeps
  <2>2. CASE \E c \in WireChannel, p \in Pitch : HandleNoteOff(c, p)
    BY <2>2, <1>2, HandleNoteOffKeepsVoices DEF HandleNoteOff
  <2>3. ASSUME NEW c \in WireChannel, NEW buf \in Waveform, HandleProgramChange(c, buf)
        PROVE  VoicesInv' /\ CallInStep'
    <3>1. LogicalChannel(c) \in Channel /\ buf \in Buf
      BY LogicalChannelType, SynthAssumption
    <3> QED BY <2>3, <3>1, <1>2, SetWaveformKeepsVoices DEF HandleProgramChange
  <2>4. CASE (\E c \in WireChannel : AllNotesOff(c)) \/ BeginReset
    <3>1. Quiet /\ call'.op # "on"
      BY <2>4, StopFromQuiet, StopFromStops DEF AllNotesOff, BeginReset, Quiet, TypeOK
    <3> QED BY <2>4, <3>1, <1>1, NoCallInStep DEF AllNotesOff, BeginReset
  <2>5. CASE \E c \in Channel : ChannelSelect(c)
    BY <2>5, <1>2, ChannelSelectKeepsVoices DEF ChannelSelect
  <2>6. ASSUME NEW buf \in Waveform, WaveformKnob(buf)
        PROVE  VoicesInv' /\ CallInStep'
    <3>1. selected \in Channel /\ buf \in Buf
      BY SynthAssumption DEF TypeOK
    <3> QED BY <2>6, <3>1, <1>2, SetWaveformKeepsVoices DEF WaveformKnob
  <2>7. ASSUME NEW b \in Button, PinChange(b)
        PROVE  VoicesInv' /\ CallInStep'
    <3>1. /\ Quiet /\ call' = call /\ selected' = selected /\ down' = down
          /\ \A d \in Button : /\ button'[d].noteIndex = button[d].noteIndex
                               /\ button'[d].midiVal = button[d].midiVal
                               /\ button'[d].pressed = button[d].pressed
      BY <2>7, <1>3 DEF PinChange, TypeOK, ButtonT
    <3> QED BY <3>1, QuietKeepsVoices, QuietKeepsCall
  <2> QED BY <1>4, <2>1, <2>2, <2>3, <2>4, <2>5, <2>6, <2>7 DEF Input
<1>5. CASE Main
  <2>1. CASE FinishNoteOn
    <3>1. call'.op # "on"
      BY <2>1 DEF FinishNoteOn, NoCall
    <3> QED BY <2>1, <3>1, FinishNoteOnKeepsVoices, NoCallInStep
  <2>2. CASE ContinueStop
    <3>1. call'.op # "on"
      BY <2>2, StopFromStops DEF ContinueStop
    <3> QED BY <2>2, <3>1, <1>1, ContinueStopQuiet, NoCallInStep
            DEF ContinueStop, StopDone, SilentInv
  <2>3. CASE FinishReset
    <3>1. call'.op # "on"
      BY <2>3 DEF FinishReset, NoCall
    <3> QED BY <2>3, <3>1, FinishResetKeepsVoices, NoCallInStep
  <2>4. CASE ReadDone \/ ChannelKept \/ PotsDone
    BY <2>4, <1>1, <1>2, <1>3 DEF ReadDone, ChannelKept, PotsDone
  <2>5. CASE \E b \in Button : ButtonOn(b)
    BY <2>5, ButtonOnKeeps
  <2>6. CASE \E b \in Button : ButtonIdle(b)
    BY <2>6, <1>2, ButtonIdleKeepsVoices DEF ButtonIdle, Polls
  <2>7. CASE \E b \in Button : ButtonHeld(b)
    BY <2>7, <1>2, ButtonHeldKeepsVoices DEF ButtonHeld, Polls
  <2>8. CASE \E b \in Button, again \in BOOLEAN : ButtonOff(b, again)
    BY <2>8, <1>2, ButtonOffKeepsVoices DEF ButtonOff, Polls
  <2>9. CASE \E v \in Voice, elapsed \in BOOLEAN : Service(v, elapsed)
    BY <2>9, <1>1, <1>2, ServiceQuiet DEF Service
  <2> QED BY <1>5, <2>1, <2>2, <2>3, <2>4, <2>5, <2>6, <2>7, <2>8, <2>9 DEF Main
<1>6. CASE \E boundary \in SUBSET Voice : AudioISR(boundary)
  BY <1>6, <1>1, AudioISRQuiet, QuietKeepsCall DEF AudioISR
<1>7. CASE Millis \/ UNCHANGED vars
  BY <1>7, <1>1, <1>3, QuietKeepsCall DEF Millis, vars
<1> QED BY <1>4, <1>5, <1>6, <1>7 DEF Next

LEMMA KeysHold == Spec => []KeysInv
BY TypeCorrect, SilentHolds, KeysInit, KeysStep, PTL DEF Spec

\* A sounding voice that was not released belongs to a key that is down, or to
\* the pressed button that will find it.
THEOREM NoNoteHangs == Spec => []NoHangingNotes
<1>1. KeysInv => NoHangingNotes
  BY DEF KeysInv
<1> QED BY <1>1, KeysHold, PTL

\* The voice a button owns is where its release, its pitch pot and the channel
\* select expect it.
THEOREM ButtonVoicesStayInStep == Spec => []ButtonVoiceInStep
<1>1. KeysInv => ButtonVoiceInStep
  BY DEF KeysInv
<1> QED BY <1>1, KeysHold, PTL

\* A voice sounds in phase OFF only under the finger that revived it; one that
\* does not sound is off, waited for, or cut inside a call; a voice that a note
\* on waits for stays silent.
THEOREM LivesAgree == Spec => []VoiceLifecycle
<1>1. TypeOK /\ SilentInv /\ KeysInv => VoiceLifecycle
  <2> SUFFICES ASSUME TypeOK, SilentInv, KeysInv, NEW v \in Voice
               PROVE  /\ Sounding(note[v]) /\ Off(note[v]) =>
                           \E b \in Button : Owns(b, v) /\ button[b].pressed
                      /\ Settled(note[v]) \/ (call # NoCall /\ call.at = v)
                      /\ call.op = "on" /\ call.at = v /\ call.waits
                           => ~Sounding(note[v])
    BY DEF VoiceLifecycle, Settled, Off
  <2>1. ASSUME Sounding(note[v]), Off(note[v])
        PROVE  \E b \in Button : Owns(b, v) /\ button[b].pressed
    <3>1. Unreleased(note[v])
      BY <2>1 DEF Unreleased, Off
    <3>2. note[v].trigger # UNSET /\ note[v].trigger \in {UNSET} \cup Button
      BY <2>1 DEF KeysInv, RevivedHasButton, TypeOK, NoteT
    <3> QED BY <3>1, <3>2 DEF KeysInv, NoHangingNotes, Owns
  <2> QED BY <2>1 DEF SilentInv
<1> QED BY <1>1, TypeCorrect, SilentHolds, KeysHold, PTL
=============================================================================

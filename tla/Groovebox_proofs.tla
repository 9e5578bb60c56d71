-------------------------- MODULE Groovebox_proofs --------------------------
(***************************************************************************)
(* The groovebox, for any number of voices, tracks and positions, any      *)
(* clock and any word: no voice that sounds for a track is lost to it, a   *)
(* stop is silent, and a note that is played ends on time, as long as no   *)
(* write of the main thread falls on a note the ISR has just started.      *)
(***************************************************************************)
EXTENDS Groovebox, TLAPS

(* What the proofs know beyond the invariants the run checks *)

\* A slot that is not empty names a key of its kind.
Keyed(slot) == slot.midiVal # UNSET => [drum |-> slot.drum, note |-> slot.midiVal] \in Press

\* A voice that sounds for a track and is not torn; such a voice has its trigger
\* and a phase that is not OFF.
Live(n)  == n.owner \in Track /\ Sounding(n) /\ ~n.torn
Bound(n) == Live(n) => n.trigger = n.owner /\ On(n)

\* While the ISR is at a track its pulse is not over and the sequence runs; a
\* note on that has begun keeps it out.
TypeInv ==
  /\ TypeOK
  /\ \A t \in Track, s \in Slot : Keyed(seq[t][s])
  /\ \A v \in Voice : Bound(note[v])
  /\ head # UNSET => pulseClock < MaxPulse /\ seqRunning
  /\ doing.step = "on" => seqLock /\ head = UNSET

\* A voice that sounds for a track is the one at its position; between the two
\* steps of a note on none sounds for the track that is played.
Claims(v, t) == Live(note[v]) /\ note[v].owner = t

OwnInv ==
  \A v \in Voice, t \in Track :
    Claims(v, t) => Sn(t).noteIndex = v /\ ~(doing.step = "on" /\ t = currentTrack)

\* a key that is recorded, and a note that is played
Recorded(t) == /\ track[t].state = "SEQ_RECORD" /\ t = currentTrack /\ ~seqPreview
               /\ [drum |-> Sn(t).drum, note |-> Sn(t).midiVal] \in held

Timed(t) == /\ track[t].state = "SEQ_PLAY"
            /\ Elapsed(t) <= Length(Sn(t))
            /\ head # UNSET => Elapsed(t) < Length(Sn(t))

\* a turn of the track knob that is not over
Turning == \/ doing.step = "turn"
           \/ /\ doing.step \in {"off", "off:release", "off:trigger"}
              /\ doing.turn # UNSET

TimedInv ==
  /\ doing.step = "on" => doing.key \in held
  /\ plain /\ Turning => held = {}
  /\ plain => \A t \in Track : Claims(Sn(t).noteIndex, t) =>
                                 seqRunning /\ (Recorded(t) \/ Timed(t))
-----------------------------------------------------------------------------
(* Constants, slots and voices *)

LEMMA ConstantTypes ==
  /\ MAX_NOTES \in Nat \ {0} /\ SEQ_LENGTH \in Nat \ {0} /\ SEQ_NUM_TRACKS \in Nat \ {0}
  /\ seqStartPulse \in Nat \ {0} /\ WORD \in Nat \ {0, 1} /\ MaxPulse \in Nat \ {0}
  /\ MaxMoves \in Nat /\ SampleChosen \subseteq BOOLEAN
  /\ Key \subseteq Int /\ DrumKey \subseteq Int
  /\ \A k \in DrumKey : DrumPitch[k] \in Pitch
  /\ 0 \in Voice /\ 0 \in Track /\ 0 \in Slot /\ SEQ_LENGTH - 1 \in Slot
  /\ Voice \subseteq Nat /\ Track \subseteq Nat /\ Slot \subseteq Nat
  /\ UNSET \notin Track /\ UNSET \notin Key /\ UNSET \notin DrumKey
  /\ KnobAt \subseteq Track /\ Cost \in [Control -> Nat]
BY GrooveboxAssumption DEF GrooveboxAssumption, Voice, Track, Slot, UNSET, Pitch

\* A step of an index that turns over stays in its range.
LEMMA TurnOver == ASSUME NEW x \in Int, NEW n \in Nat \ {0} PROVE x % n \in 0 .. (n - 1)
OBVIOUS

LEMMA WordTyped == ASSUME NEW x \in Int PROVE x % WORD \in 0 .. (WORD - 1)
BY ConstantTypes, TurnOver

LEMMA SlotDuration ==
  ASSUME NEW s \in SeqNoteT, NEW d \in 0 .. (WORD - 1), NEW r, r = [s EXCEPT !.duration = d]
  PROVE  /\ r \in SeqNoteT
         /\ r.duration = d /\ r.midiVal = s.midiVal /\ r.drum = s.drum
         /\ r.sample = s.sample /\ r.noteIndex = s.noteIndex /\ r.startPulse = s.startPulse
         /\ Keyed(s) => Keyed(r)
BY DEF SeqNoteT, Keyed

LEMMA EmptySlotTyped == EmptySlot \in SeqNoteT /\ Keyed(EmptySlot)
BY ConstantTypes DEF EmptySlot, SeqNoteT, Keyed

\* The sequence as its steps leave it: a slot is written, or its duration.
Written(q, t, s, x) == [q EXCEPT ![t][s] = x]
Lasting(q, t, s, d) == [q EXCEPT ![t][s].duration = d]
RowOk(r) == r \in [Slot -> SeqNoteT] /\ \A s \in Slot : Keyed(r[s])
SeqOk(q) == q \in [Track -> [Slot -> SeqNoteT]] /\ \A t \in Track, s \in Slot : Keyed(q[t][s])

LEMMA WrittenTyped ==
  ASSUME NEW q, SeqOk(q), NEW t \in Track, NEW s \in Slot, NEW x \in SeqNoteT, Keyed(x)
  PROVE  /\ SeqOk(Written(q, t, s, x))
         /\ Written(q, t, s, x)[t][s] = x
         /\ \A u \in Track, p \in Slot : u # t \/ p # s => Written(q, t, s, x)[u][p] = q[u][p]
BY DEF SeqOk, Written

LEMMA LastingTyped ==
  ASSUME NEW q, SeqOk(q), NEW t \in Track, NEW s \in Slot, NEW d \in 0 .. (WORD - 1)
  PROVE  /\ SeqOk(Lasting(q, t, s, d))
         /\ Lasting(q, t, s, d) = Written(q, t, s, [q[t][s] EXCEPT !.duration = d])
         /\ Lasting(q, t, s, d)[t][s] = [q[t][s] EXCEPT !.duration = d]
         /\ \A u \in Track, p \in Slot : u # t \/ p # s => Lasting(q, t, s, d)[u][p] = q[u][p]
<1> DEFINE x == [q[t][s] EXCEPT !.duration = d]
<1>1. q[t] \in [Slot -> SeqNoteT] /\ q[t][s] \in SeqNoteT /\ Keyed(q[t][s])
  BY DEF SeqOk
<1>2. x \in SeqNoteT /\ Keyed(x)
  BY <1>1, SlotDuration
<1>3. Lasting(q, t, s, d) = Written(q, t, s, x)
  BY <1>1 DEF Lasting, Written, SeqOk
<1> QED  BY <1>2, <1>3, WrittenTyped

LEMMA LastingElsewhere ==
  ASSUME NEW q, SeqOk(q), NEW t \in Track, NEW s, NEW d,
         NEW u \in Track, NEW p \in Slot, u # t \/ p # s
  PROVE  Lasting(q, t, s, d)[u][p] = q[u][p]
BY DEF Lasting, SeqOk

\* A step of a voice that starts no note: it makes none sound for a track.
Quieter(m, n) ==
  /\ m \in NoteT
  /\ Live(m) => Live(n) /\ m.owner = n.owner /\ m.trigger = n.trigger /\ On(m)

\* one that leaves it silent, released or torn
Silenced(m) == m \in NoteT /\ ~Live(m)

LEMMA QuieterBound ==
  ASSUME NEW m, NEW n, Bound(n), Quieter(m, n)
  PROVE  Bound(m)
BY DEF Bound, Quieter

LEMMA SameIsQuieter == ASSUME NEW n \in NoteT, Bound(n) PROVE Quieter(n, n)
BY DEF Quieter, Bound

LEMMA NoteChanges ==
  ASSUME NEW n \in NoteT, NEW cut \in BOOLEAN
  PROVE  /\ Silenced(Marked(n)) /\ Silenced(StopNote(n)) /\ Silenced(Unclaimed(n))
         /\ Silenced(ReleaseNote(n, cut))
<1>1. Marked(n) \in NoteT /\ Marked(n).midiVal = NOTE_OFF
  BY ConstantTypes DEF NoteT, Marked
<1>2. StopNote(n) \in NoteT /\ StopNote(n).midiVal = NOTE_OFF
  BY <1>1 DEF NoteT, StopNote
<1>3. Unclaimed(n) \in NoteT /\ Unclaimed(n).midiVal = NOTE_OFF
  BY <1>2 DEF NoteT, Unclaimed
<1>4. ReleaseNote(n, cut) \in NoteT /\ ReleaseNote(n, cut).envelopePhase = "RELEASE"
  BY DEF NoteT, ReleaseNote
<1> QED  BY <1>1, <1>2, <1>3, <1>4 DEF Silenced, Live, Sounding

LEMMA SilencedIsQuieter == ASSUME NEW m, NEW n, Silenced(m) PROVE Quieter(m, n)
BY DEF Silenced, Quieter

\* a voice as a note on leaves it, for a track or for none
LEMMA NewNoteTyped ==
  ASSUME NEW key, NEW drum \in BOOLEAN, [drum |-> drum, note |-> key] \in Press,
         NEW channel \in Track, NEW sample \in BOOLEAN, NEW cut \in BOOLEAN,
         NEW owner \in Track \cup {UNSET}
  PROVE  LET n == NewNote(key, drum, channel, sample, cut, owner)
         IN  n \in NoteT /\ Bound(n) /\ n.owner = owner
<1>1. (drum /\ key \in DrumKey) \/ (~drum /\ key \in Key)
  BY DEF Press
<1>2. (IF drum THEN DrumPitch[key] ELSE IF cut THEN NOTE_OFF ELSE key) \in Pitch \cup {NOTE_OFF}
  BY <1>1, ConstantTypes DEF Pitch
<1>3. (IF drum THEN key ELSE UNSET) \in DrumKey \cup {UNSET}
  BY <1>1
<1> DEFINE n == NewNote(key, drum, channel, sample, cut, owner)
<1>4. n \in NoteT
  BY <1>2, <1>3 DEF NewNote, NoteT
<1>5. n.owner = owner /\ n.trigger = owner /\ On(n)
  BY DEF NewNote, On
<1> QED  BY <1>4, <1>5 DEF Bound

LEMMA SilentNoteTyped == Silenced(SilentNote)
BY ConstantTypes DEF SilentNote, NoteT, Silenced, Live, Sounding

LEMMA PlayingTyped == Playing \in TrackT
BY ConstantTypes DEF Playing, TrackT

LEMMA ChosenVoice == ASSUME NEW voices PROVE Choices(voices) \subseteq Voice
BY DEF Choices

LEMMA OfTheTrack ==
  ASSUME TypeOK, NEW t \in Track
  PROVE  /\ track[t] \in TrackT /\ track[t].noteSeqIndex \in Slot
         /\ track[t].state \in {"SEQ_PLAY", "SEQ_RECORD"}
         /\ seq[t] \in [Slot -> SeqNoteT] /\ Sn(t) \in SeqNoteT
         /\ Sn(t) = seq[t][track[t].noteSeqIndex] /\ Sn(t).noteIndex \in Voice
         /\ Sn(t).startPulse \in 0 .. (WORD - 1) /\ Sn(t).duration \in 0 .. (WORD - 1)
         /\ OfTrack(t) \in NoteT /\ OfTrack(t) = note[Sn(t).noteIndex]
         /\ Elapsed(t) \in 0 .. (WORD - 1)
<1>1. track[t] \in TrackT /\ seq[t] \in [Slot -> SeqNoteT]
  BY DEF TypeOK
<1>2. track[t].noteSeqIndex \in Slot /\ track[t].state \in {"SEQ_PLAY", "SEQ_RECORD"}
  BY <1>1 DEF TrackT
<1>3. Sn(t) \in SeqNoteT
  BY <1>1, <1>2 DEF Sn
<1>4. /\ Sn(t).noteIndex \in Voice /\ Sn(t).startPulse \in 0 .. (WORD - 1)
      /\ Sn(t).duration \in 0 .. (WORD - 1)
  BY <1>3 DEF SeqNoteT
<1>5. OfTrack(t) \in NoteT
  BY <1>4 DEF OfTrack, TypeOK
<1>6. pulseClock \in Int /\ Sn(t).startPulse \in Int
  BY <1>4, ConstantTypes DEF TypeOK
<1>7. Elapsed(t) \in 0 .. (WORD - 1)
  <2> DEFINE x == pulseClock - Sn(t).startPulse
  <2>1. x \in Int
    BY <1>6
  <2> HIDE DEF x
  <2>2. x % WORD \in 0 .. (WORD - 1)
    BY <2>1, ConstantTypes, TurnOver
  <2> QED  BY <2>2 DEF x, Elapsed
<1> QED  BY <1>1, <1>2, <1>3, <1>4, <1>5, <1>7 DEF Sn, OfTrack
-----------------------------------------------------------------------------
(* Type correctness *)

VoicesOk(voices) == voices \in [Voice -> NoteT] /\ \A v \in Voice : Bound(voices[v])

LEMMA TypeFacts ==
  ASSUME TypeInv
  PROVE  /\ TypeOK /\ SeqOk(seq) /\ VoicesOk(note)
         /\ note \in [Voice -> NoteT] /\ track \in [Track -> TrackT]
         /\ currentTrack \in Track /\ selectedSettings \in Track
         /\ pulseClock \in 0 .. MaxPulse /\ seqIndex \in Slot
         /\ pulseClock \in Nat /\ seqIndex \in Nat
<1>1. pulseClock \in 0 .. MaxPulse /\ seqIndex \in Slot
  BY DEF TypeInv, TypeOK
<1>2. pulseClock \in Nat /\ seqIndex \in Nat
  BY <1>1, ConstantTypes
<1> QED  BY <1>1, <1>2 DEF TypeInv, TypeOK, SeqOk, VoicesOk

\* What the main thread is at, by the step.
LEMMA DoingTyped ==
  ASSUME TypeInv
  PROVE  /\ doing.step = "on" => doing \in OnT
         /\ doing.step \in {"switch", "end", "end:phase", "end:trigger"} => doing \in ServeT
         /\ doing.step \in {"off", "off:release", "off:trigger"} => doing \in OffT
         /\ doing.step \in {"quiet", "quiet:mark", "quiet:wait"} => doing \in QuietT
         /\ doing.step = "turn" => doing \in TurnT
BY DEF TypeInv, TypeOK, DoingT, Idle, OnT, ServeT, OffT, QuietT, TurnT

LEMMA IdleTyped == Idle \in DoingT /\ Idle.step = "idle"
BY DEF Idle, DoingT

LEMMA TypesInit == ASSUME Init PROVE TypeInv
<1>1. SeqOk(seq)
  BY EmptySlotTyped DEF Init, SeqOk
<1>2. VoicesOk(note) /\ track \in [Track -> TrackT]
  BY SilentNoteTyped, PlayingTyped DEF Init, VoicesOk, Silenced, Bound
<1>3. /\ pulseClock \in 0 .. MaxPulse /\ seqIndex \in Slot /\ currentTrack \in Track
      /\ moves \in 0 .. MaxMoves
  BY ConstantTypes DEF Init
<1>4. doing \in DoingT /\ doing.step # "on"
  BY IdleTyped DEF Init
<1>5. selectedSettings \in Track
  BY ConstantTypes DEF Init
<1> QED  BY <1>1, <1>2, <1>3, <1>4, <1>5 DEF Init, TypeInv, TypeOK, SeqOk, VoicesOk

\* A step in which no voice starts to sound for a track.
Quieting == /\ note' = [v \in Voice |-> note'[v]]
            /\ \A v \in Voice : Quieter(note'[v], note[v])

LEMMA QuietingTyped == ASSUME TypeInv, Quieting PROVE VoicesOk(note)'
<1>1. \A v \in Voice : note'[v] \in NoteT /\ Bound(note'[v])
  BY TypeFacts, QuieterBound DEF Quieting, Quieter, VoicesOk
<1>2. note' \in [Voice -> NoteT]
  <2> DEFINE voices == note'
  <2>1. voices = [v \in Voice |-> voices[v]] /\ \A v \in Voice : voices[v] \in NoteT
    BY <1>1 DEF Quieting
  <2> HIDE DEF voices
  <2>2. voices \in [Voice -> NoteT]
    BY <2>1
  <2> QED  BY <2>2 DEF voices
<1> QED  BY <1>1, <1>2 DEF VoicesOk, Bound, Live, Sounding, On

LEMMA UnchangedQuieting == ASSUME TypeInv, note' = note PROVE Quieting
BY TypeFacts, SameIsQuieter DEF Quieting, VoicesOk

\* One voice is written.
LEMMA OneQuieter ==
  ASSUME TypeInv, NEW v \in Voice, NEW m, note' = [note EXCEPT ![v] = m], Quieter(m, note[v])
  PROVE  Quieting
<1>1. \A w \in Voice : note[w] \in NoteT /\ Bound(note[w])
  BY TypeFacts DEF VoicesOk
<1>2. \A w \in Voice : note'[w] = IF w = v THEN m ELSE note[w]
  BY TypeFacts
<1>3. \A w \in Voice : Quieter(note'[w], note[w])
  BY <1>1, <1>2, SameIsQuieter
<1> QED  BY <1>3, TypeFacts DEF Quieting

LEMMA OneSilenced ==
  ASSUME TypeInv, NEW v \in Voice, NEW m, note' = [note EXCEPT ![v] = m], Silenced(m)
  PROVE  Quieting
BY OneQuieter, SilencedIsQuieter

\* Voices are left as they are or silenced.
LEMMA SomeSilenced ==
  ASSUME TypeInv, note' = [v \in Voice |-> note'[v]],
         \A v \in Voice : note'[v] = note[v] \/ Silenced(note'[v])
  PROVE  Quieting
<1>1. \A v \in Voice : note[v] \in NoteT /\ Bound(note[v])
  BY TypeFacts DEF VoicesOk
<1>2. \A v \in Voice : Quieter(note'[v], note[v])
  BY <1>1, SameIsQuieter, SilencedIsQuieter
<1> QED  BY <1>2 DEF Quieting

LEMMA IdlePulseTypes == ASSUME TypeInv, IdlePulse PROVE TypeInv'
<1>1. pulseClock' \in 0 .. MaxPulse
  BY ConstantTypes DEF TypeInv, TypeOK, IdlePulse
<1>2. head' = UNSET
  BY DEF TypeInv, IdlePulse
<1> QED  BY <1>1, <1>2 DEF TypeInv, TypeOK, IdlePulse, modes, choice, ghosts

\* A note that is due is released.
LEMMA PulseQuiets ==
  ASSUME TypeInv, Pulse
  PROVE  /\ Quieting
         /\ \A t \in Track : IsDue(t) => Silenced(note'[Sn(t).noteIndex])
<1>1. PICK cut \in SUBSET Voice :
        note' = [v \in Voice |-> IF \E t \in Track : IsDue(t) /\ Sn(t).noteIndex = v
                                 THEN ReleaseNote(note[v], v \in cut) ELSE note[v]]
  BY DEF Pulse
<1>2. ASSUME NEW v \in Voice
      PROVE  Silenced(ReleaseNote(note[v], v \in cut))
  <2>1. note[v] \in NoteT /\ (v \in cut) \in BOOLEAN
    BY TypeFacts
  <2> QED  BY <2>1, NoteChanges
<1>3. Quieting
  BY <1>1, <1>2, SomeSilenced
<1>4. ASSUME NEW t \in Track, IsDue(t) PROVE Silenced(note'[Sn(t).noteIndex])
  <2>1. Sn(t).noteIndex \in Voice
    BY TypeFacts, OfTheTrack
  <2> QED  BY <1>1, <1>2, <1>4, <2>1
<1> QED  BY <1>3, <1>4

LEMMA PulseTypes == ASSUME TypeInv, Pulse PROVE TypeInv'
<1>2. VoicesOk(note)'
  BY PulseQuiets, QuietingTyped
<1>3. SeqOk(seq)'
  <2>1. seq' = [t \in Track |-> IF IsDue(t) THEN Lasting(seq, t, track[t].noteSeqIndex, Elapsed(t))[t]
                               ELSE seq[t]]
    BY TypeFacts DEF Pulse, Lasting, SeqOk
  <2>2. ASSUME NEW t \in Track
        PROVE  SeqOk(Lasting(seq, t, track[t].noteSeqIndex, Elapsed(t)))
    BY TypeFacts, OfTheTrack, LastingTyped
  <2> QED  BY <2>1, <2>2, TypeFacts DEF SeqOk
<1>4. seqIndex' \in Slot
  BY ConstantTypes, TypeFacts, TurnOver DEF Pulse, Slot
<1>5. pulseClock' \in 0 .. MaxPulse /\ head' \in Track \cup {UNSET}
  BY ConstantTypes DEF TypeInv, TypeOK, Pulse
<1>6. head' # UNSET => pulseClock' < MaxPulse /\ seqRunning'
  BY ConstantTypes, TypeFacts DEF Pulse, modes
<1>7. doing'.step = "on" => seqLock' /\ head' = UNSET
  BY DEF TypeInv, Pulse
<1> QED
  BY <1>2, <1>3, <1>4, <1>5, <1>6, <1>7
     DEF TypeInv, TypeOK, Pulse, modes, choice, ghosts, SeqOk, VoicesOk

LEMMA NextTrackTypes ==
  ASSUME TypeInv, NEW t \in Track, head = t, NextTrack(t), seqRunning' = seqRunning
  PROVE  /\ pulseClock' \in 0 .. MaxPulse /\ head' \in Track \cup {UNSET}
         /\ head' # UNSET => pulseClock' < MaxPulse /\ seqRunning'
         /\ doing.step # "on"
BY ConstantTypes DEF TypeInv, TypeOK, NextTrack

\* A note that a note at the head cuts short.
LEMMA CutShortTyped ==
  ASSUME TypeInv, NEW t \in Track
  PROVE  /\ RowOk(CutShort(t)[1]) /\ VoicesOk(CutShort(t)[2])
         /\ \A s \in Slot : /\ CutShort(t)[1][s].midiVal = seq[t][s].midiVal
                           /\ CutShort(t)[1][s].drum = seq[t][s].drum
                           /\ CutShort(t)[1][s].noteIndex = seq[t][s].noteIndex
         /\ OfTrack(t).trigger # t => CutShort(t)[2] = note
         /\ OfTrack(t).trigger = t =>
              CutShort(t)[2] = [note EXCEPT ![Sn(t).noteIndex] = Unclaimed(OfTrack(t))]
<1> DEFINE p == track[t].noteSeqIndex
           longer == [seq[t] EXCEPT ![p].duration = Elapsed(t)]
           cut == [note EXCEPT ![Sn(t).noteIndex] = Unclaimed(OfTrack(t))]
<1>1. RowOk(seq[t]) /\ VoicesOk(note)
  BY TypeFacts DEF SeqOk, RowOk
<1>2. longer = Lasting(seq, t, p, Elapsed(t))[t]
  BY TypeFacts DEF Lasting, SeqOk
<1>3. /\ SeqOk(Lasting(seq, t, p, Elapsed(t)))
      /\ Lasting(seq, t, p, Elapsed(t))[t][p] = [seq[t][p] EXCEPT !.duration = Elapsed(t)]
      /\ \A s \in Slot : s # p => Lasting(seq, t, p, Elapsed(t))[t][s] = seq[t][s]
  <2>1. SeqOk(seq) /\ p \in Slot /\ Elapsed(t) \in 0 .. (WORD - 1)
    BY TypeFacts, OfTheTrack
  <2> HIDE DEF p
  <2> QED  BY <2>1, LastingTyped
<1>4. RowOk(longer)
  <2> DEFINE q == Lasting(seq, t, p, Elapsed(t))
  <2>1. SeqOk(q) /\ longer = q[t]
    BY <1>2, <1>3
  <2> HIDE DEF q, longer
  <2> QED  BY <2>1 DEF SeqOk, RowOk
<1>5. ASSUME NEW s \in Slot
      PROVE  /\ longer[s].midiVal = seq[t][s].midiVal /\ longer[s].drum = seq[t][s].drum
             /\ longer[s].noteIndex = seq[t][s].noteIndex
  BY <1>2, <1>3, OfTheTrack, TypeFacts, SlotDuration
<1>6. VoicesOk(cut)
  <2>1. OfTrack(t) \in NoteT
    BY TypeFacts, OfTheTrack
  <2>2. Silenced(Unclaimed(OfTrack(t)))
    BY <2>1, NoteChanges
  <2> QED  BY <1>1, <2>2 DEF VoicesOk, Silenced, Bound
<1>7. CutShort(t) = <<IF OfTrack(t).trigger = t /\ On(OfTrack(t)) THEN longer ELSE seq[t],
                     IF OfTrack(t).trigger = t THEN cut ELSE note>>
  BY DEF CutShort, OfTrack
<1> HIDE DEF longer, cut
<1>8. /\ CutShort(t)[1] = IF OfTrack(t).trigger = t /\ On(OfTrack(t)) THEN longer ELSE seq[t]
      /\ CutShort(t)[2] = IF OfTrack(t).trigger = t THEN cut ELSE note
  BY <1>7
<1> QED  BY <1>1, <1>4, <1>5, <1>6, <1>8 DEF cut

\* The slot at the head once it has been struck.
Struck(x, v, pulse) == [x EXCEPT !.noteIndex = v, !.startPulse = pulse]

LEMMA StruckTyped ==
  ASSUME NEW x \in SeqNoteT, NEW v \in Voice, NEW pulse \in 0 .. (WORD - 1)
  PROVE  /\ Struck(x, v, pulse) \in SeqNoteT
         /\ Keyed(x) => Keyed(Struck(x, v, pulse))
         /\ Struck(x, v, pulse).noteIndex = v /\ Struck(x, v, pulse).startPulse = pulse
         /\ Struck(x, v, pulse).duration = x.duration
BY DEF Struck, SeqNoteT, Keyed

\* What a note at the head does: it is let pass as a double hit, or it strikes
\* a voice, which it claims.
Strikes(t, v, cut) ==
  LET slot == CutShort(t)[1][seqIndex] IN
  /\ v \in Voice
  /\ note' = [CutShort(t)[2] EXCEPT ![v] =
                 NewNote(slot.midiVal, slot.drum, t, slot.sample, cut, t)]
  /\ seq' = [seq EXCEPT ![t] = [CutShort(t)[1] EXCEPT ![seqIndex] =
                                  Struck(slot, v, pulseClock % WORD)]]
  /\ track' = [track EXCEPT ![t].noteSeqIndex = seqIndex]

LEMMA PlaySlotEffect ==
  ASSUME TypeInv, NEW t \in Track, PlaySlot(t)
  PROVE  \/ /\ seq' = [seq EXCEPT ![t] = CutShort(t)[1]] /\ note' = CutShort(t)[2]
            /\ track' = track
         \/ \E v \in Voice, cut \in BOOLEAN : Strikes(t, v, cut)
<1> DEFINE slots == CutShort(t)[1]
           voices == CutShort(t)[2]
           slot == slots[seqIndex]
<1>1. CASE DoubleHit(slot)
  BY <1>1 DEF PlaySlot
<1>2. CASE ~DoubleHit(slot)
  <2>1. PICK v \in Choices(voices), cut \in SampleChosen :
          /\ note' = [voices EXCEPT ![v] =
               NewNote(slot.midiVal, slot.drum, t, slot.sample, cut, t)]
          /\ seq' = [seq EXCEPT ![t] = [slots EXCEPT ![seqIndex].noteIndex = v,
                                                     ![seqIndex].startPulse = pulseClock % WORD]]
          /\ track' = [track EXCEPT ![t].noteSeqIndex = seqIndex]
    BY <1>2 DEF PlaySlot
  <2>2. v \in Voice /\ cut \in BOOLEAN
    BY ChosenVoice, ConstantTypes
  <2>3. slots \in [Slot -> SeqNoteT] /\ seqIndex \in Slot
    BY CutShortTyped, TypeFacts DEF RowOk
  <2>4. [slots EXCEPT ![seqIndex].noteIndex = v, ![seqIndex].startPulse = pulseClock % WORD]
          = [slots EXCEPT ![seqIndex] = Struck(slot, v, pulseClock % WORD)]
    <3> HIDE DEF slots
    <3> QED  BY <2>3 DEF Struck
  <2> QED  BY <2>1, <2>2, <2>4 DEF Strikes
<1> QED  BY <1>1, <1>2

LEMMA PlaySlotTypes == ASSUME TypeInv, NEW t \in Track, PlaySlot(t) PROVE TypeInv'
<1> DEFINE slots == CutShort(t)[1]
           voices == CutShort(t)[2]
<1>1. /\ pulseClock' \in 0 .. MaxPulse /\ head' \in Track \cup {UNSET}
      /\ head' # UNSET => pulseClock' < MaxPulse /\ seqRunning'
      /\ doing.step # "on"
  BY NextTrackTypes DEF PlaySlot, modes
<1>2. SeqOk(seq) /\ RowOk(slots) /\ VoicesOk(voices) /\ seqIndex \in Slot
      /\ track \in [Track -> TrackT]
  BY TypeFacts, CutShortTyped
<1>3. slots[seqIndex].midiVal # UNSET /\ slots[seqIndex] \in SeqNoteT /\ Keyed(slots[seqIndex])
  BY <1>2, CutShortTyped DEF PlaySlot, RowOk
<1>4. SeqOk(seq)' /\ VoicesOk(note)' /\ (track \in [Track -> TrackT])'
  <2> HIDE DEF slots, voices
  <2>1. CASE seq' = [seq EXCEPT ![t] = slots] /\ note' = voices /\ track' = track
    BY <2>1, <1>2 DEF SeqOk, RowOk, VoicesOk, Bound, Live, Sounding, On
  <2>2. ASSUME NEW v \in Voice, NEW cut \in BOOLEAN, Strikes(t, v, cut)
        PROVE  SeqOk(seq)' /\ VoicesOk(note)' /\ (track \in [Track -> TrackT])'
    <3> DEFINE x == slots[seqIndex]
               new == NewNote(x.midiVal, x.drum, t, x.sample, cut, t)
               struck == Struck(x, v, pulseClock % WORD)
    <3>1. /\ note' = [voices EXCEPT ![v] = new]
          /\ seq' = [seq EXCEPT ![t] = [slots EXCEPT ![seqIndex] = struck]]
          /\ track' = [track EXCEPT ![t].noteSeqIndex = seqIndex]
      BY <2>2 DEF Strikes, slots, voices
    <3>2. [drum |-> x.drum, note |-> x.midiVal] \in Press /\ x.drum \in BOOLEAN
          /\ x.sample \in BOOLEAN
      BY <1>3 DEF Keyed, SeqNoteT
    <3>3. new \in NoteT /\ Bound(new)
      BY <3>2, NewNoteTyped
    <3>4. pulseClock \in Int
      BY TypeFacts, ConstantTypes
    <3>5. struck \in SeqNoteT /\ Keyed(struck)
      <4>1. pulseClock % WORD \in 0 .. (WORD - 1)
        BY <3>4, WordTyped
      <4>2. x \in SeqNoteT /\ Keyed(x)
        BY <1>3 DEF slots
      <4> HIDE DEF x
      <4> QED  BY <4>1, <4>2, StruckTyped
    <3> HIDE DEF struck, new
    <3>6. RowOk([slots EXCEPT ![seqIndex] = struck])
      BY <1>2, <3>5 DEF RowOk
    <3>7. SeqOk(seq)'
      BY <1>2, <3>1, <3>6 DEF SeqOk, RowOk
    <3>8. VoicesOk(note)'
      <4>1. VoicesOk([voices EXCEPT ![v] = new])
        BY <1>2, <3>3 DEF VoicesOk
      <4> QED  BY <3>1, <4>1 DEF VoicesOk, Bound, Live, Sounding, On
    <3>9. (track \in [Track -> TrackT])'
      BY <1>2, <3>1 DEF TrackT
    <3> QED  BY <3>7, <3>8, <3>9
  <2> QED  BY <2>1, <2>2, PlaySlotEffect DEF slots, voices
<1> QED
  BY <1>1, <1>4 DEF TypeInv, TypeOK, PlaySlot, modes, choice, ghosts, SeqOk, VoicesOk

LEMMA EraseSlotTypes == ASSUME TypeInv, NEW t \in Track, EraseSlot(t) PROVE TypeInv'
<1>1. /\ pulseClock' \in 0 .. MaxPulse /\ head' \in Track \cup {UNSET}
      /\ head' # UNSET => pulseClock' < MaxPulse /\ seqRunning'
      /\ doing.step # "on"
  BY NextTrackTypes DEF EraseSlot, modes
<1>2. seq' = Written(seq, t, seqIndex, EmptySlot)
  BY DEF EraseSlot, Written
<1>3. SeqOk(seq)'
  BY <1>2, TypeFacts, WrittenTyped, EmptySlotTyped DEF SeqOk
<1> QED
  BY <1>1, <1>3 DEF TypeInv, TypeOK, EraseSlot, modes, choice, ghosts, SeqOk

LEMMA PassSlotTypes == ASSUME TypeInv, NEW t \in Track, PassSlot(t) PROVE TypeInv'
<1>1. /\ pulseClock' \in 0 .. MaxPulse /\ head' \in Track \cup {UNSET}
      /\ head' # UNSET => pulseClock' < MaxPulse /\ seqRunning'
      /\ doing.step # "on"
  BY NextTrackTypes DEF PassSlot, modes
<1> QED
  BY <1>1 DEF TypeInv, TypeOK, PassSlot, modes, choice, ghosts

LEMMA VoiceEndsQuiets == ASSUME TypeInv, NEW v \in Voice, VoiceEnds(v) PROVE Quieting
<1>1. note[v] \in NoteT
  BY TypeFacts
<1>2. Silenced(StopNote(note[v]))
  BY <1>1, NoteChanges
<1> QED  BY <1>2, OneSilenced DEF VoiceEnds

LEMMA VoiceEndsTypes == ASSUME TypeInv, NEW v \in Voice, VoiceEnds(v) PROVE TypeInv'
<1>1. VoicesOk(note)'
  BY VoiceEndsQuiets, QuietingTyped
<1> QED
  BY <1>1 DEF TypeInv, TypeOK, VoiceEnds, clock, modes, choice, ghosts, VoicesOk

LEMMA MoveTyped ==
  ASSUME TypeInv, NEW control, Move(control)
  PROVE  moves' \in 0 .. MaxMoves /\ head = UNSET /\ doing = Idle /\ doing.step # "on"
<1>1. Cost[control] \in Nat /\ moves \in Nat
  BY ConstantTypes DEF TypeInv, TypeOK, Move, May
<1>2. moves' = moves + Cost[control] /\ moves + Cost[control] <= MaxMoves
  BY DEF Move
<1>3. moves' \in 0 .. MaxMoves
  BY <1>1, <1>2, ConstantTypes
<1> QED  BY <1>3, IdleTyped DEF Move, May, Main

LEMMA SnapTyped == ASSUME TypeInv PROVE SnapIndex \in Slot /\ SnapPulse \in Int
<1>1. pulseClock \in Int /\ seqIndex \in Slot /\ seqIndex \in Int
  BY TypeFacts
<1>2. (seqIndex + 1) % SEQ_LENGTH \in Slot
  BY <1>1, ConstantTypes, TurnOver DEF Slot
<1>3. Offset \in Int
  BY <1>1, ConstantTypes DEF Offset
<1> QED  BY <1>1, <1>2, <1>3, ConstantTypes DEF SnapIndex, SnapPulse

\* The voices and the slot a note on leaves to its second step.
LEMMA BeginNoteOnQuiets == ASSUME TypeInv, NEW k \in Press, BeginNoteOn(k) PROVE Quieting
<1> DEFINE v == Sn(currentTrack).noteIndex
<1>1. v \in Voice /\ note[v] \in NoteT
  BY TypeFacts, OfTheTrack
<1>2. note' = note \/ note' = [note EXCEPT ![v] = Unclaimed(note[v])]
  BY DEF BeginNoteOn
<1>3. Silenced(Unclaimed(note[v]))
  BY <1>1, NoteChanges
<1> HIDE DEF v
<1> QED  BY <1>1, <1>2, <1>3, OneSilenced, UnchangedQuieting

LEMMA BeginNoteOnTypes == ASSUME TypeInv, NEW k \in Press, BeginNoteOn(k) PROVE TypeInv'
<1> DEFINE t == currentTrack
           p == track[t].noteSeqIndex
           rest == (SnapPulse - Sn(t).startPulse) % WORD
<1>1. t \in Track /\ p \in Slot /\ SeqOk(seq) /\ note \in [Voice -> NoteT]
  BY TypeFacts, OfTheTrack
<1>2. moves' \in 0 .. MaxMoves /\ head = UNSET
  BY MoveTyped DEF BeginNoteOn
<1>3. rest \in 0 .. (WORD - 1)
  <2>1. Sn(t).startPulse \in Int /\ SnapPulse \in Int
    <3>1. TypeOK /\ t \in Track
      BY TypeFacts
    <3>2. Sn(t).startPulse \in 0 .. (WORD - 1)
      BY <3>1, OfTheTrack
    <3> QED  BY <3>2, SnapTyped, ConstantTypes
  <2> QED  BY <2>1, WordTyped
<1>4. VoicesOk(note)'
  BY BeginNoteOnQuiets, QuietingTyped
<1>5. SeqOk(seq)'
  <2>1. seq' \in {seq, Lasting(seq, t, p, rest)}
    BY DEF BeginNoteOn, Lasting
  <2> HIDE DEF t, p, rest
  <2>2. SeqOk(Lasting(seq, t, p, rest))
    BY <1>1, <1>3, LastingTyped
  <2> QED  BY <1>1, <2>1, <2>2 DEF SeqOk
<1>6. doing' \in DoingT
  <2>1. pulseClock % WORD \in 0 .. (WORD - 1)
    BY TypeFacts, ConstantTypes, WordTyped
  <2> QED  BY <2>1, SnapTyped DEF BeginNoteOn, DoingT, OnT
<1>7. held' \subseteq Press /\ seqLock' = TRUE
  BY DEF BeginNoteOn, Lock, TypeInv, TypeOK
<1> QED
  BY <1>2, <1>4, <1>5, <1>6, <1>7
     DEF TypeInv, TypeOK, BeginNoteOn, clock, modes, choice, SeqOk, VoicesOk

\* The slot a note on records, the voice it takes.
RecordedSlot(v, sample) ==
  [midiVal |-> doing.key.note, drum |-> doing.key.drum, sample |-> sample,
   noteIndex |-> v, startPulse |-> doing.start, duration |-> 0]

Fresh(sample, cut, owner) ==
  NewNote(doing.key.note, doing.key.drum, selectedSettings, sample, cut, owner)

Records(v, sample, cut) ==
  LET new == Fresh(sample, cut, currentTrack) IN
  /\ ~seqPreview /\ (seqRunning \/ seqSynchStart)
  /\ note' = [note EXCEPT ![v] = new]
  /\ seq' = Written(seq, currentTrack, doing.snap, RecordedSlot(v, new.isSample))
  /\ track' = [track EXCEPT ![currentTrack] = [noteSeqIndex |-> doing.snap,
                                               state |-> "SEQ_RECORD"]]

OnlySounds(v, sample, cut) ==
  /\ seqPreview \/ ~(seqRunning \/ seqSynchStart)
  /\ note' = [note EXCEPT ![v] = Fresh(sample, cut, UNSET)]
  /\ UNCHANGED <<seq, track>>

LEMMA FinishNoteOnEffect ==
  ASSUME FinishNoteOn
  PROVE  \E v \in Voice, sample \in BOOLEAN, cut \in BOOLEAN :
           Records(v, sample, cut) \/ OnlySounds(v, sample, cut)
<1> DEFINE recorded == ~seqPreview /\ (seqRunning \/ seqSynchStart)
           new(sample, cut) == NewNote(doing.key.note, doing.key.drum, selectedSettings, sample,
                                       sample /\ cut, IF recorded THEN currentTrack ELSE UNSET)
<1>1. PICK v \in Choices(note), sample \in SampleChosen, cut \in BOOLEAN :
        /\ note' = [note EXCEPT ![v] = new(sample, cut)]
        /\ IF recorded
           THEN /\ seq' = [seq EXCEPT ![currentTrack][doing.snap] =
                     [midiVal |-> doing.key.note, drum |-> doing.key.drum,
                      sample |-> new(sample, cut).isSample,
                      noteIndex |-> v, startPulse |-> doing.start, duration |-> 0]]
                /\ track' = [track EXCEPT ![currentTrack] = [noteSeqIndex |-> doing.snap,
                                                             state |-> "SEQ_RECORD"]]
           ELSE UNCHANGED <<seq, track>>
  BY DEF FinishNoteOn
<1>2. v \in Voice /\ sample \in BOOLEAN /\ (sample /\ cut) \in BOOLEAN
  BY ChosenVoice, ConstantTypes
<1>3. CASE recorded
  <2>1. new(sample, cut) = Fresh(sample, sample /\ cut, currentTrack)
    BY <1>3 DEF Fresh
  <2>2. Records(v, sample, sample /\ cut)
    BY <1>1, <1>3, <2>1 DEF Records, RecordedSlot, Written
  <2> QED  BY <1>2, <2>2
<1>4. CASE ~recorded
  <2>1. OnlySounds(v, sample, sample /\ cut)
    BY <1>1, <1>4 DEF OnlySounds, Fresh
  <2> QED  BY <1>2, <2>1
<1> QED  BY <1>3, <1>4

LEMMA FreshTyped ==
  ASSUME TypeInv, doing.step = "on", NEW sample \in BOOLEAN, NEW cut \in BOOLEAN,
         NEW owner \in Track \cup {UNSET}
  PROVE  LET n == Fresh(sample, cut, owner)
         IN  n \in NoteT /\ Bound(n) /\ n.owner = owner /\ n.isSample \in BOOLEAN
<1>1. doing.key \in Press /\ selectedSettings \in Track
  BY DoingTyped, TypeFacts DEF OnT
<1>2. doing.key.drum \in BOOLEAN /\ doing.key = [drum |-> doing.key.drum, note |-> doing.key.note]
  BY <1>1 DEF Press
<1> DEFINE n == Fresh(sample, cut, owner)
<1>3. n \in NoteT /\ Bound(n) /\ n.owner = owner
  BY <1>1, <1>2, NewNoteTyped DEF Fresh
<1> HIDE DEF n
<1>4. n.isSample \in BOOLEAN
  BY <1>3 DEF NoteT
<1> QED  BY <1>3, <1>4 DEF n

LEMMA FinishNoteOnTypes == ASSUME TypeInv, FinishNoteOn PROVE TypeInv'
<1>1. /\ SeqOk(seq) /\ VoicesOk(note) /\ track \in [Track -> TrackT]
      /\ currentTrack \in Track /\ selectedSettings \in Track
  BY TypeFacts
<1>2. /\ doing.step = "on" /\ doing.key \in Press /\ doing.snap \in Slot
      /\ doing.start \in 0 .. (WORD - 1)
  BY DoingTyped DEF FinishNoteOn, At, OnT
<1>3. doing.key.drum \in BOOLEAN /\ doing.key = [drum |-> doing.key.drum, note |-> doing.key.note]
      /\ doing.key.note \in Key \cup DrumKey
  BY <1>2 DEF Press
<1>4. SeqOk(seq)' /\ VoicesOk(note)' /\ (track \in [Track -> TrackT])'
  <2>1. PICK v \in Voice, sample \in BOOLEAN, cut \in BOOLEAN :
          Records(v, sample, cut) \/ OnlySounds(v, sample, cut)
    BY FinishNoteOnEffect
  <2>2. ASSUME NEW m \in NoteT, Bound(m), note' = [note EXCEPT ![v] = m]
        PROVE  VoicesOk(note)'
    <3>1. VoicesOk([note EXCEPT ![v] = m])
      BY <1>1, <2>2 DEF VoicesOk
    <3> QED  BY <2>2, <3>1 DEF VoicesOk, Bound, Live, Sounding, On
  <2>3. CASE OnlySounds(v, sample, cut)
    <3>1. VoicesOk(note)'
      BY <1>2, <2>2, <2>3, FreshTyped DEF OnlySounds
    <3> QED  BY <1>1, <2>3, <3>1 DEF SeqOk, OnlySounds
  <2>4. CASE Records(v, sample, cut)
    <3> DEFINE new == Fresh(sample, cut, currentTrack)
               x == RecordedSlot(v, new.isSample)
    <3>1. /\ note' = [note EXCEPT ![v] = new]
          /\ seq' = Written(seq, currentTrack, doing.snap, x)
          /\ track' = [track EXCEPT ![currentTrack] = [noteSeqIndex |-> doing.snap,
                                                       state |-> "SEQ_RECORD"]]
      BY <2>4 DEF Records
    <3>2. new \in NoteT /\ Bound(new) /\ new.isSample \in BOOLEAN
      BY <1>1, <1>2, FreshTyped
    <3> HIDE DEF new
    <3>3. x \in SeqNoteT /\ Keyed(x)
      BY <1>2, <1>3, <3>2, ConstantTypes DEF RecordedSlot, SeqNoteT, Keyed
    <3> HIDE DEF x
    <3>4. SeqOk(seq)'
      BY <1>1, <1>2, <3>1, <3>3, WrittenTyped DEF SeqOk
    <3>5. (track \in [Track -> TrackT])'
      BY <1>1, <1>2, <3>1 DEF TrackT
    <3> QED  BY <2>2, <3>1, <3>2, <3>4, <3>5
  <2> QED  BY <2>1, <2>3, <2>4
<1>5. doing' \in DoingT /\ doing'.step # "on"
  BY IdleTyped DEF FinishNoteOn
<1> QED
  BY <1>4, <1>5 DEF TypeInv, TypeOK, FinishNoteOn, At, clock, choice, SeqOk, VoicesOk

-----------------------------------------------------------------------------
(* What the main thread does to a voice without the lock *)

\* The next voice of a loop, and what comes after the last.
LEMMA NextOffTyped ==
  ASSUME TypeInv, doing.step \in {"off", "off:release", "off:trigger"}, NextOff
  PROVE  doing' \in DoingT /\ doing'.step # "on" /\ (Turning' => Turning)
<1>1. doing \in OffT /\ seqRunning \in BOOLEAN
  BY DoingTyped DEF TypeInv, TypeOK
<1>2. CASE doing.voice + 1 \in Voice
  <2>1. doing' = [doing EXCEPT !.voice = doing.voice + 1, !.step = "off", !.sample = FALSE]
    BY <1>2 DEF NextOff
  <2>2. doing' \in OffT /\ doing'.step = "off" /\ doing'.turn = doing.turn
    BY <1>1, <1>2, <2>1 DEF OffT
  <2> QED  BY <2>2 DEF DoingT, Turning
<1>3. CASE doing.voice + 1 \notin Voice /\ doing.turn = UNSET
  <2>1. doing' = Idle
    BY <1>3 DEF NextOff
  <2> QED  BY <2>1, IdleTyped DEF Turning
<1>4. CASE doing.voice + 1 \notin Voice /\ doing.turn # UNSET
  <2>1. doing' = [step |-> "turn", turn |-> doing.turn, ends |-> FALSE, stops |-> ~seqRunning]
    BY <1>4 DEF NextOff
  <2>2. doing' \in TurnT /\ doing'.step = "turn"
    BY <1>1, <1>4, <2>1 DEF OffT, TurnT
  <2> QED  BY <1>4, <2>2 DEF DoingT, Turning
<1> QED  BY <1>2, <1>3, <1>4

LEMMA NextQuietTyped ==
  ASSUME TypeInv, doing.step \in {"quiet", "quiet:mark", "quiet:wait"}, NextQuiet
  PROVE  doing' \in DoingT /\ doing'.step \in {"quiet", "idle"}
<1>1. doing \in QuietT
  BY DoingTyped
<1>2. CASE doing.voice + 1 \in Voice
  <2>1. doing' = [doing EXCEPT !.voice = doing.voice + 1, !.step = "quiet"]
    BY <1>2 DEF NextQuiet
  <2>2. doing' \in QuietT /\ doing'.step = "quiet"
    BY <1>1, <1>2, <2>1 DEF QuietT
  <2> QED  BY <2>2 DEF DoingT
<1>3. CASE doing.voice + 1 \notin Voice
  BY <1>3, IdleTyped DEF NextQuiet
<1> QED  BY <1>2, <1>3

\* What holds of such a step: it makes no voice sound for a track that did not.
Unlocked ==
  /\ Quieting /\ Frame /\ head = UNSET
  /\ doing.step # "on" /\ doing' \in DoingT /\ doing'.step # "on"
  /\ Turning' => Turning

LEMMA ServeUnlocked == ASSUME TypeInv, NEW v \in Voice, Serve(v) PROVE Unlocked
<1>1. Quieting /\ Frame /\ head = UNSET /\ doing = Idle
  BY UnchangedQuieting DEF Serve, Main
<1>2. doing' \in ServeT
  BY DEF Serve, ServeT
<1>3. doing'.step \in {"switch", "end", "end:phase", "end:trigger"}
  BY <1>2 DEF ServeT
<1> QED  BY <1>1, <1>2, <1>3, IdleTyped DEF Unlocked, DoingT, Turning

\* A phase that is written over that of a sounding note leaves it as it was.
LEMMA SwitchUnlocked == ASSUME TypeInv, SwitchPhase PROVE Unlocked
<1> DEFINE v == doing.voice
           m == [note[v] EXCEPT !.envelopePhase = "ON",
                                !.torn = @ \/ (note[v].midiVal # NOTE_OFF /\ ~On(note[v]))]
<1>1. doing.step = "switch" /\ head = UNSET /\ Frame /\ doing' = Idle
  BY DEF SwitchPhase, At
<1>2. v \in Voice
  BY <1>1, DoingTyped DEF ServeT
<1>3. note[v] \in NoteT /\ Bound(note[v])
  BY <1>2, TypeFacts DEF VoicesOk
<1>4. note' = [note EXCEPT ![v] = m]
  BY DEF SwitchPhase
<1> HIDE DEF v
<1>5. Quieter(m, note[v])
  <2>1. m \in NoteT /\ m.owner = note[v].owner /\ m.trigger = note[v].trigger
        /\ m.envelopePhase = "ON" /\ m.midiVal = note[v].midiVal
        /\ m.torn = (note[v].torn \/ (note[v].midiVal # NOTE_OFF /\ ~On(note[v])))
    BY <1>3 DEF NoteT, On
  <2> HIDE DEF m
  <2>2. ASSUME Live(m) PROVE Live(note[v])
    BY <2>1, <2>2 DEF Live, Sounding, On
  <2>3. On(m)
    BY <2>1 DEF On
  <2>4. ASSUME Live(note[v]) PROVE note[v].trigger = note[v].owner
    BY <1>3, <2>4 DEF Bound
  <2> QED  BY <2>1, <2>2, <2>3 DEF Quieter
<1> HIDE DEF m
<1>6. Quieting
  BY <1>2, <1>4, <1>5, OneQuieter
<1> QED  BY <1>1, <1>6, IdleTyped DEF Unlocked, Turning

LEMMA EndUnlocked == ASSUME TypeInv, EndNote \/ EndPhase \/ EndTrigger PROVE Unlocked
<1> DEFINE v == doing.voice
<1>1. /\ doing.step \in {"end", "end:phase", "end:trigger"} /\ head = UNSET /\ Frame
      /\ \/ doing' = Idle \/ doing' = [doing EXCEPT !.step = "end:phase"]
         \/ doing' = [doing EXCEPT !.step = "end:trigger"]
  BY DEF EndNote, EndPhase, EndTrigger, At
<1>2. doing \in ServeT
  BY <1>1, DoingTyped
<1>3. doing' \in DoingT /\ doing'.step \in {"idle", "end:phase", "end:trigger"}
  BY <1>1, <1>2, IdleTyped DEF ServeT, DoingT
<1>4. v \in Voice
  BY <1>2 DEF ServeT
<1>5. note[v] \in NoteT
  BY <1>4, TypeFacts
<1> HIDE DEF v
<1>6. CASE EndNote
  <2>1. note' = [note EXCEPT ![v] = Marked(note[v])]
    BY <1>6 DEF EndNote, v
  <2>2. Silenced(Marked(note[v]))
    BY <1>5, NoteChanges
  <2>3. Quieting
    BY <1>4, <2>1, <2>2, OneSilenced
  <2> QED  BY <1>1, <1>3, <2>3 DEF Unlocked, Turning
<1>7. CASE EndPhase \/ EndTrigger
  <2>1. PICK m \in { [note[v] EXCEPT !.envelopePhase = "OFF", !.torn = Restarted(note[v])],
                     [note[v] EXCEPT !.trigger = UNSET, !.torn = Restarted(note[v])] } :
          note' = [note EXCEPT ![v] = m]
    BY <1>7 DEF EndPhase, EndTrigger, v
  <2>2. m \in NoteT /\ m.midiVal = note[v].midiVal /\ m.torn = (note[v].midiVal # NOTE_OFF)
    BY <1>5, <2>1 DEF NoteT, Restarted
  <2>3. Silenced(m)
    BY <2>2 DEF Silenced, Live, Sounding
  <2>4. Quieting
    BY <1>4, <2>1, <2>3, OneSilenced
  <2> QED  BY <1>1, <1>3, <2>4 DEF Unlocked, Turning
<1> QED  BY <1>6, <1>7

LEMMA OffUnlocked ==
  ASSUME TypeInv, FindNoteOff \/ ReleasePhase \/ ReleaseTrigger
  PROVE  Unlocked
<1> DEFINE v == doing.voice
<1>1. doing.step \in {"off", "off:release", "off:trigger"} /\ head = UNSET /\ Frame
  BY DEF FindNoteOff, ReleasePhase, ReleaseTrigger, At
<1>2. doing \in OffT
  BY <1>1, DoingTyped
<1>3. v \in Voice /\ note[v] \in NoteT /\ Bound(note[v])
  <2>1. v \in Voice
    BY <1>2 DEF OffT
  <2> QED  BY <2>1, TypeFacts DEF VoicesOk
<1>4. doing' \in DoingT /\ doing'.step # "on" /\ (Turning' => Turning)
  <2>1. CASE NextOff
    BY <1>1, <2>1, NextOffTyped
  <2>2. CASE doing' = [doing EXCEPT !.step = "off:release", !.sample = note[v].isSample]
    <3>1. note[v].isSample \in BOOLEAN
      BY <1>3 DEF NoteT
    <3>2. doing' \in OffT /\ doing'.step = "off:release" /\ doing'.turn = doing.turn
      BY <1>2, <2>2, <3>1 DEF OffT
    <3> QED  BY <1>1, <3>2 DEF DoingT, Turning
  <2>3. CASE doing' = [doing EXCEPT !.step = "off:trigger"]
    <3>1. doing' \in OffT /\ doing'.step = "off:trigger" /\ doing'.turn = doing.turn
      BY <1>2, <2>3 DEF OffT
    <3> QED  BY <1>1, <3>1 DEF DoingT, Turning
  <2> QED  BY <2>1, <2>2, <2>3 DEF FindNoteOff, ReleasePhase, ReleaseTrigger
<1> HIDE DEF v
<1>5. CASE FindNoteOff
  <2>1. Quieting
    BY <1>5, UnchangedQuieting DEF FindNoteOff
  <2> QED  BY <1>1, <1>4, <2>1 DEF Unlocked
<1>6. CASE ReleasePhase
  <2> DEFINE m == [note[v] EXCEPT !.envelopePhase = "RELEASE"]
  <2>1. note' = [note EXCEPT ![v] = m]
    BY <1>6 DEF ReleasePhase, v
  <2>2. Silenced(m)
    BY <1>3 DEF Silenced, Live, Sounding, NoteT
  <2> HIDE DEF m
  <2>3. Quieting
    BY <1>3, <2>1, <2>2, OneSilenced
  <2> QED  BY <1>1, <1>4, <2>3 DEF Unlocked
<1>7. CASE ReleaseTrigger
  <2> DEFINE m == [note[v] EXCEPT !.trigger = UNSET,
                     !.torn = @ \/ (note[v].midiVal # NOTE_OFF /\ On(note[v]))]
  <2>1. note' = [note EXCEPT ![v] = m]
    BY <1>7 DEF ReleaseTrigger, v
  <2>2. /\ m \in NoteT /\ m.midiVal = note[v].midiVal /\ m.owner = note[v].owner
        /\ m.envelopePhase = note[v].envelopePhase
        /\ m.torn = (note[v].torn \/ (note[v].midiVal # NOTE_OFF /\ On(note[v])))
    BY <1>3 DEF NoteT, On
  <2> HIDE DEF m
  <2>3. Silenced(m)
    <3> SUFFICES ASSUME Live(m) PROVE FALSE
      BY <2>2 DEF Silenced
    <3>1. Live(note[v]) /\ ~On(note[v])
      BY <2>2 DEF Live, Sounding
    <3> QED  BY <1>3, <3>1 DEF Bound
  <2>4. Quieting
    BY <1>3, <2>1, <2>3, OneSilenced
  <2> QED  BY <1>1, <1>4, <2>4 DEF Unlocked
<1> QED  BY <1>5, <1>6, <1>7

LEMMA QuietUnlocked ==
  ASSUME TypeInv, FindQuiet \/ QuietMark \/ QuietPhase
  PROVE  Unlocked
<1> DEFINE v == doing.voice
<1>1. doing.step \in {"quiet", "quiet:mark", "quiet:wait"} /\ head = UNSET /\ Frame
  BY DEF FindQuiet, QuietMark, QuietPhase, At
<1>2. doing \in QuietT
  BY <1>1, DoingTyped
<1>3. v \in Voice /\ note[v] \in NoteT
  <2>1. v \in Voice
    BY <1>2 DEF QuietT
  <2> QED  BY <2>1, TypeFacts
<1>4. doing' \in DoingT /\ doing'.step \in {"idle", "quiet", "quiet:mark", "quiet:wait"}
  <2>1. CASE NextQuiet
    BY <1>1, <2>1, NextQuietTyped
  <2>2. ASSUME NEW s \in {"quiet:mark", "quiet:wait"}, doing' = [doing EXCEPT !.step = s]
        PROVE  doing' \in DoingT /\ doing'.step = s
    BY <1>2, <2>2 DEF QuietT, DoingT
  <2> QED  BY <2>1, <2>2 DEF FindQuiet, QuietMark, QuietPhase
<1> HIDE DEF v
<1>5. CASE FindQuiet
  <2>1. Quieting
    BY <1>5, UnchangedQuieting DEF FindQuiet
  <2> QED  BY <1>1, <1>4, <2>1 DEF Unlocked, Turning
<1>6. CASE QuietMark
  <2>1. note' = [note EXCEPT ![v] = Marked(note[v])]
    BY <1>6 DEF QuietMark, v
  <2>2. Silenced(Marked(note[v]))
    BY <1>3, NoteChanges
  <2>3. Quieting
    BY <1>3, <2>1, <2>2, OneSilenced
  <2> QED  BY <1>1, <1>4, <2>3 DEF Unlocked, Turning
<1>7. CASE QuietPhase
  <2> DEFINE m == [note[v] EXCEPT !.envelopePhase = "OFF", !.torn = Restarted(note[v])]
  <2>1. note' = [note EXCEPT ![v] = m]
    BY <1>7 DEF QuietPhase, v
  <2>2. m \in NoteT /\ m.midiVal = note[v].midiVal /\ m.torn = (note[v].midiVal # NOTE_OFF)
    BY <1>3 DEF NoteT, Restarted
  <2> HIDE DEF m
  <2>3. Silenced(m)
    BY <2>2 DEF Silenced, Live, Sounding
  <2>4. Quieting
    BY <1>3, <2>1, <2>3, OneSilenced
  <2> QED  BY <1>1, <1>4, <2>4 DEF Unlocked, Turning
<1> QED  BY <1>5, <1>6, <1>7

LEMMA VoiceStep == ASSUME TypeInv, OnVoices PROVE Unlocked
BY ServeUnlocked, SwitchUnlocked, EndUnlocked, OffUnlocked, QuietUnlocked DEF OnVoices

LEMMA VoiceStepTypes == ASSUME TypeInv, OnVoices PROVE TypeInv'
<1>1. VoicesOk(note)' /\ Unlocked
  BY VoiceStep, QuietingTyped DEF Unlocked
<1> QED
  BY <1>1 DEF TypeInv, TypeOK, Unlocked, Frame, clock, modes, choice, ghosts, VoicesOk
-----------------------------------------------------------------------------
(* Recordings, transport and panel *)

\* The duration a key that goes up leaves to the slot it has recorded.
KeyLength(t) ==
  IF (pulseClock - Sn(t).startPulse) % WORD = 0 THEN 1
  ELSE (pulseClock - Sn(t).startPulse) % WORD

LEMMA KeyLengthTyped ==
  ASSUME TypeInv, NEW t \in Track
  PROVE  KeyLength(t) \in 0 .. (WORD - 1)
<1>1. KeyLength(t) = IF Elapsed(t) = 0 THEN 1 ELSE Elapsed(t)
  BY DEF KeyLength, Elapsed
<1>2. Elapsed(t) \in 0 .. (WORD - 1)
  BY TypeFacts, OfTheTrack
<1> QED  BY <1>1, <1>2, ConstantTypes

EndsRecording(key, cut) ==
  LET t == currentTrack IN
  /\ Sn(t).midiVal = key
  /\ seq' = Lasting(seq, t, track[t].noteSeqIndex, KeyLength(t))
  /\ note' = IF OfTrack(t).trigger = t
             THEN [note EXCEPT ![Sn(t).noteIndex] = ReleaseNote(OfTrack(t), cut)] ELSE note
  /\ track' = [track EXCEPT ![t].state = "SEQ_PLAY"]

\* The end of a recording, or of none.
EndsSome(key) ==
  \/ \E cut \in BOOLEAN : EndsRecording(key, cut)
  \/ Sn(currentTrack).midiVal # key /\ seq' = seq /\ note' = note /\ track' = track

LEMMA EndRecordingEffect == ASSUME NEW key, EndRecording(key) PROVE EndsSome(key)
<1>1. CASE Sn(currentTrack).midiVal # key
  BY <1>1 DEF EndRecording, EndsSome
<1>2. CASE Sn(currentTrack).midiVal = key /\ OfTrack(currentTrack).trigger # currentTrack
  <2>1. EndsRecording(key, TRUE)
    BY <1>2 DEF EndRecording, EndsRecording, KeyLength, Lasting
  <2> QED  BY <2>1 DEF EndsSome
<1>3. CASE Sn(currentTrack).midiVal = key /\ OfTrack(currentTrack).trigger = currentTrack
  <2>1. PICK cut \in BOOLEAN :
          note' = [note EXCEPT ![Sn(currentTrack).noteIndex] = ReleaseNote(@, cut)]
    BY <1>3 DEF EndRecording
  <2>2. EndsRecording(key, cut)
    BY <1>3, <2>1 DEF EndRecording, EndsRecording, KeyLength, Lasting, OfTrack
  <2> QED  BY <2>2 DEF EndsSome
<1> QED  BY <1>1, <1>2, <1>3

LEMMA EndsRecordingSilences ==
  ASSUME TypeInv, NEW key, NEW cut \in BOOLEAN, EndsRecording(key, cut),
         NEW t \in Track, t = currentTrack
  PROVE  Quieting /\ (OfTrack(t).trigger = t => Silenced(note'[Sn(t).noteIndex]))
<1> DEFINE v == Sn(t).noteIndex
           m == ReleaseNote(note[v], cut)
<1>1. v \in Voice /\ note \in [Voice -> NoteT] /\ OfTrack(t) = note[v]
  BY TypeFacts, OfTheTrack
<1>2. note' = IF OfTrack(t).trigger = t THEN [note EXCEPT ![v] = m] ELSE note
  BY <1>1 DEF EndsRecording
<1> HIDE DEF v
<1>3. note[v] \in NoteT
  BY <1>1
<1>4. Silenced(m)
  BY <1>3, NoteChanges
<1> HIDE DEF m
<1>5. Quieting
  BY <1>1, <1>2, <1>4, OneSilenced, UnchangedQuieting
<1> QED  BY <1>1, <1>2, <1>4, <1>5 DEF v

LEMMA EndsSomeTypes ==
  ASSUME TypeInv, NEW key, EndsSome(key)
  PROVE  Quieting /\ SeqOk(seq)' /\ (track \in [Track -> TrackT])'
<1> DEFINE t == currentTrack
<1>1. /\ TypeOK /\ t \in Track /\ SeqOk(seq) /\ track \in [Track -> TrackT]
      /\ track[t].noteSeqIndex \in Slot
  BY TypeFacts, OfTheTrack
<1>2. CASE seq' = seq /\ note' = note /\ track' = track
  BY <1>1, <1>2, UnchangedQuieting DEF SeqOk
<1>3. ASSUME NEW cut \in BOOLEAN, EndsRecording(key, cut)
      PROVE  Quieting /\ SeqOk(seq)' /\ (track \in [Track -> TrackT])'
  <2>1. Quieting
    BY <1>1, <1>3, EndsRecordingSilences
  <2>2. SeqOk(Lasting(seq, t, track[t].noteSeqIndex, KeyLength(t)))
    BY <1>1, KeyLengthTyped, LastingTyped
  <2>3. SeqOk(seq)'
    BY <1>3, <2>2 DEF EndsRecording, SeqOk
  <2>4. (track \in [Track -> TrackT])'
    BY <1>1, <1>3 DEF EndsRecording, TrackT
  <2> QED  BY <2>1, <2>3, <2>4
<1> QED  BY <1>2, <1>3 DEF EndsSome

\* A key that goes up ends its recording, or begins to look for its voices.
LEMMA NoteOffEffect ==
  ASSUME TypeInv, NEW k \in Press, NoteOff(k)
  PROVE  /\ doing = Idle /\ head = UNSET /\ doing' \in DoingT /\ doing'.step # "on"
         /\ ~Turning'
         /\ \/ ~seqPreview /\ seqRunning /\ EndsSome(k.note)
            \/ (seqPreview \/ ~seqRunning) /\ seq' = seq /\ note' = note /\ track' = track
<1>1. doing = Idle /\ head = UNSET
  BY DEF NoteOff, May, Main
<1>2. CASE seqPreview \/ ~seqRunning
  <2>1. doing' = NotesOff(k.note, k.drum, UNSET) /\ seq' = seq /\ note' = note /\ track' = track
    BY <1>2 DEF NoteOff
  <2>2. k.note \in Key \cup DrumKey /\ k.drum \in BOOLEAN
    BY DEF Press
  <2>3. doing' \in OffT /\ doing'.step = "off" /\ doing'.turn = UNSET
    BY <2>1, <2>2, ConstantTypes DEF NotesOff, OffT
  <2> QED  BY <1>1, <1>2, <2>1, <2>3 DEF DoingT, Turning
<1>3. CASE ~(seqPreview \/ ~seqRunning)
  <2>1. EndsSome(k.note) /\ doing' = doing
    BY <1>3, EndRecordingEffect DEF NoteOff
  <2> QED  BY <1>1, <1>3, <2>1, IdleTyped DEF Turning
<1> QED  BY <1>2, <1>3

LEMMA NoteOffTypes == ASSUME TypeInv, NEW k \in Press, NoteOff(k) PROVE TypeInv'
<1>1. /\ head = UNSET /\ doing' \in DoingT /\ doing'.step # "on"
      /\ Quieting /\ SeqOk(seq)' /\ (track \in [Track -> TrackT])'
  <2>1. CASE EndsSome(k.note)
    BY <2>1, NoteOffEffect, EndsSomeTypes
  <2>2. CASE seq' = seq /\ note' = note /\ track' = track
    BY <2>2, NoteOffEffect, UnchangedQuieting, TypeFacts DEF SeqOk
  <2> QED  BY <2>1, <2>2, NoteOffEffect
<1>2. VoicesOk(note)'
  BY <1>1, QuietingTyped
<1>3. held' \subseteq Press
  BY DEF NoteOff, TypeInv, TypeOK
<1> QED
  BY <1>1, <1>2, <1>3 DEF TypeInv, TypeOK, NoteOff, clock, modes, choice, SeqOk, VoicesOk

\* stopSequencer() leaves a voice alone, or silences it and takes its trigger.
LEMMA StopSequencerQuiets ==
  ASSUME TypeInv, StopSequencer
  PROVE  /\ Quieting
         /\ \A t \in Track : OfTrack(t).envelopePhase # "OFF" => Silenced(note'[Sn(t).noteIndex])
<1>1. \A v \in Voice : Silenced(Unclaimed(note[v]))
  <2> SUFFICES ASSUME NEW v \in Voice PROVE Silenced(Unclaimed(note[v]))
    OBVIOUS
  <2>1. note[v] \in NoteT
    BY TypeFacts
  <2> QED  BY <2>1, NoteChanges
<1>2. Quieting
  <2>1. \A v \in Voice : note'[v] = note[v] \/ Silenced(note'[v])
    BY <1>1 DEF StopSequencer
  <2>2. note' = [v \in Voice |-> note'[v]]
    BY DEF StopSequencer
  <2> QED  BY <2>1, <2>2, SomeSilenced
<1>3. ASSUME NEW t \in Track, OfTrack(t).envelopePhase # "OFF"
      PROVE  Silenced(note'[Sn(t).noteIndex])
  <2>1. Sn(t).noteIndex \in Voice
    BY TypeFacts, OfTheTrack
  <2> QED  BY <1>1, <1>3, <2>1 DEF StopSequencer, OfTrack
<1> QED  BY <1>2, <1>3

LEMMA StopSequencerTypes ==
  ASSUME TypeInv, StopSequencer
  PROVE  VoicesOk(note)' /\ seqPreview' \in BOOLEAN
BY StopSequencerQuiets, QuietingTyped DEF StopSequencer

LEMMA ResetGrooveboxTypes ==
  ASSUME TypeInv, ResetGroovebox
  PROVE  seqIndex' \in Slot /\ track' \in [Track -> TrackT]
BY ConstantTypes, TypeFacts DEF ResetGroovebox, TrackT

LEMMA TransportTypes ==
  ASSUME TypeInv, HandleStart \/ HandleStop \/ PressStart \/ LeaveToSave \/ StartOrStop
  PROVE  TypeInv'
<1>1. {0, 1} \subseteq 0 .. MaxPulse /\ (Undisturbed \in BOOLEAN)
  BY ConstantTypes DEF Undisturbed, TypeInv, TypeOK
<1>2. CASE HandleStart
  <2>1. moves' \in 0 .. MaxMoves /\ head = UNSET /\ doing.step # "on"
    BY <1>2, MoveTyped DEF HandleStart
  <2>2. seqIndex' \in Slot /\ track' \in [Track -> TrackT]
    BY <1>2, ResetGrooveboxTypes DEF HandleStart
  <2> QED  BY <1>1, <1>2, <2>1, <2>2 DEF TypeInv, TypeOK, HandleStart, choice
<1>3. CASE HandleStop
  <2>1. moves' \in 0 .. MaxMoves /\ head = UNSET /\ doing.step # "on"
    BY <1>3, MoveTyped DEF HandleStop
  <2>2. VoicesOk(note)' /\ seqPreview' \in BOOLEAN
    BY <1>3, StopSequencerTypes DEF HandleStop
  <2> QED  BY <1>1, <1>3, <2>1, <2>2 DEF TypeInv, TypeOK, HandleStop, choice, clock, VoicesOk
<1>4. CASE PressStart
  <2>1. moves' \in 0 .. MaxMoves /\ head = UNSET /\ doing.step # "on"
    BY <1>4, MoveTyped DEF PressStart, AtPanel
  <2>2. seqIndex' \in Slot /\ track' \in [Track -> TrackT]
    BY <1>4, ResetGrooveboxTypes DEF PressStart
  <2> QED  BY <1>1, <1>4, <2>1, <2>2 DEF TypeInv, TypeOK, PressStart, choice
<1>5. CASE LeaveToSave
  BY <1>5 DEF TypeInv, TypeOK, LeaveToSave, clock, modes, choice, ghosts
<1>6. CASE StartOrStop
  <2>1. head = UNSET /\ doing.step # "on"
    BY <1>6, IdleTyped DEF StartOrStop, May, Main
  <2>2. VoicesOk(note)' /\ seqPreview' \in BOOLEAN
    <3>1. CASE seqRunning
      BY <1>6, <3>1, StopSequencerTypes DEF StartOrStop
    <3>2. CASE ~seqRunning
      <4>1. note' = note /\ seqPreview' = seqPreview
        BY <1>6, <3>2 DEF StartOrStop
      <4> QED  BY <4>1, TypeFacts DEF VoicesOk, TypeInv, TypeOK
    <3> QED  BY <3>1, <3>2
  <2> QED  BY <1>1, <1>6, <2>1, <2>2 DEF TypeInv, TypeOK, StartOrStop, choice, clock, VoicesOk
<1> QED  BY <1>2, <1>3, <1>4, <1>5, <1>6

LEMMA ClearTypes == ASSUME TypeInv, Clear PROVE TypeInv'
<1> DEFINE t == currentTrack
           kept == [seq[t][track[t].noteSeqIndex] EXCEPT !.midiVal = UNSET]
           row == [s \in Slot |-> IF s = track[t].noteSeqIndex THEN kept ELSE EmptySlot]
<1>1. moves' \in 0 .. MaxMoves /\ (Undisturbed \in BOOLEAN)
  BY MoveTyped DEF Clear, AtPanel, Undisturbed, TypeInv, TypeOK
<1>2. TypeOK /\ t \in Track /\ SeqOk(seq)
  BY TypeFacts
<1>3. kept \in SeqNoteT /\ Keyed(kept)
  <2>1. seq[t][track[t].noteSeqIndex] \in SeqNoteT
    BY <1>2, OfTheTrack DEF Sn
  <2> QED  BY <2>1 DEF SeqNoteT, Keyed
<1>4. seq' = [seq EXCEPT ![t] = row]
  BY DEF Clear
<1> HIDE DEF kept, t
<1>5. RowOk(row)
  BY <1>3, EmptySlotTyped DEF RowOk
<1> HIDE DEF row
<1>6. SeqOk(seq)'
  BY <1>2, <1>4, <1>5 DEF SeqOk, RowOk
<1> QED
  BY <1>1, <1>6 DEF TypeInv, TypeOK, Clear, clock, modes, choice, SeqOk

LEMMA TogglePreviewTypes == ASSUME TypeInv, TogglePreview PROVE TypeInv'
<1>1. moves' \in 0 .. MaxMoves /\ (Undisturbed \in BOOLEAN)
  BY MoveTyped DEF TogglePreview, AtPanel, Undisturbed, TypeInv, TypeOK
<1> QED
  BY <1>1 DEF TypeInv, TypeOK, TogglePreview, clock, choice

\* The knob is turned: what it has found is what the turn will do.
LEMMA SelectTrackTyped ==
  ASSUME TypeInv, NEW t \in Track, SelectTrack(t)
  PROVE  /\ head = UNSET /\ doing.step # "on" /\ doing' \in DoingT /\ doing'.step # "on"
         /\ plain' = Undisturbed
<1> DEFINE old == currentTrack
           sounding == OfTrack(old).trigger = old /\ OfTrack(old).envelopePhase # "OFF"
           ended == /\ sounding /\ track[old].state = "SEQ_RECORD"
                    /\ ~Sn(old).drum /\ Sn(old).midiVal # UNSET
<1>1. head = UNSET /\ doing.step # "on" /\ plain' = Undisturbed
  BY MoveTyped DEF SelectTrack, AtPanel
<1>2. doing' = IF ended /\ (seqPreview \/ ~seqRunning) THEN NotesOff(Sn(old).midiVal, FALSE, t)
               ELSE [step |-> "turn", turn |-> t, ends |-> ended,
                     stops |-> sounding /\ ~seqRunning]
  BY DEF SelectTrack
<1>3. ended \in BOOLEAN /\ (sounding /\ ~seqRunning) \in BOOLEAN
  OBVIOUS
<1>4. CASE ended /\ (seqPreview \/ ~seqRunning)
  <2>1. Sn(old) \in SeqNoteT
    BY TypeFacts, OfTheTrack
  <2>2. Sn(old).midiVal \in Key \cup DrumKey
    BY <1>4, <2>1 DEF SeqNoteT
  <2>3. doing' = NotesOff(Sn(old).midiVal, FALSE, t)
    BY <1>2, <1>4
  <2>4. doing' \in OffT /\ doing'.step = "off"
    BY <2>2, <2>3, ConstantTypes DEF NotesOff, OffT
  <2> QED  BY <1>1, <2>4 DEF DoingT
<1>5. CASE ~(ended /\ (seqPreview \/ ~seqRunning))
  <2> HIDE DEF ended, sounding
  <2>1. doing' \in TurnT /\ doing'.step = "turn"
    BY <1>2, <1>3, <1>5 DEF TurnT
  <2> QED  BY <1>1, <2>1 DEF DoingT
<1> QED  BY <1>4, <1>5

LEMMA SelectTrackTypes == ASSUME TypeInv, NEW t \in Track, SelectTrack(t) PROVE TypeInv'
<1>1. moves' \in 0 .. MaxMoves /\ (Undisturbed \in BOOLEAN)
  BY MoveTyped DEF SelectTrack, AtPanel, Undisturbed, TypeInv, TypeOK
<1>2. doing' \in DoingT /\ doing'.step # "on"
  BY SelectTrackTyped
<1> QED
  BY <1>1, <1>2 DEF TypeInv, TypeOK, SelectTrack, clock, modes, choice

\* The turn: the recording ends, or the note is stopped, or neither.
LEMMA FinishTurnEffect ==
  ASSUME TypeInv, FinishTurn
  PROVE  /\ head = UNSET /\ doing.step = "turn" /\ doing' = Idle
         /\ currentTrack' \in Track /\ selectedSettings' \in Track
         /\ Quieting /\ SeqOk(seq)' /\ (track \in [Track -> TrackT])'
         /\ EndsSome(Sn(currentTrack).midiVal) \/ (seq' = seq /\ track' = track)
<1>1. head = UNSET /\ doing.step = "turn" /\ doing' = Idle
  BY DEF FinishTurn, At
<1>2. currentTrack' \in Track /\ selectedSettings' \in Track
  BY <1>1, DoingTyped DEF FinishTurn, TurnT
<1>3. CASE doing.ends
  <2>1. EndsSome(Sn(currentTrack).midiVal)
    BY <1>3, EndRecordingEffect DEF FinishTurn
  <2> QED  BY <1>1, <1>2, <2>1, EndsSomeTypes
<1>4. CASE ~doing.ends
  <2> DEFINE v == Sn(currentTrack).noteIndex
  <2>1. v \in Voice /\ note[v] \in NoteT
    BY TypeFacts, OfTheTrack
  <2>2. /\ note' = note \/ note' = [note EXCEPT ![v] = StopNote(note[v])]
        /\ seq' = seq /\ track' = track
    BY <1>4 DEF FinishTurn
  <2>3. Silenced(StopNote(note[v]))
    BY <2>1, NoteChanges
  <2> HIDE DEF v
  <2>4. Quieting
    BY <2>1, <2>2, <2>3, OneSilenced, UnchangedQuieting
  <2> QED  BY <1>1, <1>2, <2>2, <2>4, TypeFacts DEF SeqOk
<1> QED  BY <1>3, <1>4

LEMMA FinishTurnTypes == ASSUME TypeInv, FinishTurn PROVE TypeInv'
<1>1. /\ head = UNSET /\ doing' \in DoingT /\ doing'.step # "on"
      /\ currentTrack' \in Track /\ selectedSettings' \in Track
      /\ Quieting /\ SeqOk(seq)' /\ (track \in [Track -> TrackT])'
  BY FinishTurnEffect, IdleTyped
<1>2. VoicesOk(note)'
  BY <1>1, QuietingTyped
<1> QED
  BY <1>1, <1>2 DEF TypeInv, TypeOK, FinishTurn, clock, modes, ghosts, SeqOk, VoicesOk

LEMMA AllNotesOffTyped ==
  ASSUME TypeInv, NEW t \in Track, AllNotesOff(t)
  PROVE  doing' \in DoingT /\ doing'.step = "quiet"
<1>1. doing' = [step |-> "quiet", channel |-> t, voice |-> 0]
  BY DEF AllNotesOff
<1>2. doing' \in QuietT
  BY <1>1, ConstantTypes DEF QuietT
<1> QED  BY <1>1, <1>2 DEF DoingT

LEMMA AllNotesOffTypes == ASSUME TypeInv, NEW t \in Track, AllNotesOff(t) PROVE TypeInv'
<1>1. moves' \in 0 .. MaxMoves
  BY MoveTyped DEF AllNotesOff
<1>2. doing' \in DoingT /\ doing'.step # "on"
  BY AllNotesOffTyped
<1> QED
  BY <1>1, <1>2 DEF TypeInv, TypeOK, AllNotesOff, clock, modes, choice

LEMMA ResetTypes == ASSUME TypeInv, Reset PROVE TypeInv'
<1>1. /\ moves' \in 0 .. MaxMoves /\ (Undisturbed \in BOOLEAN)
      /\ head = UNSET /\ doing.step # "on"
  BY MoveTyped DEF Reset, AtPanel, Undisturbed, TypeInv, TypeOK
<1>2. SeqOk(seq)' /\ VoicesOk(note)' /\ (track \in [Track -> TrackT])'
  BY EmptySlotTyped, SilentNoteTyped, PlayingTyped DEF Reset, SeqOk, VoicesOk, Silenced, Bound
<1>3. selectedSettings' \in Track
  BY ConstantTypes DEF Reset
<1> QED
  BY <1>1, <1>2, <1>3 DEF TypeInv, TypeOK, Reset, clock, SeqOk, VoicesOk

LEMMA TypesStutter == ASSUME TypeInv, UNCHANGED vars PROVE TypeInv'
<1> USE DEF TypeInv
<1>1. TypeOK'
  BY DEF TypeOK, vars, clock, modes, choice, ghosts
<1>2. /\ \A t \in Track, s \in Slot : Keyed(seq'[t][s])
      /\ \A v \in Voice : Bound(note'[v])
  BY DEF vars
<1> QED  BY <1>1, <1>2 DEF vars, clock, modes, ghosts

LEMMA TypesNext == ASSUME TypeInv, [Next]_vars PROVE TypeInv'
<1>1. CASE UNCHANGED vars
  BY <1>1, TypesStutter
<1>2. CASE Handler
  BY <1>2, VoiceStepTypes, BeginNoteOnTypes, NoteOffTypes, FinishNoteOnTypes, FinishTurnTypes,
     TransportTypes, ClearTypes, TogglePreviewTypes, ResetTypes, SelectTrackTypes,
     AllNotesOffTypes DEF Handler
<1>3. CASE ISR
  BY <1>3, IdlePulseTypes, PulseTypes, PlaySlotTypes, EraseSlotTypes, PassSlotTypes,
     VoiceEndsTypes DEF ISR
<1> QED  BY <1>1, <1>2, <1>3 DEF Next, EndOfClock

\* Every slot, voice and track stays in the type the firmware gives it, for
\* every interleaving of pulses, notes on and the panel.
THEOREM GrooveboxTypes == Spec => []TypeOK
<1>1. Init => TypeInv
  BY TypesInit
<1>2. TypeInv /\ [Next]_vars => TypeInv'
  BY TypesNext
<1>3. TypeInv => TypeOK
  BY DEF TypeInv
<1> QED  BY <1>1, <1>2, <1>3, PTL DEF Spec
-----------------------------------------------------------------------------
(* The voices of the tracks *)

\* A step that makes voices quieter lets no track claim a voice anew.
LEMMA QuietingClaims ==
  ASSUME Quieting, NEW v \in Voice, NEW t, Claims(v, t)'
  PROVE  Claims(v, t)
<1>1. Quieter(note'[v], note[v])
  BY DEF Quieting
<1>2. Live(note'[v]) /\ note'[v].owner = t
  BY DEF Claims, Live, Sounding
<1> QED  BY <1>1, <1>2 DEF Quieter, Claims

\* a voice that is silenced is no track's
LEMMA SilencedClaims == ASSUME NEW v, NEW t, Silenced(note'[v]) PROVE ~Claims(v, t)'
BY DEF Silenced, Claims, Live, Sounding

\* A voice that sounds for a track has its trigger and a phase that is not OFF.
LEMMA ClaimsBound ==
  ASSUME TypeInv, NEW v \in Voice, NEW t, Claims(v, t)
  PROVE  note[v].trigger = t /\ On(note[v]) /\ note[v].envelopePhase # "OFF"
BY DEF TypeInv, Bound, Claims, On

\* Where a track finds its voice, as a step leaves it.
SamePlaces == \A t \in Track : Sn(t)'.noteIndex = Sn(t).noteIndex

LEMMA OwnKept ==
  ASSUME OwnInv, Quieting, SamePlaces,
         doing'.step # "on" \/ (doing' = doing /\ currentTrack' = currentTrack)
  PROVE  OwnInv'
<1> SUFFICES ASSUME NEW v \in Voice, NEW t \in Track, Claims(v, t)'
             PROVE  Sn(t)'.noteIndex = v /\ ~(doing'.step = "on" /\ t = currentTrack')
  BY DEF OwnInv
<1>1. Claims(v, t)
  BY QuietingClaims
<1> QED  BY <1>1 DEF OwnInv, SamePlaces

LEMMA VoiceStepOwns == ASSUME TypeInv, OwnInv, OnVoices PROVE OwnInv'
<1>1. Unlocked
  BY VoiceStep
<1>2. SamePlaces
  BY <1>1 DEF Unlocked, Frame, SamePlaces, Sn
<1> QED  BY <1>1, <1>2, OwnKept DEF Unlocked

\* A slot whose duration is written still names its voice.
LEMMA LastingPlaces ==
  ASSUME TypeInv, NEW t \in Track, NEW d \in 0 .. (WORD - 1),
         seq' = Lasting(seq, t, track[t].noteSeqIndex, d),
         \A u \in Track : track'[u].noteSeqIndex = track[u].noteSeqIndex
  PROVE  /\ SamePlaces
         /\ Sn(t)' = [Sn(t) EXCEPT !.duration = d]
         /\ \A u \in Track : u # t => Sn(u)' = Sn(u)
<1>1. TypeOK /\ SeqOk(seq)
  BY TypeFacts
<1>2. \A u \in Track : track[u].noteSeqIndex \in Slot /\ Sn(u) \in SeqNoteT
  BY <1>1, OfTheTrack
<1>3. Sn(t)' = [Sn(t) EXCEPT !.duration = d]
  BY <1>1, <1>2, LastingTyped DEF Sn
<1>4. ASSUME NEW u \in Track, u # t PROVE Sn(u)' = Sn(u)
  <2>1. Lasting(seq, t, track[t].noteSeqIndex, d)[u][track[u].noteSeqIndex]
          = seq[u][track[u].noteSeqIndex]
    BY <1>1, <1>2, <1>4, LastingElsewhere
  <2> QED  BY <2>1 DEF Sn
<1>5. Sn(t)'.noteIndex = Sn(t).noteIndex
  BY <1>2, <1>3, SlotDuration
<1> QED  BY <1>3, <1>4, <1>5 DEF SamePlaces

\* The end of a recording: the slots of the other tracks are left alone.
LEMMA EndsRecordingPlaces ==
  ASSUME TypeInv, NEW key, NEW cut \in BOOLEAN, EndsRecording(key, cut),
         NEW t \in Track, t = currentTrack
  PROVE  /\ SamePlaces
         /\ Sn(t)' = [Sn(t) EXCEPT !.duration = KeyLength(t)]
         /\ \A u \in Track : u # t => Sn(u)' = Sn(u) /\ track'[u] = track[u]
<1>1. /\ TypeOK /\ track \in [Track -> TrackT] /\ KeyLength(t) \in 0 .. (WORD - 1)
  BY TypeFacts, KeyLengthTyped
<1>2. /\ \A u \in Track : track'[u].noteSeqIndex = track[u].noteSeqIndex
      /\ \A u \in Track : u # t => track'[u] = track[u]
  BY <1>1 DEF EndsRecording, TrackT
<1>3. seq' = Lasting(seq, t, track[t].noteSeqIndex, KeyLength(t))
  BY DEF EndsRecording
<1> QED  BY <1>1, <1>2, <1>3, LastingPlaces

LEMMA EndsSomePlaces == ASSUME TypeInv, NEW key, EndsSome(key) PROVE SamePlaces
<1>1. CASE seq' = seq /\ note' = note /\ track' = track
  BY <1>1 DEF SamePlaces, Sn
<1>2. ASSUME NEW cut \in BOOLEAN, EndsRecording(key, cut) PROVE SamePlaces
  <2>1. currentTrack \in Track
    BY TypeFacts
  <2> QED  BY <1>2, <2>1, EndsRecordingPlaces
<1> QED  BY <1>1, <1>2 DEF EndsSome

LEMMA NoteOffOwns == ASSUME TypeInv, OwnInv, NEW k \in Press, NoteOff(k) PROVE OwnInv'
<1>1. doing'.step # "on"
  BY NoteOffEffect
<1>2. CASE EndsSome(k.note)
  BY <1>1, <1>2, EndsSomePlaces, EndsSomeTypes, OwnKept
<1>3. CASE seq' = seq /\ note' = note /\ track' = track
  <2>1. SamePlaces
    BY <1>3 DEF SamePlaces, Sn
  <2> QED  BY <1>1, <1>3, <2>1, UnchangedQuieting, OwnKept
<1> QED  BY <1>2, <1>3, NoteOffEffect

\* The pulse writes a duration at most to the slot a track is at.
LEMMA PulsePlaces ==
  ASSUME TypeInv, Pulse
  PROVE  SamePlaces /\ \A t \in Track : ~IsDue(t) => Sn(t)' = Sn(t)
<1>1. ASSUME NEW t \in Track, ~IsDue(t) PROVE Sn(t)' = Sn(t)
  BY <1>1 DEF Pulse, Sn
<1>2. SamePlaces
  <2> SUFFICES ASSUME NEW t \in Track PROVE Sn(t)'.noteIndex = Sn(t).noteIndex
    BY DEF SamePlaces
  <2>1. track' = track /\ TypeOK /\ SeqOk(seq) /\ track[t].noteSeqIndex \in Slot
        /\ Sn(t) \in SeqNoteT /\ Elapsed(t) \in 0 .. (WORD - 1)
    BY TypeFacts, OfTheTrack DEF Pulse
  <2>2. Sn(t)' \in {Sn(t), [Sn(t) EXCEPT !.duration = Elapsed(t)]}
    BY <2>1 DEF Pulse, Sn, SeqOk
  <2> QED  BY <2>1, <2>2, SlotDuration
<1> QED  BY <1>1, <1>2

LEMMA PulseOwns == ASSUME TypeInv, OwnInv, Pulse PROVE OwnInv'
BY PulseQuiets, PulsePlaces, OwnKept DEF Pulse, choice

LEMMA EraseSlotOwns == ASSUME TypeInv, OwnInv, NEW t \in Track, EraseSlot(t) PROVE OwnInv'
<1>1. \A u \in Track : Sn(u)' = Sn(u)
  <2>1. TypeOK /\ SeqOk(seq) /\ \A u \in Track : track[u].noteSeqIndex \in Slot
    BY TypeFacts, OfTheTrack
  <2> QED  BY <2>1 DEF EraseSlot, Sn, SeqOk
<1> QED  BY <1>1, UnchangedQuieting, OwnKept DEF EraseSlot, choice, SamePlaces

\* Once the note at the head has cut its own short, no voice sounds for it.
LEMMA CutShortSilences ==
  ASSUME TypeInv, OwnInv, NEW t \in Track, NEW v \in Voice, NEW u \in Track,
         Live(CutShort(t)[2][v]), CutShort(t)[2][v].owner = u
  PROVE  u # t /\ Claims(v, u) /\ CutShort(t)[2][v] = note[v]
<1> DEFINE w == Sn(t).noteIndex
<1>1. note \in [Voice -> NoteT] /\ OfTrack(t) \in NoteT /\ OfTrack(t) = note[w] /\ w \in Voice
  BY TypeFacts, OfTheTrack
<1>2. ~Live(Unclaimed(OfTrack(t)))
  BY <1>1, NoteChanges DEF Silenced
<1> HIDE DEF w
<1>3. CASE OfTrack(t).trigger # t
  <2>1. CutShort(t)[2] = note
    BY <1>3, CutShortTyped
  <2>2. Claims(v, u)
    BY <2>1 DEF Claims
  <2>3. u # t
    <3> SUFFICES ASSUME u = t PROVE FALSE
      OBVIOUS
    <3>1. v = w /\ note[v].trigger = t
      BY <2>2, ClaimsBound DEF OwnInv, w
    <3> QED  BY <1>1, <1>3, <3>1
  <2> QED  BY <2>1, <2>2, <2>3
<1>4. CASE OfTrack(t).trigger = t
  <2>1. CutShort(t)[2] = [note EXCEPT ![w] = Unclaimed(OfTrack(t))]
    BY <1>4, CutShortTyped DEF w
  <2>2. v # w /\ CutShort(t)[2][v] = note[v]
    BY <1>1, <1>2, <2>1
  <2>3. Claims(v, u)
    BY <2>2 DEF Claims
  <2>4. u # t
    BY <2>2, <2>3 DEF OwnInv, w
  <2> QED  BY <2>2, <2>3, <2>4
<1> QED  BY <1>3, <1>4

LEMMA PlaySlotOwns == ASSUME TypeInv, OwnInv, NEW t \in Track, PlaySlot(t) PROVE OwnInv'
<1> DEFINE slots == CutShort(t)[1]
           voices == CutShort(t)[2]
<1>1. /\ SeqOk(seq) /\ RowOk(slots) /\ voices \in [Voice -> NoteT] /\ seqIndex \in Slot
      /\ track \in [Track -> TrackT]
      /\ \A u \in Track : track[u].noteSeqIndex \in Slot
      /\ \A s \in Slot : slots[s].noteIndex = seq[t][s].noteIndex
  BY TypeFacts, OfTheTrack, CutShortTyped DEF VoicesOk
<1>2. doing.step # "on" /\ doing' = doing
  BY DEF PlaySlot, TypeInv, NextTrack, Track, UNSET
<1>3. ASSUME NEW v \in Voice, NEW u \in Track, Live(voices[v]), voices[v].owner = u
      PROVE  u # t /\ Claims(v, u) /\ Sn(u).noteIndex = v
  BY <1>2, <1>3, CutShortSilences DEF OwnInv
<1> SUFFICES ASSUME NEW v \in Voice, NEW u \in Track, Claims(v, u)'
             PROVE  Sn(u)'.noteIndex = v
  BY <1>2 DEF OwnInv
<1>4. Live(note'[v]) /\ note'[v].owner = u
  BY DEF Claims, Live, Sounding
<1> HIDE DEF slots, voices
<1>5. CASE seq' = [seq EXCEPT ![t] = slots] /\ note' = voices /\ track' = track
  <2>1. u # t /\ Sn(u).noteIndex = v
    BY <1>3, <1>4, <1>5
  <2> QED  BY <1>1, <1>5, <2>1 DEF Sn, SeqOk
<1>6. ASSUME NEW w \in Voice, NEW cut \in BOOLEAN, Strikes(t, w, cut)
      PROVE  Sn(u)'.noteIndex = v
  <2> DEFINE x == slots[seqIndex]
             new == NewNote(x.midiVal, x.drum, t, x.sample, cut, t)
             struck == Struck(x, w, pulseClock % WORD)
  <2>1. /\ note' = [voices EXCEPT ![w] = new]
        /\ seq' = [seq EXCEPT ![t] = [slots EXCEPT ![seqIndex] = struck]]
        /\ track' = [track EXCEPT ![t].noteSeqIndex = seqIndex]
    BY <1>6 DEF Strikes, slots, voices
  <2>2. struck.noteIndex = w
    <3>1. x \in SeqNoteT
      BY <1>1 DEF RowOk
    <3> QED  BY <3>1 DEF Struck, SeqNoteT
  <2>3. new.owner = t
    BY DEF NewNote
  <2> HIDE DEF struck, new
  <2>4. Sn(t)' = struck
    BY <1>1, <2>1 DEF Sn, SeqOk, RowOk, TrackT
  <2>5. CASE v = w
    <3>1. u = t
      BY <1>1, <1>4, <2>1, <2>3, <2>5
    <3> QED  BY <3>1, <2>2, <2>4, <2>5
  <2>6. CASE v # w
    <3>1. Live(voices[v]) /\ voices[v].owner = u
      BY <1>1, <1>4, <2>1, <2>6
    <3>2. u # t /\ Sn(u).noteIndex = v
      BY <1>3, <3>1
    <3> QED  BY <1>1, <2>1, <3>2 DEF Sn, SeqOk
  <2> QED  BY <2>5, <2>6
<1> QED  BY <1>5, <1>6, PlaySlotEffect DEF slots, voices

\* The first step of a note on leaves no voice sounding for the track.
LEMMA BeginNoteOnFrees ==
  ASSUME TypeInv, NEW k \in Press, BeginNoteOn(k)
  PROVE  /\ Quieting /\ SamePlaces
         /\ \A t \in Track : t = currentTrack => ~Claims(Sn(t).noteIndex, t)'
         /\ \A u \in Track : u # currentTrack => Sn(u)' = Sn(u)
<1> SUFFICES ASSUME NEW t \in Track, t = currentTrack
             PROVE  /\ Quieting /\ SamePlaces
                    /\ ~Claims(Sn(t).noteIndex, t)'
                    /\ \A u \in Track : u # t => Sn(u)' = Sn(u)
  BY TypeFacts
<1> PICK v \in Voice : v = Sn(t).noteIndex
  BY TypeFacts, OfTheTrack
<1> DEFINE p == track[t].noteSeqIndex
           rest == (SnapPulse - Sn(t).startPulse) % WORD
<1>1. /\ TypeOK /\ note \in [Voice -> NoteT] /\ SeqOk(seq)
      /\ p \in Slot /\ OfTrack(t) = note[v] /\ OfTrack(t) \in NoteT
      /\ track' = track
  BY TypeFacts, OfTheTrack DEF BeginNoteOn
<1>2. Quieting
  BY BeginNoteOnQuiets
<1>3. SamePlaces /\ \A u \in Track : u # t => Sn(u)' = Sn(u)
  <2>1. rest \in 0 .. (WORD - 1)
    <3>1. Sn(t).startPulse \in Int /\ SnapPulse \in Int
      BY <1>1, OfTheTrack, SnapTyped, ConstantTypes
    <3> QED  BY <3>1, WordTyped
  <2>2. seq' = seq \/ seq' = Lasting(seq, t, p, rest)
    BY DEF BeginNoteOn, Lasting
  <2> HIDE DEF rest
  <2>3. CASE seq' = seq
    BY <1>1, <2>3 DEF SamePlaces, Sn
  <2>4. CASE seq' = Lasting(seq, t, p, rest)
    BY <1>1, <2>1, <2>4, LastingPlaces
  <2> QED  BY <2>2, <2>3, <2>4
<1>4. ~Claims(v, t)'
  <2>1. Silenced(Unclaimed(note[v]))
    <3>1. note[v] \in NoteT
      BY <1>1
    <3> QED  BY <3>1, NoteChanges
  <2>2. CASE note' = [note EXCEPT ![v] = Unclaimed(note[v])]
    <3>1. Silenced(note'[v])
      BY <1>1, <2>1, <2>2
    <3> QED  BY <3>1, SilencedClaims
  <2>3. CASE note' = note /\ ~(/\ OfTrack(t).trigger = t
                               /\ OfTrack(t).envelopePhase # "OFF" \/ OfTrack(t).isSample)
    <3> SUFFICES ASSUME Claims(v, t)' PROVE FALSE
      OBVIOUS
    <3>1. Claims(v, t)
      BY <1>2, <1>1, QuietingClaims
    <3>2. note[v].trigger = t /\ note[v].envelopePhase # "OFF"
      BY <1>1, <3>1, ClaimsBound
    <3> QED  BY <1>1, <2>3, <3>2
  <2> QED  BY <2>2, <2>3 DEF BeginNoteOn
<1>5. Sn(t)'.noteIndex = v
  BY <1>3 DEF SamePlaces
<1> QED  BY <1>2, <1>3, <1>4, <1>5 DEF Claims

LEMMA BeginNoteOnOwns == ASSUME TypeInv, OwnInv, NEW k \in Press, BeginNoteOn(k) PROVE OwnInv'
<1>1. Quieting /\ SamePlaces /\ currentTrack' = currentTrack
      /\ \A t \in Track : t = currentTrack => ~Claims(Sn(t).noteIndex, t)'
  BY BeginNoteOnFrees DEF BeginNoteOn, choice
<1> SUFFICES ASSUME NEW v \in Voice, NEW t \in Track, Claims(v, t)'
             PROVE  Sn(t)'.noteIndex = v /\ ~(doing'.step = "on" /\ t = currentTrack')
  BY DEF OwnInv
<1>2. Claims(v, t)
  BY <1>1, QuietingClaims
<1>3. Sn(t)'.noteIndex = v
  BY <1>1, <1>2 DEF OwnInv, SamePlaces
<1>4. t # currentTrack
  <2>1. Claims(Sn(t).noteIndex, t)'
    BY <1>3 DEF Claims
  <2> QED  BY <1>1, <2>1
<1> QED  BY <1>1, <1>3, <1>4

\* The voice that a note on takes is no longer the voice of another track.
LEMMA FinishNoteOnOwns == ASSUME TypeInv, OwnInv, FinishNoteOn PROVE OwnInv'
<1>1. /\ note \in [Voice -> NoteT] /\ SeqOk(seq) /\ track \in [Track -> TrackT]
      /\ \A u \in Track : track[u].noteSeqIndex \in Slot
  BY TypeFacts, OfTheTrack
<1>2. /\ doing.step = "on" /\ doing'.step # "on" /\ doing.snap \in Slot /\ currentTrack \in Track
  BY DoingTyped, TypeFacts, IdleTyped DEF FinishNoteOn, At, OnT
<1> SUFFICES ASSUME NEW v \in Voice, NEW u \in Track, Claims(v, u)'
             PROVE  Sn(u)'.noteIndex = v
  BY <1>2 DEF OwnInv
<1>3. Live(note'[v]) /\ note'[v].owner = u
  BY DEF Claims, Live, Sounding
<1>4. ASSUME note'[v] = note[v] PROVE Sn(u).noteIndex = v /\ u # currentTrack
  BY <1>2, <1>3, <1>4 DEF OwnInv, Claims
<1>5. PICK w \in Voice, sample \in BOOLEAN, cut \in BOOLEAN :
        Records(w, sample, cut) \/ OnlySounds(w, sample, cut)
  BY FinishNoteOnEffect
<1>6. CASE OnlySounds(w, sample, cut)
  <2>1. Fresh(sample, cut, UNSET).owner \notin Track
    BY ConstantTypes DEF Fresh, NewNote
  <2>2. note' = [note EXCEPT ![w] = Fresh(sample, cut, UNSET)] /\ seq' = seq /\ track' = track
    BY <1>6 DEF OnlySounds
  <2>3. v # w
    BY <1>1, <1>3, <2>1, <2>2
  <2> QED  BY <1>1, <1>4, <2>2, <2>3 DEF Sn
<1>7. CASE Records(w, sample, cut)
  <2> DEFINE new == Fresh(sample, cut, currentTrack)
             x == RecordedSlot(w, new.isSample)
  <2>1. /\ note' = [note EXCEPT ![w] = new]
        /\ seq' = Written(seq, currentTrack, doing.snap, x)
        /\ track' = [track EXCEPT ![currentTrack] = [noteSeqIndex |-> doing.snap,
                                                     state |-> "SEQ_RECORD"]]
    BY <1>7 DEF Records
  <2>2. new.owner = currentTrack
    BY DEF Fresh, NewNote
  <2>3. x.noteIndex = w
    BY DEF RecordedSlot
  <2> HIDE DEF new, x
  <2>4. CASE v = w
    <3>1. u = currentTrack
      BY <1>1, <1>3, <2>1, <2>2, <2>4
    <3>2. Sn(u)' = x
      BY <1>1, <1>2, <2>1, <3>1 DEF Sn, SeqOk, Written
    <3> QED  BY <2>3, <2>4, <3>2
  <2>5. CASE v # w
    <3>1. note'[v] = note[v]
      BY <1>1, <2>1, <2>5
    <3> QED  BY <1>1, <1>2, <1>4, <2>1, <3>1 DEF Sn, SeqOk, Written
  <2> QED  BY <2>4, <2>5
<1> QED  BY <1>5, <1>6, <1>7

LEMMA ResetGrooveboxPlaces ==
  ASSUME TypeInv, ResetGroovebox, seq' = seq
  PROVE  /\ SamePlaces
         /\ \A t \in Track : Sn(t)' = Sn(t) /\ track'[t].state = "SEQ_PLAY"
BY TypeFacts DEF ResetGroovebox, SamePlaces, Sn, TrackT

LEMMA TransportOwns ==
  ASSUME TypeInv, OwnInv, HandleStart \/ HandleStop \/ PressStart \/ LeaveToSave \/ StartOrStop
  PROVE  OwnInv'
<1>1. CASE HandleStart \/ PressStart
  BY <1>1, ResetGrooveboxPlaces, UnchangedQuieting, OwnKept DEF HandleStart, PressStart, choice
<1>2. CASE HandleStop \/ LeaveToSave \/ StartOrStop
  <2>1. SamePlaces
    BY <1>2 DEF HandleStop, LeaveToSave, StartOrStop, SamePlaces, Sn
  <2>2. Quieting
    BY <1>2, StopSequencerQuiets, UnchangedQuieting DEF HandleStop, LeaveToSave, StartOrStop
  <2>3. doing' = doing /\ currentTrack' = currentTrack
    BY <1>2 DEF HandleStop, LeaveToSave, StartOrStop, choice
  <2> QED  BY <2>1, <2>2, <2>3, OwnKept
<1> QED  BY <1>1, <1>2

LEMMA ClearPlaces ==
  ASSUME TypeInv, Clear
  PROVE  /\ SamePlaces
         /\ \A t \in Track : /\ Sn(t)'.startPulse = Sn(t).startPulse
                             /\ Sn(t)'.duration = Sn(t).duration
<1> SUFFICES ASSUME NEW t \in Track
             PROVE  /\ Sn(t)'.noteIndex = Sn(t).noteIndex
                    /\ Sn(t)'.startPulse = Sn(t).startPulse /\ Sn(t)'.duration = Sn(t).duration
  BY DEF SamePlaces
<1>1. TypeOK /\ SeqOk(seq) /\ track' = track /\ track[t].noteSeqIndex \in Slot
      /\ Sn(t) \in SeqNoteT /\ Sn(t) = seq[t][track[t].noteSeqIndex]
      /\ currentTrack \in Track
  BY TypeFacts, OfTheTrack DEF Clear
<1>2. CASE t # currentTrack
  BY <1>1, <1>2 DEF Clear, Sn, SeqOk
<1>3. CASE t = currentTrack
  <2>1. Sn(t)' = [Sn(t) EXCEPT !.midiVal = UNSET]
    BY <1>1, <1>3 DEF Clear, Sn, SeqOk
  <2> QED  BY <1>1, <2>1 DEF SeqNoteT
<1> QED  BY <1>2, <1>3

LEMMA ResetSilences ==
  ASSUME Reset, NEW v \in Voice, NEW t
  PROVE  ~Claims(v, t)'
<1>1. Silenced(note'[v])
  BY SilentNoteTyped DEF Reset
<1> QED  BY <1>1, SilencedClaims

LEMMA PanelOwns ==
  ASSUME TypeInv, OwnInv,
         \/ Clear \/ TogglePreview \/ Reset \/ FinishTurn
         \/ \E t \in Track : SelectTrack(t) \/ AllNotesOff(t)
  PROVE  OwnInv'
<1>1. CASE Clear
  BY <1>1, ClearPlaces, UnchangedQuieting, OwnKept DEF Clear, choice
<1>2. CASE TogglePreview
  <2>1. SamePlaces
    BY <1>2 DEF TogglePreview, SamePlaces, Sn
  <2> QED  BY <1>2, <2>1, UnchangedQuieting, OwnKept DEF TogglePreview, choice
<1>3. CASE Reset
  BY <1>3, ResetSilences DEF OwnInv
<1>4. CASE FinishTurn
  <2>1. SamePlaces
    <3>1. CASE EndsSome(Sn(currentTrack).midiVal)
      BY <3>1, EndsSomePlaces
    <3>2. CASE seq' = seq /\ track' = track
      BY <3>2 DEF SamePlaces, Sn
    <3> QED  BY <1>4, <3>1, <3>2, FinishTurnEffect
  <2>2. Quieting /\ doing'.step # "on"
    BY <1>4, FinishTurnEffect, IdleTyped
  <2> QED  BY <2>1, <2>2, OwnKept
<1>5. ASSUME NEW t \in Track, SelectTrack(t) \/ AllNotesOff(t) PROVE OwnInv'
  <2>1. SamePlaces /\ Quieting
    BY <1>5, UnchangedQuieting DEF SelectTrack, AllNotesOff, SamePlaces, Sn
  <2>2. doing'.step # "on"
    BY <1>5, SelectTrackTyped, AllNotesOffTyped
  <2> QED  BY <2>1, <2>2, OwnKept
<1> QED  BY <1>1, <1>2, <1>3, <1>4, <1>5

LEMMA OwnNext == ASSUME TypeInv, OwnInv, [Next]_vars PROVE OwnInv'
<1>1. CASE /\ UNCHANGED <<note, seq, track>>
           /\ doing' = doing /\ currentTrack' = currentTrack
  <2>1. SamePlaces
    BY <1>1 DEF SamePlaces, Sn
  <2> QED  BY <1>1, <2>1, UnchangedQuieting, OwnKept
<1>2. ASSUME NEW v \in Voice, VoiceEnds(v) PROVE OwnInv'
  <2>1. SamePlaces /\ Quieting
    BY <1>2, VoiceEndsQuiets DEF VoiceEnds, SamePlaces, Sn
  <2> QED  BY <1>2, <2>1, OwnKept DEF VoiceEnds, choice
<1>3. CASE UNCHANGED vars
  BY <1>1, <1>3 DEF vars, choice
<1>4. CASE IdlePulse \/ \E t \in Track : PassSlot(t)
  BY <1>1, <1>4 DEF IdlePulse, PassSlot, choice
<1>5. CASE Handler
  BY <1>5, VoiceStepOwns, BeginNoteOnOwns, NoteOffOwns, FinishNoteOnOwns, TransportOwns,
     PanelOwns DEF Handler
<1>6. CASE ISR
  BY <1>2, <1>4, <1>6, PulseOwns, PlaySlotOwns, EraseSlotOwns DEF ISR
<1> QED  BY <1>3, <1>5, <1>6 DEF Next, EndOfClock

LEMMA OwnInit == ASSUME Init PROVE OwnInv
BY SilentNoteTyped DEF Init, OwnInv, Claims, Silenced

\* A voice that was started for a track and sounds is the one the sequencer
\* finds by the track's position, with its trigger and its phase in place,
\* whatever a key, a pulse or the audio ISR does in between, as long as no
\* write for a former note falls on it: it can be released, cut short and
\* stopped, and no track has two.
THEOREM TracksOwnTheirVoices == Spec => []TrackOwnsItsVoice
<1>1. Init => TypeInv /\ OwnInv
  BY TypesInit, OwnInit
<1>2. TypeInv /\ OwnInv /\ [Next]_vars => TypeInv' /\ OwnInv'
  BY TypesNext, OwnNext
<1>3. ASSUME TypeInv, OwnInv PROVE TrackOwnsItsVoice
  <2> SUFFICES ASSUME NEW v \in Voice, NEW t \in Track,
                      note[v].owner = t, Sounding(note[v]), ~note[v].torn
               PROVE  note[v].trigger = t /\ On(note[v]) /\ Sn(t).noteIndex = v
    BY DEF TrackOwnsItsVoice
  <2>1. Claims(v, t)
    BY DEF Claims, Live
  <2> QED  BY <1>3, <2>1, ClaimsBound DEF OwnInv
<1> QED  BY <1>1, <1>2, <1>3, PTL DEF Spec
-----------------------------------------------------------------------------
(* A stop *)

LEMMA StopSequencerSilences ==
  ASSUME TypeInv, OwnInv, StopSequencer, NEW v \in Voice, NEW t \in Track
  PROVE  ~Claims(v, t)'
<1> SUFFICES ASSUME Claims(v, t)' PROVE FALSE
  OBVIOUS
<1>1. Claims(v, t)
  BY StopSequencerQuiets, QuietingClaims
<1>2. Sn(t).noteIndex = v /\ note[v].envelopePhase # "OFF"
  BY <1>1, ClaimsBound DEF OwnInv
<1>3. Silenced(note'[v])
  BY <1>2, StopSequencerQuiets DEF OfTrack
<1> QED  BY <1>3, SilencedClaims

LEMMA StopStep ==
  ASSUME TypeInv, OwnInv, [Next]_vars, seqRunning, ~seqRunning', NEW v \in Voice, NEW t \in Track
  PROVE  ~Claims(v, t)'
<1>1. ~OnVoices
  BY VoiceStep DEF Unlocked, Frame, modes
<1>2. HandleStop \/ StartOrStop \/ Reset
  BY <1>1 DEF Next, Handler, ISR, EndOfClock, vars, modes, BeginNoteOn, NoteOff, FinishNoteOn,
         FinishTurn, HandleStart, PressStart, LeaveToSave, Clear, TogglePreview, SelectTrack,
         AllNotesOff, IdlePulse, Pulse, PlaySlot, EraseSlot, PassSlot, VoiceEnds
<1>3. CASE HandleStop \/ StartOrStop
  BY <1>3, StopSequencerSilences DEF HandleStop, StartOrStop
<1>4. CASE Reset
  BY <1>4, ResetSilences
<1> QED  BY <1>2, <1>3, <1>4

\* A sequence that is stopped, by MIDI, at the panel or by a reset, is silent,
\* but for voices a former note's write fell on: stopSequencer() finds every
\* voice that sounds for a track.
THEOREM StopsAreSilent == Spec => StopsEverything
<1>1. Init => TypeInv /\ OwnInv
  BY TypesInit, OwnInit
<1>2. TypeInv /\ OwnInv /\ [Next]_vars => TypeInv' /\ OwnInv'
  BY TypesNext, OwnNext
<1>3. ASSUME TypeInv, OwnInv, [Next]_vars
      PROVE  [seqRunning /\ ~seqRunning' =>
                \A v \in Voice :
                  note'[v].owner \in Track /\ ~note'[v].torn => ~Sounding(note'[v])]_vars
  <2> SUFFICES ASSUME seqRunning, ~seqRunning', NEW v \in Voice,
                      note'[v].owner \in Track, ~note'[v].torn
               PROVE  ~Sounding(note'[v])
    OBVIOUS
  <2>1. PICK t \in Track : t = note'[v].owner
    OBVIOUS
  <2>2. ~Claims(v, t)'
    BY <1>3, StopStep
  <2> QED  BY <2>1, <2>2 DEF Claims, Live, Sounding
<1> QED  BY <1>1, <1>2, <1>3, PTL DEF Spec, StopsEverything
-----------------------------------------------------------------------------
(* The time a note has lasted *)

LEMMA RemainderIs ==
  ASSUME NEW p \in Nat \ {0}, NEW k \in Int, NEW r \in 0 .. (p - 1), NEW x, x = p * k + r
  PROVE  x % p = r
<1> DEFINE q == x \div p
           s == x % p
           d == k - q
<1>1. x \in Int
  OBVIOUS
<1>2. q \in Int /\ s \in 0 .. (p - 1) /\ x = p * q + s
  BY <1>1
<1> HIDE DEF q, s
<1>3. d \in Int /\ p * d = s - r
  BY <1>2
<1> HIDE DEF d
<1>4. d >= 1 => p * d >= p
  BY <1>3
<1>5. d <= -1 => p * d <= -p
  BY <1>3
<1>6. d = 0
  BY <1>2, <1>3, <1>4, <1>5
<1>7. p * d = 0
  BY <1>6
<1>8. s = r
  BY <1>2, <1>3, <1>7
<1> QED  BY <1>8 DEF s

LEMMA NextRemainder ==
  ASSUME NEW p \in Nat \ {0}, NEW x \in Int, (x % p) + 1 < p
  PROVE  (x + 1) % p = (x % p) + 1
<1> DEFINE q == x \div p
           r == x % p
           y == x + 1
<1>1. q \in Int /\ r \in 0 .. (p - 1) /\ x = p * q + r
  OBVIOUS
<1> HIDE DEF q, r
<1>2. r + 1 \in 0 .. (p - 1) /\ y = p * q + (r + 1)
  BY <1>1 DEF r
<1> HIDE DEF y
<1>3. y % p = r + 1
  BY <1>1, <1>2, RemainderIs
<1> QED  BY <1>3 DEF r, y

\* The pulses since a pulse of which only the low word was kept.
LEMMA SinceWord ==
  ASSUME NEW p \in Nat \ {0, 1}, NEW x \in Int
  PROVE  (x - (x % p)) % p = 0 /\ (x + 1 - (x % p)) % p = 1
<1> DEFINE q == x \div p
           r == x % p
           y == x - r
           z == x + 1 - r
<1>1. q \in Int /\ r \in 0 .. (p - 1) /\ x = p * q + r
  OBVIOUS
<1> HIDE DEF q, r
<1>2. y = p * q + 0 /\ z = p * q + 1 /\ 0 \in 0 .. (p - 1) /\ 1 \in 0 .. (p - 1)
  BY <1>1
<1> HIDE DEF y, z
<1>3. y % p = 0
  BY <1>1, <1>2, RemainderIs
<1>4. z % p = 1
  <2>1. \A i \in 0 .. (p - 1) : z = p * q + i => z % p = i
    BY <1>1, RemainderIs
  <2> QED  BY <1>2, <2>1
<1>5. y = x - (x % p) /\ z = x + 1 - (x % p)
  BY DEF y, z, r
<1> QED  BY <1>3, <1>4, <1>5

LEMMA LengthTyped ==
  ASSUME NEW slot \in SeqNoteT
  PROVE  Length(slot) \in 1 .. (WORD - 1)
BY ConstantTypes DEF SeqNoteT, Length

\* A note that has not lasted its length lasts one pulse more at the next.
LEMMA ElapsedNext ==
  ASSUME TypeInv, NEW t \in Track, Elapsed(t) < Length(Sn(t)),
         pulseClock' = pulseClock + 1, Sn(t)'.startPulse = Sn(t).startPulse
  PROVE  Elapsed(t)' = Elapsed(t) + 1
<1>1. /\ Sn(t) \in SeqNoteT /\ Sn(t).startPulse \in Int /\ pulseClock \in Int
      /\ Elapsed(t) \in 0 .. (WORD - 1)
  BY TypeFacts, OfTheTrack, ConstantTypes
<1>2. Length(Sn(t)) \in 1 .. (WORD - 1)
  BY <1>1, LengthTyped
<1> DEFINE x == pulseClock - Sn(t).startPulse
<1>3. x \in Int /\ Elapsed(t) = x % WORD /\ Elapsed(t)' = (x + 1) % WORD
  <2>1. pulseClock' - Sn(t)'.startPulse = x + 1
    BY <1>1
  <2> QED  BY <1>1, <2>1 DEF Elapsed
<1> HIDE DEF x
<1>4. (x % WORD) + 1 < WORD
  BY <1>1, <1>2, <1>3, ConstantTypes
<1> QED  BY <1>3, <1>4, ConstantTypes, NextRemainder
-----------------------------------------------------------------------------
(* The end of every note *)

\* What a step that makes voices quieter knows of a voice a track still has.
LEMMA StillClaimed ==
  ASSUME TypeInv, TimedInv, plain, Quieting, SamePlaces,
         NEW t \in Track, Claims(Sn(t).noteIndex, t)'
  PROVE  Claims(Sn(t).noteIndex, t) /\ seqRunning /\ (Recorded(t) \/ Timed(t))
<1>1. PICK v \in Voice : v = Sn(t).noteIndex
  BY TypeFacts, OfTheTrack
<1>2. Sn(t)'.noteIndex = v
  BY <1>1 DEF SamePlaces
<1>3. Claims(v, t)'
  BY <1>2 DEF Claims
<1>4. Claims(v, t)
  BY <1>3, QuietingClaims
<1> QED  BY <1>1, <1>4 DEF TimedInv

\* A voice that is silenced is not one of those.
LEMMA SilencedAtPlace ==
  ASSUME TypeInv, SamePlaces, NEW t \in Track, Silenced(note'[Sn(t).noteIndex])
  PROVE  ~Claims(Sn(t).noteIndex, t)'
<1>1. Sn(t)'.noteIndex = Sn(t).noteIndex
  BY DEF SamePlaces
<1> QED  BY <1>1 DEF Silenced, Claims, Live, Sounding

\* What a step leaves to show that does not touch the main thread's step.
LEMMA TimedRest ==
  ASSUME TimedInv, doing' = doing, held' = held, plain' = plain,
         plain => \A t \in Track : Claims(Sn(t).noteIndex, t)' =>
                                    seqRunning' /\ (Recorded(t)' \/ Timed(t)')
  PROVE  TimedInv'
<1>1. Turning' = Turning
  BY DEF Turning
<1> QED  BY <1>1 DEF TimedInv

\* A note that is timed stays so while the clock and its slot's times stand.
LEMMA TimedKept ==
  ASSUME NEW t \in Track, Timed(t), track'[t].state = track[t].state, pulseClock' = pulseClock,
         Sn(t)'.startPulse = Sn(t).startPulse, Sn(t)'.duration = Sn(t).duration,
         head' = UNSET \/ head' = head
  PROVE  Timed(t)'
<1>1. Elapsed(t)' = Elapsed(t) /\ Length(Sn(t))' = Length(Sn(t))
  BY DEF Elapsed, Length
<1> QED  BY <1>1 DEF Timed

\* A key that is down stays recorded while nothing of it is touched.
LEMMA RecordedKept ==
  ASSUME NEW t \in Track, Recorded(t), track'[t].state = track[t].state,
         currentTrack' = currentTrack, seqPreview' = seqPreview,
         Sn(t)' = Sn(t), [drum |-> Sn(t).drum, note |-> Sn(t).midiVal] \in held'
  PROVE  Recorded(t)'
BY DEF Recorded

\* A step that leaves the sequence and the transport alone.
LEMMA TimedUnchanged ==
  ASSUME TypeInv, TimedInv, Quieting,
         UNCHANGED <<pulseClock, seq, track, seqRunning, seqPreview, currentTrack, held,
                     plain, head>>,
         doing' = doing \/ (doing'.step # "on" /\ (Turning' => Turning))
  PROVE  TimedInv'
<1>1. \A t \in Track : Sn(t)' = Sn(t)
  BY DEF Sn
<1>2. SamePlaces
  BY <1>1 DEF SamePlaces
<1>3. ASSUME plain, NEW t \in Track, Claims(Sn(t).noteIndex, t)'
      PROVE  seqRunning /\ (Recorded(t)' \/ Timed(t)')
  <2>1. seqRunning /\ (Recorded(t) \/ Timed(t))
    BY <1>2, <1>3, StillClaimed
  <2>2. CASE Recorded(t)
    <3>1. [drum |-> Sn(t).drum, note |-> Sn(t).midiVal] \in held
      BY <2>2 DEF Recorded
    <3> QED  BY <1>1, <2>1, <2>2, <3>1, RecordedKept
  <2>3. CASE Timed(t)
    BY <1>1, <2>1, <2>3, TimedKept
  <2> QED  BY <2>1, <2>2, <2>3
<1>4. CASE doing' = doing
  BY <1>3, <1>4, TimedRest
<1>5. CASE doing'.step # "on" /\ (Turning' => Turning)
  BY <1>3, <1>5 DEF TimedInv
<1> QED  BY <1>4, <1>5

\* A pulse of the clock while the sequence stands.
LEMMA IdlePulseTimed == ASSUME TypeInv, TimedInv, IdlePulse PROVE TimedInv'
<1>1. SamePlaces /\ Quieting
  BY UnchangedQuieting DEF IdlePulse, SamePlaces, Sn
<1>2. ASSUME plain, NEW t \in Track, Claims(Sn(t).noteIndex, t)' PROVE FALSE
  BY <1>1, <1>2, StillClaimed DEF IdlePulse
<1> QED  BY <1>2, TimedRest DEF IdlePulse, ghosts

\* A voice that sounds on is not due: its time is not over yet.
LEMMA NotDue ==
  ASSUME TypeInv, NEW t \in Track, Claims(Sn(t).noteIndex, t), Timed(t), ~IsDue(t)
  PROVE  Elapsed(t) < Length(Sn(t))
<1>1. Elapsed(t) \in 0 .. (WORD - 1) /\ Sn(t).duration \in 0 .. (WORD - 1)
  BY TypeFacts, OfTheTrack
<1>2. ~(Elapsed(t) >= Sn(t).duration)
  <2>1. Sn(t).noteIndex \in Voice
    BY TypeFacts, OfTheTrack
  <2>2. OfTrack(t).trigger = t /\ On(OfTrack(t))
    BY <2>1, ClaimsBound DEF OfTrack
  <2> QED  BY <2>2 DEF Timed, IsDue
<1> QED  BY <1>1, <1>2, ConstantTypes DEF Length

\* The pulse, or the part of it that comes first at a boundary.
LEMMA PulseTimed == ASSUME TypeInv, TimedInv, Pulse PROVE TimedInv'
<1>1. Quieting /\ SamePlaces
  BY PulseQuiets, PulsePlaces
<1>4. ASSUME plain, NEW t \in Track, Claims(Sn(t).noteIndex, t)'
      PROVE  seqRunning' /\ (Recorded(t)' \/ Timed(t)')
  <2>1. Claims(Sn(t).noteIndex, t) /\ seqRunning /\ (Recorded(t) \/ Timed(t))
    BY <1>1, <1>4, StillClaimed
  <2>3. ~IsDue(t)
    BY <1>1, <1>4, PulseQuiets, SilencedAtPlace
  <2>4. Sn(t)' = Sn(t)
    BY <2>3, PulsePlaces
  <2>5. CASE Recorded(t)
    BY <2>1, <2>4, <2>5 DEF Recorded, Pulse, modes, choice, ghosts
  <2>6. CASE Timed(t)
    <3>1. Elapsed(t) < Length(Sn(t))
      BY <2>1, <2>3, <2>6, NotDue
    <3>2. /\ track'[t].state = "SEQ_PLAY" /\ Length(Sn(t))' = Length(Sn(t))
          /\ Elapsed(t) \in 0 .. (WORD - 1) /\ Length(Sn(t)) \in 1 .. (WORD - 1)
      BY <2>4, <2>6, TypeFacts, OfTheTrack, LengthTyped DEF Timed, Pulse
    <3>3. CASE pulseClock % seqStartPulse = 0
      <4>1. Elapsed(t)' = Elapsed(t)
        BY <2>4, <3>3 DEF Pulse, Elapsed
      <4> QED  BY <2>1, <3>1, <3>2, <4>1, ConstantTypes DEF Timed, Pulse, modes
    <3>4. CASE ~(pulseClock % seqStartPulse = 0)
      <4>1. pulseClock' = pulseClock + 1 /\ head' = UNSET
        BY <3>4 DEF Pulse
      <4>2. Elapsed(t)' = Elapsed(t) + 1
        BY <2>4, <3>1, <4>1, ElapsedNext
      <4> QED  BY <2>1, <3>1, <3>2, <4>1, <4>2, ConstantTypes DEF Timed, Pulse, modes
    <3> QED  BY <3>3, <3>4
  <2> QED  BY <2>1, <2>5, <2>6
<1> QED  BY <1>4, TimedRest DEF Pulse, ghosts

\* The head goes on to the next track, and the pulse ends after the last.
LEMMA NextTrackTimed ==
  ASSUME TypeInv, NEW t \in Track, head = t, NextTrack(t), NEW u \in Track, Timed(u),
         Sn(u)' = Sn(u), track'[u].state = track[u].state
  PROVE  Timed(u)'
<1>1. /\ Elapsed(u) \in 0 .. (WORD - 1) /\ Length(Sn(u)) \in 1 .. (WORD - 1)
      /\ Length(Sn(u))' = Length(Sn(u))
  BY TypeFacts, OfTheTrack, LengthTyped
<1>2. Elapsed(u) < Length(Sn(u))
  BY ConstantTypes DEF Timed
<1>3. CASE t + 1 \in Track
  <2>1. Elapsed(u)' = Elapsed(u)
    BY <1>3 DEF NextTrack, Elapsed
  <2> QED  BY <1>1, <1>2, <2>1, ConstantTypes DEF Timed
<1>4. CASE t + 1 \notin Track
  <2>1. head' = UNSET /\ pulseClock' = pulseClock + 1
    BY <1>4 DEF NextTrack
  <2>2. Elapsed(u)' = Elapsed(u) + 1
    BY <1>2, <2>1, ElapsedNext
  <2> QED  BY <1>1, <1>2, <2>1, <2>2, ConstantTypes DEF Timed
<1> QED  BY <1>3, <1>4

LEMMA PassingTimed ==
  ASSUME TypeInv, TimedInv, NEW t \in Track, EraseSlot(t) \/ PassSlot(t)
  PROVE  TimedInv'
<1>1. \A u \in Track : Sn(u)' = Sn(u)
  <2>1. TypeOK /\ SeqOk(seq) /\ \A u \in Track : track[u].noteSeqIndex \in Slot
    BY TypeFacts, OfTheTrack
  <2> QED  BY <2>1 DEF EraseSlot, PassSlot, Sn, SeqOk
<1>2. SamePlaces /\ Quieting /\ track' = track
  BY <1>1, UnchangedQuieting DEF EraseSlot, PassSlot, SamePlaces
<1>3. ASSUME plain, NEW u \in Track, Claims(Sn(u).noteIndex, u)'
      PROVE  seqRunning' /\ (Recorded(u)' \/ Timed(u)')
  <2>1. seqRunning /\ (Recorded(u) \/ Timed(u))
    BY <1>2, <1>3, StillClaimed
  <2>2. CASE Recorded(u)
    <3>1. /\ seqRunning' = seqRunning /\ currentTrack' = currentTrack
          /\ seqPreview' = seqPreview /\ held' = held
      BY DEF EraseSlot, PassSlot, modes, choice, ghosts
    <3>2. [drum |-> Sn(u).drum, note |-> Sn(u).midiVal] \in held
      BY <2>2 DEF Recorded
    <3>3. Recorded(u)'
      BY <1>1, <1>2, <2>2, <3>1, <3>2, RecordedKept
    <3> QED  BY <2>1, <3>1, <3>3
  <2>3. CASE Timed(u)
    <3>1. head = t /\ NextTrack(t)
      BY DEF EraseSlot, PassSlot
    <3>2. Timed(u)'
      BY <1>1, <1>2, <2>3, <3>1, NextTrackTimed
    <3> QED  BY <2>1, <3>2 DEF EraseSlot, PassSlot, modes
  <2> QED  BY <2>1, <2>2, <2>3
<1> QED  BY <1>3, TimedRest DEF EraseSlot, PassSlot, ghosts

\* The note that has just been struck.
LEMMA StruckTimed ==
  ASSUME TypeInv, NEW t \in Track, head = t, NextTrack(t),
         NEW x \in SeqNoteT, Sn(t)' = x, x.startPulse = pulseClock % WORD,
         track'[t].state = "SEQ_PLAY"
  PROVE  Timed(t)'
<1>1. Length(x) \in 1 .. (WORD - 1)
  BY LengthTyped
<1>2. /\ pulseClock \in Int
      /\ (pulseClock - (pulseClock % WORD)) % WORD = 0
      /\ (pulseClock + 1 - (pulseClock % WORD)) % WORD = 1
  BY TypeFacts, ConstantTypes, SinceWord
<1>3. CASE t + 1 \in Track
  <2>1. Elapsed(t)' = 0
    BY <1>2, <1>3 DEF NextTrack, Elapsed
  <2> QED  BY <1>1, <2>1, ConstantTypes DEF Timed
<1>4. CASE t + 1 \notin Track
  <2>1. head' = UNSET /\ pulseClock' = pulseClock + 1
    BY <1>4 DEF NextTrack
  <2>2. Elapsed(t)' = (pulseClock + 1 - (pulseClock % WORD)) % WORD
    <3>1. pulseClock' - Sn(t)'.startPulse = pulseClock + 1 - (pulseClock % WORD)
      <4> DEFINE m == pulseClock % WORD
      <4>1. Sn(t)'.startPulse = m /\ m \in Int /\ pulseClock \in Int
        BY TypeFacts, ConstantTypes, WordTyped
      <4> HIDE DEF m
      <4>2. pulseClock' - Sn(t)'.startPulse = pulseClock + 1 - m
        BY <2>1, <4>1
      <4> QED  BY <4>2 DEF m
    <3> QED  BY <3>1 DEF Elapsed
  <2> QED  BY <1>1, <1>2, <2>1, <2>2, ConstantTypes DEF Timed
<1> QED  BY <1>3, <1>4

LEMMA PlaySlotTimed ==
  ASSUME TypeInv, OwnInv, TimedInv, NEW t \in Track, PlaySlot(t)
  PROVE  TimedInv'
<1> DEFINE slots == CutShort(t)[1]
           voices == CutShort(t)[2]
<1>1. /\ SeqOk(seq) /\ RowOk(slots) /\ voices \in [Voice -> NoteT] /\ seqIndex \in Slot
      /\ track \in [Track -> TrackT]
      /\ \A u \in Track : track[u].noteSeqIndex \in Slot /\ Sn(u).noteIndex \in Voice
      /\ \A s \in Slot : slots[s].noteIndex = seq[t][s].noteIndex
  BY TypeFacts, OfTheTrack, CutShortTyped DEF VoicesOk
<1>2. /\ doing.step # "on" /\ doing' = doing /\ seqRunning /\ seqRunning' = seqRunning
      /\ plain' = plain /\ held' = held /\ currentTrack' = currentTrack
      /\ seqPreview' = seqPreview /\ head = t /\ NextTrack(t) /\ track[t].state = "SEQ_PLAY"
  BY ConstantTypes DEF PlaySlot, TypeInv, modes, choice, ghosts
<1>3. ASSUME NEW v \in Voice, NEW u \in Track, Live(voices[v]), voices[v].owner = u
      PROVE  u # t /\ Claims(v, u) /\ Sn(u).noteIndex = v
  BY <1>2, <1>3, CutShortSilences DEF OwnInv
<1>4. ASSUME plain, NEW u \in Track, u # t, Claims(Sn(u).noteIndex, u),
             Sn(u)' = Sn(u), track'[u] = track[u]
      PROVE  Recorded(u)' \/ Timed(u)'
  <2>1. Recorded(u) \/ Timed(u)
    BY <1>4 DEF TimedInv
  <2>2. CASE Recorded(u)
    BY <1>2, <1>4, <2>2 DEF Recorded
  <2>3. CASE Timed(u)
    BY <1>2, <1>4, <2>3, NextTrackTimed
  <2> QED  BY <2>1, <2>2, <2>3
<1> SUFFICES ASSUME plain, NEW u \in Track, Claims(Sn(u).noteIndex, u)'
             PROVE  Recorded(u)' \/ Timed(u)'
  BY <1>2, TimedRest
<1>7. Live(note'[Sn(u)'.noteIndex]) /\ note'[Sn(u)'.noteIndex].owner = u
  BY DEF Claims, Live, Sounding
<1> HIDE DEF slots, voices
<1>5. CASE seq' = [seq EXCEPT ![t] = slots] /\ note' = voices /\ track' = track
  <2>1. Sn(u)'.noteIndex = Sn(u).noteIndex
    BY <1>1, <1>5 DEF Sn, SeqOk
  <2>2. Live(voices[Sn(u).noteIndex]) /\ voices[Sn(u).noteIndex].owner = u
    BY <1>5, <1>7, <2>1
  <2>3. u # t /\ Claims(Sn(u).noteIndex, u)
    BY <1>1, <1>3, <2>2
  <2>4. Sn(u)' = Sn(u)
    BY <1>1, <1>5, <2>3 DEF Sn, SeqOk
  <2> QED  BY <1>4, <1>5, <2>3, <2>4
<1>6. ASSUME NEW w \in Voice, NEW cut \in BOOLEAN, Strikes(t, w, cut)
      PROVE  Recorded(u)' \/ Timed(u)'
  <2> DEFINE x == slots[seqIndex]
             new == NewNote(x.midiVal, x.drum, t, x.sample, cut, t)
             struck == Struck(x, w, pulseClock % WORD)
  <2>1. /\ note' = [voices EXCEPT ![w] = new]
        /\ seq' = [seq EXCEPT ![t] = [slots EXCEPT ![seqIndex] = struck]]
        /\ track' = [track EXCEPT ![t].noteSeqIndex = seqIndex]
    BY <1>6 DEF Strikes, slots, voices
  <2>2. struck \in SeqNoteT /\ struck.startPulse = pulseClock % WORD
    <3>1. x \in SeqNoteT
      BY <1>1 DEF RowOk
    <3>2. pulseClock % WORD \in 0 .. (WORD - 1)
      BY TypeFacts, WordTyped
    <3> HIDE DEF x
    <3> QED  BY <3>1, <3>2, StruckTyped
  <2>3. new.owner = t
    BY DEF NewNote
  <2> HIDE DEF struck, new
  <2>4. Sn(t)' = struck /\ track'[t].state = "SEQ_PLAY"
    BY <1>1, <1>2, <2>1 DEF Sn, SeqOk, RowOk, TrackT
  <2>5. CASE u = t
    BY <1>2, <2>2, <2>4, <2>5, StruckTimed
  <2>6. CASE u # t
    <3>1. Sn(u)' = Sn(u) /\ track'[u] = track[u]
      BY <1>1, <2>1, <2>6 DEF Sn, SeqOk
    <3>2. Sn(u).noteIndex # w
      BY <1>1, <1>7, <2>1, <2>3, <2>6, <3>1
    <3>3. Live(voices[Sn(u).noteIndex]) /\ voices[Sn(u).noteIndex].owner = u
      BY <1>1, <1>7, <2>1, <3>1, <3>2
    <3>4. Claims(Sn(u).noteIndex, u)
      BY <1>1, <1>3, <3>3
    <3> QED  BY <1>4, <2>6, <3>1, <3>4
  <2> QED  BY <2>5, <2>6
<1> QED  BY <1>5, <1>6, PlaySlotEffect DEF slots, voices

LEMMA BeginNoteOnTimed ==
  ASSUME TypeInv, OwnInv, TimedInv, NEW k \in Press, BeginNoteOn(k)
  PROVE  TimedInv'
<1>1. /\ Quieting /\ SamePlaces
      /\ \A t \in Track : t = currentTrack => ~Claims(Sn(t).noteIndex, t)'
      /\ \A u \in Track : u # currentTrack => Sn(u)' = Sn(u)
  BY BeginNoteOnFrees
<1>2. /\ doing'.key = k /\ doing'.step = "on" /\ held' = held \cup {k} /\ plain' = plain /\ track' = track
      /\ seqRunning' = seqRunning /\ pulseClock' = pulseClock /\ head' = head
  BY DEF BeginNoteOn, clock, modes
<1>3. ASSUME plain, NEW t \in Track, Claims(Sn(t).noteIndex, t)'
      PROVE  seqRunning /\ Timed(t)'
  <2>1. t # currentTrack /\ Sn(t)' = Sn(t)
    BY <1>1, <1>3
  <2>2. seqRunning /\ Timed(t)
    BY <1>1, <1>3, <2>1, StillClaimed DEF Recorded
  <2> QED  BY <1>2, <2>1, <2>2, TimedKept
<1> QED  BY <1>2, <1>3 DEF TimedInv, Turning

LEMMA FinishNoteOnTimed ==
  ASSUME TypeInv, OwnInv, TimedInv, FinishNoteOn
  PROVE  TimedInv'
<1>1. /\ note \in [Voice -> NoteT] /\ SeqOk(seq) /\ track \in [Track -> TrackT]
      /\ \A u \in Track : track[u].noteSeqIndex \in Slot /\ Sn(u).noteIndex \in Voice
  BY TypeFacts, OfTheTrack
<1>2. /\ doing.step = "on" /\ doing' = Idle /\ doing.snap \in Slot /\ currentTrack \in Track
      /\ doing.key \in Press /\ doing.key \in held
  BY DoingTyped, TypeFacts DEF FinishNoteOn, At, OnT, TimedInv
<1>3. /\ plain' = (plain /\ ~seqSynchStart) /\ held' = held /\ currentTrack' = currentTrack
      /\ seqRunning' = seqRunning /\ seqPreview' = seqPreview /\ pulseClock' = pulseClock
      /\ head' = head
  BY DEF FinishNoteOn, clock, choice
<1> SUFFICES ASSUME plain, ~seqSynchStart, NEW u \in Track, Claims(Sn(u).noteIndex, u)'
             PROVE  seqRunning /\ (Recorded(u)' \/ Timed(u)')
  BY <1>2, <1>3, IdleTyped DEF TimedInv, Turning
<1>4. Live(note'[Sn(u)'.noteIndex]) /\ note'[Sn(u)'.noteIndex].owner = u
  BY DEF Claims, Live, Sounding
<1>5. ASSUME Sn(u)' = Sn(u), track'[u] = track[u],
             note'[Sn(u).noteIndex] = note[Sn(u).noteIndex]
      PROVE  seqRunning /\ (Recorded(u)' \/ Timed(u)')
  <2>1. Claims(Sn(u).noteIndex, u)
    BY <1>4, <1>5 DEF Claims
  <2>2. seqRunning /\ (Recorded(u) \/ Timed(u))
    BY <2>1 DEF TimedInv
  <2>3. CASE Recorded(u)
    BY <1>3, <1>5, <2>2, <2>3 DEF Recorded
  <2>4. CASE Timed(u)
    BY <1>3, <1>5, <2>2, <2>4, TimedKept
  <2> QED  BY <2>2, <2>3, <2>4
<1>6. PICK w \in Voice, sample \in BOOLEAN, cut \in BOOLEAN :
        Records(w, sample, cut) \/ OnlySounds(w, sample, cut)
  BY FinishNoteOnEffect
<1>7. CASE OnlySounds(w, sample, cut)
  <2>1. Fresh(sample, cut, UNSET).owner \notin Track
    BY ConstantTypes DEF Fresh, NewNote
  <2>2. note' = [note EXCEPT ![w] = Fresh(sample, cut, UNSET)] /\ seq' = seq /\ track' = track
    BY <1>7 DEF OnlySounds
  <2>3. Sn(u)' = Sn(u)
    BY <2>2 DEF Sn
  <2>4. Sn(u).noteIndex # w
    BY <1>1, <1>4, <2>1, <2>2, <2>3
  <2> QED  BY <1>1, <1>5, <2>2, <2>3, <2>4
<1>8. CASE Records(w, sample, cut)
  <2> DEFINE new == Fresh(sample, cut, currentTrack)
             x == RecordedSlot(w, new.isSample)
  <2>1. /\ note' = [note EXCEPT ![w] = new]
        /\ seq' = Written(seq, currentTrack, doing.snap, x)
        /\ track' = [track EXCEPT ![currentTrack] = [noteSeqIndex |-> doing.snap,
                                                     state |-> "SEQ_RECORD"]]
        /\ ~seqPreview /\ seqRunning
    BY <1>8 DEF Records
  <2>2. new.owner = currentTrack
    BY DEF Fresh, NewNote
  <2>3. x.drum = doing.key.drum /\ x.midiVal = doing.key.note
    BY DEF RecordedSlot
  <2> HIDE DEF new, x
  <2>4. CASE u = currentTrack
    <3>1. Sn(u)' = x /\ track'[u].state = "SEQ_RECORD"
      BY <1>1, <1>2, <2>1, <2>4 DEF Sn, SeqOk, Written
    <3>2. doing.key = [drum |-> doing.key.drum, note |-> doing.key.note]
      BY <1>2 DEF Press
    <3> QED  BY <1>2, <1>3, <2>1, <2>3, <2>4, <3>1, <3>2 DEF Recorded
  <2>5. CASE u # currentTrack
    <3>1. Sn(u)' = Sn(u) /\ track'[u] = track[u]
      BY <1>1, <1>2, <2>1, <2>5 DEF Sn, SeqOk, Written
    <3>2. Sn(u).noteIndex # w
      BY <1>1, <1>4, <2>1, <2>2, <2>5, <3>1
    <3> QED  BY <1>1, <1>5, <2>1, <3>1, <3>2
  <2> QED  BY <2>4, <2>5
<1> QED  BY <1>6, <1>7, <1>8

\* The end of a recording takes its track's note: the others are as they were.
LEMMA EndsRecordingOthers ==
  ASSUME TypeInv, NEW key, NEW cut \in BOOLEAN, EndsRecording(key, cut),
         NEW u \in Track, Claims(Sn(u).noteIndex, u), Claims(Sn(u).noteIndex, u)'
  PROVE  u # currentTrack /\ Sn(u)' = Sn(u) /\ track'[u] = track[u]
<1>1. u # currentTrack
  <2> SUFFICES ASSUME u = currentTrack PROVE FALSE
    OBVIOUS
  <2>1. OfTrack(u).trigger = u
    <3>1. Sn(u).noteIndex \in Voice
      BY TypeFacts, OfTheTrack
    <3> QED  BY <3>1, ClaimsBound DEF OfTrack
  <2>2. Silenced(note'[Sn(u).noteIndex]) /\ SamePlaces
    BY <2>1, EndsRecordingSilences, EndsRecordingPlaces
  <2> QED  BY <2>2, SilencedAtPlace
<1>2. currentTrack \in Track
  BY TypeFacts
<1> QED  BY <1>1, <1>2, EndsRecordingPlaces

\* A key goes up: its own recording ends, and no other is waiting for it.
LEMMA NoteOffTimed ==
  ASSUME TypeInv, OwnInv, TimedInv, NEW k \in Press, NoteOff(k)
  PROVE  TimedInv'
<1>1. /\ doing'.step # "on" /\ ~Turning' /\ held' = held \ {k} /\ plain' = plain
      /\ seqRunning' = seqRunning /\ seqPreview' = seqPreview /\ currentTrack' = currentTrack
      /\ pulseClock' = pulseClock /\ head' = head
  BY NoteOffEffect DEF NoteOff, clock, modes, choice
<1> SUFFICES ASSUME plain, NEW u \in Track, Claims(Sn(u).noteIndex, u)'
             PROVE  seqRunning /\ (Recorded(u)' \/ Timed(u)')
  BY <1>1 DEF TimedInv
<1>2. Quieting /\ SamePlaces
  <2>1. CASE EndsSome(k.note)
    BY <2>1, EndsSomePlaces, EndsSomeTypes
  <2>2. CASE seq' = seq /\ note' = note /\ track' = track
    BY <2>2, UnchangedQuieting DEF SamePlaces, Sn
  <2> QED  BY <2>1, <2>2, NoteOffEffect
<1>3. Claims(Sn(u).noteIndex, u) /\ seqRunning /\ (Recorded(u) \/ Timed(u))
  BY <1>2, StillClaimed
<1>4. CASE seqPreview /\ seq' = seq /\ track' = track
  <2>1. Timed(u) /\ Sn(u)' = Sn(u)
    BY <1>3, <1>4 DEF Recorded, Sn
  <2> QED  BY <1>1, <1>3, <1>4, <2>1, TimedKept
<1>5. ASSUME NEW cut \in BOOLEAN, EndsRecording(k.note, cut)
      PROVE  seqRunning /\ (Recorded(u)' \/ Timed(u)')
  <2>1. u # currentTrack /\ Sn(u)' = Sn(u) /\ track'[u] = track[u]
    BY <1>3, <1>5, EndsRecordingOthers
  <2>2. Timed(u)
    BY <1>3, <2>1 DEF Recorded
  <2> QED  BY <1>1, <1>3, <2>1, <2>2, TimedKept
<1>6. CASE Sn(currentTrack).midiVal # k.note /\ seq' = seq /\ track' = track
  <2>1. Sn(u)' = Sn(u)
    BY <1>6 DEF Sn
  <2>2. CASE Timed(u)
    BY <1>1, <1>3, <1>6, <2>1, <2>2, TimedKept
  <2>3. CASE Recorded(u)
    <3>1. /\ u = currentTrack /\ [drum |-> Sn(u).drum, note |-> Sn(u).midiVal] \in held
      BY <2>3 DEF Recorded
    <3>2. [drum |-> Sn(u).drum, note |-> Sn(u).midiVal] # k
      BY <1>6, <3>1
    <3>3. [drum |-> Sn(u).drum, note |-> Sn(u).midiVal] \in held'
      BY <1>1, <3>1, <3>2
    <3>4. Recorded(u)'
      BY <1>1, <1>6, <2>1, <2>3, <3>3, RecordedKept
    <3> QED  BY <1>3, <3>4
  <2> QED  BY <1>3, <2>2, <2>3
<1> QED  BY <1>3, <1>4, <1>5, <1>6, NoteOffEffect DEF EndsSome

\* With no key down only notes that are played can sound for a track.
LEMMA OnlyTimed ==
  ASSUME TypeInv, TimedInv, plain, held = {}, Quieting, SamePlaces,
         NEW t \in Track, Claims(Sn(t).noteIndex, t)'
  PROVE  Claims(Sn(t).noteIndex, t) /\ seqRunning /\ Timed(t)
BY StillClaimed DEF Recorded

\* A panel or transport move with no key down, which leaves the times of the
\* slots and the states of the tracks that sound.
LEMMA UndisturbedTimed ==
  ASSUME TypeInv, TimedInv, Quieting, SamePlaces, plain' = Undisturbed, held' = held,
         doing'.step # "on", seqRunning' = seqRunning, pulseClock' = pulseClock, head' = head,
         \A t \in Track : Claims(Sn(t).noteIndex, t)' =>
           /\ track'[t].state = track[t].state
           /\ Sn(t)'.startPulse = Sn(t).startPulse /\ Sn(t)'.duration = Sn(t).duration
  PROVE  TimedInv'
<1>1. ASSUME Undisturbed, NEW t \in Track, Claims(Sn(t).noteIndex, t)'
      PROVE  seqRunning /\ Timed(t)'
  <2>1. seqRunning /\ Timed(t)
    BY <1>1, OnlyTimed DEF Undisturbed
  <2> QED  BY <1>1, <2>1, TimedKept
<1> QED  BY <1>1 DEF TimedInv, Undisturbed

\* A transport move that leaves the tracks silent.
LEMMA SilentTimed ==
  ASSUME doing'.step # "on", plain' = Undisturbed, held' = held,
         plain' => \A t \in Track : ~Claims(Sn(t).noteIndex, t)'
  PROVE  TimedInv'
BY DEF TimedInv, Undisturbed

\* While the sequence stands, no track sounds.
LEMMA StandingSilent ==
  ASSUME TypeInv, TimedInv, plain, ~seqRunning, Quieting, SamePlaces, NEW t \in Track
  PROVE  ~Claims(Sn(t).noteIndex, t)'
BY StillClaimed

LEMMA StopSequencerTracks ==
  ASSUME TypeInv, OwnInv, StopSequencer, seq' = seq, track' = track, NEW t \in Track
  PROVE  ~Claims(Sn(t).noteIndex, t)'
<1>1. PICK v \in Voice : v = Sn(t).noteIndex
  BY TypeFacts, OfTheTrack
<1>2. Sn(t)'.noteIndex = v
  BY <1>1 DEF Sn
<1>3. ~Claims(v, t)'
  BY StopSequencerSilences
<1> QED  BY <1>2, <1>3 DEF Claims

LEMMA TransportTimed ==
  ASSUME TypeInv, OwnInv, TimedInv,
         HandleStart \/ HandleStop \/ PressStart \/ LeaveToSave \/ StartOrStop
  PROVE  TimedInv'
<1>1. doing'.step # "on" /\ doing' = doing /\ held' = held
  BY IdleTyped DEF HandleStart, HandleStop, PressStart, LeaveToSave, StartOrStop, AtPanel, Move,
                   May, Main, ghosts
<1>2. CASE HandleStart \/ PressStart
  <2>1. SamePlaces /\ Quieting /\ ~seqRunning /\ plain' = Undisturbed
    BY <1>2, ResetGrooveboxPlaces, UnchangedQuieting DEF HandleStart, PressStart
  <2>2. ASSUME plain', NEW t \in Track PROVE ~Claims(Sn(t).noteIndex, t)'
    BY <2>1, <2>2, StandingSilent DEF Undisturbed
  <2> QED  BY <1>1, <2>1, <2>2, SilentTimed
<1>3. CASE HandleStop \/ (StartOrStop /\ seqRunning)
  <2>1. StopSequencer /\ seq' = seq /\ track' = track /\ plain' = Undisturbed
    BY <1>3 DEF HandleStop, StartOrStop
  <2> QED  BY <1>1, <2>1, StopSequencerTracks, SilentTimed
<1>4. CASE StartOrStop /\ ~seqRunning
  <2>1. SamePlaces /\ Quieting /\ plain' = Undisturbed
    BY <1>4, UnchangedQuieting DEF StartOrStop, SamePlaces, Sn
  <2>2. ASSUME plain', NEW t \in Track PROVE ~Claims(Sn(t).noteIndex, t)'
    BY <1>4, <2>1, <2>2, StandingSilent DEF Undisturbed
  <2> QED  BY <1>1, <2>1, <2>2, SilentTimed
<1>5. CASE LeaveToSave
  BY <1>5, UnchangedQuieting, TimedUnchanged DEF LeaveToSave, clock, modes, choice, ghosts
<1> QED  BY <1>2, <1>3, <1>4, <1>5

\* The turn of the track knob, which was begun with no key down.
LEMMA FinishTurnTimed ==
  ASSUME TypeInv, TimedInv, FinishTurn
  PROVE  TimedInv'
<1>1. /\ doing.step = "turn" /\ doing' = Idle /\ plain' = plain /\ held' = held
      /\ seqRunning' = seqRunning /\ pulseClock' = pulseClock /\ head' = head
  BY FinishTurnEffect DEF FinishTurn, clock, modes, ghosts
<1> SUFFICES ASSUME plain, NEW u \in Track, Claims(Sn(u).noteIndex, u)'
             PROVE  seqRunning /\ Timed(u)'
  BY <1>1, IdleTyped DEF TimedInv, Turning
<1>2. held = {}
  BY <1>1 DEF TimedInv, Turning
<1>3. Quieting /\ SamePlaces
  <2>1. CASE EndsSome(Sn(currentTrack).midiVal)
    BY <2>1, EndsSomePlaces, EndsSomeTypes
  <2>2. CASE seq' = seq /\ track' = track
    BY <2>2, FinishTurnEffect DEF SamePlaces, Sn
  <2> QED  BY <2>1, <2>2, FinishTurnEffect
<1>4. Claims(Sn(u).noteIndex, u) /\ seqRunning /\ Timed(u)
  BY <1>2, <1>3, OnlyTimed
<1>5. CASE seq' = seq /\ track' = track
  BY <1>1, <1>4, <1>5, TimedKept DEF Sn
<1>6. ASSUME NEW cut \in BOOLEAN, EndsRecording(Sn(currentTrack).midiVal, cut)
      PROVE  seqRunning /\ Timed(u)'
  <2>1. Sn(u)' = Sn(u) /\ track'[u] = track[u]
    BY <1>4, <1>6, EndsRecordingOthers
  <2> QED  BY <1>1, <1>4, <2>1, TimedKept
<1> QED  BY <1>5, <1>6, FinishTurnEffect DEF EndsSome

LEMMA PanelTimed ==
  ASSUME TypeInv, TimedInv,
         \/ Clear \/ TogglePreview \/ Reset \/ \E t \in Track : SelectTrack(t) \/ AllNotesOff(t)
  PROVE  TimedInv'
<1>1. CASE Clear \/ TogglePreview \/ Reset
  <2>1. doing'.step # "on" /\ held' = held /\ plain' = Undisturbed
    BY <1>1, IdleTyped DEF Clear, TogglePreview, Reset, AtPanel, Move, May, Main
  <2>2. CASE Clear
    <3>1. Quieting /\ SamePlaces /\ track' = track
      BY <2>2, ClearPlaces, UnchangedQuieting DEF Clear
    <3> QED  BY <2>1, <2>2, <3>1, ClearPlaces, UndisturbedTimed DEF Clear, clock, modes
  <2>3. CASE TogglePreview
    <3>1. SamePlaces /\ Quieting /\ \A t \in Track : Sn(t)' = Sn(t)
      BY <2>3, UnchangedQuieting DEF TogglePreview, SamePlaces, Sn
    <3> QED  BY <2>1, <2>3, <3>1, UndisturbedTimed DEF TogglePreview, clock
  <2>4. CASE Reset
    <3>1. /\ \A v \in Voice : Silenced(note'[v])
          /\ \A t \in Track : Sn(t)'.noteIndex = 0
      BY <2>4, ConstantTypes, SilentNoteTyped DEF Reset, Sn, EmptySlot, Playing
    <3>2. \A t \in Track : ~Claims(Sn(t).noteIndex, t)'
      BY <3>1, ConstantTypes DEF Claims, Silenced, Live, Sounding
    <3> QED  BY <2>1, <3>2, SilentTimed
  <2> QED  BY <1>1, <2>2, <2>3, <2>4
<1>2. ASSUME NEW t \in Track, SelectTrack(t) PROVE TimedInv'
  <2>1. doing'.step # "on" /\ plain' = Undisturbed
    BY <1>2, SelectTrackTyped
  <2>2. SamePlaces /\ Quieting /\ \A u \in Track : Sn(u)' = Sn(u)
    BY <1>2, UnchangedQuieting DEF SelectTrack, SamePlaces, Sn
  <2> QED  BY <1>2, <2>1, <2>2, UndisturbedTimed DEF SelectTrack, clock, modes
<1>3. ASSUME NEW t \in Track, AllNotesOff(t) PROVE TimedInv'
  <2>1. doing'.step = "quiet"
    BY <1>3, AllNotesOffTyped
  <2> QED  BY <1>3, <2>1, UnchangedQuieting, TimedUnchanged
              DEF AllNotesOff, clock, modes, choice, Turning
<1> QED  BY <1>1, <1>2, <1>3

LEMMA VoiceStepTimed == ASSUME TypeInv, TimedInv, OnVoices PROVE TimedInv'
BY VoiceStep, TimedUnchanged DEF Unlocked, Frame, clock, modes, choice, ghosts

LEMMA TimedNext == ASSUME TypeInv, OwnInv, TimedInv, [Next]_vars PROVE TimedInv'
<1>1. CASE UNCHANGED vars
  BY <1>1, UnchangedQuieting, TimedUnchanged DEF vars, clock, modes, choice, ghosts
<1>2. ASSUME NEW v \in Voice, VoiceEnds(v) PROVE TimedInv'
  BY <1>2, VoiceEndsQuiets, TimedUnchanged DEF VoiceEnds, clock, modes, choice, ghosts
<1>3. CASE Handler
  BY <1>3, VoiceStepTimed, BeginNoteOnTimed, NoteOffTimed, FinishNoteOnTimed, FinishTurnTimed,
     TransportTimed, PanelTimed DEF Handler
<1>4. CASE ISR
  BY <1>2, <1>4, IdlePulseTimed, PulseTimed, PlaySlotTimed, PassingTimed DEF ISR
<1> QED  BY <1>1, <1>3, <1>4 DEF Next, EndOfClock

LEMMA TimedInit == ASSUME Init PROVE TimedInv
<1>1. doing = Idle /\ \A v \in Voice : Silenced(note[v])
  BY SilentNoteTyped DEF Init
<1>2. \A t \in Track : Sn(t).noteIndex \in Voice
  BY ConstantTypes DEF Init, Sn, EmptySlot, Playing
<1> QED  BY <1>1, <1>2, IdleTyped DEF TimedInv, Claims, Silenced, Turning

\* While the sequence runs, a note that sounds for a track waits for a key that
\* is down or for a time that is not over, when tracks were edited and the
\* transport was used with no key down: no note of the sequence hangs, unless
\* a write for a former note fell on it.
THEOREM NotesEndOnTime == Spec => []HeldOrTimed
<1>1. Init => TypeInv /\ OwnInv /\ TimedInv
  BY TypesInit, OwnInit, TimedInit
<1>2. TypeInv /\ OwnInv /\ TimedInv /\ [Next]_vars => TypeInv' /\ OwnInv' /\ TimedInv'
  BY TypesNext, OwnNext, TimedNext
<1>3. TimedInv => HeldOrTimed
  BY DEF TimedInv, HeldOrTimed, Claims, Live, OfTrack, Recorded, Timed
<1> QED  BY <1>1, <1>2, <1>3, PTL DEF Spec
=============================================================================

------------------------- MODULE Arpeggiator_proofs -------------------------
(***************************************************************************)
(* The arpeggiator, for any number of voices and slots, any chords, keys   *)
(* and divisions: no note hangs, none is still held when the next starts,  *)
(* and an arpeggio made from the keys is the keys in their order.          *)
(***************************************************************************)
EXTENDS Arpeggiator, FiniteSetTheorems, SequenceTheorems, TLAPS

(* What the proofs know beyond the invariants the runs check *)

\* the steps of a handler in the order the handlers queue them
Follows ==
  {<<"lock", "fill">>, <<"fill", "measure">>, <<"measure", "unlock">>,
   <<"lock", "stop">>, <<"stop", "rewind">>, <<"rewind", "unlock">>,
   <<"lock", "transpose">>, <<"transpose", "unlock">>,
   <<"unlock", "lock">>, <<"unlock", "start">>}

Chain(s) ==
  /\ \A i \in 1 .. (Len(s) - 1) : <<s[i].op, s[i + 1].op>> \in Follows
  /\ s # <<>> => s[Len(s)].op \in {"unlock", "start"}

Queued(s, op) == \E i \in 1 .. Len(s) : s[i].op = op
At(ops)       == todo # <<>> /\ Head(todo).op \in ops

\* arpRunning is clear from a lock to its unlock.
Locked ==
  At({"fill", "measure", "unlock", "stop", "rewind", "transpose"}) => ~arpRunning

ThreadInv == Chain(todo) /\ Locked

NothingHeld == \A v \in Voice : voice[v] # "held"

\* A voice can be held only while the ISR runs, or where it will run again, or
\* will be stopped, before the handler is done.
Attended ==
  \/ NothingHeld \/ arpRunning
  \/ At({"fill", "measure", "unlock", "transpose"}) /\ oldArpRunning
  \/ Queued(todo, "stop")

HeldInv ==
  /\ \A v \in Voice : voice[v] = "held" => v = arpNoteIndex
  /\ At({"rewind"}) => NothingHeld
  /\ Attended

\* While a note plays, its release falls before the pulse that starts the next.
ReleaseAhead ==
  LET into == pulseClock % arpNoteStartPulse IN
  /\ into >= 1
  /\ pulseClock <= arpReleaseTime
  /\ arpReleaseTime - pulseClock + into < arpNoteStartPulse

TimingInv ==
  /\ arpNoteStartPulse \in 3 .. PPQ
  /\ arpNoteLength \in 1 .. (arpNoteStartPulse - 1)
  /\ arpNoteIndex # UNSET => ReleaseAhead

\* source tells what arpType says, but where the arpeggio is about to be made
\* anew; what is transposed is made of keys.
SourceInv ==
  /\ (source = "chord" <=> arpType # ARP_TYPE_MIDI) \/ Queued(todo, "measure")
  /\ Queued(todo, "transpose") => source # "chord" /\ arpType = ARP_TYPE_MIDI

PositionInv ==
  source \in {"keys", "moved"} /\ arpLength > 0 => arpPosition < arpLength

\* The slots hold the keys that are down, each in one, with its time.
Taken(keys) == {i \in Slot : keys[i] # 0}
Hold(keys, times, down) ==
  /\ \A i, j \in Taken(keys) : keys[i] = keys[j] => i = j
  /\ \A i \in Taken(keys) : down[keys[i]] = times[i]
  /\ \A k \in Down(down) : \E i \in Taken(keys) : keys[i] = k

SlotsInv == Hold(midiArpeggioNotes, midiArpeggioNoteTime, pressed)

\* Between fill and measure the keys lie sorted in arpeggio[].
SortedInv ==
  At({"measure"}) /\ arpType = ARP_TYPE_MIDI =>
    \A i \in Filled : arpeggio[Rank(i)] = midiArpeggioNotes[i]

PlaysKeys ==
  LET played == {i \in Slot : i < arpLength} IN
  /\ {arpeggio[i] : i \in played} = Down(latched)
  /\ arpLength = Cardinality(Down(latched))
  /\ \A i, j \in played : i < j => latched[arpeggio[i]] <= latched[arpeggio[j]]

LatchedInv == source = "keys" /\ ~At({"measure"}) => PlaysKeys

KeysInv == SlotsInv /\ SortedInv /\ LatchedInv
-----------------------------------------------------------------------------
(* The queue of steps *)

LEMMA OpsOfStep == ASSUME NEW s \in StepT PROVE s.op \in {"lock", "fill", "measure",
                     "stop", "rewind", "unlock", "start", "transpose"}
BY DEF StepT

LEMMA TakeOne ==
  ASSUME todo \in Seq(StepT), NEW op, Doing(op)
  PROVE  /\ todo # <<>> /\ Len(todo) \in Nat \ {0} /\ Head(todo) = todo[1]
         /\ todo[1].op = op
         /\ todo' \in Seq(StepT) /\ Len(todo') = Len(todo) - 1
         /\ \A i \in 1 .. Len(todo') : todo'[i] = todo[i + 1]
         /\ todo' # <<>> => Len(todo') \in Nat \ {0} /\ Head(todo') = todo'[1]
<1>1. todo # <<>> /\ Head(todo).op = op /\ todo' = Tail(todo)
  BY DEF Doing
<1>2. Len(todo) \in Nat \ {0} /\ Head(todo) = todo[1]
  BY <1>1, EmptySeq
<1>3. /\ Tail(todo) \in Seq(StepT) /\ Len(Tail(todo)) = Len(todo) - 1
      /\ \A i \in 1 .. Len(Tail(todo)) : Tail(todo)[i] = todo[i + 1]
  BY <1>1, HeadTailProperties
<1>4. todo' # <<>> => Len(todo') \in Nat \ {0} /\ Head(todo') = todo'[1]
  BY <1>1, <1>3, EmptySeq
<1> QED
  BY <1>1, <1>2, <1>3, <1>4

LEMMA ChainStep ==
  ASSUME todo \in Seq(StepT), Chain(todo), NEW op, Doing(op)
  PROVE  /\ Chain(todo')
         /\ todo' = <<>> => op \in {"unlock", "start"}
         /\ todo' # <<>> => <<op, Head(todo').op>> \in Follows
<1>1. /\ todo # <<>> /\ Len(todo) \in Nat \ {0} /\ todo[1].op = op
      /\ todo' \in Seq(StepT) /\ Len(todo') = Len(todo) - 1
      /\ \A i \in 1 .. Len(todo') : todo'[i] = todo[i + 1]
      /\ todo' # <<>> => Len(todo') \in Nat \ {0} /\ Head(todo') = todo'[1]
  BY TakeOne
<1>2. ASSUME NEW i \in 1 .. (Len(todo') - 1)
      PROVE  <<todo'[i].op, todo'[i + 1].op>> \in Follows
  <2>1. i \in 1 .. Len(todo') /\ i + 1 \in 1 .. Len(todo') /\ i + 1 \in 1 .. (Len(todo) - 1)
    BY <1>1
  <2>2. todo'[i] = todo[i + 1] /\ todo'[i + 1] = todo[(i + 1) + 1]
    BY <1>1, <2>1
  <2> QED
    BY <2>1, <2>2 DEF Chain
<1>3. todo' # <<>> => todo'[Len(todo')].op \in {"unlock", "start"}
  <2> SUFFICES ASSUME todo' # <<>> PROVE todo'[Len(todo')].op \in {"unlock", "start"}
    OBVIOUS
  <2>1. Len(todo') \in 1 .. Len(todo') /\ Len(todo') + 1 = Len(todo)
    BY <1>1
  <2>2. todo'[Len(todo')] = todo[Len(todo)]
    BY <1>1, <2>1
  <2> QED
    BY <1>1, <2>2 DEF Chain
<1>4. todo' = <<>> => op \in {"unlock", "start"}
  <2> SUFFICES ASSUME todo' = <<>> PROVE op \in {"unlock", "start"}
    OBVIOUS
  <2>1. Len(todo') = 0
    BY EmptySeq
  <2>2. Len(todo) = 1
    BY <1>1, <2>1
  <2> QED
    BY <1>1, <2>2 DEF Chain
<1>5. todo' # <<>> => <<op, Head(todo').op>> \in Follows
  <2> SUFFICES ASSUME todo' # <<>> PROVE <<op, Head(todo').op>> \in Follows
    OBVIOUS
  <2>1. 1 \in 1 .. Len(todo') /\ 1 \in 1 .. (Len(todo) - 1)
    BY <1>1
  <2>2. Head(todo') = todo[1 + 1]
    BY <1>1, <2>1
  <2> QED
    BY <1>1, <2>1, <2>2 DEF Chain
<1> QED
  BY <1>2, <1>3, <1>4, <1>5 DEF Chain

\* Taking one step off the queue leaves the others in it.
LEMMA QueuedStep ==
  ASSUME todo \in Seq(StepT), NEW op, Doing(op), NEW other
  PROVE  /\ Queued(todo', other) => Queued(todo, other)
         /\ Queued(todo, other) /\ other # op => Queued(todo', other)
<1>1. /\ Len(todo) \in Nat \ {0} /\ todo[1].op = op
      /\ Len(todo') = Len(todo) - 1
      /\ \A i \in 1 .. Len(todo') : todo'[i] = todo[i + 1]
  BY TakeOne
<1>2. ASSUME Queued(todo', other) PROVE Queued(todo, other)
  <2>1. PICK i \in 1 .. Len(todo') : todo'[i].op = other
    BY <1>2 DEF Queued
  <2>2. i + 1 \in 1 .. Len(todo) /\ todo[i + 1].op = other
    BY <1>1, <2>1
  <2> QED
    BY <2>2 DEF Queued
<1>3. ASSUME Queued(todo, other), other # op PROVE Queued(todo', other)
  <2>1. PICK i \in 1 .. Len(todo) : todo[i].op = other
    BY <1>3 DEF Queued
  <2>2. i # 1
    BY <1>1, <1>3, <2>1
  <2>3. i - 1 \in 1 .. Len(todo') /\ (i - 1) + 1 = i
    BY <1>1, <2>2
  <2>4. todo'[i - 1].op = other
    BY <1>1, <2>1, <2>3
  <2> QED
    BY <2>3, <2>4 DEF Queued
<1> QED
  BY <1>2, <1>3

LEMMA ChainConcat ==
  ASSUME NEW s \in Seq(StepT), NEW t \in Seq(StepT), Chain(s), Chain(t),
         s # <<>>, t # <<>>, <<s[Len(s)].op, t[1].op>> \in Follows
  PROVE  Chain(s \o t) /\ s \o t # <<>> /\ Head(s \o t) = s[1] /\ s \o t \in Seq(StepT)
<1>1. /\ s \o t \in Seq(StepT) /\ Len(s \o t) = Len(s) + Len(t)
      /\ \A i \in 1 .. Len(s) + Len(t) :
           (s \o t)[i] = IF i <= Len(s) THEN s[i] ELSE t[i - Len(s)]
  BY ConcatProperties
<1>2. Len(s) \in Nat \ {0} /\ Len(t) \in Nat \ {0}
  BY EmptySeq
<1>3. s \o t # <<>> /\ Head(s \o t) = (s \o t)[1]
  BY <1>1, <1>2, EmptySeq
<1>4. Head(s \o t) = s[1]
  BY <1>1, <1>2, <1>3
<1>5. (s \o t)[Len(s \o t)].op \in {"unlock", "start"}
  <2>1. (s \o t)[Len(s \o t)] = t[Len(t)]
    BY <1>1, <1>2
  <2> QED
    BY <2>1 DEF Chain
<1>6. ASSUME NEW i \in 1 .. (Len(s \o t) - 1)
      PROVE  <<(s \o t)[i].op, (s \o t)[i + 1].op>> \in Follows
  <2>0. i \in 1 .. (Len(s) + Len(t)) /\ i + 1 \in 1 .. (Len(s) + Len(t))
    BY <1>1, <1>2
  <2>1. CASE i < Len(s)
    <3>1. (s \o t)[i] = s[i] /\ (s \o t)[i + 1] = s[i + 1]
      BY <1>1, <1>2, <2>0, <2>1
    <3>2. i \in 1 .. (Len(s) - 1)
      BY <1>2, <2>1
    <3> QED
      BY <3>1, <3>2 DEF Chain
  <2>2. CASE i = Len(s)
    <3>1. (s \o t)[i] = s[Len(s)] /\ (s \o t)[i + 1] = t[1]
      BY <1>1, <1>2, <2>0, <2>2
    <3> QED
      BY <3>1
  <2>3. CASE i > Len(s)
    <3>1. i - Len(s) \in 1 .. (Len(t) - 1) /\ (i + 1) - Len(s) = (i - Len(s)) + 1
      BY <1>1, <1>2, <2>3
    <3>2. (s \o t)[i] = t[i - Len(s)] /\ (s \o t)[i + 1] = t[(i - Len(s)) + 1]
      BY <1>1, <1>2, <2>0, <2>3, <3>1
    <3> QED
      BY <3>1, <3>2 DEF Chain
  <2>4. i < Len(s) \/ i = Len(s) \/ i > Len(s)
    BY <1>2, <2>0
  <2> QED
    BY <2>1, <2>2, <2>3, <2>4
<1> QED
  BY <1>1, <1>3, <1>4, <1>5, <1>6 DEF Chain

LEMMA QueuedConcat ==
  ASSUME NEW s \in Seq(StepT), NEW t \in Seq(StepT), NEW op
  PROVE  Queued(s \o t, op) <=> Queued(s, op) \/ Queued(t, op)
<1>1. /\ Len(s \o t) = Len(s) + Len(t)
      /\ \A i \in 1 .. Len(s) + Len(t) :
           (s \o t)[i] = IF i <= Len(s) THEN s[i] ELSE t[i - Len(s)]
  BY ConcatProperties
<1>2. Len(s) \in Nat /\ Len(t) \in Nat
  OBVIOUS
<1>3. ASSUME Queued(s \o t, op) PROVE Queued(s, op) \/ Queued(t, op)
  <2>1. PICK i \in 1 .. (Len(s) + Len(t)) : (s \o t)[i].op = op
    BY <1>1, <1>3 DEF Queued
  <2>2. CASE i <= Len(s)
    <3>1. i \in 1 .. Len(s) /\ s[i].op = op
      BY <1>1, <1>2, <2>1, <2>2
    <3> QED
      BY <3>1 DEF Queued
  <2>3. CASE ~(i <= Len(s))
    <3>1. i - Len(s) \in 1 .. Len(t) /\ t[i - Len(s)].op = op
      BY <1>1, <1>2, <2>1, <2>3
    <3> QED
      BY <3>1 DEF Queued
  <2> QED
    BY <2>2, <2>3
<1>4. ASSUME Queued(s, op) PROVE Queued(s \o t, op)
  <2>1. PICK i \in 1 .. Len(s) : s[i].op = op
    BY <1>4 DEF Queued
  <2>2. i \in 1 .. Len(s \o t) /\ (s \o t)[i].op = op
    BY <1>1, <1>2, <2>1
  <2> QED
    BY <2>2 DEF Queued
<1>5. ASSUME Queued(t, op) PROVE Queued(s \o t, op)
  <2>1. PICK i \in 1 .. Len(t) : t[i].op = op
    BY <1>5 DEF Queued
  <2>2. i + Len(s) \in 1 .. (Len(s) + Len(t)) /\ ~(i + Len(s) <= Len(s))
        /\ (i + Len(s)) - Len(s) = i
    BY <1>2, <2>1
  <2>3. (s \o t)[i + Len(s)] = t[i]
    BY <1>1, <2>2
  <2> QED
    BY <1>1, <2>1, <2>2, <2>3 DEF Queued
<1> QED
  BY <1>3, <1>4, <1>5

\* A queue of steps that a handler may start with.
Fresh(s) == s \in Seq(StepT) /\ Chain(s) /\ s # <<>> /\ s[1].op \in {"lock", "start"}

LEMMA FreshStart == Fresh(<<Do("start")>>) /\ \A op : Queued(<<Do("start")>>, op) <=> op = "start"
<1> DEFINE s == <<Do("start")>>
<1>1. Do("start") \in StepT
  BY DEF Do, StepT, MIDI_LOW, MIDI_HIGH
<1>2. s \in Seq(StepT) /\ Len(s) = 1 /\ s[1] = Do("start") /\ s # <<>>
  BY <1>1
<1>3. Do("start").op = "start"
  BY DEF Do
<1> HIDE DEF s
<1> QED
  BY <1>2, <1>3 DEF Fresh, Chain, Queued, s

LEMMA FreshSet ==
  /\ Fresh(SetArpeggioNotes) /\ SetArpeggioNotes[Len(SetArpeggioNotes)].op = "unlock"
  /\ SetArpeggioNotes[1].op = "lock"
  /\ \A op : Queued(SetArpeggioNotes, op) <=> op \in {"lock", "fill", "measure", "unlock"}
<1> DEFINE s == SetArpeggioNotes
<1>1. \A op \in {"lock", "fill", "measure", "unlock"} : Do(op) \in StepT /\ Do(op).op = op
  BY DEF Do, StepT, MIDI_LOW, MIDI_HIGH
<1>2. /\ s \in Seq(StepT) /\ Len(s) = 4 /\ s # <<>>
      /\ s[1].op = "lock" /\ s[2].op = "fill" /\ s[3].op = "measure" /\ s[4].op = "unlock"
  BY <1>1 DEF SetArpeggioNotes
<1> HIDE DEF s
<1>3. 1 .. 4 = {1, 2, 3, 4} /\ 1 .. (4 - 1) = {1, 2, 3}
  OBVIOUS
<1> QED
  BY <1>2, <1>3 DEF Fresh, Chain, Queued, Follows, s

LEMMA FreshReset ==
  /\ Fresh(ResetArpeggiator) /\ ResetArpeggiator[Len(ResetArpeggiator)].op = "unlock"
  /\ ResetArpeggiator[1].op = "lock"
  /\ \A op : Queued(ResetArpeggiator, op) <=> op \in {"lock", "stop", "rewind", "unlock"}
<1> DEFINE s == ResetArpeggiator
<1>1. \A op \in {"lock", "stop", "rewind", "unlock"} : Do(op) \in StepT /\ Do(op).op = op
  BY DEF Do, StepT, MIDI_LOW, MIDI_HIGH
<1>2. /\ s \in Seq(StepT) /\ Len(s) = 4 /\ s # <<>>
      /\ s[1].op = "lock" /\ s[2].op = "stop" /\ s[3].op = "rewind" /\ s[4].op = "unlock"
  BY <1>1 DEF ResetArpeggiator
<1> HIDE DEF s
<1>3. 1 .. 4 = {1, 2, 3, 4} /\ 1 .. (4 - 1) = {1, 2, 3}
  OBVIOUS
<1> QED
  BY <1>2, <1>3 DEF Fresh, Chain, Queued, Follows, s

LEMMA FreshTranspose ==
  ASSUME NEW r \in MIDI_LOW .. MIDI_HIGH
  PROVE  /\ Fresh(<<Do("lock"), Transpose(r), Do("unlock")>>)
         /\ \A op : Queued(<<Do("lock"), Transpose(r), Do("unlock")>>, op)
                      <=> op \in {"lock", "transpose", "unlock"}
<1> DEFINE s == <<Do("lock"), Transpose(r), Do("unlock")>>
<1>1. /\ \A op \in {"lock", "unlock"} : Do(op) \in StepT /\ Do(op).op = op
      /\ Transpose(r) \in StepT /\ Transpose(r).op = "transpose"
  BY DEF Do, Transpose, StepT, MIDI_LOW, MIDI_HIGH
<1>2. /\ s \in Seq(StepT) /\ Len(s) = 3 /\ s # <<>>
      /\ s[1].op = "lock" /\ s[2].op = "transpose" /\ s[3].op = "unlock"
  BY <1>1
<1> HIDE DEF s
<1>3. 1 .. 3 = {1, 2, 3} /\ 1 .. (3 - 1) = {1, 2}
  OBVIOUS
<1>4. Fresh(s) /\ \A op : Queued(s, op) <=> op \in {"lock", "transpose", "unlock"}
  BY <1>2, <1>3 DEF Fresh, Chain, Queued, Follows
<1> QED
  BY <1>4 DEF s

LEMMA FreshConcat ==
  ASSUME NEW s, NEW t, Fresh(s), Fresh(t), s[Len(s)].op = "unlock"
  PROVE  /\ Fresh(s \o t)
         /\ \A op : Queued(s \o t, op) <=> Queued(s, op) \/ Queued(t, op)
<1>1. <<s[Len(s)].op, t[1].op>> \in Follows
  BY DEF Fresh, Follows
<1>2. /\ Chain(s \o t) /\ s \o t # <<>> /\ Head(s \o t) = s[1]
      /\ s \o t \in Seq(StepT)
  BY <1>1, ChainConcat DEF Fresh
<1>3. Head(s \o t) = (s \o t)[1]
  BY <1>2, EmptySeq
<1>4. \A op : Queued(s \o t, op) <=> Queued(s, op) \/ Queued(t, op)
  BY QueuedConcat DEF Fresh
<1> QED
  BY <1>2, <1>3, <1>4 DEF Fresh

LEMMA FreshRestart ==
  /\ Fresh(ResetArpeggiator \o <<Do("start")>>)
  /\ \A op : Queued(ResetArpeggiator \o <<Do("start")>>, op)
               <=> op \in {"lock", "stop", "rewind", "unlock", "start"}
BY FreshReset, FreshStart, FreshConcat

\* a key: the notes, a reset unless the arpeggio plays, the start
LEMMA FreshKey ==
  /\ Fresh(SetArpeggioNotes \o AutoStart)
  /\ Queued(SetArpeggioNotes \o AutoStart, "measure")
  /\ ~Queued(SetArpeggioNotes \o AutoStart, "transpose")
<1>1. CASE arpRunning
  <2>1. AutoStart = <<Do("start")>>
    <3>1. <<Do("start")>> \in Seq(StepT)
      BY FreshStart DEF Fresh
    <3>2. <<>> \o <<Do("start")>> = <<Do("start")>>
      BY <3>1, ConcatEmptySeq
    <3> QED
      BY <1>1, <3>2 DEF AutoStart
  <2> QED
    BY <2>1, FreshSet, FreshStart, FreshConcat
<1>2. CASE ~arpRunning
  <2>1. AutoStart = ResetArpeggiator \o <<Do("start")>>
    BY <1>2 DEF AutoStart
  <2> QED
    BY <2>1, FreshSet, FreshRestart, FreshConcat
<1> QED
  BY <1>1, <1>2

\* No step is due at a queue that is empty, and only a lock or a start at a
\* fresh one.
LEMMA EmptyQueue ==
  /\ Chain(<<>>) /\ \A op : ~Queued(<<>>, op)
  /\ <<>> \in Seq(StepT)
BY DEF Chain, Queued

LEMMA HeadOfFresh ==
  ASSUME NEW s, Fresh(s)
  PROVE  s # <<>> /\ Head(s).op \in {"lock", "start"} /\ Chain(s) /\ s \in Seq(StepT)
<1>1. Head(s) = s[1]
  BY EmptySeq DEF Fresh
<1> QED
  BY <1>1 DEF Fresh
-----------------------------------------------------------------------------
(* Types *)

LEMMA Numbers ==
  /\ MAX_NOTES \in Nat \ {0} /\ ARP_MAX_NOTES \in 1 .. 255 /\ 0 \in Slot /\ Slot \subseteq 0 .. 254
  /\ ARP_TYPE_MIDI \in Nat \ {0} /\ UNSET \notin Voice /\ UNSET \notin Nat
  /\ Key \subseteq MIDI_LOW .. MIDI_HIGH /\ 0 \notin Key /\ Key \subseteq Byte
  /\ Root \subseteq MIDI_LOW .. MIDI_HIGH
  /\ PPQ \in Nat /\ PPQ \div 4 \in 3 .. PPQ /\ PPQ \div 8 \in 1 .. (PPQ \div 4 - 1)
<1>1. ARP_TYPE_MIDI \in Nat \ {0}
  BY ArpeggiatorAssumption, EmptySeq DEF ARP_TYPE_MIDI
<1>2. PPQ \in Nat /\ PPQ \div 4 \in 3 .. PPQ /\ PPQ \div 8 \in 1 .. (PPQ \div 4 - 1)
  BY ArpeggiatorAssumption
<1> QED
  BY <1>1, <1>2, ArpeggiatorAssumption DEF UNSET, Voice, Slot, MIDI_LOW, MIDI_HIGH, Byte

LEMMA StartPulses ==
  ASSUME NEW d \in 0 .. ARP_TIME_DIVISION_MAX
  PROVE  PPQ \div 2 ^ d \in 3 .. PPQ
BY ArpeggiatorAssumption

LEMMA ChordLengths ==
  ASSUME NEW type \in 0 .. (ARP_TYPE_MIDI - 1)
  PROVE  /\ ChordLength(type) \in 1 .. ARP_MAX_NOTES
         /\ \A i \in 1 .. ChordLength(type) : ChordIntervals[type + 1][i] \in 0 .. 12
<1>1. ARP_TYPE_MIDI \in Nat /\ ARP_TYPE_MIDI = Len(ChordIntervals)
  BY Numbers DEF ARP_TYPE_MIDI
<1>2. type + 1 \in DOMAIN ChordIntervals
  BY <1>1, ArpeggiatorAssumption
<1>3. ChordIntervals[type + 1] \in Seq(0 .. 12)
  BY <1>2, ArpeggiatorAssumption
<1> QED
  BY <1>2, <1>3, ArpeggiatorAssumption DEF ChordLength

LEMMA ChordNotesInside ==
  ASSUME NEW old \in [Slot -> Byte], NEW root \in MIDI_LOW .. MIDI_HIGH,
         NEW type \in 0 .. (ARP_TYPE_MIDI - 1)
  PROVE  ChordNotes(old, root, type) \in [Slot -> Byte]
<1> SUFFICES ASSUME NEW i \in Slot
             PROVE  (IF i < ChordLength(type)
                     THEN root + ChordIntervals[type + 1][i + 1] ELSE old[i]) \in Byte
  BY DEF ChordNotes
<1>1. CASE i < ChordLength(type)
  <2>1. i + 1 \in 1 .. ChordLength(type)
    BY <1>1, Numbers, ChordLengths
  <2>2. ChordIntervals[type + 1][i + 1] \in 0 .. 12
    BY <2>1, ChordLengths
  <2> QED
    BY <1>1, <2>2 DEF MIDI_LOW, MIDI_HIGH, Byte
<1>2. CASE ~(i < ChordLength(type))
  BY <1>2
<1> QED
  BY <1>1, <1>2

LEMMA SlotsFinite ==
  /\ IsFiniteSet(Slot) /\ Cardinality(Slot) = ARP_MAX_NOTES
  /\ \A S \in SUBSET Slot : IsFiniteSet(S) /\ Cardinality(S) \in 0 .. ARP_MAX_NOTES
<1>1. IsFiniteSet(Slot) /\ Cardinality(Slot) = ARP_MAX_NOTES
  BY FS_Interval, Numbers DEF Slot
<1>2. ASSUME NEW S \in SUBSET Slot
      PROVE  IsFiniteSet(S) /\ Cardinality(S) \in 0 .. ARP_MAX_NOTES
  <2>1. IsFiniteSet(S) /\ Cardinality(S) <= Cardinality(Slot)
    BY <1>1, FS_Subset
  <2>2. Cardinality(S) \in Nat
    BY <2>1, FS_CardinalityType
  <2> QED
    BY <1>1, <2>1, <2>2, Numbers
<1> QED
  BY <1>1, <1>2

LEMMA FilledCounted ==
  Filled \subseteq Slot /\ IsFiniteSet(Filled) /\ Cardinality(Filled) \in 0 .. ARP_MAX_NOTES
BY SlotsFinite DEF Filled

LEMMA SortedKeysInside ==
  ASSUME TypeOK
  PROVE  SortedKeys \in [Slot -> Byte]
<1> SUFFICES ASSUME NEW n \in Slot
             PROVE  (IF \E i \in Filled : Rank(i) = n
                     THEN midiArpeggioNotes[CHOOSE i \in Filled : Rank(i) = n]
                     ELSE arpeggio[n]) \in Byte
  BY DEF SortedKeys
<1>1. CASE \E i \in Filled : Rank(i) = n
  <2> DEFINE c == CHOOSE i \in Filled : Rank(i) = n
  <2>1. c \in Filled
    BY <1>1
  <2>2. c \in Slot
    BY <2>1, FilledCounted
  <2> HIDE DEF c
  <2>3. midiArpeggioNotes[c] \in {0} \cup Key /\ {0} \cup Key \subseteq Byte
    BY <2>2, Numbers DEF TypeOK, Byte
  <2>4. midiArpeggioNotes[c] \in Byte
    BY <2>3
  <2> QED
    BY <1>1, <2>4 DEF c
<1>2. CASE ~\E i \in Filled : Rank(i) = n
  BY <1>2 DEF TypeOK
<1> QED
  BY <1>1, <1>2

LEMMA ReleasedTyped ==
  ASSUME NEW voices \in [Voice -> VoiceUse], NEW v \in {UNSET} \cup Voice
  PROVE  Released(voices, v) \in [Voice -> VoiceUse]
BY DEF Released, VoiceUse

LEMMA ChoicesInside ==
  ASSUME NEW voices
  PROVE  Choices(voices) \subseteq Voice
BY DEF Choices

LEMMA NextPositionInside ==
  ASSUME TypeOK, NextPosition, arpLength > 0
  PROVE  arpPosition' \in Slot /\ arpDirection' \in {1, -1}
<1>1. /\ arpLength \in 1 .. ARP_MAX_NOTES /\ arpPosition \in 0 .. (ARP_MAX_NOTES - 1)
      /\ ARP_MAX_NOTES \in Nat /\ arpPattern \in Pattern /\ arpDirection \in {1, -1}
      /\ Slot = 0 .. (ARP_MAX_NOTES - 1)
  BY Numbers DEF TypeOK, Slot
<1>2. CASE arpPattern = "random"
  BY <1>1, <1>2 DEF NextPosition
<1>3. CASE arpPattern = "up"
  BY <1>1, <1>3 DEF NextPosition
<1>4. CASE arpPattern = "down"
  BY <1>1, <1>4 DEF NextPosition
<1>5. CASE arpPattern = "updown" /\ arpDirection = 1
  BY <1>1, <1>5 DEF NextPosition
<1>6. CASE arpPattern = "updown" /\ arpDirection = -1
  BY <1>1, <1>6 DEF NextPosition
<1> QED
  BY <1>1, <1>2, <1>3, <1>4, <1>5, <1>6 DEF Pattern

LEMMA TypeInit == Init => TypeOK
<1> SUFFICES ASSUME Init PROVE TypeOK
  OBVIOUS
<1>1. 0 \in 0 .. (ARP_TYPE_MIDI - 1) /\ 60 \in MIDI_LOW .. MIDI_HIGH
  BY Numbers DEF MIDI_LOW, MIDI_HIGH
<1>2. arpLength \in 0 .. ARP_MAX_NOTES
  BY <1>1, ChordLengths, Numbers DEF Init
<1>3. arpeggio \in [Slot -> Byte]
  <2>1. [i \in Slot |-> 0] \in [Slot -> Byte]
    BY DEF Byte
  <2> QED
    BY <1>1, <2>1, ChordNotesInside DEF Init
<1>4. /\ arpTimeDivision \in 0 .. ARP_TIME_DIVISION_MAX
      /\ arpNoteStartPulse \in 1 .. PPQ /\ arpNoteLength \in 1 .. (PPQ - 1)
  BY Numbers, ArpeggiatorAssumption DEF Init
<1>5. todo \in Seq(StepT)
  BY EmptyQueue DEF Init
<1>6. /\ arpNoteIndex \in {UNSET} \cup Voice /\ voice \in [Voice -> VoiceUse]
      /\ arpPosition \in Slot /\ arpType \in 0 .. ARP_TYPE_MIDI
      /\ arpPattern \in Pattern /\ arpRootNote \in MIDI_LOW .. MIDI_HIGH
  BY <1>1, Numbers DEF Init, VoiceUse, Pattern
<1>7. /\ midiArpeggioNotes \in [Slot -> {0} \cup Key]
      /\ midiArpeggioNoteTime \in [Slot -> Nat]
      /\ pressed \in [Key -> {UNSET} \cup Nat] /\ latched \in [Key -> {UNSET} \cup Nat]
  BY DEF Init, NoKeys
<1> QED
  BY <1>2, <1>3, <1>4, <1>5, <1>6, <1>7 DEF TypeOK, Init

\* one pulse, its cases apart
LEMMA PulseTyped ==
  ASSUME TypeOK, Pulse
  PROVE  TypeOK'
<1> DEFINE voices  == IF ReleaseDue THEN Released(voice, arpNoteIndex) ELSE voice
           current == IF ReleaseDue THEN UNSET ELSE arpNoteIndex
<1>1. voices \in [Voice -> VoiceUse] /\ current \in {UNSET} \cup Voice
  BY ReleasedTyped DEF TypeOK
<1>2. /\ IF StartDue THEN StartNote(voices, current)
         ELSE /\ voice' = voices /\ arpNoteIndex' = current
              /\ UNCHANGED <<arpReleaseTime, arpPosition, arpDirection>>
      /\ pulseClock' = pulseClock + 1
      /\ UNCHANGED <<arpRunning, arpTimeDivision, arpNoteStartPulse, arpNoteLength,
                     arpeggio, arpLength, arpPattern, arpType, arpRootNote, slots,
                     thread, now, stray, ghosts>>
  BY DEF Pulse
<1> HIDE DEF voices, current
<1>3. /\ voice' \in [Voice -> VoiceUse] /\ arpNoteIndex' \in {UNSET} \cup Voice
      /\ arpReleaseTime' \in Nat /\ arpPosition' \in Slot /\ arpDirection' \in {1, -1}
  <2>1. CASE StartDue
    <3>1. StartNote(voices, current) /\ arpLength > 0
      BY <1>2, <2>1 DEF StartDue
    <3>2. PICK v \in Choices(Released(voices, current)) :
            /\ voice' = [Released(voices, current) EXCEPT ![v] = "held"]
            /\ arpNoteIndex' = v
      BY <3>1 DEF StartNote
    <3>3. v \in Voice /\ Released(voices, current) \in [Voice -> VoiceUse]
      BY <1>1, ChoicesInside, ReleasedTyped
    <3>4. arpReleaseTime' \in Nat
      BY <3>1 DEF StartNote, TypeOK
    <3>5. arpPosition' \in Slot /\ arpDirection' \in {1, -1}
      BY <3>1, NextPositionInside DEF StartNote
    <3> QED
      BY <3>2, <3>3, <3>4, <3>5 DEF VoiceUse
  <2>2. CASE ~StartDue
    BY <1>1, <1>2, <2>2 DEF TypeOK
  <2> QED
    BY <2>1, <2>2
<1> QED
  BY <1>2, <1>3 DEF TypeOK, slots, thread, ghosts

LEMMA OtherStepsTyped ==
  ASSUME TypeOK
  PROVE  /\ Millis => TypeOK'
         /\ \A v \in Voice : VoiceEnds(v) => TypeOK'
<1>1. ASSUME Millis PROVE TypeOK'
  BY <1>1 DEF TypeOK, Millis, timing, playing, notes, panel, slots, thread, ghosts
<1>2. ASSUME NEW v \in Voice, VoiceEnds(v) PROVE TypeOK'
  <2>1. voice' \in [Voice -> VoiceUse]
    BY <1>2 DEF TypeOK, VoiceEnds, VoiceUse
  <2> QED
    BY <1>2, <2>1 DEF TypeOK, VoiceEnds, timing, notes, panel, slots, thread, ghosts
<1> QED
  BY <1>1, <1>2

LEMMA ByteWraps ==
  ASSUME NEW r \in MIDI_LOW .. MIDI_HIGH, NEW a \in Byte, NEW b \in Byte
  PROVE  (r + a - b) % 256 \in Byte
BY DEF Byte, MIDI_LOW, MIDI_HIGH

LEMMA ShortenedInside ==
  ASSUME NEW length \in 1 .. (PPQ - 1), NEW start \in 3 .. PPQ
  PROVE  (IF length >= start THEN start - 1 ELSE length) \in 1 .. (PPQ - 1)
BY Numbers

LEMMA StepTyped ==
  ASSUME TypeOK, Step
  PROVE  TypeOK'
<1> USE DEF TypeOK, timing, playing, notes, panel, slots, ghosts
<1>0. ASSUME NEW op, Doing(op) PROVE todo' \in Seq(StepT)
  BY <1>0, TakeOne
<1>1. CASE Lock
  BY <1>0, <1>1 DEF Lock
<1>2. CASE Unlock
  BY <1>0, <1>2 DEF Unlock
<1>3. CASE FillNotes
  <2>1. arpType # ARP_TYPE_MIDI => arpType \in 0 .. (ARP_TYPE_MIDI - 1)
    BY Numbers
  <2>2. arpeggio' \in [Slot -> Byte]
    BY <1>3, <2>1, SortedKeysInside, ChordNotesInside DEF FillNotes
  <2> QED
    BY <1>0, <1>3, <2>2 DEF FillNotes
<1>4. CASE MeasureNotes
  <2>1. CASE arpType = ARP_TYPE_MIDI
    <3>1. /\ arpLength' = Cardinality(Filled)
          /\ arpPosition' = Clamped(arpPosition, Cardinality(Filled))
      BY <1>4, <2>1 DEF MeasureNotes
    <3>2. Cardinality(Filled) \in 0 .. ARP_MAX_NOTES
      BY FilledCounted
    <3>3. arpPosition' \in Slot
      BY <3>1, <3>2, Numbers DEF Clamped, Slot
    <3> QED
      BY <1>0, <1>4, <2>1, <3>1, <3>2, <3>3 DEF MeasureNotes
  <2>2. CASE arpType # ARP_TYPE_MIDI
    <3>1. arpType \in 0 .. (ARP_TYPE_MIDI - 1)
      BY <2>2, Numbers
    <3>2. arpLength' \in 0 .. ARP_MAX_NOTES
      BY <1>4, <2>2, <3>1, ChordLengths, Numbers DEF MeasureNotes
    <3> QED
      BY <1>0, <1>4, <2>2, <3>2 DEF MeasureNotes
  <2> QED
    BY <2>1, <2>2
<1>5. CASE StopVoices
  BY <1>0, <1>5 DEF StopVoices, VoiceUse
<1>6. CASE Rewind
  <2>1. arpNoteStartPulse' \in 3 .. PPQ /\ PPQ \in Nat
    BY <1>6, StartPulses, Numbers DEF Rewind
  <2>2. arpNoteLength' \in 1 .. (PPQ - 1)
    <3>1. arpNoteLength \in 1 .. (PPQ - 1)
      OBVIOUS
    <3>2. arpNoteLength' = IF arpNoteLength >= arpNoteStartPulse'
                           THEN arpNoteStartPulse' - 1 ELSE arpNoteLength
      BY <1>6 DEF Rewind
    <3> QED
      BY <2>1, <3>1, <3>2, ShortenedInside
  <2> QED
    <3>1. todo' \in Seq(StepT) /\ arpNoteIndex' \in {UNSET} \cup Voice /\ arpPosition' \in Slot
          /\ pulseClock' \in Nat /\ arpReleaseTime' \in Nat /\ arpNoteStartPulse' \in 1 .. PPQ
      BY <1>0, <1>6, <2>1, Numbers DEF Rewind
    <3> QED
      BY <1>6, <2>2, <3>1 DEF Rewind
<1>7. CASE StartRunning
  BY <1>0, <1>7 DEF StartRunning
<1>8. CASE TransposeNotes
  <2> DEFINE root == Head(todo).root
  <2>1. root \in MIDI_LOW .. MIDI_HIGH
    <3>1. todo # <<>>
      BY <1>8 DEF TransposeNotes, Doing
    <3>2. Head(todo) \in StepT
      BY <3>1, HeadTailProperties
    <3> QED
      BY <3>2 DEF StepT
  <2>2. arpeggio' = [i \in Slot |-> IF i = 0 THEN root
                                    ELSE IF i < arpLength THEN Transposed(arpeggio[i], root)
                                    ELSE arpeggio[i]]
    BY <1>8 DEF TransposeNotes
  <2>3. todo' \in Seq(StepT)
    BY <1>0, <1>8 DEF TransposeNotes
  <2> HIDE DEF root
  <2>4. ASSUME NEW i \in Slot PROVE Transposed(arpeggio[i], root) \in Byte
    <3>1. arpeggio[i] \in Byte /\ arpeggio[0] \in Byte
      BY Numbers
    <3>2. (root + arpeggio[i] - arpeggio[0]) % 256 \in Byte
      BY <2>1, <3>1, ByteWraps
    <3> QED
      BY <3>2 DEF Transposed, Byte, MIDI_HIGH
  <2>5. root \in Byte
    BY <2>1 DEF Byte, MIDI_LOW, MIDI_HIGH
  <2>6. arpeggio' \in [Slot -> Byte]
    BY <2>2, <2>4, <2>5
  <2>7. stray' \in BOOLEAN /\ source' \in {"chord", "keys", "moved"}
    BY <1>8 DEF TransposeNotes
  <2> QED
    BY <1>8, <2>3, <2>6, <2>7 DEF TransposeNotes
<1> QED
  BY <1>1, <1>2, <1>3, <1>4, <1>5, <1>6, <1>7, <1>8 DEF Step

LEMMA WithoutTyped ==
  ASSUME TypeOK, NEW k \in Key
  PROVE  Without(k) \in [Slot -> {0} \cup Key] /\ TimesWithout(k) \in [Slot -> Nat]
BY DEF TypeOK, Without, TimesWithout

\* the first slot that is empty once the key has been taken out
FirstEmpty(k) ==
  CHOOSE i \in {j \in Slot : Without(k)[j] = 0} :
    \A j \in {l \in Slot : Without(k)[l] = 0} : i <= j

LEMMA LeastSlot ==
  ASSUME NEW S \in SUBSET Slot, S # {}
  PROVE  \E i \in S : \A j \in S : i <= j
<1>1. S \subseteq Nat
  BY Numbers
<1> DEFINE Less == {ss \in Nat \X Nat : ss[1] < ss[2]}
<1>2. IsWellFoundedOn(Less, Nat)
  BY NatLessThanWellFounded DEF OpToRel
<1>3. PICK i \in S : \A j \in S : ~(<<j, i>> \in Less)
  <2> HIDE DEF Less
  <2> QED
    BY <1>1, <1>2, WFMin
<1>4. ASSUME NEW j \in S PROVE i <= j
  <2>1. i \in Nat /\ j \in Nat
    BY <1>1, <1>3
  <2>2. j < i => <<j, i>> \in Less
    BY <2>1
  <2> QED
    BY <1>3, <2>1, <2>2
<1> QED
  BY <1>4

LEMMA FirstEmptyIsOne ==
  ASSUME NEW k, {j \in Slot : Without(k)[j] = 0} # {}
  PROVE  FirstEmpty(k) \in Slot /\ Without(k)[FirstEmpty(k)] = 0
<1> DEFINE E == {j \in Slot : Without(k)[j] = 0}
<1>1. E \subseteq Slot /\ E # {}
  OBVIOUS
<1>2. \E i \in E : \A j \in E : i <= j
  BY <1>1, LeastSlot
<1>3. FirstEmpty(k) \in E
  BY <1>2 DEF FirstEmpty
<1> QED
  BY <1>3

\* what the handler of a key leaves in the slots
NewSlots(k) == IF {j \in Slot : Without(k)[j] = 0} = {} THEN Without(k)
               ELSE [Without(k) EXCEPT ![FirstEmpty(k)] = k]
NewTimes(k) == IF {j \in Slot : Without(k)[j] = 0} = {} THEN TimesWithout(k)
               ELSE [TimesWithout(k) EXCEPT ![FirstEmpty(k)] = now]
NewPressed(k) == [pressed EXCEPT ![k] = IF Cardinality(Down(pressed) \ {k}) < ARP_MAX_NOTES
                                        THEN now ELSE UNSET]

LEMMA NoteOnSlots ==
  ASSUME NEW k \in Key, NoteOn(k)
  PROVE  IF arpType # ARP_TYPE_MIDI
         THEN arpRootNote' = k /\ UNCHANGED <<slots, pressed>>
         ELSE /\ midiArpeggioNotes' = NewSlots(k) /\ midiArpeggioNoteTime' = NewTimes(k)
              /\ pressed' = NewPressed(k) /\ UNCHANGED arpRootNote
BY DEF NoteOn, NewSlots, NewTimes, NewPressed, FirstEmpty

LEMMA NewSlotsTyped ==
  ASSUME TypeOK, NEW k \in Key
  PROVE  /\ NewSlots(k) \in [Slot -> {0} \cup Key] /\ NewTimes(k) \in [Slot -> Nat]
         /\ NewPressed(k) \in [Key -> {UNSET} \cup Nat]
<1>1. Without(k) \in [Slot -> {0} \cup Key] /\ TimesWithout(k) \in [Slot -> Nat]
  BY WithoutTyped
<1>2. now \in Nat /\ pressed \in [Key -> {UNSET} \cup Nat]
  BY DEF TypeOK
<1> QED
  BY <1>1, <1>2, FirstEmptyIsOne DEF NewSlots, NewTimes, NewPressed

LEMMA HandlerTyped ==
  ASSUME TypeOK, Handler
  PROVE  TypeOK'
<1> USE DEF timing, playing, notes, panel, slots, ghosts, thread
<1>0. ASSUME NEW s, Fresh(s) PROVE s \in Seq(StepT)
  BY <1>0 DEF Fresh
<1>1. ASSUME NEW k \in Key, NoteOn(k) PROVE TypeOK'
  <2>1. todo' \in Seq(StepT)
    BY <1>0, <1>1, FreshKey DEF NoteOn
  <2>2. CASE arpType # ARP_TYPE_MIDI
    <3>1. arpRootNote' \in MIDI_LOW .. MIDI_HIGH /\ UNCHANGED <<slots, pressed>>
      BY <1>1, <2>2, NoteOnSlots, Numbers
    <3> QED
      BY <1>1, <2>1, <3>1 DEF NoteOn, TypeOK
  <2>3. CASE arpType = ARP_TYPE_MIDI
    <3>1. /\ midiArpeggioNotes' \in [Slot -> {0} \cup Key]
          /\ midiArpeggioNoteTime' \in [Slot -> Nat]
          /\ pressed' \in [Key -> {UNSET} \cup Nat] /\ UNCHANGED arpRootNote
      BY <1>1, <2>3, NoteOnSlots, NewSlotsTyped
    <3> QED
      BY <1>1, <2>1, <3>1 DEF NoteOn, TypeOK
  <2> QED
    BY <2>2, <2>3
<1>2. ASSUME NEW k \in Key, NoteOff(k) PROVE TypeOK'
  <2>1. /\ midiArpeggioNotes' \in [Slot -> {0} \cup Key]
        /\ midiArpeggioNoteTime' \in [Slot -> Nat]
        /\ pressed' \in [Key -> {UNSET} \cup Nat]
    BY <1>2, WithoutTyped DEF NoteOff, TypeOK
  <2> QED
    BY <1>2, <2>1 DEF NoteOff, TypeOK
<1>3. CASE StartStop
  <2>1. todo' \in Seq(StepT)
    BY <1>0, <1>3, FreshReset, FreshRestart DEF StartStop
  <2> QED
    BY <1>3, <2>1 DEF StartStop, TypeOK
<1>4. CASE SelectPattern
  <2>1. arpPattern' \in Pattern
    BY <1>4 DEF SelectPattern, TypeOK, Pattern
  <2> QED
    BY <1>4, <2>1 DEF SelectPattern, TypeOK
<1>5. CASE SelectType
  <2>1. todo' \in Seq(StepT)
    BY <1>0, <1>5, FreshSet DEF SelectType
  <2>2. arpType' \in 0 .. ARP_TYPE_MIDI
    BY <1>5, Numbers DEF SelectType, TypeOK
  <2>3. /\ midiArpeggioNotes' \in [Slot -> {0} \cup Key]
        /\ midiArpeggioNoteTime' \in [Slot -> Nat]
        /\ pressed' \in [Key -> {UNSET} \cup Nat]
    BY <1>5 DEF SelectType, TypeOK, NoKeys
  <2> QED
    BY <1>5, <2>1, <2>2, <2>3 DEF SelectType, TypeOK
<1>6. CASE SelectTimeDivision
  <2>1. todo' \in Seq(StepT)
    BY <1>0, <1>6, FreshReset DEF SelectTimeDivision
  <2>2. arpTimeDivision' \in 0 .. ARP_TIME_DIVISION_MAX
    BY <1>6, ArpeggiatorAssumption DEF SelectTimeDivision, TypeOK
  <2> QED
    BY <1>6, <2>1, <2>2 DEF SelectTimeDivision, TypeOK
<1>7. ASSUME NEW r \in Root, TurnRoot(r) PROVE TypeOK'
  <2>1. r \in MIDI_LOW .. MIDI_HIGH
    BY Numbers
  <2>2. todo' \in Seq(StepT)
    BY <1>0, <1>7, <2>1, FreshSet, FreshTranspose, EmptyQueue DEF TurnRoot
  <2>3. arpRootNote' \in MIDI_LOW .. MIDI_HIGH
    BY <1>7, <2>1 DEF TurnRoot, TypeOK
  <2> QED
    BY <1>7, <2>2, <2>3 DEF TurnRoot, TypeOK
<1>8. CASE TurnLength
  <2>1. arpNoteLength' \in 1 .. (PPQ - 1)
    BY <1>8, Numbers DEF TurnLength, TypeOK
  <2> QED
    BY <1>8, <2>1 DEF TurnLength, TypeOK
<1>9. CASE Reset
  <2>1. /\ arpTimeDivision' \in 0 .. ARP_TIME_DIVISION_MAX
        /\ arpNoteStartPulse' \in 1 .. PPQ /\ arpNoteLength' \in 1 .. (PPQ - 1)
    BY <1>9, Numbers, ArpeggiatorAssumption DEF Reset, InitArpeggiator
  <2>2. 0 \in 0 .. (ARP_TYPE_MIDI - 1) /\ 60 \in MIDI_LOW .. MIDI_HIGH
    BY Numbers DEF MIDI_LOW, MIDI_HIGH
  <2>3. arpLength' \in 0 .. ARP_MAX_NOTES
    BY <1>9, <2>2, ChordLengths, Numbers DEF Reset, InitArpeggiator
  <2>4. arpeggio' \in [Slot -> Byte]
    BY <1>9, <2>2, ChordNotesInside DEF Reset, InitArpeggiator, TypeOK
  <2>5. /\ arpRunning' \in BOOLEAN /\ arpRootNote' \in MIDI_LOW .. MIDI_HIGH
        /\ arpNoteIndex' \in {UNSET} \cup Voice
        /\ arpPattern' \in Pattern /\ arpDirection' \in {1, -1}
        /\ voice' \in [Voice -> VoiceUse] /\ source' \in {"chord", "keys", "moved"}
    BY <1>9, <2>2 DEF Reset, InitArpeggiator, Pattern, VoiceUse
  <2>6. arpPosition' \in Slot /\ arpType' \in 0 .. ARP_TYPE_MIDI
    BY <1>9, Numbers DEF Reset, InitArpeggiator
  <2> QED
    BY <1>9, <2>1, <2>3, <2>4, <2>5, <2>6 DEF Reset, TypeOK
<1> QED
  BY <1>1, <1>2, <1>3, <1>4, <1>5, <1>6, <1>7, <1>8, <1>9 DEF Handler

LEMMA TypeStep == TypeOK /\ [Next]_vars => TypeOK'
<1> SUFFICES ASSUME TypeOK, [Next]_vars PROVE TypeOK'
  OBVIOUS
<1>1. CASE UNCHANGED vars
  BY <1>1 DEF vars, timing, playing, notes, panel, slots, thread, ghosts, TypeOK
<1> QED
  BY <1>1, HandlerTyped, StepTyped, PulseTyped, OtherStepsTyped DEF Next

\* For any number of voices and slots, any chords and divisions, every
\* variable keeps its type: every position lies in arpeggio[], every note
\* length is shorter than a quarter note.
THEOREM ArpeggiatorTypes == Spec => []TypeOK
BY TypeInit, TypeStep, PTL DEF Spec
-----------------------------------------------------------------------------
(* The queue and the lock *)

\* A handler begins with an empty queue and leaves in it what it may.
LEMMA HandlerQueue ==
  ASSUME Handler
  PROVE  todo = <<>> /\ (todo' = <<>> \/ Fresh(todo'))
<1>1. ASSUME NEW k \in Key, NoteOn(k) \/ NoteOff(k)
      PROVE  todo = <<>> /\ (todo' = <<>> \/ Fresh(todo'))
  BY <1>1, FreshKey DEF NoteOn, NoteOff, Begin, thread
<1>2. ASSUME NEW r \in Root, TurnRoot(r) PROVE todo = <<>> /\ (todo' = <<>> \/ Fresh(todo'))
  BY <1>2, Numbers, FreshSet, FreshTranspose DEF TurnRoot, Begin
<1>3. CASE StartStop \/ SelectType \/ SelectTimeDivision
  BY <1>3, FreshReset, FreshRestart, FreshSet
     DEF StartStop, SelectType, SelectTimeDivision, Begin
<1>4. CASE SelectPattern \/ TurnLength \/ Reset
  BY <1>4 DEF SelectPattern, TurnLength, Reset, Begin, thread
<1> QED
  BY <1>1, <1>2, <1>3, <1>4 DEF Handler

\* After a step the next one is one that may follow it.
LEMMA StepQueue ==
  ASSUME todo \in Seq(StepT), Chain(todo), NEW op, Doing(op), NEW ops, At(ops)'
  PROVE  \E next \in ops : <<op, next>> \in Follows
BY ChainStep DEF At

LEMMA ThreadInit == Init => ThreadInv
BY EmptyQueue DEF Init, ThreadInv, Locked, At

LEMMA ThreadStep == TypeOK /\ ThreadInv /\ [Next]_vars => ThreadInv'
<1> SUFFICES ASSUME TypeOK, ThreadInv, [Next]_vars PROVE ThreadInv'
  OBVIOUS
<1>0. todo \in Seq(StepT) /\ Chain(todo) /\ Locked
  BY DEF TypeOK, ThreadInv
<1>1. CASE Handler
  <2>1. todo' = <<>> \/ Fresh(todo')
    BY <1>1, HandlerQueue
  <2>2. CASE todo' = <<>>
    BY <2>2, EmptyQueue DEF ThreadInv, Locked, At
  <2>3. CASE Fresh(todo')
    BY <2>3, HeadOfFresh DEF ThreadInv, Locked, At
  <2> QED
    BY <2>1, <2>2, <2>3
<1>2. CASE Lock
  BY <1>0, <1>2, ChainStep DEF Lock, ThreadInv, Locked
<1>3. CASE Unlock
  <2>1. ~At({"fill", "measure", "unlock", "stop", "rewind", "transpose"})'
    BY <1>0, <1>3, StepQueue DEF Unlock, Follows
  <2> QED
    BY <1>0, <1>3, <2>1, ChainStep DEF Unlock, ThreadInv, Locked
<1>4. CASE StartRunning
  <2>1. ~At({"fill", "measure", "unlock", "stop", "rewind", "transpose"})'
    BY <1>0, <1>4, StepQueue DEF StartRunning, Follows
  <2> QED
    BY <1>0, <1>4, <2>1, ChainStep DEF StartRunning, ThreadInv, Locked
<1>5. CASE FillNotes \/ MeasureNotes \/ StopVoices \/ Rewind \/ TransposeNotes
  <2>1. PICK op \in {"fill", "measure", "stop", "rewind", "transpose"} : Doing(op)
    BY <1>5 DEF FillNotes, MeasureNotes, StopVoices, Rewind, TransposeNotes
  <2>2. ~arpRunning
    BY <1>0, <2>1 DEF Locked, At, Doing
  <2>3. ~arpRunning'
    BY <1>5, <2>2 DEF FillNotes, MeasureNotes, StopVoices, Rewind, TransposeNotes
  <2> QED
    BY <1>0, <2>1, <2>3, ChainStep DEF ThreadInv, Locked
<1>6. CASE Pulse \/ Millis \/ (\E v \in Voice : VoiceEnds(v)) \/ UNCHANGED vars
  <2>1. UNCHANGED <<todo, arpRunning>>
    BY <1>6 DEF Pulse, Millis, VoiceEnds, vars, thread
  <2> QED
    BY <1>0, <2>1 DEF ThreadInv, Locked, At
<1> QED
  BY <1>1, <1>2, <1>3, <1>4, <1>5, <1>6 DEF Next, Step
-----------------------------------------------------------------------------
(* The voice that is held *)

LEMMA HeldInit == Init => HeldInv
<1> SUFFICES ASSUME Init PROVE HeldInv
  OBVIOUS
<1>1. NothingHeld
  BY DEF Init, NothingHeld
<1> QED
  BY <1>1 DEF HeldInv, Attended, NothingHeld

\* What a step that leaves the lock and the playing voice alone may do.
LEMMA HeldKept ==
  ASSUME HeldInv, UNCHANGED <<arpRunning, oldArpRunning, todo, arpNoteIndex>>,
         \A v \in Voice : voice'[v] = "held" => voice[v] = "held"
  PROVE  HeldInv'
<1>1. NothingHeld => NothingHeld'
  BY DEF NothingHeld
<1>2. (\A ops : At(ops)' = At(ops)) /\ (\A op : Queued(todo', op) = Queued(todo, op))
  BY DEF At, Queued
<1> QED
  BY <1>1, <1>2 DEF HeldInv, Attended

LEMMA HeldPulse ==
  ASSUME TypeOK, ThreadInv, HeldInv, Pulse
  PROVE  HeldInv'
<1> DEFINE voices  == IF ReleaseDue THEN Released(voice, arpNoteIndex) ELSE voice
           current == IF ReleaseDue THEN UNSET ELSE arpNoteIndex
<1>1. /\ IF StartDue THEN StartNote(voices, current)
         ELSE voice' = voices /\ arpNoteIndex' = current
      /\ arpRunning /\ arpRunning' /\ todo' = todo
  BY DEF Pulse, thread
<1>2. /\ voices \in [Voice -> VoiceUse] /\ current \in {UNSET} \cup Voice
      /\ \A v \in Voice : voices[v] = "held" => v = current
  <2>1. voice \in [Voice -> VoiceUse] /\ arpNoteIndex \in {UNSET} \cup Voice
    BY DEF TypeOK
  <2>2. \A v \in Voice : voice[v] = "held" => v = arpNoteIndex
    BY DEF HeldInv
  <2>3. CASE ReleaseDue
    <3>1. voices \in [Voice -> VoiceUse]
      BY <2>1, ReleasedTyped
    <3>2. \A v \in Voice : Released(voice, arpNoteIndex)[v] # "held"
      BY <2>1, <2>2, Numbers DEF Released
    <3> QED
      BY <2>3, <3>1, <3>2
  <2>4. CASE ~ReleaseDue
    BY <2>1, <2>2, <2>4
  <2> QED
    BY <2>3, <2>4
<1> HIDE DEF voices, current
<1>3. \A v \in Voice : voice'[v] = "held" => v = arpNoteIndex'
  <2>1. CASE StartDue
    <3>1. PICK w \in Choices(Released(voices, current)) :
            /\ voice' = [Released(voices, current) EXCEPT ![w] = "held"]
            /\ arpNoteIndex' = w
      BY <1>1, <2>1 DEF StartNote
    <3>2. Released(voices, current) \in [Voice -> VoiceUse]
      BY <1>2, ReleasedTyped
    <3>3. \A v \in Voice : Released(voices, current)[v] # "held"
      BY <1>2, Numbers DEF Released
    <3> QED
      BY <3>1, <3>2, <3>3
  <2>2. CASE ~StartDue
    BY <1>1, <1>2, <2>2
  <2> QED
    BY <2>1, <2>2
<1>4. ~At({"rewind"})'
  <2>1. ~At({"rewind"})
    BY <1>1 DEF ThreadInv, Locked, At
  <2> QED
    BY <1>1, <2>1 DEF At
<1> QED
  BY <1>1, <1>3, <1>4 DEF HeldInv, Attended

LEMMA HeldHandler ==
  ASSUME TypeOK, HeldInv, Handler
  PROVE  HeldInv'
<1>0. todo = <<>> /\ (todo' = <<>> \/ Fresh(todo'))
  BY HandlerQueue
<1>1. ~At({"rewind"})'
  BY <1>0, HeadOfFresh DEF At
<1>2. NothingHeld \/ arpRunning
  BY <1>0, EmptyQueue DEF HeldInv, Attended, At
<1>3. CASE Reset
  <2>1. NothingHeld'
    BY <1>3 DEF Reset, NothingHeld
  <2> QED
    BY <1>1, <2>1 DEF HeldInv, Attended, NothingHeld
<1>4. CASE ~Reset
  <2>1. UNCHANGED <<voice, arpNoteIndex>>
    BY <1>4 DEF Handler, NoteOn, NoteOff, StartStop, SelectPattern, SelectType,
                SelectTimeDivision, TurnRoot, TurnLength, playing
  <2>2. NothingHeld' \/ arpRunning' \/ Queued(todo', "stop")
    <3>1. CASE StartStop
      <4>1. Queued(todo', "stop")
        BY <3>1, FreshReset, FreshRestart DEF StartStop
      <4> QED
        BY <4>1
    <3>2. CASE ~StartStop
      <4>1. UNCHANGED arpRunning
        BY <1>4, <3>2 DEF Handler, NoteOn, NoteOff, SelectPattern, SelectType,
                          SelectTimeDivision, TurnRoot, TurnLength
      <4> QED
        BY <1>2, <2>1, <4>1 DEF NothingHeld
    <3> QED
      BY <3>1, <3>2
  <2> QED
    BY <1>1, <2>1, <2>2 DEF HeldInv, Attended
<1> QED
  BY <1>3, <1>4

LEMMA HeldStep ==
  ASSUME TypeOK, ThreadInv, HeldInv, Step
  PROVE  HeldInv'
<1>0. todo \in Seq(StepT) /\ Chain(todo) /\ Locked
  BY DEF TypeOK, ThreadInv
<1>1. \A v \in Voice : voice[v] = "held" => v = arpNoteIndex
  BY DEF HeldInv
<1>2. CASE Lock
  <2>1. /\ Doing("lock") /\ UNCHANGED <<voice, arpNoteIndex>> /\ oldArpRunning' = arpRunning
    BY <1>2 DEF Lock, playing
  <2>2. ~At({"rewind"})'
    BY <1>0, <2>1, StepQueue DEF Follows
  <2>3. At({"fill", "stop", "transpose"})'
    BY <1>0, <2>1, ChainStep DEF At, Follows
  <2>4. NothingHeld \/ arpRunning \/ Queued(todo, "stop")
    BY <2>1 DEF HeldInv, Attended, At, Doing
  <2>5. Queued(todo, "stop") => Queued(todo', "stop")
    BY <1>0, <2>1, QueuedStep
  <2>6. At({"stop"})' => Queued(todo', "stop")
    <3> SUFFICES ASSUME At({"stop"})' PROVE Queued(todo', "stop")
      OBVIOUS
    <3>1. Len(todo') \in Nat \ {0} /\ todo'[1].op = "stop"
      BY <1>0, <2>1, TakeOne DEF At
    <3> QED
      BY <3>1 DEF Queued
  <2>7. At({"stop"})' \/ At({"fill", "measure", "unlock", "transpose"})'
    BY <2>3 DEF At
  <2> QED
    BY <1>1, <2>1, <2>2, <2>4, <2>5, <2>6, <2>7 DEF HeldInv, Attended, NothingHeld
<1>3. CASE Unlock
  <2>1. Doing("unlock") /\ UNCHANGED <<voice, arpNoteIndex>> /\ arpRunning' = oldArpRunning
    BY <1>3 DEF Unlock, playing
  <2>2. ~At({"rewind"})'
    BY <1>0, <2>1, StepQueue DEF Follows
  <2>3. NothingHeld \/ oldArpRunning \/ Queued(todo, "stop")
    BY <1>0, <2>1 DEF HeldInv, Attended, At, Doing, Locked
  <2>4. Queued(todo, "stop") => Queued(todo', "stop")
    BY <1>0, <2>1, QueuedStep
  <2> QED
    BY <1>1, <2>1, <2>2, <2>3, <2>4 DEF HeldInv, Attended, NothingHeld
<1>4. CASE FillNotes \/ MeasureNotes \/ TransposeNotes
  <2>1. PICK op \in {"fill", "measure", "transpose"} : Doing(op)
    BY <1>4 DEF FillNotes, MeasureNotes, TransposeNotes
  <2>2. UNCHANGED <<voice, arpNoteIndex, arpRunning, oldArpRunning>>
    BY <1>4 DEF FillNotes, MeasureNotes, TransposeNotes, playing
  <2>3. ~At({"rewind"})'
    BY <1>0, <2>1, StepQueue DEF Follows
  <2>4. At({"measure", "unlock"})'
    BY <1>0, <2>1, ChainStep DEF At, Follows
  <2>5. NothingHeld \/ oldArpRunning \/ Queued(todo, "stop")
    BY <1>0, <2>1 DEF HeldInv, Attended, At, Doing, Locked
  <2>6. Queued(todo, "stop") => Queued(todo', "stop")
    BY <1>0, <2>1, QueuedStep
  <2>7. At({"fill", "measure", "unlock", "transpose"})'
    BY <2>4 DEF At
  <2> QED
    BY <1>1, <2>2, <2>3, <2>5, <2>6, <2>7 DEF HeldInv, Attended, NothingHeld
<1>5. CASE StopVoices
  <2>1. NothingHeld'
    BY <1>5 DEF StopVoices, NothingHeld
  <2> QED
    BY <2>1 DEF HeldInv, Attended, NothingHeld
<1>6. CASE Rewind
  <2>1. NothingHeld
    BY <1>6 DEF Rewind, HeldInv, At, Doing
  <2>2. NothingHeld'
    BY <1>6, <2>1 DEF Rewind, NothingHeld
  <2> QED
    BY <2>2 DEF HeldInv, Attended, NothingHeld
<1>7. CASE StartRunning
  <2>1. Doing("start") /\ UNCHANGED <<voice, arpNoteIndex>> /\ arpRunning'
    BY <1>7 DEF StartRunning, playing
  <2>2. ~At({"rewind"})'
    BY <1>0, <2>1, StepQueue DEF Follows
  <2> QED
    BY <1>1, <2>1, <2>2 DEF HeldInv, Attended
<1> QED
  BY <1>2, <1>3, <1>4, <1>5, <1>6, <1>7 DEF Step

LEMMA HeldNext == TypeOK /\ ThreadInv /\ HeldInv /\ [Next]_vars => HeldInv'
<1> SUFFICES ASSUME TypeOK, ThreadInv, HeldInv, [Next]_vars PROVE HeldInv'
  OBVIOUS
<1>1. CASE Millis \/ UNCHANGED vars
  BY <1>1, HeldKept DEF Millis, vars, playing, thread
<1>2. ASSUME NEW v \in Voice, VoiceEnds(v) PROVE HeldInv'
  BY <1>2, HeldKept DEF VoiceEnds, thread, TypeOK
<1> QED
  BY <1>1, <1>2, HeldHandler, HeldStep, HeldPulse DEF Next

LEMMA NothingHangs == HeldInv => NoHangingNotes
BY EmptyQueue DEF HeldInv, Attended, NoHangingNotes, NothingHeld, At

\* However the player stops, restarts and edits the arpeggio, and wherever the
\* ISR runs in between: the voice that is held is the one the arpeggiator will
\* release, and none is held once it has been stopped.
THEOREM NoArpeggioNoteHangs == Spec => []NoHangingNotes
<1>1. Init => ThreadInv /\ HeldInv
  BY ThreadInit, HeldInit
<1>2. TypeOK /\ ThreadInv /\ HeldInv /\ [Next]_vars => ThreadInv' /\ HeldInv'
  BY ThreadStep, HeldNext
<1> QED
  BY <1>1, <1>2, ArpeggiatorTypes, NothingHangs, PTL DEF Spec
-----------------------------------------------------------------------------
(* The pulse at which a note is released *)

LEMMA MultipleRemainder ==
  ASSUME NEW p \in Nat \ {0}, NEW k \in Nat
  PROVE  (p * k) % p = 0
<1> DEFINE q == (p * k) \div p
           r == (p * k) % p
           d == k - q
<1>1. p * k \in Nat
  OBVIOUS
<1>2. q \in Int /\ r \in 0 .. (p - 1) /\ p * k = p * q + r
  BY <1>1
<1> HIDE DEF q, r
<1>3. d \in Int /\ p * d = r
  BY <1>2
<1> HIDE DEF d
<1>4. d >= 1 => p * d >= p
  BY <1>3
<1>5. d <= -1 => p * d <= -p
  BY <1>3
<1>6. d = 0
  BY <1>2, <1>3, <1>4, <1>5
<1> QED
  BY <1>2, <1>3, <1>6 DEF r

LEMMA NextRemainder ==
  ASSUME NEW n \in Nat, NEW p \in Nat \ {0}
  PROVE  (n + 1) % p = IF n % p = p - 1 THEN 0 ELSE (n % p) + 1
<1> DEFINE q == n \div p
           r == n % p
<1>1. q \in Nat /\ r \in 0 .. (p - 1) /\ n = p * q + r
  OBVIOUS
<1> HIDE DEF q, r
<1>2. CASE r = p - 1
  <2>1. n + 1 = p * (q + 1) /\ q + 1 \in Nat
    BY <1>1, <1>2
  <2>2. (n + 1) % p = 0
    BY <2>1, MultipleRemainder
  <2> QED
    BY <1>2, <2>2 DEF r
<1>3. CASE r # p - 1
  <2>1. n + 1 = p * q + (r + 1) /\ r + 1 \in 0 .. (p - 1)
    BY <1>1, <1>3
  <2> QED
    BY <1>1, <1>3, <2>1 DEF r
<1> QED
  BY <1>2, <1>3

LEMMA TimingInit == Init => TimingInv
BY Numbers DEF Init, TimingInv

\* A note that sounds is past the pulse that started it and not past its
\* release, which falls before the next such pulse.
LEMMA TimingPulse ==
  ASSUME TypeOK, TimingInv, Pulse
  PROVE  TimingInv'
<1> DEFINE into == pulseClock % arpNoteStartPulse
           voices  == IF ReleaseDue THEN Released(voice, arpNoteIndex) ELSE voice
           current == IF ReleaseDue THEN UNSET ELSE arpNoteIndex
<1>1. /\ IF StartDue THEN StartNote(voices, current)
         ELSE arpNoteIndex' = current /\ arpReleaseTime' = arpReleaseTime
      /\ pulseClock' = pulseClock + 1
      /\ UNCHANGED <<arpNoteStartPulse, arpNoteLength>>
  BY DEF Pulse
<1>2. /\ pulseClock \in Nat /\ arpReleaseTime \in Nat
      /\ arpNoteStartPulse \in Nat \ {0, 1, 2} /\ arpNoteLength \in 1 .. (arpNoteStartPulse - 1)
      /\ into \in 0 .. (arpNoteStartPulse - 1)
  BY Numbers DEF TypeOK, TimingInv
<1>3. (pulseClock + 1) % arpNoteStartPulse
        = IF into = arpNoteStartPulse - 1 THEN 0 ELSE into + 1
  BY <1>2, NextRemainder
<1> HIDE DEF into
<1>4. CASE StartDue
  <2>1. into = 0 /\ arpReleaseTime' = pulseClock + arpNoteLength
    BY <1>1, <1>4 DEF StartDue, StartNote, into
  <2>2. (pulseClock + 1) % arpNoteStartPulse = 1
    BY <1>2, <1>3, <2>1
  <2>3. ReleaseAhead'
    BY <1>1, <1>2, <2>1, <2>2 DEF ReleaseAhead
  <2> QED
    BY <1>1, <2>3 DEF TimingInv
<1>5. CASE ~StartDue
  <2> SUFFICES ASSUME arpNoteIndex' # UNSET PROVE ReleaseAhead'
    BY <1>1 DEF TimingInv
  <2>1. arpNoteIndex # UNSET /\ ~ReleaseDue /\ arpReleaseTime' = arpReleaseTime
    BY <1>1, <1>5
  <2>2. /\ into >= 1 /\ pulseClock <= arpReleaseTime
        /\ arpReleaseTime - pulseClock + into < arpNoteStartPulse
    BY <2>1 DEF TimingInv, ReleaseAhead, into
  <2>3. pulseClock < arpReleaseTime
    BY <1>2, <2>1, <2>2 DEF ReleaseDue
  <2>4. (pulseClock + 1) % arpNoteStartPulse = into + 1
    BY <1>2, <1>3, <2>2, <2>3
  <2> QED
    BY <1>1, <1>2, <2>1, <2>2, <2>3, <2>4 DEF ReleaseAhead
<1> QED
  BY <1>4, <1>5

LEMMA TimingNext == TypeOK /\ TimingInv /\ [Next]_vars => TimingInv'
<1> SUFFICES ASSUME TypeOK, TimingInv, [Next]_vars PROVE TimingInv'
  OBVIOUS
<1>1. ASSUME UNCHANGED <<pulseClock, arpReleaseTime, arpNoteStartPulse, arpNoteIndex>>,
             arpNoteLength' \in 1 .. (arpNoteStartPulse - 1)
      PROVE  TimingInv'
  BY <1>1 DEF TimingInv, ReleaseAhead
<1>2. ASSUME UNCHANGED <<pulseClock, arpReleaseTime, arpNoteStartPulse, arpNoteIndex,
                         arpNoteLength>>
      PROVE  TimingInv'
  BY <1>2 DEF TimingInv, ReleaseAhead
<1>3. CASE Rewind
  <2>1. arpNoteStartPulse' \in 3 .. PPQ /\ arpNoteIndex' = UNSET
    BY <1>3, StartPulses DEF Rewind, TypeOK
  <2>2. arpNoteLength \in Nat \ {0} /\ PPQ \in Nat
    BY Numbers DEF TypeOK
  <2>3. arpNoteLength' \in 1 .. (arpNoteStartPulse' - 1)
    BY <1>3, <2>1, <2>2 DEF Rewind
  <2> QED
    BY <2>1, <2>3 DEF TimingInv
<1>4. CASE Reset
  BY <1>4, Numbers DEF Reset, InitArpeggiator, TimingInv
<1>5. CASE TurnLength
  <2>1. arpNoteLength' \in 1 .. (arpNoteStartPulse - 1)
    BY <1>5, Numbers DEF TurnLength, TimingInv
  <2> QED
    BY <1>1, <1>5, <2>1 DEF TurnLength, playing
<1>6. CASE Handler /\ ~Reset /\ ~TurnLength
  BY <1>2, <1>6 DEF Handler, NoteOn, NoteOff, StartStop, SelectPattern, SelectType,
                    SelectTimeDivision, TurnRoot, timing, playing
<1>7. CASE Step /\ ~Rewind
  BY <1>2, <1>7 DEF Step, Lock, Unlock, FillNotes, MeasureNotes, StopVoices, StartRunning,
                    TransposeNotes, timing, playing
<1>8. CASE Millis \/ (\E v \in Voice : VoiceEnds(v)) \/ UNCHANGED vars
  BY <1>2, <1>8 DEF Millis, VoiceEnds, vars, timing, playing
<1> QED
  BY <1>3, <1>4, <1>5, <1>6, <1>7, <1>8, TimingPulse DEF Next

\* For any division and note length, changed at any moment: when the pulse
\* that starts the next note comes, the note before has been released, so the
\* branch "**** stuck!" of doArpeggiator() is never taken.
THEOREM ArpeggiatorNeverStuck == Spec => []NeverStuck
<1>1. TimingInv => NeverStuck
  BY DEF TimingInv, ReleaseAhead, NeverStuck, StartDue
<1> QED
  BY <1>1, TimingInit, TimingNext, ArpeggiatorTypes, PTL DEF Spec
-----------------------------------------------------------------------------
(* What the arpeggio is made of, and the position in it *)

LEMMA SourceInit == Init => SourceInv
BY EmptyQueue, Numbers DEF Init, SourceInv

LEMMA SourceHandler ==
  ASSUME TypeOK, SourceInv, Handler
  PROVE  SourceInv'
<1>0. todo = <<>> /\ (source = "chord" <=> arpType # ARP_TYPE_MIDI)
  BY HandlerQueue, EmptyQueue DEF SourceInv
<1>1. ASSUME NEW k \in Key, NoteOn(k) PROVE SourceInv'
  BY <1>1, FreshKey DEF NoteOn, SourceInv
<1>2. CASE SelectType \/ (\E r \in Root : TurnRoot(r) /\ arpType # ARP_TYPE_MIDI)
  <2>1. todo' = SetArpeggioNotes
    BY <1>2 DEF SelectType, TurnRoot
  <2>2. Queued(todo', "measure") /\ ~Queued(todo', "transpose")
    BY <2>1, FreshSet
  <2> QED
    BY <2>2 DEF SourceInv
<1>3. ASSUME NEW r \in Root, TurnRoot(r), arpType = ARP_TYPE_MIDI PROVE SourceInv'
  BY <1>0, <1>3 DEF TurnRoot, SourceInv, ghosts
<1>4. CASE StartStop \/ SelectTimeDivision
  <2>1. UNCHANGED <<source, arpType>>
    BY <1>4 DEF StartStop, SelectTimeDivision, panel, ghosts
  <2>2. todo' \in {ResetArpeggiator, ResetArpeggiator \o <<Do("start")>>}
    BY <1>4 DEF StartStop, SelectTimeDivision
  <2>3. ~Queued(ResetArpeggiator, "transpose")
    BY FreshReset
  <2>4. ~Queued(ResetArpeggiator \o <<Do("start")>>, "transpose")
    BY FreshRestart
  <2>5. ~Queued(todo', "transpose")
    BY <2>2, <2>3, <2>4
  <2> QED
    BY <1>0, <2>1, <2>5 DEF SourceInv
<1>5. CASE SelectPattern \/ TurnLength \/ \E k \in Key : NoteOff(k)
  <2>1. UNCHANGED <<source, arpType, todo>>
    BY <1>5 DEF SelectPattern, TurnLength, NoteOff, panel, ghosts, thread
  <2> QED
    BY <1>0, <2>1, EmptyQueue DEF SourceInv
<1>6. CASE Reset
  <2>1. source' = "chord" /\ arpType' # ARP_TYPE_MIDI /\ todo' = <<>>
    BY <1>0, <1>6, Numbers DEF Reset, InitArpeggiator, thread
  <2> QED
    BY <2>1, EmptyQueue DEF SourceInv
<1> QED
  BY <1>1, <1>2, <1>3, <1>4, <1>5, <1>6 DEF Handler

LEMMA SourceNext == TypeOK /\ ThreadInv /\ SourceInv /\ [Next]_vars => SourceInv'
<1> SUFFICES ASSUME TypeOK, ThreadInv, SourceInv, [Next]_vars PROVE SourceInv'
  OBVIOUS
<1>0. todo \in Seq(StepT) /\ Chain(todo)
  BY DEF TypeOK, ThreadInv
<1>1. CASE MeasureNotes
  <2>1. /\ source' = "chord" <=> arpType' # ARP_TYPE_MIDI
        /\ arpType' = arpType
    BY <1>1 DEF MeasureNotes, panel
  <2>2. Queued(todo', "transpose") => Queued(todo, "transpose")
    BY <1>0, <1>1, QueuedStep DEF MeasureNotes
  <2> QED
    BY <2>1, <2>2 DEF SourceInv
<1>2. CASE TransposeNotes
  <2>1. Queued(todo, "transpose")
    <3>1. Len(todo) \in Nat \ {0} /\ todo[1].op = "transpose"
      BY <1>0, <1>2, TakeOne DEF TransposeNotes
    <3> QED
      BY <3>1 DEF Queued
  <2>2. source' = "moved" /\ arpType' = ARP_TYPE_MIDI
    BY <1>2, <2>1 DEF TransposeNotes, SourceInv, panel
  <2> QED
    BY <2>2 DEF SourceInv
<1>3. CASE Step /\ ~MeasureNotes /\ ~TransposeNotes
  <2>1. PICK op : Doing(op) /\ op # "measure"
    BY <1>3 DEF Step, Lock, Unlock, FillNotes, StopVoices, Rewind, StartRunning
  <2>2. UNCHANGED <<source, arpType>>
    BY <1>3 DEF Step, Lock, Unlock, FillNotes, StopVoices, Rewind, StartRunning, panel, ghosts
  <2>3. Queued(todo', "transpose") => Queued(todo, "transpose")
    BY <1>0, <2>1, QueuedStep
  <2>4. Queued(todo, "measure") => Queued(todo', "measure")
    BY <1>0, <2>1, QueuedStep
  <2> QED
    BY <2>2, <2>3, <2>4 DEF SourceInv
<1>4. CASE Pulse \/ Millis \/ (\E v \in Voice : VoiceEnds(v)) \/ UNCHANGED vars
  <2>1. UNCHANGED <<source, arpType, todo>>
    BY <1>4 DEF Pulse, Millis, VoiceEnds, vars, panel, thread, ghosts
  <2> QED
    BY <2>1 DEF SourceInv, Queued
<1> QED
  BY <1>1, <1>2, <1>3, <1>4, SourceHandler DEF Next

LEMMA PositionInit == Init => PositionInv
BY DEF Init, PositionInv

LEMMA PositionPulse ==
  ASSUME TypeOK, PositionInv, Pulse
  PROVE  PositionInv'
<1>1. UNCHANGED <<source, arpLength>>
  BY DEF Pulse, ghosts
<1>2. arpLength \in Nat /\ arpPosition \in Nat /\ arpPattern \in Pattern /\ arpDirection \in {1, -1}
  BY Numbers DEF TypeOK, Slot
<1>3. CASE StartDue
  <2>1. arpLength > 0 /\ NextPosition
    BY <1>3 DEF Pulse, StartDue, StartNote
  <2> SUFFICES ASSUME arpPosition < arpLength PROVE arpPosition' < arpLength
    BY <1>1, <2>1 DEF PositionInv
  <2>2. CASE arpPattern = "random"
    BY <1>2, <2>1, <2>2 DEF NextPosition
  <2>3. CASE arpPattern = "up"
    BY <1>2, <2>1, <2>3 DEF NextPosition
  <2>4. CASE arpPattern = "down"
    BY <1>2, <2>1, <2>4 DEF NextPosition
  <2>5. CASE arpPattern = "updown" /\ arpDirection = 1
    BY <1>2, <2>1, <2>5 DEF NextPosition
  <2>6. CASE arpPattern = "updown" /\ arpDirection = -1
    BY <1>2, <2>1, <2>6 DEF NextPosition
  <2> QED
    BY <1>2, <2>2, <2>3, <2>4, <2>5, <2>6 DEF Pattern
<1>4. CASE ~StartDue
  <2>1. UNCHANGED arpPosition
    BY <1>4 DEF Pulse
  <2> QED
    BY <1>1, <2>1 DEF PositionInv
<1> QED
  BY <1>3, <1>4

LEMMA PositionNext ==
  TypeOK /\ ThreadInv /\ SourceInv /\ PositionInv /\ [Next]_vars => PositionInv'
<1> SUFFICES ASSUME TypeOK, ThreadInv, SourceInv, PositionInv, [Next]_vars
             PROVE  PositionInv'
  OBVIOUS
<1>1. CASE MeasureNotes
  <2>1. CASE arpType = ARP_TYPE_MIDI
    <3>1. /\ arpLength' = Cardinality(Filled)
          /\ arpPosition' = Clamped(arpPosition, Cardinality(Filled))
      BY <1>1, <2>1 DEF MeasureNotes
    <3>2. Cardinality(Filled) \in Nat /\ arpPosition \in Nat
      BY FilledCounted, Numbers DEF TypeOK, Slot
    <3> QED
      BY <3>1, <3>2 DEF Clamped, PositionInv
  <2>2. CASE arpType # ARP_TYPE_MIDI
    BY <1>1, <2>2 DEF MeasureNotes, PositionInv
  <2> QED
    BY <2>1, <2>2
<1>2. CASE TransposeNotes
  <2>1. source # "chord" /\ source \in {"chord", "keys", "moved"}
    <3>1. todo \in Seq(StepT) /\ Doing("transpose")
      BY <1>2 DEF TypeOK, TransposeNotes
    <3>2. Len(todo) \in Nat \ {0} /\ todo[1].op = "transpose"
      BY <3>1, TakeOne
    <3>3. Queued(todo, "transpose")
      BY <3>2 DEF Queued
    <3> QED
      BY <3>3 DEF SourceInv, TypeOK
  <2>2. UNCHANGED <<arpLength, arpPosition>>
    BY <1>2 DEF TransposeNotes
  <2> QED
    BY <2>1, <2>2 DEF PositionInv
<1>3. CASE Rewind
  BY <1>3 DEF Rewind, PositionInv, ghosts
<1>4. CASE Reset
  BY <1>4 DEF Reset, PositionInv
<1>5. CASE Step /\ ~MeasureNotes /\ ~TransposeNotes /\ ~Rewind
  <2>1. UNCHANGED <<source, arpLength, arpPosition>>
    BY <1>5 DEF Step, Lock, Unlock, FillNotes, StopVoices, StartRunning, notes, ghosts
  <2> QED
    BY <2>1 DEF PositionInv
<1>6. CASE Handler /\ ~Reset
  <2>1. UNCHANGED <<source, arpLength, arpPosition>>
    BY <1>6 DEF Handler, NoteOn, NoteOff, StartStop, SelectPattern, SelectType,
                SelectTimeDivision, TurnRoot, TurnLength, notes, ghosts
  <2> QED
    BY <2>1 DEF PositionInv
<1>7. CASE Millis \/ (\E v \in Voice : VoiceEnds(v)) \/ UNCHANGED vars
  <2>1. UNCHANGED <<source, arpLength, arpPosition>>
    BY <1>7 DEF Millis, VoiceEnds, vars, notes, ghosts
  <2> QED
    BY <2>1 DEF PositionInv
<1> QED
  BY <1>1, <1>2, <1>3, <1>4, <1>5, <1>6, <1>7, PositionPulse DEF Next

\* Keys may go, the arpeggio shrink and the pattern turn at any moment: while
\* the ISR plays the keys, arpPosition names one of them.
THEOREM PositionStaysAmongKeys == Spec => []PositionAmongKeys
<1>1. Init => ThreadInv /\ SourceInv /\ PositionInv
  BY ThreadInit, SourceInit, PositionInit
<1>2. TypeOK /\ ThreadInv /\ SourceInv /\ PositionInv /\ [Next]_vars
        => ThreadInv' /\ SourceInv' /\ PositionInv'
  BY ThreadStep, SourceNext, PositionNext
<1>3. PositionInv => PositionAmongKeys
  BY DEF PositionInv, PositionAmongKeys
<1> QED
  BY <1>1, <1>2, <1>3, ArpeggiatorTypes, PTL DEF Spec
-----------------------------------------------------------------------------
(* Slots and keys *)

SlotsT == [Slot -> {0} \cup Key]
TimesT == [Slot -> Nat]
DownT  == [Key -> {UNSET} \cup Nat]

LEMMA TakenCounted ==
  ASSUME NEW keys
  PROVE  /\ Taken(keys) \subseteq Slot /\ IsFiniteSet(Taken(keys))
         /\ Cardinality(Taken(keys)) \in 0 .. ARP_MAX_NOTES
BY SlotsFinite DEF Taken

\* As many keys are down as slots are taken.
LEMMA DownCounted ==
  ASSUME NEW keys \in SlotsT, NEW times \in TimesT, NEW down \in DownT,
         Hold(keys, times, down)
  PROVE  /\ IsFiniteSet(Down(down)) /\ Cardinality(Down(down)) = Cardinality(Taken(keys))
         /\ {keys[i] : i \in Taken(keys)} = Down(down)
<1> DEFINE S == Taken(keys)
           T == Down(down)
           f == [i \in S |-> keys[i]]
<1>1. ASSUME NEW i \in S PROVE keys[i] \in T
  <2>1. i \in Slot /\ keys[i] # 0
    BY DEF Taken
  <2>2. keys[i] \in Key /\ times[i] \in Nat
    BY <2>1 DEF SlotsT, TimesT
  <2>3. down[keys[i]] = times[i]
    BY DEF Hold
  <2> QED
    BY <2>2, <2>3, Numbers DEF Down
<1>2. \A k \in T : \E i \in S : keys[i] = k
  BY DEF Hold
<1>3. \A i, j \in S : keys[i] = keys[j] => i = j
  BY DEF Hold
<1> HIDE DEF S, T
<1>4. f \in [S -> T]
  BY <1>1
<1>5. f \in Bijection(S, T)
  BY <1>2, <1>3, <1>4 DEF Bijection, Injection, Surjection, IsInjective
<1>6. ExistsBijection(S, T)
  BY <1>5 DEF ExistsBijection
<1>7. IsFiniteSet(S)
  BY TakenCounted DEF S
<1>8. IsFiniteSet(T) /\ Cardinality(T) = Cardinality(S)
  BY <1>6, <1>7, FS_Bijection
<1>9. {keys[i] : i \in S} = T
  BY <1>1, <1>2
<1> QED
  BY <1>8, <1>9 DEF S, T

\* a key taken out of the slots, and its time
Removed(keys, k)         == [i \in Slot |-> IF keys[i] = k THEN 0 ELSE keys[i]]
TimesLeft(keys, times, k) == [i \in Slot |-> IF keys[i] = k THEN 0 ELSE times[i]]
Lifted(down, k)          == [down EXCEPT ![k] = UNSET]

LEMMA HoldWithout ==
  ASSUME NEW keys \in SlotsT, NEW times \in TimesT, NEW down \in DownT, NEW k \in Key,
         Hold(keys, times, down)
  PROVE  /\ Hold(Removed(keys, k), TimesLeft(keys, times, k), Lifted(down, k))
         /\ Removed(keys, k) \in SlotsT /\ TimesLeft(keys, times, k) \in TimesT
         /\ Lifted(down, k) \in DownT
         /\ Down(Lifted(down, k)) = Down(down) \ {k}
<1> DEFINE new  == Removed(keys, k)
           left == TimesLeft(keys, times, k)
           up   == Lifted(down, k)
<1>1. new \in SlotsT /\ left \in TimesT /\ up \in DownT
  BY DEF SlotsT, TimesT, DownT, Removed, TimesLeft, Lifted
<1>2. Down(up) = Down(down) \ {k}
  BY DEF Down, DownT, Lifted
<1>3. ASSUME NEW i \in Slot
      PROVE  /\ i \in Taken(new) <=> i \in Taken(keys) /\ keys[i] # k
             /\ i \in Taken(new) => new[i] = keys[i] /\ left[i] = times[i]
  BY DEF Removed, TimesLeft, Taken
<1>4. Taken(new) \subseteq Taken(keys) /\ Taken(new) \subseteq Slot /\ Taken(keys) \subseteq Slot
  BY <1>3 DEF Taken
<1> HIDE DEF new, left
<1>5. \A i, j \in Taken(new) : new[i] = new[j] => i = j
  BY <1>3, <1>4 DEF Hold
<1>6. ASSUME NEW i \in Taken(new) PROVE up[new[i]] = left[i]
  <2>1. i \in Slot /\ i \in Taken(keys) /\ keys[i] # k /\ new[i] = keys[i] /\ left[i] = times[i]
    BY <1>3, <1>4
  <2>2. keys[i] \in Key /\ down[keys[i]] = times[i]
    BY <2>1 DEF Taken, SlotsT, Hold
  <2> QED
    BY <2>1, <2>2 DEF DownT, Lifted
<1>7. ASSUME NEW j \in Down(up) PROVE \E i \in Taken(new) : new[i] = j
  <2>1. j \in Down(down) /\ j # k
    BY <1>2
  <2>2. PICK i \in Taken(keys) : keys[i] = j
    BY <2>1 DEF Hold
  <2> QED
    BY <1>3, <1>4, <2>1, <2>2
<1> QED
  BY <1>1, <1>2, <1>5, <1>6, <1>7 DEF Hold, new, left

LEMMA HoldWith ==
  ASSUME NEW keys \in SlotsT, NEW times \in TimesT, NEW down \in DownT, NEW k \in Key,
         Hold(keys, times, down), down[k] = UNSET,
         NEW e \in Slot, keys[e] = 0, NEW time \in Nat
  PROVE  Hold([keys EXCEPT ![e] = k], [times EXCEPT ![e] = time], [down EXCEPT ![k] = time])
<1> DEFINE new  == [keys EXCEPT ![e] = k]
           with == [times EXCEPT ![e] = time]
           dn   == [down EXCEPT ![k] = time]
<1>1. k # 0
  BY Numbers
<1>2. ASSUME NEW i \in Slot
      PROVE  /\ i \in Taken(new) <=> i \in Taken(keys) \/ i = e
             /\ i # e => new[i] = keys[i] /\ with[i] = times[i]
  BY <1>1 DEF Taken, SlotsT, TimesT
<1>3. new[e] = k /\ with[e] = time /\ e \notin Taken(keys)
  BY DEF SlotsT, TimesT, Taken
<1>4. Taken(new) \subseteq Slot /\ Taken(keys) \subseteq Slot
  BY DEF Taken
<1>5. ASSUME NEW i \in Taken(keys)
      PROVE  /\ i \in Slot /\ i # e /\ i \in Taken(new) /\ new[i] = keys[i] /\ with[i] = times[i]
             /\ keys[i] \in Key /\ down[keys[i]] = times[i] /\ keys[i] # k
  <2>1. i \in Slot /\ i # e /\ keys[i] # 0
    BY <1>3 DEF Taken
  <2>2. keys[i] \in Key /\ times[i] \in Nat
    BY <2>1 DEF SlotsT, TimesT
  <2>3. down[keys[i]] = times[i]
    BY DEF Hold
  <2> QED
    BY <1>2, <2>1, <2>2, <2>3, Numbers
<1>6. \A i \in Taken(new) : i = e \/ i \in Taken(keys)
  BY <1>2, <1>4
<1> HIDE DEF new, with
<1>7. \A i, j \in Taken(new) : new[i] = new[j] => i = j
  BY <1>3, <1>5, <1>6 DEF Hold
<1>8. \A i \in Taken(new) : dn[new[i]] = with[i]
  BY <1>3, <1>5, <1>6 DEF DownT
<1>9. ASSUME NEW j \in Down(dn) PROVE \E i \in Taken(new) : new[i] = j
  <2>1. CASE j = k
    BY <1>2, <1>3, <2>1
  <2>2. CASE j # k
    <3>1. j \in Down(down)
      BY <2>2 DEF Down, DownT
    <3>2. PICK i \in Taken(keys) : keys[i] = j
      BY <3>1 DEF Hold
    <3> QED
      BY <1>5, <3>2
  <2> QED
    BY <2>1, <2>2
<1> QED
  BY <1>7, <1>8, <1>9 DEF Hold, new, with

LEMMA SlotsInit == Init => SlotsInv
<1> SUFFICES ASSUME Init PROVE SlotsInv
  OBVIOUS
<1>1. Taken(midiArpeggioNotes) = {} /\ Down(pressed) = {}
  BY DEF Init, Taken, Down, NoKeys
<1> QED
  BY <1>1 DEF SlotsInv, Hold

\* A slot is empty exactly if a place is left for the key.
LEMMA PlaceLeft ==
  ASSUME NEW keys \in SlotsT, NEW n, n = Cardinality(Taken(keys))
  PROVE  n < ARP_MAX_NOTES <=> {j \in Slot : keys[j] = 0} # {}
<1>1. /\ Taken(keys) \subseteq Slot /\ n \in 0 .. ARP_MAX_NOTES
      /\ n = Cardinality(Slot) => Taken(keys) = Slot
  BY TakenCounted, SlotsFinite, FS_Subset
<1>2. (n = ARP_MAX_NOTES) = (Taken(keys) = Slot)
  BY <1>1, SlotsFinite
<1>3. n < ARP_MAX_NOTES <=> n # ARP_MAX_NOTES
  BY <1>1, Numbers
<1>4. Taken(keys) = Slot <=> {j \in Slot : keys[j] = 0} = {}
  BY DEF Taken
<1> QED
  BY <1>2, <1>3, <1>4

LEMMA SlotsNoteOn ==
  ASSUME TypeOK, SlotsInv, NEW k \in Key, NoteOn(k)
  PROVE  SlotsInv'
<1>0. /\ Hold(Removed(midiArpeggioNotes, k),
              TimesLeft(midiArpeggioNotes, midiArpeggioNoteTime, k),
              Lifted(pressed, k))
      /\ Removed(midiArpeggioNotes, k) \in SlotsT
      /\ TimesLeft(midiArpeggioNotes, midiArpeggioNoteTime, k) \in TimesT
      /\ Lifted(pressed, k) \in DownT
      /\ Down(Lifted(pressed, k)) = Down(pressed) \ {k}
  <2>1. /\ midiArpeggioNotes \in SlotsT /\ midiArpeggioNoteTime \in TimesT /\ pressed \in DownT
        /\ Hold(midiArpeggioNotes, midiArpeggioNoteTime, pressed)
    BY DEF TypeOK, SlotsT, TimesT, DownT, SlotsInv
  <2> QED
    BY <2>1, HoldWithout
<1>1. CASE arpType # ARP_TYPE_MIDI
  BY <1>1, NoteOnSlots DEF SlotsInv, slots, Hold, Taken, Down
<1>2. CASE arpType = ARP_TYPE_MIDI
  <2> DEFINE keys  == Without(k)
             times == TimesWithout(k)
             up    == Lifted(pressed, k)
             e     == FirstEmpty(k)
  <2>1. /\ midiArpeggioNotes \in SlotsT /\ midiArpeggioNoteTime \in TimesT /\ pressed \in DownT
        /\ now \in Nat
    BY DEF TypeOK, SlotsT, TimesT, DownT
  <2>2. /\ keys = Removed(midiArpeggioNotes, k)
        /\ times = TimesLeft(midiArpeggioNotes, midiArpeggioNoteTime, k)
    BY DEF Without, TimesWithout, Removed, TimesLeft
  <2>3. /\ Hold(keys, times, up) /\ keys \in SlotsT /\ times \in TimesT /\ up \in DownT
        /\ Down(up) = Down(pressed) \ {k}
    BY <1>0, <2>2
  <2>4. Cardinality(Down(pressed) \ {k}) = Cardinality(Taken(keys))
    BY <2>3, DownCounted
  <2>5. (Cardinality(Down(pressed) \ {k}) < ARP_MAX_NOTES) = ({j \in Slot : keys[j] = 0} # {})
    BY <2>3, <2>4, PlaceLeft
  <2>6. /\ midiArpeggioNotes' = NewSlots(k) /\ midiArpeggioNoteTime' = NewTimes(k)
        /\ pressed' = NewPressed(k)
    BY <1>2, NoteOnSlots
  <2>7. CASE {j \in Slot : keys[j] = 0} = {}
    <3>1. midiArpeggioNotes' = keys /\ midiArpeggioNoteTime' = times /\ pressed' = up
      BY <2>5, <2>6, <2>7 DEF NewSlots, NewTimes, NewPressed, Lifted
    <3> QED
      BY <2>3, <3>1 DEF SlotsInv
  <2>8. CASE {j \in Slot : keys[j] = 0} # {}
    <3>1. e \in Slot /\ keys[e] = 0
      BY <2>8, FirstEmptyIsOne
    <3>2. /\ midiArpeggioNotes' = [keys EXCEPT ![e] = k]
          /\ midiArpeggioNoteTime' = [times EXCEPT ![e] = now]
          /\ pressed' = [pressed EXCEPT ![k] = now]
      BY <2>5, <2>6, <2>8 DEF NewSlots, NewTimes, NewPressed, Lifted
    <3>3. up[k] = UNSET /\ [up EXCEPT ![k] = now] = [pressed EXCEPT ![k] = now]
      BY <2>1 DEF DownT, Lifted
    <3> HIDE DEF keys, times, up, e
    <3>4. Hold([keys EXCEPT ![e] = k], [times EXCEPT ![e] = now], [up EXCEPT ![k] = now])
      BY <2>1, <2>3, <3>1, <3>3, HoldWith
    <3> QED
      BY <3>2, <3>3, <3>4 DEF SlotsInv
  <2> QED
    BY <2>7, <2>8
<1> QED
  BY <1>1, <1>2

LEMMA SlotsNoteOff ==
  ASSUME TypeOK, SlotsInv, NEW k \in Key, NoteOff(k)
  PROVE  SlotsInv'
<1>1. /\ midiArpeggioNotes \in SlotsT /\ midiArpeggioNoteTime \in TimesT /\ pressed \in DownT
  BY DEF TypeOK, SlotsT, TimesT, DownT
<1>2. /\ midiArpeggioNotes' = Removed(midiArpeggioNotes, k)
      /\ midiArpeggioNoteTime' = TimesLeft(midiArpeggioNotes, midiArpeggioNoteTime, k)
      /\ pressed' = Lifted(pressed, k)
  BY DEF NoteOff, Without, TimesWithout, Removed, TimesLeft, Lifted
<1> QED
  BY <1>1, <1>2, HoldWithout DEF SlotsInv

LEMMA SlotsNext == TypeOK /\ SlotsInv /\ [Next]_vars => SlotsInv'
<1> SUFFICES ASSUME TypeOK, SlotsInv, [Next]_vars PROVE SlotsInv'
  OBVIOUS
<1>1. CASE SelectType
  <2>1. CASE UNCHANGED <<slots, pressed>>
    BY <2>1 DEF SlotsInv, slots
  <2>2. CASE ~UNCHANGED <<slots, pressed>>
    <3>1. midiArpeggioNotes' = [i \in Slot |-> 0] /\ pressed' = NoKeys
      BY <1>1, <2>2 DEF SelectType
    <3>2. Taken(midiArpeggioNotes') = {} /\ Down(pressed') = {}
      BY <3>1 DEF Taken, Down, NoKeys
    <3> QED
      BY <3>2 DEF SlotsInv, Hold
  <2> QED
    BY <2>1, <2>2
<1>2. CASE Handler /\ ~SelectType /\ ~\E k \in Key : NoteOn(k) \/ NoteOff(k)
  <2>1. UNCHANGED <<slots, pressed>>
    BY <1>2 DEF Handler, StartStop, SelectPattern, SelectTimeDivision, TurnRoot, TurnLength,
                Reset, ghosts
  <2> QED
    BY <2>1 DEF SlotsInv, slots
<1>3. CASE Step \/ Pulse \/ Millis \/ (\E v \in Voice : VoiceEnds(v)) \/ UNCHANGED vars
  <2>1. UNCHANGED <<slots, pressed>>
    BY <1>3 DEF Step, Lock, Unlock, FillNotes, MeasureNotes, StopVoices, Rewind, StartRunning,
                TransposeNotes, Pulse, Millis, VoiceEnds, vars, ghosts
  <2> QED
    BY <2>1 DEF SlotsInv, slots
<1> QED
  BY <1>1, <1>2, <1>3, SlotsNoteOn, SlotsNoteOff DEF Next
-----------------------------------------------------------------------------
(* The order of the keys *)

LEMMA EarlierOrders ==
  ASSUME TypeOK, NEW i \in Filled, NEW j \in Filled
  PROVE  /\ ~Earlier(i, i)
         /\ Earlier(i, j) => ~Earlier(j, i) /\ midiArpeggioNoteTime[i] <= midiArpeggioNoteTime[j]
         /\ i = j \/ Earlier(i, j) \/ Earlier(j, i)
         /\ \A l \in Filled : Earlier(l, i) /\ Earlier(i, j) => Earlier(l, j)
<1>1. \A l \in Filled : l \in Int /\ midiArpeggioNoteTime[l] \in Nat
  BY FilledCounted, Numbers DEF TypeOK
<1> QED
  BY <1>1 DEF Earlier

Before(i) == {j \in Filled : Earlier(j, i)}

LEMMA BeforeCounted ==
  ASSUME NEW i
  PROVE  IsFiniteSet(Before(i)) /\ Rank(i) = Cardinality(Before(i)) /\ Rank(i) \in Nat
<1>1. Before(i) \in SUBSET Slot /\ Rank(i) = Cardinality(Before(i))
  BY FilledCounted DEF Before, Rank
<1> QED
  BY <1>1, SlotsFinite

LEMMA RankRises ==
  ASSUME TypeOK, NEW i \in Filled, NEW j \in Filled, Earlier(i, j)
  PROVE  Rank(i) < Rank(j)
<1>1. Before(i) \cup {i} \subseteq Before(j) /\ i \notin Before(i)
  BY EarlierOrders DEF Before
<1>2. Cardinality(Before(i) \cup {i}) = Cardinality(Before(i)) + 1
  BY <1>1, BeforeCounted, FS_AddElement
<1>3. Cardinality(Before(i) \cup {i}) <= Cardinality(Before(j))
  BY <1>1, BeforeCounted, FS_Subset
<1> QED
  BY <1>2, <1>3, BeforeCounted

LEMMA RankInside ==
  ASSUME TypeOK, NEW i \in Filled
  PROVE  Rank(i) \in 0 .. (Cardinality(Filled) - 1)
<1>1. Before(i) \cup {i} \subseteq Filled /\ i \notin Before(i)
  BY EarlierOrders DEF Before
<1>2. Cardinality(Before(i) \cup {i}) = Cardinality(Before(i)) + 1
  BY <1>1, BeforeCounted, FS_AddElement
<1>3. Cardinality(Before(i) \cup {i}) <= Cardinality(Filled)
  BY <1>1, FilledCounted, FS_Subset
<1> QED
  BY <1>2, <1>3, BeforeCounted, FilledCounted

LEMMA RankApart ==
  ASSUME TypeOK, NEW i \in Filled, NEW j \in Filled, Rank(i) = Rank(j)
  PROVE  i = j
<1>1. Rank(i) \in Nat /\ Rank(j) \in Nat
  BY BeforeCounted
<1> QED
  BY <1>1, EarlierOrders, RankRises

\* Every place up to the number of keys is taken by one.
LEMMA RankOnto ==
  ASSUME TypeOK, NEW n \in 0 .. (Cardinality(Filled) - 1)
  PROVE  \E i \in Filled : Rank(i) = n
<1> DEFINE c == Cardinality(Filled)
           S == 0 .. (c - 1)
           f == [i \in Filled |-> Rank(i)]
<1>1. c \in Nat /\ IsFiniteSet(Filled)
  BY FilledCounted
<1>2. f \in Injection(Filled, S)
  BY RankInside, RankApart DEF Injection, IsInjective
<1>3. IsFiniteSet(S) /\ Cardinality(S) = c
  BY <1>1, FS_Interval
<1> HIDE DEF S, f
<1>4. f \in Surjection(Filled, S)
  BY <1>2, <1>3, FS_Injection
<1>5. n \in S
  BY DEF S
<1>6. PICK i \in Filled : f[i] = n
  BY <1>4, <1>5 DEF Surjection
<1> QED
  BY <1>6 DEF f

LEMMA SortedByRank ==
  ASSUME TypeOK, NEW i \in Filled
  PROVE  SortedKeys[Rank(i)] = midiArpeggioNotes[i]
<1> DEFINE c == CHOOSE j \in Filled : Rank(j) = Rank(i)
<1>1. c \in Filled /\ Rank(c) = Rank(i)
  OBVIOUS
<1>2. c = i
  BY <1>1, RankApart
<1>3. Rank(i) \in Slot
  BY RankInside, FilledCounted, Numbers DEF Slot
<1> QED
  BY <1>2, <1>3 DEF SortedKeys

LEMMA OrderInit == Init => SortedInv /\ LatchedInv
BY DEF Init, SortedInv, LatchedInv, At

LEMMA SortedNext == TypeOK /\ ThreadInv /\ SortedInv /\ [Next]_vars => SortedInv'
<1> SUFFICES ASSUME TypeOK, ThreadInv, SortedInv, [Next]_vars PROVE SortedInv'
  OBVIOUS
<1>0. todo \in Seq(StepT) /\ Chain(todo)
  BY DEF TypeOK, ThreadInv
<1>1. CASE Handler
  <2>1. ~At({"measure"})'
    BY <1>1, HandlerQueue, HeadOfFresh DEF At
  <2> QED
    BY <2>1 DEF SortedInv
<1>2. CASE FillNotes
  <2>1. UNCHANGED <<arpType, midiArpeggioNotes, midiArpeggioNoteTime>>
    BY <1>2 DEF FillNotes, panel, slots
  <2>2. Filled' = Filled /\ \A i : Rank(i)' = Rank(i)
    BY <2>1 DEF Filled, Rank, Earlier
  <2>3. ASSUME arpType = ARP_TYPE_MIDI, NEW i \in Filled
        PROVE  arpeggio'[Rank(i)] = midiArpeggioNotes[i]
    BY <1>2, <2>3, SortedByRank DEF FillNotes
  <2> QED
    BY <2>1, <2>2, <2>3 DEF SortedInv
<1>3. CASE Step /\ ~FillNotes
  <2>1. PICK op : Doing(op) /\ op # "fill"
    BY <1>3 DEF Step, Lock, Unlock, MeasureNotes, StopVoices, Rewind, StartRunning,
                TransposeNotes
  <2>2. ~At({"measure"})'
    BY <1>0, <2>1, StepQueue DEF Follows
  <2> QED
    BY <2>2 DEF SortedInv
<1>4. CASE Pulse \/ Millis \/ (\E v \in Voice : VoiceEnds(v)) \/ UNCHANGED vars
  <2>1. UNCHANGED <<todo, arpType, arpeggio, midiArpeggioNotes, midiArpeggioNoteTime>>
    BY <1>4 DEF Pulse, Millis, VoiceEnds, vars, panel, thread, notes, slots
  <2>2. Filled' = Filled /\ \A i : Rank(i)' = Rank(i)
    BY <2>1 DEF Filled, Rank, Earlier
  <2> QED
    BY <2>1, <2>2 DEF SortedInv, At
<1> QED
  BY <1>1, <1>2, <1>3, <1>4 DEF Next

\* Measuring the sorted keys gives the arpeggio of the keys that are down.
LEMMA MeasuredKeys ==
  ASSUME TypeOK, SlotsInv, SortedInv, MeasureNotes, arpType = ARP_TYPE_MIDI
  PROVE  PlaysKeys'
<1> DEFINE c == Cardinality(Filled)
           played == {n \in Slot : n < c}
<1>1. arpLength' = c /\ latched' = pressed /\ arpeggio' = arpeggio
  BY DEF MeasureNotes
<1>2. c \in 0 .. ARP_MAX_NOTES /\ Filled = Taken(midiArpeggioNotes)
  BY FilledCounted DEF Filled, Taken
<1>3. \A i \in Filled : arpeggio[Rank(i)] = midiArpeggioNotes[i]
  BY DEF SortedInv, MeasureNotes, Doing, At
<1>4. /\ Cardinality(Down(pressed)) = c
      /\ {midiArpeggioNotes[i] : i \in Filled} = Down(pressed)
  BY <1>2, DownCounted DEF TypeOK, SlotsT, TimesT, DownT, SlotsInv
<1>5. \A i \in Filled : pressed[midiArpeggioNotes[i]] = midiArpeggioNoteTime[i]
  BY <1>2 DEF SlotsInv, Hold
<1>6. played = 0 .. (c - 1)
  BY <1>2, Numbers DEF Slot
<1> HIDE DEF c, played
<1>7. \A n \in played : \E i \in Filled : Rank(i) = n
  BY <1>6, RankOnto DEF c
<1>8. \A i \in Filled : Rank(i) \in played
  BY <1>6, RankInside DEF c
<1>9. {arpeggio[n] : n \in played} = Down(pressed)
  BY <1>3, <1>4, <1>7, <1>8
<1>10. ASSUME NEW n \in played, NEW m \in played, n < m
       PROVE  pressed[arpeggio[n]] <= pressed[arpeggio[m]]
  <2>1. PICK i \in Filled : Rank(i) = n
    BY <1>7
  <2>2. PICK j \in Filled : Rank(j) = m
    BY <1>7
  <2>3. Earlier(i, j)
    <3>1. n \in Int /\ m \in Int
      BY <1>2, <1>6 DEF c
    <3>2. i # j /\ ~Earlier(j, i)
      BY <1>10, <2>1, <2>2, <3>1, RankRises
    <3> QED
      BY <3>2, EarlierOrders
  <2>4. midiArpeggioNoteTime[i] <= midiArpeggioNoteTime[j]
    BY <2>3, EarlierOrders
  <2> QED
    BY <1>3, <1>5, <2>1, <2>2, <2>4
<1>11. {n \in Slot : n < arpLength'} = played
  BY <1>1 DEF played
<1> QED
  BY <1>1, <1>4, <1>9, <1>10, <1>11 DEF PlaysKeys

LEMMA LatchedNext ==
  TypeOK /\ ThreadInv /\ SlotsInv /\ SortedInv /\ LatchedInv /\ [Next]_vars => LatchedInv'
<1> SUFFICES ASSUME TypeOK, ThreadInv, SlotsInv, SortedInv, LatchedInv, [Next]_vars
             PROVE  LatchedInv'
  OBVIOUS
<1>0. todo \in Seq(StepT) /\ Chain(todo)
  BY DEF TypeOK, ThreadInv
<1>1. ASSUME UNCHANGED <<source, arpeggio, arpLength, latched>>, ~At({"measure"})
      PROVE  LatchedInv'
  BY <1>1 DEF LatchedInv, PlaysKeys
<1>2. CASE MeasureNotes
  BY <1>2, MeasuredKeys DEF MeasureNotes, LatchedInv
<1>3. CASE FillNotes
  <2>1. At({"measure"})'
    BY <1>0, <1>3, ChainStep DEF FillNotes, At, Follows
  <2> QED
    BY <2>1 DEF LatchedInv
<1>4. CASE TransposeNotes
  BY <1>4 DEF TransposeNotes, LatchedInv
<1>5. CASE Step /\ ~MeasureNotes /\ ~FillNotes /\ ~TransposeNotes
  <2>1. UNCHANGED <<source, arpeggio, arpLength, latched>>
    BY <1>5 DEF Step, Lock, Unlock, StopVoices, Rewind, StartRunning, notes, ghosts
  <2>2. ~At({"measure"})
    BY <1>5 DEF Step, Lock, Unlock, StopVoices, Rewind, StartRunning, Doing, At
  <2> QED
    BY <1>1, <2>1, <2>2
<1>6. CASE Reset
  BY <1>6 DEF Reset, LatchedInv
<1>7. CASE Handler /\ ~Reset
  <2>1. UNCHANGED <<source, arpeggio, arpLength, latched>>
    BY <1>7 DEF Handler, NoteOn, NoteOff, StartStop, SelectPattern, SelectType,
                SelectTimeDivision, TurnRoot, TurnLength, notes, ghosts
  <2>2. ~At({"measure"})
    BY <1>7, HandlerQueue DEF At
  <2> QED
    BY <1>1, <2>1, <2>2
<1>8. CASE Pulse \/ Millis \/ (\E v \in Voice : VoiceEnds(v)) \/ UNCHANGED vars
  <2>1. UNCHANGED <<todo, source, arpeggio, arpLength, latched>>
    BY <1>8 DEF Pulse, Millis, VoiceEnds, vars, notes, thread, ghosts
  <2> QED
    BY <2>1 DEF LatchedInv, PlaysKeys, At
<1> QED
  BY <1>2, <1>3, <1>4, <1>5, <1>6, <1>7, <1>8 DEF Next, Step

\* For any number of slots and keys, in whatever order they are pressed and
\* let go, and with more keys than slots: the arpeggio the ISR plays is the
\* keys that were down when it was last made, each once, the oldest first.
THEOREM ArpeggioMadeOfKeys == Spec => []ArpeggioOfKeys
<1>1. Init => ThreadInv /\ KeysInv
  BY ThreadInit, SlotsInit, OrderInit DEF KeysInv
<1>2. TypeOK /\ ThreadInv /\ KeysInv /\ [Next]_vars => ThreadInv' /\ KeysInv'
  BY ThreadStep, SlotsNext, SortedNext, LatchedNext DEF KeysInv
<1>3. ThreadInv /\ KeysInv => ArpeggioOfKeys
  BY DEF ThreadInv, Locked, KeysInv, LatchedInv, PlaysKeys, ArpeggioOfKeys, Settled, At
<1> QED
  BY <1>1, <1>2, <1>3, ArpeggiatorTypes, PTL DEF Spec
=============================================================================

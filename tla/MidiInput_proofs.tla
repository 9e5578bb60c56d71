--------------------------- MODULE MidiInput_proofs ---------------------------
(***************************************************************************)
(* MIDI input for any messages that keep to the standard, any real-time    *)
(* bytes between their bytes and any sizes of the two buffers: what is     *)
(* parsed in step is delivered as it was sent.                             *)
(***************************************************************************)
EXTENDS MidiInput, SequenceTheorems, TLAPS

\* The states of the parser in a run.
ParserT == [pending : Seq(Byte), expected : {0, 2, 3}, running : Byte \cup {InvalidType}]
ParserOk(p) == p \in ParserT /\ (p.pending # <<>> => Len(p.pending) <= p.expected)

\* what an entry of the trail may say a byte completes
Calls == {NoCall} \cup {Meaning(m) : m \in Messages \cup {<<b>> : b \in RealTime}}
Entry == [call : Calls, gap : BOOLEAN]

\* the status a sender may leave out after the message m
StatusOf(m) == IF TypeOf(m[1]) \in ChannelTypes THEN m[1] ELSE InvalidType

\* r is an end of the message m, but not all of it.
EndOf(r, m) ==
  /\ r \in Seq(Byte) /\ r # <<>> /\ Len(r) < Len(m)
  /\ \A i \in 1 .. Len(r) : r[i] = m[Len(m) - Len(r) + i]

\* What the sender has still to send is the end of the message it is sending.
SenderInv ==
  /\ rest \in Seq(Byte) /\ status \in Byte \cup {InvalidType}
  /\ status # InvalidType => TypeOf(status) \in ChannelTypes
  /\ rest # <<>> => sending \in Messages /\ EndOf(rest, sending) /\ status = StatusOf(sending)

QueueInv ==
  /\ uart \in Seq(Byte) /\ Len(uart) <= UART_DEPTH
  /\ q \in Seq(Byte) /\ Len(q) <= Capacity
  /\ out \in Byte \cup {NoByte}
  /\ out # NoByte => q # <<>> /\ out = Head(q)
  /\ trail \in Seq(Entry) /\ Len(trail) = Len(q) + Len(uart)
  /\ lossAtEnd \in BOOLEAN /\ inStep \in BOOLEAN

TypeInv == ParserOk(parser) /\ QueueInv /\ SenderInv

\* The parser p is in step with a sender that sends the message s[1], of which
\* s[2] is still to come, and may leave out the status s[3].
Sync(p, s) ==
  IF s[2] = <<>> THEN p.pending = <<>> /\ (s[3] # InvalidType => p.running = s[3])
  ELSE IF TypeOf(s[1][1]) \in TwoByteTypes \cup ThreeByteTypes
  THEN /\ Len(p.pending) = Len(s[1]) - Len(s[2]) /\ p.expected = Len(s[1])
       /\ \A i \in 1 .. Len(p.pending) : p.pending[i] = s[1][i]
  ELSE p.pending = <<>> /\ p.running = InvalidType

\* Byte b takes p to where the sender is then, and delivers the call.
Obeys(p, b, call, s) ==
  Launch(Parse(p, b).message) = call /\ Sync(Parse(p, b).state, s)

\* It does so from wherever the sender was before, or as a status byte, whatever
\* was lost before.
Follows(r, b, call, s) == \A p \in ParserT : Sync(p, r) => Obeys(p, b, call, s)
Resumes(b, call, s) ==
  IsStatus(b) /\ b \notin RealTimeTypes =>
    \A p \in ParserT : p.pending = <<>> => Obeys(p, b, call, s)

\* The bytes lead through the states st of the sender, and complete what tr says:
\* st[0] is where it was before the first of them, st[i] after the i-th.
Leads(st, bytes, tr) ==
  /\ DOMAIN st = 0 .. Len(tr)
  /\ \A i \in 1 .. Len(tr) :
       /\ Resumes(bytes[i], tr[i].call, st[i])
       /\ ~tr[i].gap => Follows(st[i - 1], bytes[i], tr[i].call, st[i])

\* The bytes on their way lead from where the parser is to where the sender is,
\* but for those that were lost.
StepInv ==
  \E st : /\ Leads(st, q \o uart, trail)
          /\ ~lossAtEnd => st[Len(trail)] = <<sending, rest, status>>
          /\ inStep => Sync(parser, st[0])
-----------------------------------------------------------------------------
(* Bytes and their types *)

LEMMA ConstantTypes ==
  /\ UART_DEPTH \in Nat \ {0} /\ Capacity \in Nat \ {0} /\ N_MIDI_CHANNELS \in Nat \ {0}
  /\ Messages \subseteq Seq(Byte) \ {<<>>} /\ \A m \in Messages : WellFormed(m)
  /\ RealTime \subseteq RealTimeTypes \cap Byte /\ RunningLengths \subseteq {3}
  /\ Byte \subseteq 0 .. 255 /\ NoByte \notin Byte /\ Byte \subseteq Int
BY InputAssumption DEF InputAssumption

LEMMA TypeOfByte ==
  ASSUME NEW b \in 0 .. 255
  PROVE  /\ ~IsStatus(b) => TypeOf(b) = InvalidType
         /\ b \in 128 .. 239 => TypeOf(b) = (b \div 16) * 16 /\ TypeOf(b) \in ChannelTypes
         /\ b >= 240 => TypeOf(b) \in {InvalidType, b} /\ TypeOf(b) \notin ChannelTypes
         /\ b \in RealTimeTypes => IsStatus(b) /\ TypeOf(b) = b
         /\ TypeOf(b) \in OneByteTypes => TypeOf(b) = b /\ TypeOf(b) \notin ChannelTypes
         /\ TypeOf(b) \in ChannelTypes => b \in 128 .. 239
BY SMTT(30) DEF IsStatus, TypeOf, InvalidType, ChannelTypes, RealTimeTypes, OneByteTypes

LEMMA TypesApart ==
  /\ InvalidType \notin OneByteTypes \cup TwoByteTypes \cup ThreeByteTypes
  /\ InvalidType \notin ChannelTypes \cup Registered \cup Transport
  /\ OneByteTypes \cap TwoByteTypes = {} /\ OneByteTypes \cap ThreeByteTypes = {}
  /\ TwoByteTypes \cap ThreeByteTypes = {}
  /\ ChannelTypes \subseteq TwoByteTypes \cup ThreeByteTypes
  /\ ChannelTypes \cap OneByteTypes = {}
  /\ RealTimeTypes \subseteq OneByteTypes /\ 247 \notin RealTimeTypes
  /\ 240 \notin OneByteTypes \cup TwoByteTypes \cup ThreeByteTypes
BY SMTT(30) DEF InvalidType, OneByteTypes, TwoByteTypes, ThreeByteTypes, ChannelTypes, RealTimeTypes,
       Registered, Transport, NoteOff, NoteOn, ControlChange, ProgramChange, PitchBend, Clock,
       SystemReset
-----------------------------------------------------------------------------
(* Calls *)

LEMMA NothingCalled == Launch(NoMessage) = NoCall
BY TypesApart DEF Launch, NoMessage, Call, NoCall

LEMMA SingleCalled ==
  ASSUME NEW b, b \notin Registered
  PROVE  Launch(SingleByte(b)) = IF b \in Transport THEN [NoCall EXCEPT !.handler = b] ELSE NoCall
BY DEF Launch, SingleByte, NoMessage, Call

LEMMA SystemByte ==
  ASSUME NEW b \in 240 .. 255
  PROVE  /\ b \notin Registered
         /\ Meaning(<<b>>) = IF b \in Transport THEN [NoCall EXCEPT !.handler = b] ELSE NoCall
<1>1. b \notin Registered
  BY DEF Registered, NoteOff, NoteOn, ControlChange, ProgramChange, PitchBend
<1>2. b \div 16 = 15
  OBVIOUS
<1>3. 240 \notin Registered
  BY DEF Registered, NoteOff, NoteOn, ControlChange, ProgramChange, PitchBend
<1> QED  BY <1>1, <1>2, <1>3 DEF Meaning

\* A byte that a parser without a pending message waits with.
Waiting(p, first, n) == [p EXCEPT !.pending = first, !.expected = n]

\* What a byte does to such a parser, by the type of the message it belongs to.
Starts(p, first) ==
  LET type == TypeOf(first[1]) IN
  IF type \in OneByteTypes THEN [state |-> Idle(p.running), message |-> SingleByte(type)]
  ELSE IF type \in TwoByteTypes THEN [state |-> Waiting(p, first, 2), message |-> NoMessage]
  ELSE IF type \in ThreeByteTypes THEN [state |-> Waiting(p, first, 3), message |-> NoMessage]
  ELSE [state |-> Reset, message |-> NoMessage]

LEMMA StartMessageIs ==
  ASSUME NEW p, NEW b
  PROVE  /\ TypeOf(p.running) \in ChannelTypes /\ ~IsStatus(b) =>
               StartMessage(p, b) = Starts(p, <<p.running, b>>)
         /\ ~(TypeOf(p.running) \in ChannelTypes /\ ~IsStatus(b)) =>
               StartMessage(p, b) = Starts(p, <<b>>)
<1> DEFINE repeats == TypeOf(p.running) \in ChannelTypes /\ ~IsStatus(b)
           first   == IF repeats THEN <<p.running, b>> ELSE <<b>>
           type    == TypeOf(first[1])
           wait(n) == [state |-> [p EXCEPT !.pending = first, !.expected = n],
                       message |-> NoMessage]
<1>1. StartMessage(p, b) =
        CASE type \in OneByteTypes   -> [state |-> Idle(p.running), message |-> SingleByte(type)]
          [] type \in TwoByteTypes   -> wait(2)
          [] type \in ThreeByteTypes -> wait(3)
          [] OTHER                   -> [state |-> Reset, message |-> NoMessage]
  BY DEF StartMessage
<1>2. wait(2) = [state |-> Waiting(p, first, 2), message |-> NoMessage]
      /\ wait(3) = [state |-> Waiting(p, first, 3), message |-> NoMessage]
  BY DEF Waiting
<1>3. first = IF repeats THEN <<p.running, b>> ELSE <<b>>
  OBVIOUS
<1>4. StartMessage(p, b) = Starts(p, first)
  <2> HIDE DEF first, wait
  <2>1. CASE type \in OneByteTypes
    BY <1>1, <2>1, TypesApart DEF Starts
  <2>2. CASE type \in TwoByteTypes
    BY <1>1, <1>2, <2>2, TypesApart DEF Starts
  <2>3. CASE type \in ThreeByteTypes
    BY <1>1, <1>2, <2>3, TypesApart DEF Starts
  <2>4. CASE type \notin OneByteTypes \cup TwoByteTypes \cup ThreeByteTypes
    BY <1>1, <2>4 DEF Starts
  <2> QED  BY <2>1, <2>2, <2>3, <2>4
<1> HIDE DEF first
<1> QED  BY <1>3, <1>4

LEMMA StatusStarts ==
  ASSUME NEW p, NEW b, IsStatus(b), p.pending = <<>>
  PROVE  Parse(p, b) = Starts(p, <<b>>)
BY StartMessageIs DEF Parse

\* parse() delivers a real-time message at once, from every state, and goes on
\* with what it was doing.
LEMMA RealTimeParsed ==
  ASSUME NEW p \in ParserT, NEW b \in RealTimeTypes
  PROVE  /\ Launch(Parse(p, b).message) = Meaning(<<b>>)
         /\ Parse(p, b).state.pending = p.pending /\ Parse(p, b).state.running = p.running
         /\ p.pending # <<>> => Parse(p, b).state = p
<1>1. b \in 240 .. 255 /\ IsStatus(b) /\ TypeOf(b) = b /\ b \in OneByteTypes
  <2>1. b \in 240 .. 255
    BY DEF RealTimeTypes
  <2> QED  BY <2>1, TypeOfByte, TypesApart
<1>2. Launch(SingleByte(b)) = Meaning(<<b>>)
  BY <1>1, SingleCalled, SystemByte
<1>3. CASE p.pending = <<>>
  <2>1. Parse(p, b) = [state |-> Idle(p.running), message |-> SingleByte(b)]
    BY <1>1, <1>3, StatusStarts DEF Starts
  <2> QED  BY <1>2, <1>3, <2>1 DEF Idle
<1>4. CASE p.pending # <<>>
  <2>1. Parse(p, b) = [state |-> p, message |-> SingleByte(b)]
    BY <1>4 DEF Parse, ContinueMessage, Interleaved
  <2> QED  BY <1>2, <1>4, <2>1
<1> QED  BY <1>3, <1>4

LEMMA IdleOk == ASSUME NEW running \in Byte \cup {InvalidType}
                PROVE  ParserOk(Idle(running)) /\ Idle(running).pending = <<>>
BY DEF Idle, ParserOk, ParserT

LEMMA ResetOk == ParserOk(Reset) /\ Reset.pending = <<>> /\ Reset.running = InvalidType
BY IdleOk DEF Reset, Idle

LEMMA WaitingOk ==
  ASSUME NEW p \in ParserT, NEW first \in Seq(Byte), NEW n \in {2, 3},
         Len(first) > 0, Len(first) <= n
  PROVE  /\ ParserOk(Waiting(p, first, n))
         /\ Waiting(p, first, n).pending = first /\ Waiting(p, first, n).expected = n
BY DEF Waiting, ParserOk, ParserT

LEMMA StartsOk ==
  ASSUME NEW p \in ParserT, NEW first \in Seq(Byte), Len(first) > 0, Len(first) <= 2
  PROVE  ParserOk(Starts(p, first).state)
<1>1. p.running \in Byte \cup {InvalidType}
  BY DEF ParserT
<1>2. ParserOk(Idle(p.running)) /\ ParserOk(Reset)
  BY <1>1, IdleOk, ResetOk
<1>3. Len(first) <= 3
  BY LenProperties
<1>4. ParserOk(Waiting(p, first, 2))
  BY <1>3, WaitingOk
<1>5. ParserOk(Waiting(p, first, 3))
  BY <1>3, WaitingOk
<1> QED  BY <1>2, <1>4, <1>5 DEF Starts

LEMMA StartOk ==
  ASSUME NEW p \in ParserT, NEW b \in Byte
  PROVE  ParserOk(StartMessage(p, b).state)
<1>1. p.running \in Byte \cup {InvalidType}
  BY DEF ParserT
<1>2. CASE TypeOf(p.running) \in ChannelTypes /\ ~IsStatus(b)
  <2>1. p.running \in Byte
    BY <1>1, <1>2, TypesApart DEF TypeOf, IsStatus, InvalidType
  <2>2. <<p.running, b>> \in Seq(Byte) /\ Len(<<p.running, b>>) > 0
                           /\ Len(<<p.running, b>>) <= 2
    BY <2>1
  <2> QED  BY <1>2, <2>2, StartMessageIs, StartsOk
<1>3. CASE ~(TypeOf(p.running) \in ChannelTypes /\ ~IsStatus(b))
  <2>1. <<b>> \in Seq(Byte) /\ Len(<<b>>) > 0 /\ Len(<<b>>) <= 2
    OBVIOUS
  <2> QED  BY <1>3, <2>1, StartMessageIs, StartsOk
<1> QED  BY <1>2, <1>3

LEMMA ContinueOk ==
  ASSUME NEW p, ParserOk(p), p.pending # <<>>, NEW b \in Byte
  PROVE  ParserOk(ContinueMessage(p, b).state)
<1> DEFINE qq == Append(p.pending, b)
<1>1. /\ p \in ParserT /\ p.pending \in Seq(Byte) /\ Len(p.pending) <= p.expected
      /\ p.expected \in {0, 2, 3} /\ Len(p.pending) \in Nat \ {0}
  BY DEF ParserOk, ParserT
<1>2. qq \in Seq(Byte) /\ qq[1] \in Byte /\ Len(qq) = Len(p.pending) + 1
  BY <1>1
<1>3. CASE ContinueMessage(p, b).state \in {p, Reset, Idle(qq[1]), Idle(InvalidType)}
  BY <1>2, <1>3, IdleOk, ResetOk
<1>4. CASE ~Completes(p) /\ ContinueMessage(p, b).state = [p EXCEPT !.pending = qq]
  <2>1. Len(qq) <= p.expected
    BY <1>1, <1>2, <1>4 DEF Completes
  <2> HIDE DEF qq
  <2> QED  BY <1>1, <1>2, <1>4, <2>1 DEF ParserOk, ParserT
<1>5. \/ ContinueMessage(p, b).state \in {p, Reset, Idle(qq[1]), Idle(InvalidType)}
      \/ ~Completes(p) /\ ContinueMessage(p, b).state = [p EXCEPT !.pending = qq]
  BY DEF ContinueMessage
<1> QED  BY <1>3, <1>4, <1>5

LEMMA ParseOk ==
  ASSUME NEW p, ParserOk(p), NEW b \in Byte
  PROVE  ParserOk(Parse(p, b).state)
BY StartOk, ContinueOk DEF Parse, ParserOk
-----------------------------------------------------------------------------
(* What the handlers are told *)

LEMMA RemainderIs ==
  ASSUME NEW p \in Nat \ {0}, NEW x \in Nat, NEW k \in Nat, NEW r \in 0 .. (p - 1),
         x = p * k + r
  PROVE  x % p = r
<1> DEFINE c == x \div p
           s == x % p
           d == k - c
<1>1. c \in Int /\ s \in 0 .. (p - 1) /\ x = p * c + s
  OBVIOUS
<1> HIDE DEF c, s
<1>2. d \in Int /\ p * d = s - r
  BY <1>1
<1> HIDE DEF d
<1>3. d >= 1 => p * d >= p
  BY <1>2
<1>4. d <= -1 => p * d <= -p
  BY <1>2
<1>5. d = 0
  BY <1>1, <1>2, <1>3, <1>4
<1> QED  BY <1>1, <1>2, <1>5 DEF s

\* The channel from 1 up, folded as the handlers do it, is the standard's from 0.
LEMMA FoldIs ==
  ASSUME NEW n \in Nat
  PROVE  Fold(n + 1) = (n % N_MIDI_CHANNELS) + 1
<1> DEFINE d == n % N_MIDI_CHANNELS
           e == n \div N_MIDI_CHANNELS
<1>1. N_MIDI_CHANNELS \in Nat \ {0}
  BY ConstantTypes
<1>2. d \in 0 .. (N_MIDI_CHANNELS - 1) /\ e \in Nat /\ n = N_MIDI_CHANNELS * e + d
  BY <1>1
<1> HIDE DEF d, e
<1>3. CASE d + 1 = N_MIDI_CHANNELS
  <2>1. n + 1 = N_MIDI_CHANNELS * (e + 1) + 0 /\ e + 1 \in Nat /\ n + 1 \in Nat
    BY <1>1, <1>2, <1>3
  <2>2. 0 \in 0 .. (N_MIDI_CHANNELS - 1)
    BY <1>1
  <2>3. (n + 1) % N_MIDI_CHANNELS = 0
    BY <1>1, <2>1, <2>2, RemainderIs
  <2> QED  BY <1>3, <2>3 DEF Fold, d
<1>4. CASE d + 1 < N_MIDI_CHANNELS
  <2>1. n + 1 = N_MIDI_CHANNELS * e + (d + 1) /\ d + 1 \in 0 .. (N_MIDI_CHANNELS - 1)
    BY <1>1, <1>2, <1>4
  <2>2. (n + 1) % N_MIDI_CHANNELS = d + 1
    BY <1>1, <1>2, <2>1, RemainderIs
  <2>3. d + 1 # 0
    BY <1>2
  <2> QED  BY <2>2, <2>3 DEF Fold, d
<1> QED  BY <1>1, <1>2, <1>3, <1>4

\* The bytes of a message.
LEMMA MessageIs ==
  ASSUME NEW m \in Messages
  PROVE  /\ m \in Seq(Byte) /\ Len(m) \in Nat \ {0}
         /\ \A i \in 1 .. Len(m) : m[i] \in Byte /\ m[i] \in 0 .. 255
         /\ IsStatus(m[1]) /\ m[1] \in 128 .. 255 /\ m[1] \in Byte /\ m[1] \notin RealTimeTypes
         /\ TypeOf(m[1]) \in OneByteTypes => Len(m) = 1
         /\ TypeOf(m[1]) \in TwoByteTypes => Len(m) = 2
         /\ TypeOf(m[1]) \in ThreeByteTypes => Len(m) = 3
         /\ \A i \in 2 .. Len(m) : \/ ~IsStatus(m[i])
                                   \/ m[1] = 240 /\ i = Len(m) /\ m[i] = 247
<1>1. m \in Seq(Byte) /\ m # <<>> /\ WellFormed(m)
  BY ConstantTypes
<1>2. Len(m) \in Nat \ {0} /\ \A i \in 1 .. Len(m) : m[i] \in Byte
  BY <1>1, EmptySeq, ElementOfSeq
<1>3. \A i \in 1 .. Len(m) : m[i] \in 0 .. 255
  BY <1>2, ConstantTypes
<1>4. m[1] \in Byte /\ m[1] \in 0 .. 255
  BY <1>2, <1>3
<1>5. IsStatus(m[1])
  BY <1>1 DEF WellFormed
<1>6. m[1] \in 128 .. 255
  BY <1>4, <1>5 DEF IsStatus
<1> QED  BY <1>1, <1>2, <1>3, <1>4, <1>6 DEF WellFormed

\* The types by their numbers.
LEMMA TypeNumbers ==
  /\ Registered = {128, 144, 176, 192, 224} /\ Transport = {248, 250, 251, 252, 255}
  /\ Registered \subseteq ChannelTypes /\ Registered \cap Transport = {}
  /\ TwoByteTypes \cap Transport = {} /\ ThreeByteTypes \cap Transport = {}
  /\ \A type \in TwoByteTypes : type \in Registered => type = 192
  /\ \A type \in ThreeByteTypes : type \in Registered => type # 192
  /\ NoteOff = 128 /\ NoteOn = 144 /\ PitchBend = 224 /\ ProgramChange = 192
BY DEF Registered, Transport, ChannelTypes, TwoByteTypes, ThreeByteTypes, NoteOff, NoteOn,
       ControlChange, ProgramChange, PitchBend, Clock, SystemReset

LEMMA ChannelByteBelow == ASSUME NEW b \in 128 .. 239 PROVE b # 240
OBVIOUS

\* A status byte of a channel message: its type and its channel.
LEMMA ChannelByte ==
  ASSUME NEW b \in 128 .. 239
  PROVE  /\ b \div 16 \in 8 .. 14 /\ b % 16 \in 0 .. 15
         /\ TypeOf(b) = (b \div 16) * 16 /\ TypeOf(b) \notin Transport /\ b \notin Transport
         /\ TypeOf(b) = 224 <=> b \div 16 = 14
         /\ TypeOf(b) \in {144, 128} <=> b \div 16 \in {8, 9}
<1>1. b \div 16 \in 8 .. 14 /\ b % 16 \in 0 .. 15 /\ TypeOf(b) = (b \div 16) * 16
  BY TypeOfByte
<1>2. \A x : x \in Transport => x \in 240 .. 255
  BY TypeNumbers
<1> QED  BY <1>1, <1>2

LEMMA OtherMeans ==
  ASSUME NEW m \in Messages, m[1] \in 240 .. 255
  PROVE  Meaning(m) = IF m[1] \in Transport THEN [NoCall EXCEPT !.handler = m[1]] ELSE NoCall
<1>1. m[1] \div 16 = 15 /\ 15 * 16 = 240
  OBVIOUS
<1>2. 240 \notin Registered
  BY TypeNumbers
<1> QED  BY <1>1, <1>2 DEF Meaning

LEMMA TailOfTwo ==
  ASSUME NEW S, NEW m \in Seq(S), Len(m) = 2
  PROVE  Tail(m) = <<m[2]>>
<1> DEFINE t == Tail(m)
<1>1. m # <<>>
  BY EmptySeq
<1>2. t \in Seq(S) /\ Len(t) = 1 /\ t[1] = m[2]
  BY <1>1, HeadTailProperties
<1> HIDE DEF t
<1>3. <<t[1]>> \in Seq(S) /\ Len(<<t[1]>>) = 1
  BY <1>2, ElementOfSeq
<1>4. t = <<t[1]>>
  BY <1>2, <1>3, SeqEqual
<1> QED  BY <1>2, <1>4 DEF t

LEMMA TailOfThree ==
  ASSUME NEW S, NEW m \in Seq(S), Len(m) = 3
  PROVE  Tail(m) = <<m[2], m[3]>>
<1> DEFINE t == Tail(m)
<1>1. m # <<>>
  BY EmptySeq
<1>2. /\ t \in Seq(S) /\ Len(t) = Len(m) - 1
      /\ \A i \in 1 .. Len(t) : t[i] = m[i + 1]
  BY <1>1, HeadTailProperties
<1> HIDE DEF t
<1>5. Len(t) = 2 /\ t[1] = m[2] /\ t[2] = m[3]
  BY <1>2
<1>3. <<t[1], t[2]>> \in Seq(S) /\ Len(<<t[1], t[2]>>) = 2
  BY <1>5, <1>2, ElementOfSeq
<1>4. t = <<t[1], t[2]>>
  BY <1>5, <1>2, <1>3, SeqEqual
<1> QED  BY <1>5, <1>4 DEF t

LEMMA DataByte ==
  ASSUME NEW b \in 0 .. 255, ~IsStatus(b)
  PROVE  b \in 0 .. 127 /\ b % 128 = b
BY DEF IsStatus

LEMMA SystemType ==
  ASSUME NEW b \in 240 .. 255, TypeOf(b) \in TwoByteTypes \cup ThreeByteTypes
  PROVE  TypeOf(b) = b /\ TypeOf(b) \notin Registered /\ TypeOf(b) \notin Transport
<1>1. b \in 0 .. 255 /\ b >= 240
  OBVIOUS
<1>2. TypeOf(b) \in {InvalidType, b} /\ TypeOf(b) \notin ChannelTypes
  BY <1>1, TypeOfByte
<1> QED  BY <1>2, TypesApart, TypeNumbers

\* A handler that is told a channel message with its channel in whatever form its
\* folds send to the standard's is told what the message means.
LEMMA CallMeans ==
  ASSUME NEW m \in Messages, m[1] \in 128 .. 239,
         NEW channel, channel = 10 <=> m[1] % 16 = 9,
         Fold(channel) = ((m[1] % 16) % N_MIDI_CHANNELS) + 1,
         NEW d2, d2 = IF Len(m) = 3 THEN m[3] ELSE 0
  PROVE  Call(TypeOf(m[1]), channel, m[2], d2) = Meaning(m)
<1> DEFINE b == m[1]
           type == TypeOf(b)
           n == b % 16
           data == IF type = 224 THEN <<m[2] + 128 * m[3] - 8192>> ELSE Tail(m)
           told == CASE type = PitchBend     -> <<(m[2] % 128) + 128 * (d2 % 128) - 8192>>
                     [] type = ProgramChange -> <<m[2]>>
                     [] OTHER                -> <<m[2], d2>>
           drum == type \in {144, 128} /\ n = 9
<1>1. /\ m \in Seq(Byte)
      /\ type \in TwoByteTypes => Len(m) = 2
      /\ type \in ThreeByteTypes => Len(m) = 3
  BY MessageIs
<1>2. type \in TwoByteTypes \cup ThreeByteTypes
  <2>1. b \in 0 .. 255 /\ b \in 128 .. 239
    OBVIOUS
  <2> QED  BY <2>1, TypeOfByte, TypesApart
<1>3. /\ n \in 0 .. 15 /\ type = (b \div 16) * 16 /\ b \notin Transport /\ type \notin Transport
      /\ type = 224 <=> b \div 16 = 14
      /\ type \in {144, 128} <=> b \div 16 \in {8, 9}
  BY ChannelByte
<1>4. CASE type \notin Registered
  <2>1. (b \div 16) * 16 \notin Registered
    BY <1>3, <1>4
  <2> QED  BY <1>3, <1>4, <2>1 DEF Call, Meaning
<1>5. CASE type \in Registered
  <2>1. told = data
    <3>1. CASE type = 192
      <4>1. Len(m) = 2
        BY <1>1, <3>1, TypeNumbers DEF TwoByteTypes
      <4>2. Tail(m) = <<m[2]>>
        BY <1>1, <4>1, TailOfTwo
      <4>3. type # PitchBend /\ type = ProgramChange /\ type # 224
        BY <3>1, TypeNumbers
      <4> HIDE DEF type
      <4>4. told = <<m[2]>>
        BY <4>3
      <4>5. data = Tail(m)
        BY <4>3
      <4> HIDE DEF told, data
      <4> QED  BY <4>2, <4>4, <4>5
    <3>2. CASE type = 224
      <4>1. Len(m) = 3
        BY <1>1, <3>2 DEF ThreeByteTypes
      <4>2. 2 \in 2 .. Len(m) /\ 3 \in 2 .. Len(m) /\ 2 \in 1 .. Len(m) /\ 3 \in 1 .. Len(m)
        BY <4>1
      <4>3. m[2] \in 0 .. 255 /\ m[3] \in 0 .. 255
        BY <4>2, MessageIs
      <4>4. ~IsStatus(m[2]) /\ ~IsStatus(m[3])
        <5>1. m[1] # 240
          BY ChannelByteBelow, Zenon
        <5> QED  BY <4>2, <5>1, MessageIs
      <4>5. m[2] % 128 = m[2] /\ m[3] % 128 = m[3]
        BY <4>3, <4>4, DataByte
      <4>6. type = PitchBend /\ type # ProgramChange /\ d2 = m[3]
        BY <3>2, <4>1, TypeNumbers
      <4> HIDE DEF type
      <4>7. told = <<(m[2] % 128) + 128 * (m[3] % 128) - 8192>>
        BY <4>6
      <4>8. data = <<m[2] + 128 * m[3] - 8192>>
        BY <3>2
      <4> HIDE DEF told, data
      <4> QED  BY <4>5, <4>7, <4>8
    <3>3. CASE type # 192 /\ type # 224
      <4>1. Len(m) = 3
        BY <1>1, <1>2, <1>5, <3>3, TypeNumbers
      <4>2. Tail(m) = <<m[2], m[3]>>
        BY <1>1, <4>1, TailOfThree
      <4>3. type # PitchBend /\ type # ProgramChange /\ d2 = m[3]
        BY <3>3, <4>1, TypeNumbers
      <4>4. told = <<m[2], m[3]>>
        BY <4>3
      <4>5. data = Tail(m)
        BY <3>3
      <4> HIDE DEF told, data
      <4> QED  BY <4>2, <4>4, <4>5
    <3> QED  BY <3>1, <3>2, <3>3
  <2>2. (type \in {NoteOn, NoteOff} /\ channel = 10) = drum
    BY TypeNumbers
  <2>3. (b \div 16 \in {8, 9} /\ n = 9) = drum
    BY <1>3
  <2>4. (IF b \div 16 = 14 THEN <<m[2] + 128 * m[3] - 8192>> ELSE Tail(m)) = data
    BY <1>3
  <2>5. Call(type, channel, m[2], d2)
          = [handler |-> type, slot |-> Fold(channel),
             drum |-> type \in {NoteOn, NoteOff} /\ channel = 10, data |-> told]
    BY <1>5, TypeNumbers DEF Call
  <2> HIDE DEF drum, data, told, type
  <2>6. Meaning(m)
          = [handler |-> type, slot |-> (n % N_MIDI_CHANNELS) + 1, drum |-> drum, data |-> data]
    <3> DEFINE kind == (b \div 16) * 16
               key == b \div 16 \in {8, 9} /\ n = 9
               value == IF b \div 16 = 14 THEN <<m[2] + 128 * m[3] - 8192>> ELSE Tail(m)
    <3>1. kind = type /\ kind \in Registered /\ key = drum /\ value = data
      BY <1>3, <1>5, <2>3, <2>4
    <3>2. Meaning(m) = [handler |-> kind, slot |-> (n % N_MIDI_CHANNELS) + 1,
                        drum |-> key, data |-> value]
      BY <3>1 DEF Meaning
    <3> HIDE DEF kind, key, value
    <3> QED  BY <3>1, <3>2
  <2>7. Call(type, channel, m[2], d2)
          = [handler |-> type, slot |-> (n % N_MIDI_CHANNELS) + 1, drum |-> drum, data |-> data]
    BY <2>1, <2>2, <2>5
  <2> QED  BY <2>6, <2>7 DEF type
<1> QED  BY <1>4, <1>5

\* What the parser puts together from the bytes of a message is what it means.
LEMMA MessageMeans ==
  ASSUME NEW m \in Messages, TypeOf(m[1]) \in TwoByteTypes \cup ThreeByteTypes,
         NEW x, \A i \in 1 .. Len(m) : x[i] = m[i]
  PROVE  Launch(Message(x, Len(m))) = Meaning(m)
<1> DEFINE b == m[1]
           type == TypeOf(b)
           d2 == IF Len(m) = 3 THEN m[3] ELSE 0
           n == b % 16
<1>1. /\ b \in 128 .. 255 /\ m \in Seq(Byte)
      /\ type \in TwoByteTypes => Len(m) = 2
      /\ type \in ThreeByteTypes => Len(m) = 3
  BY MessageIs
<1>2. Len(m) \in 2 .. 3 /\ x[1] = b /\ x[2] = m[2] /\ (Len(m) = 3 => x[3] = m[3])
  BY <1>1
<1>3. Launch(Message(x, Len(m))) = Call(type, n + 1, m[2], d2)
  BY <1>2 DEF Launch, Message
<1>4. CASE b \in 240 .. 255
  <2>1. type = b /\ type \notin Registered /\ type \notin Transport
    BY <1>4, SystemType
  <2> QED  BY <1>3, <1>4, <2>1, OtherMeans DEF Call
<1>5. CASE b \in 128 .. 239
  <2>1. n \in Nat /\ (n + 1 = 10 <=> n = 9)
    <3>1. n \in 0 .. 15
      BY <1>5, ChannelByte
    <3> QED  BY <3>1
  <2>2. Fold(n + 1) = (n % N_MIDI_CHANNELS) + 1
    BY <2>1, FoldIs
  <2>3. Call(type, n + 1, m[2], d2) = Meaning(m)
    BY <1>5, <2>1, <2>2, CallMeans
  <2> QED  BY <1>3, <2>3
<1> QED  BY <1>1, <1>4, <1>5
-----------------------------------------------------------------------------
(* The parser follows the sender, byte by byte *)

\* Where the sender of m is when r is still to come and st is the status it may
\* leave out, and what the byte before r completes.
After(m, r, st) == <<IF r = <<>> THEN <<>> ELSE m, r, st>>
CallAt(m, r) == IF r = <<>> THEN Meaning(m) ELSE NoCall

LEMMA SyncIdle ==
  ASSUME NEW p, NEW m, NEW r, NEW st, r = <<>>,
         p.pending = <<>>, st # InvalidType => p.running = st
  PROVE  Sync(p, After(m, r, st))
BY DEF Sync, After

LEMMA SyncWaiting ==
  ASSUME NEW p, NEW m, NEW r, NEW st, r # <<>>, TypeOf(m[1]) \in TwoByteTypes \cup ThreeByteTypes,
         Len(p.pending) = Len(m) - Len(r), p.expected = Len(m),
         \A i \in 1 .. Len(p.pending) : p.pending[i] = m[i]
  PROVE  Sync(p, After(m, r, st))
BY DEF Sync, After

LEMMA SyncSkipping ==
  ASSUME NEW p, NEW m, NEW r, NEW st, r # <<>>,
         TypeOf(m[1]) \notin TwoByteTypes \cup ThreeByteTypes,
         p.pending = <<>>, p.running = InvalidType
  PROVE  Sync(p, After(m, r, st))
BY DEF Sync, After

\* A message that is neither for a channel nor has data the parser waits for.
LEMMA SystemMessage ==
  ASSUME NEW m \in Messages, TypeOf(m[1]) \notin TwoByteTypes \cup ThreeByteTypes
  PROVE  /\ m[1] \in 240 .. 255 /\ m[1] \notin Registered /\ m[1] \notin Transport
         /\ StatusOf(m) = InvalidType /\ Meaning(m) = NoCall
         /\ TypeOf(m[1]) \in OneByteTypes => TypeOf(m[1]) = m[1]
<1>1. m[1] \in 128 .. 255 /\ m[1] \notin RealTimeTypes
  BY MessageIs
<1>2. TypeOf(m[1]) \notin ChannelTypes
  BY TypesApart
<1>3. m[1] \in 0 .. 255 /\ (m[1] \in 128 .. 239 \/ m[1] \in 240 .. 255)
  BY <1>1
<1>4. m[1] \in 240 .. 255
  BY <1>2, <1>3, TypeOfByte
<1>5. m[1] \notin Transport
  BY <1>1, TypeNumbers DEF RealTimeTypes
<1>6. Meaning(m) = NoCall
  BY <1>4, <1>5, OtherMeans
<1>7. TypeOf(m[1]) \in OneByteTypes => TypeOf(m[1]) = m[1]
  BY <1>3, TypeOfByte
<1> QED  BY <1>2, <1>4, <1>5, <1>6, <1>7, SystemByte DEF StatusOf

LEMMA WaitingIs ==
  ASSUME NEW p \in ParserT, NEW first, NEW n
  PROVE  Waiting(p, first, n).pending = first /\ Waiting(p, first, n).expected = n
BY DEF Waiting, ParserT

\* The status byte of a message.
LEMMA StatusFollows ==
  ASSUME NEW m \in Messages, NEW p \in ParserT, p.pending = <<>>
  PROVE  Obeys(p, m[1], CallAt(m, Tail(m)), After(m, Tail(m), StatusOf(m)))
<1> DEFINE type == TypeOf(m[1])
           r == Tail(m)
<1>1. /\ m \in Seq(Byte) /\ Len(m) \in Nat \ {0} /\ IsStatus(m[1])
      /\ type \in OneByteTypes => Len(m) = 1
      /\ type \in TwoByteTypes => Len(m) = 2
      /\ type \in ThreeByteTypes => Len(m) = 3
  BY MessageIs
<1>2. r \in Seq(Byte) /\ Len(r) = Len(m) - 1 /\ (r = <<>> <=> Len(m) = 1)
  <2>1. m # <<>>
    BY <1>1, EmptySeq
  <2>2. r \in Seq(Byte) /\ Len(r) = Len(m) - 1
    BY <1>1, <2>1, HeadTailProperties
  <2> HIDE DEF r
  <2> QED  BY <1>1, <2>2, EmptySeq
<1>3. Parse(p, m[1]) = Starts(p, <<m[1]>>) /\ <<m[1]>>[1] = m[1]
  BY <1>1, StatusStarts
<1> HIDE DEF type, r
<1>4. CASE type \in OneByteTypes
  <2>1. r = <<>> /\ type \notin TwoByteTypes \cup ThreeByteTypes
    BY <1>1, <1>2, <1>4, TypesApart
  <2>2. /\ type = m[1] /\ m[1] \notin Registered /\ m[1] \notin Transport
        /\ StatusOf(m) = InvalidType /\ Meaning(m) = NoCall
    BY <2>1, <1>4, SystemMessage DEF type
  <2>3. Parse(p, m[1]) = [state |-> Idle(p.running), message |-> SingleByte(type)]
    BY <1>3, <1>4 DEF Starts, type
  <2>4. Launch(SingleByte(type)) = NoCall
    BY <2>2, SingleCalled
  <2>5. Idle(p.running).pending = <<>>
    BY DEF Idle
  <2>6. Sync(Idle(p.running), After(m, r, StatusOf(m)))
    BY <2>1, <2>2, <2>5, SyncIdle
  <2> QED  BY <2>1, <2>2, <2>3, <2>4, <2>6 DEF Obeys, CallAt, r
<1>5. CASE type \in TwoByteTypes \cup ThreeByteTypes
  <2>1. Len(m) \in {2, 3} /\ r # <<>>
    BY <1>1, <1>2, <1>5
  <2>2. Parse(p, m[1]) = [state |-> Waiting(p, <<m[1]>>, Len(m)), message |-> NoMessage]
    <3>1. CASE type \in TwoByteTypes
      BY <1>1, <1>3, <3>1, TypesApart, ZenonT(30) DEF Starts, type
    <3>2. CASE type \in ThreeByteTypes
      BY <1>1, <1>3, <3>2, TypesApart, ZenonT(30) DEF Starts, type
    <3> QED  BY <1>5, <3>1, <3>2
  <2> DEFINE w == Waiting(p, <<m[1]>>, Len(m))
  <2>3. w.pending = <<m[1]>> /\ w.expected = Len(m)
    BY WaitingIs
  <2> HIDE DEF w
  <2>4. /\ Len(w.pending) = Len(m) - Len(r)
        /\ \A i \in 1 .. Len(w.pending) : w.pending[i] = m[i]
    BY <1>1, <1>2, <2>3
  <2>5. Sync(w, After(m, r, StatusOf(m)))
    BY <1>5, <2>1, <2>3, <2>4, SyncWaiting DEF type
  <2> QED  BY <2>1, <2>2, <2>5, NothingCalled DEF Obeys, CallAt, r, w
<1>6. CASE type \notin OneByteTypes /\ type \notin TwoByteTypes \cup ThreeByteTypes
  <2>1. StatusOf(m) = InvalidType /\ Meaning(m) = NoCall
    BY <1>6, SystemMessage DEF type
  <2>2. Parse(p, m[1]) = [state |-> Reset, message |-> NoMessage]
    BY <1>3, <1>6 DEF Starts, type
  <2>3. Sync(Reset, After(m, r, StatusOf(m)))
    BY <1>6, <2>1, ResetOk, SyncIdle, SyncSkipping DEF type
  <2> QED  BY <2>1, <2>2, <2>3, NothingCalled DEF Obeys, CallAt, r
<1> QED  BY <1>4, <1>5, <1>6

\* The first data byte of a message under running status.
LEMMA RunningFollows ==
  ASSUME NEW m \in Messages, Len(m) = 3, TypeOf(m[1]) \in ChannelTypes,
         NEW p \in ParserT, p.pending = <<>>, p.running = m[1]
  PROVE  Obeys(p, Head(Tail(m)), CallAt(m, Tail(Tail(m))), After(m, Tail(Tail(m)), StatusOf(m)))
<1> DEFINE r == Tail(Tail(m))
           first == <<m[1], m[2]>>
           w == Waiting(p, first, 3)
<1>1. m \in Seq(Byte) /\ TypeOf(m[1]) \in ThreeByteTypes
  BY MessageIs, TypesApart
<1>2. ~IsStatus(m[2])
  <2>1. TypeOf(240) = 240 /\ 240 \notin ChannelTypes
    BY DEF TypeOf, IsStatus, ChannelTypes
  <2>2. 2 \in 2 .. Len(m)
    OBVIOUS
  <2> QED  BY <2>1, <2>2, MessageIs
<1>3. Tail(m) = <<m[2], m[3]>>
  BY <1>1, TailOfThree
<1>4. Head(Tail(m)) = m[2] /\ r = <<m[3]>>
  <2> DEFINE t == <<m[2], m[3]>>
  <2>1. m[2] \in Byte /\ m[3] \in Byte
    <3>1. 2 \in 1 .. Len(m) /\ 3 \in 1 .. Len(m)
      OBVIOUS
    <3> QED  BY <1>1, <3>1, ElementOfSeq
  <2>2. t \in Seq(Byte) /\ Len(t) = 2 /\ t[2] = m[3] /\ Head(t) = m[2]
    BY <2>1
  <2> HIDE DEF t
  <2>3. Tail(t) = <<t[2]>>
    BY <2>2, TailOfTwo
  <2> QED  BY <1>3, <2>2, <2>3 DEF t
<1>5. Parse(p, m[2]) = Starts(p, first)
  BY <1>2, StartMessageIs DEF Parse
<1>6. Parse(p, m[2]) = [state |-> w, message |-> NoMessage]
  BY <1>1, <1>5, TypesApart DEF Starts
<1>7. w.pending = first /\ w.expected = 3
  BY WaitingIs
<1> HIDE DEF w, r
<1>8. r # <<>> /\ Len(r) = 1
  BY <1>4
<1>9. Sync(w, After(m, r, StatusOf(m)))
  <2>1. Len(w.pending) = Len(m) - Len(r) /\ \A i \in 1 .. Len(w.pending) : w.pending[i] = m[i]
    BY <1>7, <1>8
  <2> QED  BY <1>1, <1>7, <1>8, <2>1, SyncWaiting
<1> QED  BY <1>4, <1>6, <1>8, <1>9, NothingCalled DEF Obeys, CallAt, r

LEMMA EndIs ==
  ASSUME NEW m \in Messages, NEW r, EndOf(r, m)
  PROVE  /\ Len(r) \in Nat \ {0} /\ Len(m) \in Nat /\ Head(r) \in Byte
         /\ Tail(r) \in Seq(Byte) /\ Len(Tail(r)) = Len(r) - 1 /\ (Tail(r) = <<>> <=> Len(r) = 1)
         /\ Head(r) = m[Len(m) - Len(r) + 1]
         /\ IsStatus(Head(r)) => m[1] = 240 /\ Head(r) = 247
         /\ Tail(r) # <<>> => EndOf(Tail(r), m)
<1>1. /\ r \in Seq(Byte) /\ r # <<>> /\ Len(r) < Len(m)
      /\ \A i \in 1 .. Len(r) : r[i] = m[Len(m) - Len(r) + i]
  BY DEF EndOf
<1>2. Len(r) \in Nat \ {0} /\ Len(m) \in Nat /\ Head(r) = r[1]
  BY <1>1, EmptySeq, MessageIs
<1> DEFINE t == Tail(r)
<1>3. t \in Seq(Byte) /\ Len(t) = Len(r) - 1 /\ \A i \in 1 .. Len(t) : t[i] = r[i + 1]
  BY <1>1, HeadTailProperties
<1> HIDE DEF t
<1>4. t = <<>> <=> Len(r) = 1
  BY <1>2, <1>3, EmptySeq
<1>5. 1 \in 1 .. Len(r) /\ Head(r) \in Byte
  BY <1>1, <1>2, ElementOfSeq
<1>6. Head(r) = m[Len(m) - Len(r) + 1]
  BY <1>1, <1>2, <1>5
<1>7. Len(m) - Len(r) + 1 \in 2 .. Len(m)
  BY <1>1, <1>2
<1>8. IsStatus(Head(r)) => m[1] = 240 /\ Head(r) = 247
  BY <1>6, <1>7, MessageIs
<1>9. ASSUME t # <<>> PROVE EndOf(t, m)
  <2>1. ASSUME NEW i \in 1 .. Len(t) PROVE t[i] = m[Len(m) - Len(t) + i]
    <3>1. i + 1 \in 1 .. Len(r) /\ Len(m) - Len(r) + (i + 1) = Len(m) - Len(t) + i
      BY <1>2, <1>3
    <3>2. t[i] = r[i + 1]
      BY <1>3
    <3> QED  BY <1>1, <3>1, <3>2
  <2>2. Len(t) < Len(m)
    BY <1>1, <1>2, <1>3
  <2> QED  BY <1>3, <1>9, <2>1, <2>2 DEF EndOf
<1> QED  BY <1>2, <1>3, <1>4, <1>5, <1>6, <1>8, <1>9 DEF t

\* Another byte of a message.
LEMMA DataFollows ==
  ASSUME NEW m \in Messages, NEW r, EndOf(r, m), NEW p \in ParserT,
         Sync(p, <<m, r, StatusOf(m)>>)
  PROVE  Obeys(p, Head(r), CallAt(m, Tail(r)), After(m, Tail(r), StatusOf(m)))
<1> DEFINE type == TypeOf(m[1])
           b == Head(r)
           t == Tail(r)
           s == After(m, t, StatusOf(m))
<1>1. /\ r # <<>> /\ Len(r) \in Nat \ {0} /\ Len(r) < Len(m) /\ Len(m) \in Nat /\ b \in Byte
      /\ t \in Seq(Byte) /\ Len(t) = Len(r) - 1 /\ (t = <<>> <=> Len(r) = 1)
      /\ b = m[Len(m) - Len(r) + 1]
      /\ IsStatus(b) => m[1] = 240 /\ b = 247
  BY EndIs DEF EndOf
<1>2. b \notin RealTimeTypes
  <2>1. \A x \in RealTimeTypes : IsStatus(x) /\ x # 247
    BY DEF RealTimeTypes, IsStatus
  <2> QED  BY <1>1, <2>1
<1>3. /\ type \in TwoByteTypes => Len(m) = 2
      /\ type \in ThreeByteTypes => Len(m) = 3
      /\ type \in OneByteTypes => Len(m) = 1
  BY MessageIs
<1> HIDE DEF b, t, type
<1>4. CASE type \in TwoByteTypes \cup ThreeByteTypes
  <2> DEFINE x == Append(p.pending, b)
             k == Len(p.pending)
  <2>1. /\ k = Len(m) - Len(r) /\ p.expected = Len(m)
        /\ \A i \in 1 .. k : p.pending[i] = m[i]
    BY <1>1, <1>4 DEF Sync, type
  <2>2. p.pending \in Seq(Byte) /\ k \in Nat \ {0} /\ p.pending # <<>>
    <3>1. p.pending \in Seq(Byte)
      BY DEF ParserT
    <3>2. Len(p.pending) > 0
      BY <1>1, <2>1
    <3> QED  BY <1>1, <2>1, <3>1, <3>2, EmptySeq
  <2>3. /\ x \in Seq(Byte) /\ Len(x) = k + 1 /\ x[k + 1] = b
        /\ \A i \in 1 .. k : x[i] = p.pending[i]
    BY <1>1, <2>2, AppendProperties
  <2> HIDE DEF x, k
  <2>4. \A i \in 1 .. Len(x) : x[i] = m[i]
    <3>1. TAKE i \in 1 .. Len(x)
    <3>2. CASE i \in 1 .. k
      BY <2>1, <2>3, <3>2
    <3>3. CASE i = k + 1
      BY <1>1, <2>1, <2>3, <3>3
    <3> QED  BY <2>2, <2>3, <3>2, <3>3
  <2>5. b # 247
    <3>1. TypeOf(240) = 240 /\ IsStatus(247)
      BY DEF TypeOf, IsStatus
    <3> QED  BY <1>1, <1>4, <3>1, TypesApart DEF type
  <2>6. x[1] = m[1]
    BY <2>2, <2>3, <2>4
  <2>7. CASE t = <<>>
    <3>1. Completes(p) /\ Len(x) = Len(m)
      <4>1. Len(r) = 1
        BY <1>1, <2>7
      <4>2. k >= p.expected - 1 /\ Len(x) = Len(m)
        BY <1>1, <2>1, <2>2, <2>3, <4>1
      <4> QED  BY <4>2 DEF Completes, k
    <3>2. Parse(p, b) = [state   |-> Idle(IF type \in ChannelTypes THEN m[1] ELSE InvalidType),
                         message |-> Message(x, Len(m))]
      BY <1>2, <2>1, <2>2, <2>5, <2>6, <3>1
         DEF Parse, ContinueMessage, Interleaved, x, type
    <3>3. Launch(Message(x, Len(m))) = Meaning(m)
      BY <1>4, <2>4, <3>1, MessageMeans DEF type
    <3>4. Idle(StatusOf(m)).pending = <<>> /\ Idle(StatusOf(m)).running = StatusOf(m)
      BY DEF Idle
    <3>5. Sync(Idle(StatusOf(m)), s)
      BY <2>7, <3>4, SyncIdle
    <3> QED  BY <2>7, <3>2, <3>3, <3>5 DEF Obeys, CallAt, StatusOf, type, b, t
  <2>8. CASE t # <<>>
    <3>1. ~Completes(p)
      BY <1>1, <2>1, <2>2, <2>8 DEF Completes, k
    <3> DEFINE w == [p EXCEPT !.pending = x]
    <3>2. Parse(p, b) = [state |-> w, message |-> NoMessage]
      BY <1>2, <2>2, <2>5, <3>1 DEF Parse, ContinueMessage, Interleaved, x
    <3>3. w.pending = x /\ w.expected = p.expected
      BY DEF ParserT
    <3> HIDE DEF w
    <3>4. Len(w.pending) = Len(m) - Len(t)
      BY <1>1, <2>1, <2>3, <3>3
    <3>5. Sync(w, s)
      BY <1>4, <2>1, <2>4, <2>8, <3>3, <3>4, SyncWaiting DEF type
    <3> QED  BY <2>8, <3>2, <3>5, NothingCalled DEF Obeys, CallAt, b, t
  <2> QED  BY <2>7, <2>8
<1>5. CASE type \notin TwoByteTypes \cup ThreeByteTypes
  <2>1. p.pending = <<>> /\ p.running = InvalidType
    BY <1>1, <1>5 DEF Sync, type
  <2>2. StatusOf(m) = InvalidType /\ Meaning(m) = NoCall
    BY <1>5, SystemMessage DEF type
  <2>3. TypeOf(b) \notin OneByteTypes \cup TwoByteTypes \cup ThreeByteTypes
    <3>1. CASE b = 247
      <4>1. TypeOf(247) = 247 /\ 247 \notin OneByteTypes \cup TwoByteTypes \cup ThreeByteTypes
        BY DEF TypeOf, IsStatus, OneByteTypes, TwoByteTypes, ThreeByteTypes, RealTimeTypes
      <4> QED  BY <3>1, <4>1
    <3>2. CASE ~IsStatus(b)
      BY <3>2, TypesApart DEF TypeOf
    <3> QED  BY <1>1, <3>1, <3>2
  <2>4. TypeOf(p.running) \notin ChannelTypes
    BY <2>1, TypesApart DEF TypeOf, IsStatus, InvalidType
  <2>5. Parse(p, b) = Starts(p, <<b>>)
    BY <2>1, <2>4, StartMessageIs DEF Parse
  <2>6. Parse(p, b) = [state |-> Reset, message |-> NoMessage]
    BY <2>3, <2>5 DEF Starts
  <2>7. Sync(Reset, s)
    BY <1>5, <2>2, ResetOk, SyncIdle, SyncSkipping DEF type
  <2> QED  BY <2>2, <2>6, <2>7, NothingCalled DEF Obeys, CallAt, b, t
<1> QED  BY <1>4, <1>5

\* The end of a system exclusive message, whatever was lost before.
LEMMA EndResumes ==
  ASSUME NEW m \in Messages, NEW r, EndOf(r, m)
  PROVE  Resumes(Head(r), CallAt(m, Tail(r)), After(m, Tail(r), StatusOf(m)))
<1> SUFFICES ASSUME IsStatus(Head(r)), NEW p \in ParserT, p.pending = <<>>
             PROVE  Obeys(p, Head(r), CallAt(m, Tail(r)), After(m, Tail(r), StatusOf(m)))
  BY DEF Resumes
<1>1. m[1] = 240 /\ Head(r) = 247
  BY EndIs
<1>2. /\ TypeOf(240) = 240 /\ TypeOf(247) = 247 /\ 240 \notin Transport
      /\ \A x \in {240, 247} : x \notin OneByteTypes \cup TwoByteTypes \cup ThreeByteTypes
  BY TypeNumbers
     DEF TypeOf, IsStatus, OneByteTypes, TwoByteTypes, ThreeByteTypes, RealTimeTypes
<1>3. StatusOf(m) = InvalidType /\ Meaning(m) = NoCall
  BY <1>1, <1>2, SystemMessage
<1>4. Parse(p, 247) = [state |-> Reset, message |-> NoMessage]
  <2>1. IsStatus(247)
    BY DEF IsStatus
  <2>2. Parse(p, 247) = Starts(p, <<247>>)
    BY <2>1, StatusStarts
  <2> QED  BY <1>2, <2>2 DEF Starts
<1>5. Sync(Reset, After(m, Tail(r), StatusOf(m)))
  BY <1>1, <1>2, <1>3, ResetOk, SyncIdle, SyncSkipping
<1> QED  BY <1>1, <1>3, <1>4, <1>5, NothingCalled DEF Obeys, CallAt

\* A real-time byte leaves the parser in step with a sender that sends a message.
LEMMA RealTimeFollows ==
  ASSUME NEW b \in RealTime, NEW m, NEW r, NEW st, r = <<>> \/ (m \in Messages /\ EndOf(r, m)),
         NEW p \in ParserT, Sync(p, <<m, r, st>>)
  PROVE  Obeys(p, b, Meaning(<<b>>), <<m, r, st>>)
<1> DEFINE w == Parse(p, b).state
           type == TypeOf(m[1])
<1>1. b \in RealTimeTypes
  BY ConstantTypes
<1>2. /\ Launch(Parse(p, b).message) = Meaning(<<b>>)
      /\ w.pending = p.pending /\ w.running = p.running
      /\ p.pending # <<>> => w = p
  BY <1>1, RealTimeParsed
<1> HIDE DEF w
<1>3. CASE r = <<>> \/ type \notin TwoByteTypes \cup ThreeByteTypes
  BY <1>2, <1>3 DEF Sync, Obeys, w
<1>4. CASE r # <<>> /\ type \in TwoByteTypes \cup ThreeByteTypes
  <2>1. Len(p.pending) = Len(m) - Len(r)
    BY <1>4 DEF Sync
  <2>2. Len(r) \in Nat /\ Len(m) \in Nat /\ Len(r) < Len(m)
    BY <1>4, EndIs DEF EndOf
  <2>3. p.pending # <<>>
    BY <2>1, <2>2
  <2> QED  BY <1>2, <2>3 DEF Obeys, w
<1> QED  BY <1>3, <1>4
-----------------------------------------------------------------------------
(* The sender's steps *)

LEMMA TailEnds ==
  ASSUME NEW m \in Messages
  PROVE  Tail(m) \in Seq(Byte) /\ (Tail(m) # <<>> => EndOf(Tail(m), m))
<1> DEFINE r == Tail(m)
<1>1. m \in Seq(Byte) /\ m # <<>> /\ Len(m) \in Nat \ {0}
  BY MessageIs, ConstantTypes
<1>2. /\ r \in Seq(Byte) /\ Len(r) = Len(m) - 1
      /\ \A i \in 1 .. Len(r) : r[i] = m[i + 1]
  BY <1>1, HeadTailProperties
<1> HIDE DEF r
<1>3. \A i \in 1 .. Len(r) : Len(m) - Len(r) + i = i + 1
  BY <1>1, <1>2
<1>4. r # <<>> => EndOf(r, m)
  BY <1>1, <1>2, <1>3 DEF EndOf
<1> QED  BY <1>2, <1>4 DEF r

LEMMA StatusTyped ==
  ASSUME NEW m \in Messages
  PROVE  /\ StatusOf(m) \in Byte \cup {InvalidType}
         /\ StatusOf(m) # InvalidType => TypeOf(StatusOf(m)) \in ChannelTypes
BY MessageIs DEF StatusOf

LEMMA CallTyped ==
  ASSUME NEW m \in Messages, NEW r
  PROVE  CallAt(m, r) \in Calls
BY DEF CallAt, Calls

LEMMA StartSends ==
  ASSUME SenderInv, StartSending
  PROVE  \E b \in Byte, call \in Calls :
           /\ Transmit(b, call) /\ SenderInv'
           /\ Resumes(b, call, <<sending', rest', status'>>)
           /\ Follows(<<sending, rest, status>>, b, call, <<sending', rest', status'>>)
<1>1. PICK m \in Messages :
        /\ SendFrom(m, m) \/ (m[1] = status /\ Len(m) \in RunningLengths /\ SendFrom(m, Tail(m)))
        /\ status' = StatusOf(m)
  BY DEF StartSending, StatusOf
<1>2. rest = <<>>
  BY DEF StartSending
<1>3. m \in Seq(Byte) /\ m # <<>> /\ m[1] \in Byte /\ Head(m) = m[1] /\ m[1] \in 128 .. 255
  BY MessageIs, ConstantTypes
<1>4. Tail(m) \in Seq(Byte) /\ (Tail(m) # <<>> => EndOf(Tail(m), m))
  BY TailEnds
<1>5. CASE SendFrom(m, m)
  <2> DEFINE r == Tail(m)
             s == After(m, r, StatusOf(m))
  <2>1. /\ Transmit(m[1], CallAt(m, r))
        /\ sending' = (IF r = <<>> THEN <<>> ELSE m) /\ rest' = r
    BY <1>3, <1>5 DEF SendFrom, CallAt
  <2>2. <<sending', rest', status'>> = s
    BY <1>1, <2>1 DEF After
  <2>3. \A p \in ParserT : p.pending = <<>> => Obeys(p, m[1], CallAt(m, r), s)
    BY StatusFollows
  <2> HIDE DEF s
  <2>4. Resumes(m[1], CallAt(m, r), s)
    BY <2>3 DEF Resumes
  <2>5. Follows(<<sending, rest, status>>, m[1], CallAt(m, r), s)
    BY <1>2, <2>3 DEF Follows, Sync
  <2>6. SenderInv'
    BY <1>1, <1>4, <2>1, StatusTyped DEF SenderInv
  <2> QED  BY <1>3, <2>1, <2>2, <2>4, <2>5, <2>6, CallTyped
<1>6. CASE m[1] = status /\ Len(m) \in RunningLengths /\ SendFrom(m, Tail(m))
  <2> DEFINE r == Tail(Tail(m))
             b == Head(Tail(m))
             s == After(m, r, StatusOf(m))
  <2>1. /\ Transmit(b, CallAt(m, r))
        /\ sending' = (IF r = <<>> THEN <<>> ELSE m) /\ rest' = r
    BY <1>6 DEF SendFrom, CallAt
  <2>2. <<sending', rest', status'>> = s
    BY <1>1, <2>1 DEF After
  <2>3. Len(m) = 3 /\ status # InvalidType /\ TypeOf(m[1]) \in ChannelTypes
    <3>1. Len(m) = 3
      BY <1>6, ConstantTypes
    <3>2. status # InvalidType
      <4>1. \A x \in 128 .. 255 : x # InvalidType
        BY DEF InvalidType
      <4> QED  BY <1>3, <1>6, <4>1
    <3> QED  BY <1>6, <3>1, <3>2 DEF SenderInv
  <2>4. Tail(m) # <<>> /\ EndOf(Tail(m), m)
    <3>1. Len(Tail(m)) = 2
      BY <1>3, <2>3, HeadTailProperties
    <3>2. Len(<<>>) # 2
      OBVIOUS
    <3> QED  BY <1>4, <3>1, <3>2
  <2>5. /\ b \in Byte /\ r \in Seq(Byte) /\ (r # <<>> => EndOf(r, m))
        /\ IsStatus(b) => m[1] = 240
    <3> DEFINE t == Tail(m)
    <3>1. EndOf(t, m)
      BY <2>4
    <3> HIDE DEF t
    <3>2. /\ Head(t) \in Byte /\ Tail(t) \in Seq(Byte)
          /\ Tail(t) # <<>> => EndOf(Tail(t), m)
          /\ IsStatus(Head(t)) => m[1] = 240 /\ Head(t) = 247
      BY <3>1, EndIs
    <3> QED  BY <3>2 DEF t
  <2>6. ~IsStatus(b)
    <3>1. TypeOf(240) = 240 /\ 240 \notin ChannelTypes
      BY DEF TypeOf, IsStatus, ChannelTypes
    <3> QED  BY <2>3, <2>5, <3>1
  <2>7. \A p \in ParserT : p.pending = <<>> /\ p.running = m[1] => Obeys(p, b, CallAt(m, r), s)
    BY <2>3, RunningFollows
  <2> HIDE DEF s, b, r
  <2>8. Resumes(b, CallAt(m, r), s)
    BY <2>6 DEF Resumes
  <2>9. Follows(<<sending, rest, status>>, b, CallAt(m, r), s)
    BY <1>2, <1>6, <2>3, <2>7 DEF Follows, Sync
  <2>10. SenderInv'
    BY <1>1, <2>1, <2>5, StatusTyped DEF SenderInv
  <2> QED  BY <2>1, <2>2, <2>5, <2>8, <2>9, <2>10, CallTyped
<1> QED  BY <1>1, <1>5, <1>6

LEMMA GoesOnSending ==
  ASSUME SenderInv, GoOnSending
  PROVE  \E b \in Byte, call \in Calls :
           /\ Transmit(b, call) /\ SenderInv'
           /\ Resumes(b, call, <<sending', rest', status'>>)
           /\ Follows(<<sending, rest, status>>, b, call, <<sending', rest', status'>>)
<1> DEFINE m == sending
           r == Tail(rest)
           b == Head(rest)
           s == After(m, r, StatusOf(m))
<1>1. /\ rest # <<>> /\ m \in Messages /\ EndOf(rest, m) /\ status = StatusOf(m)
      /\ status' = status /\ SendFrom(m, rest)
  BY DEF GoOnSending, SenderInv
<1>2. /\ Transmit(b, CallAt(m, r))
      /\ sending' = (IF r = <<>> THEN <<>> ELSE m) /\ rest' = r
  BY <1>1 DEF SendFrom, CallAt
<1>3. <<sending', rest', status'>> = s
  BY <1>1, <1>2 DEF After
<1>4. b \in Byte /\ r \in Seq(Byte) /\ (r # <<>> => EndOf(r, m))
  BY <1>1, EndIs
<1>5. Resumes(b, CallAt(m, r), s)
  BY <1>1, EndResumes
<1>6. Follows(<<sending, rest, status>>, b, CallAt(m, r), s)
  BY <1>1, DataFollows DEF Follows
<1>7. SenderInv'
  BY <1>1, <1>2, <1>4 DEF SenderInv
<1>8. CallAt(m, r) \in Calls
  BY <1>1, CallTyped
<1> HIDE DEF s, b, r
<1> QED  BY <1>2, <1>3, <1>4, <1>5, <1>6, <1>7, <1>8

LEMMA RealTimeSends ==
  ASSUME SenderInv, SendRealTime
  PROVE  \E b \in Byte, call \in Calls :
           /\ Transmit(b, call) /\ SenderInv'
           /\ Resumes(b, call, <<sending', rest', status'>>)
           /\ Follows(<<sending, rest, status>>, b, call, <<sending', rest', status'>>)
<1>1. PICK b \in RealTime : Transmit(b, Meaning(<<b>>))
  BY DEF SendRealTime
<1>2. sending' = sending /\ rest' = rest /\ status' = status
  BY DEF SendRealTime, sender
<1>3. b \in Byte /\ b \in RealTimeTypes /\ Meaning(<<b>>) \in Calls
  BY ConstantTypes DEF Calls
<1>4. Resumes(b, Meaning(<<b>>), <<sending', rest', status'>>)
  BY <1>3 DEF Resumes
<1>5. Follows(<<sending, rest, status>>, b, Meaning(<<b>>), <<sending', rest', status'>>)
  <2>1. rest = <<>> \/ (sending \in Messages /\ EndOf(rest, sending))
    BY DEF SenderInv
  <2>2. \A p \in ParserT : Sync(p, <<sending, rest, status>>)
                             => Obeys(p, b, Meaning(<<b>>), <<sending, rest, status>>)
    BY <2>1, RealTimeFollows
  <2> QED  BY <1>2, <2>2 DEF Follows
<1>6. SenderInv'
  BY <1>2 DEF SenderInv
<1> QED  BY <1>1, <1>3, <1>4, <1>5, <1>6
-----------------------------------------------------------------------------
(* Bytes that come, are lost and are parsed *)

\* The states u start at x, or end at it as the n-th.
From(u, x)  == u[0] = x
To(u, n, x) == u[n] = x

LEMMA LeadsOn ==
  ASSUME NEW st, NEW bytes \in Seq(Byte), NEW tr \in Seq(Entry), NEW b \in Byte,
         NEW e \in Entry, NEW s,
         Len(tr) = Len(bytes), Leads(st, bytes, tr), Resumes(b, e.call, s),
         e.gap \/ Follows(st[Len(tr)], b, e.call, s)
  PROVE  \E u : /\ Leads(u, Append(bytes, b), Append(tr, e))
                /\ From(u, st[0]) /\ To(u, Len(tr) + 1, s)
<1> DEFINE n == Len(tr)
           by == Append(bytes, b)
           tt == Append(tr, e)
           u == [i \in 0 .. n + 1 |-> IF i <= n THEN st[i] ELSE s]
<1>1. n \in Nat /\ Len(bytes) = n
  BY LenProperties
<1>2. /\ Len(tt) = n + 1 /\ tt[n + 1] = e /\ by[n + 1] = b
      /\ \A i \in 1 .. n : tt[i] = tr[i] /\ by[i] = bytes[i]
  BY <1>1, AppendProperties
<1>3. /\ DOMAIN u = 0 .. n + 1 /\ u[n + 1] = s
      /\ \A i \in 0 .. n : u[i] = st[i]
  BY <1>1
<1>4. \A i \in 1 .. n : /\ Resumes(bytes[i], tr[i].call, st[i])
                        /\ ~tr[i].gap => Follows(st[i - 1], bytes[i], tr[i].call, st[i])
  BY DEF Leads
<1> HIDE DEF by, tt, u
<1>5. ASSUME NEW i \in 1 .. n + 1
      PROVE  /\ Resumes(by[i], tt[i].call, u[i])
             /\ ~tt[i].gap => Follows(u[i - 1], by[i], tt[i].call, u[i])
  <2>1. CASE i \in 1 .. n
    <3>1. i \in 0 .. n /\ i - 1 \in 0 .. n
      BY <1>1, <2>1
    <3> QED  BY <1>2, <1>3, <1>4, <2>1, <3>1
  <2>2. CASE i = n + 1
    <3>1. n \in 0 .. n /\ i - 1 = n
      BY <1>1, <2>2
    <3> QED  BY <1>2, <1>3, <2>2, <3>1
  <2> QED  BY <1>1, <2>1, <2>2
<1>6. Leads(u, by, tt)
  BY <1>2, <1>3, <1>5 DEF Leads
<1>7. u[0] = st[0]
  BY <1>1, <1>3
<1> QED  BY <1>3, <1>6, <1>7 DEF by, tt, From, To

\* The trail tr without its k-th entry, and with a gap before what was the next.
Shorter(d, tr, k) ==
  /\ Len(d) = Len(tr) - 1
  /\ \A i \in 1 .. Len(tr) - 1 :
       /\ d[i].call = tr[IF i < k THEN i ELSE i + 1].call
       /\ i < k => d[i].gap = tr[i].gap
       /\ i = k => d[i].gap
       /\ i > k => d[i].gap = tr[i + 1].gap

\* The bytes without the k-th.
Fewer(less, bytes, k, n) ==
  \A i \in 1 .. n - 1 : less[i] = bytes[IF i < k THEN i ELSE i + 1]

LEMMA LeadsWithout ==
  ASSUME NEW st, NEW bytes, NEW tr \in Seq(Entry), Leads(st, bytes, tr),
         NEW k \in 1 .. Len(tr), NEW less, Fewer(less, bytes, k, Len(tr)),
         NEW d, Shorter(d, tr, k)
  PROVE  \E u : /\ Leads(u, less, d) /\ From(u, st[0])
                /\ k < Len(tr) => To(u, Len(d), st[Len(tr)])
<1> DEFINE n == Len(tr)
           at(i) == IF i < k THEN i ELSE i + 1
           u == [i \in 0 .. n - 1 |-> st[at(i)]]
<1>8. /\ Len(d) = n - 1
      /\ \A i \in 1 .. n - 1 : less[i] = bytes[at(i)] /\ d[i].call = tr[at(i)].call
      /\ \A i \in 1 .. n - 1 : i < k => d[i].gap = tr[i].gap
      /\ \A i \in 1 .. n - 1 : i = k => d[i].gap
      /\ \A i \in 1 .. n - 1 : i > k => d[i].gap = tr[i + 1].gap
  BY DEF Shorter, Fewer
<1>1. n \in Nat /\ k \in Nat /\ k >= 1 /\ k <= n
  BY LenProperties
<1>2. DOMAIN u = 0 .. n - 1 /\ \A i \in 0 .. n - 1 : u[i] = st[at(i)]
  OBVIOUS
<1>3. \A i \in 1 .. n : /\ Resumes(bytes[i], tr[i].call, st[i])
                        /\ ~tr[i].gap => Follows(st[i - 1], bytes[i], tr[i].call, st[i])
  BY DEF Leads
<1> HIDE DEF u
<1>4. ASSUME NEW i \in 1 .. n - 1
      PROVE  /\ Resumes(less[i], d[i].call, u[i])
             /\ ~d[i].gap => Follows(u[i - 1], less[i], d[i].call, u[i])
  <2>1. i \in 0 .. n - 1 /\ i - 1 \in 0 .. n - 1 /\ i \in 1 .. n /\ i + 1 \in 1 .. n
    BY <1>1
  <2>2. CASE i < k
    <3>1. u[i] = st[i] /\ u[i - 1] = st[i - 1]
      BY <1>1, <1>2, <2>1, <2>2
    <3>2. less[i] = bytes[i] /\ d[i].call = tr[i].call /\ d[i].gap = tr[i].gap
      BY <1>8, <2>2
    <3> QED  BY <1>3, <2>1, <3>1, <3>2
  <2>3. CASE i = k
    <3>1. u[i] = st[i + 1] /\ less[i] = bytes[i + 1] /\ d[i].call = tr[i + 1].call /\ d[i].gap
      BY <1>1, <1>2, <1>8, <2>1, <2>3
    <3> QED  BY <1>3, <2>1, <3>1
  <2>4. CASE i > k
    <3>1. u[i] = st[i + 1] /\ u[i - 1] = st[i]
      BY <1>1, <1>2, <2>1, <2>4
    <3>2. less[i] = bytes[i + 1] /\ d[i].call = tr[i + 1].call /\ d[i].gap = tr[i + 1].gap
      BY <1>1, <1>8, <2>1, <2>4
    <3>3. (i + 1) - 1 = i
      BY <2>1
    <3> QED  BY <1>3, <2>1, <3>1, <3>2, <3>3
  <2> QED  BY <1>1, <2>1, <2>2, <2>3, <2>4
<1>5. Leads(u, less, d)
  BY <1>2, <1>4, <1>8 DEF Leads
<1>6. u[0] = st[0]
  BY <1>1, <1>2
<1>7. ASSUME k < n PROVE u[n - 1] = st[n]
  <2>1. n - 1 \in 0 .. n - 1 /\ at(n - 1) = n
    BY <1>1, <1>7
  <2> QED  BY <1>2, <2>1
<1> QED  BY <1>5, <1>6, <1>7, <1>8 DEF From, To

LEMMA LeadsFrom ==
  ASSUME NEW st, NEW bytes \in Seq(Byte), NEW tr \in Seq(Entry), Len(tr) = Len(bytes),
         Leads(st, bytes, tr), tr # <<>>
  PROVE  \E u : /\ Leads(u, Tail(bytes), Tail(tr))
                /\ From(u, st[1]) /\ To(u, Len(tr) - 1, st[Len(tr)])
<1> DEFINE n == Len(tr)
           by == Tail(bytes)
           tt == Tail(tr)
           u == [i \in 0 .. n - 1 |-> st[i + 1]]
<1>1. n \in Nat \ {0} /\ Len(bytes) = n /\ bytes # <<>>
  <2>1. n \in Nat \ {0}
    BY EmptySeq
  <2>2. Len(<<>>) = 0
    OBVIOUS
  <2> QED  BY <2>1, <2>2
<1>2. Len(tt) = n - 1 /\ \A i \in 1 .. n - 1 : tt[i] = tr[i + 1]
  BY <1>1, HeadTailProperties
<1>3. \A i \in 1 .. n - 1 : by[i] = bytes[i + 1]
  BY <1>1, HeadTailProperties
<1>4. DOMAIN u = 0 .. n - 1 /\ \A i \in 0 .. n - 1 : u[i] = st[i + 1]
  OBVIOUS
<1>5. \A i \in 1 .. n : /\ Resumes(bytes[i], tr[i].call, st[i])
                        /\ ~tr[i].gap => Follows(st[i - 1], bytes[i], tr[i].call, st[i])
  BY DEF Leads
<1> HIDE DEF by, tt, u
<1>6. ASSUME NEW i \in 1 .. n - 1
      PROVE  /\ Resumes(by[i], tt[i].call, u[i])
             /\ ~tt[i].gap => Follows(u[i - 1], by[i], tt[i].call, u[i])
  <2>1. i \in 0 .. n - 1 /\ i - 1 \in 0 .. n - 1 /\ i + 1 \in 1 .. n
    BY <1>1
  <2>2. u[i] = st[i + 1] /\ u[i - 1] = st[i] /\ (i + 1) - 1 = i
    BY <1>4, <2>1
  <2> QED  BY <1>2, <1>3, <1>5, <2>1, <2>2
<1>7. Leads(u, by, tt)
  BY <1>2, <1>4, <1>6 DEF Leads
<1>8. u[0] = st[1] /\ u[n - 1] = st[n]
  BY <1>1, <1>4
<1> QED  BY <1>7, <1>8 DEF by, tt, From, To

\* The trail without its k-th entry, as store_char() leaves it.
LEMMA Without ==
  ASSUME NEW tr \in Seq(Entry), NEW k \in 1 .. Len(tr),
         NEW d, d = RemoveAt(IF k < Len(tr) THEN [tr EXCEPT ![k + 1].gap = TRUE] ELSE tr, k)
  PROVE  d \in Seq(Entry) /\ Shorter(d, tr, k)
<1> DEFINE n == Len(tr)
           x == IF k < n THEN [tr EXCEPT ![k + 1].gap = TRUE] ELSE tr
           j == k - 1
           l == SubSeq(x, 1, j)
           r == SubSeq(x, k + 1, n)
<1>1. n \in Nat /\ k \in Nat /\ k >= 1 /\ k <= n /\ \A i \in 1 .. n : tr[i] \in Entry
  BY LenProperties, ElementOfSeq
<1>2. /\ x \in Seq(Entry) /\ Len(x) = n
      /\ \A i \in 1 .. n : i # k + 1 => x[i] = tr[i]
      /\ k < n => x[k + 1].call = tr[k + 1].call /\ x[k + 1].gap
  <2>1. CASE k < n
    <3> DEFINE e == [tr[k + 1] EXCEPT !.gap = TRUE]
    <3>1. k + 1 \in 1 .. n
      BY <1>1, <2>1
    <3>2. e \in Entry /\ e.call = tr[k + 1].call /\ e.gap
      BY <1>1, <3>1 DEF Entry
    <3>3. x = [tr EXCEPT ![k + 1] = e]
      BY <2>1
    <3> HIDE DEF x, e
    <3> QED  BY <3>1, <3>2, <3>3, ExceptSeq
  <2>2. CASE ~(k < n)
    BY <2>2
  <2> QED  BY <2>1, <2>2
<1> HIDE DEF x
<1>3. \A i \in 1 .. n : x[i] \in Entry
  BY <1>2, ElementOfSeq
<1>11. j \in Nat /\ j + 1 = k
  BY <1>1
<1> HIDE DEF j
<1>4. l \in Seq(Entry) /\ Len(l) = j /\ \A i \in 1 .. j : l[i] = x[i]
  <2>1. \A i \in 1 .. j : x[i] \in Entry
    BY <1>11, <1>1, <1>3
  <2>2. /\ l \in Seq(Entry) /\ Len(l) = (IF 1 <= j THEN j - 1 + 1 ELSE 0)
        /\ \A i \in 1 .. j - 1 + 1 : l[i] = x[1 + i - 1]
    BY <1>11, <2>1, SubSeqProperties
  <2> HIDE DEF l
  <2> QED  BY <1>11, <2>2
<1>5. r \in Seq(Entry) /\ Len(r) = n - k /\ \A i \in 1 .. n - k : r[i] = x[k + i]
  <2>1. \A i \in k + 1 .. n : x[i] \in Entry
    BY <1>1, <1>3
  <2>2. /\ r \in Seq(Entry) /\ Len(r) = (IF k + 1 <= n THEN n - (k + 1) + 1 ELSE 0)
        /\ \A i \in 1 .. n - (k + 1) + 1 : r[i] = x[k + 1 + i - 1]
    BY <1>1, <2>1, SubSeqProperties
  <2> HIDE DEF r
  <2> QED  BY <1>1, <2>2
<1>6. d = l \o r
  BY <1>2 DEF RemoveAt, x, j
<1> HIDE DEF l, r
<1>7. /\ d \in Seq(Entry) /\ Len(d) = Len(l) + Len(r)
      /\ \A i \in 1 .. Len(l) + Len(r) : d[i] = IF i <= Len(l) THEN l[i] ELSE r[i - Len(l)]
  <2>1. l \in Seq(Entry) /\ r \in Seq(Entry)
    BY <1>4, <1>5
  <2>2. /\ l \o r \in Seq(Entry) /\ Len(l \o r) = Len(l) + Len(r)
        /\ \A i \in 1 .. Len(l) + Len(r) :
             (l \o r)[i] = IF i <= Len(l) THEN l[i] ELSE r[i - Len(l)]
    BY <2>1, ConcatProperties
  <2> QED  BY <1>6, <2>2
<1>8. Len(d) = n - 1
  BY <1>11, <1>1, <1>4, <1>5, <1>7
<1>9. ASSUME NEW i \in 1 .. n - 1
      PROVE  (i < k => d[i] = x[i]) /\ (i >= k => d[i] = x[i + 1])
  <2>1. i \in 1 .. Len(l) + Len(r)
    BY <1>11, <1>1, <1>4, <1>5
  <2>2. ASSUME i < k PROVE d[i] = x[i]
    <3>1. i <= Len(l) /\ i \in 1 .. j
      BY <1>11, <1>1, <1>4, <2>2
    <3> QED  BY <1>4, <1>7, <2>1, <3>1
  <2>3. ASSUME i >= k PROVE d[i] = x[i + 1]
    <3>1. ~(i <= Len(l)) /\ i - Len(l) \in 1 .. n - k /\ k + (i - Len(l)) = i + 1
      BY <1>11, <1>1, <1>4, <2>3
    <3>2. d[i] = r[i - Len(l)]
      BY <1>7, <2>1, <3>1
    <3> QED  BY <1>5, <3>1, <3>2
  <2> QED  BY <2>2, <2>3
<1>10. ASSUME NEW i \in 1 .. n - 1
       PROVE  /\ d[i].call = tr[IF i < k THEN i ELSE i + 1].call
              /\ i < k => d[i].gap = tr[i].gap
              /\ i = k => d[i].gap
              /\ i > k => d[i].gap = tr[i + 1].gap
  <2>1. i \in 1 .. n /\ i + 1 \in 1 .. n /\ i \in Int
    BY <1>1
  <2>2. CASE i < k
    <3>1. i # k + 1 /\ ~(i = k) /\ ~(i > k)
      BY <1>1, <2>1, <2>2
    <3>2. d[i] = tr[i]
      BY <1>2, <1>9, <2>1, <2>2, <3>1
    <3> QED  BY <2>2, <3>1, <3>2
  <2>3. CASE i = k
    <3>1. k < n /\ i >= k /\ ~(i < k) /\ ~(i > k)
      BY <1>1, <2>3
    <3>2. d[i] = x[k + 1]
      BY <1>9, <2>3, <3>1
    <3> QED  BY <1>2, <2>3, <3>1, <3>2
  <2>4. CASE i > k
    <3>1. i + 1 # k + 1 /\ i >= k /\ ~(i < k) /\ ~(i = k)
      BY <1>1, <2>1, <2>4
    <3>2. d[i] = x[i + 1]
      BY <1>9, <3>1
    <3>3. x[i + 1] = tr[i + 1]
      BY <1>2, <2>1, <3>1
    <3> QED  BY <3>1, <3>2, <3>3
  <2> QED  BY <1>1, <2>1, <2>2, <2>3, <2>4
<1> QED  BY <1>7, <1>8, <1>10 DEF Shorter
-----------------------------------------------------------------------------
(* The steps keep the invariants *)

LEMMA TransmitTyped ==
  ASSUME QueueInv, NEW b \in Byte, NEW call \in Calls, Transmit(b, call)
  PROVE  QueueInv'
<1>1. CASE Len(uart) < UART_DEPTH
  <2> DEFINE e == [call |-> call, gap |-> lossAtEnd]
  <2>1. /\ uart' = Append(uart, b) /\ q' = q /\ out' = out /\ trail' = Append(trail, e)
        /\ lossAtEnd' = FALSE /\ inStep' = inStep
    BY <1>1 DEF Transmit, Arrive
  <2>2. e \in Entry
    BY DEF Entry, QueueInv
  <2> HIDE DEF e
  <2>3. /\ uart' \in Seq(Byte) /\ Len(uart') = Len(uart) + 1
        /\ trail' \in Seq(Entry) /\ Len(trail') = Len(trail) + 1
    <3>1. uart \in Seq(Byte) /\ trail \in Seq(Entry)
      BY DEF QueueInv
    <3>2. Append(uart, b) \in Seq(Byte) /\ Len(Append(uart, b)) = Len(uart) + 1
      BY <3>1, AppendProperties
    <3>3. Append(trail, e) \in Seq(Entry) /\ Len(Append(trail, e)) = Len(trail) + 1
      BY <2>2, <3>1, AppendProperties
    <3> QED  BY <2>1, <3>2, <3>3
  <2>4. Len(uart') <= UART_DEPTH /\ Len(trail') = Len(q') + Len(uart')
    <3>1. Len(uart) \in Nat /\ Len(q) \in Nat /\ UART_DEPTH \in Nat
      BY ConstantTypes, LenProperties DEF QueueInv
    <3> QED  BY <1>1, <2>1, <2>3, <3>1 DEF QueueInv
  <2> QED  BY <2>1, <2>3, <2>4 DEF QueueInv
<1>2. CASE ~(Len(uart) < UART_DEPTH)
  <2>1. /\ uart' = uart /\ q' = q /\ out' = out /\ trail' = trail
        /\ lossAtEnd' = TRUE /\ inStep' = inStep
    BY <1>2 DEF Transmit, fifoVars
  <2> QED  BY <2>1 DEF QueueInv
<1> QED  BY <1>1, <1>2

LEMMA TransmitSteps ==
  ASSUME QueueInv, StepInv, NEW b \in Byte, NEW call \in Calls, Transmit(b, call),
         Resumes(b, call, <<sending', rest', status'>>),
         Follows(<<sending, rest, status>>, b, call, <<sending', rest', status'>>)
  PROVE  StepInv'
<1>1. PICK st : /\ Leads(st, q \o uart, trail)
                /\ ~lossAtEnd => st[Len(trail)] = <<sending, rest, status>>
                /\ inStep => Sync(parser, st[0])
  BY DEF StepInv
<1>2. parser' = parser /\ inStep' = inStep
  BY DEF Transmit
<1>3. CASE Len(uart) < UART_DEPTH
  <2> DEFINE e == [call |-> call, gap |-> lossAtEnd]
             s == <<sending', rest', status'>>
  <2>1. /\ uart' = Append(uart, b) /\ q' = q /\ trail' = Append(trail, e) /\ lossAtEnd' = FALSE
    BY <1>3 DEF Transmit, Arrive
  <2>2. e \in Entry /\ e.call = call /\ e.gap = lossAtEnd
    BY DEF Entry, QueueInv
  <2>3. /\ uart \in Seq(Byte) /\ q \in Seq(Byte) /\ trail \in Seq(Entry)
        /\ Len(trail) = Len(q) + Len(uart)
    BY DEF QueueInv
  <2>4. q \o uart \in Seq(Byte) /\ Len(q \o uart) = Len(trail)
    BY <2>3, ConcatProperties
  <2>5. q \o Append(uart, b) = Append(q \o uart, b)
    <3>1. <<b>> \in Seq(Byte)
      OBVIOUS
    <3> QED  BY <2>3, <2>4, <3>1, AppendIsConcat, ConcatAssociative
  <2>6. Resumes(b, e.call, s) /\ (~e.gap => Follows(st[Len(trail)], b, e.call, s))
    BY <1>1, <2>2
  <2> HIDE DEF e, s
  <2>7. PICK u : /\ Leads(u, Append(q \o uart, b), Append(trail, e))
                 /\ From(u, st[0]) /\ To(u, Len(trail) + 1, s)
    <3>1. trail \in Seq(Entry) /\ e \in Entry /\ q \o uart \in Seq(Byte)
      BY <2>2, <2>3, <2>4
    <3>2. Len(trail) = Len(q \o uart)
      BY <2>4
    <3>3. Leads(st, q \o uart, trail)
      BY <1>1
    <3>4. Resumes(b, e.call, s)
      BY <2>6
    <3>5. e.gap \/ Follows(st[Len(trail)], b, e.call, s)
      BY <2>6
    <3> QED  BY <3>1, <3>2, <3>3, <3>4, <3>5, LeadsOn
  <2>8. Len(trail') = Len(trail) + 1
    BY <2>1, <2>2, <2>3, AppendProperties
  <2>9. Leads(u, q' \o uart', trail')
    BY <2>1, <2>5, <2>7
  <2>10. u[Len(trail')] = <<sending', rest', status'>>
    BY <2>7, <2>8 DEF s, To
  <2>11. inStep' => Sync(parser', u[0])
    BY <1>1, <1>2, <2>7 DEF From
  <2> QED  BY <2>9, <2>10, <2>11 DEF StepInv
<1>4. CASE ~(Len(uart) < UART_DEPTH)
  <2>1. uart' = uart /\ q' = q /\ trail' = trail /\ lossAtEnd' = TRUE
    BY <1>4 DEF Transmit, fifoVars
  <2> QED  BY <1>1, <1>2, <2>1 DEF StepInv
<1> QED  BY <1>3, <1>4

LEMMA StoreTyped ==
  ASSUME QueueInv, Store
  PROVE  QueueInv'
<1>1. /\ uart # <<>> /\ uart' = Tail(uart) /\ out' = out /\ inStep' = inStep
      /\ q' = (IF Room THEN Append(q, Head(uart)) ELSE q)
  BY DEF Store, Receive
<1>2. /\ uart \in Seq(Byte) /\ q \in Seq(Byte) /\ trail \in Seq(Entry)
      /\ Len(trail) = Len(q) + Len(uart) /\ Len(uart) <= UART_DEPTH /\ Len(q) <= Capacity
      /\ lossAtEnd \in BOOLEAN /\ out \in Byte \cup {NoByte}
      /\ out # NoByte => q # <<>> /\ out = Head(q)
      /\ inStep \in BOOLEAN
  BY DEF QueueInv
<1>3. /\ Tail(uart) \in Seq(Byte) /\ Len(Tail(uart)) = Len(uart) - 1 /\ Head(uart) \in Byte
      /\ Len(uart) \in Nat \ {0} /\ Len(q) \in Nat
  BY <1>1, <1>2, HeadTailProperties, EmptySeq, LenProperties
<1>4. Capacity \in Nat /\ UART_DEPTH \in Nat
  BY ConstantTypes
<1>5. CASE Room
  <2>1. q' = Append(q, Head(uart)) /\ trail' = trail /\ lossAtEnd' = lossAtEnd
    BY <1>1, <1>5 DEF Store
  <2>2. q' \in Seq(Byte) /\ Len(q') = Len(q) + 1 /\ q' # <<>>
    BY <1>2, <1>3, <2>1, AppendProperties
  <2>3. q # <<>> => Head(q') = Head(q)
    BY <1>2, <1>3, <2>1, HeadTailAppend
  <2>4. Len(q') <= Capacity /\ Len(uart') <= UART_DEPTH /\ Len(trail') = Len(q') + Len(uart')
    <3>1. Len(q) < Capacity
      BY <1>5 DEF Room
    <3>2. Len(q') = Len(q) + 1 /\ Len(uart') = Len(uart) - 1 /\ Len(trail') = Len(q) + Len(uart)
      BY <1>1, <1>2, <1>3, <2>1, <2>2
    <3> QED  BY <1>2, <1>3, <1>4, <3>1, <3>2
  <2> QED  BY <1>1, <1>2, <1>3, <2>1, <2>2, <2>3, <2>4 DEF QueueInv
<1>6. CASE ~Room
  <2> DEFINE k == Len(q) + 1
  <2>1. /\ q' = q /\ lossAtEnd' = (lossAtEnd \/ k = Len(trail))
        /\ trail' = RemoveAt(IF k < Len(trail) THEN [trail EXCEPT ![k + 1].gap = TRUE]
                                               ELSE trail, k)
    BY <1>1, <1>6 DEF Store
  <2>2. k \in 1 .. Len(trail)
    BY <1>2, <1>3
  <2> HIDE DEF k
  <2>3. trail' \in Seq(Entry) /\ Len(trail') = Len(trail) - 1
    BY <1>2, <2>1, <2>2, Without DEF Shorter
  <2>4. Len(trail') = Len(q') + Len(uart') /\ Len(uart') <= UART_DEPTH
    BY <1>1, <1>2, <1>3, <1>4, <2>1, <2>3
  <2>5. lossAtEnd' \in BOOLEAN
    BY <2>1
  <2> QED  BY <1>1, <1>2, <1>3, <2>1, <2>3, <2>4, <2>5 DEF QueueInv
<1> QED  BY <1>5, <1>6

LEMMA StoreSteps ==
  ASSUME QueueInv, StepInv, Store
  PROVE  StepInv'
<1>1. PICK st : /\ Leads(st, q \o uart, trail)
                /\ ~lossAtEnd => st[Len(trail)] = <<sending, rest, status>>
                /\ inStep => Sync(parser, st[0])
  BY DEF StepInv
<1>2. /\ uart # <<>> /\ uart' = Tail(uart) /\ inStep' = inStep /\ parser' = parser
      /\ sending' = sending /\ rest' = rest /\ status' = status
      /\ q' = (IF Room THEN Append(q, Head(uart)) ELSE q)
  BY DEF Store, Receive, sender
<1>3. /\ uart \in Seq(Byte) /\ q \in Seq(Byte) /\ trail \in Seq(Entry)
      /\ Len(trail) = Len(q) + Len(uart)
  BY DEF QueueInv
<1>4. /\ Tail(uart) \in Seq(Byte) /\ Len(Tail(uart)) = Len(uart) - 1 /\ Head(uart) \in Byte
      /\ Len(uart) \in Nat \ {0} /\ Len(q) \in Nat
      /\ \A i \in 1 .. Len(Tail(uart)) : Tail(uart)[i] = uart[i + 1]
  BY <1>2, <1>3, HeadTailProperties, EmptySeq, LenProperties
<1>5. CASE Room
  <2>1. q' = Append(q, Head(uart)) /\ trail' = trail /\ lossAtEnd' = lossAtEnd
    BY <1>2, <1>5 DEF Store
  <2>2. Append(q, Head(uart)) \o Tail(uart) = q \o uart
    <3>1. Append(q, Head(uart)) = q \o <<Head(uart)>> /\ <<Head(uart)>> \in Seq(Byte)
      BY <1>3, <1>4, AppendIsConcat
    <3>2. <<Head(uart)>> \o Tail(uart) = uart
      <4> DEFINE x == <<Head(uart)>> \o Tail(uart)
      <4>1. Len(<<Head(uart)>>) = 1 /\ <<Head(uart)>>[1] = Head(uart) /\ Head(uart) = uart[1]
        BY <1>2, <1>3
      <4>2. /\ x \in Seq(Byte) /\ Len(x) = 1 + Len(Tail(uart))
            /\ \A i \in 1 .. 1 + Len(Tail(uart)) :
                 x[i] = IF i <= 1 THEN <<Head(uart)>>[i] ELSE Tail(uart)[i - 1]
        BY <1>4, <3>1, <4>1, ConcatProperties
      <4> HIDE DEF x
      <4>3. Len(x) = Len(uart)
        BY <1>4, <4>2
      <4>4. ASSUME NEW i \in 1 .. Len(x) PROVE x[i] = uart[i]
        <5>1. CASE i = 1
          BY <1>4, <4>1, <4>2, <4>3, <5>1
        <5>2. CASE i > 1
          <6>1. i - 1 \in 1 .. Len(Tail(uart)) /\ (i - 1) + 1 = i /\ ~(i <= 1)
            BY <1>4, <4>3, <5>2
          <6>2. x[i] = Tail(uart)[i - 1]
            BY <4>2, <6>1
          <6> QED  BY <1>4, <6>1, <6>2
        <5> QED  BY <1>4, <4>3, <5>1, <5>2
      <4>5. x = uart
        BY <1>3, <4>2, <4>3, <4>4, SeqEqual
      <4> QED  BY <4>5 DEF x
    <3> QED  BY <1>3, <1>4, <3>1, <3>2, ConcatAssociative
  <2> QED  BY <1>1, <1>2, <2>1, <2>2 DEF StepInv
<1>6. CASE ~Room
  <2> DEFINE k == Len(q) + 1
             bytes == q \o uart
             less == q \o Tail(uart)
             n == Len(trail)
  <2>1. /\ q' = q /\ lossAtEnd' = (lossAtEnd \/ k = n)
        /\ trail' = RemoveAt(IF k < n THEN [trail EXCEPT ![k + 1].gap = TRUE] ELSE trail, k)
    BY <1>2, <1>6 DEF Store
  <2>2. k \in 1 .. n /\ n \in Nat
    BY <1>3, <1>4
  <2>3. \A i \in 1 .. n : bytes[i] = IF i <= Len(q) THEN q[i] ELSE uart[i - Len(q)]
    BY <1>3, ConcatProperties
  <2>4. \A i \in 1 .. n - 1 : less[i] = IF i <= Len(q) THEN q[i] ELSE Tail(uart)[i - Len(q)]
    <3>1. Len(q) + Len(Tail(uart)) = n - 1
      BY <1>3, <1>4
    <3> QED  BY <1>3, <1>4, <3>1, ConcatProperties
  <2> HIDE DEF bytes, less
  <2>5. Fewer(less, bytes, k, n)
    <3> SUFFICES ASSUME NEW i \in 1 .. n - 1 PROVE less[i] = bytes[IF i < k THEN i ELSE i + 1]
      BY DEF Fewer
    <3>1. i \in 1 .. n /\ i + 1 \in 1 .. n /\ i \in Int
      BY <2>2
    <3>2. CASE i < k
      <4>1. i <= Len(q)
        BY <1>4, <3>1, <3>2
      <4> QED  BY <2>3, <2>4, <3>1, <3>2, <4>1
    <3>3. CASE i >= k
      <4>1. /\ ~(i <= Len(q)) /\ ~(i + 1 <= Len(q)) /\ (i + 1) - Len(q) = (i - Len(q)) + 1
            /\ i - Len(q) \in 1 .. Len(Tail(uart)) /\ ~(i < k)
        BY <1>3, <1>4, <3>1, <3>3
      <4>2. less[i] = Tail(uart)[i - Len(q)] /\ bytes[i + 1] = uart[(i + 1) - Len(q)]
        BY <2>3, <2>4, <3>1, <4>1
      <4> QED  BY <1>4, <4>1, <4>2
    <3> QED  BY <1>4, <3>1, <3>2, <3>3
  <2> HIDE DEF k
  <2>6. PICK d : d = trail'
    OBVIOUS
  <2>7. Shorter(d, trail, k)
    <3>1. d = RemoveAt(IF k < n THEN [trail EXCEPT ![k + 1].gap = TRUE] ELSE trail, k)
      BY <2>1, <2>6
    <3> QED  BY <1>3, <2>2, <3>1, Without
  <2>8. PICK u : /\ Leads(u, less, d) /\ From(u, st[0])
                 /\ k < n => To(u, Len(d), st[n])
    <3>1. Leads(st, bytes, trail)
      BY <1>1 DEF bytes
    <3>2. Fewer(less, bytes, k, Len(trail))
      BY <2>5
    <3> QED  BY <1>3, <2>2, <2>7, <3>1, <3>2, LeadsWithout
  <2>9. Leads(u, q' \o uart', trail')
    BY <1>2, <2>1, <2>6, <2>8 DEF less
  <2>11. ~lossAtEnd' => u[Len(trail')] = <<sending', rest', status'>>
    <3>1. ~lossAtEnd' => ~lossAtEnd /\ k # n
      BY <2>1
    <3>2. k # n => k < n
      BY <2>2
    <3> QED  BY <1>1, <1>2, <2>6, <2>8, <3>1, <3>2 DEF To
  <2>10. inStep' => Sync(parser', u[0])
    BY <1>1, <1>2, <2>8 DEF From
  <2> QED  BY <2>9, <2>10, <2>11 DEF StepInv
<1> QED  BY <1>5, <1>6

LEMMA ReadTyped ==
  ASSUME TypeInv, Read
  PROVE  QueueInv' /\ ParserOk(parser')
<1>1. /\ out # NoByte /\ q' = Tail(q) /\ out' = NoByte /\ uart' = uart /\ lossAtEnd' = lossAtEnd
      /\ parser' = Parse(parser, out).state /\ trail' = Tail(trail)
      /\ inStep' = InStepAfter(out)
  BY DEF Read, Leave
<1>2. /\ q \in Seq(Byte) /\ q # <<>> /\ trail \in Seq(Entry) /\ uart \in Seq(Byte)
      /\ Len(trail) = Len(q) + Len(uart) /\ out \in Byte /\ Len(q) <= Capacity
      /\ Len(uart) <= UART_DEPTH
  BY <1>1 DEF TypeInv, QueueInv
<1>3. /\ Len(q) \in Nat \ {0} /\ Len(uart) \in Nat
      /\ Tail(q) \in Seq(Byte) /\ Len(Tail(q)) = Len(q) - 1
  BY <1>2, EmptySeq, LenProperties, HeadTailProperties
<1>4. trail # <<>>
  <2>1. Len(trail) > 0 /\ Len(<<>>) = 0
    BY <1>2, <1>3
  <2> QED  BY <2>1
<1>5. Tail(trail) \in Seq(Entry) /\ Len(Tail(trail)) = Len(trail) - 1
  BY <1>2, <1>4, HeadTailProperties
<1>6. Len(q') <= Capacity /\ Len(trail') = Len(q') + Len(uart')
  <2>1. Capacity \in Nat
    BY ConstantTypes
  <2> QED  BY <1>1, <1>2, <1>3, <1>5, <2>1
<1>7. inStep' \in BOOLEAN
  BY <1>1 DEF InStepAfter
<1>8. ParserOk(parser')
  BY <1>1, <1>2, ParseOk DEF TypeInv
<1> QED  BY <1>1, <1>2, <1>3, <1>5, <1>6, <1>7, <1>8 DEF TypeInv, QueueInv

LEMMA ReadSteps ==
  ASSUME TypeInv, StepInv, Read
  PROVE  StepInv' /\ (inStep' => launched' = Head(trail).call)
<1> DEFINE bytes == q \o uart
           n == Len(trail)
<1>1. PICK st : /\ Leads(st, bytes, trail)
                /\ ~lossAtEnd => st[n] = <<sending, rest, status>>
                /\ inStep => Sync(parser, st[0])
  BY DEF StepInv
<1>2. /\ out # NoByte /\ q' = Tail(q) /\ uart' = uart /\ lossAtEnd' = lossAtEnd
      /\ parser' = Parse(parser, out).state /\ launched' = Launch(Parse(parser, out).message)
      /\ trail' = Tail(trail) /\ inStep' = InStepAfter(out)
      /\ sending' = sending /\ rest' = rest /\ status' = status
  BY DEF Read, Leave, sender
<1>3. /\ q \in Seq(Byte) /\ q # <<>> /\ trail \in Seq(Entry) /\ uart \in Seq(Byte)
      /\ Len(trail) = Len(q) + Len(uart) /\ out = Head(q) /\ parser \in ParserT
  BY <1>2 DEF TypeInv, QueueInv, ParserOk
<1>4. /\ Len(q) \in Nat \ {0} /\ Len(uart) \in Nat
      /\ Tail(q) \in Seq(Byte) /\ Len(Tail(q)) = Len(q) - 1
      /\ \A i \in 1 .. Len(Tail(q)) : Tail(q)[i] = q[i + 1]
      /\ Head(q) = q[1]
  BY <1>3, EmptySeq, LenProperties, HeadTailProperties
<1>5. /\ bytes \in Seq(Byte) /\ Len(bytes) = n
      /\ \A i \in 1 .. Len(q) + Len(uart) : bytes[i] = IF i <= Len(q) THEN q[i] ELSE uart[i - Len(q)]
  BY <1>3, ConcatProperties
<1>6. n \in Nat \ {0} /\ trail # <<>> /\ bytes # <<>>
  <2>1. n \in Nat \ {0} /\ Len(<<>>) = 0
    BY <1>3, <1>4
  <2> QED  BY <1>5, <2>1
<1>7. bytes[1] = out
  <2>1. 1 \in 1 .. Len(q) + Len(uart) /\ 1 <= Len(q)
    BY <1>4
  <2> QED  BY <1>3, <1>4, <1>5, <2>1
<1>8. Head(trail) = trail[1]
  BY <1>3, <1>6
<1>9. Tail(q) \o uart = Tail(bytes)
  <2> DEFINE x == Tail(q) \o uart
             y == Tail(bytes)
  <2>1. y \in Seq(Byte) /\ Len(y) = n - 1 /\ \A i \in 1 .. n - 1 : y[i] = bytes[i + 1]
    BY <1>5, <1>6, HeadTailProperties
  <2>2. /\ x \in Seq(Byte) /\ Len(x) = Len(Tail(q)) + Len(uart)
        /\ \A i \in 1 .. Len(Tail(q)) + Len(uart) :
             x[i] = IF i <= Len(Tail(q)) THEN Tail(q)[i] ELSE uart[i - Len(Tail(q))]
    BY <1>3, <1>4, ConcatProperties
  <2> HIDE DEF x, y, bytes
  <2>3. Len(x) = n - 1
    BY <1>3, <1>4, <2>2
  <2>4. ASSUME NEW i \in 1 .. n - 1 PROVE x[i] = y[i]
    <3>1. /\ i \in 1 .. Len(Tail(q)) + Len(uart) /\ i + 1 \in 1 .. Len(q) + Len(uart)
          /\ i <= Len(Tail(q)) <=> i + 1 <= Len(q)
          /\ i - Len(Tail(q)) = (i + 1) - Len(q)
      BY <1>3, <1>4, <1>6
    <3>2. y[i] = bytes[i + 1]
      BY <2>1
    <3>3. CASE i <= Len(Tail(q))
      <4>1. i \in 1 .. Len(Tail(q))
        BY <1>4, <3>3
      <4>2. x[i] = Tail(q)[i] /\ bytes[i + 1] = q[i + 1]
        BY <1>5, <2>2, <3>1, <3>3
      <4> QED  BY <1>4, <3>2, <4>1, <4>2
    <3>4. CASE ~(i <= Len(Tail(q)))
      <4>1. x[i] = uart[i - Len(Tail(q))] /\ bytes[i + 1] = uart[(i + 1) - Len(q)]
        BY <1>5, <2>2, <3>1, <3>4
      <4> QED  BY <3>1, <3>2, <4>1
    <3> QED  BY <3>3, <3>4
  <2>5. x = y
    BY <2>1, <2>2, <2>3, <2>4, SeqEqual
  <2> QED  BY <2>5 DEF x, y
<1> HIDE DEF bytes
<1>10. PICK u : Leads(u, Tail(bytes), Tail(trail)) /\ From(u, st[1]) /\ To(u, n - 1, st[n])
  BY <1>1, <1>3, <1>5, <1>6, LeadsFrom
<1>11. Len(trail') = n - 1
  BY <1>2, <1>3, <1>6, HeadTailProperties
<1>12. inStep' => Obeys(parser, out, trail[1].call, st[1])
  <2>1. /\ Resumes(out, trail[1].call, st[1])
        /\ ~trail[1].gap => Follows(st[0], out, trail[1].call, st[1])
    <3>1. 1 \in 1 .. n /\ 1 - 1 = 0
      BY <1>6
    <3> QED  BY <1>1, <1>7, <3>1 DEF Leads
  <2>2. CASE parser.pending = <<>> /\ IsStatus(out) /\ out \notin RealTimeTypes
    BY <1>3, <2>1, <2>2 DEF Resumes
  <2>3. CASE inStep /\ ~trail[1].gap
    BY <1>1, <1>3, <2>1, <2>3 DEF Follows
  <2> QED  BY <1>2, <1>8, <2>2, <2>3 DEF InStepAfter
<1>13. Leads(u, q' \o uart', trail')
  BY <1>2, <1>9, <1>10
<1>14. ~lossAtEnd' => u[Len(trail')] = <<sending', rest', status'>>
  BY <1>1, <1>2, <1>10, <1>11 DEF To
<1>15. inStep' => Sync(parser', u[0])
  BY <1>2, <1>10, <1>12 DEF From, Obeys
<1>16. StepInv'
  BY <1>13, <1>14, <1>15 DEF StepInv
<1> QED  BY <1>2, <1>8, <1>12, <1>16 DEF Obeys
-----------------------------------------------------------------------------
(* The theorems *)

LEMMA InitInv == Init => TypeInv /\ StepInv
<1> SUFFICES ASSUME Init PROVE TypeInv /\ StepInv
  OBVIOUS
<1>1. /\ uart = <<>> /\ q = <<>> /\ out = NoByte /\ parser = Reset
      /\ sending = <<>> /\ rest = <<>> /\ status = InvalidType
      /\ trail = <<>> /\ lossAtEnd = FALSE /\ inStep = TRUE
  BY DEF Init, FifoInit
<1>2. QueueInv
  <2>1. Len(<<>>) = 0 /\ UART_DEPTH \in Nat /\ Capacity \in Nat
    BY ConstantTypes
  <2>2. /\ uart \in Seq(Byte) /\ q \in Seq(Byte) /\ trail \in Seq(Entry)
        /\ Len(uart) = 0 /\ Len(q) = 0 /\ Len(trail) = 0
    BY <1>1, <2>1
  <2>3. Len(uart) <= UART_DEPTH /\ Len(q) <= Capacity /\ Len(trail) = Len(q) + Len(uart)
    BY <2>1, <2>2
  <2> QED  BY <1>1, <2>2, <2>3 DEF QueueInv
<1>3. SenderInv
  BY <1>1 DEF SenderInv
<1>4. StepInv
  <2> DEFINE st == [i \in 0 .. 0 |-> <<sending, rest, status>>]
  <2>1. Leads(st, q \o uart, trail)
    BY <1>1 DEF Leads
  <2>2. st[0] = <<sending, rest, status>> /\ Len(trail) = 0
    BY <1>1
  <2> HIDE DEF st
  <2>3. Sync(parser, st[0])
    BY <1>1, <2>2, ResetOk DEF Sync
  <2>4. st[Len(trail)] = <<sending, rest, status>>
    BY <2>2
  <2> QED  BY <2>1, <2>3, <2>4 DEF StepInv
<1> QED  BY <1>1, <1>2, <1>3, <1>4, ResetOk DEF TypeInv

LEMMA NextInv == TypeInv /\ StepInv /\ [Next]_vars => TypeInv' /\ StepInv'
<1> SUFFICES ASSUME TypeInv, StepInv, [Next]_vars PROVE TypeInv' /\ StepInv'
  OBVIOUS
<1>1. CASE StartSending \/ GoOnSending \/ SendRealTime
  <2>1. PICK b \in Byte, call \in Calls :
          /\ Transmit(b, call) /\ SenderInv'
          /\ Resumes(b, call, <<sending', rest', status'>>)
          /\ Follows(<<sending, rest, status>>, b, call, <<sending', rest', status'>>)
    BY <1>1, StartSends, GoesOnSending, RealTimeSends DEF TypeInv
  <2>2. QueueInv' /\ StepInv'
    BY <2>1, TransmitTyped, TransmitSteps DEF TypeInv
  <2>3. parser' = parser
    BY <2>1 DEF Transmit
  <2> QED  BY <2>1, <2>2, <2>3 DEF TypeInv
<1>2. CASE Store
  <2>1. QueueInv' /\ StepInv'
    BY <1>2, StoreTyped, StoreSteps DEF TypeInv
  <2>2. parser' = parser /\ sending' = sending /\ rest' = rest /\ status' = status
    BY <1>2 DEF Store, sender
  <2> QED  BY <2>1, <2>2 DEF TypeInv, SenderInv
<1>3. CASE FetchByte
  <2>1. /\ q # <<>> /\ out' = Head(q) /\ uart' = uart /\ q' = q /\ parser' = parser
        /\ sending' = sending /\ rest' = rest /\ status' = status
        /\ trail' = trail /\ lossAtEnd' = lossAtEnd /\ inStep' = inStep
    BY <1>3 DEF FetchByte, HandOut, sender, ghosts
  <2>2. Head(q) \in Byte
    BY <2>1, HeadTailProperties DEF TypeInv, QueueInv
  <2>3. QueueInv'
    BY <2>1, <2>2 DEF TypeInv, QueueInv
  <2> QED  BY <2>1, <2>3 DEF TypeInv, SenderInv, StepInv
<1>4. CASE Read
  <2>1. sending' = sending /\ rest' = rest /\ status' = status
    BY <1>4 DEF Read, sender
  <2> QED  BY <1>4, <2>1, ReadTyped, ReadSteps DEF TypeInv, SenderInv
<1>5. CASE (\E m \in UsbMessages : ReadUsb(m)) \/ UNCHANGED vars
  <2>1. /\ out' = out /\ uart' = uart /\ q' = q /\ parser' = parser
        /\ sending' = sending /\ rest' = rest /\ status' = status
        /\ trail' = trail /\ lossAtEnd' = lossAtEnd /\ inStep' = inStep
    BY <1>5 DEF ReadUsb, sender, ghosts, fifoVars, vars
  <2> QED  BY <2>1 DEF TypeInv, QueueInv, SenderInv, StepInv
<1> QED  BY <1>1, <1>2, <1>3, <1>4, <1>5 DEF Next

LEMMA InvHolds == Spec => [](TypeInv /\ StepInv)
BY InitInv, NextInv, PTL DEF Spec

\* Whatever is sent, and whatever is lost, every byte, index and length keeps its
\* type: the parser never holds more bytes than it waits for.
THEOREM MidiInputTypes == Spec => []TypeOK
<1>1. TypeInv => TypeOK
  BY DEF TypeInv, QueueInv, SenderInv, ParserOk, ParserT, TypeOK
<1> QED  BY <1>1, InvHolds, PTL

\* For all messages of the standard, real-time bytes between any of their bytes
\* and buffers of any size: what is parsed in step with the sender is delivered
\* as it was sent, and after a loss the parser is in step again with the first
\* status byte it takes while it is idle.
THEOREM DeliveredAsItWasSent == Spec => DeliveredAsSent
<1>1. TypeInv /\ StepInv /\ [Next]_vars => [Read /\ inStep' => launched' = Head(trail).call]_vars
  BY ReadSteps
<1> QED  BY <1>1, InvHolds, PTL DEF Spec, DeliveredAsSent

\* A real-time message is delivered at once from every state the parser can be in.
THEOREM RealTimeIsAlwaysHeard == Spec => RealTimeAlwaysHeard
<1>1. TypeInv /\ [Next]_vars => [Read /\ out \in RealTimeTypes => launched' = Meaning(<<out>>)]_vars
  <2>1. ASSUME TypeInv, Read, out \in RealTimeTypes PROVE launched' = Meaning(<<out>>)
    <3>1. parser \in ParserT /\ launched' = Launch(Parse(parser, out).message)
      BY <2>1 DEF Read, TypeInv, ParserOk
    <3> QED  BY <2>1, <3>1, RealTimeParsed
  <2> QED  BY <2>1
<1> QED  BY <1>1, InvHolds, PTL DEF Spec, RealTimeAlwaysHeard

LEMMA QuotientIs ==
  ASSUME NEW x \in Nat, NEW p \in Nat \ {0}
  PROVE  x \div p \in Nat /\ x = p * (x \div p) + (x % p)
OBVIOUS

\* The channel as USB tells it, counted from 1 modulo 16, is folded to the
\* standard's too, if the number of channels divides 16.
LEMMA UsbFold ==
  ASSUME 16 % N_MIDI_CHANNELS = 0, NEW n \in 0 .. 15
  PROVE  Fold((n + 1) % 16) = (n % N_MIDI_CHANNELS) + 1
<1> DEFINE N == N_MIDI_CHANNELS
<1>1. N \in Nat \ {0}
  BY ConstantTypes
<1>2. CASE n < 15
  <2>1. (n + 1) % 16 = n + 1 /\ n \in Nat
    BY <1>2
  <2> QED  BY <2>1, FoldIs
<1>3. CASE n = 15
  <2> DEFINE k == 16 \div N
             j == k - 1
  <2>1. k \in Nat /\ 16 = N * k + (16 % N)
    BY <1>1, QuotientIs
  <2> HIDE DEF k
  <2>2. 16 = N * k
    BY <1>1, <2>1
  <2>3. k # 0
    BY <1>1, <2>2
  <2>4. j \in Nat /\ k = j + 1
    BY <2>1, <2>3
  <2> HIDE DEF j
  <2>5. N * (j + 1) = N * j + N
    BY <1>1, <2>4
  <2>6. 15 = N * j + (N - 1) /\ N - 1 \in 0 .. (N - 1)
    BY <1>1, <2>2, <2>4, <2>5
  <2>7. 15 % N = N - 1
    BY <1>1, <2>4, <2>6, RemainderIs
  <2>8. 0 % N = 0
    <3>1. 0 = N * 0 + 0 /\ 0 \in 0 .. (N - 1)
      BY <1>1
    <3> QED  BY <1>1, <3>1, RemainderIs
  <2>9. (15 + 1) % 16 = 0
    OBVIOUS
  <2>10. Fold(0) = N
    BY <2>8 DEF Fold
  <2>11. (N - 1) + 1 = N
    BY <1>1
  <2> QED  BY <1>3, <2>7, <2>9, <2>10, <2>11
<1> QED  BY <1>2, <1>3

LEMMA UsbMeans ==
  ASSUME 16 % N_MIDI_CHANNELS = 0, NEW m \in UsbMessages
  PROVE  UsbPacket(m) = Meaning(m)
<1>1. CASE m \in Messages /\ m[1] < 240
  <2> DEFINE b == m[1]
             d2 == IF Len(m) = 3 THEN m[3] ELSE 0
  <2>1. b \in 128 .. 239
    <3>1. b \in 128 .. 255
      BY <1>1, MessageIs
    <3> QED  BY <1>1, <3>1
  <2>2. b \div 16 # 15 /\ b % 16 \in 0 .. 15 /\ (b + 1) % 16 = ((b % 16) + 1) % 16
    BY <2>1
  <2>3. TypeOf(b) = (b \div 16) * 16
    BY <2>1, ChannelByte
  <2>4. UsbPacket(m) = Call(TypeOf(b), (b + 1) % 16, m[2], d2)
    BY <1>1, <2>2, <2>3 DEF UsbPacket, UsbCall, UsbChannel
  <2>5. Fold((b + 1) % 16) = ((b % 16) % N_MIDI_CHANNELS) + 1
    BY <2>2, UsbFold
  <2>6. (b + 1) % 16 = 10 <=> b % 16 = 9
    BY <2>1
  <2>7. Call(TypeOf(b), (b + 1) % 16, m[2], d2) = Meaning(m)
    BY <1>1, <2>1, <2>5, <2>6, CallMeans
  <2> QED  BY <2>4, <2>7
<1>2. CASE \E b \in RealTime : m = <<b>>
  <2>1. PICK b \in RealTime : m = <<b>>
    BY <1>2
  <2>2. b \in 240 .. 255
    BY ConstantTypes DEF RealTimeTypes
  <2>3. UsbPacket(m) = Call(b, (b + 1) % 16, 0, 0)
    BY <2>1, <2>2 DEF UsbPacket, UsbCall, UsbChannel
  <2>4. /\ b \notin Registered
        /\ Meaning(m) = IF b \in Transport THEN [NoCall EXCEPT !.handler = b] ELSE NoCall
    BY <2>1, <2>2, SystemByte
  <2>5. CASE b \in Transport
    BY <2>3, <2>4, <2>5 DEF Call
  <2>6. CASE b \notin Transport
    BY <2>3, <2>4, <2>6 DEF Call
  <2> QED  BY <2>5, <2>6
<1> QED  BY <1>1, <1>2 DEF UsbMessages

\* Where the number of MIDI channels divides 16, as the firmware's 4 does, USB and
\* the wire call the same handler with the same values.
THEOREM UsbAlwaysAgrees == ASSUME 16 % N_MIDI_CHANNELS = 0 PROVE Spec => UsbAgrees
<1>1. [Next]_vars => [\A m \in UsbMessages : ReadUsb(m) => launched' = Meaning(m)]_vars
  BY UsbMeans DEF ReadUsb
<1> QED  BY <1>1, PTL DEF Spec, UsbAgrees
=============================================================================

------------------------------ MODULE MidiParser ------------------------------
(***************************************************************************)
(* MIDI messages from bytes: MIDI_Class::parse() of the serial input, and  *)
(* the calls that the serial and the USB library make of the firmware's    *)
(* handlers.  Bytes are numbers; 0x80 and above are status bytes.          *)
(*                                                                         *)
(* The parser is built to take one byte per call (USE_1BYTE_PARSING) and   *)
(* listens to all channels (MIDI_CHANNEL_OMNI).  Its state is              *)
(*   pending   mPendingMessage up to mPendingMessageIndex                  *)
(*   expected  mPendingMessageExpectedLenght                               *)
(*   running   mRunningStatus_RX                                           *)
(* System exclusive is commented out of the parser: its status byte is     *)
(* refused like an undefined one.                                          *)
(***************************************************************************)
EXTENDS Integers, Sequences

InvalidType == 0

NoteOff       == 128
NoteOn        == 144
ControlChange == 176
ProgramChange == 192
PitchBend     == 224
Clock         == 248
SystemReset   == 255

ChannelTypes  == {128, 144, 160, 176, 192, 208, 224}
RealTimeTypes == {248, 250, 251, 252, 254, 255}
OneByteTypes  == RealTimeTypes \cup {246}
TwoByteTypes  == {192, 208, 241, 243}
ThreeByteTypes == {128, 144, 160, 176, 224, 242}

IsStatus(b) == b >= 128

\* getTypeFromStatusByte(): data and undefined bytes have no type, channel
\* messages lose their channel.
TypeOf(b) ==
  IF ~IsStatus(b) \/ b \in {244, 245, 249, 253} THEN InvalidType
  ELSE IF b < 240 THEN (b \div 16) * 16 ELSE b

NoMessage == [type |-> InvalidType, channel |-> 0, data1 |-> 0, data2 |-> 0]

SingleByte(type) == [NoMessage EXCEPT !.type = type]

\* wrong variant: the running status is forgotten with every message
IdleForgets(running) == [pending |-> <<>>, expected |-> 0, running |-> InvalidType]

Idle(running) == [pending |-> <<>>, expected |-> 0, running |-> running]

\* reset_input_attributes()
Reset == Idle(InvalidType)

\* The message in the bytes q, for which expected bytes were waited.
Message(q, expected) ==
  [type    |-> TypeOf(q[1]),
   channel |-> (q[1] % 16) + 1,
   data1   |-> q[2],
   data2   |-> IF expected = 3 THEN q[3] ELSE 0]
-----------------------------------------------------------------------------
(* parse(): the new state, and the message it is done with or NoMessage *)

\* No message is pending.  A data byte under a running status counts as the
\* second byte; how many are left is asked only when the next one comes.
StartMessage(p, b) ==
  LET repeats == TypeOf(p.running) \in ChannelTypes /\ ~IsStatus(b)
      first   == IF repeats THEN <<p.running, b>> ELSE <<b>>
      type    == TypeOf(first[1])
      wait(n) == [state |-> [p EXCEPT !.pending = first, !.expected = n], message |-> NoMessage]
  IN CASE type \in OneByteTypes   -> [state |-> Idle(p.running), message |-> SingleByte(type)]
       [] type \in TwoByteTypes   -> wait(2)
       [] type \in ThreeByteTypes -> wait(3)
       [] OTHER                   -> [state |-> Reset, message |-> NoMessage]

\* wrong variant: the clock is left out of the list
InterleavedButClock(b) == b \in RealTimeTypes \ {Clock}

Interleaved(b) == b \in RealTimeTypes

\* wrong variant: the length is compared for equality
CompletesExactly(p) == Len(p.pending) = p.expected - 1

\* The next byte is the last one of the pending message.
Completes(p) == Len(p.pending) >= p.expected - 1

\* A message is pending.  Real-time messages pass it by; the end of a system
\* exclusive message is an error; any other byte, a status byte too, is its
\* next byte.
ContinueMessage(p, b) ==
  LET q    == Append(p.pending, b)
      type == TypeOf(q[1])
  IN IF Interleaved(b) THEN [state |-> p, message |-> SingleByte(b)]
     ELSE IF b = 247   THEN [state |-> Reset, message |-> NoMessage]
     ELSE IF Completes(p)
       THEN [state   |-> Idle(IF type \in ChannelTypes THEN q[1] ELSE InvalidType),
             message |-> Message(q, p.expected)]
     ELSE [state |-> [p EXCEPT !.pending = q], message |-> NoMessage]

Parse(p, b) == IF p.pending = <<>> THEN StartMessage(p, b) ELSE ContinueMessage(p, b)
-----------------------------------------------------------------------------
(* The calls of the handlers *)

CONSTANT N_MIDI_CHANNELS

\* The handlers take channels modulo the number of settings, counted from 1.
Fold(channel) == IF channel % N_MIDI_CHANNELS = 0 THEN N_MIDI_CHANNELS
                 ELSE channel % N_MIDI_CHANNELS

NoCall == [handler |-> InvalidType, slot |-> 0, drum |-> FALSE, data |-> <<>>]

\* The types midiInit() registers a handler for.  Stop and continue are 252
\* and 251.
Registered == {NoteOff, NoteOn, ControlChange, ProgramChange, PitchBend}
Transport  == {Clock, 250, 251, 252, SystemReset}

\* launchCallback() and the first lines of the handlers: handleNoteOn() and
\* handleNoteOff() ask for channel 10 before they fold it.
Call(type, channel, data1, data2) ==
  CASE type \in Registered ->
         [handler |-> type, slot |-> Fold(channel),
          drum |-> type \in {NoteOn, NoteOff} /\ channel = 10,
          data |-> CASE type = PitchBend     -> <<(data1 % 128) + 128 * (data2 % 128) - 8192>>
                     [] type = ProgramChange -> <<data1>>
                     [] OTHER                -> <<data1, data2>>]
    [] type \in Transport -> [NoCall EXCEPT !.handler = type]
    [] OTHER -> NoCall

Launch(m) == Call(m.type, m.channel, m.data1, m.data2)

\* wrong variant: USB's channels are counted from 0
UsbChannelFromZero(data1) == data1 % 16

UsbChannel(data1) == (data1 + 1) % 16

\* USBMIDI_Class::read(): the event code gives the type, or 15 a single byte.
UsbCall(event, data1, data2, data3) ==
  Call(IF event = 15 THEN data1 ELSE event * 16, UsbChannel(data1), data2, data3)
=============================================================================

------------------------------- MODULE MidiInput -------------------------------
(***************************************************************************)
(* MIDI input end to end: a sender on the serial wire, the USART and the   *)
(* receive buffer, the parser in the main thread (MidiParser) and the calls*)
(* of the firmware's handlers; next to it MIDI over USB, which calls the   *)
(* same handlers.  The buffer is the queue of BoundedFifo, which the ring  *)
(* of SerialRing implements.                                               *)
(*                                                                         *)
(* The sender keeps to the MIDI standard: whole messages, real-time bytes  *)
(* anywhere between their bytes, and the status byte left out where the    *)
(* last message but for real-time ones was a channel message with the same.*)
(***************************************************************************)
EXTENDS BoundedFifo, MidiParser, SequencesExt

CONSTANTS
  UART_DEPTH,        \* the USART's own places
  Messages,          \* what is sent, each a sequence of bytes
  RealTime,          \* the real-time bytes that are sent
  RunningLengths     \* the lengths of messages sent without their status

\* A message of the standard but for real-time ones: a status byte and as many
\* data bytes as its type has, or any number of them up to the end of a system
\* exclusive message.
WellFormed(m) ==
  LET type == TypeOf(m[1]) IN
  /\ IsStatus(m[1]) /\ m[1] \notin RealTimeTypes
  /\ type \in OneByteTypes => Len(m) = 1
  /\ type \in TwoByteTypes => Len(m) = 2
  /\ type \in ThreeByteTypes => Len(m) = 3
  /\ \A i \in 2 .. Len(m) : \/ ~IsStatus(m[i])
                            \/ m[1] = 240 /\ i = Len(m) /\ m[i] = 247

ASSUME InputAssumption ==
  /\ UART_DEPTH \in Nat \ {0} /\ Capacity \in Nat \ {0} /\ N_MIDI_CHANNELS \in Nat \ {0}
  /\ Messages \subseteq Seq(Byte) \ {<<>>} /\ \A m \in Messages : WellFormed(m)
  /\ RealTime \subseteq RealTimeTypes \cap Byte
  /\ RunningLengths \subseteq {3}
  /\ Byte \subseteq 0 .. 255 /\ NoByte \notin Byte

VARIABLES
  parser,            \* the private state of MIDI_Class
  launched,          \* the call of a handler the last byte led to, or NoCall
  sending, rest,     \* the message that is sent; its bytes still to come
  status,            \* the status that may be left out, or InvalidType
  trail, lossAtEnd,  \* ghost: what each byte on its way stands for
  inStep             \* ghost: the parser is in step with the sender

sender == <<sending, rest, status>>
ghosts == <<trail, lossAtEnd, inStep>>
vars   == <<fifoVars, parser, launched, sender, ghosts>>

\* Among the types: the parser never holds more bytes than the message it waits
\* for has (mPendingMessage[] in parse()), though a status byte may stand among
\* them and a two-byte message under a running status ends a byte late.
TypeOK ==
  /\ uart \in Seq(Byte) /\ Len(uart) <= UART_DEPTH
  /\ q \in Seq(Byte) /\ Len(q) <= Capacity
  /\ out \in Byte \cup {NoByte}
  /\ parser.pending \in Seq(Byte) /\ parser.expected \in {0, 2, 3}
  /\ parser.pending # <<>> => Len(parser.pending) <= parser.expected
  /\ parser.running \in Byte \cup {InvalidType}
  /\ status \in Byte \cup {InvalidType}
  /\ Len(trail) = Len(q) + Len(uart)

Init ==
  /\ FifoInit
  /\ parser = Reset /\ launched = NoCall
  /\ sending = <<>> /\ rest = <<>> /\ status = InvalidType
  /\ trail = <<>> /\ lossAtEnd = FALSE /\ inStep = TRUE
-----------------------------------------------------------------------------
(* What the MIDI standard says a message means to the handlers *)

Meaning(m) ==
  LET kind == m[1] \div 16  n == m[1] % 16
  IN IF kind * 16 \in Registered
       THEN [handler |-> kind * 16, slot |-> (n % N_MIDI_CHANNELS) + 1,
             drum |-> kind \in {8, 9} /\ n = 9,
             data |-> IF kind = 14 THEN <<m[2] + 128 * m[3] - 8192>> ELSE Tail(m)]
     ELSE IF m[1] \in Transport THEN [NoCall EXCEPT !.handler = m[1]]
     ELSE NoCall

(* The sender *)

\* Byte b goes over the wire; with it the message call stands for is complete.
\* The USART keeps it if it has a place.
Transmit(b, call) ==
  /\ IF Len(uart) < UART_DEPTH
       THEN /\ Arrive(b) /\ lossAtEnd' = FALSE
            /\ trail' = Append(trail, [call |-> call, gap |-> lossAtEnd])
       ELSE UNCHANGED <<fifoVars, trail>> /\ lossAtEnd' = TRUE
  /\ UNCHANGED <<parser, launched, inStep>>

\* The next byte of bytes, which ends the message m or has more to come.
SendFrom(m, bytes) ==
  /\ Transmit(Head(bytes), IF Tail(bytes) = <<>> THEN Meaning(m) ELSE NoCall)
  /\ sending' = (IF Tail(bytes) = <<>> THEN <<>> ELSE m) /\ rest' = Tail(bytes)

StartSending ==
  /\ rest = <<>>
  /\ \E m \in Messages :
       /\ \/ SendFrom(m, m)
          \/ m[1] = status /\ Len(m) \in RunningLengths /\ SendFrom(m, Tail(m))
       /\ status' = IF TypeOf(m[1]) \in ChannelTypes THEN m[1] ELSE InvalidType

GoOnSending == rest # <<>> /\ SendFrom(sending, rest) /\ UNCHANGED status

SendRealTime == \E b \in RealTime : Transmit(b, Meaning(<<b>>)) /\ UNCHANGED sender

(* The receiver *)

\* store_char(): the byte that finds no room leaves a gap behind.
Store ==
  /\ Receive
  /\ LET k == Len(q) + 1 IN
     IF Room THEN UNCHANGED <<trail, lossAtEnd>>
     ELSE /\ trail' = RemoveAt(IF k < Len(trail) THEN [trail EXCEPT ![k + 1].gap = TRUE]
                                                 ELSE trail, k)
          /\ lossAtEnd' = (lossAtEnd \/ k = Len(trail))
  /\ UNCHANGED <<parser, launched, sender, inStep>>

FetchByte == HandOut /\ launched' = NoCall /\ UNCHANGED <<parser, sender, ghosts>>

\* An idle parser that takes a status byte, not of a real-time message, is in
\* step again.
InStepAfter(b) ==
  \/ parser.pending = <<>> /\ IsStatus(b) /\ b \notin RealTimeTypes
  \/ inStep /\ ~Head(trail).gap

\* read(): the byte is parsed, and a handler called if it completes a message.
Read ==
  /\ Leave
  /\ LET r == Parse(parser, out) IN
     /\ parser' = r.state
     /\ launched' = Launch(r.message)
  /\ trail' = Tail(trail) /\ inStep' = InStepAfter(out)
  /\ UNCHANGED <<sender, lossAtEnd>>

\* USBMIDI.read() takes a packet, between two calls of MIDI.read().
UsbPacket(m) ==
  IF m[1] < 240 THEN UsbCall(m[1] \div 16, m[1], m[2], IF Len(m) = 3 THEN m[3] ELSE 0)
                ELSE UsbCall(15, m[1], 0, 0)

UsbMessages == {m \in Messages : m[1] < 240} \cup {<<b>> : b \in RealTime}

ReadUsb(m) ==
  /\ out = NoByte
  /\ launched' = UsbPacket(m)
  /\ UNCHANGED <<fifoVars, parser, sender, ghosts>>

Next ==
  \/ StartSending \/ GoOnSending \/ SendRealTime
  \/ Store \/ FetchByte \/ Read
  \/ \E m \in UsbMessages : ReadUsb(m)

Spec == Init /\ [][Next]_vars
-----------------------------------------------------------------------------
(* Properties *)

\* As long as no byte was lost since the parser took a status byte while idle,
\* every message is delivered when its last byte is parsed, to the handler and
\* the settings the standard names, and nothing else is delivered: whatever
\* real-time bytes are put between its bytes, whatever is skipped, and whatever
\* was lost before (parse(), launchCallback(), the channel folds in midi.cpp).
DeliveredAsSent == [][Read /\ inStep' => launched' = Head(trail).call]_vars

\* A real-time message is never swallowed, not even by a parser that has lost
\* bytes and takes what follows for something else (parse()).
RealTimeAlwaysHeard ==
  [][Read /\ out \in RealTimeTypes => launched' = Meaning(<<out>>)]_vars

\* MIDI over USB and over the wire call the same handler with the same values
\* for a message: the one counts channels from 0 modulo 16, the other from 1
\* (USBMIDI_Class::read()).
UsbAgrees == [][\A m \in UsbMessages : ReadUsb(m) => launched' = Meaning(m)]_vars
=============================================================================

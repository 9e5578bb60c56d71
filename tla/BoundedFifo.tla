----------------------------- MODULE BoundedFifo -----------------------------
(***************************************************************************)
(* What the serial receive buffer promises to the MIDI parser: bytes leave *)
(* in the order in which the USART delivered them, each once, and one is   *)
(* lost on the way from the USART only when Capacity of them are waiting.  *)
(* A byte that is handed out keeps its place until the reader is done.     *)
(***************************************************************************)
EXTENDS Naturals, Sequences

CONSTANTS
  Byte,         \* what comes over the wire
  NoByte,       \* no byte
  Capacity      \* how many bytes wait before one is refused

VARIABLES
  uart,         \* the bytes the USART holds
  q,            \* the bytes that wait
  out           \* the byte that is handed out, or NoByte

fifoVars == <<uart, q, out>>

FifoInit == uart = <<>> /\ q = <<>> /\ out = NoByte

\* The USART gets a byte from the wire.
Arrive(c) == uart' = Append(uart, c) /\ UNCHANGED <<q, out>>

\* It delivers its oldest byte, which is refused if there is no room.
Room == Len(q) < Capacity

Receive ==
  /\ uart # <<>>
  /\ uart' = Tail(uart)
  /\ q' = IF Room THEN Append(q, Head(uart)) ELSE q
  /\ UNCHANGED out

\* The oldest byte is handed out, then leaves the queue.
HandOut == out = NoByte /\ q # <<>> /\ out' = Head(q) /\ UNCHANGED <<uart, q>>
Leave   == out # NoByte /\ q' = Tail(q) /\ out' = NoByte /\ UNCHANGED uart

FifoNext == (\E c \in Byte : Arrive(c)) \/ Receive \/ HandOut \/ Leave

FifoSpec == FifoInit /\ [][FifoNext]_fifoVars
=============================================================================

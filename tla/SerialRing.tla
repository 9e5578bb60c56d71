------------------------------ MODULE SerialRing ------------------------------
(***************************************************************************)
(* The serial receive buffer: the receive interrupt as its producer, read()*)
(* in the main thread as its consumer.  There is no lock: head belongs to  *)
(* the interrupt, tail to the main thread.                                 *)
(*                                                                         *)
(* The interrupt has the lowest level.  While another interrupt of that    *)
(* level runs (the pulse ISR may wait in it for the audio ISR), or between *)
(* cli() and sei(), it is held off, and so is the main thread; the USART,  *)
(* which has UART_DEPTH places of its own, goes on receiving and loses     *)
(* what finds no place.                                                    *)
(*                                                                         *)
(* read() takes two steps, with the interrupt between them: the byte is    *)
(* fetched, then tail is moved.  A slot that was read is cleared here      *)
(* (nothing reads it again before it is written).                          *)
(***************************************************************************)
EXTENDS Integers, Sequences

CONSTANTS
  RX_BUFFER_SIZE,
  UART_DEPTH,        \* the USART's own places: a bound of the hardware
  Byte, NoByte       \* what comes over the wire; nothing

ASSUME RingAssumption ==
  /\ RX_BUFFER_SIZE \in Nat /\ RX_BUFFER_SIZE > 1
  /\ UART_DEPTH \in Nat \ {0}
  /\ NoByte \notin Byte

VARIABLES
  uart, heldOff,
  buffer, head, tail,
  fetched            \* the byte in read()'s register c, or NoByte

hardware == <<uart, heldOff>>
ring     == <<buffer, head, tail>>
ringVars == <<uart, heldOff, buffer, head, tail, fetched>>

Index == 0 .. (RX_BUFFER_SIZE - 1)

RingTypeOK ==
  /\ uart \in Seq(Byte) /\ Len(uart) <= UART_DEPTH
  /\ heldOff \in BOOLEAN
  /\ buffer \in [Index -> Byte \cup {NoByte}]
  /\ head \in Index /\ tail \in Index
  /\ fetched \in Byte \cup {NoByte}

RingInit ==
  /\ uart = <<>> /\ heldOff = FALSE
  /\ buffer = [i \in Index |-> NoByte] /\ head = 0 /\ tail = 0
  /\ fetched = NoByte

\* wrong variant: the index wraps one place late
AfterOverruns(i) == (i + 1) % (RX_BUFFER_SIZE + 1)

After(i) == (i + 1) % RX_BUFFER_SIZE

\* HardwareSerial::available()
Available == (RX_BUFFER_SIZE + head - tail) % RX_BUFFER_SIZE
-----------------------------------------------------------------------------
(* The hardware *)

\* A byte comes over the wire; the USART keeps it if it has a place for it.
Kept      == Len(uart) < UART_DEPTH
Arrive(c) == /\ uart' = IF Kept THEN Append(uart, c) ELSE uart
             /\ UNCHANGED <<heldOff, ring, fetched>>

\* Another interrupt of the lowest level, or cli(): nothing of this level runs.
HoldOff == ~heldOff /\ heldOff' = TRUE  /\ UNCHANGED <<uart, ring, fetched>>
LetGo   ==  heldOff /\ heldOff' = FALSE /\ UNCHANGED <<uart, ring, fetched>>

(* The receive interrupt, store_char() *)

\* wrong variant: a byte is stored without a look at the tail
RoomAlways == TRUE

Room == After(head) # tail

Receive ==
  /\ ~heldOff /\ uart # <<>>
  /\ uart' = Tail(uart)
  /\ IF Room
       THEN buffer' = [buffer EXCEPT ![head] = Head(uart)] /\ head' = After(head)
       ELSE UNCHANGED <<buffer, head>>
  /\ UNCHANGED <<heldOff, tail, fetched>>

(* The main thread: available(), then read() *)

Fetch ==
  /\ ~heldOff /\ fetched = NoByte
  /\ Available > 0
  /\ fetched' = buffer[tail]
  /\ UNCHANGED <<uart, heldOff, ring>>

Take ==
  /\ ~heldOff /\ fetched # NoByte
  /\ fetched' = NoByte
  /\ buffer' = [buffer EXCEPT ![tail] = NoByte]
  /\ tail' = After(tail)
  /\ UNCHANGED <<uart, heldOff, head>>

RingNext == (\E c \in Byte : Arrive(c)) \/ HoldOff \/ LetGo \/ Receive \/ Fetch \/ Take

RingSpec == RingInit /\ [][RingNext]_ringVars
-----------------------------------------------------------------------------
(* The ring is a queue of RX_BUFFER_SIZE - 1 bytes, the oldest at tail. *)

Slot(i)  == (tail + i - 1) % RX_BUFFER_SIZE
Contents == [i \in 1 .. Available |-> buffer[Slot(i)]]

Queue == INSTANCE BoundedFifo
           WITH q <- Contents, out <- fetched, Capacity <- RX_BUFFER_SIZE - 1

\* The ring hands the bytes out in order, each once, and the receive interrupt
\* drops one only with RX_BUFFER_SIZE - 1 bytes waiting, whatever it interrupts
\* in read() (store_char(), available(), read()).
RingIsFifo == Queue!FifoSpec
=============================================================================

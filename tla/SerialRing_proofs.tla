-------------------------- MODULE SerialRing_proofs --------------------------
(***************************************************************************)
(* Theorems about SerialRing for every buffer size, every depth of the     *)
(* USART and every set of bytes: its types, that the parser's flush is     *)
(* never reached, and that the ring implements the queue of BoundedFifo.   *)
(***************************************************************************)
EXTENDS SerialRing, SequenceTheorems, TLAPS

-----------------------------------------------------------------------------
(* Arithmetic of the indices *)

\* A number below twice the size is reduced by at most one subtraction.
LEMMA Wrap ==
  ASSUME NEW a \in 0 .. (2 * RX_BUFFER_SIZE - 1)
  PROVE  a % RX_BUFFER_SIZE = IF a < RX_BUFFER_SIZE THEN a ELSE a - RX_BUFFER_SIZE
<1> DEFINE n == RX_BUFFER_SIZE
<1> n \in Nat \ {0}
  BY RingAssumption
<1> HIDE DEF n
<1>1. \A b \in 0 .. (n - 1) : b % n = b
  BY SMT
<1>2. \A b \in n .. (2 * n - 1) : b % n = b - n
  BY SMT
<1> QED BY <1>1, <1>2 DEF n

LEMMA AfterWraps ==
  ASSUME NEW i \in Index
  PROVE  After(i) = (IF i = RX_BUFFER_SIZE - 1 THEN 0 ELSE i + 1) /\ After(i) \in Index
<1> DEFINE a == i + 1
<1>1. a \in 0 .. (2 * RX_BUFFER_SIZE - 1) /\ i \in 0 .. (RX_BUFFER_SIZE - 1)
  BY RingAssumption DEF Index
<1>2. a % RX_BUFFER_SIZE = IF a < RX_BUFFER_SIZE THEN a ELSE a - RX_BUFFER_SIZE
  <2> HIDE DEF a
  <2> QED BY <1>1, Wrap
<1> QED BY <1>1, <1>2, RingAssumption DEF After, Index

LEMMA AvailableCounts ==
  ASSUME NEW h \in Index, NEW t \in Index
  PROVE  /\ (RX_BUFFER_SIZE + h - t) % RX_BUFFER_SIZE =
              IF t <= h THEN h - t ELSE RX_BUFFER_SIZE + h - t
         /\ (RX_BUFFER_SIZE + h - t) % RX_BUFFER_SIZE \in 0 .. (RX_BUFFER_SIZE - 1)
<1> DEFINE a == RX_BUFFER_SIZE + h - t
<1>1. /\ a \in 0 .. (2 * RX_BUFFER_SIZE - 1)
      /\ h \in 0 .. (RX_BUFFER_SIZE - 1) /\ t \in 0 .. (RX_BUFFER_SIZE - 1)
  BY RingAssumption DEF Index
<1>2. a % RX_BUFFER_SIZE = IF a < RX_BUFFER_SIZE THEN a ELSE a - RX_BUFFER_SIZE
  BY <1>1, Wrap
<1> QED BY <1>1, <1>2, RingAssumption

LEMMA SlotWraps ==
  ASSUME NEW t \in Index, NEW i \in 1 .. RX_BUFFER_SIZE
  PROVE  /\ (t + i - 1) % RX_BUFFER_SIZE =
              IF t + i - 1 < RX_BUFFER_SIZE THEN t + i - 1 ELSE t + i - 1 - RX_BUFFER_SIZE
         /\ (t + i - 1) % RX_BUFFER_SIZE \in Index
<1> DEFINE a == t + i - 1
<1>1. /\ a \in 0 .. (2 * RX_BUFFER_SIZE - 1) /\ t \in 0 .. (RX_BUFFER_SIZE - 1)
      /\ i \in Int
  BY RingAssumption DEF Index
<1>2. a % RX_BUFFER_SIZE = IF a < RX_BUFFER_SIZE THEN a ELSE a - RX_BUFFER_SIZE
  <2> HIDE DEF a
  <2> QED BY <1>1, Wrap
<1> QED BY <1>1, <1>2, RingAssumption DEF Index
-----------------------------------------------------------------------------
(* Types *)

LEMMA RingTypeInit == RingInit => RingTypeOK
BY RingAssumption, EmptySeq DEF RingInit, RingTypeOK, Index

LEMMA RingTypeStep ==
  ASSUME RingTypeOK, [RingNext]_ringVars
  PROVE  RingTypeOK'
<1>1. ASSUME NEW c \in Byte, Arrive(c) PROVE RingTypeOK'
  BY <1>1, AppendProperties, RingAssumption DEF RingTypeOK, Arrive, Kept, ring
<1>2. CASE HoldOff \/ LetGo
  BY <1>2 DEF RingTypeOK, HoldOff, LetGo, ring
<1>3. CASE Receive
  <2>1. uart' \in Seq(Byte) /\ Len(uart') <= UART_DEPTH /\ Head(uart) \in Byte
    BY <1>3, HeadTailProperties, RingAssumption DEF RingTypeOK, Receive
  <2>2. head' \in Index /\ buffer' \in [Index -> Byte \cup {NoByte}]
    BY <1>3, <2>1, AfterWraps DEF RingTypeOK, Receive
  <2> QED BY <1>3, <2>1, <2>2 DEF RingTypeOK, Receive
<1>4. CASE Fetch
  BY <1>4 DEF RingTypeOK, Fetch, ring
<1>5. CASE Take
  BY <1>5, AfterWraps DEF RingTypeOK, Take
<1>6. CASE UNCHANGED ringVars
  BY <1>6 DEF RingTypeOK, ringVars
<1> QED BY <1>1, <1>2, <1>3, <1>4, <1>5, <1>6 DEF RingNext

\* Every variable keeps its type, whatever is received and read (SerialRing).
THEOREM RingTypeCorrect == RingSpec => []RingTypeOK
BY RingTypeInit, RingTypeStep, PTL DEF RingSpec

\* available() never reports a full buffer of RX_BUFFER_SIZE bytes, so the
\* parser's flush of a full buffer (bytes_available == 128) is never reached.
THEOREM FlushUnreachable == RingSpec => [](Available < RX_BUFFER_SIZE)
<1>1. RingTypeOK => Available < RX_BUFFER_SIZE
  BY AvailableCounts, RingAssumption DEF RingTypeOK, Available
<1> QED BY <1>1, RingTypeCorrect, PTL
-----------------------------------------------------------------------------
(* The ring implements the queue *)

\* What the refinement needs beside the types: between its two steps, read()
\* has a byte left to remove.
RefInv == RingTypeOK /\ (fetched # NoByte => Available > 0)

\* A function on 1 .. m is a sequence.
LEMMA FunctionIsSeq ==
  ASSUME NEW S, NEW m \in Nat, NEW g \in [1 .. m -> S]
  PROVE  g \in Seq(S)
<1>1. [1 .. m -> S] \in {[1 .. n -> S] : n \in Nat}
  OBVIOUS
<1> QED BY <1>1, SeqDef, Zenon

\* The bytes between two indices are a sequence, the k-th of them in its slot.
LEMMA ContentsOf ==
  ASSUME NEW b \in [Index -> Byte \cup {NoByte}], NEW h \in Index, NEW t \in Index,
         NEW n, n = (RX_BUFFER_SIZE + h - t) % RX_BUFFER_SIZE,
         NEW c, c = [i \in 1 .. n |-> b[(t + i - 1) % RX_BUFFER_SIZE]]
  PROVE  /\ c \in Seq(Byte \cup {NoByte}) /\ Len(c) = n
         /\ \A k \in 1 .. n : c[k] = b[(t + k - 1) % RX_BUFFER_SIZE]
<1>1. n \in Nat /\ n < RX_BUFFER_SIZE
  BY AvailableCounts, RingAssumption
<1>2. \A k \in 1 .. n : (t + k - 1) % RX_BUFFER_SIZE \in Index
  <2> TAKE k \in 1 .. n
  <2>1. k \in 1 .. RX_BUFFER_SIZE
    BY <1>1, RingAssumption
  <2> QED BY <2>1, SlotWraps
<1>3. \A k \in 1 .. n : b[(t + k - 1) % RX_BUFFER_SIZE] \in Byte \cup {NoByte}
  BY <1>2
<1> DEFINE f(k) == b[(t + k - 1) % RX_BUFFER_SIZE]
<1>4. c = [k \in 1 .. n |-> f(k)] /\ \A k \in 1 .. n : f(k) \in Byte \cup {NoByte}
  BY <1>3
<1>5. c \in [1 .. n -> Byte \cup {NoByte}] /\ \A k \in 1 .. n : c[k] = f(k)
  <2> HIDE DEF f
  <2> QED BY <1>4
<1>6. c \in Seq(Byte \cup {NoByte})
  BY <1>1, <1>5, FunctionIsSeq
<1>7. Len(c) = n
  <2>1. DOMAIN c = 1 .. Len(c) /\ DOMAIN c = 1 .. n /\ Len(c) \in Nat
    BY <1>5, <1>6, LenProperties
  <2> QED BY <1>1, <2>1
<1> QED BY <1>5, <1>6, <1>7

LEMMA ContentsType ==
  ASSUME RingTypeOK
  PROVE  /\ Contents \in Seq(Byte \cup {NoByte}) /\ Len(Contents) = Available
         /\ \A k \in 1 .. Available : Contents[k] = buffer[Slot(k)]
BY ContentsOf DEF RingTypeOK, Contents, Available, Slot

LEMMA ContentsTypeNext ==
  ASSUME RingTypeOK'
  PROVE  /\ Contents' \in Seq(Byte \cup {NoByte}) /\ Len(Contents') = Available'
         /\ \A k \in 1 .. Available' : Contents'[k] = buffer'[Slot(k)']
BY ContentsOf DEF RingTypeOK, Contents, Available, Slot

\* The receive interrupt appends to the contents, or refuses at the capacity.
LEMMA ReceiveAppends ==
  ASSUME RingTypeOK, Receive, RingTypeOK'
  PROVE  Contents' = IF Len(Contents) < RX_BUFFER_SIZE - 1
                     THEN Append(Contents, Head(uart)) ELSE Contents
<1>1. /\ head \in 0 .. (RX_BUFFER_SIZE - 1) /\ tail \in 0 .. (RX_BUFFER_SIZE - 1)
      /\ tail' = tail /\ RX_BUFFER_SIZE \in Nat /\ RX_BUFFER_SIZE > 1
  BY RingAssumption DEF RingTypeOK, Receive, Index
<1>2. Room <=> Available < RX_BUFFER_SIZE - 1
  <2>1. After(head) = IF head = RX_BUFFER_SIZE - 1 THEN 0 ELSE head + 1
    BY AfterWraps DEF RingTypeOK
  <2>2. Available = IF tail <= head THEN head - tail ELSE RX_BUFFER_SIZE + head - tail
    BY AvailableCounts DEF RingTypeOK, Available
  <2> QED BY <1>1, <2>1, <2>2 DEF Room
<1>3. CASE ~Room
  <2>1. Contents' = Contents
    BY <1>3 DEF Receive, Contents, Available, Slot
  <2> QED BY <1>2, <1>3, <2>1, ContentsType
<1>4. CASE Room
  <2>1. Available' = Available + 1 /\ Available \in Nat /\ Available < RX_BUFFER_SIZE - 1
    <3>1. Available = IF tail <= head THEN head - tail ELSE RX_BUFFER_SIZE + head - tail
      BY AvailableCounts DEF RingTypeOK, Available
    <3>2. Available' = IF tail' <= head' THEN head' - tail' ELSE RX_BUFFER_SIZE + head' - tail'
      BY AvailableCounts DEF RingTypeOK, Available
    <3>3. head' = IF head = RX_BUFFER_SIZE - 1 THEN 0 ELSE head + 1
      BY <1>4, AfterWraps DEF RingTypeOK, Receive
    <3>4. tail # head'
      BY <1>4 DEF Room, Receive
    <3> QED BY <1>1, <1>2, <1>4, <3>1, <3>2, <3>3, <3>4
  <2>2. \A k \in 1 .. RX_BUFFER_SIZE : Slot(k)' = Slot(k)
    BY <1>1 DEF Slot
  <2>3. Slot(Available + 1) = head /\ \A k \in 1 .. Available : Slot(k) # head
    <3>1. Available = IF tail <= head THEN head - tail ELSE RX_BUFFER_SIZE + head - tail
      BY AvailableCounts DEF RingTypeOK, Available
    <3>2. \A k \in 1 .. RX_BUFFER_SIZE :
            Slot(k) = IF tail + k - 1 < RX_BUFFER_SIZE THEN tail + k - 1
                      ELSE tail + k - 1 - RX_BUFFER_SIZE
      BY SlotWraps DEF RingTypeOK, Slot
    <3>3. Available + 1 \in 1 .. RX_BUFFER_SIZE
      BY <1>1, <2>1
    <3>4. Slot(Available + 1) = head
      BY <1>1, <2>1, <3>1, <3>2, <3>3
    <3>5. ASSUME NEW k \in 1 .. Available PROVE Slot(k) # head
      <4>1. k \in 1 .. RX_BUFFER_SIZE /\ k < Available + 1
        BY <1>1, <2>1
      <4> QED BY <1>1, <2>1, <3>1, <3>2, <4>1
    <3> QED BY <3>4, <3>5
  <2>4. buffer' = [buffer EXCEPT ![head] = Head(uart)]
    BY <1>4 DEF Receive
  <2>5. Head(uart) \in Byte
    BY HeadTailProperties DEF RingTypeOK, Receive
  <2> DEFINE s == Append(Contents, Head(uart))
  <2>6. s \in Seq(Byte \cup {NoByte}) /\ Len(s) = Available + 1
        /\ s[Available + 1] = Head(uart)
        /\ \A k \in 1 .. Available : s[k] = Contents[k]
    BY <2>5, ContentsType, AppendProperties
  <2>7. Contents' \in Seq(Byte \cup {NoByte}) /\ Len(Contents') = Available'
        /\ \A k \in 1 .. Available' : Contents'[k] = buffer'[Slot(k)']
    BY ContentsTypeNext
  <2>8. ASSUME NEW k \in 1 .. Len(Contents') PROVE Contents'[k] = s[k]
    <3>1. k \in 1 .. (Available + 1) /\ k \in 1 .. RX_BUFFER_SIZE /\ Contents'[k] = buffer'[Slot(k)]
      BY <1>1, <2>1, <2>2, <2>7, <2>8
    <3>2. CASE k = Available + 1
      BY <2>3, <2>4, <2>6, <3>1, <3>2 DEF RingTypeOK
    <3>3. CASE k # Available + 1
      <4>1. k \in 1 .. Available
        BY <2>1, <3>1, <3>3
      <4>2. Slot(k) # head /\ Slot(k) \in Index
        BY <2>3, <4>1, <3>1, SlotWraps DEF RingTypeOK, Slot
      <4> QED BY <2>4, <2>6, <3>1, <4>1, <4>2, ContentsType DEF RingTypeOK
    <3> QED BY <3>2, <3>3
  <2> HIDE DEF s
  <2>9. Contents' = s
    BY <2>1, <2>6, <2>7, <2>8, SeqEqual
  <2> QED BY <2>1, <2>9, ContentsType DEF s
<1> QED BY <1>3, <1>4

\* read() removes the oldest byte.
LEMMA TakeRemoves ==
  ASSUME RingTypeOK, Take, RingTypeOK', Available > 0
  PROVE  Contents' = Tail(Contents) /\ Contents # <<>>
<1>1. /\ head \in 0 .. (RX_BUFFER_SIZE - 1) /\ tail \in 0 .. (RX_BUFFER_SIZE - 1)
      /\ head' = head /\ RX_BUFFER_SIZE \in Nat /\ RX_BUFFER_SIZE > 1
  BY RingAssumption DEF RingTypeOK, Take, Index
<1>2. Available = IF tail <= head THEN head - tail ELSE RX_BUFFER_SIZE + head - tail
  BY AvailableCounts DEF RingTypeOK, Available
<1>3. Available' = IF tail' <= head' THEN head' - tail' ELSE RX_BUFFER_SIZE + head' - tail'
  BY AvailableCounts DEF RingTypeOK, Available
<1>4. tail' = IF tail = RX_BUFFER_SIZE - 1 THEN 0 ELSE tail + 1
  BY AfterWraps DEF RingTypeOK, Take
<1>5. Available \in 1 .. (RX_BUFFER_SIZE - 1) /\ Available' = Available - 1
  BY <1>1, <1>2, <1>3, <1>4
<1>6. \A k \in 1 .. Available' :
        Slot(k)' = Slot(k + 1) /\ Slot(k + 1) # tail /\ Slot(k + 1) \in Index
  <2> TAKE k \in 1 .. Available'
  <2>1. k \in 1 .. RX_BUFFER_SIZE /\ k + 1 \in 1 .. RX_BUFFER_SIZE /\ k < RX_BUFFER_SIZE - 1
    BY <1>1, <1>5
  <2>2. Slot(k)' = IF tail' + k - 1 < RX_BUFFER_SIZE THEN tail' + k - 1
                   ELSE tail' + k - 1 - RX_BUFFER_SIZE
    BY <2>1, SlotWraps DEF RingTypeOK, Slot
  <2>3. /\ Slot(k + 1) = IF tail + (k + 1) - 1 < RX_BUFFER_SIZE THEN tail + (k + 1) - 1
                         ELSE tail + (k + 1) - 1 - RX_BUFFER_SIZE
        /\ Slot(k + 1) \in Index
    BY <2>1, SlotWraps DEF RingTypeOK, Slot
  <2> QED BY <1>1, <1>4, <2>1, <2>2, <2>3
<1>7. buffer' = [buffer EXCEPT ![tail] = NoByte]
  BY DEF Take
<1>8. /\ Contents # <<>> /\ Tail(Contents) \in Seq(Byte \cup {NoByte})
      /\ Len(Tail(Contents)) = Available - 1
      /\ \A k \in 1 .. (Available - 1) : Tail(Contents)[k] = Contents[k + 1]
  <2>1. Contents # <<>>
    BY <1>5, ContentsType, EmptySeq
  <2> QED BY <1>5, <2>1, ContentsType, HeadTailProperties
<1>9. Contents' \in Seq(Byte \cup {NoByte}) /\ Len(Contents') = Available'
      /\ \A k \in 1 .. Available' : Contents'[k] = buffer'[Slot(k)']
  BY ContentsTypeNext
<1>10. ASSUME NEW k \in 1 .. Len(Contents') PROVE Contents'[k] = Tail(Contents)[k]
  <2>1. k \in 1 .. Available' /\ k \in 1 .. (Available - 1) /\ k + 1 \in 1 .. Available
    BY <1>5, <1>9
  <2>2. Contents'[k] = buffer'[Slot(k)']
    BY <1>9, <2>1
  <2>3. buffer'[Slot(k)'] = buffer[Slot(k + 1)]
    BY <1>6, <1>7, <2>1 DEF RingTypeOK
  <2> QED BY <1>8, <2>1, <2>2, <2>3, ContentsType
<1> QED BY <1>5, <1>8, <1>9, <1>10, SeqEqual

\* The invariant of the refinement.
LEMMA RefInvStep ==
  ASSUME RefInv, [RingNext]_ringVars
  PROVE  RefInv'
<1>1. RingTypeOK /\ RingTypeOK'
  BY RingTypeStep DEF RefInv
<1>2. SUFFICES ASSUME fetched' # NoByte PROVE (Available > 0)'
  BY <1>1 DEF RefInv
<1>3. Available \in Nat /\ Available' \in Nat
  BY <1>1, AvailableCounts, RingAssumption DEF RingTypeOK, Available
<1>4. CASE Receive
  <2>1. Available > 0
    BY <1>2, <1>4 DEF RefInv, Receive
  <2>2. Len(Contents) = Available /\ Len(Contents') = Available'
    BY <1>1, ContentsType, ContentsTypeNext
  <2>3. Len(Contents') >= Len(Contents)
    BY <1>1, <1>4, <1>3, <2>2, ReceiveAppends, ContentsType, AppendProperties, HeadTailProperties
       DEF Receive, RingTypeOK
  <2> QED BY <1>3, <2>1, <2>2, <2>3
<1>5. CASE Take
  BY <1>2, <1>5 DEF Take
<1>6. CASE Fetch
  BY <1>6 DEF Fetch, ring, Available
<1>7. ASSUME NEW c \in Byte, Arrive(c) PROVE (Available > 0)'
  BY <1>2, <1>7 DEF RefInv, Arrive, ring, Available
<1>8. CASE HoldOff \/ LetGo \/ UNCHANGED ringVars
  BY <1>2, <1>8 DEF RefInv, HoldOff, LetGo, ring, ringVars, Available
<1> QED BY <1>4, <1>5, <1>6, <1>7, <1>8 DEF RingNext

\* Every step of the ring is a step of the queue or leaves it as it is.
LEMMA RingStepIsQueueStep ==
  ASSUME RefInv, [RingNext]_ringVars
  PROVE  [Queue!FifoNext]_Queue!fifoVars
<1> USE DEF Queue!fifoVars
<1>1. RingTypeOK /\ RingTypeOK'
  BY RingTypeStep DEF RefInv
<1>2. ASSUME NEW c \in Byte, Arrive(c) PROVE [Queue!FifoNext]_Queue!fifoVars
  <2>1. Contents' = Contents
    BY <1>2 DEF Arrive, ring, Contents, Available, Slot
  <2> QED BY <1>2, <2>1 DEF Arrive, Queue!FifoNext, Queue!Arrive
<1>3. CASE HoldOff \/ LetGo \/ UNCHANGED ringVars
  BY <1>3 DEF HoldOff, LetGo, ring, ringVars, Contents, Available, Slot
<1>4. CASE Receive
  <2>1. Queue!Receive
    BY <1>1, <1>4, ReceiveAppends DEF Receive, Queue!Receive, Queue!Room
  <2> QED BY <2>1 DEF Queue!FifoNext
<1>5. CASE Fetch
  <2>1. Contents' = Contents
    BY <1>5 DEF Fetch, ring, Contents, Available, Slot
  <2>2. Available \in 1 .. (RX_BUFFER_SIZE - 1)
    BY <1>1, <1>5, AvailableCounts, RingAssumption DEF Fetch, RingTypeOK, Available
  <2>3. Slot(1) = tail
    <3>1. tail \in Index /\ tail \in 0 .. (RX_BUFFER_SIZE - 1) /\ 1 \in 1 .. RX_BUFFER_SIZE
      BY <1>1, RingAssumption DEF RingTypeOK, Index
    <3>2. Slot(1) = IF tail + 1 - 1 < RX_BUFFER_SIZE THEN tail + 1 - 1
                    ELSE tail + 1 - 1 - RX_BUFFER_SIZE
      BY <3>1, SlotWraps DEF Slot
    <3> QED BY <3>1, <3>2, RingAssumption
  <2>4. Contents # <<>> /\ Head(Contents) = buffer[tail]
    BY <1>1, <2>2, <2>3, ContentsType, EmptySeq, HeadTailProperties
  <2>5. Queue!HandOut
    BY <1>5, <2>1, <2>4 DEF Fetch, Queue!HandOut
  <2> QED BY <2>5 DEF Queue!FifoNext
<1>6. CASE Take
  <2>1. Queue!Leave
    BY <1>1, <1>6, TakeRemoves DEF RefInv, Take, Queue!Leave
  <2> QED BY <2>1 DEF Queue!FifoNext
<1> QED BY <1>2, <1>3, <1>4, <1>5, <1>6 DEF RingNext

\* Whatever the receive interrupt interrupts in read(), the ring hands the bytes
\* out in order, each once, and refuses one only with RX_BUFFER_SIZE - 1 waiting
\* (store_char(), available(), read()).
THEOREM RingImplementsFifo == RingSpec => RingIsFifo
<1>1. RingInit => RefInv /\ Queue!FifoInit
  <2> SUFFICES ASSUME RingInit PROVE RefInv /\ Queue!FifoInit
    OBVIOUS
  <2>1. RingTypeOK
    BY RingTypeInit
  <2>2. Available = 0
    BY <2>1, AvailableCounts, RingAssumption DEF RingTypeOK, RingInit, Available
  <2>3. Contents = <<>>
    BY <2>1, <2>2, ContentsType, EmptySeq
  <2> QED BY <2>1, <2>3 DEF RefInv, RingInit, Queue!FifoInit
<1>2. RefInv /\ [RingNext]_ringVars => RefInv' /\ [Queue!FifoNext]_Queue!fifoVars
  BY RefInvStep, RingStepIsQueueStep
<1> QED BY <1>1, <1>2, PTL DEF RingSpec, RingIsFifo, Queue!FifoSpec
=============================================================================

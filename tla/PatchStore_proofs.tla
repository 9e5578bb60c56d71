--------------------------- MODULE PatchStore_proofs ---------------------------
(***************************************************************************)
(* Theorems about PatchStore for every layout that fits its EEPROM, every  *)
(* number of patches, saves and power cuts.  The inductive invariant says  *)
(* byte by byte what a job has written up to pos and which bytes of each   *)
(* patch must hold what it was last wholly saved with.                     *)
(***************************************************************************)
EXTENDS PatchStore, SequenceTheorems, TLAPS

-----------------------------------------------------------------------------
(* Cells, words and sequences of them *)

\* How many bytes the settings and the sequence take
Ls == Len(SavedSettings)
Lq == Len(SavedSequence)

LEMMA CellTypes ==
  /\ \A b \in Nat : Number(b) \in Cells /\ Number(b).value = b
  /\ \A f \in Field, v \in Nat : Cell(f, v) \in Cells
  /\ Lost \in Cells
BY DEF Number, Cell, Cells, Lost

LEMMA NumberInjective ==
  ASSUME NEW b \in Nat, NEW c \in Nat, Number(b) = Number(c)
  PROVE  b = c
BY CellTypes

Octet == 0 .. 255

\* The word of two bytes, and what it is with a sign
Packed(lo, hi) == lo + 256 * hi
Signed(w)      == IF w >= 32768 THEN w - 65536 ELSE w

\* What AsWord and AsSigned read from two numbers.
LEMMA WordRead ==
  ASSUME NEW lo \in Octet, NEW hi \in Octet
  PROVE  AsWord(Number(lo), Number(hi)) = Packed(lo, hi)
<1>1. Number(lo).value = lo /\ Number(hi).value = hi
  BY CellTypes DEF Octet
<1> QED
  BY <1>1 DEF AsWord, Packed

LEMMA SignedRead ==
  ASSUME NEW lo \in Octet, NEW hi \in Octet
  PROVE  AsSigned(Number(lo), Number(hi)) = Signed(Packed(lo, hi))
<1>1. AsWord(Number(lo), Number(hi)) = Packed(lo, hi)
  BY WordRead
<1>2. AsSigned(Number(lo), Number(hi)) = Signed(AsWord(Number(lo), Number(hi)))
  BY DEF AsSigned, Signed
<1> QED
  BY <1>1, <1>2, Zenon

\* The bytes of a tuning
Low(t)  == t % 256
High(t) == (t \div 256) % 256
Highs   == {0, 1, 254, 255}

LEMMA HighsAreOctets == Highs \subseteq Octet
BY DEF Highs, Octet

\* A tuning in range survives the word it is written as.
LEMMA TuningRead ==
  ASSUME NEW t \in -512 .. 511
  PROVE  /\ Low(t) \in Octet /\ High(t) \in Highs
         /\ AsSigned(Number(Low(t)), Number(High(t))) = t
<1>1. t % 256 \in 0 .. 255 /\ t = 256 * (t \div 256) + (t % 256) /\ t \div 256 \in -2 .. 1
  OBVIOUS
<1>2. High(t) = IF t < 0 THEN t \div 256 + 256 ELSE t \div 256
  BY <1>1 DEF High
<1>3. Low(t) \in Octet /\ High(t) \in Highs
  BY <1>1, <1>2 DEF Low, Octet, Highs
<1>4. AsSigned(Number(Low(t)), Number(High(t))) = Signed(Packed(Low(t), High(t)))
  BY <1>3, HighsAreOctets, SignedRead, Zenon
<1>5. Signed(Packed(Low(t), High(t))) = t
  BY <1>1, <1>2 DEF Low, Signed, Packed
<1> QED
  BY <1>3, <1>4, <1>5

\* A torn tuning, too, is in range.
LEMMA TornRead ==
  ASSUME NEW lo \in Octet, NEW hi \in Highs
  PROVE  AsSigned(Number(lo), Number(hi)) \in -512 .. 511
<1>1. AsSigned(Number(lo), Number(hi)) = Signed(Packed(lo, hi))
  BY HighsAreOctets, SignedRead, Zenon
<1>2. Signed(Packed(lo, hi)) \in -512 .. 511
  BY DEF Signed, Packed, Octet, Highs
<1> QED
  BY <1>1, <1>2

LEMMA SavedTypes ==
  /\ SavedSettings \in Seq(Field) /\ SavedSequence \in Seq(Field)
  /\ Ls \in Nat /\ Lq \in Nat
  /\ DOMAIN SavedSettings = 1 .. Ls /\ DOMAIN SavedSequence = 1 .. Lq
  /\ \A k \in 1 .. Ls : SavedSettings[k] \in Settings
  /\ \A k \in 1 .. Lq : SavedSequence[k] \in Sequence
  /\ \A f \in Settings : \E k \in 1 .. Ls : SavedSettings[k] = f
  /\ \A f \in Sequence : \E k \in 1 .. Lq : SavedSequence[k] = f
  /\ Settings \subseteq Field /\ Sequence \subseteq Field /\ Field = Settings \cup Sequence
<1>1. SavedSettings \in Seq(Field) /\ SavedSequence \in Seq(Field)
  BY LayoutAssumption
<1>2. Ls \in Nat /\ DOMAIN SavedSettings = 1 .. Ls
  BY <1>1 DEF Ls
<1>3. Lq \in Nat /\ DOMAIN SavedSequence = 1 .. Lq
  BY <1>1 DEF Lq
<1> QED
  BY <1>1, <1>2, <1>3, Zenon DEF Settings, Sequence, Range, Field

LEMMA LoadedAsSaved == LoadedSettings = SavedSettings /\ LoadedSequence = SavedSequence
BY DEF LoadedSettings, SavedSettings, LoadedSequence, SavedSequence

LEMMA Constants ==
  /\ NUM_PATCHES \in Nat /\ PATCH_BASE_ADDR \in Nat /\ PATCH_SIZE \in Nat /\ EEPROM_SIZE \in Nat
  /\ NUM_PATCHES >= 1 /\ NUM_PATCHES <= 255 /\ PATCH_BASE_ADDR >= 5
  /\ PATCH_SIZE >= 4 + Ls + Lq
  /\ EEPROM_SIZE >= PATCH_BASE_ADDR + NUM_PATCHES * PATCH_SIZE
  /\ UNSET \notin Patch /\ Patch \subseteq Nat
BY StoreAssumption, SavedTypes DEF PatchLength, Ls, Lq, Patch, UNSET
-----------------------------------------------------------------------------
(* Where the patches are *)

LEMMA PatchAddrType ==
  ASSUME NEW p \in Patch
  PROVE  PatchAddr(p) \in Nat /\ PatchAddr(p) >= 5 /\ PatchAddr(p) + PATCH_SIZE <= EEPROM_SIZE
<1>. DEFINE size == PATCH_SIZE
<1>1. p \in Nat /\ p + 1 <= NUM_PATCHES
  BY Constants DEF Patch
<1>2. size \in Nat /\ NUM_PATCHES \in Nat
  BY Constants
<1>3. p * size \in Nat /\ p * size + size <= NUM_PATCHES * size
  <2>. HIDE DEF size
  <2>1. (NUM_PATCHES - p - 1) * size >= 0 /\ p * size \in Nat
    BY <1>1, <1>2
  <2>2. (NUM_PATCHES - p - 1) * size = NUM_PATCHES * size - p * size - size
    BY <1>1, <1>2
  <2> QED
    BY <1>1, <1>2, <2>1, <2>2
<1> QED
  BY <1>2, <1>3, Constants DEF PatchAddr

\* No patch reaches into the next.
LEMMA PatchesDisjoint ==
  ASSUME NEW p \in Patch, NEW q \in Patch, p < q
  PROVE  PatchAddr(p) + PATCH_SIZE <= PatchAddr(q)
<1>. DEFINE size == PATCH_SIZE
<1>1. p \in Nat /\ q \in Nat /\ p + 1 <= q /\ size \in Nat /\ PATCH_BASE_ADDR \in Nat
  BY Constants DEF Patch
<1>2. p * size + size <= q * size /\ p * size \in Nat /\ q * size \in Nat
  <2>. HIDE DEF size
  <2>1. (q - p - 1) * size >= 0 /\ p * size \in Nat /\ q * size \in Nat
    BY <1>1
  <2>2. (q - p - 1) * size = q * size - p * size - size
    BY <1>1
  <2> QED
    BY <1>1, <2>1, <2>2
<1> QED
  BY <1>1, <1>2 DEF PatchAddr

\* The addresses of a patch, and that they are in no other patch.
PatchRange(p) == PatchAddr(p) .. (PatchAddr(p) + PATCH_SIZE - 1)

LEMMA PatchRanges ==
  /\ \A p \in Patch : \A a \in PatchRange(p) : a \in Addr /\ a >= 5
  /\ \A p, q \in Patch : \A a \in PatchRange(p) : a \in PatchRange(q) => p = q
<1>1. ASSUME NEW p \in Patch, NEW a \in PatchRange(p) PROVE a \in Addr /\ a >= 5
  BY PatchAddrType, Constants DEF PatchRange, Addr
<1>2. ASSUME NEW p \in Patch, NEW q \in Patch, NEW a \in PatchRange(p), a \in PatchRange(q)
      PROVE  p = q
  <2>1. p \in Int /\ q \in Int /\ PATCH_SIZE \in Nat
    BY Constants DEF Patch
  <2>2. PatchAddr(p) \in Nat /\ PatchAddr(q) \in Nat
    BY PatchAddrType
  <2>3. ~(p < q)
    BY <1>2, <2>1, <2>2, PatchesDisjoint DEF PatchRange
  <2>4. ~(q < p)
    BY <1>2, <2>1, <2>2, PatchesDisjoint DEF PatchRange
  <2> QED
    BY <2>1, <2>3, <2>4
<1> QED
  BY <1>1, <1>2

LEMMA GlobalAddrs == 0 .. 4 \subseteq Addr
BY Constants, PatchAddrType, PatchRanges DEF Addr, Patch

-----------------------------------------------------------------------------
(* What the jobs write *)

LEMMA Concat ==
  ASSUME NEW S, NEW s \in Seq(S), NEW t \in Seq(S)
  PROVE  /\ s \o t \in Seq(S) /\ Len(s \o t) = Len(s) + Len(t)
         /\ \A k \in 1 .. (Len(s) + Len(t)) :
              (s \o t)[k] = IF k <= Len(s) THEN s[k] ELSE t[k - Len(s)]
BY ConcatProperties

LEMMA FromIs ==
  ASSUME NEW addr, NEW cells \in Seq(Cells), NEW k \in 1 .. Len(cells)
  PROVE  From(addr, cells)[k].addr = addr + k - 1 /\ From(addr, cells)[k].cell = cells[k]
BY DEF From

Write == [addr : Int, cell : Cells]

LEMMA FromType ==
  ASSUME NEW addr \in Int, NEW cells \in Seq(Cells)
  PROVE  From(addr, cells) \in Seq(Write) /\ Len(From(addr, cells)) = Len(cells)
<1>1. \A k \in 1 .. Len(cells) : [addr |-> addr + k - 1, cell |-> cells[k]] \in Write
  BY ElementOfSeq DEF Write
<1>2. Len(cells) \in Nat
  BY LenProperties
<1> QED
  BY <1>1, <1>2 DEF From

LEMMA TuningBytes ==
  ASSUME tuning \in Int
  PROVE  Number(Low(tuning)) \in Cells /\ Number(High(tuning)) \in Cells
<1>1. Low(tuning) \in Nat /\ High(tuning) \in Nat
  BY DEF Low, High
<1> QED
  BY <1>1, CellTypes

\* The five bytes of the global settings
GlobalCell(k) ==
  CASE k = 1 -> Number(208) [] k = 2 -> Number(186) [] k = 3 -> Number(mode)
    [] k = 4 -> Number(Low(tuning)) [] k = 5 -> Number(High(tuning))

LEMMA GlobalWritesAre ==
  ASSUME mode \in Nat, tuning \in Int
  PROVE  /\ Len(GlobalWrites) = 5
         /\ \A k \in 1 .. 5 : GlobalWrites[k].addr = k - 1 /\ GlobalWrites[k].cell = GlobalCell(k)
<1>. DEFINE magic == <<Number(208), Number(186)>>
            stored == <<Number(mode)>>
            tune   == <<Number(Low(tuning)), Number(High(tuning))>>
            fm == From(0, magic)
            fs == From(2, stored)
            ft == From(3, tune)
<1>1. WordOf(EEPROM_MAGIC_NUMBER) = magic /\ WordOf(tuning) = tune
  BY DEF WordOf, EEPROM_MAGIC_NUMBER, Low, High
<1>2. fm = <<[addr |-> 0, cell |-> Number(208)], [addr |-> 1, cell |-> Number(186)]>>
  BY DEF From
<1>3. fs = <<[addr |-> 2, cell |-> Number(mode)]>>
  BY DEF From
<1>4. ft = <<[addr |-> 3, cell |-> Number(Low(tuning))], [addr |-> 4, cell |-> Number(High(tuning))]>>
  BY DEF From
<1>5. GlobalWrites = (fm \o fs) \o ft
  BY <1>1 DEF GlobalWrites
<1>. HIDE DEF fm, fs, ft
<1>6. /\ fm \in Seq(Write) /\ Len(fm) = 2 /\ fs \in Seq(Write) /\ Len(fs) = 1
      /\ ft \in Seq(Write) /\ Len(ft) = 2
  BY <1>2, <1>3, <1>4, CellTypes, TuningBytes DEF Write
<1>7. /\ fm \o fs \in Seq(Write) /\ Len(fm \o fs) = 3
      /\ \A k \in 1 .. 3 : (fm \o fs)[k] = IF k <= 2 THEN fm[k] ELSE fs[k - 2]
  <2>1. /\ fm \o fs \in Seq(Write) /\ Len(fm \o fs) = Len(fm) + Len(fs)
        /\ \A k \in 1 .. (Len(fm) + Len(fs)) :
             (fm \o fs)[k] = IF k <= Len(fm) THEN fm[k] ELSE fs[k - Len(fm)]
    BY <1>6, Concat, Zenon
  <2> QED
    BY <1>6, <2>1
<1>8. /\ Len(GlobalWrites) = 5
      /\ \A k \in 1 .. 5 : GlobalWrites[k] = IF k <= 3 THEN (fm \o fs)[k] ELSE ft[k - 3]
  <2>. DEFINE f3 == fm \o fs
  <2>1. f3 \in Seq(Write) /\ Len(f3) = 3 /\ GlobalWrites = f3 \o ft
    BY <1>5, <1>7
  <2>. HIDE DEF f3
  <2>2. /\ Len(f3 \o ft) = Len(f3) + Len(ft)
        /\ \A k \in 1 .. (Len(f3) + Len(ft)) :
             (f3 \o ft)[k] = IF k <= Len(f3) THEN f3[k] ELSE ft[k - Len(f3)]
    BY <1>6, <2>1, Concat, Zenon
  <2>3. Len(GlobalWrites) = 5 /\ \A k \in 1 .. 5 : GlobalWrites[k] = IF k <= 3 THEN f3[k] ELSE ft[k - 3]
    BY <1>6, <2>1, <2>2
  <2> QED
    BY <2>3 DEF f3
<1>9. \A k \in 1 .. 5 : GlobalWrites[k] = [addr |-> k - 1, cell |-> GlobalCell(k)]
  BY <1>2, <1>3, <1>4, <1>7, <1>8 DEF GlobalCell
<1> QED
  BY <1>8, <1>9

\* The bytes of a patch as savePatch() writes them
PatchMark    == <<Number(173), Number(227)>>
SequenceMark == <<Number(218), Number(247)>>

Content ==
  (PatchMark \o Held(SavedSettings))
    \o (IF mode = MODE_GROOVEBOX THEN SequenceMark \o Held(SavedSequence) ELSE <<>>)

ContentLength == 2 + Ls + (IF mode = MODE_GROOVEBOX THEN 2 + Lq ELSE 0)

LEMMA MarksAre ==
  /\ WordOf(PATCH_VALID_MARK) = PatchMark /\ WordOf(SEQUENCE_VALID_MARK) = SequenceMark
  /\ PatchMark \in Seq(Cells) /\ Len(PatchMark) = 2
  /\ SequenceMark \in Seq(Cells) /\ Len(SequenceMark) = 2
  /\ PatchMark[1] = Number(173) /\ PatchMark[2] = Number(227)
  /\ SequenceMark[1] = Number(218) /\ SequenceMark[2] = Number(247)
<1>1. /\ Number(173) \in Cells /\ Number(227) \in Cells
      /\ Number(218) \in Cells /\ Number(247) \in Cells
  BY CellTypes
<1>2. WordOf(PATCH_VALID_MARK) = PatchMark /\ WordOf(SEQUENCE_VALID_MARK) = SequenceMark
  BY DEF WordOf, PATCH_VALID_MARK, SEQUENCE_VALID_MARK, PatchMark, SequenceMark
<1> QED
  BY <1>1, <1>2 DEF PatchMark, SequenceMark

LEMMA HeldIs ==
  ASSUME ram \in [Field -> Cells], NEW fields \in Seq(Field)
  PROVE  /\ Held(fields) \in Seq(Cells) /\ Len(Held(fields)) = Len(fields)
         /\ \A k \in 1 .. Len(fields) : Held(fields)[k] = ram[fields[k]]
<1>1. \A k \in 1 .. Len(fields) : ram[fields[k]] \in Cells
  BY ElementOfSeq
<1>2. Len(fields) \in Nat
  BY LenProperties
<1> QED
  BY <1>1, <1>2 DEF Held

\* A mark of two bytes in front
LEMMA Marked ==
  ASSUME NEW m \in Seq(Cells), Len(m) = 2, NEW s \in Seq(Cells)
  PROVE  /\ m \o s \in Seq(Cells) /\ Len(m \o s) = 2 + Len(s)
         /\ (m \o s)[1] = m[1] /\ (m \o s)[2] = m[2]
         /\ \A k \in 1 .. Len(s) : (m \o s)[2 + k] = s[k]
<1>1. /\ m \o s \in Seq(Cells) /\ Len(m \o s) = Len(m) + Len(s)
      /\ \A k \in 1 .. (Len(m) + Len(s)) :
           (m \o s)[k] = IF k <= Len(m) THEN m[k] ELSE s[k - Len(m)]
  BY Concat, Zenon
<1>2. Len(s) \in Nat
  BY LenProperties
<1> QED
  BY <1>1, <1>2

LEMMA ContentIs ==
  ASSUME ram \in [Field -> Cells]
  PROVE  /\ Content \in Seq(Cells) /\ Len(Content) = ContentLength
         /\ Content[1] = Number(173) /\ Content[2] = Number(227)
         /\ \A k \in 1 .. Ls : Content[2 + k] = ram[SavedSettings[k]]
         /\ mode = MODE_GROOVEBOX =>
              /\ Content[3 + Ls] = Number(218) /\ Content[4 + Ls] = Number(247)
              /\ \A k \in 1 .. Lq : Content[4 + Ls + k] = ram[SavedSequence[k]]
<1>. DEFINE hs == Held(SavedSettings)
            hq == Held(SavedSequence)
            first == PatchMark \o hs
            last  == SequenceMark \o hq
            rest  == IF mode = MODE_GROOVEBOX THEN last ELSE <<>>
<1>1. /\ hs \in Seq(Cells) /\ Len(hs) = Ls /\ \A k \in 1 .. Ls : hs[k] = ram[SavedSettings[k]]
      /\ hq \in Seq(Cells) /\ Len(hq) = Lq /\ \A k \in 1 .. Lq : hq[k] = ram[SavedSequence[k]]
      /\ Ls \in Nat /\ Lq \in Nat
  BY SavedTypes, HeldIs DEF Ls, Lq
<1>. HIDE DEF hs, hq
<1>2. /\ first \in Seq(Cells) /\ Len(first) = 2 + Ls
      /\ first[1] = PatchMark[1] /\ first[2] = PatchMark[2]
      /\ \A k \in 1 .. Ls : first[2 + k] = hs[k]
  <2>1. PatchMark \in Seq(Cells) /\ Len(PatchMark) = 2
    BY MarksAre
  <2>2. /\ first \in Seq(Cells) /\ Len(first) = 2 + Len(hs)
        /\ first[1] = PatchMark[1] /\ first[2] = PatchMark[2]
        /\ \A k \in 1 .. Len(hs) : first[2 + k] = hs[k]
    BY <1>1, <2>1, Marked, Zenon
  <2> QED
    BY <1>1, <2>2
<1>3. /\ last \in Seq(Cells) /\ Len(last) = 2 + Lq
      /\ last[1] = SequenceMark[1] /\ last[2] = SequenceMark[2]
      /\ \A k \in 1 .. Lq : last[2 + k] = hq[k]
  <2>1. SequenceMark \in Seq(Cells) /\ Len(SequenceMark) = 2
    BY MarksAre
  <2>2. /\ last \in Seq(Cells) /\ Len(last) = 2 + Len(hq)
        /\ last[1] = SequenceMark[1] /\ last[2] = SequenceMark[2]
        /\ \A k \in 1 .. Len(hq) : last[2 + k] = hq[k]
    BY <1>1, <2>1, Marked, Zenon
  <2> QED
    BY <1>1, <2>2
<1>4. rest \in Seq(Cells) /\ Len(rest) = IF mode = MODE_GROOVEBOX THEN 2 + Lq ELSE 0
  BY <1>3
<1>5. Content = first \o rest
  BY DEF Content, first, last, hs, hq
<1>6. mode = MODE_GROOVEBOX => rest = last
  OBVIOUS
<1>. HIDE DEF first, last, rest
<1>7. /\ Content \in Seq(Cells) /\ Len(Content) = Len(first) + Len(rest)
      /\ \A k \in 1 .. (Len(first) + Len(rest)) :
           Content[k] = IF k <= Len(first) THEN first[k] ELSE rest[k - Len(first)]
  BY <1>2, <1>4, <1>5, Concat, Zenon
<1>8. Len(Content) = ContentLength
  BY <1>1, <1>2, <1>4, <1>7 DEF ContentLength
<1>9. /\ \A k \in 1 .. (2 + Ls) : Content[k] = first[k]
      /\ \A k \in 1 .. Len(rest) : Content[2 + Ls + k] = rest[k]
  <2>1. Len(rest) \in Nat
    BY <1>1, <1>4
  <2> QED
    BY <1>1, <1>2, <1>7, <2>1
<1>10. Content[1] = Number(173) /\ Content[2] = Number(227)
  BY <1>1, <1>2, <1>9, MarksAre
<1>11. \A k \in 1 .. Ls : Content[2 + k] = ram[SavedSettings[k]]
  BY <1>1, <1>2, <1>9
<1>12. ASSUME mode = MODE_GROOVEBOX
       PROVE  /\ Content[3 + Ls] = Number(218) /\ Content[4 + Ls] = Number(247)
              /\ \A k \in 1 .. Lq : Content[4 + Ls + k] = ram[SavedSequence[k]]
  <2>1. \A k \in 1 .. (2 + Lq) : Content[2 + Ls + k] = last[k]
    BY <1>1, <1>4, <1>6, <1>9, <1>12
  <2>2. Content[3 + Ls] = last[1] /\ Content[4 + Ls] = last[2]
    <3>1. 1 \in 1 .. (2 + Lq) /\ 2 \in 1 .. (2 + Lq)
      BY <1>1
    <3>2. Content[2 + Ls + 1] = last[1] /\ Content[2 + Ls + 2] = last[2]
      BY <2>1, <3>1
    <3>3. 2 + Ls + 1 = 3 + Ls /\ 2 + Ls + 2 = 4 + Ls
      BY <1>1
    <3> QED
      BY <3>2, <3>3
  <2>3. ASSUME NEW k \in 1 .. Lq PROVE Content[4 + Ls + k] = last[2 + k]
    <3>1. 2 + k \in 1 .. (2 + Lq) /\ 2 + Ls + (2 + k) = 4 + Ls + k
      BY <1>1
    <3> QED
      BY <2>1, <3>1
  <2>4. Content[3 + Ls] = Number(218) /\ Content[4 + Ls] = Number(247)
    BY <1>3, <2>2, MarksAre
  <2>5. ASSUME NEW k \in 1 .. Lq PROVE Content[4 + Ls + k] = ram[SavedSequence[k]]
    <3>1. last[2 + k] = hq[k]
      BY <1>3
    <3>2. hq[k] = ram[SavedSequence[k]]
      BY <1>1
    <3> QED
      BY <2>3, <3>1, <3>2
  <2> QED
    BY <2>4, <2>5
<1> QED
  BY <1>7, <1>8, <1>10, <1>11, <1>12

LEMMA PatchWritesAre ==
  ASSUME ram \in [Field -> Cells], NEW p \in Patch
  PROVE  /\ Len(PatchWrites(p)) = ContentLength /\ Len(PatchWrites(p)) \in Nat
         /\ Len(PatchWrites(p)) <= PATCH_SIZE
         /\ \A k \in 1 .. Len(PatchWrites(p)) :
              PatchWrites(p)[k].addr = PatchAddr(p) + k - 1 /\ PatchWrites(p)[k].cell = Content[k]
<1>1. PatchWrites(p) = From(PatchAddr(p), Content)
  BY MarksAre DEF PatchWrites, Content
<1>2. PatchAddr(p) \in Int
  BY PatchAddrType
<1>3. Len(PatchWrites(p)) = ContentLength
  BY <1>1, <1>2, ContentIs, FromType
<1>4. ContentLength \in Nat /\ ContentLength <= PATCH_SIZE
  BY Constants, SavedTypes DEF ContentLength
<1>5. Content \in Seq(Cells) /\ Len(Content) = ContentLength
  BY ContentIs
<1>6. \A k \in 1 .. Len(Content) :
        PatchWrites(p)[k].addr = PatchAddr(p) + k - 1 /\ PatchWrites(p)[k].cell = Content[k]
  BY <1>1, <1>5, FromIs
<1> QED
  BY <1>3, <1>4, <1>5, <1>6

LEMMA ClearWritesAre ==
  /\ Len(ClearWrites) = EEPROM_SIZE
  /\ \A k \in 1 .. EEPROM_SIZE : ClearWrites[k].addr = k - 1 /\ ClearWrites[k].cell = Number(0)
<1>. DEFINE zeros == [k \in 1 .. EEPROM_SIZE |-> Number(0)]
<1>1. zeros \in Seq(Cells) /\ Len(zeros) = EEPROM_SIZE
  BY CellTypes, Constants
<1>2. \A k \in 1 .. EEPROM_SIZE : zeros[k] = Number(0)
  OBVIOUS
<1>3. ClearWrites = From(0, zeros)
  BY DEF ClearWrites
<1>. HIDE DEF zeros
<1> QED
  BY <1>1, <1>2, <1>3, FromType, FromIs

-----------------------------------------------------------------------------
(* What is read *)

LEMMA ReadKept ==
  ASSUME NEW held, NEW a, NEW fields, NEW f \in Field, f \notin Range(fields)
  PROVE  Read(held, a, fields)[f] = held[f]
BY Zenon DEF Read

LEMMA ReadFound ==
  ASSUME NEW held, NEW a \in Nat, NEW fields \in Seq(Field), NEW f \in Field, f \in Range(fields)
  PROVE  \E k \in 1 .. Len(fields) :
           fields[k] = f /\ Read(held, a, fields)[f] = eeprom[a + k - 1]
<1>. DEFINE k == CHOOSE j \in DOMAIN fields : fields[j] = f
<1>1. \E j \in DOMAIN fields : fields[j] = f
  BY Zenon DEF Range
<1>2. k \in DOMAIN fields /\ fields[k] = f
  BY <1>1, Zenon
<1>3. Read(held, a, fields)[f] = eeprom[a + k - 1]
  BY Zenon DEF Read
<1>4. DOMAIN fields = 1 .. Len(fields)
  OBVIOUS
<1>. HIDE DEF k
<1> QED
  BY <1>2, <1>3, <1>4, Zenon

LEMMA ReadType ==
  ASSUME eeprom \in [Addr -> Cells], NEW held \in [Field -> Cells],
         NEW a \in Nat, NEW fields \in Seq(Field), a + Len(fields) <= EEPROM_SIZE
  PROVE  Read(held, a, fields) \in [Field -> Cells]
<1>1. ASSUME NEW f \in Field PROVE Read(held, a, fields)[f] \in Cells
  <2>1. CASE f \notin Range(fields)
    <3>1. Read(held, a, fields)[f] = held[f]
      BY <2>1, ReadKept
    <3> QED
      BY <3>1
  <2>2. CASE f \in Range(fields)
    <3>1. PICK k \in 1 .. Len(fields) :
            fields[k] = f /\ Read(held, a, fields)[f] = eeprom[a + k - 1]
      BY <2>2, ReadFound
    <3>2. a + k - 1 \in Addr
      BY LenProperties, Constants DEF Addr
    <3> QED
      BY <3>1, <3>2
  <2> QED
    BY <2>1, <2>2
<1>2. Read(held, a, fields) = [f \in Field |-> Read(held, a, fields)[f]]
  BY DEF Read
<1> QED
  BY <1>1, <1>2

\* The bytes of the contents of a patch
LEMMA ContentAddrs ==
  ASSUME NEW p \in Patch
  PROVE  /\ PatchAddr(p) \in PatchRange(p) /\ PatchAddr(p) + 1 \in PatchRange(p)
         /\ PatchAddr(p) + 2 + Ls \in PatchRange(p) /\ PatchAddr(p) + 3 + Ls \in PatchRange(p)
         /\ \A k \in 1 .. Ls : PatchAddr(p) + 1 + k \in PatchRange(p)
         /\ \A k \in 1 .. Lq : PatchAddr(p) + 3 + Ls + k \in PatchRange(p)
<1>. DEFINE a == PatchAddr(p)
<1>1. a \in Nat /\ PATCH_SIZE \in Nat /\ PATCH_SIZE >= 4 + Ls + Lq /\ Ls \in Nat /\ Lq \in Nat
  BY PatchAddrType, Constants, SavedTypes
<1>2. PatchRange(p) = a .. (a + PATCH_SIZE - 1)
  BY DEF PatchRange
<1>. HIDE DEF a
<1>3. /\ a \in PatchRange(p) /\ a + 1 \in PatchRange(p)
      /\ a + 2 + Ls \in PatchRange(p) /\ a + 3 + Ls \in PatchRange(p)
  BY <1>1, <1>2
<1>4. \A k \in 1 .. Ls : a + 1 + k \in PatchRange(p)
  BY <1>1, <1>2
<1>5. \A k \in 1 .. Lq : a + 3 + Ls + k \in PatchRange(p)
  BY <1>1, <1>2
<1> QED
  BY <1>3, <1>4, <1>5, Zenon DEF a

LEMMA LoadedType ==
  ASSUME eeprom \in [Addr -> Cells], NEW held \in [Field -> Cells], NEW m, NEW p \in Patch
  PROVE  LoadPatch(held, m, p) \in [Field -> Cells]
<1>. DEFINE settings == Read(held, PatchAddr(p) + 2, LoadedSettings)
            both     == Read(settings, SequenceAddr(p) + 2, LoadedSequence)
<1>1. /\ PatchAddr(p) + 2 \in Nat /\ PatchAddr(p) + 2 + Ls <= EEPROM_SIZE
      /\ SequenceAddr(p) + 2 \in Nat /\ SequenceAddr(p) + 2 + Lq <= EEPROM_SIZE
  BY PatchAddrType, Constants, SavedTypes, LoadedAsSaved DEF SequenceAddr, Ls
<1>2. settings \in [Field -> Cells]
  BY <1>1, ReadType, SavedTypes, LoadedAsSaved DEF Ls
<1>3. both \in [Field -> Cells]
  <2>. HIDE DEF settings
  <2> QED
    BY <1>1, <1>2, ReadType, SavedTypes, LoadedAsSaved DEF Lq
<1> QED
  BY <1>2, <1>3 DEF LoadPatch

-----------------------------------------------------------------------------
(* The inductive invariant *)

Idle == {"off", "reset", "read", "select", "run"}
Jobs == {"clear", "tuned", "settle", "save"}

JobLength == CASE pc = "clear"              -> EEPROM_SIZE
               [] pc \in {"tuned", "settle"} -> 5
               [] pc = "save"               -> ContentLength
               [] OTHER                     -> 0

Typed ==
  /\ eeprom \in [Addr -> Cells] /\ ram \in [Field -> Cells]
  /\ kept \in [Patch -> [Field -> Cells]]
  /\ pc \in Idle \cup Jobs /\ mode \in Nat /\ tuning \in -512 .. 511
  /\ patch \in Patch \cup {UNSET} /\ (pc = "save" => patch \in Patch)
  /\ pos \in 0 .. JobLength

\* Whatever was torn, the bytes of the tuning are bytes of tunings.
Torn ==
  /\ \E lo \in Octet : eeprom[3] = Number(lo)
  /\ \E hi \in Highs : eeprom[4] = Number(hi)

\* The global settings as far as they are written
GlobalUpTo(k) == \A i \in 1 .. k : eeprom[i - 1] = GlobalCell(i)
Global == /\ pc = "settle" => GlobalUpTo(pos)
          /\ pc = "run" => GlobalUpTo(5)

\* Which fields a save in this mode writes.
InSave(f) == f \in Settings \/ (mode = MODE_GROOVEBOX /\ f \in Sequence)

\* A patch as far as it is written, and that what is overwritten is not kept
Saving ==
  pc = "save" =>
    /\ \A k \in 1 .. pos : eeprom[PatchAddr(patch) + k - 1] = Content[k]
    /\ \A f \in Field : InSave(f) => kept[patch][f] = Lost

Clearing == pc = "clear" => \A p \in Patch, f \in Field : kept[p][f] = Lost

PatchMarked(e, p)    == e[PatchAddr(p)] = Number(173) /\ e[PatchAddr(p) + 1] = Number(227)
SequenceMarked(e, p) == e[PatchAddr(p) + 2 + Ls] = Number(218) /\ e[PatchAddr(p) + 3 + Ls] = Number(247)

\* What is kept of a patch is in its place in the EEPROM e, under its marks.
SettingsIn(e, p, held) ==
  \A k \in 1 .. Ls : held[SavedSettings[k]] # Lost =>
    PatchMarked(e, p) /\ e[PatchAddr(p) + 1 + k] = held[SavedSettings[k]]
SequenceIn(e, p, held) ==
  \A k \in 1 .. Lq : held[SavedSequence[k]] # Lost =>
    /\ PatchMarked(e, p) /\ SequenceMarked(e, p)
    /\ e[PatchAddr(p) + 3 + Ls + k] = held[SavedSequence[k]]
StoredIn(e, p, held) == SettingsIn(e, p, held) /\ SequenceIn(e, p, held)

Stored == \A p \in Patch : StoredIn(eeprom, p, kept[p])

IInv == Typed /\ Torn /\ Global /\ Saving /\ Clearing /\ Stored

-----------------------------------------------------------------------------
(* What follows from it *)

\* The names of pc are all different.
LEMMA JobLengths ==
  /\ pc = "clear" => JobLength = EEPROM_SIZE
  /\ pc \in {"tuned", "settle"} => JobLength = 5
  /\ pc = "save" => JobLength = ContentLength
  /\ pc \in Idle => JobLength = 0
BY DEF JobLength, Idle

LEMMA WritesIs ==
  ASSUME Typed
  PROVE  /\ Len(Writes) = JobLength
         /\ pc = "clear" => Writes = ClearWrites
         /\ pc \in {"tuned", "settle"} => Writes = GlobalWrites
         /\ pc = "save" => Writes = PatchWrites(patch)
         /\ pc \in Idle => Writes = <<>>
<1>1. CASE pc = "clear"
  BY <1>1, ClearWritesAre DEF Writes, JobLength, Idle
<1>2. CASE pc \in {"tuned", "settle"}
  <2>1. Writes = GlobalWrites
    BY <1>2 DEF Writes
  <2>2. mode \in Nat /\ tuning \in Int
    BY DEF Typed
  <2> QED
    BY <1>2, <2>1, <2>2, GlobalWritesAre DEF JobLength, Idle
<1>3. CASE pc = "save"
  <2>1. Writes = PatchWrites(patch)
    BY <1>3 DEF Writes
  <2>2. ram \in [Field -> Cells] /\ patch \in Patch
    BY <1>3 DEF Typed
  <2> QED
    BY <1>3, <2>1, <2>2, PatchWritesAre DEF JobLength, Idle
<1>4. CASE pc \in Idle
  BY <1>4 DEF Writes, JobLength, Idle
<1>5. pc \in Idle \cup Jobs
  BY DEF Typed
<1> QED
  BY <1>1, <1>2, <1>3, <1>4, <1>5 DEF Jobs

LEMMA TypedOK == Typed => TypeOK
<1>. SUFFICES ASSUME Typed PROVE TypeOK
  OBVIOUS
<1>1. Len(Writes) = JobLength
  BY WritesIs
<1> QED
  BY <1>1 DEF TypeOK, Typed

LEMMA InvInit == Init => IInv
<1>. SUFFICES ASSUME Init PROVE IInv
  OBVIOUS
<1>1. eeprom \in [Addr -> Cells] /\ eeprom[3] = Number(255) /\ eeprom[4] = Number(255)
  BY CellTypes, GlobalAddrs DEF Init
<1>2. ram \in [Field -> Cells] /\ kept \in [Patch -> [Field -> Cells]]
  BY CellTypes DEF Init, PowerOnRam
<1>3. Typed
  BY <1>1, <1>2 DEF Init, Typed, Idle, Jobs, JobLength
<1>4. Torn
  BY <1>1 DEF Torn, Octet, Highs
<1>5. Global /\ Saving /\ Clearing
  BY DEF Init, Global, Saving, Clearing
<1>6. Stored
  <2>1. \A p \in Patch, f \in Field : kept[p][f] = Lost
    BY DEF Init
  <2> QED
    BY <2>1, SavedTypes DEF Stored, StoredIn, SettingsIn, SequenceIn
<1> QED
  BY <1>3, <1>4, <1>5, <1>6 DEF IInv

-----------------------------------------------------------------------------
(* Steps that leave the EEPROM alone *)

LEMMA TornSame == ASSUME Torn, eeprom' = eeprom PROVE Torn'
BY DEF Torn

LEMMA StoredSame == ASSUME Stored, eeprom' = eeprom, kept' = kept PROVE Stored'
BY DEF Stored

\* Whatever holds nothing is stored.
LEMMA StoredLost ==
  ASSUME NEW e, NEW p \in Patch, NEW held, \A f \in Field : held[f] = Lost
  PROVE  StoredIn(e, p, held)
BY SavedTypes DEF StoredIn, SettingsIn, SequenceIn

LEMMA IdleTyped ==
  ASSUME Typed, eeprom' = eeprom, kept' = kept, ram' \in [Field -> Cells], mode' \in Nat,
         tuning' = tuning, patch' \in Patch \cup {UNSET}, pc' \in Idle, pos' = 0
  PROVE  Typed'
<1>1. pc' \in Idle \cup Jobs /\ pc' # "save" /\ JobLength' = 0
  BY DEF Idle, Jobs, JobLength
<1> QED
  BY <1>1 DEF Typed

\* With pc idle only the stored settings matter.
LEMMA IdleStep ==
  ASSUME IInv, eeprom' = eeprom, kept' = kept, Typed', pc' \in Idle \ {"run"}
  PROVE  IInv'
<1>1. Global' /\ Saving' /\ Clearing'
  BY DEF Global, Saving, Clearing, Idle
<1> QED
  BY <1>1, TornSame, StoredSame DEF IInv

LEMMA PowerOnInv == ASSUME IInv, PowerOn PROVE IInv'
<1>. USE DEF IInv
<1>1. CASE pc' = "reset"
  <2>1. Typed' /\ kept' = kept /\ eeprom' = eeprom
    BY <1>1 DEF PowerOn, Typed, Idle, Jobs, JobLength
  <2> QED
    BY <1>1, <2>1, IdleStep DEF Idle
<1>2. CASE pc' = "clear"
  <2>1. eeprom' = eeprom /\ \A p \in Patch, f \in Field : kept'[p][f] = Lost
    BY <1>2 DEF PowerOn
  <2>2. kept' \in [Patch -> [Field -> Cells]]
    BY <1>2, CellTypes DEF PowerOn
  <2>3. Typed'
    BY <1>2, <2>2, Constants DEF PowerOn, Typed, Idle, Jobs, JobLength
  <2>4. Stored'
    BY <2>1, StoredLost DEF Stored
  <2>5. Global' /\ Saving' /\ Clearing'
    BY <1>2, <2>1 DEF Global, Saving, Clearing
  <2> QED
    BY <2>1, <2>3, <2>4, <2>5, TornSame
<1> QED
  BY <1>1, <1>2 DEF PowerOn

LEMMA RamTypes ==
  /\ PowerOnRam \in [Field -> Cells]
  /\ \A m, v : v \in Nat => Given(m, v) \in [Field -> Cells]
BY CellTypes DEF PowerOnRam, Given

LEMMA PowerCutInv == ASSUME IInv, PowerCut PROVE IInv'
<1>. USE DEF IInv
<1>1. Typed'
  BY RamTypes DEF PowerCut, Typed, Idle, Jobs, JobLength
<1> QED
  BY <1>1, IdleStep DEF PowerCut, Idle

LEMMA ResetInv ==
  ASSUME IInv, Cleared \/ Tuned \/ SelectPatch \/ HoldReset \/ HandleSystemReset
  PROVE  IInv'
<1>. USE DEF IInv
<1>1. CASE Cleared \/ Tuned
  <2>1. pc' \in Idle /\ pos' = 0
    BY <1>1 DEF Cleared, Tuned, Done, Idle
  <2>2. Typed'
    BY <1>1, <2>1, IdleTyped DEF Cleared, Tuned, Typed
  <2> QED
    BY <1>1, <2>2, IdleStep DEF Cleared, Tuned, Done, Idle
<1>2. CASE SelectPatch
  <2>1. patch' \in Patch \cup {UNSET} /\ pc' = "read" /\ pos' = 0
    BY <1>2 DEF SelectPatch, Selectable, Typed, Idle, Jobs, JobLength
  <2>2. Typed'
    BY <1>2, <2>1, IdleTyped DEF SelectPatch, Typed, Idle
  <2> QED
    BY <1>2, <2>2, IdleStep DEF SelectPatch, Idle
<1>3. CASE HoldReset \/ HandleSystemReset
  <2>1. Typed'
    BY <1>3, RamTypes DEF HoldReset, HandleSystemReset, Typed, Idle, Jobs, JobLength
  <2> QED
    BY <1>3, <2>1, IdleStep DEF HoldReset, HandleSystemReset, Idle
<1> QED
  BY <1>1, <1>2, <1>3

\* A tuning read back from the EEPROM is in range, torn or not.
LEMMA ReadGlobalsInv == ASSUME IInv, ReadGlobals PROVE IInv'
<1>. USE DEF IInv
<1>1. PICK lo \in Octet, hi \in Highs : eeprom[3] = Number(lo) /\ eeprom[4] = Number(hi)
  BY DEF Torn
<1>2. AsSigned(eeprom[3], eeprom[4]) \in -512 .. 511
  BY <1>1, TornRead
<1>3. tuning' \in -512 .. 511
  <2>1. tuning' \in {AsSigned(eeprom[3], eeprom[4]), tuning} \cup Tuning
    BY DEF ReadGlobals
  <2>2. Tuning \subseteq -512 .. 511 /\ tuning \in -512 .. 511
    BY StoreAssumption DEF Typed
  <2>3. CASE tuning' \in Tuning
    BY <2>2, <2>3
  <2> QED
    BY <1>2, <2>1, <2>2, <2>3
<1>4. mode' \in Nat
  BY GlobalAddrs DEF ReadGlobals, Typed, Cells
<1>5. pc' \in {"select", "tuned"} /\ pos' = 0
  BY DEF ReadGlobals, Typed, Idle, Jobs, JobLength
<1>6. Typed'
  BY <1>3, <1>4, <1>5 DEF ReadGlobals, Typed, Idle, Jobs, JobLength
<1>7. Global' /\ Saving' /\ Clearing'
  BY <1>5 DEF Global, Saving, Clearing
<1> QED
  BY <1>6, <1>7, TornSame, StoredSame DEF ReadGlobals

LEMMA SettledInv == ASSUME IInv, Settled PROVE IInv'
<1>. USE DEF IInv
<1>1. pc = "settle" /\ pos = Len(Writes) /\ pc' = "run" /\ pos' = 0
  BY DEF Settled, Done
<1>2. /\ eeprom' = eeprom /\ kept' = kept /\ ram' = ram /\ mode' = mode /\ tuning' = tuning
      /\ patch' = patch
  BY DEF Settled
<1>3. pos = 5
  BY <1>1, WritesIs, JobLengths
<1>4. GlobalUpTo(5)'
  BY <1>1, <1>2, <1>3 DEF Global, GlobalUpTo, GlobalCell
<1>5. Global' /\ Saving' /\ Clearing'
  BY <1>1, <1>4 DEF Global, Saving, Clearing
<1>6. Typed'
  BY <1>1, <1>2, IdleTyped DEF Typed, Idle
<1> QED
  BY <1>2, <1>5, <1>6, TornSame, StoredSame

LEMMA SelectModeInv == ASSUME IInv, NEW m \in Mode, SelectMode(m) PROVE IInv'
<1>. USE DEF IInv
<1>1. /\ pc = "select" /\ pc' = "settle" /\ mode' = m /\ eeprom' = eeprom /\ pos' = pos
      /\ tuning' = tuning /\ patch' = patch /\ kept' = kept
  BY DEF SelectMode
<1>2. pos' = 0 /\ JobLength' = 5
  BY <1>1, JobLengths DEF Typed, Idle, JobLength
<1>3. m \in Nat
  BY StoreAssumption DEF MODE_SYNTH, MODE_ARPEGGIATOR, MODE_GROOVEBOX
<1>4. ram' \in [Field -> Cells]
  <2>1. Given(m, 0) \in [Field -> Cells]
    BY RamTypes
  <2>2. patch # UNSET => LoadPatch(Given(m, 0), m, patch) \in [Field -> Cells]
    BY <2>1, LoadedType DEF Typed
  <2> QED
    BY <2>1, <2>2 DEF SelectMode
<1>5. Typed'
  BY <1>1, <1>2, <1>3, <1>4 DEF Typed, Idle, Jobs
<1>6. Global' /\ Saving' /\ Clearing'
  BY <1>1, <1>2 DEF Global, GlobalUpTo, Saving, Clearing
<1> QED
  BY <1>1, <1>5, <1>6, TornSame, StoredSame

LEMMA PlayInv == ASSUME IInv, NEW v \in Version, Play(v) PROVE IInv'
<1>. USE DEF IInv
<1>1. /\ pc = "run" /\ pc' = pc /\ mode' = mode /\ eeprom' = eeprom /\ pos' = pos
      /\ tuning' = tuning /\ patch' = patch /\ kept' = kept
  BY DEF Play
<1>2. pos' = 0
  BY <1>1, JobLengths DEF Typed, Idle
<1>3. ram' \in [Field -> Cells]
  BY RamTypes, StoreAssumption DEF Play
<1>4. Typed'
  BY <1>1, <1>2, <1>3, IdleTyped DEF Typed, Idle
<1>5. Global'
  BY <1>1 DEF Global, GlobalUpTo, GlobalCell
<1>6. Saving' /\ Clearing'
  BY <1>1 DEF Saving, Clearing
<1> QED
  BY <1>1, <1>4, <1>5, <1>6, TornSame, StoredSame

-----------------------------------------------------------------------------
(* A save begins and ends *)

LEMMA RangeConcat ==
  ASSUME NEW S, NEW s \in Seq(S), NEW t \in Seq(S)
  PROVE  Range(s \o t) = Range(s) \cup Range(t)
<1>. DEFINE m == Len(s)
            n == Len(t)
<1>1. m \in Nat /\ n \in Nat /\ DOMAIN s = 1 .. m /\ DOMAIN t = 1 .. n
  BY LenProperties
<1>2. /\ s \o t \in Seq(S) /\ Len(s \o t) = m + n
      /\ \A k \in 1 .. (m + n) : (s \o t)[k] = IF k <= m THEN s[k] ELSE t[k - m]
  BY Concat, Zenon
<1>3. DOMAIN (s \o t) = 1 .. (m + n)
  BY <1>2
<1>. HIDE DEF m, n
<1>4. ASSUME NEW k \in 1 .. (m + n) PROVE (s \o t)[k] \in Range(s) \cup Range(t)
  <2>1. CASE k <= m
    <3>1. k \in 1 .. m /\ (s \o t)[k] = s[k]
      BY <1>1, <1>2, <2>1
    <3> QED
      BY <1>1, <3>1 DEF Range
  <2>2. CASE ~(k <= m)
    <3>1. k - m \in 1 .. n /\ (s \o t)[k] = t[k - m]
      BY <1>1, <1>2, <2>2
    <3> QED
      BY <1>1, <3>1 DEF Range
  <2> QED
    BY <2>1, <2>2
<1>5. \A k \in 1 .. m : s[k] \in Range(s \o t)
  BY <1>1, <1>2, <1>3 DEF Range
<1>6. ASSUME NEW k \in 1 .. n PROVE t[k] \in Range(s \o t)
  <2>1. m + k \in 1 .. (m + n) /\ (s \o t)[m + k] = t[k]
    BY <1>1, <1>2
  <2> QED
    BY <1>3, <2>1 DEF Range
<1> QED
  BY <1>1, <1>3, <1>4, <1>5, <1>6 DEF Range

LEMMA SavedRange == \A f \in Field : f \in Range(SavedFields) <=> InSave(f)
<1>1. <<>> \in Seq(Field) /\ Range(<<>>) = {}
  BY DEF Range
<1>2. Range(SavedSettings) = Settings /\ Range(SavedSequence) = Sequence
  BY DEF Settings, Sequence
<1>3. CASE mode = MODE_GROOVEBOX
  <2>1. SavedFields = SavedSettings \o SavedSequence
    BY <1>3 DEF SavedFields
  <2> QED
    BY <1>2, <1>3, <2>1, RangeConcat, SavedTypes DEF InSave
<1>4. CASE mode # MODE_GROOVEBOX
  <2>1. SavedFields = SavedSettings \o <<>>
    BY <1>4 DEF SavedFields
  <2> QED
    BY <1>1, <1>2, <1>4, <2>1, RangeConcat, SavedTypes DEF InSave
<1> QED
  BY <1>3, <1>4

LEMMA SavePatchInv == ASSUME IInv, NEW p \in Selectable, SavePatch(p) PROVE IInv'
<1>. USE DEF IInv
<1>1. /\ pc = "run" /\ pc' = "save" /\ patch' = p /\ eeprom' = eeprom /\ pos' = pos
      /\ mode' = mode /\ tuning' = tuning /\ ram' = ram /\ p \in Patch
  BY DEF SavePatch, Selectable
<1>2. pos' = 0 /\ JobLength' \in Nat
  <2>1. JobLength' = ContentLength'
    BY <1>1 DEF JobLength
  <2>2. ContentLength' \in Nat
    BY SavedTypes DEF ContentLength
  <2> QED
    BY <1>1, <2>1, <2>2, JobLengths DEF Typed, Idle
<1>. DEFINE held == [f \in Field |-> IF f \in Range(SavedFields) THEN Lost ELSE kept[p][f]]
<1>3. kept' = [kept EXCEPT ![p] = held]
  BY DEF SavePatch
<1>4. /\ held \in [Field -> Cells]
      /\ \A f \in Field : held[f] = IF InSave(f) THEN Lost ELSE kept[p][f]
  BY <1>1, SavedRange, CellTypes DEF Typed
<1>. HIDE DEF held
<1>5. /\ kept' \in [Patch -> [Field -> Cells]] /\ kept'[p] = held
      /\ \A q \in Patch : q # p => kept'[q] = kept[q]
  BY <1>1, <1>3, <1>4 DEF Typed
<1>6. Typed'
  BY <1>1, <1>2, <1>5 DEF Typed, Idle, Jobs
<1>7. Global' /\ Clearing'
  BY <1>1 DEF Global, Clearing
<1>8. Saving'
  <2>1. \A f \in Field : InSave(f)' => held[f] = Lost
    BY <1>1, <1>4 DEF InSave
  <2> QED
    BY <1>1, <1>2, <1>5, <2>1 DEF Saving
<1>9. Stored'
  <2>1. ASSUME NEW q \in Patch, q # p PROVE StoredIn(eeprom, q, kept'[q])
    BY <1>5, <2>1 DEF Stored
  <2>2. StoredIn(eeprom, p, held)
    <3>1. SettingsIn(eeprom, p, kept[p]) /\ SequenceIn(eeprom, p, kept[p])
      BY <1>1 DEF Stored, StoredIn
    <3>2. \A f \in Field : held[f] # Lost => held[f] = kept[p][f]
      BY <1>4
    <3>3. SettingsIn(eeprom, p, held)
      BY <3>1, <3>2, SavedTypes DEF SettingsIn
    <3>4. SequenceIn(eeprom, p, held)
      BY <3>1, <3>2, SavedTypes DEF SequenceIn
    <3> QED
      BY <3>3, <3>4 DEF StoredIn
  <2> QED
    BY <1>1, <1>5, <2>1, <2>2 DEF Stored
<1> QED
  BY <1>1, <1>6, <1>7, <1>8, <1>9, TornSame

\* What was written to the end is stored.
LEMMA SavedInv == ASSUME IInv, Saved PROVE IInv'
<1>. USE DEF IInv
<1>. DEFINE p == patch
            held == [f \in Field |-> IF f \in Range(SavedFields) THEN ram[f] ELSE kept[p][f]]
<1>1. /\ pc = "save" /\ pos = Len(Writes) /\ pc' = "reset" /\ pos' = 0 /\ p \in Patch
      /\ eeprom' = eeprom /\ mode' = mode /\ tuning' = tuning /\ patch' = patch
      /\ ram' = PowerOnRam
  BY DEF Saved, Done, Typed
<1>2. kept' = [kept EXCEPT ![p] = held]
  BY DEF Saved
<1>3. /\ held \in [Field -> Cells]
      /\ \A f \in Field : held[f] = IF InSave(f) THEN ram[f] ELSE kept[p][f]
  BY <1>1, SavedRange DEF Typed
<1>4. /\ Len(Content) = ContentLength /\ pos = ContentLength
      /\ ram \in [Field -> Cells]
  BY <1>1, ContentIs, WritesIs, JobLengths DEF Typed
<1>5. \A k \in 1 .. ContentLength : eeprom[PatchAddr(p) + k - 1] = Content[k]
  BY <1>1, <1>4 DEF Saving
<1>. HIDE DEF held, p
<1>6. /\ kept' \in [Patch -> [Field -> Cells]] /\ kept'[p] = held
      /\ \A q \in Patch : q # p => kept'[q] = kept[q]
  BY <1>1, <1>2, <1>3 DEF Typed
<1>7. Typed'
  <2>1. pc' \in Idle \cup Jobs /\ pc' # "save" /\ JobLength' = 0
    BY <1>1 DEF Idle, Jobs, JobLength
  <2> QED
    BY <1>1, <1>6, <2>1, RamTypes DEF Typed
<1>8. Global' /\ Saving' /\ Clearing'
  BY <1>1 DEF Global, Saving, Clearing
<1>9. Stored'
  <2>1. ASSUME NEW q \in Patch, q # p PROVE StoredIn(eeprom, q, kept'[q])
    BY <1>6, <2>1 DEF Stored
  <2>2. StoredIn(eeprom, p, held)
    <3>. DEFINE a == PatchAddr(p)
    <3>1. a \in Nat /\ Ls \in Nat /\ Lq \in Nat
      BY <1>1, PatchAddrType, SavedTypes
    <3>. HIDE DEF a
    <3>2. \A k \in 1 .. ContentLength : eeprom[a + k - 1] = Content[k]
      BY <1>5 DEF a
    <3>3. ContentLength \in Nat /\ ContentLength >= 2 + Ls
      BY <3>1 DEF ContentLength
    <3>4. eeprom[a] = Number(173) /\ eeprom[a + 1] = Number(227)
      <4>1. 1 \in 1 .. ContentLength /\ 2 \in 1 .. ContentLength
        BY <3>1, <3>3
      <4>2. a + 1 - 1 = a /\ a + 2 - 1 = a + 1
        BY <3>1
      <4>3. Content[1] = Number(173) /\ Content[2] = Number(227)
        BY <1>4, ContentIs
      <4> QED
        BY <3>2, <4>1, <4>2, <4>3
    <3>5. PatchMarked(eeprom, p)
      BY <3>4 DEF PatchMarked, a
    <3>6. ASSUME NEW k \in 1 .. Ls
          PROVE  eeprom[a + 1 + k] = ram[SavedSettings[k]]
      <4>1. 2 + k \in 1 .. ContentLength /\ a + (2 + k) - 1 = a + 1 + k
        BY <3>1, <3>3
      <4>2. Content[2 + k] = ram[SavedSettings[k]]
        BY <1>4, ContentIs
      <4> QED
        BY <3>2, <4>1, <4>2
    <3>7. SettingsIn(eeprom, p, held)
      <4>1. \A k \in 1 .. Ls : held[SavedSettings[k]] = ram[SavedSettings[k]]
        BY <1>3, SavedTypes DEF InSave
      <4> QED
        BY <3>5, <3>6, <4>1 DEF SettingsIn, a
    <3>8. SequenceIn(eeprom, p, held)
      <4>1. CASE mode = MODE_GROOVEBOX
        <5>1. ContentLength = 4 + Ls + Lq
          BY <3>1, <4>1 DEF ContentLength
        <5>2. /\ Content[3 + Ls] = Number(218) /\ Content[4 + Ls] = Number(247)
              /\ \A k \in 1 .. Lq : Content[4 + Ls + k] = ram[SavedSequence[k]]
          BY <1>4, <4>1, ContentIs
        <5>3. eeprom[a + 2 + Ls] = Number(218) /\ eeprom[a + 3 + Ls] = Number(247)
          <6>1. /\ 3 + Ls \in 1 .. ContentLength /\ a + (3 + Ls) - 1 = a + 2 + Ls
                /\ 4 + Ls \in 1 .. ContentLength /\ a + (4 + Ls) - 1 = a + 3 + Ls
            BY <3>1, <5>1
          <6> QED
            BY <3>2, <5>2, <6>1
        <5>4. ASSUME NEW k \in 1 .. Lq
              PROVE  eeprom[a + 3 + Ls + k] = ram[SavedSequence[k]]
          <6>1. 4 + Ls + k \in 1 .. ContentLength /\ a + (4 + Ls + k) - 1 = a + 3 + Ls + k
            BY <3>1, <5>1
          <6> QED
            BY <3>2, <5>2, <6>1
        <5>5. \A k \in 1 .. Lq : held[SavedSequence[k]] = ram[SavedSequence[k]]
          BY <1>3, <4>1, SavedTypes DEF InSave
        <5> QED
          BY <3>5, <5>3, <5>4, <5>5 DEF SequenceIn, SequenceMarked, a
      <4>2. CASE mode # MODE_GROOVEBOX
        <5>1. \A k \in 1 .. Lq : held[SavedSequence[k]] = kept[p][SavedSequence[k]]
          <6>1. \A k \in 1 .. Lq : ~InSave(SavedSequence[k])
            BY <4>2, SavedTypes, LayoutAssumption DEF InSave
          <6> QED
            BY <1>3, <6>1, SavedTypes
        <5>2. SequenceIn(eeprom, p, kept[p])
          BY <1>1 DEF Stored, StoredIn
        <5> QED
          BY <5>1, <5>2 DEF SequenceIn
      <4> QED
        BY <4>1, <4>2
    <3> QED
      BY <3>7, <3>8 DEF StoredIn
  <2> QED
    BY <1>1, <1>6, <2>1, <2>2 DEF Stored
<1> QED
  BY <1>1, <1>7, <1>8, <1>9, TornSame

-----------------------------------------------------------------------------
(* A byte is written *)

\* Only the bytes of a patch matter for what is stored in it.
LEMMA StoredApart ==
  ASSUME NEW p \in Patch, NEW e, NEW d, NEW held, StoredIn(e, p, held),
         \A a \in PatchRange(p) : d[a] = e[a]
  PROVE  StoredIn(d, p, held)
<1>1. /\ d[PatchAddr(p)] = e[PatchAddr(p)] /\ d[PatchAddr(p) + 1] = e[PatchAddr(p) + 1]
      /\ d[PatchAddr(p) + 2 + Ls] = e[PatchAddr(p) + 2 + Ls]
      /\ d[PatchAddr(p) + 3 + Ls] = e[PatchAddr(p) + 3 + Ls]
      /\ \A k \in 1 .. Ls : d[PatchAddr(p) + 1 + k] = e[PatchAddr(p) + 1 + k]
      /\ \A k \in 1 .. Lq : d[PatchAddr(p) + 3 + Ls + k] = e[PatchAddr(p) + 3 + Ls + k]
  BY ContentAddrs
<1>2. (PatchMarked(e, p) => PatchMarked(d, p)) /\ (SequenceMarked(e, p) => SequenceMarked(d, p))
  BY <1>1 DEF PatchMarked, SequenceMarked
<1>3. SettingsIn(d, p, held)
  BY <1>1, <1>2 DEF StoredIn, SettingsIn
<1>4. SequenceIn(d, p, held)
  BY <1>1, <1>2 DEF StoredIn, SequenceIn
<1> QED
  BY <1>3, <1>4 DEF StoredIn

\* The byte with number pos + 1 of the job goes to its address.
ByteWritten(addr, cell) ==
  /\ eeprom' = [eeprom EXCEPT ![addr] = cell] /\ addr \in Addr /\ cell \in Cells
  /\ pos' = pos + 1 /\ pos + 1 \in 1 .. JobLength
  /\ pc' = pc /\ mode' = mode /\ tuning' = tuning /\ patch' = patch /\ ram' = ram /\ kept' = kept

LEMMA ByteTyped ==
  ASSUME Typed, NEW addr, NEW cell, ByteWritten(addr, cell)
  PROVE  Typed'
<1>1. JobLength' = JobLength
  BY DEF ByteWritten, JobLength, ContentLength
<1>2. pos' \in 0 .. JobLength'
  BY <1>1 DEF ByteWritten
<1>3. eeprom' \in [Addr -> Cells]
  BY DEF Typed, ByteWritten
<1> QED
  BY <1>2, <1>3 DEF Typed, ByteWritten

LEMMA ClearByte == ASSUME IInv, WriteByte, pc = "clear" PROVE IInv'
<1>. USE DEF IInv
<1>1. Len(Writes) = EEPROM_SIZE /\ JobLength = EEPROM_SIZE /\ Writes = ClearWrites
  BY WritesIs, JobLengths
<1>2. pos \in Nat /\ pos + 1 \in 1 .. EEPROM_SIZE
  BY <1>1, Constants DEF WriteByte, Typed
<1>3. Writes[pos + 1].addr = pos /\ Writes[pos + 1].cell = Number(0)
  BY <1>1, <1>2, ClearWritesAre
<1>4. ByteWritten(pos, Number(0))
  BY <1>1, <1>2, <1>3, CellTypes, Constants DEF WriteByte, ByteWritten, Addr, Typed
<1>5. Typed'
  BY <1>4, ByteTyped
<1>6. Torn'
  BY <1>4, GlobalAddrs DEF Torn, ByteWritten, Typed, Octet, Highs
<1>7. Global' /\ Saving' /\ Clearing'
  BY <1>4 DEF Global, Saving, Clearing, ByteWritten
<1>8. Stored'
  BY <1>4, StoredLost DEF Clearing, Stored, ByteWritten
<1> QED
  BY <1>5, <1>6, <1>7, <1>8

LEMMA GlobalByte == ASSUME IInv, WriteByte, pc \in {"tuned", "settle"} PROVE IInv'
<1>. USE DEF IInv
<1>. DEFINE k == pos + 1
<1>1. Len(Writes) = 5 /\ JobLength = 5 /\ Writes = GlobalWrites
  BY WritesIs, JobLengths
<1>2. k \in 1 .. 5 /\ pos \in 0 .. 4
  BY <1>1 DEF WriteByte, Typed
<1>3. mode \in Nat /\ tuning \in Int /\ tuning \in -512 .. 511
  BY DEF Typed
<1>4. Writes[k].addr = pos /\ Writes[k].cell = GlobalCell(k)
  BY <1>1, <1>2, <1>3, GlobalWritesAre
<1>5. Low(tuning) \in Octet /\ High(tuning) \in Highs
  BY <1>3, TuningRead
<1>6. GlobalCell(k) \in Cells
  <2>1. Low(tuning) \in Nat /\ High(tuning) \in Nat
    BY <1>5 DEF Octet, Highs
  <2> QED
    BY <1>2, <1>3, <2>1, CellTypes DEF GlobalCell
<1>7. ByteWritten(pos, GlobalCell(k))
  BY <1>1, <1>2, <1>4, <1>6, GlobalAddrs DEF WriteByte, ByteWritten
<1>8. Typed'
  BY <1>7, ByteTyped
<1>9. Torn'
  <2>1. /\ \A a \in Addr : eeprom'[a] = IF a = pos THEN GlobalCell(k) ELSE eeprom[a]
        /\ 3 \in Addr /\ 4 \in Addr
    BY <1>7, GlobalAddrs DEF ByteWritten, Typed
  <2>2. pos = 3 => GlobalCell(k) = Number(Low(tuning))
    BY DEF GlobalCell
  <2>3. pos = 4 => GlobalCell(k) = Number(High(tuning))
    BY DEF GlobalCell
  <2> QED
    BY <1>5, <2>1, <2>2, <2>3 DEF Torn
<1>10. Global'
  <2>1. ASSUME pc = "settle" PROVE \A i \in 1 .. k : eeprom'[i - 1] = GlobalCell(i)'
    <3>1. \A i \in 1 .. k : eeprom'[i - 1] = GlobalCell(i)
      <4>1. \A i \in 1 .. pos : eeprom[i - 1] = GlobalCell(i)
        BY <2>1 DEF Global, GlobalUpTo
      <4>2. \A a \in Addr : eeprom'[a] = IF a = pos THEN GlobalCell(k) ELSE eeprom[a]
        BY <1>7 DEF ByteWritten, Typed
      <4>3. \A i \in 1 .. k : i - 1 \in Addr /\ (i - 1 = pos <=> i = k) /\ (i # k => i \in 1 .. pos)
        BY <1>2, GlobalAddrs
      <4> QED
        BY <4>1, <4>2, <4>3
    <3>2. \A i : GlobalCell(i)' = GlobalCell(i)
      BY <1>7 DEF GlobalCell, ByteWritten
    <3> QED
      BY <3>1, <3>2
  <2> QED
    BY <1>7, <2>1 DEF Global, GlobalUpTo, ByteWritten
<1>11. Saving' /\ Clearing'
  BY <1>7 DEF Saving, Clearing, ByteWritten
<1>12. Stored'
  <2>1. ASSUME NEW p \in Patch PROVE StoredIn(eeprom', p, kept[p])
    <3>1. \A a \in PatchRange(p) : eeprom'[a] = eeprom[a]
      BY <1>2, <1>7, PatchRanges DEF ByteWritten, Typed
    <3> QED
      BY <3>1, StoredApart DEF Stored
  <2> QED
    BY <1>7, <2>1 DEF Stored, ByteWritten
<1> QED
  BY <1>8, <1>9, <1>10, <1>11, <1>12

LEMMA PatchByte == ASSUME IInv, WriteByte, pc = "save" PROVE IInv'
<1>. USE DEF IInv
<1>. DEFINE k == pos + 1
            p == patch
            b == PatchAddr(patch)
            a == b + pos
<1>1. p \in Patch /\ ram \in [Field -> Cells]
  BY DEF Typed
<1>2. /\ Len(Writes) = ContentLength /\ JobLength = ContentLength /\ Writes = PatchWrites(p)
      /\ ContentLength \in Nat /\ ContentLength <= PATCH_SIZE
  BY <1>1, WritesIs, JobLengths, PatchWritesAre
<1>3. pos \in Nat /\ k \in 1 .. ContentLength /\ b \in Nat /\ PATCH_SIZE \in Nat
  BY <1>1, <1>2, PatchAddrType, Constants DEF WriteByte, Typed
<1>4. Writes[k].addr = a /\ Writes[k].cell = Content[k]
  <2>1. Writes[k].addr = b + k - 1 /\ Writes[k].cell = Content[k]
    BY <1>1, <1>2, <1>3, PatchWritesAre
  <2> QED
    BY <1>3, <2>1
<1>5. a \in PatchRange(p) /\ a \in Addr /\ a >= 5
  <2>1. a \in PatchRange(p)
    BY <1>2, <1>3 DEF PatchRange
  <2> QED
    BY <1>1, <2>1, PatchRanges
<1>6. Content[k] \in Cells
  BY <1>1, <1>2, <1>3, ContentIs, ElementOfSeq
<1>7. ByteWritten(a, Content[k])
  BY <1>2, <1>3, <1>4, <1>5, <1>6 DEF WriteByte, ByteWritten
<1>8. Typed'
  BY <1>7, ByteTyped
<1>9. /\ \A c \in Addr : eeprom'[c] = IF c = a THEN Content[k] ELSE eeprom[c]
      /\ pc' = pc /\ mode' = mode /\ patch' = patch /\ ram' = ram /\ kept' = kept /\ pos' = k
  BY <1>7 DEF ByteWritten, Typed
<1>10. Torn'
  <2>1. eeprom'[3] = eeprom[3] /\ eeprom'[4] = eeprom[4]
    BY <1>5, <1>9, GlobalAddrs
  <2> QED
    BY <2>1 DEF Torn
<1>11. Global' /\ Clearing'
  BY <1>9 DEF Global, Clearing
<1>12. \A i \in 1 .. k : eeprom'[b + i - 1] = Content[i]
  <2>1. \A i \in 1 .. pos : eeprom[b + i - 1] = Content[i]
    BY DEF Saving
  <2>2. \A i \in 1 .. k : /\ b + i - 1 \in PatchRange(p) /\ (b + i - 1 = a <=> i = k)
                          /\ (i # k => i \in 1 .. pos)
    BY <1>2, <1>3 DEF PatchRange
  <2>3. \A i \in 1 .. k : b + i - 1 \in Addr
    BY <1>1, <2>2, PatchRanges
  <2> QED
    BY <1>9, <2>1, <2>2, <2>3
<1>13. Saving'
  <2>1. Content' = Content /\ PatchAddr(patch)' = b /\ (\A f : InSave(f)' = InSave(f))
    BY <1>9 DEF Content, Held, PatchAddr, InSave
  <2>2. \A f \in Field : InSave(f) => kept[p][f] = Lost
    BY DEF Saving
  <2> QED
    BY <1>9, <1>12, <2>1, <2>2 DEF Saving
<1>14. Stored'
  <2>1. ASSUME NEW q \in Patch, q # p PROVE StoredIn(eeprom', q, kept[q])
    <3>1. \A c \in PatchRange(q) : eeprom'[c] = eeprom[c]
      BY <1>1, <1>5, <1>9, <2>1, PatchRanges
    <3> QED
      BY <3>1, StoredApart DEF Stored
  <2>2. StoredIn(eeprom', p, kept[p])
    <3>1. \A j \in 1 .. Ls : kept[p][SavedSettings[j]] = Lost
      BY SavedTypes DEF Saving, InSave
    <3>2. SettingsIn(eeprom', p, kept[p])
      BY <3>1 DEF SettingsIn
    <3>3. SequenceIn(eeprom', p, kept[p])
      <4>1. CASE mode = MODE_GROOVEBOX
        <5>1. \A j \in 1 .. Lq : kept[p][SavedSequence[j]] = Lost
          BY <4>1, SavedTypes DEF Saving, InSave
        <5> QED
          BY <5>1 DEF SequenceIn
      <4>2. CASE mode # MODE_GROOVEBOX
        <5>1. k <= 2 + Ls /\ Ls \in Nat /\ Lq \in Nat
          BY <1>3, <4>2, SavedTypes DEF ContentLength
        <5>2. SequenceIn(eeprom, p, kept[p])
          BY <1>1 DEF Stored, StoredIn
        <5>3. PatchMarked(eeprom, p) => PatchMarked(eeprom', p)
          <6>1. b \in Addr /\ b + 1 \in Addr
            BY <1>1, ContentAddrs, PatchRanges
          <6>2. Content[1] = Number(173) /\ Content[2] = Number(227)
            BY <1>1, ContentIs
          <6>3. (b = a => k = 1) /\ (b + 1 = a => k = 2)
            BY <1>3
          <6> QED
            BY <1>9, <6>1, <6>2, <6>3 DEF PatchMarked
        <5>4. SequenceMarked(eeprom, p) => SequenceMarked(eeprom', p)
          <6>1. b + 2 + Ls \in Addr /\ b + 3 + Ls \in Addr
            BY <1>1, ContentAddrs, PatchRanges
          <6>2. b + 2 + Ls # a /\ b + 3 + Ls # a
            BY <1>3, <5>1
          <6> QED
            BY <1>9, <6>1, <6>2 DEF SequenceMarked
        <5>5. ASSUME NEW j \in 1 .. Lq
              PROVE  eeprom'[b + 3 + Ls + j] = eeprom[b + 3 + Ls + j]
          <6>1. b + 3 + Ls + j \in Addr
            BY <1>1, ContentAddrs, PatchRanges
          <6>2. b + 3 + Ls + j # a
            BY <1>3, <5>1
          <6> QED
            BY <1>9, <6>1, <6>2
        <5> QED
          BY <5>2, <5>3, <5>4, <5>5 DEF SequenceIn
      <4> QED
        BY <4>1, <4>2
    <3> QED
      BY <3>2, <3>3 DEF StoredIn
  <2> QED
    BY <1>9, <2>1, <2>2 DEF Stored
<1> QED
  BY <1>8, <1>10, <1>11, <1>13, <1>14

LEMMA WriteByteInv == ASSUME IInv, WriteByte PROVE IInv'
<1>1. CASE pc \in Idle
  <2>1. Len(Writes) = 0 /\ pos \in Nat
    BY <1>1, WritesIs, JobLengths DEF IInv, Typed
  <2> QED
    BY <2>1 DEF WriteByte
<1>2. CASE pc \in Jobs
  BY <1>2, ClearByte, GlobalByte, PatchByte DEF Jobs
<1> QED
  BY <1>1, <1>2 DEF IInv, Typed

LEMMA StutterInv == ASSUME IInv, UNCHANGED vars PROVE IInv'
<1>1. Typed'
  BY DEF vars, IInv, Typed, JobLength, ContentLength
<1>2. Global'
  BY DEF vars, IInv, Global, GlobalUpTo, GlobalCell
<1>3. Saving'
  BY DEF vars, IInv, Saving, Content, Held, PatchAddr, InSave
<1>4. Clearing' /\ Torn' /\ Stored'
  BY DEF vars, IInv, Clearing, Torn, Stored
<1> QED
  BY <1>1, <1>2, <1>3, <1>4 DEF IInv

LEMMA InvNext == IInv /\ [Next]_vars => IInv'
<1>. SUFFICES ASSUME IInv, [Next]_vars PROVE IInv'
  OBVIOUS
<1>1. CASE PowerOn
  BY <1>1, PowerOnInv
<1>2. CASE PowerCut
  BY <1>2, PowerCutInv
<1>3. CASE WriteByte
  BY <1>3, WriteByteInv
<1>4. CASE Cleared \/ Tuned \/ SelectPatch \/ HoldReset \/ HandleSystemReset
  BY <1>4, ResetInv
<1>5. CASE Settled
  BY <1>5, SettledInv
<1>6. CASE Saved
  BY <1>6, SavedInv
<1>7. CASE ReadGlobals
  BY <1>7, ReadGlobalsInv
<1>8. CASE \E m \in Mode : SelectMode(m)
  BY <1>8, SelectModeInv
<1>9. CASE \E v \in Version : Play(v)
  BY <1>9, PlayInv
<1>10. CASE \E p \in Selectable : SavePatch(p)
  BY <1>10, SavePatchInv
<1>11. CASE UNCHANGED vars
  BY <1>11, StutterInv
<1> QED
  BY <1>1, <1>2, <1>3, <1>4, <1>5, <1>6, <1>7, <1>8, <1>9, <1>10, <1>11 DEF Next

-----------------------------------------------------------------------------
(* The theorems *)

\* The invariant holds in every reachable state.
LEMMA Invariant == Spec => []IInv
<1>1. Init => IInv
  BY InvInit
<1>2. IInv /\ [Next]_vars => IInv'
  BY InvNext
<1> QED
  BY <1>1, <1>2, PTL DEF Spec

\* The types of the state, for every layout and every bound.
THEOREM PatchTypes == Spec => []TypeOK
<1>1. IInv => TypeOK
  BY TypedOK DEF IInv
<1> QED
  BY <1>1, Invariant, PTL

\* However often the power is cut while the tuning is written, what is read back
\* is a tuning the knob can be set to (readGlobalSettings()).
THEOREM TuningAlwaysInRange == Spec => []TuningInRange
<1>1. IInv => TuningInRange
  BY DEF IInv, Typed, TuningInRange
<1> QED
  BY <1>1, Invariant, PTL

\* While the synthesizer plays, the EEPROM holds its mode and tuning
\* (writeGlobalSettings() at the end of reset()).
THEOREM PlayedIsAlwaysStored == Spec => []PlayedIsStored
<1>1. IInv => PlayedIsStored
  <2>. SUFFICES ASSUME IInv, pc = "run"
                PROVE  /\ EepromValid /\ eeprom[2] = Number(mode)
                       /\ AsSigned(eeprom[3], eeprom[4]) = tuning
    BY DEF PlayedIsStored
  <2>1. \A i \in 1 .. 5 : eeprom[i - 1] = GlobalCell(i)
    BY DEF IInv, Global, GlobalUpTo
  <2>2. /\ eeprom[0] = GlobalCell(1) /\ eeprom[1] = GlobalCell(2) /\ eeprom[2] = GlobalCell(3)
        /\ eeprom[3] = GlobalCell(4) /\ eeprom[4] = GlobalCell(5)
    <3>1. /\ 1 \in 1 .. 5 /\ 2 \in 1 .. 5 /\ 3 \in 1 .. 5 /\ 4 \in 1 .. 5 /\ 5 \in 1 .. 5
          /\ 1 - 1 = 0 /\ 2 - 1 = 1 /\ 3 - 1 = 2 /\ 4 - 1 = 3 /\ 5 - 1 = 4
      OBVIOUS
    <3> QED
      BY <2>1, <3>1
  <2>3. /\ eeprom[0] = Number(208) /\ eeprom[1] = Number(186) /\ eeprom[2] = Number(mode)
        /\ eeprom[3] = Number(Low(tuning)) /\ eeprom[4] = Number(High(tuning))
    BY <2>2 DEF GlobalCell
  <2>4. EepromValid
    <3>1. 208 \in Octet /\ 186 \in Octet /\ Packed(208, 186) = EEPROM_MAGIC_NUMBER
      BY DEF Octet, Packed, EEPROM_MAGIC_NUMBER
    <3>2. AsWord(Number(208), Number(186)) = EEPROM_MAGIC_NUMBER
      BY <3>1, WordRead
    <3> QED
      BY <2>3, <3>2 DEF EepromValid, WordAt
  <2>5. AsSigned(eeprom[3], eeprom[4]) = tuning
    <3>1. tuning \in -512 .. 511
      BY DEF IInv, Typed
    <3>2. AsSigned(Number(Low(tuning)), Number(High(tuning))) = tuning
      BY <3>1, TuningRead
    <3> QED
      BY <2>3, <3>2
  <2> QED
    BY <2>3, <2>4, <2>5
<1> QED
  BY <1>1, Invariant, PTL

\* No byte of a patch changes but in a save to it or in the factory reset: the
\* patches and the global settings do not overlap.
THEOREM PatchesStayApart == Spec => PatchesApart
<1>. DEFINE Apart == \A p \in Patch :
                       ~(pc = "save" /\ patch = p) /\ pc # "clear" =>
                         \A a \in PatchAddr(p) .. (PatchAddr(p) + PATCH_SIZE - 1) :
                           eeprom'[a] = eeprom[a]
<1>1. IInv /\ [Next]_vars => [Apart]_vars
  <2>. SUFFICES ASSUME IInv, [Next]_vars,
                       NEW p \in Patch, ~(pc = "save" /\ patch = p), pc # "clear",
                       NEW a \in PatchRange(p)
                PROVE  eeprom'[a] = eeprom[a]
    BY DEF PatchRange
  <2>1. CASE WriteByte
    <3>1. a \in Addr /\ a >= 5
      BY PatchRanges
    <3>2. eeprom \in [Addr -> Cells] /\ pos \in Nat
      <4>1. JobLength \in Nat
        <5>1. ContentLength \in Nat
          BY SavedTypes DEF ContentLength
        <5> QED
          BY <5>1, Constants DEF JobLength
      <4> QED
        BY <4>1 DEF IInv, Typed
    <3>3. Writes[pos + 1].addr # a
      <4>1. CASE pc \in {"tuned", "settle"}
        <5>1. Len(Writes) = 5 /\ Writes = GlobalWrites
          BY <4>1, WritesIs, JobLengths DEF IInv
        <5>2. pos \in 0 .. 4 /\ mode \in Nat /\ tuning \in Int
          BY <2>1, <3>2, <5>1 DEF WriteByte, IInv, Typed
        <5>3. \A k \in 1 .. 5 : GlobalWrites[k].addr = k - 1
          BY <5>2, GlobalWritesAre
        <5>4. Writes[pos + 1].addr = pos
          <6>1. pos + 1 \in 1 .. 5 /\ (pos + 1) - 1 = pos
            BY <5>2
          <6> QED
            BY <5>1, <5>3, <6>1
        <5>5. pos # a
          BY <3>1, <5>2 DEF Addr
        <5> QED
          BY <5>4, <5>5
      <4>2. CASE pc = "save"
        <5>1. patch \in Patch /\ patch # p /\ ram \in [Field -> Cells]
          BY <4>2 DEF IInv, Typed
        <5>2. Writes = PatchWrites(patch)
          BY <4>2, WritesIs DEF IInv
        <5>3. pos + 1 \in 1 .. Len(PatchWrites(patch)) /\ Len(PatchWrites(patch)) <= PATCH_SIZE
              /\ Len(PatchWrites(patch)) \in Nat
          BY <2>1, <3>2, <5>1, <5>2, PatchWritesAre DEF WriteByte
        <5>4. Writes[pos + 1].addr = PatchAddr(patch) + (pos + 1) - 1
          BY <5>1, <5>2, <5>3, PatchWritesAre
        <5>5. PatchAddr(patch) + (pos + 1) - 1 \in PatchRange(patch)
          <6>. DEFINE c == PatchAddr(patch)
          <6>1. c \in Nat /\ PATCH_SIZE \in Nat /\ PatchRange(patch) = c .. (c + PATCH_SIZE - 1)
            BY <5>1, PatchAddrType, Constants DEF PatchRange
          <6>. HIDE DEF c
          <6>2. c + (pos + 1) - 1 \in PatchRange(patch)
            BY <3>2, <5>3, <6>1
          <6> QED
            BY <6>2 DEF c
        <5> QED
          BY <5>1, <5>4, <5>5, PatchRanges
      <4>3. CASE pc \in Idle
        <5>1. Len(Writes) = 0
          BY <4>3, WritesIs, JobLengths DEF IInv
        <5> QED
          BY <2>1, <3>2, <5>1 DEF WriteByte
      <4> QED
        BY <4>1, <4>2, <4>3 DEF IInv, Typed, Jobs
    <3>4. eeprom' = [eeprom EXCEPT ![Writes[pos + 1].addr] = Writes[pos + 1].cell]
      BY <2>1 DEF WriteByte
    <3> QED
      BY <3>1, <3>2, <3>3, <3>4
  <2>2. CASE ~WriteByte
    <3>1. eeprom' = eeprom
      BY <2>2 DEF Next, PowerOn, PowerCut, Cleared, Tuned, Settled, Saved, SelectPatch, ReadGlobals,
                  HoldReset, HandleSystemReset, SelectMode, Play, SavePatch, vars
    <3> QED
      BY <3>1
  <2> QED
    BY <2>1, <2>2
<1> QED
  BY <1>1, Invariant, PTL DEF Spec, PatchesApart

\* What was last saved to a patch and not cut is what loadPatch() makes of it,
\* whatever was cut, saved to other patches or written since.
THEOREM SavedIsAlwaysLoaded == Spec => []SavedIsLoaded
<1>1. IInv => SavedIsLoaded
  <2>. SUFFICES ASSUME IInv, NEW p \in Patch, NEW f \in Field, kept[p][f] # Lost
                PROVE  LoadPatch(PowerOnRam, MODE_GROOVEBOX, p)[f] = kept[p][f]
    BY DEF SavedIsLoaded
  <2>. DEFINE b        == PatchAddr(p)
              settings == Read(PowerOnRam, b + 2, LoadedSettings)
              both     == Read(settings, SequenceAddr(p) + 2, LoadedSequence)
  <2>1. b \in Nat /\ Ls \in Nat /\ Lq \in Nat /\ SequenceAddr(p) = b + 2 + Ls
    BY PatchAddrType, SavedTypes, LoadedAsSaved DEF SequenceAddr, Ls
  <2>2. SettingsIn(eeprom, p, kept[p]) /\ SequenceIn(eeprom, p, kept[p])
    BY DEF IInv, Stored, StoredIn
  <2>3. Range(LoadedSettings) = Settings /\ Range(LoadedSequence) = Sequence
    BY LoadedAsSaved DEF Settings, Sequence
  <2>4. PatchMarked(eeprom, p) => PatchValid(p)
    <3>1. 173 \in Octet /\ 227 \in Octet /\ Packed(173, 227) = PATCH_VALID_MARK
      BY DEF Octet, Packed, PATCH_VALID_MARK
    <3>2. AsWord(Number(173), Number(227)) = PATCH_VALID_MARK
      BY <3>1, WordRead
    <3> QED
      BY <3>2 DEF PatchMarked, PatchValid, WordAt
  <2>5. SequenceMarked(eeprom, p) => SequenceValid(p)
    <3>1. 218 \in Octet /\ 247 \in Octet /\ Packed(218, 247) = SEQUENCE_VALID_MARK
      BY DEF Octet, Packed, SEQUENCE_VALID_MARK
    <3>2. AsWord(Number(218), Number(247)) = SEQUENCE_VALID_MARK
      BY <3>1, WordRead
    <3>3. SequenceAddr(p) + 1 = b + 3 + Ls
      BY <2>1
    <3> QED
      BY <2>1, <3>2, <3>3 DEF SequenceMarked, SequenceValid, WordAt
  <2>6. CASE f \in Settings
    <3>1. PICK k \in 1 .. Ls :
            SavedSettings[k] = f /\ settings[f] = eeprom[b + 2 + k - 1]
      <4>1. b + 2 \in Nat /\ LoadedSettings \in Seq(Field) /\ f \in Range(LoadedSettings)
        BY <2>1, <2>3, <2>6, LoadedAsSaved, SavedTypes
      <4>2. \E k \in 1 .. Len(LoadedSettings) :
              LoadedSettings[k] = f /\ settings[f] = eeprom[b + 2 + k - 1]
        BY <4>1, ReadFound
      <4>. HIDE DEF settings
      <4> QED
        BY <4>2, LoadedAsSaved DEF Ls
    <3>2. PatchMarked(eeprom, p) /\ eeprom[b + 1 + k] = kept[p][f]
      BY <2>2, <3>1 DEF SettingsIn
    <3>3. b + 2 + k - 1 = b + 1 + k
      BY <2>1
    <3>4. settings[f] = kept[p][f]
      BY <3>1, <3>2, <3>3
    <3>5. f \notin Range(LoadedSequence)
      BY <2>3, <2>6, LayoutAssumption
    <3>. HIDE DEF settings
    <3>6. both[f] = settings[f]
      BY <3>5, ReadKept
    <3> QED
      BY <2>4, <3>2, <3>4, <3>6 DEF LoadPatch, settings
  <2>7. CASE f \in Sequence
    <3>. HIDE DEF settings
    <3>1. PICK k \in 1 .. Lq :
            SavedSequence[k] = f /\ both[f] = eeprom[SequenceAddr(p) + 2 + k - 1]
      <4>1. SequenceAddr(p) + 2 \in Nat /\ LoadedSequence \in Seq(Field) /\ f \in Range(LoadedSequence)
        BY <2>1, <2>3, <2>7, LoadedAsSaved, SavedTypes
      <4>2. \E k \in 1 .. Len(LoadedSequence) :
              LoadedSequence[k] = f /\ both[f] = eeprom[SequenceAddr(p) + 2 + k - 1]
        BY <4>1, ReadFound
      <4>. HIDE DEF both
      <4> QED
        BY <4>2, LoadedAsSaved DEF Lq
    <3>2. /\ PatchMarked(eeprom, p) /\ SequenceMarked(eeprom, p)
          /\ eeprom[b + 3 + Ls + k] = kept[p][f]
      BY <2>2, <3>1 DEF SequenceIn
    <3>3. SequenceAddr(p) + 2 + k - 1 = b + 3 + Ls + k
      BY <2>1
    <3>4. both[f] = kept[p][f]
      BY <3>1, <3>2, <3>3
    <3> QED
      BY <2>4, <2>5, <3>2, <3>4 DEF LoadPatch, settings
  <2> QED
    BY <2>6, <2>7, SavedTypes
<1> QED
  BY <1>1, Invariant, PTL
=============================================================================

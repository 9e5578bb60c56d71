------------------------------ MODULE PatchStore ------------------------------
(***************************************************************************)
(* The EEPROM: global settings and patches, byte by byte, with the power   *)
(* cut between any two bytes; and the reset that reads and writes them.    *)
(*                                                                         *)
(* A byte of a field is <<name, i, j, k>>: byte k (low is 1) of the field  *)
(* `name' of settings[i], or of seq[j][i] and track[i].  What the EEPROM   *)
(* and the RAM hold for it is a cell: the byte it was written for and a    *)
(* value.  Numbers that the firmware compares or computes with are cells   *)
(* with their value.  The RAM holds a field as the bytes savePatch() makes *)
(* of it; what the conversions to and from float lose is not modelled.     *)
(***************************************************************************)
EXTENDS Integers, Sequences, SequencesExt

CONSTANTS
  N_SETTINGS, SEQ_NUM_TRACKS, SEQ_LENGTH,
  NUM_PATCHES, PATCH_BASE_ADDR, PATCH_SIZE, EEPROM_SIZE,
  Mode,                \* the modes that are selected
  Tuning,              \* what the tuning knob can be set to
  Version,             \* the values a player gives the settings, not 0
  MaxSaves, MaxCuts    \* bounds on the model

Patch == 0 .. (NUM_PATCHES - 1)
UNSET == 255

EEPROM_MAGIC_NUMBER == 47824   \* 0xbad0
PATCH_VALID_MARK    == 58285   \* 0xe3ad
SEQUENCE_VALID_MARK == 63450   \* 0xf7da

MODE_SYNTH == 1
MODE_ARPEGGIATOR == 2
MODE_GROOVEBOX == 3
-----------------------------------------------------------------------------
(* Bytes, words and the layout of a patch *)

Cell(of, value) == [of |-> of, value |-> value]
Number(b)       == Cell(<<"number", 0, 0, 0>>, b)

\* eeprom_write_word() writes the low byte first.  w may be negative.
WordOf(w) == <<Number(w % 256), Number((w \div 256) % 256)>>

AsWord(lo, hi)   == IF lo = Number(lo.value) /\ hi = Number(hi.value)
                    THEN lo.value + 256 * hi.value ELSE -1

\* wrong variant: the tuning is read back as unsigned
AsUnsigned(lo, hi) == AsWord(lo, hi)

AsSigned(lo, hi) == LET w == AsWord(lo, hi) IN IF w >= 32768 THEN w - 65536 ELSE w

Word(name, i, j) == <<<<name, i, j, 1>>, <<name, i, j, 2>>>>
Byte(name, i, j) == <<<<name, i, j, 1>>>>

Each(n, op(_)) == FlattenSeq([i \in 1 .. n |-> op(i)])

\* The order in which savePatch() writes the settings, then the sequence.
SavedSettings ==
  Each(N_SETTINGS, LAMBDA i :
    Word("attack", i, 0) \o Word("decay", i, 0) \o Word("sustain", i, 0)
      \o Word("release", i, 0) \o Word("detune", i, 0) \o Byte("waveform", i, 0))
  \o Word("filterCutoff", 0, 0) \o Word("filterResonance", 0, 0) \o Byte("lfoWaveform", 0, 0)

SavedSequence ==
  Each(SEQ_NUM_TRACKS, LAMBDA t :
    Word("volume", t, 0) \o
    Each(SEQ_LENGTH, LAMBDA s :
      Byte("midiVal", t, s) \o Byte("velocity", t, s) \o Byte("slotWaveform", t, s)
        \o Word("duration", t, s) \o Word("startPulse", t, s)))

\* wrong variant: the sustain level is read after the release
LoadedSettingsSwapped ==
  Each(N_SETTINGS, LAMBDA i :
    Word("attack", i, 0) \o Word("decay", i, 0) \o Word("release", i, 0)
      \o Word("sustain", i, 0) \o Word("detune", i, 0) \o Byte("waveform", i, 0))
  \o Word("filterCutoff", 0, 0) \o Word("filterResonance", 0, 0) \o Byte("lfoWaveform", 0, 0)

\* The order in which loadPatch() reads them.
LoadedSettings ==
  Each(N_SETTINGS, LAMBDA i :
    Word("attack", i, 0) \o Word("decay", i, 0) \o Word("sustain", i, 0)
      \o Word("release", i, 0) \o Word("detune", i, 0) \o Byte("waveform", i, 0))
  \o Word("filterCutoff", 0, 0) \o Word("filterResonance", 0, 0) \o Byte("lfoWaveform", 0, 0)

LoadedSequence ==
  Each(SEQ_NUM_TRACKS, LAMBDA t :
    Word("volume", t, 0) \o
    Each(SEQ_LENGTH, LAMBDA s :
      Byte("midiVal", t, s) \o Byte("velocity", t, s) \o Byte("slotWaveform", t, s)
        \o Word("duration", t, s) \o Word("startPulse", t, s)))

Settings == Range(SavedSettings)
Sequence == Range(SavedSequence)
Field    == Settings \cup Sequence

PatchLength == 2 + Len(SavedSettings) + 2 + Len(SavedSequence)

ASSUME StoreAssumption ==
  /\ {PATCH_BASE_ADDR, PATCH_SIZE, EEPROM_SIZE} \subseteq Nat
  /\ NUM_PATCHES \in 1 .. 255 /\ PATCH_BASE_ADDR >= 5 /\ PATCH_SIZE >= PatchLength
  /\ EEPROM_SIZE >= PATCH_BASE_ADDR + NUM_PATCHES * PATCH_SIZE
  /\ Mode \subseteq {MODE_SYNTH, MODE_ARPEGGIATOR, MODE_GROOVEBOX}
  /\ Tuning \subseteq -512 .. 511 /\ Version \subseteq Nat \ {0}

\* What Each makes of the loops: two sequences of fields, none of them in both.
ASSUME LayoutAssumption ==
  /\ SavedSettings \in Seq(Field) /\ SavedSequence \in Seq(Field)
  /\ Settings \cap Sequence = {}
-----------------------------------------------------------------------------
VARIABLES
  eeprom,
  pc,                  \* where the firmware is; "off" without power
  pos,                 \* how many bytes of a job are written
  mode, tuning, patch, \* mode, tuningSetting, patch
  soft,                \* the reset is not the one after power on
  ram,                 \* what the settings and the sequence hold
  kept,                \* ghost: what each patch was last wholly saved with
  saves, cuts

vars == <<eeprom, pc, pos, mode, tuning, patch, soft, ram, kept, saves, cuts>>

Addr == 0 .. (EEPROM_SIZE - 1)
Lost == Number(256)

\* wrong variant: the knob reaches one patch too many
SelectableTooMany == 0 .. NUM_PATCHES

\* What the knob selects among, in selectPatch().
Selectable == Patch

PowerOnRam == [f \in Field |-> Cell(f, 0)]

Init ==
  /\ eeprom = [a \in Addr |-> Number(255)]
  /\ pc = "off" /\ pos = 0
  /\ mode = 0 /\ tuning = 0 /\ patch = UNSET /\ soft = FALSE
  /\ ram = PowerOnRam
  /\ kept = [p \in Patch |-> [f \in Field |-> Lost]]
  /\ saves = 0 /\ cuts = 0
-----------------------------------------------------------------------------
(* What is written: a list of addresses and cells *)

\* wrong variant: a patch is one byte shorter than its contents
PatchAddrOverlapping(p) == PATCH_BASE_ADDR + p * (PATCH_SIZE - 1)

PatchAddr(p) == PATCH_BASE_ADDR + p * PATCH_SIZE

From(addr, cells) == [k \in 1 .. Len(cells) |-> [addr |-> addr + k - 1, cell |-> cells[k]]]

\* wrong variant: the mode is written where the tuning is
GlobalWritesOverlapping == From(0, WordOf(EEPROM_MAGIC_NUMBER)) \o From(3, <<Number(mode)>>)
                             \o From(3, WordOf(tuning))

\* writeGlobalSettings()
GlobalWrites == From(0, WordOf(EEPROM_MAGIC_NUMBER)) \o From(2, <<Number(mode)>>)
                  \o From(3, WordOf(tuning))

\* savePatch(): the sequence only in groovebox mode
SavedFields == SavedSettings \o (IF mode = MODE_GROOVEBOX THEN SavedSequence ELSE <<>>)

Held(fields) == [k \in 1 .. Len(fields) |-> ram[fields[k]]]

PatchWrites(p) ==
  From(PatchAddr(p),
       WordOf(PATCH_VALID_MARK) \o Held(SavedSettings)
         \o (IF mode = MODE_GROOVEBOX THEN WordOf(SEQUENCE_VALID_MARK) \o Held(SavedSequence)
                                      ELSE <<>>))

\* eepromClear()
ClearWrites == From(0, [k \in 1 .. EEPROM_SIZE |-> Number(0)])

Writes == CASE pc = "clear"              -> ClearWrites
            [] pc \in {"tuned", "settle"} -> GlobalWrites
            [] pc = "save"               -> PatchWrites(patch)
            [] OTHER                     -> <<>>

(* What is read *)

WordAt(a) == AsWord(eeprom[a], eeprom[a + 1])

EepromValid   == WordAt(0) = EEPROM_MAGIC_NUMBER
PatchValid(p) == WordAt(PatchAddr(p)) = PATCH_VALID_MARK

SequenceAddr(p)  == PatchAddr(p) + 2 + Len(LoadedSettings)
SequenceValid(p) == WordAt(SequenceAddr(p)) = SEQUENCE_VALID_MARK

\* The cells read one after the other from address a into fields, over held.
Read(held, a, fields) ==
  [f \in Field |-> IF f \in Range(fields)
                   THEN eeprom[a + (CHOOSE k \in DOMAIN fields : fields[k] = f) - 1]
                   ELSE held[f]]

\* loadPatch()
LoadPatch(held, m, p) ==
  IF ~PatchValid(p) THEN held
  ELSE LET settings == Read(held, PatchAddr(p) + 2, LoadedSettings)
       IN IF m = MODE_GROOVEBOX /\ SequenceValid(p)
            THEN Read(settings, SequenceAddr(p) + 2, LoadedSequence)
            ELSE settings
-----------------------------------------------------------------------------
(* Power *)

PowerOn ==
  /\ pc = "off"
  /\ pc' \in {"clear", "reset"}     \* buttons 1 and 2: factory reset
  /\ soft' = FALSE
  /\ kept' = IF pc' = "clear" THEN [p \in Patch |-> [f \in Field |-> Lost]] ELSE kept
  /\ UNCHANGED <<eeprom, pos, mode, tuning, patch, ram, saves, cuts>>

PowerCut ==
  /\ pc # "off" /\ cuts < MaxCuts
  /\ pc' = "off" /\ pos' = 0
  /\ mode' = 0 /\ tuning' = 0 /\ patch' = UNSET /\ ram' = PowerOnRam
  /\ cuts' = cuts + 1
  /\ UNCHANGED <<eeprom, soft, kept, saves>>

(* A job writes byte after byte, with interrupts off *)

WriteByte ==
  /\ pos < Len(Writes)
  /\ LET w == Writes[pos + 1] IN
     /\ eeprom' = [eeprom EXCEPT ![w.addr] = w.cell]
  /\ pos' = pos + 1
  /\ UNCHANGED <<pc, mode, tuning, patch, soft, ram, kept, saves, cuts>>

Done(job, next) == pc = job /\ pos = Len(Writes) /\ pc' = next /\ pos' = 0

Cleared == /\ Done("clear", "read")
           /\ UNCHANGED <<eeprom, mode, tuning, patch, soft, ram, kept, saves, cuts>>
Tuned   == /\ Done("tuned", "select")
           /\ UNCHANGED <<eeprom, mode, tuning, patch, soft, ram, kept, saves, cuts>>
Settled == /\ Done("settle", "run")
           /\ UNCHANGED <<eeprom, mode, tuning, patch, soft, ram, kept, saves, cuts>>

\* A save that was not cut is whole; a reset follows.
Saved ==
  /\ Done("save", "reset")
  /\ kept' = [kept EXCEPT ![patch] =
                [f \in Field |-> IF f \in Range(SavedFields) THEN ram[f] ELSE @[f]]]
  /\ ram' = PowerOnRam
  /\ UNCHANGED <<eeprom, mode, tuning, patch, soft, saves, cuts>>

(* reset(); it sets what the RAM holds anew, whatever that was *)

\* Button 2 selects a patch; patch keeps its value otherwise.
SelectPatch ==
  /\ pc = "reset" /\ pc' = "read"
  /\ patch' \in {patch} \cup Selectable
  /\ UNCHANGED <<eeprom, pos, mode, tuning, soft, ram, kept, saves, cuts>>

\* readGlobalSettings(), then adjustTuning() with button 4 down at power on
ReadGlobals ==
  /\ pc = "read"
  /\ mode' = IF EepromValid THEN eeprom[2].value ELSE mode
  /\ LET stored == IF EepromValid THEN AsSigned(eeprom[3], eeprom[4]) ELSE tuning
     IN \/ pc' = "select" /\ tuning' = stored
        \/ ~soft /\ pc' = "tuned" /\ tuning' \in Tuning
  /\ UNCHANGED <<eeprom, pos, patch, soft, ram, kept, saves, cuts>>

\* The settings have the version v; the sequence too in groovebox mode, while in
\* the others nothing reads it.
Given(m, v) == [f \in Field |-> Cell(f, IF f \in Settings \/ m = MODE_GROOVEBOX THEN v ELSE 0)]

\* selectMode(), the pots, loadPatch(), and then writeGlobalSettings()
SelectMode(m) ==
  /\ pc = "select" /\ pc' = "settle"
  /\ mode' = m
  /\ ram' = IF patch # UNSET THEN LoadPatch(Given(m, 0), m, patch) ELSE Given(m, 0)
  /\ UNCHANGED <<eeprom, pos, tuning, patch, soft, kept, saves, cuts>>

(* loop() *)

\* The player has set everything the mode has a control for to new values.
Play(v) ==
  /\ pc = "run" /\ ram' = Given(mode, v)
  /\ UNCHANGED <<eeprom, pc, pos, mode, tuning, patch, soft, kept, saves, cuts>>

\* checkReset(): button 4 held, with button 1 to save patch p first
HoldReset ==
  /\ pc = "run" /\ pc' = "reset" /\ patch' = UNSET /\ soft' = TRUE
  /\ ram' = PowerOnRam
  /\ UNCHANGED <<eeprom, pos, mode, tuning, kept, saves, cuts>>

SavePatch(p) ==
  /\ pc = "run" /\ saves < MaxSaves
  /\ pc' = "save" /\ patch' = p /\ soft' = TRUE
  /\ kept' = [kept EXCEPT ![p] =
                [f \in Field |-> IF f \in Range(SavedFields) THEN Lost ELSE @[f]]]
  /\ saves' = saves + 1
  /\ UNCHANGED <<eeprom, pos, mode, tuning, ram, cuts>>

\* handleSystemReset(): patch keeps its value
HandleSystemReset ==
  /\ pc = "run" /\ pc' = "reset" /\ soft' = TRUE
  /\ ram' = PowerOnRam
  /\ UNCHANGED <<eeprom, pos, mode, tuning, patch, kept, saves, cuts>>

Next ==
  \/ PowerOn \/ PowerCut \/ WriteByte
  \/ Cleared \/ Tuned \/ Settled \/ Saved
  \/ SelectPatch \/ ReadGlobals \/ HoldReset \/ HandleSystemReset
  \/ \E m \in Mode : SelectMode(m)
  \/ \E v \in Version : Play(v)
  \/ \E p \in Selectable : SavePatch(p)

Spec == Init /\ [][Next]_vars
-----------------------------------------------------------------------------
(* Properties *)

Cells == [of : Field \cup {<<"number", 0, 0, 0>>}, value : Nat]

TypeOK ==
  /\ \A a \in Addr : eeprom[a] \in Cells
  /\ \A f \in Field : ram[f] \in Cells
  /\ pos \in 0 .. Len(Writes)
  /\ patch \in Patch \cup {UNSET}

\* The tuning is always one the knob can be set to, within two semitones, even
\* where a cut tore the word in two (readGlobalSettings(), writeGlobalSettings()).
TuningInRange == tuning \in -512 .. 511

\* Only a save to a patch, or the factory reset, changes a byte of it: not
\* a save to its neighbour, and not the global settings (PATCH_SIZE,
\* PATCH_BASE_ADDR).
PatchesApart ==
  [][\A p \in Patch :
       ~(pc = "save" /\ patch = p) /\ pc # "clear" =>
         \A a \in PatchAddr(p) .. (PatchAddr(p) + PATCH_SIZE - 1) :
           eeprom'[a] = eeprom[a]]_vars

\* What was last saved to a patch and not cut is loaded again from every byte of
\* it, whatever was cut, saved to other patches or written since: the settings
\* always, and the sequence of the last save in groovebox mode even from
\* a patch that was saved again in another mode (savePatch(), loadPatch()).
SavedIsLoaded ==
  \A p \in Patch :
    LET loaded == LoadPatch(PowerOnRam, MODE_GROOVEBOX, p)
    IN \A f \in Field : kept[p][f] # Lost => loaded[f] = kept[p][f]

\* While the synthesizer plays, what it plays with is stored: the next power on
\* finds the same mode and tuning (writeGlobalSettings() at the end of reset()).
PlayedIsStored ==
  pc = "run" => /\ EepromValid /\ eeprom[2] = Number(mode)
                /\ AsSigned(eeprom[3], eeprom[4]) = tuning
=============================================================================

# A TLA+ model of the Synthino XM firmware

The Synthino XM is a polyphonic synthesizer on an AVR XMEGA: one thread
(`loop()`), an audio interrupt at 25 kHz that mixes five voices, a pulse
interrupt that plays the arpeggiator and the sequencer, and serial, LFO and
clock interrupts. There is no operating system and almost no locking: the
threads share the array `note[]` and wait for one another by busy-waiting on
its fields.

This directory models the firmware module by module, checks the models with
TLC on small instances and proves what matters most with TLAPS for every
size. Source paths below are relative to `src/`.

## 1. Inventory

| Component | State | Operations | Talks to |
|---|---|---|---|
| voice pool (`synth.cpp`, `synthino_xm.cpp`) | `note[5]`, `button[3]`, `settings[4]`, `selectedSettings` | `findNoteIndex`, `doNoteOn`, `doNoteOff`, `releaseNote`, `stopNote`, `setPhaseIncrement`, `setWaveform`, `readSynthButtons`, channel select, service loop | shares `note[]` with the audio ISR and waits for it; called by MIDI handlers, arpeggiator, groovebox |
| envelope (`synth.cpp:275-377`) | per voice: `envelopePhase`, `volIndex`, `targetVolIndex`, `volIndexInc`, `volume`, `volumeNext`, `volLevel...` | `processEnvelope`, `releaseNote`, level part of `doNoteOn` | the ISR takes `volumeNext` over and counts `volLevelRemaining` down |
| audio output (`output.cpp`) | `phase`, `phaseFraction` of each voice, filter buffers, `output` | `ISR(TCC0_OVF_vect)`, `adjustAmplitude` | ends voices, reads what the main loop writes |
| MIDI handlers (`midi.cpp`) | none of their own, but for the clock follower's measurements | note on/off, drums, program and control change, bend, transport, clock, system reset | voice pool, arpeggiator, groovebox, `setBPM` |
| reset and boot (`init.cpp`) | mode, tuning, patch selection | `reset`, `checkReset`, `selectPatch`, `selectMode`, `adjustTuning` | all |
| panel input (`input.cpp`) | `buttonState[4]`, `buttonReleaseState[4]` | `buttonPressed`, `buttonPressedNew`, `buttonHeld`, `buttonReleased` | polled by `loop()` |
| arpeggiator (`arpeggiator.cpp`) | `arpeggio[16]`, `arpLength`, `arpPosition`, `arpNoteIndex`, `arpRunning` as a lock | `doArpeggiator` in the pulse ISR; note on/off, transpose, buttons in `loop()` | voice pool |
| groovebox (`groovebox.cpp`) | `seq[4][16]`, tracks, `seqLock`, `seqPreview`, `currentTrack` | `doGroovebox` in the pulse ISR; note on/off, buttons, metronome | voice pool |
| pulse clock and tempo (`timer.cpp`, `synthino_xm.cpp:679-713`, `midi.cpp:713-740`) | `pulseClock`, `bpm`, `bpmMeasurements` | pulse ISR, LFO ISR, `setBPM`, `handleClock` | arpeggiator, groovebox, LFO |
| EEPROM (`eeprom.cpp`) | global settings, four patches, validity marks | read and write of each | reset |
| serial receive ring (`arduino/HardwareSerial.cpp`) | ring buffer, head, tail | receive ISR, `available`, `read` | MIDI parser |
| MIDI parser (`lib/MIDI`, `lib/USBMIDI`) | pending message, running status | `read`, `parse`, callbacks | MIDI handlers |
| LFO, filter, noise | phases, shifts, feedback | `updateLFO`, `setFilterFeedback`, `initNoise` | service loop, audio ISR |

What is hard here:

* *Concurrency without locks.* The audio ISR may run between any two
  instructions of a handler, and end a sample there. Handlers wait for it by spinning
  on the voice. The pulse ISR starts and releases voices between any two statements
  of the main thread that hold neither `arpRunning` nor `seqLock`.
* *Ordering.* A voice is found again by its note and channel
  (`doNoteOff`), by its index and `trigger` (buttons), or by `origMidiVal` and
  a flag in `midiChannel` (drums), while pots and messages retarget it.
* *Limits.* Five voices for any number of keys; bytes and 16-bit words that
  wrap; 65-entry tables indexed by a byte that a direction moves.
* *Failure.* A power cut between two EEPROM writes; lost and split MIDI bytes.
  Nothing is retried and nothing times out in synth mode.

Properties that make the components correct: no note hangs; no wait lasts for
ever; a voice is stolen only when it must, in order of age, and cut only where
its waveform ends; the two fields by which the threads describe a voice's life
agree, but for what an interrupt inside a call leaves; a voice sounds as its channel is set; levels stay in their tables and
move towards their target; a released note ends; arpeggio positions stay inside
the arpeggio and every note the arpeggiator starts is released before the next
one; no track of the groovebox loses the voice that sounds for it, a stop is
silent, and a played note ends on time; a patch that was wholly saved is loaded
again byte for byte, wherever power was cut since; the receive ring is a FIFO
that refuses bytes only when it is full; running status assigns bytes to the
right message; a voice whose increments a race made wrong is set right by the
next pass over it.

## 2. Modules

| Module | Stands for |
|---|---|
| `Voices` | `note_t` and the functions on one voice or on the choice of a voice. No variables. |
| `Synth` | `loop()` in `MODE_SYNTH`, the MIDI handlers, the panel, reset, and the audio ISR. |
| `MCSynth` | values of Synth's constants for TLC |
| `Envelope` | one voice with its amplitude and the four real tables |
| `VoiceEnvelope` | the abstract envelope: the operators of `Voices` on the fields the envelope is about, in any order |
| `MCEnvelope` | values of Envelope's constants for TLC |
| `VoiceRace` | one voice in `MODE_ARPEGGIATOR`, statement by statement: service loop and `setWaveform` against the pulse ISR against the audio ISR |
| `Arpeggiator` | `MODE_ARPEGGIATOR`: `doArpeggiator` in the pulse ISR against the handlers that edit the arpeggio |
| `MCArpeggiator` | values of Arpeggiator's constants for TLC |
| `Groovebox` | `MODE_GROOVEBOX`: `doGroovebox` in the pulse ISR against keys, transport, clear, preview and track change |
| `MCGroovebox` | values of Groovebox's constants for TLC |
| `BoundedFifo` | the abstract receive buffer: a queue with a capacity, and the receiver's own places before it |
| `SerialRing` | head and tail, `store_char` in the receive ISR, `available` and `read`; the refinement of `BoundedFifo` |
| `MidiParser` | `parse`, `input_filter` and `launchCallback` on numbers, the USB event packets, and the channel folds of the handlers. No variables. |
| `MidiInput` | sender, USART, `BoundedFifo`, parser and handlers' calls end to end; MIDI over USB beside it |
| `MCMidi` | the messages sent, for TLC |
| `PatchStore` | the EEPROM byte by byte, with `reset`, saves and loads, and the power cut between any two bytes |
| `MCPatchStore` | values of PatchStore's constants for TLC |
| `Synth_proofs` | theorems about `Synth`: types; configuration, life and choice of voices; keys and buttons |
| `Envelope_proofs` | theorems about `Envelope`: types, tables, loudness; the refinement of `VoiceEnvelope` |
| `VoiceRace_proofs`, `SerialRing_proofs`, `PatchStore_proofs`, `Arpeggiator_proofs`, `Groovebox_proofs`, `MidiInput_proofs` | theorems about the modules they are named after |

`Voices` is used by `Synth`, and through `VoiceEnvelope` `Envelope` is shown to
implement what `Synth` assumes of levels. `MidiInput` composes `MidiParser` with
`BoundedFifo`, which `SerialRing` is shown to implement: end to end the buffer
may be replaced by its specification. The modules of the three modes are not
composed with one another: `mode` changes in `reset` only, which silences every
voice and sets up what its mode reads. What a mode leaves behind for the next is an
input of the next. There is one such thing, `seqPreview`: only `groovebox.cpp`
writes it (`:341`, `:411`, `:446`), a reset from the groovebox into another mode
keeps it, and `setWaveform` reads it in every mode. `Synth` therefore starts with
what `PreviewLeft` allows. `PatchStore` is composed with nothing: what it hands to
the others is the contents of the settings, which they leave free.

### Synth and the code

One pass of `loop()` is five stages, held in `pc`: *read* (MIDI, any number of
messages), *select* (channel pot), *poll* (`readSynthButtons`, one button per
step), *pots* (waveform knob), *service* (envelope and frequency, one voice per
step). A handler is one step, except where the code spins on the audio ISR
(`findNoteIndex` at `synth.cpp:93`, `stopNote` at `synth.cpp:226`). There the
call is suspended in `call` with all its arguments and resumed by
`FinishNoteOn`, `ContinueStop` or `FinishReset` when the condition of the C loop
lets it. Between suspension and resumption only the audio ISR, the clock and
the player's fingers move. `StopCall` remembers the index of the C `for` loop it
was called from; a `stopNote` over several voices resumes at the next one.

The audio ISR may also fall *inside* a step. It reads and writes one voice, so
most of what it does there it might as well have done before or after; the
exception is the end of a sample between two writes of a call. `cut` in
`DoNoteOn`, `ReleaseNote` and `ChangeBuf` says that it happened in the window in
which it matters:

* `releaseNote`: after `sampleLength` was cut down to where the phase is and before
  `envelopePhase` is written (`synth.cpp:203-204`). The voice is left at `NOTE_OFF` in
  RELEASE.
* `doNoteOn`: after `isSample` is set, on a stale `sampleLength`
  (`synth.cpp:162-165`). The voice is left at `NOTE_OFF` in ATTACK.
* `setWaveform`: after `isSample` is set, on a stale `sampleLength`
  (`synthino_xm.cpp:606-608`). Nothing is written over, the note is gone.
* `readSynthButtons`: after `midiVal` was tested (`synth.cpp:36`) and before the
  pitch pot writes it again (`:53`). The voice sounds in phase OFF (`ButtonHeld`).

The abstraction of `note_t`:

* `buf` is the kind of `waveformBuf`: a waveform, noise (a null buffer), or a
  sample; `isSample` is the third. `AudioStep` keeps their different
  endings: a waveform waits for its end, noise stops at once, a sample stops at
  its end and takes `envelopePhase` with it.
* `drum` is the `0x80` bit of `midiChannel` with the `origMidiVal` it guards.
* `phaseInc` and `phaseFractionInc` are kept as "positive or zero", all that
  the waits and the searches ask. `Slow` is the set of notes whose whole part
  is zero.
* `steps` is the number of level changes to the target, `fades` says that the
  target is silence. `Envelope` with its tables is shown to implement this.

`WF`/`SF` conditions are in `FairSpec`: the main thread keeps running; the
audio timer keeps interrupting, and since a moving phase grows at every
interrupt, it passes its boundary; the same interrupt counts
`volLevelRemaining` down, so a voice that is serviced for ever is for ever
again serviced with its level elapsed. Every one is a property of a timer or of
the processor; no fairness is assumed of MIDI input or of the player.

### Envelope and the code

`Envelope` has one action per branch of `processEnvelope`, `releaseNote`'s three
cases, both halves of `stopNote`, and the ISR. A table read past index 64 may
return any byte (`Junk`), as the linker decides. `volumeScale` is 1.0, as it is
in synth mode. `SetWaveform` may change the waveform of any voice at any time, a
sounding or released one too, and to or from a sample. `astray` is history: the
note was released as a sample, and `releaseNote` gave it neither direction nor target
(`synth.cpp:199-206`), unless it had both already. The next note on clears it. The
last part of the module maps the state to that of
`VoiceEnvelope`: `steps` is the distance of `volIndex` from its target along
`volIndexInc`, counted in a byte as the code counts, and `VoiceEnvelopeSpec` is
the abstract specification on that view.

### VoiceRace and the code

The service loop's pass over one voice is cut where an interrupt makes a
difference: `SetFrequency`, the test for the target, the test of the phase, the
write of the next phase, the two statements that end a note (`EndNote`), the
bend, the comparison with `lastFrequency`, and the three writes of
`setPhaseIncrement`. `setWaveform` is four steps. The pulse interrupt (`isr`) is
`releaseNote`, or `findNoteIndex` with its wait and `initNote`; the main thread
stands still while it runs, the audio ISR does not. At most one pulse falls
between two statements of the main thread (`pulsed`): the next is at least 25 ms
away. A frequency is the note it was looked up for with a bend; an increment is
the frequency it was computed from. Levels and `volumeScale` are left out,
whether the target is reached is a free choice. The arpeggiator is the mode
modelled because there the interrupt both starts and releases the voices
`processEnvelope` is working on. It finds a note by `arpNoteIndex`, which no
statement of the main thread takes from it, and `OffIsOwned` is about that. The
groovebox finds a note by `trigger`, which `synth.cpp:349` clears, and what comes of
that is the subject of `Groovebox`.

### Arpeggiator and the code

`Pulse` is one pulse interrupt: `doArpeggiator()` and `pulseClock++`, both
skipped while `arpRunning` is clear. A handler (`NoteOn`, `StartStop`,
`SelectTimeDivision`, `TurnRoot`, ...) makes its first assignments in one step
and queues in `todo` what it still has to do: *lock* (remember and clear
`arpRunning`), *fill* and *measure* (the notes, then their number and the
position), *stop* and *rewind* (`resetArpeggiator`), *transpose*, *unlock* and
*start*. The interrupt can run between any two. MIDI start, continue and stop
call the handler of button 1, and controllers those of the knobs, so one action
stands for both. `VoiceEnds` is the audio ISR, the envelope or a controller
bringing a voice to silence; the choice of a voice is `Choices`, the free one
of lowest index or, with none free, any. The sort of `setMIDIArpeggioNotes` is
described by its result, the rank of each slot in a stable order by time.

Three ghosts carry no behaviour: `pressed` (when each key that is down and
found a slot was pressed), `latched` (its value when the arpeggio was last made
from the keys) and `source` (what `arpeggio[]` holds). `stray` says that
a transposition of an empty arpeggio has written behind the array; the model
stops there, since nothing can be said of the program.

### Groovebox and the code

The pulse ISR takes a step for the whole pulse (`Pulse`: releases, then the
head) and, at a boundary, one for each track: `PlaySlot`, `EraseSlot` (a track
that records) or `PassSlot`. The main thread stands still while `head` names a
track, as an interrupt demands; the audio ISR (`VoiceEnds`) does not.
`IdlePulse` is the same interrupt with the sequence stopped, when it only counts.
`grooveboxNoteOn` is `BeginNoteOn`, which sets `seqLock`, snaps, gives the
track's former note its duration and stops it, and `FinishNoteOn`, which claims a
voice and writes the slot; voices end in between, pulses are dropped.

Without `seqLock` the main thread writes to voices in `processEnvelope`, in
`doNoteOff` and `doDrumNoteOff` (a key that goes up in preview or with the sequence
stopped, and the track knob), and in `ALL_NOTES_OFF`. Each of their
writes to `midiVal`, `envelopePhase` and `trigger` is a step, and `doing` is the
step the main thread is at:

* `Serve` is `processEnvelope` at its target, up to the test of the phase. Then
  `SwitchPhase` writes the next phase (`synth.cpp:326`, `:329`, `:343`), or
  `EndNote`, `EndPhase` and `EndTrigger` are the statements `:347`, `:348`, `:349`.
  SUSTAIN is not told from the phases before it, so there are more switches than in
  the code.
* `FindNoteOff`, `ReleasePhase` and, for a sample, `ReleaseTrigger` are the loop of
  a note off, voice by voice.
* `FindQuiet`, `QuietMark` and `QuietPhase` are `stopNote` for each voice of
  `ALL_NOTES_OFF`: the mark, the wait, and OFF. A voice that the interrupt
  restarts ends the wait, since its increments are 0 then.

Pulses, and the audio ISR, fall between any two of these steps. The remaining
handlers are one step, because they let no pulse in, by `seqLock` or because the
sequence stands by then, or write nothing the pulse reads together. The exception is
`Clear`, which erases a track position by position while the sequence may run.
It is one step since the pulse between two of its writes reads a single position of
that track, and finds it as it was before the whole or after. `HandleStart` leaves
`pulseClock` at 0 or 1, for a pulse between its two assignments. `waiting` is the
loop of button 1, in which MIDI is read and the clock runs.

`seq` is indexed by track and then position. `startPulse` and `duration` are
words: differences are taken modulo `WORD`. A slot that is erased and a voice that
falls silent lose the fields nothing reads any more. `held` and `plain`
are ghosts: the keys that are down, and that no key was down whenever the
panel or the transport was touched. So are the fields `owner` and `torn` of a voice:
the track its note was started for, whatever has become of `trigger` since, and
that a write of the main thread meant for the former note, or for its former phase,
has fallen on it. The code orphans torn voices (see the findings), and the
properties of the groovebox are about the others.

### SerialRing, MidiParser, MidiInput and the code

`SerialRing` has the interrupt in one step, because nothing of its own level or
below can come between its statements, and `read` in two (fetch the byte, move
`tail`), between which it may run. While another interrupt of the lowest level
runs, or interrupts are off, it is held off (`heldOff`) and the USART keeps
`UART_DEPTH` bytes. A slot that was read is emptied in the model, since nothing
reads it again before it is written.

`MidiParser!Parse` is a function from the parser's state and a byte to the new
state and the message completed, if any, in the code's order of tests; the parser
is configured as the firmware builds it (one byte per call, all channels).
`MidiInput` adds a sender that keeps to the standard (whole messages, real-time
bytes anywhere, running status where allowed) and losses in both buffers. What a
message means is a second, independent definition, `Meaning`; the ghosts `trail`
and `inStep` say what each byte on its way stands for and whether the parser has
met a status byte while idle since the last loss. The constants of the messages
are their real numbers.

### PatchStore and the code

`eeprom` is the whole memory, an address to a *cell*: the byte of a field it was
written for, with a value. Reading a cell back into another field is therefore
seen. What the firmware compares or computes with (marks, mode, tuning) are cells
with real numbers. A job (`pc` in `clear`, `tuned`, `settle`, `save`) writes its
list of addresses and cells one by one, and `PowerCut` may fall between any two.
`reset` goes through *reset*, *read*, *select*, *settle* and *run* in the order of
`init.cpp`: patch selection, global settings, tuning, mode, the load and the write
at the end. `kept` is a ghost: what each patch was last wholly saved with, and
`Lost` from the moment a save over it begins. To keep the states few, the RAM
is set to the same contents where nothing reads it before it is written.

## 3. Runs

| Run | Question | Bounds |
|---|---|---|
| `SynthKeys` | Can a note hang, a drum voice turn into a waveform, a voice sound other than its channel, a button's voice leave its note or channel? | one voice, two channels, one button, two notes (one slow), channels 2 and 10 on the wire, `seqPreview` set or not |
| `SynthVoices` | Do `midiVal` and `envelopePhase` agree through every wait; is the right voice stolen, at the right moment? | two voices, a drum channel, a button and the waveform pot, reset, two instants of `millis()`, samples cut inside calls |
| `SynthEnds` | Does every busy-wait end, and every released note? | one voice, all three kinds of waveform, `seqPreview` set or not, fairness |
| `EnvLevels` | Do indices stay in their tables; does a note never swell after its attack; does a released note reach silence; is the abstraction of `Voices` sound? | the loudest velocity, sustain 0.5 and 1, level times zero or not, all kinds of waveform at note on and at any moment afterwards, 255 behind the tables, fairness for the third question |
| `ArpTiming` | Is every note released, and before the next one starts, whatever is done to tempo division, length, pattern and start? | two voices, two chord types of different length, 12 pulses to the quarter, divisions 0 to 2, 13 pulses |
| `ArpKeys` | Is the arpeggio exactly the keys that were down, in the order they were pressed, and the position always among them? | three keys for two slots, one root, two instants of `millis()`, 4 pulses |
| `GrooveTracks` | Does every track keep the voice that sounds for it; is a stop silent; does a played note end on time? | two tracks of two positions, 3 pulses apart, two voices, a melodic key and a drum, 7 pulses, the player's moves at a cost, the track knob at the first track |
| `SerialRing` | Is the ring a queue, with the interrupt anywhere in `read` or held off? | five slots, a USART of two, three bytes |
| `MidiBytes` | Is every message delivered as sent, whatever is put between its bytes or was lost before? Is real time always heard? Do USB and wire agree? | one place each in buffer and USART, four channels, messages of one, two and three bytes with and without their status |
| `PatchCuts` | Is what was saved what is loaded; do patches stay apart; is the tuning on the scale, with the power cut anywhere? | two patches that fill the EEPROM, one setting, one track of one note, two modes, two saves, one cut |
| `VoiceRace` | Is a voice in tune after an undisturbed pass; is a note in phase OFF owned; does the wait inside the interrupt end? | two notes (one slow), two bends, all kinds of waveform, fairness for the last question |
| `VoiceReleased` | Does a release by the interrupt hold? No. | as `VoiceRace` |

Why the bounds are enough. One voice makes every new note a steal and
every button lose its voice, which is what the invariants of `SynthKeys` are
threatened by; channels 2 and 10 share a settings entry, so the drum flag is
put to the test, and with two channels and two notes the channel select and the pitch
pot move the button's voice. Two voices are needed for the search and for a suspended stop
with another voice alive, and two instants of time for an older and a
younger voice and for a tie. For the ends of waits and notes one voice is enough:
while a call waits, only the interrupt runs, and it treats each voice by itself.
The envelope is deterministic between inputs, and
its levels are the real ones; from the loudest velocity, releases and changes of
waveform at any step reach the levels below; a sustain of 0.5 has a decay to end and
one of 1 skips it. A junk byte of 255 leads furthest out when it is an index again.
The theorems hold for every velocity, level and junk. In the arpeggiator the
interval between two notes is `PPQ / 2^division`; 12 pulses give the intervals
12, 6 and 3 and lengths from 2 up, the shortest ones the assumption
`PPQ / 2^division > 2` allows, and 13 pulses hold a whole interval of the longest
division with both its ends. Two slots for three keys let the slots run out;
two slots are also the least for which order, gaps and a position past the end
exist. `MaxPulse` and `MaxTime` stop two counters, which is why the runs about
keys need only a few pulses: there the clock matters only through the position.
In the groovebox 3 pulses between positions are the least for which a key can
snap back, snap forward and fall on a boundary; 6 pulses bring the head
back to the position it started from, and the seventh plays it, so that what was
recorded is played and cut short. A move is a key pressed or the panel or transport
touched (keys going up are not counted); each takes its `Cost` of `MaxMoves`. 7 hold
start, a key, the track knob and a key of the other track, so that both sound at once
and each steals voices of the other, or start, a key and any one disturbance.
`KnobAt` is where the track knob stands when `reset` reads it; at the first track
only, the second is reached by turning it, and a reset after that still finds knob
and track apart.
The clock stops at `MaxPulse` and `EndOfClock` lets the model rest there.
Pulses fall inside every unlocked write at these bounds. One tear needs more moves:
a pulse before `synth.cpp:205`, the trigger of a sample, that restarts the voice. It
was reached with `seqStartPulse` 2 and 4 moves of any kind, in a state space too large
for a run of minutes. The bounds do not spare the properties: without `~torn`
TLC finds each of the three violated at them, and the theorems hold without bounds.
A ring of five has every relation of head and tail, wrapped and not, with three
bytes in flight told apart; its theorem is for every size. One place in the
buffer and one in the USART lose bytes in every position of a message, which is
what the parser must survive. One field of each width in each of the two parts of
a patch, two patches and an EEPROM without a byte to spare make every wrong
address hit something; the tuning, 0xfed4, differs from both 0 and 0xffff in both
its bytes; two saves, so that a groovebox patch can be saved again in another
mode, or its neighbour saved; a second cut finds nothing a first one does not
leave, since all jobs start from what is in the EEPROM (and the theorems
hold for any number).

The fairness of `VoiceRace` is that of the same hardware: the audio timer goes on
and a moving phase reaches the end of the waveform, and an interrupt that does not
wait goes on. No fairness is assumed of the main thread, which stands still while
the interrupt waits.

`CHECK_DEADLOCK` is on in every run.

### Findings

`VoiceReleased`: `processEnvelope` tests the phase (`synth.cpp:295`) and
then writes the next one (`synth.cpp:326`, `:329`, `:343`) with the pulse interrupt
enabled. `doArpeggiator` releases its note ("Time to release the currently
playing note.", `arpeggiator.cpp:45`) and gives it up (`arpNoteIndex = UNSET`,
`:51`). With the interrupt between the two, `RELEASE` is overwritten by `SUSTAIN` or
`DECAY`: the note is not released, no one owns it, and it holds its voice until
that is stolen. In the counterexample a pulse starts the note and the service loop comes
to it; then the voice is found at its target in `ATTACK`, the pulse releases it, and the
switch of phase takes it back.

Seen while modelling, and not a run:

* the voice:
  * `findNoteIndex` stops the voice it steals only if `phaseInc > 0`
    (`synth.cpp:144`); a note below one waveform sample per interrupt has only
    `phaseFractionInc`, and is reset in mid-waveform, against the comment at
    `synth.cpp:94`;
  * `releaseNote` on a sample leaves direction and target alone (`synth.cpp:199-206`).
    If the panel or a program change then makes the voice a waveform, it is `astray`:
    it may step away from the target, out of the tables and round the byte
    (`:358-360`), swelling on the way, and with a level time of zero its `volIndex` is
    set to 0 for ever while the target is elsewhere (`:354-356`). `InTable`,
    `NeverSwells`, `ReleaseEnds` and `ReleasedVoiceEnds` are stated for all other notes,
    through every change of waveform;
  * a sample that the audio ISR ends inside a call is written over: at `NOTE_OFF` it is
    left in RELEASE by `releaseNote` (`synth.cpp:203-204`) and in ATTACK by `doNoteOn`
    (`:162-165`); a button whose pitch pot is turned as its sample ends revives the
    voice in phase OFF (`:36`, `:53`). `VoiceLifecycle` says that this is all that may
    happen. Nothing waits for such a voice, and the next note takes it or the button
    releases it;
  * a reset out of the groovebox with its preview on leaves `seqPreview` set in synth
    mode. `setWaveform` then changes the setting and no voice that sounds
    (`synthino_xm.cpp:597-600`), so that a note plays on in the old waveform; this is
    why `WaveformFollowsChannel` is stated for `seqPreview` clear;
  * the end of the attack looks up the volume the ISR last took over, not the one
    it is about to take over; with a short attack the two differ, and
    `processEnvelope` reaches its own `ERROR` branch (`synth.cpp:333-336`);
  * sustain 251, 253, 502, 506 and 511 per mille lose one in the fixed-point share;
  * the first note of a sample is dropped if the audio ISR runs between the writes
    of `isSample` and `sampleLength` in `setWaveform`, and one sample may be read
    with the old phase;
* arpeggiator and groovebox:
  * a MIDI key above `MIDI_HIGH - 12` as root makes chord notes for which `noteTable[]`
    has no entry (`arpeggiator.cpp:237`); the knob's range avoids them;
  * `setArpeggioNotes` clamps the position for keys but not for a chord; a shorter
    chord leaves `arpPosition` past its end, and the next pulse plays a note of the
    former arpeggio (`arpeggiator.cpp:235`);
  * `transposeMIDIArpeggio` computes in bytes: a note moved below 0 is played at
    `MIDI_HIGH`, and with no notes the loop starts from `arpLength - 1`, 255, and
    writes behind the array (`stray`);
  * only a note off that matches takes a track out of `SEQ_RECORD`; preview, a
    change of track, clear, or the start loop can keep it from the track, which
    then erases every note the head passes, with no key down
    (`groovebox.cpp:279-296`);
  * a groovebox note whose voice is taken from it while its key is down keeps
    duration 0 and reaches the `ERROR` branch at `groovebox.cpp:183`; a key before
    the first boundary after a synchronised start can get a duration near 65535,
    which is why `HeldOrTimed` leaves such starts out;
  * button 4 in the start loop leaves `seqSynchStart` set (`groovebox.cpp:383`), and
    a later note is recorded into position 0 of a sequence that stands;
  * the groovebox finds a voice by its `trigger` and skips those in phase OFF, and the
    main thread writes both without `seqLock`. A voice is `torn` when such a write
    falls on a note that a pulse has started or released there meanwhile:
    * a boundary pulse after `synth.cpp:347` takes the voice, which is pending and so
      free, for a track; `:348` and `:349` then put the new note to OFF and its trigger to
      `UNSET`. It sounds, its track does not find it, and `stopSequencer`, "if any notes
      are on stop them" (`groovebox.cpp:429`), skips it;
    * `ALL_NOTES_OFF` waits in `stopNote` (`midi.cpp:434`, `synth.cpp:226`), a pulse
      restarts the voice, and `synth.cpp:229` puts the new note to OFF: the same;
    * `releaseNote` of a sample in preview, or with the sequence stopped when MIDI
      starts it again: the trigger of the restarted voice is cleared (`synth.cpp:205`);
    * a release between `synth.cpp:295` and `:326`, `:329` or `:343` is overwritten, as
      in the arpeggiator. The note is released again by the next pulse, with a duration
      one longer than recorded, which is what the sequence plays from then on: the
      `ERROR` branch at `groovebox.cpp:183`. At a boundary it is the branch that says "A
      currently playing note should have been released above" (`groovebox.cpp:221`);
* MIDI input:
  * a program change under running status is delivered one byte late and swallows
    the byte after it (`MIDI.cpp:540`, `:550`): its expected length is that of the
    message with a status; `RunningLengths` leaves two-byte messages out;
  * a status byte inside a message is stored as data; the running status is stale
    after a tune request;
  * the parser's flush of a full buffer (`bytes_available == 128`) is dead code,
    since the ring never holds more than 127 (`FlushUnreachable`);
  * `UsbAgrees` holds because `N_MIDI_CHANNELS` divides 16;
* tempo (read, not modelled):
  * `clockMeasurementCount` is an int that only a silence sets back
    (`midi.cpp:739`): after 32767 clocks, 11 minutes at 120 BPM, it is negative, no
    measurement is taken for as long again, and the tempo no longer follows;
  * its low byte is what the sum is divided by (`midi.cpp:726`, `:733`): 0 at the
    first clock and at every 256th after it, where the result is out of range and
    dropped; for the next 23 clocks only the first slots are averaged, which hold the
    oldest measurements;
  * a pause during the start loop (`groovebox.cpp:383-393`), which does not call
    `updateMIDIClockInfo`, is measured as a tempo of less than 5 BPM;
* EEPROM and settings:
  * the magic number and the valid marks are written before the contents
    (`eeprom.cpp:207`, `:80`): a first save that is cut leaves a valid patch with
    bytes 0xff in it, and a waveform number out of range;
  * the transposition of the sequence is not saved; `patch` survives
    `handleSystemReset`, so that a reset over MIDI loads the last patch again;
  * `EFFECT_CONTROL_1` sets `lfoWaveformBuf` but not `lfoWaveform`, `reset` the
    other way round; the LFO depth pot never updates its last reading.

## 4. Proofs

### Synth

For any numbers of voices, channels and buttons, any sets of notes and drum
keys and any `MaxSteps`, under `VoicesAssumption` and `SynthAssumption`:

* `TypeCorrect` (`Spec => []TypeOK`). `TypeOK` is inductive with one
  strengthening, which is part of it: the note of a suspended drum call is a drum
  key, or `DrumPitch` would be applied outside its domain on resumption. The
  proof rests on `FindNoteIndexFinds` (the three searches always settle on a
  voice), which needs that a non-empty set of voices has an oldest, first member
  (`OldestIsOldest`, from `LeastNatural`).
* `DrumVoicesStaySamples` and `WaveformsFollowChannels`. Both invariants are
  inductive given `TypeOK`. The argument: `Subsides` says what the passing of
  time may do to a voice (end it, release it, cut it inside a call, take its
  trigger, nothing else), and every step but five leaves all voices at most subsiding
  or bent (`ConfigKept`). The five that remain set channel, buffer and drum
  key together: `FinishNoteOn`, `FinishReset`, `SetWaveform` from
  its two callers, and `ChannelSelect`. The second is about executions with
  `seqPreview` clear, and no step of the mode sets it (`PreviewStays`).
* `ReusedAtBoundary` (`RestartedAtBoundary`). Strengthening: a note on that
  does not wait has chosen a voice with `phaseInc` 0 (`StandsStill`), and
  nothing that runs during the suspension sets it going.
* `StolenOnlyInOrder` (`StealsInOrder`), from the three searches alone
  (`StolenInOrder`); no invariant but `TypeOK` is needed.
* `NoNoteHangs` and `ButtonVoicesStayInStep` are proved together: neither
  is inductive alone, since a release finds a button's voice only because it is
  in step, and a button may be pressed anew only because its old voice is
  released. Two strengthenings: a held note has a channel (`HeldOnChannel`),
  and a suspended note on is on behalf of a key that is still down or of a
  pressed button without a voice (`CallInStep`). Both were checked with TLC
  before the proof. A third part, `RevivedHasButton`, is there for the next theorem.
* `LivesAgree` (`VoiceLifecycle`), from two invariants. `SilentInv` says that every
  voice is settled but the one a suspended call is at, and that a voice which is waited
  for is silent, so setting its phase to OFF afterwards is right; `KeepsLife` says what
  one step may do to the two fields, with the audio ISR inside it or not. That a voice
  which sounds in phase OFF lies under a pressed button comes from the invariant
  about keys: it has kept its trigger (`RevivedHasButton`), it is unreleased, and a held
  voice has its button (`NoHangingNotes`).

### VoiceRace

For any notes, bends and waveforms, under `RaceAssumption`:

* `AlwaysInTune` (`InTune`). `setPhaseIncrement` skips its work if the frequency
  is `lastFrequency`, so whoever makes the increments wrong must leave
  `lastFrequency` zero. `IncFollowsLast` says that, outside the statements that are
  changing the increments, a `lastFrequency` that is not zero tells the truth. It is
  not inductive alone: `Remembered` and `Forgotten` say what holds at the excepted
  statements, `NotNoise` and `BufFollows` that a noise voice never gets there, and
  `QuietPass`, `QuietNote` and `QuietLast` what an undisturbed pass has done so far.
* `OffAlwaysOwned` (`OffIsOwned`), by induction alone.

### Envelope

For any velocities, settings and table junk, under `EnvelopeAssumption`; the
four tables are those of the source.

* `EnvelopeTypes` (`TypeOK`).
* `EnvelopeInTable` and `EnvelopeNeverSwells`, through every change of waveform, to
  and from samples too, for all notes that are not `astray` (see `releaseNote`
  under the findings about the voice for what becomes of those). The invariant is
  `HomeInv`: `LevelInv` unless the note is `astray`, of which only its types are known
  and that it is silent in phase OFF (`OffSilent`). `LevelInv` says
  that `volIndex` lies between where the phase began and its target, on the side
  `volIndexInc` points from (`Climbing`, `Falling`), and that what is heard
  is at least what the level promises (`Heard`). The facts about the tables (that
  they rise, that the attack's inverse undoes them) are lemmas over their 65 entries.
* `EnvelopeImplementsVoice` (`Spec => VoiceEnvelopeSpec`), for notes that are `astray` as well.
  Every branch moves `volIndex` one step along `volIndexInc`, in a byte, so the
  distance `StepsTo` counts down by one or is set anew; `AttackUp` says that an
  attack climbs, which the abstract end of attack needs.

### SerialRing

For any size, any depth of the USART and any set of bytes, under
`RingAssumption`: `RingTypeCorrect`; `FlushUnreachable`; and `RingImplementsFifo`
(`RingSpec => RingIsFifo`), by the sequence of slots from `tail` to `head` as the
queue. The refinement needs one strengthening (`RefInv`): between its two steps,
`read` has a byte left to remove.

### PatchStore

For any number of settings, tracks, patches, saves and cuts, and any layout that
fits its EEPROM, under `StoreAssumption` and `LayoutAssumption`: `PatchTypes`,
`TuningAlwaysInRange`, `PlayedIsAlwaysStored`, `PatchesStayApart` and
`SavedIsAlwaysLoaded`. One inductive invariant serves all: `Torn` (the bytes of the
tuning are bytes of tunings, from whichever writes), `Global` and `Saving` (what a
job has written up to `pos`), and `Stored` (what is kept of a patch lies in its
place under its marks). The arithmetic is that of `PatchRanges`: an address is in
at most one patch, and in none below 5. `LayoutAssumption` states of the two lists
of fields, which are flattened by recursion, that they are lists and share no
field; this is data the prover cannot compute and TLC does, on the instance.

### Arpeggiator

For any number of voices and slots, any keys, roots, chords, clocks and times, and
any divisions that leave at least three pulses between two notes (the firmware's
leave 12), under `ArpeggiatorAssumption`. Five invariants, each
proved for every step of a handler and of the pulse interrupt, and each checked
with TLC first on the two runs:

* `ArpeggiatorTypes` (`TypeOK`), with `ThreadInv`: the steps a handler still
  has to do follow one another as its statements do (`Chain`), and `arpRunning` is
  clear from its lock to its unlock (`Locked`). This is what lets every other
  proof leave out the interrupt wherever the handler holds the lock.
* `NoArpeggioNoteHangs` (`NoHangingNotes`), by `HeldInv`. That a stopped
  arpeggiator holds no voice is not inductive: inside a handler one may be held.
  `Attended` says for each place of the handler who will release it: the ISR, the
  ISR once the lock is given back (`oldArpRunning`), or a stop that is
  still queued.
* `ArpeggiatorNeverStuck` (`NeverStuck`), by `TimingInv`: from the pulse a note
  starts to the next multiple of `arpNoteStartPulse`, the release lies ahead
  of the clock and before that multiple, in absolute pulses
  (`ReleaseAhead`). The interval is replaced only with no note playing, and the
  length pot does not move a release that is already set.
* `PositionStaysAmongKeys` (`PositionAmongKeys`), by `PositionInv` and `SourceInv`:
  what the arpeggio was made of agrees with `arpType`, except where it is about
  to be made again.
* `ArpeggioMadeOfKeys` (`ArpeggioOfKeys`), by `KeysInv`: the slots hold the keys
  that are down, each in one, with its time (`SlotsInv`); between filling and
  measuring they lie in `arpeggio[]` by rank (`SortedInv`, which rests on the rank
  being a bijection of the filled slots onto the first ones); and what was
  measured is the keys that were down then (`LatchedInv`).

### Groovebox

For any number of voices, tracks and positions, any clock and any word, under
`GrooveboxAssumption`. `TypeInv`, `OwnInv` and `TimedInv` were
checked with TLC on `GrooveTracks` before the proofs.

* `GrooveboxTypes` (`TypeOK`). Strengthening: a slot that is not empty names a key
  of its kind (`Keyed`), or the drum pitch of a played slot would be undefined;
  while the ISR is at a track the sequence runs, and a note on that has begun keeps
  it out by `seqLock`. A voice that sounds for a track and is not torn (`Live`) has
  that track as its trigger and a phase that is not OFF (`Bound`), which is what the
  three theorems below need of voices.
* `TracksOwnTheirVoices` (`TrackOwnsItsVoice`), by `OwnInv`: a voice that sounds for
  a track is the `noteIndex` of the slot the track is at, and between the two steps
  of a note on none sounds for the track that is played, since the position is about
  to move to another slot. Every way to move a track's position, to write
  a `noteIndex` and to choose a voice must keep this. Of the eleven steps the main thread
  takes without `seqLock`, one lemma (`VoiceStep`) says all that is needed: they only
  quiet voices or tear them, no `Live` voice is made by them, and no `Live` one loses its
  trigger or its phase.
* `StopsAreSilent` (`StopsEverything`), an action property, from `OwnInv`:
  `stopSequencer` looks for voices through the tracks, and finds all only because
  each is where its track says.
* `NotesEndOnTime` (`HeldOrTimed`), by `TimedInv`. The property speaks of the moments
  between calls; the invariant adds that the key of a note on that has begun is
  still down, that a turn of the knob underway found no key down (where `plain`), that
  only the current track out of preview waits for a key, and that at a boundary, when
  the ISR is between two tracks, no note has reached its length any more: the head that
  comes to a slot finds the notes of the pulse already ended.

### MidiInput

For any buffers, any real-time bytes and any messages that keep to the standard
(`WellFormed`: a status byte, as many data bytes as its type has, a system
exclusive message of any length), under `InputAssumption`. The assumption leaves
running status to messages of three bytes (`RunningLengths`), for the parser
does not follow the others; see the findings.

* `MidiInputTypes` (`TypeOK`) and `RealTimeIsAlwaysHeard` (`RealTimeAlwaysHeard`),
  from `TypeInv`; the second needs nothing of how the parser got where it is.
* `DeliveredAsItWasSent` (`DeliveredAsSent`), by `StepInv`. The property is about the
  next byte only, which says nothing of the bytes behind it, so the invariant has to
  speak of all bytes on their way: there are states of the sender, one before and
  one after each byte (`Leads`), such that the parser is in `Sync` with the first,
  the sender is in the last (if nothing was lost since), and each byte takes every parser in `Sync` with the
  state before it to one in `Sync` with the state after it, delivering what
  the trail says (`Follows`); where bytes were lost before it (`gap`) this
  is promised only of a status byte to an idle parser (`Resumes`). That every
  kind of byte does so is `StatusFollows`, `RunningFollows`, `DataFollows`,
  `EndResumes` and `RealTimeFollows`, and that a delivered message is what the
  standard means is `MessageMeans`; losing a byte is `LeadsWithout`. `TypeInv`
  was checked with TLC; `StepInv`, which quantifies over sequences of states,
  is beyond it.
* `UsbAlwaysAgrees` (`UsbAgrees`), if `N_MIDI_CHANNELS` divides 16, as the
  firmware's 4 (`synthino_xm.h:58`) and the run's do. Without it the statement is
  false: the USB parser hands on channel 16 as 0, and the two fold differently.

### Only model-checked

All liveness, since the prover has neither fairness nor `ENABLED`: `CallReturns`,
`ReleasedVoiceEnds`, `ReleaseEnds`, `PulseReturns`. Every other property of a passing
run is proved. What the functions that flatten lists by recursion compute
(`PatchStore`'s fields) is evaluated by TLC on the instance.

## 5. Not modelled, and the plan

Left out for good: LUFA and the Arduino core, register set-up, debug output,
the factory test (`test.cpp`), table contents other than the envelope's. These,
with the sample tables, are nearly all of the repository's lines: the
firmware's own logic is about 4000 lines, five sample tables alone are 22000, and
the USB library most of the rest. A table of samples has no behaviour to model;
the third-party code is modelled only where the firmware's depends on its
control (the ring buffer, the MIDI parser, the USB packets).

Left out of `Synth`: the controllers and pots that only store a setting or
change a frequency (envelope times, filter, LFO, detune, bend), because the
settings they change are read as a free choice where they matter (`knob`,
`levels`, `fraction`); the LEDs. Left out of `Groovebox`: the metronome,
transposition, volume, and the sequence a patch brings with it. Left out of
`MidiInput`: the parser's output and thru, and its other configurations. Left out
of `PatchStore`: what conversions to and from float lose. LFO, filter and noise are
numeric functions without control: an error in them is heard, and tested, at once.

What remains worth doing, in this order:

1. `MidiClock`: `setBPM` and the clock follower (`midi.cpp:713-740`), whose counter
   wraps to the divisor 0; the two seconds of `checkReset` and the pots' tolerances.
2. The metronome in `Groovebox`, whose voice index outlives its note.
3. The level part of `processEnvelope` against the groovebox's interrupt, with
   `volumeScale`, in the manner of `VoiceRace`.
4. Proofs: whatever 1 to 3 add; the invariants of `MidiInput` with `SerialRing` in
   the place of `BoundedFifo`, which the refinement already gives for the ring alone.

-------------------------------- MODULE Synth --------------------------------
(***************************************************************************)
(* MODE_SYNTH: the main loop of synthino_xm.cpp with the MIDI handlers and *)
(* the button polling it calls, against the audio ISR, which preempts it   *)
(* anywhere.                                                               *)
(*                                                                         *)
(* One pass of loop() is read, select, poll, pots, service (variable `pc').*)
(* A handler is one step, except where the code busy-waits for the audio   *)
(* ISR: there the call is suspended in `call' and resumed by a Finish      *)
(* action.  While a call is suspended the main loop does nothing else, and *)
(* the audio ISR, the clock and the player's fingers go on.  An audio ISR  *)
(* inside a step is an AudioISR before or after it, save where it ends a   *)
(* sample between two writes of the step: `cut' stands for that.           *)
(***************************************************************************)
EXTENDS Voices

CONSTANTS
  WireChannel,    \* MIDI channels the player's equipment sends on
  ButtonPitch,    \* note of each button after reset()
  Waveform,       \* kinds of waveform the player selects
  PreviewLeft,    \* what MODE_GROOVEBOX may have left in seqPreview
  MaxTime         \* bound on millis(): voices started later tie in age

DRUM_CHANNEL == 10

ASSUME SynthAssumption ==
  /\ WireChannel \subseteq 1 .. 16
  /\ ButtonPitch \in [Button -> Pitch]
  /\ Waveform \subseteq Buf
  /\ PreviewLeft \subseteq BOOLEAN
  /\ MaxTime \in Nat

VARIABLES
  note,       \* note[], shared with the audio ISR
  button,     \* button[], buttonState[] and the pins they are read from
  waveform,   \* settings[c-1].waveform, as the kind of buffer it selects
  selected,   \* selectedSettings + 1
  pc,         \* stage of loop() the main thread is in
  idx,        \* index of the for loop of that stage
  call,       \* the suspended call, or NoCall
  seqPreview, \* as a stay in MODE_GROOVEBOX left it: reset() keeps it
  now,        \* millis()
  down        \* ghost: the MIDI keys whose last message was a note on

vars == <<note, button, waveform, selected, pc, idx, call, seqPreview, now, down>>
loop == <<pc, idx>>

\* button_t, with buttonState[i] = LOW as `pressed'
ButtonT == [pin : BOOLEAN, pressed : BOOLEAN, midiVal : Pitch,
            noteIndex : {UNSET} \cup Voice]

NoCall   == [op |-> "none"]
OnCall   == [op : {"on"}, at : Voice, waits : BOOLEAN, channelNum : Channel,
             midiNote : Pitch, drum : BOOLEAN, button : {UNSET} \cup Button]
\* channelNum is 0 for reset(), which stops every voice
StopCall == [op : {"stop"}, at : Voice, channelNum : {0} \cup Channel]

Stage == {"read", "select", "poll", "pots", "service"}

\* Keys of the outside world; channel 0 stands for the drum channel.
Key == ({0} \cup Channel) \X Pitch

KeyOf(n) == IF n.drum = UNSET THEN <<n.midiChannel, n.midiVal>>
            ELSE <<0, n.drum>>

TypeOK ==
  /\ note \in [Voice -> NoteT]
  /\ button \in [Button -> ButtonT]
  /\ waveform \in [Channel -> Buf]
  /\ selected \in Channel
  /\ pc \in Stage
  /\ idx \in Nat
  /\ call \in {NoCall} \cup OnCall \cup StopCall
  /\ call.op = "on" /\ call.drum => call.midiNote \in DrumKey
  /\ seqPreview \in BOOLEAN
  /\ now \in Nat
  /\ down \subseteq Key

\* noteIndex is 0 at power-up, button[] being a zeroed global
Init ==
  /\ note = [v \in Voice |-> SilentNote]
  /\ button = [b \in Button |-> [pin |-> FALSE, pressed |-> FALSE,
                                 midiVal |-> ButtonPitch[b], noteIndex |-> 0]]
  /\ waveform \in [Channel -> Waveform]
  /\ selected \in Channel
  /\ pc = "read" /\ idx = 0
  /\ call = NoCall
  /\ seqPreview \in PreviewLeft
  /\ now = 0
  /\ down = {}

At(stage) == pc = stage /\ call = NoCall

\* the next stage of loop(), or the next turn of the stage's for loop
GoTo(stage) == pc' = stage /\ idx' = 0
Advance(bound, stage) == IF idx + 1 < bound THEN idx' = idx + 1 /\ UNCHANGED pc
                                            ELSE GoTo(stage)
-----------------------------------------------------------------------------
(* doNoteOn() up to the end of findNoteIndex()'s search, and the rest *)

BeginNoteOn(channelNum, midiNote, drum, b) ==
  LET v     == FindNoteIndex(note, now)
      stops == StopsVoice(note, now)
  IN  /\ note' = IF stops
                 THEN [note EXCEPT ![v].midiVal = NOTE_PENDING_OFF] ELSE note
      /\ call' = [op |-> "on", at |-> v,
                  waits |-> stops \/ FreeVoices(note) # {},
                  channelNum |-> channelNum, midiNote |-> midiNote,
                  drum |-> drum, button |-> b]

FinishNoteOn ==
  /\ call.op = "on"
  /\ call.waits => Waited(note[call.at])
  /\ \E levels \in 0 .. MaxSteps, cut \in BOOLEAN :
       LET started == DoNoteOn(note[call.at], call.channelNum, call.midiNote,
                               waveform[call.channelNum], now, levels, cut)
           drummed == IF call.drum THEN SetDrumParameters(started, call.midiNote)
                      ELSE started
           owned   == IF call.button = UNSET THEN drummed
                      ELSE [drummed EXCEPT !.trigger = call.button]
       IN  note' = [note EXCEPT ![call.at] = owned]
  /\ button' = IF call.button = UNSET THEN button
               ELSE [button EXCEPT ![call.button].noteIndex = call.at]
  /\ call' = NoCall
  /\ UNCHANGED <<waveform, selected, loop, now, down, seqPreview>>

\* the loops of doNoteOff() and doDrumNoteOff()
ReleaseNotes(notes, matches) ==
  \E levels \in [Voice -> 0 .. MaxSteps], cut \in SUBSET matches :
    note' = [v \in Voice |-> IF v \in matches
                             THEN ReleaseNote(notes[v], levels[v], v \in cut)
                             ELSE notes[v]]

DoNoteOff(notes, channelNum, midiNote) ==
  ReleaseNotes(notes, {v \in Voice : /\ notes[v].midiVal = midiNote
                                     /\ notes[v].midiChannel = channelNum})

DoDrumNoteOff(midiNote) ==
  ReleaseNotes(note, {v \in Voice : note[v].drum = midiNote /\ Sounding(note[v])})

\* setWaveform()'s loop.  While seqPreview is set it changes preview notes
\* only, and in this mode no note is one.
Retarget(matches, buf) ==
  \E cut \in SUBSET matches :
    note' = [v \in Voice |-> IF v \in matches /\ ~seqPreview
                             THEN ChangeBuf(note[v], buf, v \in cut) ELSE note[v]]

\* wrong variant: the channel is compared under the 0x7F mask
SetWaveformMasked(c, buf) ==
  /\ waveform' = [waveform EXCEPT ![c] = buf]
  /\ Retarget({v \in Voice : note[v].midiChannel = c}, buf)

SetWaveform(c, buf) ==
  /\ waveform' = [waveform EXCEPT ![c] = buf]
  /\ Retarget({v \in Voice : note[v].midiChannel = c /\ note[v].drum = UNSET}, buf)
-----------------------------------------------------------------------------
(* Stage "read": MIDI.read() and USBMIDI.read() dispatch to the handlers.  *)
(* A note on with velocity 0 is a note off; notes outside Pitch, and keys  *)
(* outside DrumKey on the drum channel, are ignored by both.               *)

LogicalChannel(c) == IF c % N_MIDI_CHANNELS = 0 THEN N_MIDI_CHANNELS
                     ELSE c % N_MIDI_CHANNELS

HandleNoteOn(c, midiNote) ==
  LET drum == c = DRUM_CHANNEL IN
  /\ At("read")
  /\ drum => midiNote \in DrumKey
  /\ BeginNoteOn(LogicalChannel(c), midiNote, drum, UNSET)
  /\ down' = down \cup {<<IF drum THEN 0 ELSE LogicalChannel(c), midiNote>>}
  /\ UNCHANGED <<button, waveform, selected, loop, now, seqPreview>>

HandleNoteOff(c, midiNote) ==
  /\ At("read")
  /\ IF c = DRUM_CHANNEL
     THEN DoDrumNoteOff(midiNote) /\ down' = down \ {<<0, midiNote>>}
     ELSE /\ DoNoteOff(note, LogicalChannel(c), midiNote)
          /\ down' = down \ {<<LogicalChannel(c), midiNote>>}
  /\ UNCHANGED <<button, waveform, selected, loop, call, now, seqPreview>>

\* handleProgramChange(), and control change SOUND_VARIATION
HandleProgramChange(c, buf) ==
  /\ At("read")
  /\ SetWaveform(LogicalChannel(c), buf)
  /\ UNCHANGED <<button, selected, loop, call, now, down, seqPreview>>

\* The loop over the voices that stopNote()s the ones of a channel, or all.
StopFrom(notes, first, c) ==
  LET targets == {v \in Voice : /\ v >= first
                                /\ c # 0 => /\ notes[v].midiChannel = c
                                            /\ Sounding(notes[v])}
      v == First(targets)
  IN  IF targets = {} THEN note' = notes /\ call' = NoCall
      ELSE /\ note' = [notes EXCEPT ![v].midiVal = NOTE_PENDING_OFF]
           /\ call' = [op |-> "stop", at |-> v, channelNum |-> c]

\* handleControlChange(), ALL_NOTES_OFF
AllNotesOff(c) ==
  /\ At("read")
  /\ StopFrom(note, 0, LogicalChannel(c))
  /\ UNCHANGED <<button, waveform, selected, loop, now, down, seqPreview>>

\* handleSystemReset(), and the two second press of checkReset()
BeginReset ==
  /\ At("read")
  /\ StopFrom(note, 0, 0)
  /\ UNCHANGED <<button, waveform, selected, loop, now, down, seqPreview>>

StopDone == call.op = "stop" /\ Waited(note[call.at])
LastStop == call.channelNum = 0 /\ call.at = MAX_NOTES - 1

ContinueStop ==
  /\ StopDone /\ ~LastStop
  /\ StopFrom([note EXCEPT ![call.at].envelopePhase = "OFF"],
              call.at + 1, call.channelNum)
  /\ UNCHANGED <<button, waveform, selected, loop, now, down, seqPreview>>

\* the rest of reset(): settings come from the pots or from a patch; the
\* noteIndex of the buttons is not reset
FinishReset ==
  /\ StopDone /\ LastStop
  /\ note' = [v \in Voice |-> SilentNote]
  /\ button' = [b \in Button |->
                  [button[b] EXCEPT !.pressed = FALSE,
                                    !.midiVal = ButtonPitch[b]]]
  /\ waveform' \in [Channel -> Waveform]
  /\ selected' \in Channel
  /\ call' = NoCall
  /\ UNCHANGED <<loop, now, down, seqPreview>>

ReadDone ==
  /\ At("read")
  /\ GoTo("select")
  /\ UNCHANGED <<note, button, waveform, selected, call, now, down, seqPreview>>
-----------------------------------------------------------------------------
(* Stage "select": the channel pot moves the held buttons' voices along *)

Owns(b, v) == button[b].noteIndex = v /\ note[v].trigger = b

\* the voices of the held buttons
ButtonVoices == {v \in Voice : \E b \in Button : Owns(b, v)}

\* wrong variants: the voice keeps its channel; the voice keeps its waveform
ChannelSelectKeepsChannel(c) ==
  /\ At("select")
  /\ c # selected
  /\ selected' = c
  /\ note' = [v \in Voice |-> IF v \in ButtonVoices
                             THEN ChangeBuf(note[v], waveform[c], FALSE) ELSE note[v]]
  /\ GoTo("poll")
  /\ UNCHANGED <<button, waveform, call, now, down, seqPreview>>

ChannelSelectKeepsBuf(c) ==
  /\ At("select")
  /\ c # selected
  /\ selected' = c
  /\ note' = [v \in Voice |-> IF v \in ButtonVoices
                             THEN [note[v] EXCEPT !.midiChannel = c,
                                                  !.drum = UNSET]
                             ELSE note[v]]
  /\ GoTo("poll")
  /\ UNCHANGED <<button, waveform, call, now, down, seqPreview>>

ChannelSelect(c) ==
  /\ At("select")
  /\ c # selected
  /\ selected' = c
  /\ \E cut \in SUBSET ButtonVoices :
       note' = [v \in Voice |->
                  IF v \in ButtonVoices
                  THEN [ChangeBuf(note[v], waveform[c], v \in cut) EXCEPT
                          !.midiChannel = c, !.drum = UNSET]
                  ELSE note[v]]
  /\ GoTo("poll")
  /\ UNCHANGED <<button, waveform, call, now, down, seqPreview>>

ChannelKept ==
  /\ At("select")
  /\ GoTo("poll")
  /\ UNCHANGED <<note, button, waveform, selected, call, now, down, seqPreview>>

(* Stage "poll": readSynthButtons(), one button per step *)

Polls(b) == At("poll") /\ idx = b /\ Advance(N_NOTE_BUTTONS, "pots")

NewPress(b) == button[b].pin /\ ~button[b].pressed

ButtonOn(b) ==
  /\ Polls(b)
  /\ NewPress(b)
  /\ button' = [button EXCEPT ![b].pressed = TRUE]
  /\ BeginNoteOn(selected, button[b].midiVal, FALSE, b)
  /\ UNCHANGED <<waveform, selected, now, down, seqPreview>>

HasVoice(b) == LET v == button[b].noteIndex
               IN  v # UNSET /\ Sounding(note[v]) /\ note[v].trigger = b

\* no new press and no voice: buttonState follows the pin
ButtonIdle(b) ==
  /\ Polls(b)
  /\ ~NewPress(b) /\ ~HasVoice(b)
  /\ button' = [button EXCEPT ![b].pressed = button[b].pin]
  /\ UNCHANGED <<note, waveform, selected, call, now, down, seqPreview>>

\* wrong variant: the pitch pot bends the button's note and not the voice's
ButtonHeldBendsButton(b) ==
  /\ Polls(b)
  /\ ~NewPress(b) /\ HasVoice(b) /\ button[b].pin
  /\ \E p \in Pitch : button' = [button EXCEPT ![b].midiVal = p]
  /\ UNCHANGED <<note, waveform, selected, call, now, down, seqPreview>>

\* A button with a voice has its pin read twice, by buttonPressedNew() and by
\* buttonHeld(); `again' is the second reading.  The pitch pot bends the note
\* of a held button; a sample that ends after midiVal was tested gets it anew.
ButtonHeld(b) ==
  /\ Polls(b)
  /\ ~NewPress(b) /\ HasVoice(b) /\ button[b].pin
  /\ \E p \in Pitch, boundary \in BOOLEAN :
       /\ button' = [button EXCEPT ![b].midiVal = p]
       /\ note' = [note EXCEPT ![button[b].noteIndex] =
                     [AudioStep(@, boundary) EXCEPT !.midiVal = p]]
  /\ UNCHANGED <<waveform, selected, call, now, down, seqPreview>>

ButtonOff(b, again) ==
  LET v == button[b].noteIndex IN
  /\ Polls(b)
  /\ ~NewPress(b) /\ HasVoice(b)
  /\ ~(button[b].pin /\ again)
  /\ IF note[v].envelopePhase # "RELEASE"
     THEN /\ DoNoteOff([note EXCEPT ![v].trigger = UNSET],
                       selected, button[b].midiVal)
          /\ button' = [button EXCEPT ![b].pin = again,
                                      ![b].pressed = button[b].pin,
                                      ![b].noteIndex = UNSET]
     ELSE /\ button' = [button EXCEPT ![b].pin = again,
                                      ![b].pressed = button[b].pin]
          /\ UNCHANGED note
  /\ UNCHANGED <<waveform, selected, call, now, down, seqPreview>>

(* Stage "pots": the waveform knob; the other knobs change no voice *)

WaveformKnob(buf) ==
  /\ At("pots")
  /\ SetWaveform(selected, buf)
  /\ GoTo("service")
  /\ UNCHANGED <<button, selected, call, now, down, seqPreview>>

PotsDone ==
  /\ At("pots")
  /\ GoTo("service")
  /\ UNCHANGED <<note, button, waveform, selected, call, now, down, seqPreview>>

(* Stage "service": envelope and frequency of every sounding voice *)

Service(v, elapsed) ==
  /\ At("service") /\ idx = v
  /\ IF Sounding(note[v])
     THEN \E knob \in Knob, fraction \in BOOLEAN, levels \in 0 .. MaxSteps :
            note' = [note EXCEPT ![v] =
                       SetPhaseIncrement(
                         ProcessEnvelope(note[v], elapsed, knob, levels),
                         note[v].midiVal, fraction)]
     ELSE UNCHANGED note
  /\ Advance(MAX_NOTES, "read")
  /\ UNCHANGED <<button, waveform, selected, call, now, down, seqPreview>>
-----------------------------------------------------------------------------
(* Around the main loop *)

\* ISR(TCC0_OVF_vect): one output sample; `boundary' are the voices whose
\* phase passes the end of its waveform or sample
AudioISR(boundary) ==
  /\ note' = [v \in Voice |-> AudioStep(note[v], v \in boundary)]
  /\ UNCHANGED <<button, waveform, selected, loop, call, now, down, seqPreview>>

\* the player's fingers on the panel
PinChange(b) ==
  /\ button' = [button EXCEPT ![b].pin = ~@]
  /\ UNCHANGED <<note, waveform, selected, loop, call, now, down, seqPreview>>

Millis ==
  /\ now < MaxTime
  /\ now' = now + 1
  /\ UNCHANGED <<note, button, waveform, selected, loop, call, down, seqPreview>>

\* what the player does to the MIDI input and to the panel
Input ==
  \/ \E c \in WireChannel, p \in Pitch : HandleNoteOn(c, p)
  \/ \E c \in WireChannel, p \in Pitch : HandleNoteOff(c, p)
  \/ \E c \in WireChannel, buf \in Waveform : HandleProgramChange(c, buf)
  \/ \E c \in WireChannel : AllNotesOff(c)
  \/ BeginReset
  \/ \E c \in Channel : ChannelSelect(c)
  \/ \E buf \in Waveform : WaveformKnob(buf)
  \/ \E b \in Button : PinChange(b)

\* the steps loop() takes whatever the input
Main ==
  \/ FinishNoteOn
  \/ ContinueStop
  \/ FinishReset
  \/ ReadDone
  \/ ChannelKept
  \/ \E b \in Button : ButtonOn(b) \/ ButtonIdle(b) \/ ButtonHeld(b)
  \/ \E b \in Button, again \in BOOLEAN : ButtonOff(b, again)
  \/ PotsDone
  \/ \E v \in Voice, elapsed \in BOOLEAN : Service(v, elapsed)

Next ==
  \/ Input
  \/ Main
  \/ \E boundary \in SUBSET Voice : AudioISR(boundary)
  \/ Millis

Spec == Init /\ [][Next]_vars

\* The scheduling the hardware gives: loop() keeps running; the audio timer
\* keeps interrupting, so a moving phase passes its boundary; it also counts
\* volLevelRemaining down, so a voice that is serviced again and again is
\* again and again serviced with its level time elapsed.
Fairness ==
  /\ WF_vars(Main)
  /\ \A v \in Voice :
       /\ WF_vars(\E boundary \in SUBSET Voice : v \in boundary /\ AudioISR(boundary))
       /\ SF_vars(Service(v, TRUE))

FairSpec == Spec /\ Fairness
-----------------------------------------------------------------------------
(* Properties *)

\* No hanging notes: a sounding voice that was not released belongs to a MIDI key
\* whose last message was a note on, or to the button that triggered it, still
\* down as far as the firmware has polled.  Every path that retargets a voice
\* (channel select, pitch pot, stealing, drum mapping, reset) must keep what
\* doNoteOff() matches on in step with what the player holds.
NoHangingNotes ==
  \A v \in Voice : Unreleased(note[v]) =>
    LET b == note[v].trigger IN
    IF b = UNSET THEN KeyOf(note[v]) \in down
    ELSE button[b].pressed /\ button[b].noteIndex = v

\* The voice a button owns is the one readSynthButtons() will release: it is on
\* the selected channel, at the button's note, and is no drum voice.
ButtonVoiceInStep ==
  \A b \in Button, v \in Voice : Owns(b, v) =>
    /\ note[v].midiChannel = selected
    /\ note[v].drum = UNSET
    /\ Sounding(note[v]) => note[v].midiVal = button[b].midiVal

\* releaseNote() indexes settings[] with the unmasked midiChannel when the
\* voice is no sample, so a voice with the drum bit must stay a sample.
DrumVoicesAreSamples ==
  \A v \in Voice : note[v].drum # UNSET => IsSample(note[v])

\* Every melodic voice plays the waveform its channel is set to, whatever the
\* order of program changes, channel selects and note ons.  Not so after a reset
\* out of MODE_GROOVEBOX with its preview on: the test of seqPreview in
\* setWaveform() then keeps the voices that sound on their old waveforms.
WaveformFollowsChannel ==
  ~seqPreview =>
    \A v \in Voice :
      LET c == note[v].midiChannel IN
      c # 0 /\ note[v].drum = UNSET => note[v].buf = waveform[c]

\* midiVal and envelopePhase are written by both threads, not in one piece.  A
\* voice sounds in phase OFF only as the sample of a pressed button, whose pitch
\* pot revived it.  One that does not sound is at OFF, or waited for, or was cut
\* inside a call and rests at NOTE_OFF, in the phase the call went on to write.
\* The voice a note on waits for is not revived before it.
VoiceLifecycle ==
  \A v \in Voice :
    /\ Sounding(note[v]) /\ note[v].envelopePhase = "OFF" =>
         \E b \in Button : Owns(b, v) /\ button[b].pressed
    /\ ~Sounding(note[v]) =>
         \/ note[v].envelopePhase = "OFF"
         \/ call # NoCall /\ call.at = v
         \/ note[v].midiVal = NOTE_OFF /\ note[v].envelopePhase \in {"ATTACK", "RELEASE"}
    /\ call.op = "on" /\ call.at = v /\ call.waits => ~Sounding(note[v])

Restarts(v) == call.op = "on" /\ call.at = v /\ call' = NoCall

\* A voice whose phase advances by whole samples has been taken to NOTE_OFF,
\* at the end of its waveform, before initNote() reuses it.
RestartedAtBoundary ==
  [][\A v \in Voice : Restarts(v) => \/ note[v].midiVal = NOTE_OFF
                                     \/ ~note[v].phaseInc]_vars

\* A note is cut short for a new one only when every voice is sounding; then a
\* released waveform voice goes before a held one, the oldest of its class
\* goes first, and a sample only goes when all are samples.
StealsInOrder ==
  [][call = NoCall /\ call'.op = "on" /\ Sounding(note[call'.at]) =>
       LET v       == call'.at
           older(w) == note[w].startTime < note[v].startTime
           released == ReleasedVoices(note, now)
       IN  /\ \A w \in Voice : Sounding(note[w])
           /\ IsSample(note[v]) => \A w \in Voice : IsSample(note[w])
           /\ released # {} => v \in released
           /\ \A w \in Voice : older(w) =>
                \/ IsSample(note[w]) /\ ~IsSample(note[v])
                \/ v \in released /\ w \notin released]_vars

\* A busy-wait ends: neither the main loop nor a voice can be stuck in it.
CallReturns == call # NoCall ~> call = NoCall

Ending(n) == /\ Sounding(n) /\ n.envelopePhase = "RELEASE"
             /\ n.fades \/ IsSample(n)

\* Once the player leaves the instrument alone, every released note comes to
\* its end: the fade, or the sample, finishes, or a note already asked for
\* takes the voice.  Not so a voice released as a sample and then retargeted to
\* a waveform: its target is not silence, and if its level time is 0,
\* processEnvelope() sets volIndex to 0 again and again and never meets it.
ReleasedVoiceEnds ==
  <>[][~Input]_vars => \A v \in Voice : Ending(note[v]) ~> ~Ending(note[v])
=============================================================================

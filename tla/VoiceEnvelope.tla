--------------------------- MODULE VoiceEnvelope ---------------------------
(***************************************************************************)
(* The envelope of one voice as Synth.tla sees it: the operators of Voices *)
(* applied to what they keep of the envelope, in any order the callers may *)
(* choose.  Envelope.tla, which has the levels and the tables, implements  *)
(* this specification: that is what makes the abstraction of Voices sound. *)
(***************************************************************************)
EXTENDS Voices

VARIABLE view   \* the fields of note_t that the envelope is about

Played == CHOOSE p \in Pitch : TRUE

\* a voice with this view, in motion; and the view of a voice
Full(w) == [SilentNote EXCEPT !.midiVal = w.midiVal, !.buf = w.buf,
                              !.envelopePhase = w.envelopePhase,
                              !.steps = w.steps, !.fades = w.fades,
                              !.phaseInc = TRUE]
View(n) == [midiVal |-> n.midiVal, buf |-> n.buf, steps |-> n.steps,
            envelopePhase |-> n.envelopePhase, fades |-> n.fades]

Init == view = View(SilentNote)

\* `levels' only ever becomes the number of steps left, and `buf' the waveform:
\* the successor's are the values of them that can matter.  The audio ISR comes
\* between the calls.
Next ==
  LET n == Full(view)
      levels == view'.steps
      buf    == view'.buf
  IN  /\ levels \in 0 .. MaxSteps
      /\ buf \in Buf
      /\ \/ view' = View(DoNoteOn(n, 1, Played, buf, 0, levels, FALSE))
         \/ /\ Sounding(n)
            /\ \/ view' = View(ReleaseNote(n, levels, FALSE))
               \/ \E knob \in Knob :
                    view' = View(ProcessEnvelope(n, TRUE, knob, levels))
         \/ Sounding(n) /\ view' = View([n EXCEPT !.midiVal = NOTE_PENDING_OFF])
         \/ /\ n.midiVal = NOTE_OFF
            /\ view' = View([n EXCEPT !.envelopePhase = "OFF"])
         \/ view' = View(ChangeBuf(n, buf, FALSE))
         \/ \E boundary \in BOOLEAN : view' = View(AudioStep(n, boundary))

Spec == Init /\ [][Next]_view
=============================================================================

------------------------------- MODULE MCSynth -------------------------------
(* Model values of Synth for TLC. *)
EXTENDS Synth

\* note 24 advances by less than one waveform sample per interrupt, 60 by more
MCPitch       == {24, 60}
MCOnePitch    == {60}
MCDrumKey     == {60}
\* the drum key plays at the lowest pitch, so at another one if there are two
MCDrumPitch   == [k \in DrumKey |-> CHOOSE p \in Pitch : \A q \in Pitch : p <= q]
MCSlow        == {<<"wave", 24>>, <<"sample", 24>>}
MCButtonPitch == [b \in Button |-> 60]

MCWireMelodic == {1}
MCWireDrumOnly == {10}
MCWireDrums   == {2, 10}   \* 10 is the drum channel and shares settings with 2

MCPreview     == BOOLEAN   \* with and without a stay in MODE_GROOVEBOX
MCNoPreview   == {FALSE}

MCWave        == {"wave"}
MCWaveSample  == {"wave", "sample"}
MCAnyWaveform == {"wave", "noise", "sample"}
=============================================================================

----------------------------- MODULE MCGroovebox -----------------------------
(* Model values of Groovebox for TLC. *)
EXTENDS Groovebox

MCKey       == {60}
MCWaves     == {FALSE}
MCDrumKey   == {36}
MCDrumPitch == [k \in DrumKey |-> 60]
MCControl   == {"keys", "midi", "start", "clear", "preview", "track", "reset"}
MCKnobAt    == {0}

\* start, a key, the track knob and a key, or start, a key and anything else
MCCost      == [c \in Control |-> IF c = "track" THEN 1
                                 ELSE IF c \in {"start", "keys"} THEN 2 ELSE 3]
=============================================================================

-------------------------------- MODULE MCMidi --------------------------------
(* Model values of MidiInput for TLC. *)
EXTENDS MidiInput

\* note on on channel 10, program change on 16, song position, and a system
\* exclusive message
MCMessages == {<<153, 1, 2>>, <<207, 1>>, <<242, 1, 2>>, <<240, 1, 247>>}
MCRealTime == {248}
MCByte     == UNION {{m[i] : i \in DOMAIN m} : m \in MCMessages} \cup MCRealTime
MCNoByte   == -1
MCLong     == {3}
=============================================================================

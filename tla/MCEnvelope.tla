----------------------------- MODULE MCEnvelope -----------------------------
(* Model values of Envelope for TLC. *)
EXTENDS Envelope

MCVelocity  == {127}          \* the loudest
MCSustain   == {500, 1000}    \* a decay, and the branch without one
MCLevelTime == {0, 1}
MCJunk      == {255}          \* the index furthest out, read again and again

MCAnyBuf    == {"wave", "noise", "sample"}
=============================================================================

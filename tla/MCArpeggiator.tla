---------------------------- MODULE MCArpeggiator ----------------------------
(* Model values of Arpeggiator for TLC. *)
EXTENDS Arpeggiator

MCOneNote   == <<<<0>>>>                \* one chord type of one note
MCChords    == <<<<0, 7>>, <<0>>>>      \* two chord types of different length
MCKey       == {30, 60, 100}
MCNoKey     == {}
MCOneRoot   == {96}
MCNoRoot    == {}
MCTiming    == {"start", "length", "division", "pattern", "reset"}
MCKeys      == {"keys", "type", "root", "pattern"}
=============================================================================

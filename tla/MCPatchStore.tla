----------------------------- MODULE MCPatchStore -----------------------------
(* Model values of PatchStore for TLC. *)
EXTENDS PatchStore

\* 0xfed4: torn from 0 or from the blank 0xffff it leaves 0x00d4 or 0xffd4
MCTuning == {-300}
=============================================================================

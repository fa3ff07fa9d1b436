------------------------- MODULE MCJsonlTranscript -------------------------
(***************************************************************************)
(* JsonlTranscript for TLC: short files, failing and torn writes.          *)
(***************************************************************************)
EXTENDS JsonlTranscript
=============================================================================

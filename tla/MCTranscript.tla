---------------------------- MODULE MCTranscript ----------------------------
(***************************************************************************)
(* Transcript for TLC: a few messages, compactions and failing writes.     *)
(***************************************************************************)
EXTENDS Transcript
=============================================================================

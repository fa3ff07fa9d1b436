----------------------------- MODULE MCBindings -----------------------------
(***************************************************************************)
(* Bindings for TLC: a few callers of one pair and a file that changes.    *)
(***************************************************************************)
EXTENDS Bindings
=============================================================================

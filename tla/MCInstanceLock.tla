-------------------------- MODULE MCInstanceLock --------------------------
(***************************************************************************)
(* Two daemons and two pids, and a tolerance of one second, which drift    *)
(* uses up: a pid may be used again inside and outside of it.              *)
(***************************************************************************)
EXTENDS InstanceLock, TLC

Interchangeable == Permutations(Daemons) \union Permutations(Pids)
=============================================================================

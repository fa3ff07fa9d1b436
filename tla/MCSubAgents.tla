---------------------------- MODULE MCSubAgents ----------------------------
(***************************************************************************)
(* SubAgents for TLC: two calls at a time and three names in a pool of one *)
(* member, so that a spawn finds idle, busy, stopped and crashed members.  *)
(* Callers and names are interchangeable, and no property is a liveness    *)
(* property.                                                               *)
(***************************************************************************)
EXTENDS SubAgents

Interchangeable == Permutations(Callers) \union Permutations(Members)
=============================================================================

--------------------------- MODULE MCSessionPool ---------------------------
(***************************************************************************)
(* SessionPool for TLC: two calls of every kind, on one id or on two.      *)
(***************************************************************************)
EXTENDS SessionPool
=============================================================================

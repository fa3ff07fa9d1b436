--------------------------- MODULE MCSessionTurns ---------------------------
(***************************************************************************)
(* SessionTurns for TLC: a few calls on one session, every mix of on_busy  *)
(* policies.                                                               *)
(***************************************************************************)
EXTENDS SessionTurns
=============================================================================

--------------------------- MODULE MCSessionLock ---------------------------
(* SessionLock for TLC: four calls over two session ids.                   *)
EXTENDS SessionLock
=============================================================================

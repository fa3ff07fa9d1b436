---------------------------- MODULE MCWatchers ----------------------------
(***************************************************************************)
(* One connection starts the turns, one subscribes and steers.  A queue    *)
(* of one frame makes every client that does not read at once a slow one.  *)
(***************************************************************************)
EXTENDS Watchers
=============================================================================

---------------------------- MODULE SessionMutex ----------------------------
(***************************************************************************)
(* What with_session_lock promises its callers (resume_session,            *)
(* delete_session and delete_sidechain_list): the critical sections of one *)
(* session id run one after the other, those of two ids are independent.   *)
(***************************************************************************)
CONSTANTS Ids, Ops
VARIABLES
  sid,    \* the id each critical section is for
  phase   \* "before", "inside" or "after" its critical section

Init == sid \in [Ops -> Ids] /\ phase = [p \in Ops |-> "before"]

Enter(p) ==
  /\ phase[p] = "before"
  /\ \A q \in Ops : sid[q] = sid[p] => phase[q] # "inside"
  /\ phase' = [phase EXCEPT ![p] = "inside"]
  /\ UNCHANGED sid

Leave(p) ==
  /\ phase[p] = "inside"
  /\ phase' = [phase EXCEPT ![p] = "after"]
  /\ UNCHANGED sid

Next == \E p \in Ops : Enter(p) \/ Leave(p)

Spec == Init /\ [][Next]_<<sid, phase>>
=============================================================================

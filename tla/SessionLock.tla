---------------------------- MODULE SessionLock ----------------------------
(***************************************************************************)
(* SessionPool::with_session_lock: run a future while holding the lock of  *)
(* one session id.  The lock of an id is an Arc<AsyncMutex<()>> kept in a  *)
(* registry (the field session_locks).  It is created by the first call    *)
(* that names the id and removed by the last one, which recognises itself  *)
(* by the strong count of the Arc.  The registry is guarded by a mutex of  *)
(* its own, so each visit to the registry is one atomic step; everything   *)
(* else interleaves.                                                       *)
(*                                                                         *)
(* An Arc is named by the call that created it: a call creates at most one.*)
(***************************************************************************)
EXTENDS Naturals, FiniteSets

CONSTANTS
  Ids,    \* session ids
  Ops,    \* calls of with_session_lock, each made once
  NoArc   \* the registry has no entry for the id; the call holds no Arc

ASSUME NoArcAssumption == NoArc \notin Ops

VARIABLES
  registry,  \* session_locks: [Ids -> Arc or NoArc]
  sid,       \* the session_id argument of each call
  arc,       \* the local `lock` of each call: its clone of the Arc
  owner,     \* owner[a]: the call whose guard holds the mutex in Arc a
  pc         \* where each call is

vars == <<registry, sid, arc, owner, pc>>

Stages == {"start", "waiting", "running", "unlocked", "dropped", "done"}

TypeOK ==
  /\ registry \in [Ids -> Ops \cup {NoArc}]
  /\ sid \in [Ops -> Ids]
  /\ arc \in [Ops -> Ops \cup {NoArc}]
  /\ owner \in [Ops -> Ops \cup {NoArc}]
  /\ pc \in [Ops -> Stages]

Init ==
  /\ registry = [i \in Ids |-> NoArc]
  /\ sid \in [Ops -> Ids]
  /\ arc = [p \in Ops |-> NoArc]
  /\ owner = [a \in Ops |-> NoArc]
  /\ pc = [p \in Ops |-> "start"]

(***************************************************************************)
(* locks.entry(id).or_insert_with(..).clone(), under the registry mutex.   *)
(***************************************************************************)
Lookup(p) ==
  /\ pc[p] = "start"
  /\ LET a == IF registry[sid[p]] = NoArc THEN p ELSE registry[sid[p]]
     IN  /\ registry' = [registry EXCEPT ![sid[p]] = a]
         /\ arc' = [arc EXCEPT ![p] = a]
  /\ pc' = [pc EXCEPT ![p] = "waiting"]
  /\ UNCHANGED <<sid, owner>>

(***************************************************************************)
(* let _guard = lock.lock().await                                          *)
(***************************************************************************)
Acquire(p) ==
  /\ pc[p] = "waiting"
  /\ owner[arc[p]] = NoArc
  /\ owner' = [owner EXCEPT ![arc[p]] = p]
  /\ pc' = [pc EXCEPT ![p] = "running"]
  /\ UNCHANGED <<registry, sid, arc>>

\* Mutant: the guard is leaked, the mutex stays locked.
ReleaseLeaksGuard(p) ==
  /\ pc[p] = "running"
  /\ pc' = [pc EXCEPT ![p] = "unlocked"]
  /\ UNCHANGED <<registry, sid, arc, owner>>

(***************************************************************************)
(* fut.await returns and the guard goes out of scope.                      *)
(***************************************************************************)
Release(p) ==
  /\ pc[p] = "running"
  /\ owner' = [owner EXCEPT ![arc[p]] = NoArc]
  /\ pc' = [pc EXCEPT ![p] = "unlocked"]
  /\ UNCHANGED <<registry, sid, arc>>

\* Mutant: drop(lock) forgotten, the clone lives to the end of the call.
DropCloneForgotten(p) ==
  /\ pc[p] = "unlocked"
  /\ pc' = [pc EXCEPT ![p] = "dropped"]
  /\ UNCHANGED <<registry, sid, arc, owner>>

(***************************************************************************)
(* drop(lock)                                                              *)
(***************************************************************************)
DropClone(p) ==
  /\ pc[p] = "unlocked"
  /\ arc' = [arc EXCEPT ![p] = NoArc]
  /\ pc' = [pc EXCEPT ![p] = "dropped"]
  /\ UNCHANGED <<registry, sid, owner>>

\* Mutant: the strong count is not looked at.
IgnoresStrongCount(a) == a = a

(***************************************************************************)
(* Arc::strong_count(entry) == 1: the registry's own reference is the only *)
(* one, that is, no call holds a clone.                                    *)
(***************************************************************************)
OnlyRegistryHolds(a) == \A q \in Ops : arc[q] # a

(***************************************************************************)
(* The second visit to the registry: remove the entry if it is unused.     *)
(***************************************************************************)
Cleanup(p) ==
  /\ pc[p] = "dropped"
  /\ registry' =
       IF registry[sid[p]] # NoArc /\ OnlyRegistryHolds(registry[sid[p]])
       THEN [registry EXCEPT ![sid[p]] = NoArc]
       ELSE registry
  /\ pc' = [pc EXCEPT ![p] = "done"]
  /\ UNCHANGED <<sid, arc, owner>>

Step(p) ==
  Lookup(p) \/ Acquire(p) \/ Release(p) \/ DropClone(p) \/ Cleanup(p)

AllDone == (\A p \in Ops : pc[p] = "done") /\ UNCHANGED vars

Next == (\E p \in Ops : Step(p)) \/ AllDone

(***************************************************************************)
(* Every call runs as a task of its own on the tokio runtime, which keeps  *)
(* polling a task that can make progress; the mutex wakes a waiter when it *)
(* is released.                                                            *)
(***************************************************************************)
Spec == Init /\ [][Next]_vars

FairSpec == Spec /\ \A p \in Ops : WF_vars(Step(p))

-----------------------------------------------------------------------------
(***************************************************************************)
(* Two calls for one session id never run their futures at the same time,  *)
(* although the Arc they lock may be removed from the registry and created *)
(* again between them: "whichever side gets here first now runs to         *)
(* completion before the other starts".                                    *)
(***************************************************************************)
Exclusion ==
  \A p, q \in Ops :
    pc[p] = "running" /\ pc[q] = "running" /\ sid[p] = sid[q] => p = q

(***************************************************************************)
(* The registry does not grow with the ids it has seen: an entry exists    *)
(* only while some call for that id has not yet made its cleanup visit.    *)
(***************************************************************************)
NoLeakedLock ==
  \A i \in Ids : registry[i] # NoArc =>
    \E p \in Ops : sid[p] = i /\ pc[p] \notin {"start", "done"}

(***************************************************************************)
(* Why it works: a call that holds a clone holds the Arc that the registry *)
(* has for its id, so no second Arc for that id can come into being; and   *)
(* the owner of a mutex is the running call whose clone it is.             *)
(***************************************************************************)
Holding == {"waiting", "running", "unlocked"}

ClonesAreRegistered ==
  \A p \in Ops :
    IF pc[p] \in Holding
    THEN arc[p] # NoArc /\ arc[p] = registry[sid[p]]
    ELSE arc[p] = NoArc

ArcsBelongToOneId ==
  \A i \in Ids : registry[i] # NoArc => sid[registry[i]] = i

OwnersRun ==
  /\ \A p \in Ops : pc[p] = "running" => owner[arc[p]] = p
  /\ \A a \in Ops : owner[a] # NoArc =>
       pc[owner[a]] = "running" /\ arc[owner[a]] = a

(***************************************************************************)
(* The inductive invariant: types, and the three facts above.              *)
(***************************************************************************)
LockInv == TypeOK /\ ClonesAreRegistered /\ ArcsBelongToOneId /\ OwnersRun

(***************************************************************************)
(* What callers rely on: an abstract mutex per session id.                 *)
(***************************************************************************)
Phase == [p \in Ops |->
  IF pc[p] \in {"start", "waiting"} THEN "before"
  ELSE IF pc[p] = "running" THEN "inside" ELSE "after"]

Abstract == INSTANCE SessionMutex WITH phase <- Phase

\* with_session_lock implements the abstract per-id mutex: a future starts
\* only while no other future for that id is running.
ImplementsMutex == Abstract!Spec

(***************************************************************************)
(* Every call that reached the registry gets to run its future.            *)
(***************************************************************************)
EveryCallRuns ==
  \A p \in Ops : (pc[p] = "waiting") ~> (pc[p] = "done")
=============================================================================

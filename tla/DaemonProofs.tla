---------------------------- MODULE DaemonProofs ----------------------------
(***************************************************************************)
(* Proofs about what the calls of a daemon share: the lock per session id, *)
(* for any set of session ids and any set of calls (SessionLock), the lock *)
(* it takes on its place when it starts (InstanceLock), and the bindings   *)
(* of a pair with their watch, for any number of callers and of changes    *)
(* (Bindings).                                                             *)
(***************************************************************************)
EXTENDS SessionLock, InstanceLock, Bindings, FiniteSetTheorems, TLAPS

(***************************************************************************)
(* LockInv holds initially.                                                *)
(***************************************************************************)
LEMMA LockInvInit == Init => LockInv
  BY NoArcAssumption
  DEF Init, LockInv, TypeOK, Stages, ClonesAreRegistered, ArcsBelongToOneId,
      OwnersRun, Holding

(***************************************************************************)
(* Every step of with_session_lock preserves LockInv.  The step that needs *)
(* the strong count is Cleanup: it removes the entry of an id only when no *)
(* call holds a clone, so ClonesAreRegistered survives.                    *)
(***************************************************************************)
LEMMA LockInvStep == LockInv /\ [Next]_vars => LockInv'
  <1> SUFFICES ASSUME LockInv, [Next]_vars PROVE LockInv'
    OBVIOUS
  <1> USE NoArcAssumption DEF LockInv
  <1>1. ASSUME NEW p \in Ops, Lookup(p) PROVE LockInv'
    <2>1. TypeOK'
      BY <1>1 DEF TypeOK, Lookup, Stages
    <2>2. ClonesAreRegistered' /\ ArcsBelongToOneId'
      BY <1>1 DEF TypeOK, Lookup, ClonesAreRegistered, ArcsBelongToOneId, Holding
    <2>3. OwnersRun'
      BY <1>1 DEF TypeOK, Lookup, OwnersRun, ClonesAreRegistered, Holding
    <2> QED BY <2>1, <2>2, <2>3
  <1>2. ASSUME NEW p \in Ops, Acquire(p) PROVE LockInv'
    <2>1. TypeOK'
      BY <1>2 DEF TypeOK, Acquire, Stages
    <2>2. ClonesAreRegistered' /\ ArcsBelongToOneId'
      BY <1>2 DEF TypeOK, Acquire, ClonesAreRegistered, ArcsBelongToOneId, Holding
    <2>3. OwnersRun'
      BY <1>2 DEF TypeOK, Acquire, OwnersRun, ClonesAreRegistered, Holding
    <2> QED BY <2>1, <2>2, <2>3
  <1>3. ASSUME NEW p \in Ops, Release(p) PROVE LockInv'
    <2>1. TypeOK'
      BY <1>3 DEF TypeOK, Release, Stages
    <2>2. ClonesAreRegistered' /\ ArcsBelongToOneId'
      BY <1>3 DEF TypeOK, Release, ClonesAreRegistered, ArcsBelongToOneId, Holding
    <2>3. OwnersRun'
      BY <1>3 DEF TypeOK, Release, OwnersRun, ClonesAreRegistered, Holding
    <2> QED BY <2>1, <2>2, <2>3
  <1>4. ASSUME NEW p \in Ops, DropClone(p) PROVE LockInv'
    <2>1. TypeOK'
      BY <1>4 DEF TypeOK, DropClone, Stages
    <2>2. ClonesAreRegistered' /\ ArcsBelongToOneId'
      BY <1>4 DEF TypeOK, DropClone, ClonesAreRegistered, ArcsBelongToOneId, Holding
    <2>3. OwnersRun'
      BY <1>4 DEF TypeOK, DropClone, OwnersRun
    <2> QED BY <2>1, <2>2, <2>3
  <1>5. ASSUME NEW p \in Ops, Cleanup(p) PROVE LockInv'
    <2>1. TypeOK'
      BY <1>5 DEF TypeOK, Cleanup, Stages
    <2>2. ClonesAreRegistered' /\ ArcsBelongToOneId'
      BY <1>5 DEF TypeOK, Cleanup, OnlyRegistryHolds, ClonesAreRegistered,
                  ArcsBelongToOneId, Holding
    <2>3. OwnersRun'
      BY <1>5 DEF TypeOK, Cleanup, OwnersRun
    <2> QED BY <2>1, <2>2, <2>3
  <1>6. CASE UNCHANGED vars
    BY <1>6 DEF vars, TypeOK, ClonesAreRegistered, ArcsBelongToOneId, OwnersRun
  <1> QED
    BY <1>1, <1>2, <1>3, <1>4, <1>5, <1>6 DEF Next, Step, AllDone

(***************************************************************************)
(* Every reachable state of with_session_lock satisfies the inductive      *)
(* invariant, type correctness included.                                   *)
(***************************************************************************)
THEOREM LockInvariant == Spec => []LockInv
  BY LockInvInit, LockInvStep, PTL DEF Spec

(***************************************************************************)
(* Two calls for one id never run their futures at the same time.          *)
(***************************************************************************)
THEOREM MutualExclusion == Spec => []Exclusion
  <1>1. LockInv => Exclusion
    BY DEF LockInv, TypeOK, ClonesAreRegistered, OwnersRun, Exclusion, Holding
  <1> QED BY <1>1, LockInvariant, PTL

(***************************************************************************)
(* An entry of the registry belongs to a call that is still to visit it.   *)
(***************************************************************************)
THEOREM RegistryIsCleaned == Spec => []NoLeakedLock
  <1>1. Init => NoLeakedLock
    BY DEF Init, NoLeakedLock
  <1>2. LockInv /\ NoLeakedLock /\ [Next]_vars => NoLeakedLock'
    <2> SUFFICES ASSUME LockInv, NoLeakedLock, [Next]_vars
                 PROVE  NoLeakedLock'
      OBVIOUS
    <2> USE NoArcAssumption
    <2>1. ASSUME NEW p \in Ops, Lookup(p) PROVE NoLeakedLock'
      BY <2>1 DEF LockInv, TypeOK, Lookup, NoLeakedLock
    <2>2. ASSUME NEW p \in Ops, Acquire(p) \/ Release(p) \/ DropClone(p)
          PROVE  NoLeakedLock'
      BY <2>2 DEF LockInv, TypeOK, Acquire, Release, DropClone, NoLeakedLock
    <2>3. ASSUME NEW p \in Ops, Cleanup(p) PROVE NoLeakedLock'
      <3> SUFFICES ASSUME NEW i \in Ids, registry'[i] # NoArc
                   PROVE  \E q \in Ops : sid'[q] = i /\ pc'[q] \notin {"start", "done"}
        BY DEF NoLeakedLock
      <3>1. CASE i # sid[p]
        BY <3>1, <2>3 DEF LockInv, TypeOK, Cleanup, NoLeakedLock
      <3>2. CASE i = sid[p]
        <4>1. PICK q \in Ops : arc[q] = registry[i]
          BY <3>2, <2>3 DEF LockInv, TypeOK, Cleanup, OnlyRegistryHolds
        <4>2. registry[i] # NoArc
          BY <3>2, <2>3 DEF Cleanup, LockInv, TypeOK
        <4>3. pc[q] \in Holding /\ sid[q] = i
          BY <4>1, <4>2 DEF LockInv, TypeOK, ClonesAreRegistered, ArcsBelongToOneId
        <4> QED
          BY <4>3, <2>3 DEF Cleanup, Holding, LockInv, TypeOK
      <3> QED BY <3>1, <3>2
    <2>4. CASE UNCHANGED vars
      BY <2>4 DEF vars, NoLeakedLock
    <2> QED BY <2>1, <2>2, <2>3, <2>4 DEF Next, Step, AllDone
  <1> QED BY <1>1, <1>2, LockInvariant, PTL DEF Spec

(***************************************************************************)
(* with_session_lock implements the abstract mutex per session id.         *)
(***************************************************************************)
THEOREM ImplementsSessionMutex == Spec => ImplementsMutex
  <1>1. Init => Abstract!Init
    BY DEF Init, Phase, Abstract!Init
  <1>2. LockInv /\ [Next]_vars => [Abstract!Next]_<<sid, Phase>>
    <2> SUFFICES ASSUME LockInv, [Next]_vars
                 PROVE  [Abstract!Next]_<<sid, Phase>>
      OBVIOUS
    <2>1. ASSUME NEW p \in Ops, Lookup(p) \/ DropClone(p) \/ Cleanup(p)
          PROVE  UNCHANGED <<sid, Phase>>
      BY <2>1 DEF LockInv, TypeOK, Lookup, DropClone, Cleanup, Phase
    <2>2. ASSUME NEW p \in Ops, Acquire(p) PROVE Abstract!Enter(p)
      <3>1. \A q \in Ops : sid[q] = sid[p] => pc[q] # "running"
        BY <2>2, NoArcAssumption
        DEF Acquire, LockInv, TypeOK, ClonesAreRegistered, OwnersRun, Holding
      <3> QED BY <3>1, <2>2 DEF Acquire, LockInv, TypeOK, Phase, Abstract!Enter
    <2>3. ASSUME NEW p \in Ops, Release(p) PROVE Abstract!Leave(p)
      BY <2>3 DEF Release, LockInv, TypeOK, Phase, Abstract!Leave
    <2>4. CASE UNCHANGED vars
      BY <2>4 DEF vars, Phase
    <2> QED BY <2>1, <2>2, <2>3, <2>4 DEF Next, Step, AllDone, Abstract!Next
  <1> QED
    BY <1>1, <1>2, LockInvariant, PTL DEF Spec, ImplementsMutex, Abstract!Spec

-----------------------------------------------------------------------------
(***************************************************************************)
(* One daemon holds the place, for any number of daemons and pids, any     *)
(* tolerance and any drift within it.                                      *)
(*                                                                         *)
(* InstanceInv strengthens OneDaemon.  Who runs has its pid (Running), so  *)
(* the lock, which names the pid of every holder (Named), names one daemon *)
(* only.  The step that could break it is Reclaim: while a daemon decides, *)
(* no other claims (Alone), so it has read the lock as it is if there is   *)
(* a holder (SeenIsLock), and a lock whose holder runs is never found      *)
(* stale, because two readings of its start time differ by Drift at most.  *)
(***************************************************************************)

Running ==
  \A d \in Daemons : st[d] # "off" => pid[d] \in Pids /\ runner[pid[d]] = d

Named ==
  \A d \in Holders :
    lock # NoLock /\ lock.pid = pid[d]
    /\ (lock.at = 0 \/ \E e \in 0..Drift : lock.at = since[pid[d]] + skew + e)

Alone == \A d, e \in Claiming : d = e

SeenIsLock == \A d \in Daemons : st[d] = "decide" /\ Holders # {} => seen[d] = lock

NoneHolds == \A d \in Daemons : st[d] = "claim" => Holders = {}

OwnSocket == \A d \in Daemons : st[d] = "serving" => socket = d

InstanceInv == Running /\ (Undisturbed => Named /\ Alone /\ SeenIsLock /\ NoneHolds /\ OwnSocket)

\* Initially everything is off, and the types hold.
LEMMA InitInv == InstanceInit => InstanceTypeOK /\ InstanceInv
<1> SUFFICES ASSUME InstanceInit PROVE InstanceTypeOK /\ InstanceInv
  OBVIOUS
<1>1. NoLock \in Locks /\ "off" \in Phases
  BY DEF Locks, Phases
<1>2. InstanceTypeOK
  <2>1. clock \in 1..MaxClock /\ skew \in Nat
    BY InstanceLockAssumption DEF InstanceInit
  <2>2. runner \in [Pids -> Daemons \union {Other, Nobody}] /\ since \in [Pids -> Nat]
    BY DEF InstanceInit
  <2>3. st \in [Daemons -> Phases] /\ pid \in [Daemons -> Pids \union {NoPid}]
    BY <1>1 DEF InstanceInit
  <2>4. seen \in [Daemons -> Locks]
    BY <1>1 DEF InstanceInit
  <2> QED
    BY <1>1, <2>1, <2>2, <2>3, <2>4 DEF InstanceInit, InstanceTypeOK
<1>3. InstanceInv
  BY DEF InstanceInit, InstanceInv, Running, Named, Alone, SeenIsLock, NoneHolds, OwnSocket, Holders, Claiming
<1> QED
  BY <1>2, <1>3

\* Every step keeps the types.
LEMMA TypeStep == InstanceTypeOK /\ Running /\ [InstanceNext]_instanceVars => InstanceTypeOK'
<1> SUFFICES ASSUME InstanceTypeOK, Running, [InstanceNext]_instanceVars PROVE InstanceTypeOK'
  OBVIOUS
<1> USE InstanceLockAssumption DEF InstanceTypeOK, files, history, Goes
<1>0. NoLock \in Locks
  BY DEF Locks
<1>1. CASE Tick
  BY <1>1 DEF Tick
<1>2. CASE SetClock
  BY <1>2 DEF SetClock
<1>3. ASSUME NEW p \in Pids, Fork(p) \/ End(p) PROVE InstanceTypeOK'
  BY <1>3 DEF Fork, End
<1>4. ASSUME NEW d \in Daemons, NEW p \in Pids, Start(d, p) PROVE InstanceTypeOK'
  BY <1>4 DEF Start, Phases
<1>5. ASSUME NEW d \in Daemons, Read(d) PROVE InstanceTypeOK'
  BY <1>5 DEF Read, Phases
<1>16. ASSUME NEW d \in Daemons, ReadFails(d) PROVE InstanceTypeOK'
  <2>1. overlap' \in BOOLEAN /\ usurped' \in BOOLEAN
    BY <1>16 DEF ReadFails
  <2>2. st' \in [Daemons -> Phases]
    BY <1>16 DEF ReadFails, Phases
  <2> QED
    BY <1>16, <2>1, <2>2 DEF ReadFails
<1>6. ASSUME NEW d \in Daemons, Refuse(d) PROVE InstanceTypeOK'
  BY <1>0, <1>6 DEF Refuse, Exit, Phases
<1>7. ASSUME NEW d \in Daemons, Reclaim(d) PROVE InstanceTypeOK'
  BY <1>0, <1>7 DEF Reclaim, Phases
<1>8. ASSUME NEW d \in Daemons, Claim(d) PROVE InstanceTypeOK'
  <2>1. pid[d] \in Pids
    BY <1>8 DEF Claim, Running
  <2>2. PICK at \in Readings(pid[d]) :
          /\ lock' = [pid |-> pid[d], at |-> at, born |-> since[pid[d]]]
          /\ blind' = (blind \/ at = 0)
    BY <1>8 DEF Claim
  <2>3. at \in Nat
    BY <2>1 DEF Readings
  <2>4. lock' \in Locks
    BY <2>1, <2>2, <2>3 DEF Locks
  <2> QED
    BY <1>8, <2>2, <2>4 DEF Claim, Phases
<1>9. ASSUME NEW d \in Daemons, NEW ok \in BOOLEAN, WriteInstance(d, ok) PROVE InstanceTypeOK'
  BY <1>9 DEF WriteInstance, Phases
<1>10. ASSUME NEW d \in Daemons, Unlink(d) PROVE InstanceTypeOK'
  BY <1>10 DEF Unlink, Phases
<1>11. ASSUME NEW d \in Daemons, Bind(d) PROVE InstanceTypeOK'
  BY <1>11 DEF Bind, Exit, Phases
<1>12. ASSUME NEW d \in Daemons, Shutdown(d) \/ RemoveLock(d) PROVE InstanceTypeOK'
  BY <1>0, <1>12 DEF Shutdown, RemoveLock, Phases
<1>13. ASSUME NEW d \in Daemons, RemoveInstance(d) PROVE InstanceTypeOK'
  BY <1>13 DEF RemoveInstance, Exit, Phases
<1>14. ASSUME NEW d \in Daemons, Crash(d) PROVE InstanceTypeOK'
  BY <1>0, <1>14 DEF Crash, Exit, Phases
<1>15. CASE UNCHANGED instanceVars
  BY <1>15 DEF instanceVars
<1> QED
  BY <1>1, <1>2, <1>3, <1>4, <1>5, <1>6, <1>7, <1>8, <1>9, <1>10, <1>11, <1>12, <1>13, <1>14, <1>15, <1>16
     DEF InstanceNext

\* A step changes who runs under a pid only by starting on a free one and by ending.
LEMMA RunningStep == InstanceTypeOK /\ Running /\ [InstanceNext]_instanceVars => Running'
<1> SUFFICES ASSUME InstanceTypeOK, Running, [InstanceNext]_instanceVars, NEW c \in Daemons, st'[c] # "off"
             PROVE  pid'[c] \in Pids /\ runner'[pid'[c]] = c
  BY DEF Running
<1> USE InstanceLockAssumption DEF InstanceTypeOK, Running, Goes
<1>1. CASE Tick \/ SetClock
  BY <1>1 DEF Tick, SetClock
<1>2. ASSUME NEW p \in Pids, Fork(p) \/ End(p) PROVE pid'[c] \in Pids /\ runner'[pid'[c]] = c
  BY <1>2 DEF Fork, End, Other, Nobody
<1>3. ASSUME NEW d \in Daemons, NEW p \in Pids, Start(d, p)
      PROVE  pid'[c] \in Pids /\ runner'[pid'[c]] = c
  BY <1>3 DEF Start
<1>4. ASSUME NEW d \in Daemons, st[d] # "off", Exit(d)
      PROVE  pid'[c] \in Pids /\ runner'[pid'[c]] = c
  BY <1>4 DEF Exit
<1>5. ASSUME NEW d \in Daemons, Refuse(d) \/ RemoveInstance(d) \/ Crash(d)
      PROVE  pid'[c] \in Pids /\ runner'[pid'[c]] = c
  <2>1. st[d] # "off" /\ Exit(d)
    BY <1>5 DEF Refuse, RemoveInstance, Crash
  <2> QED
    BY <1>4, <2>1
<1>6. ASSUME NEW d \in Daemons, Bind(d) PROVE pid'[c] \in Pids /\ runner'[pid'[c]] = c
  <2>1. CASE Exit(d)
    BY <1>4, <1>6, <2>1 DEF Bind
  <2>2. CASE UNCHANGED <<runner, since, pid>> /\ Goes(d, "serving")
    BY <1>6, <2>2 DEF Bind
  <2> QED
    BY <1>6, <2>1, <2>2 DEF Bind
<1>7. ASSUME NEW d \in Daemons,
             \/ Read(d) \/ ReadFails(d) \/ Reclaim(d) \/ Claim(d) \/ Unlink(d) \/ Shutdown(d) \/ RemoveLock(d)
             \/ \E ok \in BOOLEAN : WriteInstance(d, ok)
      PROVE  pid'[c] \in Pids /\ runner'[pid'[c]] = c
  BY <1>7 DEF Read, ReadFails, Reclaim, Claim, WriteInstance, Unlink, Shutdown, RemoveLock
<1>8. CASE UNCHANGED instanceVars
  BY <1>8 DEF instanceVars
<1> QED
  BY <1>1, <1>2, <1>3, <1>5, <1>6, <1>7, <1>8 DEF InstanceNext

\* A lock whose holder runs is found to be held: it is not dead, and two readings of its start
\* time are near.
LEMMA HeldIsKept ==
  ASSUME InstanceTypeOK, NEW p \in Pids, runner[p] # Nobody, NEW rec, rec.pid = p,
         rec.at = 0 \/ \E e \in 0..Drift : rec.at = since[p] + skew + e,
         NEW now \in Readings(p)
  PROVE  Keeps(rec, now)
<1>1. CASE rec.at = 0 \/ now = 0
  BY <1>1 DEF Keeps, Check
<1>2. CASE rec.at # 0 /\ now # 0
  <2>1. PICK e \in 0..Drift : rec.at = since[p] + skew + e
    BY <1>2
  <2>2. PICK f \in 0..Drift : now = since[p] + skew + f
    BY <1>2 DEF Readings
  <2>3. since[p] \in Nat /\ skew \in Nat
    BY DEF InstanceTypeOK
  <2>4. Near(now, rec.at)
    BY <2>1, <2>2, <2>3, InstanceLockAssumption DEF Near
  <2> QED
    BY <1>2, <2>4 DEF Keeps, Check
<1> QED
  BY <1>1, <1>2

\* The lock names every holder, so there is one.
LEMMA OneHolder == Running /\ Named => \A d, e \in Holders : d = e
  BY DEF Running, Named, Holders

\* Whoever decides that the lock is stale decides so when nobody holds the place.
LEMMA ReclaimIsFree ==
  ASSUME InstanceTypeOK, Running, Named, SeenIsLock, NEW d \in Daemons, Reclaim(d) PROVE Holders = {}
<1> SUFFICES ASSUME NEW h \in Holders PROVE FALSE
  OBVIOUS
<1>1. seen[d] = lock /\ h \in Daemons /\ st[h] # "off" /\ st[d] = "decide" /\ st[h] # "decide"
  BY DEF SeenIsLock, Reclaim, Holders
<1>2. lock # NoLock /\ lock.pid = pid[h] /\ pid[h] \in Pids /\ runner[pid[h]] = h
  BY <1>1 DEF Named, Running
<1>3. lock.pid # pid[d]
  BY <1>1, <1>2 DEF Running
<1>4. PICK now \in Readings(pid[h]) : ~Keeps(lock, now)
  BY <1>1, <1>2, <1>3 DEF Reclaim
<1>5. runner[pid[h]] # Nobody
  BY <1>1, <1>2, InstanceLockAssumption
<1>6. lock.at = 0 \/ \E e \in 0..Drift : lock.at = since[pid[h]] + skew + e
  BY DEF Named
<1> QED
  BY <1>2, <1>4, <1>5, <1>6, HeldIsKept

Strong == Named /\ Alone /\ SeenIsLock /\ NoneHolds /\ OwnSocket

\* Every step keeps the strengthened invariant, as long as the history allows it.
LEMMA StrongStep ==
  ASSUME InstanceTypeOK, InstanceTypeOK', Running, Running', Strong, [InstanceNext]_instanceVars, Undisturbed'
  PROVE  Strong'
<1> USE DEF InstanceTypeOK, files, history, Goes, Undisturbed
<1>1. CASE Tick
  BY <1>1 DEF Tick, Strong, Named, Alone, SeenIsLock, NoneHolds, OwnSocket, Holders, Claiming
<1>2. CASE SetClock
  BY <1>2 DEF SetClock
<1>3. ASSUME NEW p \in Pids, Fork(p) \/ End(p) PROVE Strong'
  <2>1. \A d \in Holders : pid[d] # p
    BY <1>3, InstanceLockAssumption DEF Fork, End, Running, Holders
  <2>2. \A d \in Holders : since'[pid[d]] = since[pid[d]]
    BY <1>3, <2>1 DEF Fork, End, Running, Holders
  <2>3. UNCHANGED <<skew, st, pid, seen, lock, socket>>
    BY <1>3 DEF Fork, End
  <2> QED
    BY <2>2, <2>3 DEF Strong, Named, Alone, SeenIsLock, NoneHolds, OwnSocket, Holders, Claiming
<1>4. ASSUME NEW d \in Daemons, NEW p \in Pids, Start(d, p) PROVE Strong'
  <2>1. Holders' = Holders /\ Claiming' = Claiming /\ d \notin Holders
    BY <1>4 DEF Start, Holders, Claiming
  <2>2. \A h \in Holders : pid'[h] = pid[h] /\ since'[pid[h]] = since[pid[h]]
    BY <1>4, <2>1, InstanceLockAssumption DEF Start, Running, Holders
  <2>3. UNCHANGED <<skew, seen, lock, socket>>
    BY <1>4 DEF Start
  <2>4. Named' /\ Alone'
    BY <2>1, <2>2, <2>3 DEF Strong, Named, Alone
  <2>5. SeenIsLock' /\ NoneHolds' /\ OwnSocket'
    BY <1>4, <2>1, <2>3 DEF Start, Strong, SeenIsLock, NoneHolds, OwnSocket
  <2> QED
    BY <2>4, <2>5 DEF Strong
<1>5. ASSUME NEW d \in Daemons, Read(d) PROVE Strong'
  <2>1. Holders' = Holders /\ Claiming = {} /\ Claiming' = {d}
    <3>1. st' = [st EXCEPT ![d] = "decide"] /\ st[d] = "started" /\ Claiming = {}
      BY <1>5 DEF Read
    <3>. QED
      BY <3>1 DEF Holders, Claiming
  <2>2. UNCHANGED <<skew, since, pid, lock, socket>>
    BY <1>5 DEF Read
  <2>3. Named' /\ Alone'
    BY <2>1, <2>2 DEF Strong, Named, Alone
  <2>4. SeenIsLock' /\ NoneHolds' /\ OwnSocket'
    BY <1>5, <2>1, <2>2 DEF Read, Strong, SeenIsLock, NoneHolds, OwnSocket, Claiming
  <2> QED
    BY <2>3, <2>4 DEF Strong
<1>17. ASSUME NEW d \in Daemons, ReadFails(d) PROVE Strong'
  <2>1. Holders = {} /\ Claiming = {}
    BY <1>17 DEF ReadFails
  <2>2. Holders' = {} /\ Claiming' = {d}
    BY <1>17, <2>1 DEF ReadFails, Holders, Claiming
  <2>3. Named' /\ Alone' /\ SeenIsLock' /\ NoneHolds'
    BY <2>2 DEF Named, Alone, SeenIsLock, NoneHolds
  <2>4. OwnSocket'
    BY <1>17 DEF ReadFails, Strong, OwnSocket
  <2> QED
    BY <2>3, <2>4 DEF Strong
<1>6. ASSUME NEW d \in Daemons, st[d] # "off", Exit(d), UNCHANGED <<skew, lock, socket>>,
             \A e \in Daemons \ {d} : seen'[e] = seen[e]
      PROVE  Strong'
  <2>1. Holders' = Holders \ {d} /\ Claiming' \subseteq Claiming /\ st'[d] = "off"
    BY <1>6 DEF Exit, Holders, Claiming
  <2>2. \A h \in Holders' : pid'[h] = pid[h] /\ since'[pid[h]] = since[pid[h]]
    BY <1>6, <2>1 DEF Exit, Running, Holders
  <2>3. Named' /\ Alone'
    BY <1>6, <2>1, <2>2 DEF Strong, Named, Alone
  <2>4. SeenIsLock' /\ NoneHolds' /\ OwnSocket'
    BY <1>6, <2>1 DEF Exit, Strong, SeenIsLock, NoneHolds, OwnSocket
  <2> QED
    BY <2>3, <2>4 DEF Strong
<1>7. ASSUME NEW d \in Daemons, Refuse(d) \/ RemoveInstance(d) \/ Crash(d) PROVE Strong'
  BY <1>6, <1>7 DEF Refuse, RemoveInstance, Crash
<1>8. ASSUME NEW d \in Daemons, Reclaim(d) PROVE Strong'
  <2>1. Holders = {}
    BY <1>8, ReclaimIsFree DEF Strong
  <2>2. Holders' = {} /\ Claiming' = Claiming
    BY <1>8, <2>1 DEF Reclaim, Holders, Claiming
  <2> QED
    BY <1>8, <2>2 DEF Reclaim, Strong, Named, Alone, SeenIsLock, NoneHolds, OwnSocket
<1>9. ASSUME NEW d \in Daemons, Claim(d) PROVE Strong'
  <2>1. Claiming = {d} /\ Holders = {}
    BY <1>9 DEF Claim, Strong, Alone, NoneHolds, Claiming
  <2>2. Claiming' = {} /\ Holders' = {d}
    BY <1>9, <2>1 DEF Claim, Claiming, Holders
  <2>3. pid[d] \in Pids /\ pid[d] # NoPid
    BY <1>9, InstanceLockAssumption DEF Claim, Running
  <2>4. PICK at \in Readings(pid[d]) : lock' = [pid |-> pid[d], at |-> at, born |-> since[pid[d]]]
    BY <1>9 DEF Claim
  <2>5. lock'.pid = pid[d] /\ lock'.at = at /\ lock' # NoLock
    BY <2>3, <2>4 DEF NoLock
  <2>6. Named'
    BY <1>9, <2>2, <2>4, <2>5 DEF Claim, Named, Readings
  <2>7. Alone' /\ SeenIsLock' /\ NoneHolds'
    BY <2>2 DEF Alone, SeenIsLock, NoneHolds, Claiming
  <2>8. OwnSocket'
    BY <1>9 DEF Claim, Strong, OwnSocket
  <2> QED
    BY <2>6, <2>7, <2>8 DEF Strong
<1>10. ASSUME NEW d \in Daemons, UNCHANGED <<skew, since, pid, seen, lock>>,
              d \in Holders, Holders' = Holders, Claiming' = Claiming,
              \A e \in Daemons \ {d} : st'[e] = st[e], OwnSocket'
       PROVE  Strong'
  <2>1. st[d] \notin {"decide", "claim"} /\ st'[d] \notin {"decide", "claim"}
    BY <1>10 DEF Holders
  <2> QED
    BY <1>10, <2>1 DEF Strong, Named, Alone, SeenIsLock, NoneHolds
<1>11. ASSUME NEW d \in Daemons, NEW ok \in BOOLEAN, WriteInstance(d, ok) PROVE Strong'
  <2>1. OwnSocket'
    BY <1>11 DEF WriteInstance, Strong, OwnSocket
  <2> QED
    BY <1>10, <1>11, <2>1 DEF WriteInstance, Holders, Claiming
<1>12. ASSUME NEW d \in Daemons, Unlink(d) PROVE Strong'
  <2>1. d \in Holders /\ \A e \in Holders : e = d
    BY <1>12, OneHolder DEF Unlink, Holders, Strong
  <2>2. OwnSocket'
    BY <1>12, <2>1 DEF Unlink, OwnSocket, Holders
  <2> QED
    BY <1>10, <1>12, <2>1, <2>2 DEF Unlink, Holders, Claiming
<1>13. ASSUME NEW d \in Daemons, Bind(d) PROVE Strong'
  <2>1. CASE Exit(d)
    BY <1>6, <1>13, <2>1 DEF Bind, Exit
  <2>2. CASE socket' = d /\ Goes(d, "serving") /\ UNCHANGED <<runner, since, pid>>
    <3>1. d \in Holders /\ \A e \in Holders : e = d
      BY <1>13, OneHolder DEF Bind, Holders, Strong
    <3>2. OwnSocket'
      BY <2>2, <3>1 DEF OwnSocket, Holders
    <3> QED
      BY <1>10, <1>13, <2>2, <3>1, <3>2 DEF Bind, Holders, Claiming
  <2> QED
    BY <1>13, <2>1, <2>2 DEF Bind
<1>14. ASSUME NEW d \in Daemons, Shutdown(d) PROVE Strong'
  <2>1. OwnSocket'
    BY <1>14 DEF Shutdown, Strong, OwnSocket
  <2> QED
    BY <1>10, <1>14, <2>1 DEF Shutdown, Holders, Claiming
<1>15. ASSUME NEW d \in Daemons, RemoveLock(d) PROVE Strong'
  <2>1. d \in Holders /\ \A e \in Holders : e = d
    BY <1>15, OneHolder DEF RemoveLock, Holders, Strong
  <2>2. Holders' = {} /\ Claiming' = Claiming
    BY <1>15, <2>1 DEF RemoveLock, Holders, Claiming
  <2> QED
    BY <1>15, <2>2 DEF RemoveLock, Strong, Named, Alone, SeenIsLock, NoneHolds, OwnSocket
<1>16. CASE UNCHANGED instanceVars
  BY <1>16 DEF instanceVars, Strong, Named, Alone, SeenIsLock, NoneHolds, OwnSocket, Holders, Claiming
<1> QED
  BY <1>1, <1>2, <1>3, <1>4, <1>5, <1>7, <1>8, <1>9, <1>11, <1>12, <1>13, <1>14, <1>15, <1>16, <1>17
     DEF InstanceNext

\* What happened stays in the history.
LEMMA HistoryStays ==
  InstanceTypeOK /\ [InstanceNext]_instanceVars /\ Undisturbed' => Undisturbed
  BY DEF Undisturbed, InstanceTypeOK, InstanceNext, instanceVars, history, Tick, SetClock, Fork, End, Start,
     Read, ReadFails, Refuse, Reclaim, Claim, WriteInstance, Unlink, Bind, Shutdown, RemoveLock, RemoveInstance, Crash

\* The inductive invariant holds of every reachable state.
THEOREM InstanceInvariant == InstanceSpec => [](InstanceTypeOK /\ InstanceInv)
<1>1. InstanceInit => InstanceTypeOK /\ InstanceInv
  BY InitInv
<1>2. InstanceTypeOK /\ InstanceInv /\ [InstanceNext]_instanceVars => (InstanceTypeOK /\ InstanceInv)'
  <2> SUFFICES ASSUME InstanceTypeOK, InstanceInv, [InstanceNext]_instanceVars PROVE InstanceTypeOK' /\ InstanceInv'
    OBVIOUS
  <2>1. InstanceTypeOK' /\ Running'
    BY TypeStep, RunningStep DEF InstanceInv
  <2>2. ASSUME Undisturbed' PROVE Strong'
    <3>1. Running /\ Strong
      BY <2>2, HistoryStays DEF InstanceInv, Strong
    <3> QED
      BY <2>1, <2>2, <3>1, StrongStep
  <2> QED
    BY <2>1, <2>2 DEF InstanceInv, Strong
<1> QED
  BY <1>1, <1>2, PTL DEF InstanceSpec

\* The state is of its types.
THEOREM InstanceTypeCorrect == InstanceSpec => []InstanceTypeOK
  BY InstanceInvariant, PTL

\* Unless startups overlapped, the wall clock was set or the lock of a live daemon could not be
\* read, at most one daemon holds the place, also when the lock of a dead one was unreadable
\* (discovery.rs, write_lock_file).
THEOREM AtMostOne == InstanceSpec => []OneDaemon
<1>1. InstanceInv => OneDaemon
  BY OneHolder DEF InstanceInv, OneDaemon, Named
<1> QED
  BY <1>1, InstanceInvariant, PTL

\* ... and the one that serves is reached at the socket (server.rs, serve_unix).
THEOREM ServesAtSocket == InstanceSpec => []Reachable
<1>1. InstanceInv => Reachable
  BY DEF InstanceInv, Reachable, OwnSocket
<1> QED
  BY <1>1, InstanceInvariant, PTL

(***************************************************************************)
(* Nobody is locked out.  As long as every reading succeeded and the clock *)
(* was not set, a record carries a start time at most Drift after the true *)
(* one.                                                                    *)
(***************************************************************************)
Dated(rec) == rec = NoLock \/ (rec.at # 0 /\ rec.at <= rec.born + Drift)

DatedInv ==
  /\ ~stepped => skew = 0
  /\ ~stepped /\ ~blind => Dated(lock) /\ \A d \in Daemons : Dated(seen[d])

\* A step writes a record only from a reading of the process itself.
LEMMA DatedStep == InstanceTypeOK /\ Running /\ DatedInv /\ [InstanceNext]_instanceVars => DatedInv'
<1> SUFFICES ASSUME InstanceTypeOK, Running, DatedInv, [InstanceNext]_instanceVars PROVE DatedInv'
  OBVIOUS
<1> USE DEF InstanceTypeOK, files, history
<1>1. CASE Tick \/ SetClock
  BY <1>1 DEF Tick, SetClock, DatedInv, Dated
<1>2. CASE \E p \in Pids : Fork(p) \/ End(p)
  BY <1>2 DEF Fork, End, DatedInv, Dated
<1>3. ASSUME NEW d \in Daemons, Claim(d) PROVE DatedInv'
  <2>1. pid[d] \in Pids /\ since[pid[d]] \in Nat
    BY <1>3 DEF Claim, Running
  <2>2. PICK at \in Readings(pid[d]) :
          /\ lock' = [pid |-> pid[d], at |-> at, born |-> since[pid[d]]]
          /\ blind' = (blind \/ at = 0)
    BY <1>3 DEF Claim
  <2>3. UNCHANGED <<skew, stepped, seen>>
    BY <1>3 DEF Claim
  <2>4. ASSUME ~stepped', ~blind' PROVE Dated(lock')
    <3>1. at # 0 /\ skew = 0
      BY <2>2, <2>3, <2>4 DEF DatedInv
    <3>2. PICK e \in 0..Drift : at = since[pid[d]] + e
      BY <2>1, <3>1 DEF Readings
    <3>3. lock'.at = at /\ lock'.born = since[pid[d]]
      BY <2>2
    <3> QED
      BY <2>1, <3>1, <3>2, <3>3, InstanceLockAssumption DEF Dated
  <2> QED
    BY <2>2, <2>3, <2>4 DEF DatedInv, Dated
<1>4. ASSUME NEW d \in Daemons,
             \/ Read(d) \/ ReadFails(d) \/ Refuse(d) \/ Reclaim(d) \/ Crash(d)
      PROVE  DatedInv'
  <2>1. UNCHANGED <<skew, stepped, lock>> /\ (blind => blind')
    BY <1>4 DEF Read, ReadFails, Refuse, Reclaim, Crash
  <2>2. \A e \in Daemons : seen'[e] \in {seen[e], lock, NoLock}
    BY <1>4 DEF Read, ReadFails, Refuse, Reclaim, Crash
  <2> QED
    BY <2>1, <2>2 DEF DatedInv, Dated
<1>5. ASSUME NEW d \in Daemons, Shutdown(d) \/ RemoveLock(d) \/ RemoveInstance(d) \/ Unlink(d) \/ Bind(d)
      PROVE  DatedInv'
  BY <1>5 DEF Shutdown, RemoveLock, RemoveInstance, Unlink, Bind, DatedInv, Dated
<1>6. ASSUME NEW d \in Daemons, \/ \E p \in Pids : Start(d, p)
                               \/ \E ok \in BOOLEAN : WriteInstance(d, ok)
      PROVE  DatedInv'
  BY <1>6 DEF Start, WriteInstance, DatedInv, Dated
<1>7. CASE UNCHANGED instanceVars
  BY <1>7 DEF instanceVars, DatedInv, Dated
<1> QED
  BY <1>1, <1>2, <1>3, <1>4, <1>5, <1>6, <1>7 DEF InstanceNext

\* Whoever is refused met the process that wrote the lock, or one that got its pid within the
\* tolerance: a pid used again later locks nobody out (process_identity.rs, check).
THEOREM NotLockedOut == InstanceSpec => NoLockout
<1>1. InstanceInit => DatedInv
  BY DEF InstanceInit, DatedInv, Dated
<1>2. InstanceTypeOK /\ InstanceInv /\ DatedInv /\ [InstanceNext]_instanceVars => DatedInv'
  BY DatedStep DEF InstanceInv
<1>3. ASSUME InstanceTypeOK, DatedInv, NEW d \in Daemons, Refuse(d), ~blind', ~stepped
      PROVE  since[seen[d].pid] <= seen[d].born + Tolerance + Drift
  <2>1. PICK now \in Readings(seen[d].pid) : Keeps(seen[d], now) /\ blind' = (blind \/ now = 0)
    BY <1>3 DEF Refuse
  <2>2. now # 0 /\ ~blind /\ skew = 0 /\ seen[d] # NoLock
    BY <1>3, <2>1 DEF Refuse, DatedInv
  <2>3. seen[d].at # 0 /\ seen[d].at <= seen[d].born + Drift
    BY <1>3, <2>2 DEF DatedInv, Dated
  <2>4. seen[d].pid \in Pids /\ seen[d].at \in Nat /\ seen[d].born \in Nat
    BY <1>3, <2>2 DEF InstanceTypeOK, Locks
  <2>5. Near(now, seen[d].at)
    BY <2>1, <2>2, <2>3 DEF Keeps, Check
  <2>6. since[seen[d].pid] \in Nat
    BY <1>3, <2>4 DEF InstanceTypeOK
  <2>7. PICK e \in 0..Drift : now = since[seen[d].pid] + e
    BY <2>2, <2>6 DEF Readings
  <2> QED
    BY <2>3, <2>4, <2>5, <2>6, <2>7, InstanceLockAssumption DEF Near
<1>4. InstanceTypeOK /\ DatedInv =>
        [\A d \in Daemons : Refuse(d) /\ ~blind' /\ ~stepped =>
           since[seen[d].pid] <= seen[d].born + Tolerance + Drift]_instanceVars
  BY <1>3
<1> QED
  BY <1>1, <1>2, <1>4, InstanceInvariant, PTL DEF InstanceSpec, NoLockout

-----------------------------------------------------------------------------
(* Bindings.  One lemma per part of the invariant; counting tokens is the  *)
(* only one that needs cardinalities.                                      *)

IInv == BindingsTypeOK /\ BindingsInv

\* Tokens are few, and a set of them that loses or gains one changes by one.
LEMMA TokensFinite == IsFiniteSet(Tokens) /\ Cardinality(Tokens) \in Nat
BY BindingsAssumption, FS_Subset, FS_CardinalityType DEF Tokens

\* The invariant holds before anything was built.
LEMMA BindingsInitInv == BindingsInit => IInv
<1> SUFFICES ASSUME BindingsInit PROVE IInv OBVIOUS
<1> USE BindingsAssumption DEF BindingsInit
<1>1. BindingsTypeOK
  <2>1. registered \in BOOLEAN OBVIOUS
  <2>2. disk \in 0..MaxChanges /\ ver \in [Gets -> 0..MaxChanges] OBVIOUS
  <2> HIDE DEF BindingsInit
  <2> QED BY <2>1, <2>2 DEF BindingsTypeOK, GetStages, TokenStages, BindingsInit
<1>2. TokenPlaces /\ OneCatalog BY DEF TokenPlaces, OneCatalog
<1>3. HubInv
  <2>1. Tokens = {} BY DEF Tokens
  <2> QED BY <2>1, FS_EmptySet DEF HubInv
<1> QED BY <1>1, <1>2, <1>3 DEF IInv, BindingsInv

\* Every step keeps the types.
LEMMA BindingsTypeStep == BindingsTypeOK /\ TokenPlaces /\ [BindingsNext]_pairVars => BindingsTypeOK'
<1> SUFFICES ASSUME BindingsTypeOK, TokenPlaces, [BindingsNext]_pairVars PROVE BindingsTypeOK' OBVIOUS
<1> USE BindingsAssumption DEF BindingsTypeOK, GetStages, TokenStages, Goto, bindingVars, hubVars, eventVars
<1>1. ASSUME NEW g \in Gets, GetStep(g) PROVE BindingsTypeOK'
  <2>1. CASE Get(g) BY <2>1 DEF Get
  <2>2. CASE Load(g) BY <2>2 DEF Load
  <2>3. CASE SubscribeCount(g) BY <2>3 DEF SubscribeCount
  <2>4. CASE SubscribeKey(g) BY <2>4 DEF SubscribeKey
  <2>5. CASE SubscribeWatch(g) BY <2>5 DEF SubscribeWatch
  <2>6. CASE Insert(g) BY <2>6 DEF Insert
  <2>7. CASE Done(g)
    <3>1. got[g] \in Gets BY <2>7 DEF Done, TokenPlaces
    <3> QED BY <2>7, <3>1 DEF Done
  <2> QED BY <1>1, <2>1, <2>2, <2>3, <2>4, <2>5, <2>6, <2>7 DEF GetStep
<1>2. ASSUME NEW b \in Gets, ReleaseToken(b) PROVE BindingsTypeOK'
  <2>1. CASE ReleaseKey(b) BY <2>1 DEF ReleaseKey
  <2>2. CASE ReleaseCount(b) BY <2>2 DEF ReleaseCount, Unguard
  <2>3. CASE ReleaseForget(b) BY <2>3 DEF ReleaseForget
  <2>4. CASE ReleaseUnwatch(b) BY <2>4 DEF ReleaseUnwatch, Unguard
  <2> QED BY <1>2, <2>1, <2>2, <2>3, <2>4 DEF ReleaseToken
<1>3. CASE Change BY <1>3 DEF Change
<1>4. CASE DrainEvents BY <1>4 DEF DrainEvents
<1>5. CASE Watcher BY <1>5 DEF Watcher, Invalidate
<1>6. CASE Reload BY <1>6 DEF Reload, Invalidate
<1>7. ASSUME NEW t \in timers, WakeUp(t) PROVE BindingsTypeOK' BY <1>7 DEF WakeUp
<1>8. CASE UNCHANGED pairVars BY <1>8 DEF pairVars
<1> QED BY <1>1, <1>2, <1>3, <1>4, <1>5, <1>6, <1>7, <1>8 DEF BindingsNext

\* Every step keeps tokens where their calls and bindings are, and one catalog.
LEMMA PlacesStep == IInv /\ [BindingsNext]_pairVars => TokenPlaces' /\ OneCatalog'
<1> SUFFICES ASSUME IInv, [BindingsNext]_pairVars PROVE TokenPlaces' /\ OneCatalog' OBVIOUS
<1> USE BindingsAssumption
    DEF IInv, BindingsInv, BindingsTypeOK, GetStages, TokenStages, Goto, TokenPlaces, OneCatalog,
        bindingVars, hubVars, eventVars
<1>1. ASSUME NEW g \in Gets, GetStep(g) PROVE TokenPlaces' /\ OneCatalog'
  <2>1. CASE Get(g) BY <2>1 DEF Get
  <2>2. CASE Load(g) BY <2>2 DEF Load
  <2>3. CASE SubscribeCount(g) BY <2>3 DEF SubscribeCount
  <2>4. CASE SubscribeKey(g) BY <2>4 DEF SubscribeKey
  <2>5. CASE SubscribeWatch(g) BY <2>5 DEF SubscribeWatch
  <2>6. CASE Insert(g) BY <2>6 DEF Insert
  <2>7. CASE Done(g) BY <2>7 DEF Done, Users
  <2> QED BY <1>1, <2>1, <2>2, <2>3, <2>4, <2>5, <2>6, <2>7 DEF GetStep
<1>2. ASSUME NEW b \in Gets, ReleaseToken(b) PROVE TokenPlaces' /\ OneCatalog'
  <2>1. CASE ReleaseKey(b) BY <2>1 DEF ReleaseKey
  <2>2. CASE ReleaseCount(b) BY <2>2 DEF ReleaseCount, Unguard
  <2>3. CASE ReleaseForget(b) BY <2>3 DEF ReleaseForget
  <2>4. CASE ReleaseUnwatch(b) BY <2>4 DEF ReleaseUnwatch, Unguard
  <2> QED BY <1>2, <2>1, <2>2, <2>3, <2>4 DEF ReleaseToken
<1>3. CASE Change BY <1>3 DEF Change
<1>4. CASE DrainEvents BY <1>4 DEF DrainEvents
<1>5. CASE Watcher \/ Reload BY <1>5 DEF Watcher, Reload, Invalidate, Users
<1>6. ASSUME NEW t \in timers, WakeUp(t) PROVE TokenPlaces' /\ OneCatalog' BY <1>6 DEF WakeUp
<1>7. CASE UNCHANGED pairVars BY <1>7 DEF pairVars
<1> QED BY <1>1, <1>2, <1>3, <1>4, <1>5, <1>6, <1>7 DEF BindingsNext

\* A step that leaves the hub alone, and moves tokens only from held to key.
LEMMA SameTokens ==
  ASSUME HubInv, Tokens' = Tokens, Releasing' = Releasing,
         \A b \in Gets : token[b] = "forget" => token'[b] = "forget",
         count' = count, registered' => registered, keys' # 0 => keys # 0
  PROVE  HubInv'
BY DEF HubInv

\* Every step keeps the hub's maps consistent.
LEMMA HubStep == IInv /\ [BindingsNext]_pairVars => HubInv'
<1> SUFFICES ASSUME IInv, [BindingsNext]_pairVars PROVE HubInv' OBVIOUS
<1> USE BindingsAssumption DEF IInv, BindingsInv, BindingsTypeOK, TokenStages, bindingVars, hubVars, eventVars
<1>1. ASSUME NEW g \in Gets, GetStep(g) PROVE HubInv'
  <2>1. CASE Get(g) \/ Load(g)
    BY <2>1, SameTokens DEF Get, Load, Tokens, Releasing
  <2>2. CASE SubscribeCount(g)
    <3>1. g \notin Tokens BY <2>2 DEF SubscribeCount, TokenPlaces, Tokens
    <3>2. Tokens' = Tokens \cup {g} /\ Releasing' = Releasing
      BY <2>2, <3>1 DEF SubscribeCount, TokenPlaces, Tokens, Releasing
    <3>3. Cardinality(Tokens') = Cardinality(Tokens) + 1
      BY <3>1, <3>2, TokensFinite, FS_AddElement
    <3> QED BY <2>2, <3>2, <3>3 DEF SubscribeCount, HubInv
  <2>3. CASE SubscribeKey(g) \/ SubscribeWatch(g)
    <3>1. g \in Tokens BY <2>3 DEF SubscribeKey, SubscribeWatch, TokenPlaces, Tokens
    <3>2. Tokens' = Tokens /\ count' = count
      BY <2>3 DEF SubscribeKey, SubscribeWatch, Tokens
    <3> QED BY <3>1, <3>2 DEF HubInv
  <2>4. CASE Insert(g)
    <3>1. Tokens' = Tokens /\ Releasing' = Releasing
      BY <2>4 DEF Insert, TokenPlaces, Tokens, Releasing
    <3>2. \A b \in Gets : token[b] = "forget" => token'[b] = "forget"
      BY <2>4 DEF Insert, TokenPlaces
    <3> QED BY <2>4, <3>1, <3>2, SameTokens DEF Insert
  <2>5. CASE Done(g)
    <3>1. got[g] \in Gets /\ token[got[g]] = "held" BY <2>5 DEF Done, TokenPlaces
    <3>2. Tokens' = Tokens /\ Releasing' = Releasing
      BY <2>5, <3>1 DEF Done, Tokens, Releasing
    <3>3. \A b \in Gets : token[b] = "forget" => token'[b] = "forget"
      BY <2>5, <3>1 DEF Done
    <3> QED BY <2>5, <3>2, <3>3, SameTokens DEF Done
  <2> QED BY <1>1, <2>1, <2>2, <2>3, <2>4, <2>5 DEF GetStep
<1>2. ASSUME NEW b \in Gets, ReleaseToken(b) PROVE HubInv'
  <2>1. CASE ReleaseKey(b)
    <3>1. Tokens' = Tokens /\ Releasing' = Releasing
      BY <2>1 DEF ReleaseKey, Tokens, Releasing
    <3>2. \A c \in Gets : token[c] = "forget" => token'[c] = "forget"
      BY <2>1 DEF ReleaseKey
    <3> QED BY <2>1, <3>1, <3>2, SameTokens DEF ReleaseKey
  <2>2. CASE ReleaseCount(b)
    <3>1. b \in Tokens BY <2>2 DEF ReleaseCount, Tokens
    <3>2. Tokens' = Tokens \ {b} BY <2>2 DEF ReleaseCount, Tokens
    <3>3. Cardinality(Tokens') = Cardinality(Tokens) - 1
      BY <3>1, <3>2, TokensFinite, FS_RemoveElement
    <3>4. IsFiniteSet(Tokens') /\ Cardinality(Tokens') \in Nat
      BY <3>2, TokensFinite, FS_Subset, FS_CardinalityType
    <3>5. count # 0 /\ count' = Cardinality(Tokens')
      BY <2>2, <3>3, <3>4, TokensFinite DEF ReleaseCount, HubInv
    <3>6. CASE count = 1
      <4>1. b \in Releasing' /\ token'[b] = "forget"
        BY <2>2, <3>6 DEF ReleaseCount, Releasing
      <4> QED BY <3>5, <4>1 DEF HubInv
    <3>7. CASE count # 1
      <4>1. Cardinality(Tokens') # 0
        BY <3>3, <3>5, <3>7, TokensFinite DEF HubInv
      <4>2. Tokens' # {} BY <4>1, FS_EmptySet
      <4> QED BY <3>5, <4>2 DEF HubInv
    <3> QED BY <3>6, <3>7
  <2>3. CASE ReleaseForget(b)
    <3>1. Tokens' = Tokens /\ b \in Releasing'
      BY <2>3 DEF ReleaseForget, Tokens, Releasing
    <3> QED BY <2>3, <3>1 DEF ReleaseForget, HubInv
  <2>4. CASE ReleaseUnwatch(b)
    <3>1. Tokens' = Tokens BY <2>4 DEF ReleaseUnwatch, Tokens
    <3>2. \A c \in Gets : token[c] = "forget" => token'[c] = "forget"
      BY <2>4 DEF ReleaseUnwatch
    <3> QED BY <2>4, <3>1, <3>2 DEF ReleaseUnwatch, HubInv
  <2> QED BY <1>2, <2>1, <2>2, <2>3, <2>4 DEF ReleaseToken
<1>3. CASE Change \/ DrainEvents \/ UNCHANGED pairVars
  BY <1>3, SameTokens DEF Change, DrainEvents, pairVars, Tokens, Releasing
<1>4. CASE Watcher \/ Reload
  <2>1. Tokens' = Tokens /\ Releasing' = Releasing
    BY <1>4 DEF Watcher, Reload, Invalidate, TokenPlaces, Tokens, Releasing
  <2>2. \A c \in Gets : token[c] = "forget" => token'[c] = "forget"
    BY <1>4 DEF Watcher, Reload, Invalidate, TokenPlaces
  <2> QED BY <1>4, <2>1, <2>2, SameTokens DEF Watcher, Reload, Invalidate
<1>5. ASSUME NEW t \in timers, WakeUp(t) PROVE HubInv'
  BY <1>5, SameTokens DEF WakeUp, Tokens, Releasing
<1> QED BY <1>1, <1>2, <1>3, <1>4, <1>5 DEF BindingsNext

(***************************************************************************)
(* The inductive invariant of binding_for, invalidate_bindings and the     *)
(* hub's subscribe and release.                                            *)
(***************************************************************************)
THEOREM BindingsInvariant == BindingsSpec => []BindingsInv
<1>1. IInv /\ [BindingsNext]_pairVars => IInv'
  BY BindingsTypeStep, PlacesStep, HubStep DEF IInv, BindingsInv
<1>2. IInv => BindingsInv BY DEF IInv
<1> QED BY <1>1, <1>2, BindingsInitInv, PTL DEF BindingsSpec

(***************************************************************************)
(* However many calls of binding_for build at once, every caller whose     *)
(* binding was not invalidated has the cached one.                         *)
(***************************************************************************)
THEOREM OneLiveCatalog == BindingsSpec => []OneCatalog
<1>1. BindingsInv => OneCatalog BY DEF BindingsInv
<1> QED BY <1>1, BindingsInvariant, PTL

(***************************************************************************)
(* subscribe and release keep the count, and leave no key and no watch     *)
(* behind when the last token is gone.                                     *)
(***************************************************************************)
THEOREM NoLeakedWatch == BindingsSpec => []WatchesAreOwned
<1>1. BindingsInv => WatchesAreOwned
  BY DEF BindingsInv, HubInv, WatchesAreOwned, Releasing
<1> QED BY <1>1, BindingsInvariant, PTL
=============================================================================

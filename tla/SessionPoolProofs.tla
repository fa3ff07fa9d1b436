------------------------- MODULE SessionPoolProofs -------------------------
(***************************************************************************)
(* Proofs about SessionPool: for any calls, ids and capacity, no engine is *)
(* leaked, no session is left with a stopped engine, and the per-id lock   *)
(* keeps the transcript a resume found.                                    *)
(***************************************************************************)
EXTENDS SessionPool, FiniteSetTheorems, TLAPS

IInv == TypeOK /\ PoolInv

LEMMA InitInv == Init => IInv
<1> USE PoolAssumption
<1>1. ASSUME Init PROVE TypeOK
  BY <1>1 DEF Init, TypeOK, FirstStage, Stages, AllKinds
<1>2. ASSUME Init PROVE EngineStages /\ MapIsSpawned /\ LockIsHeld
  BY <1>2 DEF Init, FirstStage, AllKinds, EngineStages, MapIsSpawned,
       LockIsHeld, Spawned, Early, Building, Resuming, Deleting
<1>3. ASSUME Init PROVE NoLeakedEngine /\ StoppedIsReplaced /\ ResumeKeepsHistory
  BY <1>3 DEF Init, NoLeakedEngine, StoppedIsReplaced, ResumeKeepsHistory
<1> QED BY <1>1, <1>2, <1>3 DEF IInv, PoolInv

LEMMA CallTypes ==
  ASSUME TypeOK, NEW c \in Calls, Step(c)
  PROVE  TypeOK'
<1> USE PoolAssumption DEF TypeOK, Stages, AllKinds, Goto, Entry, Leave, Remove,
      callVars, engineVars, diskVars
<1>1. CASE CheckTurn(c) BY <1>1 DEF CheckTurn
<1>2. CASE Probe(c) BY <1>2 DEF Probe
<1>3. CASE CheckResume(c) BY <1>3 DEF CheckResume
<1>4. CASE Lock(c) BY <1>4 DEF Lock
<1>5. CASE \E b \in BOOLEAN : History(c, b) BY <1>5 DEF History
<1>6. CASE Resolve(c) BY <1>6 DEF Resolve
<1>7. CASE Build(c) BY <1>7 DEF Build
<1>8. CASE Stop(c) BY <1>8 DEF Stop
<1>9. CASE Await(c) BY <1>9 DEF Await
<1>10. CASE Load(c) BY <1>10 DEF Load
<1>11. CASE Insert(c) BY <1>11 DEF Insert, Live
<1>12. CASE LookUp(c) BY <1>12 DEF LookUp
<1>13. CASE Take(c) BY <1>13 DEF Take
<1>14. CASE Send(c) BY <1>14 DEF Send
<1>15. CASE TurnEnded(c) BY <1>15 DEF TurnEnded
<1>16. CASE EngineGone(c) BY <1>16 DEF EngineGone
<1>17. CASE RemoveEntry(c) BY <1>17 DEF RemoveEntry
<1>18. CASE Erase(c) BY <1>18 DEF Erase
<1>19. CASE Unlock(c) BY <1>19 DEF Unlock
<1> QED BY <1>1, <1>2, <1>3, <1>4, <1>5, <1>6, <1>7, <1>8, <1>9, <1>10, <1>11,
     <1>12, <1>13, <1>14, <1>15, <1>16, <1>17, <1>18, <1>19 DEF Step

LEMMA CallStages ==
  ASSUME IInv, NEW c \in Calls, Step(c)
  PROVE  EngineStages'
<1> USE PoolAssumption DEF IInv, TypeOK, PoolInv, Stages, AllKinds, Goto, Entry, Leave, Remove,
      callVars, engineVars, diskVars,
      EngineStages, Early, Building
<1>1. CASE CheckTurn(c) BY <1>1 DEF CheckTurn
<1>2. CASE Probe(c) BY <1>2 DEF Probe
<1>3. CASE CheckResume(c) BY <1>3 DEF CheckResume
<1>4. CASE Lock(c) BY <1>4 DEF Lock
<1>5. CASE \E b \in BOOLEAN : History(c, b) BY <1>5 DEF History
<1>6. CASE Resolve(c) BY <1>6 DEF Resolve
<1>7. CASE Build(c) BY <1>7 DEF Build
<1>8. CASE Stop(c) BY <1>8 DEF Stop
<1>9. CASE Await(c) BY <1>9 DEF Await
<1>10. CASE Load(c) BY <1>10 DEF Load
<1>11. CASE Insert(c) BY <1>11 DEF Insert, Live
<1>12. CASE LookUp(c) BY <1>12 DEF LookUp
<1>13. CASE Take(c) BY <1>13 DEF Take
<1>14. CASE Send(c) BY <1>14 DEF Send
<1>15. CASE TurnEnded(c) BY <1>15 DEF TurnEnded
<1>16. CASE EngineGone(c) BY <1>16 DEF EngineGone
<1>17. CASE RemoveEntry(c) BY <1>17 DEF RemoveEntry
<1>18. CASE Erase(c) BY <1>18 DEF Erase
<1>19. CASE Unlock(c) BY <1>19 DEF Unlock
<1> QED BY <1>1, <1>2, <1>3, <1>4, <1>5, <1>6, <1>7, <1>8, <1>9, <1>10, <1>11,
     <1>12, <1>13, <1>14, <1>15, <1>16, <1>17, <1>18, <1>19 DEF Step

LEMMA CallMap ==
  ASSUME IInv, NEW c \in Calls, Step(c)
  PROVE  MapIsSpawned'
<1> USE PoolAssumption DEF IInv, TypeOK, PoolInv, Stages, AllKinds, Goto, Entry, Leave, Remove,
      callVars, engineVars, diskVars,
      EngineStages, Early, Building, MapIsSpawned, Spawned
<1>1. CASE CheckTurn(c) BY <1>1 DEF CheckTurn
<1>2. CASE Probe(c) BY <1>2 DEF Probe
<1>3. CASE CheckResume(c) BY <1>3 DEF CheckResume
<1>4. CASE Lock(c) BY <1>4 DEF Lock
<1>5. CASE \E b \in BOOLEAN : History(c, b) BY <1>5 DEF History
<1>6. CASE Resolve(c) BY <1>6 DEF Resolve
<1>7. CASE Build(c) BY <1>7 DEF Build
<1>8. CASE Stop(c) BY <1>8 DEF Stop
<1>9. CASE Await(c) BY <1>9 DEF Await
<1>10. CASE Load(c) BY <1>10 DEF Load
<1>11. CASE Insert(c) BY <1>11 DEF Insert, Live
<1>12. CASE LookUp(c) BY <1>12 DEF LookUp
<1>13. CASE Take(c) BY <1>13 DEF Take
<1>14. CASE Send(c) BY <1>14 DEF Send
<1>15. CASE TurnEnded(c) BY <1>15 DEF TurnEnded
<1>16. CASE EngineGone(c) BY <1>16 DEF EngineGone
<1>17. CASE RemoveEntry(c) BY <1>17 DEF RemoveEntry
<1>18. CASE Erase(c) BY <1>18 DEF Erase
<1>19. CASE Unlock(c) BY <1>19 DEF Unlock
<1> QED BY <1>1, <1>2, <1>3, <1>4, <1>5, <1>6, <1>7, <1>8, <1>9, <1>10, <1>11,
     <1>12, <1>13, <1>14, <1>15, <1>16, <1>17, <1>18, <1>19 DEF Step

LEMMA CallLock ==
  ASSUME IInv, NEW c \in Calls, Step(c)
  PROVE  LockIsHeld'
<1> USE PoolAssumption DEF IInv, TypeOK, PoolInv, Stages, AllKinds, Goto, Entry, Leave, Remove,
      callVars, engineVars, diskVars,
      LockIsHeld, Resuming, Deleting, Building
<1>1. CASE CheckTurn(c) BY <1>1 DEF CheckTurn
<1>2. CASE Probe(c) BY <1>2 DEF Probe
<1>3. CASE CheckResume(c) BY <1>3 DEF CheckResume
<1>4. CASE Lock(c) BY <1>4 DEF Lock
<1>5. CASE \E b \in BOOLEAN : History(c, b) BY <1>5 DEF History
<1>6. CASE Resolve(c) BY <1>6 DEF Resolve
<1>7. CASE Build(c) BY <1>7 DEF Build
<1>8. CASE Stop(c) BY <1>8 DEF Stop
<1>9. CASE Await(c) BY <1>9 DEF Await
<1>10. CASE Load(c) BY <1>10 DEF Load
<1>11. CASE Insert(c) BY <1>11 DEF Insert, Live
<1>12. CASE LookUp(c) BY <1>12 DEF LookUp
<1>13. CASE Take(c) BY <1>13 DEF Take
<1>14. CASE Send(c) BY <1>14 DEF Send
<1>15. CASE TurnEnded(c) BY <1>15 DEF TurnEnded
<1>16. CASE EngineGone(c) BY <1>16 DEF EngineGone
<1>17. CASE RemoveEntry(c) BY <1>17 DEF RemoveEntry
<1>18. CASE Erase(c) BY <1>18 DEF Erase
<1>19. CASE Unlock(c) BY <1>19 DEF Unlock
<1> QED BY <1>1, <1>2, <1>3, <1>4, <1>5, <1>6, <1>7, <1>8, <1>9, <1>10, <1>11,
     <1>12, <1>13, <1>14, <1>15, <1>16, <1>17, <1>18, <1>19 DEF Step

LEMMA CallLeaks ==
  ASSUME IInv, NEW c \in Calls, Step(c)
  PROVE  NoLeakedEngine'
<1> USE PoolAssumption DEF IInv, TypeOK, PoolInv, Stages, AllKinds, Goto, Entry, Leave, Remove,
      callVars, engineVars, diskVars,
      NoLeakedEngine, EngineStages, Early, Building, MapIsSpawned, Spawned
<1>1. CASE CheckTurn(c) BY <1>1 DEF CheckTurn
<1>2. CASE Probe(c) BY <1>2 DEF Probe
<1>3. CASE CheckResume(c) BY <1>3 DEF CheckResume
<1>4. CASE Lock(c) BY <1>4 DEF Lock
<1>5. CASE \E b \in BOOLEAN : History(c, b) BY <1>5 DEF History
<1>6. CASE Resolve(c) BY <1>6 DEF Resolve
<1>7. CASE Build(c) BY <1>7 DEF Build
<1>8. CASE Stop(c) BY <1>8 DEF Stop
<1>9. CASE Await(c) BY <1>9 DEF Await
<1>10. CASE Load(c) BY <1>10 DEF Load
<1>11. CASE Insert(c) BY <1>11 DEF Insert, Live
<1>12. CASE LookUp(c) BY <1>12 DEF LookUp
<1>13. CASE Take(c) BY <1>13 DEF Take
<1>14. CASE Send(c) BY <1>14 DEF Send
<1>15. CASE TurnEnded(c) BY <1>15 DEF TurnEnded
<1>16. CASE EngineGone(c) BY <1>16 DEF EngineGone
<1>17. CASE RemoveEntry(c) BY <1>17 DEF RemoveEntry
<1>18. CASE Erase(c) BY <1>18 DEF Erase
<1>19. CASE Unlock(c) BY <1>19 DEF Unlock
<1> QED BY <1>1, <1>2, <1>3, <1>4, <1>5, <1>6, <1>7, <1>8, <1>9, <1>10, <1>11,
     <1>12, <1>13, <1>14, <1>15, <1>16, <1>17, <1>18, <1>19 DEF Step

LEMMA CallStops ==
  ASSUME IInv, NEW c \in Calls, Step(c)
  PROVE  StoppedIsReplaced'
<1> USE PoolAssumption DEF IInv, TypeOK, PoolInv, Stages, AllKinds, Goto, Entry, Leave, Remove,
      callVars, engineVars, diskVars,
      StoppedIsReplaced, EngineStages, Early, Building, MapIsSpawned, Spawned
<1>1. CASE CheckTurn(c) BY <1>1 DEF CheckTurn
<1>2. CASE Probe(c) BY <1>2 DEF Probe
<1>3. CASE CheckResume(c) BY <1>3 DEF CheckResume
<1>4. CASE Lock(c) BY <1>4 DEF Lock
<1>5. CASE \E b \in BOOLEAN : History(c, b) BY <1>5 DEF History
<1>6. CASE Resolve(c) BY <1>6 DEF Resolve
<1>7. CASE Build(c) BY <1>7 DEF Build
<1>8. CASE Stop(c) BY <1>8 DEF Stop
<1>9. CASE Await(c) BY <1>9 DEF Await
<1>10. CASE Load(c) BY <1>10 DEF Load
<1>11. CASE Insert(c) BY <1>11 DEF Insert, Live
<1>12. CASE LookUp(c) BY <1>12 DEF LookUp
<1>13. CASE Take(c) BY <1>13 DEF Take
<1>14. CASE Send(c) BY <1>14 DEF Send
<1>15. CASE TurnEnded(c) BY <1>15 DEF TurnEnded
<1>16. CASE EngineGone(c) BY <1>16 DEF EngineGone
<1>17. CASE RemoveEntry(c) BY <1>17 DEF RemoveEntry
<1>18. CASE Erase(c) BY <1>18 DEF Erase
<1>19. CASE Unlock(c) BY <1>19 DEF Unlock
<1> QED BY <1>1, <1>2, <1>3, <1>4, <1>5, <1>6, <1>7, <1>8, <1>9, <1>10, <1>11,
     <1>12, <1>13, <1>14, <1>15, <1>16, <1>17, <1>18, <1>19 DEF Step

LEMMA CallHistory ==
  ASSUME IInv, NEW c \in Calls, Step(c)
  PROVE  ResumeKeepsHistory'
<1> USE PoolAssumption DEF IInv, TypeOK, PoolInv, Stages, AllKinds, Goto, Entry, Leave, Remove,
      callVars, engineVars, diskVars,
      ResumeKeepsHistory, LockIsHeld, Resuming, Deleting, Building
<1>1. CASE CheckTurn(c) BY <1>1 DEF CheckTurn
<1>2. CASE Probe(c) BY <1>2 DEF Probe
<1>3. CASE CheckResume(c) BY <1>3 DEF CheckResume
<1>4. CASE Lock(c) BY <1>4 DEF Lock
<1>5. CASE \E b \in BOOLEAN : History(c, b) BY <1>5 DEF History
<1>6. CASE Resolve(c) BY <1>6 DEF Resolve
<1>7. CASE Build(c) BY <1>7 DEF Build
<1>8. CASE Stop(c) BY <1>8 DEF Stop
<1>9. CASE Await(c) BY <1>9 DEF Await
<1>10. CASE Load(c) BY <1>10 DEF Load
<1>11. CASE Insert(c) BY <1>11 DEF Insert, Live
<1>12. CASE LookUp(c) BY <1>12 DEF LookUp
<1>13. CASE Take(c) BY <1>13 DEF Take
<1>14. CASE Send(c) BY <1>14 DEF Send
<1>15. CASE TurnEnded(c) BY <1>15 DEF TurnEnded
<1>16. CASE EngineGone(c) BY <1>16 DEF EngineGone
<1>17. CASE RemoveEntry(c) BY <1>17 DEF RemoveEntry
<1>18. CASE Erase(c) BY <1>18 DEF Erase
<1>19. CASE Unlock(c) BY <1>19 DEF Unlock
<1> QED BY <1>1, <1>2, <1>3, <1>4, <1>5, <1>6, <1>7, <1>8, <1>9, <1>10, <1>11,
     <1>12, <1>13, <1>14, <1>15, <1>16, <1>17, <1>18, <1>19 DEF Step


LEMMA CallStep ==
  ASSUME IInv, NEW c \in Calls, Step(c)
  PROVE  IInv'
BY CallTypes, CallStages, CallMap, CallLock, CallLeaks, CallStops, CallHistory
   DEF IInv, PoolInv

LEMMA EngineSteps ==
  ASSUME IInv, NEW a \in Calls, EngineStep(a)
  PROVE  IInv'
<1> USE PoolAssumption DEF callVars, engineVars, diskVars
<1>1. TypeOK'
  BY DEF IInv, TypeOK, EngineStep, BeginTurn, FinishTurn, Exit
<1>2. EngineStages'
  BY DEF IInv, TypeOK, PoolInv, EngineStages, EngineStep, BeginTurn, FinishTurn, Exit
<1>3. MapIsSpawned'
  BY DEF IInv, TypeOK, PoolInv, MapIsSpawned, Spawned, EngineStep, BeginTurn, FinishTurn, Exit
<1>4. LockIsHeld'
  BY DEF IInv, PoolInv, LockIsHeld, EngineStep, BeginTurn, FinishTurn, Exit
<1>5. NoLeakedEngine'
  BY DEF IInv, TypeOK, PoolInv, NoLeakedEngine, EngineStep, BeginTurn, FinishTurn, Exit
<1>6. StoppedIsReplaced'
  BY DEF IInv, PoolInv, StoppedIsReplaced, EngineStep, BeginTurn, FinishTurn, Exit
<1>7. ResumeKeepsHistory'
  BY DEF IInv, PoolInv, ResumeKeepsHistory, EngineStep, BeginTurn, FinishTurn, Exit
<1> QED BY <1>1, <1>2, <1>3, <1>4, <1>5, <1>6, <1>7 DEF IInv, PoolInv

LEMMA EvictStep ==
  ASSUME IInv, NEW s \in Ids, Evict(s)
  PROVE  IInv'
<1> USE PoolAssumption DEF Evict, Remove, callVars, diskVars
<1>1. TypeOK'
  BY DEF IInv, TypeOK
<1>2. EngineStages' /\ LockIsHeld' /\ ResumeKeepsHistory'
  BY DEF IInv, PoolInv, EngineStages, LockIsHeld, ResumeKeepsHistory
<1>3. MapIsSpawned'
  BY DEF IInv, TypeOK, PoolInv, MapIsSpawned, Spawned
<1>4. NoLeakedEngine'
  BY DEF IInv, TypeOK, PoolInv, NoLeakedEngine
<1>5. StoppedIsReplaced'
  BY DEF IInv, TypeOK, PoolInv, StoppedIsReplaced, MapIsSpawned
<1> QED BY <1>1, <1>2, <1>3, <1>4, <1>5 DEF IInv, PoolInv

LEMMA InvariantStep == IInv /\ [Next]_vars => IInv'
<1> SUFFICES ASSUME IInv, [Next]_vars PROVE IInv' OBVIOUS
<1>1. ASSUME Invalidate PROVE IInv'
  <2>1. TypeOK'
    BY <1>1 DEF Invalidate, callVars, diskVars, IInv, TypeOK
  <2>2. PoolInv'
    BY <1>1 DEF Invalidate, callVars, diskVars, IInv, PoolInv, EngineStages,
         MapIsSpawned, Spawned, LockIsHeld, NoLeakedEngine, StoppedIsReplaced,
         ResumeKeepsHistory
  <2> QED BY <2>1, <2>2 DEF IInv
<1>2. ASSUME UNCHANGED vars PROVE IInv'
  BY <1>2 DEF vars, callVars, engineVars, diskVars, IInv, TypeOK, PoolInv,
       EngineStages, MapIsSpawned, Spawned, LockIsHeld, NoLeakedEngine,
       StoppedIsReplaced, ResumeKeepsHistory
<1> QED BY <1>1, <1>2, CallStep, EngineSteps, EvictStep DEF Next, AllDone

(***************************************************************************)
(* The inductive invariant of SessionPool holds in every state.            *)
(***************************************************************************)
THEOREM PoolInvariant == Spec => []IInv
BY InitInv, InvariantStep, PTL DEF Spec

(***************************************************************************)
(* However creates, rebuilds, evictions and closes interleave, an engine   *)
(* that was not told to stop is the one the sessions map points to.        *)
(***************************************************************************)
THEOREM EnginesAreOwned == Spec => []NoLeakedEngine
<1>1. IInv => NoLeakedEngine BY DEF IInv, PoolInv
<1> QED BY <1>1, PoolInvariant, PTL

(***************************************************************************)
(* An entry whose engine was stopped has a call about to replace it.       *)
(***************************************************************************)
THEOREM NoDeadEntry == Spec => []StoppedIsReplaced
<1>1. IInv => StoppedIsReplaced BY DEF IInv, PoolInv
<1> QED BY <1>1, PoolInvariant, PTL

(***************************************************************************)
(* Deletes of an id wait for its resumes: what a resume found on disk is   *)
(* there until it has loaded it.                                           *)
(***************************************************************************)
THEOREM ResumeAgainstDelete == Spec => []ResumeKeepsHistory
<1>1. IInv => ResumeKeepsHistory BY DEF IInv, PoolInv
<1> QED BY <1>1, PoolInvariant, PTL

-----------------------------------------------------------------------------
(* The capacity.                                                           *)

LEMMA LiveIsFinite == IsFiniteSet(Live) /\ Cardinality(Live) \in Nat
BY PoolAssumption, FS_Subset, FS_CardinalityType DEF Live

\* Fewer live sessions, or the same ones.
LEMMA FewerLive ==
  ASSUME Live' \subseteq Live, WithinCap
  PROVE  WithinCap'
BY LiveIsFinite, FS_Subset, FS_CardinalityType, PoolAssumption DEF WithinCap

LEMMA InsertWithinCap ==
  ASSUME TypeOK, WithinCap, NEW c \in Calls, Insert(c)
  PROVE  WithinCap'
<1> USE PoolAssumption DEF TypeOK
<1>1. CASE Entry(c) # None
  <2>1. Live' \subseteq Live
    BY <1>1 DEF Insert, Live, Entry
  <2> QED BY <2>1, FewerLive
<1>2. CASE Entry(c) = None /\ Cardinality(Live) >= Cap
  <2>1. PICK out \in Live :
          map' = [s \in Ids |-> IF s = id[c] THEN c ELSE IF s = out THEN None ELSE map[s]]
    BY <1>2 DEF Insert
  <2>2. Live' \subseteq (Live \ {out}) \cup {id[c]} /\ id[c] \notin Live
    BY <1>2, <2>1 DEF Live, Entry
  <2>3. IsFiniteSet(Live \ {out}) /\ Cardinality(Live \ {out}) = Cardinality(Live) - 1
    BY <2>1, LiveIsFinite, FS_RemoveElement
  <2>4. /\ IsFiniteSet((Live \ {out}) \cup {id[c]})
        /\ Cardinality((Live \ {out}) \cup {id[c]}) = Cardinality(Live \ {out}) + 1
    <3> DEFINE L == Live \ {out}
    <3>1. IsFiniteSet(L) /\ id[c] \notin L BY <2>2, <2>3
    <3> HIDE DEF L
    <3>2. IsFiniteSet(L \cup {id[c]}) /\ Cardinality(L \cup {id[c]}) = Cardinality(L) + 1
      BY <3>1, FS_AddElement
    <3> QED BY <3>2 DEF L
  <2>5. Cardinality(Live') <= Cardinality(Live) /\ Cardinality(Live') \in Nat
    BY <2>2, <2>3, <2>4, LiveIsFinite, FS_Subset, FS_CardinalityType
  <2> QED BY <2>5, LiveIsFinite DEF WithinCap
<1>3. CASE Entry(c) = None /\ ~(Cardinality(Live) >= Cap)
  <2>1. map' = [s \in Ids |-> IF s = id[c] THEN c ELSE IF s = None THEN None ELSE map[s]]
    BY <1>3 DEF Insert
  <2>2. Live' \subseteq Live \cup {id[c]} /\ id[c] \notin Live
    BY <1>3, <2>1 DEF Live, Entry
  <2>3. /\ IsFiniteSet(Live \cup {id[c]})
        /\ Cardinality(Live \cup {id[c]}) = Cardinality(Live) + 1
    BY <2>2, LiveIsFinite, FS_AddElement
  <2>4. Cardinality(Live') <= Cardinality(Live) + 1 /\ Cardinality(Live') \in Nat
    BY <2>2, <2>3, FS_Subset, FS_CardinalityType
  <2> QED BY <1>3, <2>4, LiveIsFinite DEF WithinCap
<1> QED BY <1>1, <1>2, <1>3

(***************************************************************************)
(* The pool never holds more than its capacity of sessions.                *)
(***************************************************************************)
THEOREM PoolIsBounded == Spec => []WithinCap
<1>1. Init => WithinCap
  <2>1. Init => Live = {} BY DEF Init, Live
  <2> QED BY <2>1, FS_EmptySet, PoolAssumption DEF WithinCap
<1>2. IInv /\ WithinCap /\ [Next]_vars => WithinCap'
  <2> SUFFICES ASSUME IInv, WithinCap, [Next]_vars PROVE WithinCap' OBVIOUS
  <2>1. ASSUME NEW c \in Calls, Insert(c) PROVE WithinCap'
    BY <2>1, InsertWithinCap DEF IInv
  <2>2. ASSUME NEW c \in Calls, Step(c), ~Insert(c) PROVE Live' \subseteq Live
    BY <2>2 DEF IInv, TypeOK, Step, Live, Remove, CheckTurn, Probe, CheckResume,
         Lock, History, Resolve, Build, Stop, Await, Load, LookUp, Take, Send,
         TurnEnded, EngineGone, RemoveEntry, Erase, Unlock
  <2>3. ASSUME NEW a \in Calls, EngineStep(a) PROVE Live' \subseteq Live
    BY <2>3 DEF EngineStep, BeginTurn, FinishTurn, Exit, Live
  <2>4. ASSUME NEW s \in Ids, Evict(s) PROVE Live' \subseteq Live
    BY <2>4 DEF IInv, TypeOK, Evict, Remove, Live
  <2>5. ASSUME Invalidate \/ UNCHANGED vars PROVE Live' \subseteq Live
    BY <2>5 DEF Invalidate, vars, Live
  <2> QED BY <2>1, <2>2, <2>3, <2>4, <2>5, FewerLive DEF Next, AllDone
<1> QED BY <1>1, <1>2, PoolInvariant, PTL DEF Spec
=============================================================================

---------------------------- MODULE SessionPool ----------------------------
(***************************************************************************)
(* The daemon's sessions: which engines exist, which one the sessions map  *)
(* points to, and what is on disk, while calls create, resume, rebuild,    *)
(* evict, close and delete sessions under the same ids.                    *)
(*                                                                         *)
(* Every visit to the sessions map is one step, and so is every await in   *)
(* between: what a call read from the map may be out of date when it acts. *)
(* The per-id lock of with_session_lock is taken as the mutex that module  *)
(* SessionLock is shown to implement.  An engine is named by the call that *)
(* built it, since a call builds at most one.  What a turn does inside the *)
(* engine, and the on_busy policies, are the subject of SessionTurns: here *)
(* a turn makes the engine dirty and its end persists.  Writes that fail   *)
(* are the subject of Transcript: here they succeed.                       *)
(***************************************************************************)
EXTENDS Naturals, FiniteSets

CONSTANTS
  Calls,     \* JSON-RPC calls, each made once
  Ids,       \* session ids
  Cap,       \* max_sessions
  Kinds,     \* the calls made: a subset of AllKinds
  Grace,     \* whether AGENT_EXIT_GRACE may run out
  None

AllKinds == {"turn", "resume", "delete", "close"}

ASSUME PoolAssumption ==
  /\ None \notin Calls \cup Ids
  /\ Cap \in Nat \ {0} /\ IsFiniteSet(Ids)
  /\ Kinds \subseteq AllKinds
  /\ Grace \in BOOLEAN

VARIABLES
  map,      \* sessions: the engine under each id
  kind, id, \* what each call is, and for which session
  pc,       \* where each call is
  found,    \* resume: history_counts saw a transcript
  has,      \* has_history, as the call read it
  eng,      \* the engine a call holds handles of
  locked,   \* who is inside with_session_lock, per id
  engine,   \* the task of each engine
  cancel,   \* its token
  stale,    \* the stale flag of its binding
  slot,     \* who holds its event_rx
  inbox,    \* the message sent to it
  working,  \* the call whose turn it runs
  dirty,    \* it holds messages it has not persisted
  ended,    \* calls whose turn's terminal event was sent
  file,     \* the transcript exists
  deleted   \* history: session.delete erased it and nobody created it again

callVars   == <<kind, id, pc, found, has, eng>>
engineVars == <<engine, cancel, stale, slot, inbox, working, dirty, ended>>
diskVars   == <<file, deleted>>
vars       == <<map, callVars, locked, engineVars, diskVars>>

Stages == {"check", "probe", "lock", "history", "resolve", "build", "stop",
           "await", "load", "insert", "slot", "take", "send", "stream",
           "remove", "erase", "unlock", "done"}

TypeOK ==
  /\ map \in [Ids -> Calls \cup {None}]
  /\ kind \in [Calls -> AllKinds] /\ id \in [Calls -> Ids]
  /\ pc \in [Calls -> Stages]
  /\ found \subseteq Calls /\ has \subseteq Calls
  /\ eng \in [Calls -> Calls \cup {None}]
  /\ locked \in [Ids -> Calls \cup {None}]
  /\ engine \in [Calls -> {"none", "built", "running", "exited"}]
  /\ cancel \subseteq Calls /\ stale \subseteq Calls
  /\ slot \in [Calls -> Calls \cup {None}]
  /\ inbox \in [Calls -> Calls \cup {None}]
  /\ working \in [Calls -> Calls \cup {None}]
  /\ dirty \subseteq Calls /\ ended \subseteq Calls
  /\ file \subseteq Ids /\ deleted \subseteq Ids

FirstStage(k) ==
  IF k = "delete" THEN "lock" ELSE IF k = "close" THEN "remove" ELSE "check"

Init ==
  /\ map = [s \in Ids |-> None]
  /\ kind \in [Calls -> Kinds] /\ id \in [Calls -> Ids]
  /\ pc = [c \in Calls |-> FirstStage(kind[c])]
  /\ found = {} /\ has = {}
  /\ eng = [c \in Calls |-> None]
  /\ locked = [s \in Ids |-> None]
  /\ engine = [c \in Calls |-> "none"]
  /\ cancel = {} /\ stale = {}
  /\ slot = [c \in Calls |-> None]
  /\ inbox = [c \in Calls |-> None]
  /\ working = [c \in Calls |-> None]
  /\ dirty = {} /\ ended = {}
  /\ file \in SUBSET Ids /\ deleted = {}

Live == {s \in Ids : map[s] # None}
Entry(c) == map[id[c]]

Goto(c, l) == pc' = [pc EXCEPT ![c] = l]

\* Where a call goes when it needs no engine any more.
Leave(c) == Goto(c, IF locked[id[c]] = c THEN "unlock" ELSE "done")

\* sessions.remove(s), and the token of what was there.
Remove(s) ==
  /\ map' = [map EXCEPT ![s] = None]
  /\ cancel' = IF map[s] = None THEN cancel ELSE cancel \cup {map[s]}

-----------------------------------------------------------------------------
(* Finding the session, or building it.                                    *)

(***************************************************************************)
(* run_turn: not in the map, build it; on a binding that was invalidated,  *)
(* look whether it is idle; otherwise use it.                              *)
(***************************************************************************)
CheckTurn(c) ==
  /\ pc[c] = "check" /\ kind[c] = "turn"
  /\ IF Entry(c) = None THEN Goto(c, "resolve") /\ UNCHANGED eng
     ELSE IF Entry(c) \in stale
          THEN Goto(c, "probe") /\ eng' = [eng EXCEPT ![c] = Entry(c)]
          ELSE Goto(c, "slot") /\ UNCHANGED eng
  /\ UNCHANGED <<map, kind, id, found, has, locked, engineVars, diskVars>>

\* event_rx.lock().is_some(), on the handle cloned before
Probe(c) ==
  /\ pc[c] = "probe"
  /\ Goto(c, IF slot[eng[c]] = None THEN "resolve" ELSE "slot")
  /\ UNCHANGED <<map, kind, id, found, has, eng, locked, engineVars, diskVars>>

\* resume_session: an already live session is left alone.
CheckResume(c) ==
  /\ pc[c] = "check" /\ kind[c] = "resume"
  /\ Goto(c, IF Entry(c) = None THEN "lock" ELSE "done")
  /\ UNCHANGED <<map, kind, id, found, has, eng, locked, engineVars, diskVars>>

\* Mutant: with_session_lock does not wait.
LockAtOnce(c) ==
  /\ pc[c] = "lock"
  /\ locked' = [locked EXCEPT ![id[c]] = c]
  /\ Goto(c, IF kind[c] = "resume" THEN "history" ELSE "remove")
  /\ UNCHANGED <<map, kind, id, found, has, eng, engineVars, diskVars>>

Lock(c) ==
  /\ pc[c] = "lock" /\ locked[id[c]] = None
  /\ locked' = [locked EXCEPT ![id[c]] = c]
  /\ Goto(c, IF kind[c] = "resume" THEN "history" ELSE "remove")
  /\ UNCHANGED <<map, kind, id, found, has, eng, engineVars, diskVars>>

\* Is there anything to resume?  Without create_if_missing there must be.
History(c, createIfMissing) ==
  /\ pc[c] = "history"
  /\ found' = IF id[c] \in file THEN found \cup {c} ELSE found
  /\ IF id[c] \in file \/ createIfMissing THEN Goto(c, "resolve") ELSE Leave(c)
  /\ UNCHANGED <<map, kind, id, has, eng, locked, engineVars, diskVars>>

\* resume_or_create: load the transcript to see whether there is one.
Resolve(c) ==
  /\ pc[c] = "resolve"
  /\ has' = IF id[c] \in file THEN has \cup {c} ELSE has
  /\ Goto(c, "build")
  /\ UNCHANGED <<map, kind, id, found, eng, locked, engineVars, diskVars>>

\* create: the agent, and for a session without history its Meta line.
Build(c) ==
  /\ pc[c] = "build"
  /\ engine' = [engine EXCEPT ![c] = "built"]
  /\ eng' = [eng EXCEPT ![c] = c]
  /\ IF c \in has
     THEN Goto(c, "stop") /\ UNCHANGED diskVars
     ELSE /\ Goto(c, "insert")
          /\ file' = file \cup {id[c]} /\ deleted' = deleted \ {id[c]}
  /\ UNCHANGED <<map, kind, id, found, has, locked, cancel, stale, slot, inbox,
                 working, dirty, ended>>

\* stop_live_agent: cancel what the map has, and wait for it.
Stop(c) ==
  /\ pc[c] = "stop"
  /\ IF Entry(c) = None
     THEN Goto(c, "load") /\ UNCHANGED <<cancel, eng>>
     ELSE /\ Goto(c, "await")
          /\ cancel' = cancel \cup {Entry(c)}
          /\ eng' = [eng EXCEPT ![c] = Entry(c)]
  /\ UNCHANGED <<map, kind, id, found, has, locked, engine, stale, slot, inbox,
                 working, dirty, ended, diskVars>>

\* It exited, or AGENT_EXIT_GRACE is over.
Await(c) ==
  /\ pc[c] = "await"
  /\ engine[eng[c]] = "exited" \/ Grace
  /\ Goto(c, "load")
  /\ UNCHANGED <<map, kind, id, found, has, eng, locked, engineVars, diskVars>>

\* agent.resume_session; a transcript that is gone gives an empty context.
Load(c) ==
  /\ pc[c] = "load"
  /\ Goto(c, "insert")
  /\ UNCHANGED <<map, kind, id, found, has, eng, locked, engineVars, diskVars>>

\* Mutant: an engine that is replaced is not told.
InsertForgets(c) ==
  /\ pc[c] = "insert"
  /\ \E out \in (IF Entry(c) = None /\ Cardinality(Live) >= Cap THEN Live ELSE {None}) :
       /\ map' = [s \in Ids |-> IF s = id[c] THEN c ELSE IF s = out THEN None ELSE map[s]]
       /\ cancel' = cancel \cup {map[s] : s \in {out} \ {None}}
  /\ engine' = [engine EXCEPT ![c] = "running"]
  /\ eng' = [eng EXCEPT ![c] = None]
  /\ IF kind[c] = "turn" THEN Goto(c, "slot") ELSE Leave(c)
  /\ UNCHANGED <<kind, id, found, has, locked, stale, slot, inbox, working,
                 dirty, ended, diskVars>>

\* Mutant: room is made only once the map is over its capacity.
InsertOverCap(c) ==
  /\ pc[c] = "insert"
  /\ \E out \in (IF Entry(c) = None /\ Cardinality(Live) > Cap THEN Live ELSE {None}) :
       /\ map' = [s \in Ids |-> IF s = id[c] THEN c ELSE IF s = out THEN None ELSE map[s]]
       /\ cancel' = cancel \cup ({map[s] : s \in {out, id[c]} \ {None}} \ {None})
  /\ engine' = [engine EXCEPT ![c] = "running"]
  /\ eng' = [eng EXCEPT ![c] = None]
  /\ IF kind[c] = "turn" THEN Goto(c, "slot") ELSE Leave(c)
  /\ UNCHANGED <<kind, id, found, has, locked, stale, slot, inbox, working,
                 dirty, ended, diskVars>>

\* Mutant: an entry that is already there stays.
InsertKeepsOld(c) ==
  /\ pc[c] = "insert"
  /\ \E out \in (IF Entry(c) = None /\ Cardinality(Live) >= Cap THEN Live ELSE {None}) :
       /\ map' = [s \in Ids |-> IF s = id[c] /\ map[s] = None THEN c
                              ELSE IF s = out THEN None ELSE map[s]]
       /\ cancel' = cancel \cup {map[s] : s \in {out} \ {None}}
  /\ engine' = [engine EXCEPT ![c] = "running"]
  /\ eng' = [eng EXCEPT ![c] = None]
  /\ IF kind[c] = "turn" THEN Goto(c, "slot") ELSE Leave(c)
  /\ UNCHANGED <<kind, id, found, has, locked, stale, slot, inbox, working,
                 dirty, ended, diskVars>>

(***************************************************************************)
(* Spawn the engine and put it in the map: until it is there nobody has a  *)
(* handle of it, so it only waits.  A full pool that gains an entry evicts *)
(* one first (the least recently active: here, any); an entry under the    *)
(* same id is replaced, and its engine cancelled.                          *)
(***************************************************************************)
Insert(c) ==
  /\ pc[c] = "insert"
  /\ \E out \in (IF Entry(c) = None /\ Cardinality(Live) >= Cap THEN Live ELSE {None}) :
       /\ map' = [s \in Ids |-> IF s = id[c] THEN c ELSE IF s = out THEN None ELSE map[s]]
       /\ cancel' = cancel \cup ({map[s] : s \in {out, id[c]} \ {None}} \ {None})
  /\ engine' = [engine EXCEPT ![c] = "running"]
  /\ eng' = [eng EXCEPT ![c] = None]
  /\ IF kind[c] = "turn" THEN Goto(c, "slot") ELSE Leave(c)
  /\ UNCHANGED <<kind, id, found, has, locked, stale, slot, inbox, working,
                 dirty, ended, diskVars>>

-----------------------------------------------------------------------------
(* The turn.                                                               *)

\* Clone the handles of whatever engine the map has now.
LookUp(c) ==
  /\ pc[c] = "slot"
  /\ IF Entry(c) = None THEN Goto(c, "done") /\ UNCHANGED eng
     ELSE Goto(c, "take") /\ eng' = [eng EXCEPT ![c] = Entry(c)]
  /\ UNCHANGED <<map, kind, id, found, has, locked, engineVars, diskVars>>

\* event_rx.take(): ours, or SESSION_BUSY.
Take(c) ==
  /\ pc[c] = "take"
  /\ IF slot[eng[c]] = None
     THEN Goto(c, "send") /\ slot' = [slot EXCEPT ![eng[c]] = c]
     ELSE Goto(c, "done") /\ UNCHANGED slot
  /\ UNCHANGED <<map, kind, id, found, has, eng, locked, engine, cancel, stale,
                 inbox, working, dirty, ended, diskVars>>

\* input_tx.send; into a channel nobody reads if the engine is gone.
Send(c) ==
  /\ pc[c] = "send"
  /\ inbox' = IF engine[eng[c]] = "exited" THEN inbox
              ELSE [inbox EXCEPT ![eng[c]] = c]
  /\ Goto(c, "stream")
  /\ UNCHANGED <<map, kind, id, found, has, eng, locked, engine, cancel, stale,
                 slot, working, dirty, ended, diskVars>>

\* The terminal event: give event_rx back.
TurnEnded(c) ==
  /\ pc[c] = "stream" /\ c \in ended
  /\ slot' = [slot EXCEPT ![eng[c]] = None]
  /\ Goto(c, "done")
  /\ UNCHANGED <<map, kind, id, found, has, eng, locked, engine, cancel, stale,
                 inbox, working, dirty, ended, diskVars>>

\* Mutant: the caller waits for an event that will not come.
EngineGoneUnnoticed(c) ==
  /\ pc[c] = "stream" /\ c \notin ended /\ engine[eng[c]] = "exited"
  /\ UNCHANGED vars

\* The event channel is closed: drop the entry under this id.
EngineGone(c) ==
  /\ pc[c] = "stream" /\ c \notin ended /\ engine[eng[c]] = "exited"
  /\ Remove(id[c])
  /\ Goto(c, "done")
  /\ UNCHANGED <<kind, id, found, has, eng, locked, engine, stale, slot, inbox,
                 working, dirty, ended, diskVars>>

-----------------------------------------------------------------------------
(* session.close and session.delete.                                       *)

RemoveEntry(c) ==
  /\ pc[c] = "remove"
  /\ Remove(id[c])
  /\ Goto(c, IF kind[c] = "delete" THEN "erase" ELSE "done")
  /\ UNCHANGED <<kind, id, found, has, eng, locked, engine, stale, slot, inbox,
                 working, dirty, ended, diskVars>>

Erase(c) ==
  /\ pc[c] = "erase"
  /\ file' = file \ {id[c]}
  /\ deleted' = deleted \cup {id[c]}
  /\ Goto(c, "unlock")
  /\ UNCHANGED <<map, kind, id, found, has, eng, locked, engineVars>>

Unlock(c) ==
  /\ pc[c] = "unlock"
  /\ locked' = [locked EXCEPT ![id[c]] = None]
  /\ Goto(c, "done")
  /\ UNCHANGED <<map, kind, id, found, has, eng, engineVars, diskVars>>

-----------------------------------------------------------------------------
(* Engines, the janitor and the configuration watcher.                     *)

\* The loop takes the message and runs the turn.
BeginTurn(a) ==
  /\ engine[a] = "running" /\ working[a] = None /\ inbox[a] # None
  /\ working' = [working EXCEPT ![a] = inbox[a]]
  /\ inbox' = [inbox EXCEPT ![a] = None]
  /\ dirty' = dirty \cup {a}
  /\ UNCHANGED <<map, callVars, locked, engine, cancel, stale, slot, ended, diskVars>>

\* finish_turn, cancelled or not: persist, which creates the file, and announce.
FinishTurn(a) ==
  /\ working[a] # None
  /\ file' = file \cup {id[a]}
  /\ dirty' = dirty \ {a}
  /\ ended' = ended \cup {working[a]}
  /\ working' = [working EXCEPT ![a] = None]
  /\ UNCHANGED <<map, callVars, locked, engine, cancel, stale, slot, inbox, deleted>>

Exit(a) ==
  /\ engine[a] = "running" /\ a \in cancel /\ working[a] = None
  /\ engine' = [engine EXCEPT ![a] = "exited"]
  /\ inbox' = [inbox EXCEPT ![a] = None]
  /\ UNCHANGED <<map, callVars, locked, cancel, stale, slot, working, dirty, ended, diskVars>>

\* The janitor: last_active is not touched while a turn runs.
Evict(s) ==
  /\ map[s] # None
  /\ Remove(s)
  /\ UNCHANGED <<callVars, locked, engine, stale, slot, inbox, working, dirty, ended, diskVars>>

\* A settings change marks every binding; an engine whose binding is resolved
\* later gets a new one.
Invalidate ==
  /\ stale' = {a \in Calls : engine[a] # "none" \/ pc[a] = "build"}
  /\ UNCHANGED <<map, callVars, locked, engine, cancel, slot, inbox, working, dirty, ended, diskVars>>

Step(c) ==
  \/ CheckTurn(c) \/ Probe(c) \/ CheckResume(c) \/ Lock(c)
  \/ (\E b \in BOOLEAN : History(c, b)) \/ Resolve(c) \/ Build(c) \/ Stop(c)
  \/ Await(c) \/ Load(c) \/ Insert(c) \/ LookUp(c) \/ Take(c) \/ Send(c)
  \/ TurnEnded(c) \/ EngineGone(c) \/ RemoveEntry(c) \/ Erase(c) \/ Unlock(c)

EngineStep(a) == BeginTurn(a) \/ FinishTurn(a) \/ Exit(a)

AllDone == (\A c \in Calls : pc[c] = "done") /\ UNCHANGED vars

Next ==
  \/ \E c \in Calls : Step(c) \/ EngineStep(c)
  \/ \E s \in Ids : Evict(s)
  \/ Invalidate
  \/ AllDone

Spec == Init /\ [][Next]_vars

\* Tasks that can run are polled again, and turns end.  Nobody need evict.
FairSpec ==
  Spec /\ \A c \in Calls : WF_vars(Step(c)) /\ WF_vars(EngineStep(c))

-----------------------------------------------------------------------------
(* Properties.                                                             *)

(***************************************************************************)
(* No engine is leaked: one that runs and was not told to stop is the one  *)
(* the map points to, so some later close, eviction or shutdown reaches it.*)
(* Two calls may build engines for one id at the same time.                *)
(***************************************************************************)
NoLeakedEngine ==
  \A a \in Calls : engine[a] = "running" /\ a \notin cancel => map[id[a]] = a

(***************************************************************************)
(* The map never holds more than Cap sessions, and a rebuild in place      *)
(* evicts nobody.                                                          *)
(***************************************************************************)
WithinCap == Cardinality(Live) <= Cap

(***************************************************************************)
(* An entry whose engine was told to stop is on its way out: the call that *)
(* stopped it is about to put its own engine there.  No session is left    *)
(* answering from a dead engine.                                           *)
(***************************************************************************)
StoppedIsReplaced ==
  \A s \in Ids : map[s] # None /\ map[s] \in cancel =>
    \E c \in Calls : id[c] = s /\ pc[c] \in {"await", "load", "insert"}

(***************************************************************************)
(* What with_session_lock is for: a resume that found a transcript still   *)
(* has it when it loads it; a delete of the same id comes before or after. *)
(***************************************************************************)
ResumeKeepsHistory ==
  \A c \in Calls : c \in found /\ pc[c] \in {"resolve", "build", "stop", "await", "load"}
    => id[c] \in file

Early    == {"check", "probe", "lock", "history", "resolve", "build"}
Building == {"stop", "await", "load", "insert"}
Resuming == {"history", "resolve", "build", "unlock"} \cup Building
Deleting == {"remove", "erase", "unlock"}

(***************************************************************************)
(* The inductive invariant: where a call is says how far its engine is and *)
(* whether it is inside with_session_lock; only spawned engines are in the *)
(* map or cancelled; and what the three properties above say.              *)
(***************************************************************************)
EngineStages ==
  \A c \in Calls : /\ pc[c] \in Early => engine[c] = "none"
                   /\ pc[c] \in Building => engine[c] = "built"
                   /\ engine[c] = "built" => pc[c] \in Building

Spawned == {a \in Calls : engine[a] \in {"running", "exited"}}

MapIsSpawned ==
  /\ cancel \subseteq Spawned
  /\ \A s \in Ids : map[s] # None => map[s] \in Spawned /\ id[map[s]] = s

LockIsHeld ==
  \A c \in Calls :
    /\ pc[c] = "erase" => kind[c] = "delete"
    /\ kind[c] = "delete" => pc[c] \in Deleting \cup {"lock", "done"}
    /\ pc[c] \in {"lock", "history", "unlock"} => kind[c] \in {"resume", "delete"}
    /\ kind[c] = "close" => pc[c] \in {"remove", "done"}
    /\ pc[c] = "probe" => kind[c] = "turn"
    /\ c \in found => kind[c] = "resume" /\ pc[c] \notin {"check", "lock", "history"}
    /\ kind[c] = "resume" /\ pc[c] \in Resuming => locked[id[c]] = c
    /\ kind[c] = "delete" /\ pc[c] \in Deleting => locked[id[c]] = c

PoolInv ==
  /\ EngineStages /\ MapIsSpawned /\ LockIsHeld
  /\ NoLeakedEngine /\ StoppedIsReplaced /\ ResumeKeepsHistory

(***************************************************************************)
(* Every call is answered, whatever happens to the engine it waits for.    *)
(***************************************************************************)
EveryCallEnds == \A c \in Calls : <>(pc[c] = "done")

(***************************************************************************)
(* What stop_live_agent's comment says: the agent is waited for, so that   *)
(* whatever reads the transcript next reads all of it.                     *)
(***************************************************************************)
ResumeReadsAll ==
  [][\A c \in Calls : pc[c] = "load" /\ pc'[c] = "insert" =>
       \A a \in dirty : id[a] # id[c]]_vars

(***************************************************************************)
(* What run_turn's comment says: only an idle session is rebuilt, since a  *)
(* rebuild would cut a running turn off.                                   *)
(***************************************************************************)
RebuildsOnlyIdle ==
  [][\A c \in Calls : kind[c] = "turn" /\ pc[c] = "stop" /\ pc'[c] = "await" =>
       slot[map[id[c]]] = None]_vars

(***************************************************************************)
(* What run_turn's comment says when the event channel closes: the engine  *)
(* is gone, and its entry is dropped.  So the entry dropped is its own.    *)
(***************************************************************************)
DropsOnlyItsOwn ==
  [][\A c \in Calls : pc[c] = "stream" /\ pc'[c] = "done" /\ c \notin ended =>
       map[id[c]] \in {None, eng[c]}]_vars

(***************************************************************************)
(* What the protocol document says of session.delete: the transcript is    *)
(* really deleted, irreversibly.                                           *)
(***************************************************************************)
DeletedStaysDeleted == deleted \cap file = {}
=============================================================================

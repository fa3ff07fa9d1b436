------------------------------ MODULE Bindings ------------------------------
(***************************************************************************)
(* Merged settings of one (project, scene) pair, and the file watch that   *)
(* tells when they are out of date: SessionPool::binding_for and           *)
(* invalidate_bindings over WatchHub, with its three separately locked     *)
(* maps and its debounce by generations.                                   *)
(*                                                                         *)
(* The pair is not the daemon's own, and the file is that of its project   *)
(* tier, which exists throughout: the tiers of the daemon's own pair are   *)
(* also watched by the pool itself.  A binding is named by the binding_for *)
(* call that built it; its token is its share of the watch.  What sessions *)
(* keep of a binding is its stale flag and its catalogs, so it is dropped  *)
(* with the cache's and the callers' Arcs.                                 *)
(***************************************************************************)
EXTENDS Integers, FiniteSets

CONSTANTS
  Gets,        \* binding_for calls, each made once
  MaxChanges,  \* bound: changes of the file
  None

ASSUME BindingsAssumption ==
  None \notin Gets /\ IsFiniteSet(Gets) /\ MaxChanges \in Nat

VARIABLES
  disk,       \* the version of the file
  cached,     \* bindings: what the pair has
  guard,      \* the binding that is being dropped under the lock of bindings
  stage,      \* where each call is
  got,        \* the binding each call uses
  ver,        \* the version each binding was loaded from
  stale,      \* the stale flags that are set
  token,      \* where the token of each binding is
  count,      \* watched_paths: 0 if there is no entry
  keys,       \* path_keys: how often the key is in the vector
  first,      \* calls whose subscribe saw no entry
  registered, \* notify watches the path
  queue,      \* events notify sent that drain_events has not read
  gen,        \* debounce_gen
  timers,     \* generations of the debounce checkers that sleep
  notices,    \* notifications the config watcher has not received
  noticed     \* history: the generation last sent

bindingVars == <<cached, guard, stage, got, ver, stale>>
hubVars     == <<count, keys, first, registered>>
eventVars   == <<gen, timers, notices, noticed>>
pairVars    == <<disk, bindingVars, token, hubVars, queue, eventVars>>

GetStages == {"get", "load", "count", "key", "watch", "insert", "using", "done"}
TokenStages == {"none", "held", "key", "count", "forget", "unwatch", "gone"}

BindingsTypeOK ==
  /\ disk \in 0..MaxChanges
  /\ cached \in Gets \cup {None} /\ guard \in Gets \cup {None}
  /\ stage \in [Gets -> GetStages]
  /\ got \in [Gets -> Gets \cup {None}]
  /\ ver \in [Gets -> 0..MaxChanges]
  /\ stale \subseteq Gets
  /\ token \in [Gets -> TokenStages]
  /\ count \in Nat /\ keys \in Nat
  /\ first \subseteq Gets /\ registered \in BOOLEAN
  /\ queue \in Nat /\ gen \in Nat /\ timers \subseteq Nat
  /\ notices \in Nat /\ noticed \in Nat

BindingsInit ==
  /\ disk = 0
  /\ cached = None /\ guard = None
  /\ stage = [g \in Gets |-> "get"]
  /\ got = [g \in Gets |-> None]
  /\ ver = [g \in Gets |-> 0]
  /\ stale = {}
  /\ token = [g \in Gets |-> "none"]
  /\ count = 0 /\ keys = 0 /\ first = {} /\ registered = FALSE
  /\ queue = 0 /\ gen = 0 /\ timers = {} /\ notices = 0 /\ noticed = 0

Goto(g, l) == stage' = [stage EXCEPT ![g] = l]

-----------------------------------------------------------------------------
(* binding_for, and the subscribe in the middle of it.                     *)

Get(g) ==
  /\ stage[g] = "get" /\ guard = None
  /\ IF cached = None THEN Goto(g, "load") /\ UNCHANGED got
     ELSE Goto(g, "using") /\ got' = [got EXCEPT ![g] = cached]
  /\ UNCHANGED <<disk, cached, guard, ver, stale, token, hubVars, queue, eventVars>>

\* Settings::load
Load(g) ==
  /\ stage[g] = "load"
  /\ ver' = [ver EXCEPT ![g] = disk]
  /\ Goto(g, "count")
  /\ UNCHANGED <<disk, cached, guard, got, stale, token, hubVars, queue, eventVars>>

\* subscribe, under the lock of watched_paths
SubscribeCount(g) ==
  /\ stage[g] = "count"
  /\ first' = IF count = 0 THEN first \cup {g} ELSE first
  /\ count' = count + 1
  /\ token' = [token EXCEPT ![g] = "held"]
  /\ Goto(g, "key")
  /\ UNCHANGED <<disk, cached, guard, got, ver, stale, keys, registered, queue, eventVars>>

\* under the lock of path_keys
SubscribeKey(g) ==
  /\ stage[g] = "key"
  /\ keys' = keys + 1
  /\ Goto(g, IF g \in first THEN "watch" ELSE "insert")
  /\ UNCHANGED <<disk, cached, guard, got, ver, stale, token, count, first, registered,
                 queue, eventVars>>

\* under the lock of the watcher
SubscribeWatch(g) ==
  /\ stage[g] = "watch"
  /\ registered' = TRUE
  /\ Goto(g, "insert")
  /\ UNCHANGED <<disk, cached, guard, got, ver, stale, token, count, keys, first,
                 queue, eventVars>>

\* Mutant: the later build wins.
InsertReplaces(g) ==
  /\ stage[g] = "insert" /\ guard = None
  /\ Goto(g, "using")
  /\ cached' = g /\ got' = [got EXCEPT ![g] = g]
  /\ UNCHANGED <<disk, guard, ver, stale, token, hubVars, queue, eventVars>>

(***************************************************************************)
(* bindings.entry(key).or_insert(built): whoever got there first wins, and *)
(* the duplicate is dropped while the lock is held.                        *)
(***************************************************************************)
Insert(g) ==
  /\ stage[g] = "insert" /\ guard = None
  /\ Goto(g, "using")
  /\ IF cached = None
     THEN cached' = g /\ got' = [got EXCEPT ![g] = g] /\ UNCHANGED <<guard, token>>
     ELSE /\ got' = [got EXCEPT ![g] = cached]
          /\ token' = [token EXCEPT ![g] = "key"] /\ guard' = g
          /\ UNCHANGED cached
  /\ UNCHANGED <<disk, ver, stale, hubVars, queue, eventVars>>

\* Calls that hold an Arc of b.
Users(b) == {g \in Gets : stage[g] = "using" /\ got[g] = b}

\* The call is done with its binding, and drops it if it is the last.
Done(g) ==
  /\ stage[g] = "using" /\ guard # g
  /\ Goto(g, "done")
  /\ token' = IF cached # got[g] /\ Users(got[g]) = {g}
              THEN [token EXCEPT ![got[g]] = "key"] ELSE token
  /\ UNCHANGED <<disk, cached, guard, got, ver, stale, hubVars, queue, eventVars>>

-----------------------------------------------------------------------------
(* Inner::release, when a token is dropped.                                *)

ReleaseKey(b) ==
  /\ token[b] = "key"
  /\ keys' = IF keys = 0 THEN 0 ELSE keys - 1
  /\ token' = [token EXCEPT ![b] = "count"]
  /\ UNCHANGED <<disk, bindingVars, count, first, registered, queue, eventVars>>

Unguard(b) == guard' = IF guard = b THEN None ELSE guard

ReleaseCount(b) ==
  /\ token[b] = "count"
  /\ count' = IF count = 0 THEN 0 ELSE count - 1
  /\ IF count = 1
     THEN token' = [token EXCEPT ![b] = "forget"] /\ UNCHANGED guard
     ELSE token' = [token EXCEPT ![b] = "gone"] /\ Unguard(b)
  /\ UNCHANGED <<disk, cached, stage, got, ver, stale, keys, first, registered, queue, eventVars>>

ReleaseForget(b) ==
  /\ token[b] = "forget"
  /\ keys' = 0
  /\ token' = [token EXCEPT ![b] = "unwatch"]
  /\ UNCHANGED <<disk, bindingVars, count, first, registered, queue, eventVars>>

\* Mutant: the watch stays.
ReleaseKeepsWatch(b) ==
  /\ token[b] = "unwatch"
  /\ token' = [token EXCEPT ![b] = "gone"]
  /\ Unguard(b)
  /\ UNCHANGED <<disk, cached, stage, got, ver, stale, hubVars, queue, eventVars>>

ReleaseUnwatch(b) ==
  /\ token[b] = "unwatch"
  /\ registered' = FALSE
  /\ token' = [token EXCEPT ![b] = "gone"]
  /\ Unguard(b)
  /\ UNCHANGED <<disk, cached, stage, got, ver, stale, count, keys, first, queue, eventVars>>

ReleaseToken(b) == ReleaseKey(b) \/ ReleaseCount(b) \/ ReleaseForget(b) \/ ReleaseUnwatch(b)

-----------------------------------------------------------------------------
(* A change, from the file to the bindings.                                *)

\* Somebody edits the file: notify tells, if it watches.
Change ==
  /\ disk < MaxChanges
  /\ disk' = disk + 1
  /\ queue' = IF registered THEN queue + 1 ELSE queue
  /\ UNCHANGED <<bindingVars, token, hubVars, eventVars>>

\* Mutant: my_gen is what the counter was, not what it became.
DrainEventsOffByOne ==
  /\ queue > 0
  /\ queue' = queue - 1
  /\ gen' = gen + keys
  /\ timers' = timers \cup (gen..(gen + keys) \ {gen + keys})
  /\ UNCHANGED <<disk, bindingVars, token, hubVars, notices, noticed>>

\* drain_events: schedule_notify for every entry of path_keys.
DrainEvents ==
  /\ queue > 0
  /\ queue' = queue - 1
  /\ gen' = gen + keys
  /\ timers' = timers \cup ((gen + 1)..(gen + keys))
  /\ UNCHANGED <<disk, bindingVars, token, hubVars, notices, noticed>>

\* A checker wakes up: if nothing came after it, it notifies.
WakeUp(t) ==
  /\ t \in timers
  /\ timers' = timers \ {t}
  /\ IF t = gen THEN notices' = notices + 1 /\ noticed' = t
     ELSE UNCHANGED <<notices, noticed>>
  /\ UNCHANGED <<disk, bindingVars, token, hubVars, queue, gen>>

\* invalidate_bindings: mark what is cached and forget it.
Invalidate ==
  /\ guard = None
  /\ cached' = None
  /\ IF cached = None THEN UNCHANGED <<stale, token, guard>>
     ELSE /\ stale' = stale \cup {cached}
          /\ IF Users(cached) = {}
             THEN token' = [token EXCEPT ![cached] = "key"] /\ guard' = cached
             ELSE UNCHANGED <<token, guard>>
  /\ UNCHANGED <<disk, stage, got, ver, hubVars, queue, gen, timers, noticed>>

\* start_config_watcher: a notification for the project of another pair
Watcher == notices > 0 /\ notices' = notices - 1 /\ Invalidate

\* config.reload, or an MCP server that was reconnected; a reload's own
\* binding_for is one of Gets
Reload == cached # None /\ UNCHANGED notices /\ Invalidate

GetStep(g) ==
  \/ Get(g) \/ Load(g) \/ SubscribeCount(g) \/ SubscribeKey(g) \/ SubscribeWatch(g)
  \/ Insert(g) \/ Done(g)

Settled == queue = 0 /\ timers = {} /\ notices = 0

BindingsNext ==
  \/ \E g \in Gets : GetStep(g) \/ ReleaseToken(g)
  \/ Change \/ DrainEvents \/ Watcher \/ Reload
  \/ \E t \in timers : WakeUp(t)
  \/ /\ \A g \in Gets : stage[g] = "done" /\ token[g] \in {"none", "held", "gone"}
     /\ Settled /\ UNCHANGED pairVars

BindingsSpec == BindingsInit /\ [][BindingsNext]_pairVars

\* Tasks and the hub's thread run; sleeps end.  Nobody need edit or reload.
BindingsFairSpec ==
  /\ BindingsSpec
  /\ \A g \in Gets : WF_pairVars(GetStep(g)) /\ WF_pairVars(ReleaseToken(g))
  /\ WF_pairVars(DrainEvents) /\ WF_pairVars(Watcher)
  /\ WF_pairVars(\E t \in timers : WakeUp(t))

-----------------------------------------------------------------------------
(* Properties.                                                             *)

(***************************************************************************)
(* A pair has one catalog: whoever builds at the same time, every caller   *)
(* whose binding was not invalidated has the cached one, so that a refresh *)
(* of the catalogs in place reaches it.                                    *)
(***************************************************************************)
OneCatalog ==
  \A g \in Gets : stage[g] \in {"using", "done"} /\ got[g] \notin stale => got[g] = cached

Tokens    == {b \in Gets : token[b] \in {"held", "key", "count"}}
Releasing == {b \in Gets : token[b] \in {"forget", "unwatch"}}

(***************************************************************************)
(* Refcounts and watches do not leak, in whatever order subscribes and     *)
(* releases visit the three maps: the count is the number of tokens, and a *)
(* path that no token refers to any more is neither listed nor watched.    *)
(***************************************************************************)
WatchesAreOwned ==
  /\ count = Cardinality(Tokens)
  /\ Tokens = {} /\ Releasing = {} => keys = 0 /\ ~registered

(***************************************************************************)
(* The inductive invariant: where a call is says where its token is; a     *)
(* binding that is cached or used has its token; and whatever is listed or *)
(* watched has a token, or a release that has not come to it yet.          *)
(***************************************************************************)
TokenPlaces ==
  \A g \in Gets :
    /\ stage[g] \in {"get", "load", "count"} => token[g] = "none"
    /\ stage[g] \in {"key", "watch", "insert"} => token[g] = "held"
    /\ stage[g] \in {"using", "done"} => got[g] \in Gets
    /\ stage[g] = "using" => /\ token[got[g]] = "held"
                         /\ stage[got[g]] \in {"using", "done"}
    /\ cached = g => token[g] = "held" /\ stage[g] \in {"using", "done"}

HubInv ==
  /\ count = Cardinality(Tokens)
  /\ registered => Tokens # {} \/ Releasing # {}
  /\ keys # 0 => Tokens # {} \/ \E b \in Gets : token[b] = "forget"

BindingsInv == TokenPlaces /\ OneCatalog /\ HubInv

(***************************************************************************)
(* Debouncing collapses changes and loses none: after the last event, the  *)
(* last generation is sent.                                                *)
(***************************************************************************)
LastEventIsSent == (gen # noticed) ~> (gen = noticed)

(***************************************************************************)
(* What watch_tiers_of's comment says: everything a binding was built from *)
(* is watched, so that a change to any of it invalidates it.  When every   *)
(* event was handled, the cached binding is that of the file.              *)
(***************************************************************************)
ChangeInvalidates ==
  Settled /\ guard = None /\ cached # None => ver[cached] = disk

(***************************************************************************)
(* What WatchToken's comment says: the path is only unwatched once every   *)
(* token that refers to it has been dropped.  So none has been handed out. *)
(***************************************************************************)
UnwatchedIsDropped ==
  [][registered /\ ~registered' =>
       \A b \in Gets : token[b] = "held" => stage[b] \in {"key", "watch"}]_pairVars
=============================================================================

---------------------------- MODULE InstanceLock ----------------------------
(***************************************************************************)
(* How a daemon claims its place (daemon/src/main.rs, discovery.rs,        *)
(* server.rs, core/src/process_identity.rs).  Starting up, it reads        *)
(* daemon.lock, gives up if the process recorded there may still run,      *)
(* renames its own record into place, writes its entry of instances.d,     *)
(* removes the socket file and binds it.  Told to stop, it leaves the      *)
(* accept loop and removes the lock and then the entry.  It may die at any *)
(* step and be started again, with any free pid; unrelated processes come  *)
(* and go and take pids too.                                               *)
(*                                                                         *)
(* A start time is what ps says, the wall clock less the time elapsed: two *)
(* readings of one process differ by up to Drift, more once the wall clock *)
(* was set, and a reading may fail (0).                                    *)
(***************************************************************************)
EXTENDS Integers, FiniteSets

CONSTANTS
  Daemons,    \* daemons with the same socket, lock and instance name
  Pids,
  Tolerance,  \* START_TIME_TOLERANCE_SECS
  Drift,      \* how far readings of one process differ
  Jump,       \* by how much the wall clock may be set
  MaxClock    \* bound: seconds

Nobody == "nobody"
Other == "other"
NoPid == 0

ASSUME InstanceLockAssumption ==
  /\ Daemons \intersect {Nobody, Other} = {} /\ NoPid \notin Pids
  /\ Drift \in Nat /\ Tolerance \in Nat /\ Drift <= Tolerance
  /\ Jump \in Nat /\ MaxClock \in Nat \ {0}

VARIABLES
  clock, skew, \* seconds since some start, and what was added to the wall clock
  runner,      \* who runs under a pid: a daemon, Other or Nobody
  since,       \* when it started, 0 for Nobody
  st,          \* per daemon: where it is in main
  pid,         \* its pid, while it runs
  seen,        \* the lock it has read
  lock,        \* daemon.lock
  inst,        \* its entry in instances.d
  socket,      \* who bound the socket file
  overlap, stepped, blind, \* history: two startups overlapped, the clock was set, no start time read
  usurped      \* history: a lock could not be read while a daemon held the place

instanceVars == <<clock, skew, runner, since, st, pid, seen, lock, inst, socket, overlap, stepped,
                 blind, usurped>>
files == <<lock, inst, socket>>
history == <<overlap, stepped, blind, usurped>>

\* A lock names a pid and the start time read for it; born is history, the time it really started.
NoLock == [pid |-> NoPid, at |-> 0, born |-> 0]

InstanceInit ==
  /\ clock = 1 /\ skew = 0
  /\ runner = [p \in Pids |-> Nobody] /\ since = [p \in Pids |-> 0]
  /\ st = [d \in Daemons |-> "off"] /\ pid = [d \in Daemons |-> NoPid]
  /\ seen = [d \in Daemons |-> NoLock]
  /\ lock = NoLock /\ inst = Nobody /\ socket = Nobody
  /\ overlap = FALSE /\ stepped = FALSE /\ blind = FALSE /\ usurped = FALSE

(***************************************************************************)
(* process_identity.rs                                                     *)
(***************************************************************************)
\* process_start_time; plausible makes a reading that is none a failed one.
Readings(p) == {0} \union {since[p] + skew + e : e \in 0..Drift}

Near(a, b) == a - b <= Tolerance /\ b - a <= Tolerance

\* Mutant: a pid that runs is the recorded process.
CheckPidOnly(rec, now) == IF runner[rec.pid] = Nobody THEN "dead" ELSE "alive"

\* ProcessIdentity::check, now being the start time of the recorded pid.
Check(rec, now) ==
  IF runner[rec.pid] = Nobody THEN "dead"
  ELSE IF rec.at = 0 \/ now = 0 THEN "unknown"
  ELSE IF Near(now, rec.at) THEN "alive" ELSE "reused"

\* Mutant: what cannot be verified is reclaimed.
KeepsOnlyAlive(rec, now) == Check(rec, now) = "alive"

\* decide_stale_lock: what cannot be verified is kept.
Keeps(rec, now) == Check(rec, now) \in {"alive", "unknown"}

(***************************************************************************)
(* main, as far as the lock, the entry and the socket go.                  *)
(***************************************************************************)
Claiming == {d \in Daemons : st[d] \in {"decide", "claim"}}
Holders == {d \in Daemons : st[d] \in {"locked", "entered", "unlinked", "serving", "stopping"}}

Goes(d, s) == st' = [st EXCEPT ![d] = s]

Start(d, p) ==
  /\ st[d] = "off" /\ runner[p] = Nobody
  /\ Goes(d, "started") /\ pid' = [pid EXCEPT ![d] = p]
  /\ runner' = [runner EXCEPT ![p] = d] /\ since' = [since EXCEPT ![p] = clock]
  /\ UNCHANGED <<clock, skew, seen, files, history>>

Read(d) ==
  /\ st[d] = "started" /\ Goes(d, "decide")
  /\ seen' = [seen EXCEPT ![d] = lock]
  /\ overlap' = (overlap \/ Claiming # {})
  /\ UNCHANGED <<clock, skew, runner, since, pid, files, stepped, blind, usurped>>

\* A lock that cannot be read or parsed is treated as stale, whoever holds the place.
ReadFails(d) ==
  /\ st[d] = "started" /\ lock # NoLock /\ Goes(d, "claim")
  /\ overlap' = (overlap \/ Claiming # {}) /\ usurped' = (usurped \/ Holders # {})
  /\ UNCHANGED <<clock, skew, runner, since, pid, seen, files, stepped, blind>>

\* The process ends: its pid is free again, the files stay.
Exit(d) ==
  /\ Goes(d, "off") /\ pid' = [pid EXCEPT ![d] = NoPid]
  /\ runner' = [runner EXCEPT ![pid[d]] = Nobody] /\ since' = [since EXCEPT ![pid[d]] = 0]

\* AnotherDaemonRunning: main gives up.
Refuse(d) ==
  /\ st[d] = "decide" /\ seen[d] # NoLock /\ seen[d].pid # pid[d]
  /\ \E now \in Readings(seen[d].pid) :
       /\ Keeps(seen[d], now)
       /\ blind' = (blind \/ now = 0)
  /\ Exit(d) /\ seen' = [seen EXCEPT ![d] = NoLock]
  /\ UNCHANGED <<clock, skew, files, overlap, stepped, usurped>>

\* No lock, one of its own pid, or one whose process is gone.
Reclaim(d) ==
  /\ st[d] = "decide" /\ Goes(d, "claim")
  /\ \/ seen[d] = NoLock \/ seen[d].pid = pid[d]
     \/ /\ seen[d].pid \in Pids
        /\ \E now \in Readings(seen[d].pid) : ~Keeps(seen[d], now)
  /\ seen' = [seen EXCEPT ![d] = NoLock]
  /\ UNCHANGED <<clock, skew, runner, since, pid, files, history>>

Claim(d) ==
  /\ st[d] = "claim" /\ Goes(d, "locked")
  /\ \E at \in Readings(pid[d]) :
       /\ lock' = [pid |-> pid[d], at |-> at, born |-> since[pid[d]]]
       /\ blind' = (blind \/ at = 0)
  /\ UNCHANGED <<clock, skew, runner, since, pid, seen, inst, socket, overlap, stepped, usurped>>

\* The entry is a convenience: a failure to write it is only logged.
WriteInstance(d, ok) ==
  /\ st[d] = "locked" /\ Goes(d, "entered")
  /\ inst' = IF ok THEN d ELSE inst
  /\ UNCHANGED <<clock, skew, runner, since, pid, seen, lock, socket, history>>

Unlink(d) ==
  /\ st[d] = "entered" /\ Goes(d, "unlinked") /\ socket' = Nobody
  /\ UNCHANGED <<clock, skew, runner, since, pid, seen, lock, inst, history>>

\* bind fails if there is a file again; main then ends with an error and leaves the lock.
Bind(d) ==
  /\ st[d] = "unlinked"
  /\ \/ /\ socket = Nobody /\ socket' = d /\ Goes(d, "serving") /\ UNCHANGED <<runner, since, pid>>
     \/ /\ socket # Nobody /\ UNCHANGED socket /\ Exit(d)
  /\ UNCHANGED <<clock, skew, seen, lock, inst, history>>

\* Mutant: the lock goes as soon as the daemon is told to stop.
ShutdownUnlocks(d) ==
  /\ st[d] = "serving" /\ Goes(d, "stopping") /\ lock' = NoLock
  /\ UNCHANGED <<clock, skew, runner, since, pid, seen, inst, socket, history>>

\* daemon.shutdown or a signal: the accept loop ends, the socket file stays.
Shutdown(d) ==
  /\ st[d] = "serving" /\ Goes(d, "stopping")
  /\ UNCHANGED <<clock, skew, runner, since, pid, seen, files, history>>

RemoveLock(d) ==
  /\ st[d] = "stopping" /\ Goes(d, "leaving") /\ lock' = NoLock
  /\ UNCHANGED <<clock, skew, runner, since, pid, seen, inst, socket, history>>

RemoveInstance(d) ==
  /\ st[d] = "leaving" /\ inst' = Nobody /\ Exit(d)
  /\ UNCHANGED <<clock, skew, seen, lock, socket, history>>

\* The daemon dies, or its startup fails on the way; whatever it wrote stays.
Crash(d) ==
  /\ st[d] # "off" /\ Exit(d) /\ seen' = [seen EXCEPT ![d] = NoLock]
  /\ UNCHANGED <<clock, skew, files, history>>

(***************************************************************************)
(* The system around it.                                                   *)
(***************************************************************************)
Fork(p) ==
  /\ runner[p] = Nobody
  /\ runner' = [runner EXCEPT ![p] = Other] /\ since' = [since EXCEPT ![p] = clock]
  /\ UNCHANGED <<clock, skew, st, pid, seen, files, history>>

End(p) ==
  /\ runner[p] = Other
  /\ runner' = [runner EXCEPT ![p] = Nobody] /\ since' = [since EXCEPT ![p] = 0]
  /\ UNCHANGED <<clock, skew, st, pid, seen, files, history>>

Tick ==
  /\ clock < MaxClock /\ clock' = clock + 1
  /\ UNCHANGED <<skew, runner, since, st, pid, seen, files, history>>

SetClock ==
  /\ skew = 0 /\ skew' = Jump /\ stepped' = TRUE
  /\ UNCHANGED <<clock, runner, since, st, pid, seen, files, overlap, blind, usurped>>

InstanceNext ==
  \/ Tick \/ SetClock
  \/ \E p \in Pids : Fork(p) \/ End(p)
  \/ \E d \in Daemons :
       \/ \E p \in Pids : Start(d, p)
       \/ Read(d) \/ ReadFails(d) \/ Refuse(d) \/ Reclaim(d) \/ Claim(d)
       \/ \E ok \in BOOLEAN : WriteInstance(d, ok)
       \/ Unlink(d) \/ Bind(d) \/ Shutdown(d) \/ RemoveLock(d) \/ RemoveInstance(d) \/ Crash(d)

InstanceSpec == InstanceInit /\ [][InstanceNext]_instanceVars
-----------------------------------------------------------------------------
Phases == {"off", "started", "decide", "claim", "locked", "entered", "unlinked", "serving",
           "stopping", "leaving"}
Locks == [pid : Pids, at : Nat, born : Nat] \union {NoLock}

\* The types of the state.
InstanceTypeOK ==
  /\ clock \in 1..MaxClock /\ skew \in Nat
  /\ runner \in [Pids -> Daemons \union {Other, Nobody}] /\ since \in [Pids -> Nat]
  /\ st \in [Daemons -> Phases] /\ pid \in [Daemons -> Pids \union {NoPid}]
  /\ seen \in [Daemons -> Locks] /\ lock \in Locks
  /\ inst \in Daemons \union {Nobody} /\ socket \in Daemons \union {Nobody}
  /\ overlap \in BOOLEAN /\ stepped \in BOOLEAN /\ blind \in BOOLEAN
  /\ usurped \in BOOLEAN

\* What write_lock_file cannot cope with has not happened: two startups at once, a wall clock that
\* was set, and the lock of a live daemon that could not be read, which it overwrites.
Undisturbed == ~overlap /\ ~stepped /\ ~usurped

\* While the daemons are undisturbed, at most one holds the place, and the lock names it: whatever
\* died where, whatever pid was used again, whether or not ps could be read, and also when the
\* lock of a dead daemon could not be.  (write_lock_file with decide_stale_lock, and main, which
\* removes the lock only after the accept loop has ended.)
OneDaemon ==
  Undisturbed =>
    /\ \A d \in Holders : lock # NoLock /\ lock.pid = pid[d]
    /\ \A d, e \in Holders : d = e

\* ... and the socket file of a daemon that serves is its own: no startup or shutdown of another
\* makes it unreachable.
Reachable == Undisturbed => \A d \in Daemons : st[d] = "serving" => socket = d

\* No daemon is refused for good because its predecessor's pid was used again: whoever is refused
\* met the process that wrote the lock, or one that got the pid within the tolerance, unless a
\* start time could not be read or the wall clock was set.
NoLockout ==
  [][\A d \in Daemons :
       Refuse(d) /\ ~blind' /\ ~stepped =>
         since[seen[d].pid] <= seen[d].born + Tolerance + Drift]_instanceVars

(***************************************************************************)
(* What does not hold.                                                     *)
(***************************************************************************)

\* "pid alive and start time matching: refuse": two daemons never serve at once.
OneServes == \A d, e \in Daemons : st[d] = "serving" /\ st[e] = "serving" => d = e

\* The same without overlapping startups: a wall clock that is set makes a live holder look like
\* another process, and a lock that cannot be read is taken from it.
OneServesUnlessRaced == ~overlap => OneServes

\* The entry of a daemon that serves is not removed by another's shutdown.
Listed ==
  [][\A d \in Daemons : Undisturbed /\ st[d] = "serving" /\ st'[d] = "serving" /\ inst = d
       => inst' = d]_instanceVars
=============================================================================

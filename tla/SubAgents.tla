----------------------------- MODULE SubAgents -----------------------------
(***************************************************************************)
(* The persistent team members of one session                              *)
(* (runtime/src/agent_tool.rs).  Calls of the Agent tool run concurrently. *)
(* One with team_name and name sends its prompt to the live member of that *)
(* key or spawns one; the find-or-create decision runs under               *)
(* team_spawn_lock, which stop_team_member (TeamDelete, reclaim) does not  *)
(* take.  A member is a loop of its own that takes one message at a time   *)
(* from its channel; every message has a RunningTask whose status is what  *)
(* TaskOutput shows.                                                       *)
(*                                                                         *)
(* lost and epoch are history variables: lost holds the tasks that nobody  *)
(* will end (queued at a member that was stopped or that crashed, or whose *)
(* member could not be built), epoch counts how often the registry entry   *)
(* was removed or replaced.  A call keeps the loop it found and the        *)
(* members that were busy when it swept.                                   *)
(***************************************************************************)
EXTENDS Naturals, Sequences, FiniteSets, SequencesExt

CONSTANTS
  Callers,     \* concurrent Agent tool calls
  Members,     \* member names of the team
  Modes,       \* permission modes a call may ask for
  Batches,     \* the sets of member names that a TeamCreate may record
  MaxPersistent, \* team_max_persistent_members
  MaxTasks,    \* bound: tasks registered
  MaxMemberFaults    \* bound: panics, failed builds, TeamDelete and TeamCreate calls

ASSUME SubAgentsAssumption ==
  /\ IsFiniteSet(Members) /\ Batches \subseteq SUBSET Members
  /\ "inherit" \notin Modes /\ "nobody" \notin Callers
  /\ {MaxPersistent, MaxTasks, MaxMemberFaults} \subseteq Nat

VARIABLES
  lock,      \* the caller in team_spawn_lock, or Nobody
  call,      \* per caller: where its call is and what it holds
  members,   \* team_members: per name, its loop or 0
  loop,      \* the loops spawned so far
  idleSeq,   \* idle_seq_counter
  task,      \* the running tasks: status by task id
  reg,       \* the team's entry in the registry: members recorded, grant
  deleting,  \* names TeamDelete has still to stop
  lost, epoch, memberFaults

memberVars == <<lock, call, members, loop, idleSeq, task, reg, deleting, lost,
          epoch, memberFaults>>

Nobody == "nobody"
Busy == MaxTasks + 1   \* the sentinel of idle_since and idle_seq: never idle yet, or in a turn
Resting == [at |-> "idle", name |-> Nobody, mode |-> "inherit", asked |-> FALSE, task |-> 0,
            tx |-> 0, victims |-> {}, found |-> 0, busy |-> {}, epoch |-> 0]
NoEntry == [members |-> {}, grant |-> "inherit"]
\* What remains of a loop: whether it was stopped or crashed.
Ended(r) == [r EXCEPT !.at = "ended", !.queue = <<>>, !.task = 0, !.idle = Busy, !.mode = "plan",
                      !.asked = FALSE, !.epoch = 0]
Cap == IF MaxPersistent > 1 THEN MaxPersistent ELSE 1

Live(l) == l \in DOMAIN loop /\ loop[l].at # "ended"
Present == {m \in Members : members[m] # 0}
IdleLooking == {m \in Present : loop[members[m]].idle # Busy}

\* The bound MaxTasks, with the task that a call has still to register.
Room == Len(task) + Cardinality({c \in Callers : call[c].at = "evict"}) < MaxTasks

MembersInit ==
  /\ lock = Nobody /\ call = [c \in Callers |-> Resting]
  /\ members = [m \in Members |-> 0] /\ loop = <<>> /\ idleSeq = 1
  /\ task = <<>>
  /\ reg = NoEntry /\ deleting = {} /\ lost = {} /\ epoch = 0 /\ memberFaults = 0

(***************************************************************************)
(* spawn_or_message_team_member                                            *)
(*                                                                         *)
(* First reclaim_idle_team_members: the victims are the idle members past  *)
(* the timeout, which are the first expired ones in the order of idle_seq, *)
(* and then the oldest until the pool is within the cap, but never the     *)
(* protected name.  A member whose message is still queued looks idle.     *)
(***************************************************************************)
Oldest(entries, n) ==
  {m \in entries : Cardinality({k \in entries : loop[members[k]].idle < loop[members[m]].idle}) < n}
Excess == IF Cardinality(Present) > Cap THEN Cardinality(Present) - Cap ELSE 0

\* Mutant: the sweep does not spare the name that is about to be messaged.
VictimsUnprotected(protect, expired) == Oldest(IdleLooking, expired) \union Oldest(IdleLooking, Excess)
\* Mutant: the sweep stops one member above the cap.
VictimsOneShort(protect, expired) ==
  Oldest(IdleLooking \ {protect}, expired)
    \union (IF Excess = 0 THEN {} ELSE Oldest(IdleLooking \ {protect}, Excess - 1))
Victims(protect, expired) ==
  Oldest(IdleLooking \ {protect}, expired) \union Oldest(IdleLooking \ {protect}, Excess)

Swept(m, mode, expired) ==
  [Resting EXCEPT !.at = "evict", !.name = m, !.mode = mode, !.asked = mode # "inherit",
                  !.victims = Victims(m, expired), !.found = members[m],
                  !.busy = Present \ IdleLooking, !.epoch = epoch]

\* Mutant: the call does not wait for team_spawn_lock.
EnterUnlocked(c, m, mode, expired) ==
  /\ call[c].at = "idle" /\ Room /\ expired <= Cardinality(IdleLooking)
  /\ lock' = c /\ call' = [call EXCEPT ![c] = Swept(m, mode, expired)]
  /\ UNCHANGED <<members, loop, idleSeq, task, reg, deleting, lost, epoch, memberFaults>>
\* Agent with team_name and name (mode "inherit" when permission_mode is omitted) gets
\* team_spawn_lock and sweeps the members; before that the call has no effect.
Enter(c, m, mode, expired) ==
  /\ call[c].at = "idle" /\ lock = Nobody /\ Room /\ expired <= Cardinality(IdleLooking)
  /\ lock' = c /\ call' = [call EXCEPT ![c] = Swept(m, mode, expired)]
  /\ UNCHANGED <<members, loop, idleSeq, task, reg, deleting, lost, epoch, memberFaults>>

\* stop_team_member: the entry leaves the map and the loop's token is cancelled.
Stopped(m, by) ==
  /\ members' = [members EXCEPT ![m] = 0]
  /\ loop' = IF members[m] = 0 THEN loop ELSE [loop EXCEPT ![members[m]].cancelled = by]

Evict(c, m) ==
  /\ call[c].at = "evict" /\ m \in call[c].victims
  /\ Stopped(m, "reclaimed")
  /\ call' = [call EXCEPT ![c].victims = @ \ {m}]
  /\ UNCHANGED <<lock, idleSeq, task, reg, deleting, lost, epoch, memberFaults>>

\* The task is registered and the member's channel is looked up.
LookUp(c) ==
  /\ call[c].at = "evict" /\ call[c].victims = {}
  /\ task' = Append(task, "running")
  /\ call' = [call EXCEPT ![c].at = "send", ![c].task = Len(task) + 1,
                          ![c].tx = members[call[c].name]]
  /\ UNCHANGED <<lock, members, loop, idleSeq, reg, deleting, lost, epoch, memberFaults>>

Return(c) == lock' = Nobody /\ call' = [call EXCEPT ![c] = Resting]

\* Mutant: the result of the send is not looked at.
DeliverUnchecked(c) ==
  /\ call[c].at = "send" /\ call[c].tx # 0
  /\ loop' = [loop EXCEPT ![call[c].tx].queue = Append(@, call[c].task)]
  /\ Return(c)
  /\ UNCHANGED <<members, idleSeq, task, reg, deleting, lost, epoch, memberFaults>>
\* The loop may have been stopped since the look-up: its channel takes the message all the same.
Deliver(c) ==
  /\ call[c].at = "send" /\ Live(call[c].tx)
  /\ loop' = [loop EXCEPT ![call[c].tx].queue = Append(@, call[c].task)]
  /\ Return(c)
  /\ UNCHANGED <<members, idleSeq, task, reg, deleting, lost, epoch, memberFaults>>

\* No member, or the channel of one that ended: a stale entry is dropped.
Missing(c) ==
  /\ call[c].at = "send" /\ ~Live(call[c].tx)
  /\ members' = IF call[c].tx = 0 THEN members ELSE [members EXCEPT ![call[c].name] = 0]
  /\ call' = [call EXCEPT ![c].at = "resolve"]
  /\ UNCHANGED <<lock, loop, idleSeq, task, reg, deleting, lost, epoch, memberFaults>>

\* The mode of a new member: the call's own, else the team's grant, else Plan.
ResolvedMode(asked, granted) ==
  CASE asked # "inherit" -> asked [] granted # "inherit" -> granted [] OTHER -> "plan"

Resolve(c) ==
  /\ call[c].at = "resolve"
  /\ call' = [call EXCEPT ![c].at = "grant", ![c].mode = ResolvedMode(@, reg.grant)]
  /\ UNCHANGED <<lock, members, loop, idleSeq, task, reg, deleting, lost, epoch, memberFaults>>

\* Mutant: every spawn sets the team's grant.
LastGranted(old, mode) == mode
\* set_team_permission_mode_if_absent
Granted(old, mode) == IF old = "inherit" THEN mode ELSE old

Establish(c) ==
  /\ call[c].at = "grant"
  /\ reg' = [reg EXCEPT !.grant = Granted(@, call[c].mode)]
  /\ call' = [call EXCEPT ![c].at = "build"]
  /\ UNCHANGED <<lock, members, loop, idleSeq, task, deleting, lost, epoch, memberFaults>>

\* build_team_member_agent fails: the error leaves the call, the task stays as it is.
BuildFails(c) ==
  /\ call[c].at = "build"
  /\ memberFaults < MaxMemberFaults /\ memberFaults' = memberFaults + 1
  /\ lost' = lost \union {call[c].task}
  /\ Return(c)
  /\ UNCHANGED <<members, loop, idleSeq, task, reg, deleting, epoch>>

\* The member enters the map with its first message queued and its loop spawned.
Spawn(c) ==
  /\ call[c].at = "build"
  /\ loop' = Append(loop, [name |-> call[c].name, at |-> "wait", queue |-> <<call[c].task>>,
                           task |-> 0, cancelled |-> "no", idle |-> Busy, mode |-> call[c].mode,
                           asked |-> call[c].asked, epoch |-> call[c].epoch])
  /\ members' = [members EXCEPT ![call[c].name] = Len(loop) + 1]
  /\ Return(c)
  /\ UNCHANGED <<idleSeq, task, reg, deleting, lost, epoch, memberFaults>>
(***************************************************************************)
(* run_persistent_member_loop.  The select takes whichever is ready: after *)
(* its token was cancelled the loop may still take messages.  The turn     *)
(* runs under the token of its task, which only TaskStop cancels, not      *)
(* under the member's: it ends when it ends.                               *)
(***************************************************************************)
Take(l) ==
  /\ loop[l].at = "wait" /\ loop[l].queue # <<>>
  /\ loop' = [loop EXCEPT ![l].at = "turn", ![l].task = Head(loop[l].queue), ![l].queue = Tail(@),
                          ![l].idle = Busy]
  /\ reg' = [reg EXCEPT !.members = @ \union {loop[l].name}]
  /\ UNCHANGED <<lock, call, members, idleSeq, task, deleting, lost, epoch, memberFaults>>

\* The task is Completed or Failed (done); a turn that was cancelled counts as completed.
EndTurn(l) ==
  /\ loop[l].at = "turn"
  /\ task' = [task EXCEPT ![loop[l].task] = "done"]
  /\ loop' = [loop EXCEPT ![l].at = "wait", ![l].task = 0, ![l].idle = idleSeq]
  /\ idleSeq' = idleSeq + 1
  /\ reg' = [reg EXCEPT !.members = @ \union {loop[l].name}]
  /\ UNCHANGED <<lock, call, members, deleting, lost, epoch, memberFaults>>

\* cancelled() wins the select; what is still queued is dropped with the receiver.
Exit(l) ==
  /\ loop[l].at = "wait" /\ loop[l].cancelled # "no"
  /\ loop' = [loop EXCEPT ![l] = Ended(@)]
  /\ lost' = lost \union ToSet(loop[l].queue)
  /\ reg' = [reg EXCEPT !.members = @ \union {loop[l].name}]
  /\ UNCHANGED <<lock, call, members, idleSeq, task, deleting, epoch, memberFaults>>

\* A panic in the agent ends the loop where it stands; the map keeps the dead entry.
Panic(l) ==
  /\ loop[l].at = "turn" /\ memberFaults < MaxMemberFaults
  /\ loop' = [loop EXCEPT ![l] = Ended(@)]
  /\ lost' = lost \union ToSet(loop[l].queue) \union {loop[l].task}
  /\ memberFaults' = memberFaults + 1
  /\ UNCHANGED <<lock, call, members, idleSeq, task, reg, deleting, epoch>>

(***************************************************************************)
(* TeamDelete (cleanup_team): the registry entry goes first, then every    *)
(* member it recorded is stopped, one after the other.                     *)
(***************************************************************************)
TeamDelete ==
  /\ deleting = {} /\ reg # NoEntry
  /\ memberFaults < MaxMemberFaults /\ memberFaults' = memberFaults + 1
  /\ deleting' = reg.members /\ reg' = NoEntry /\ epoch' = epoch + 1
  /\ UNCHANGED <<lock, call, members, loop, idleSeq, task, lost>>

DeleteStop(m) ==
  /\ m \in deleting
  /\ Stopped(m, "deleted")
  /\ deleting' = deleting \ {m}
  /\ UNCHANGED <<lock, call, idleSeq, task, reg, lost, epoch, memberFaults>>

\* A TeamCreate of the same name ends: its upsert replaces the entry, grant included (TeamRun).
TeamCreate(labels) ==
  /\ memberFaults < MaxMemberFaults /\ memberFaults' = memberFaults + 1
  /\ reg' = [members |-> labels, grant |-> "inherit"] /\ epoch' = epoch + 1
  /\ UNCHANGED <<lock, call, members, loop, idleSeq, task, deleting, lost>>

CallerStep(c) ==
  \/ \E m \in Members : Evict(c, m)
  \/ LookUp(c) \/ Deliver(c) \/ Missing(c) \/ Resolve(c) \/ Establish(c)
  \/ BuildFails(c) \/ Spawn(c)

MembersNext ==
  \/ \E c \in Callers :
       \/ \E m \in Members, mode \in Modes \union {"inherit"}, expired \in 0..Cardinality(Members) :
            Enter(c, m, mode, expired)
       \/ CallerStep(c)
  \/ \E l \in DOMAIN loop :
       Take(l) \/ Exit(l) \/ Panic(l) \/ EndTurn(l)
  \/ TeamDelete
  \/ \E labels \in Batches : TeamCreate(labels)
  \/ \E m \in Members : DeleteStop(m)

MembersSpec == MembersInit /\ [][MembersNext]_memberVars

MembersTypeOK ==
  /\ lock \in Callers \union {Nobody}
  /\ \A c \in Callers : call[c].at \in {"idle", "evict", "send", "resolve", "grant", "build"}
  /\ members \in [Members -> 0..Len(loop)]
  /\ \A l \in DOMAIN loop :
       /\ loop[l].at \in {"wait", "turn", "ended"} /\ loop[l].cancelled \in {"no", "reclaimed", "deleted"}
       /\ loop[l].name \in Members /\ loop[l].mode \in Modes \union {"plan"}
       /\ loop[l].at = "turn" => loop[l].task \in DOMAIN task
  /\ \A t \in DOMAIN task : task[t] \in {"running", "done"}
  /\ lost \subseteq DOMAIN task
  /\ reg.members \subseteq Members
  /\ reg.grant \in Modes \union {"plan", "inherit"}
  /\ deleting \subseteq Members

(***************************************************************************)
(* "both spawn -- the second insert silently overwrites the first's map    *)
(* entry while its loop keeps running orphaned, unreachable and never      *)
(* reclaimed" (team_spawn_lock): every loop that runs and was not told to  *)
(* stop is the one its name leads to.                                      *)
(***************************************************************************)
NoOrphan ==
  \A l \in DOMAIN loop : Live(l) /\ loop[l].cancelled = "no" => members[loop[l].name] = l

(***************************************************************************)
(* Nothing is lost in silence: a task that runs is held by exactly one     *)
(* call or member, or its member was stopped or crashed with it, or was    *)
(* never built.                                                            *)
(***************************************************************************)
Holders(t) ==
  [calls  |-> {c \in Callers : call[c].task = t},
   loops  |-> {l \in DOMAIN loop : Live(l) /\ (loop[l].task = t \/ t \in ToSet(loop[l].queue))}]
Held(t) == Cardinality(Holders(t).calls) + Cardinality(Holders(t).loops)

TasksAreHeld ==
  \A t \in DOMAIN task : Held(t) = IF task[t] = "running" /\ t \notin lost THEN 1 ELSE 0

(***************************************************************************)
(* "one team, one authorization": until the team is deleted, or created    *)
(* anew by a TeamCreate, every member spawned without a mode of its own    *)
(* runs under the grant that the team has on record, whoever was spawned   *)
(* or overridden in between.                                               *)
(***************************************************************************)
OneAuthorization ==
  \A l \in DOMAIN loop : Live(l) /\ ~loop[l].asked /\ loop[l].epoch = epoch => loop[l].mode = reg.grant

(***************************************************************************)
(* Types, and the session's members: every live one is reachable under its *)
(* name, and they share one authorization.                                 *)
(***************************************************************************)
MembersInv == MembersTypeOK /\ NoOrphan /\ OneAuthorization

(***************************************************************************)
(* "just enough to get back under the cap": a spawn leaves at most one     *)
(* member more than the cap, unless all the others were in a turn when     *)
(* the call swept the pool.                                                *)
(***************************************************************************)
PoolBounded ==
  [][\A c \in Callers : Spawn(c) =>
       \/ Cardinality(Present') <= Cap + 1
       \/ Present' \ {call[c].name} \subseteq call[c].busy]_memberVars

(***************************************************************************)
(* "a sweep run just before it looks up an existing member can never evict *)
(* the very member the caller is about to message": a member that was      *)
(* there when the call swept is only replaced if a TeamDelete stopped it   *)
(* or it crashed.                                                          *)
(***************************************************************************)
KeepsConversation ==
  [][\A c \in Callers : Spawn(c) =>
       LET found == call[c].found
       IN  \/ found = 0
           \/ loop[found].cancelled = "deleted"
           \/ ~Live(found) /\ loop[found].cancelled = "no"]_memberVars
=============================================================================

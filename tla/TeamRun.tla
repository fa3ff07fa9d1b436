------------------------------- MODULE TeamRun ------------------------------
(***************************************************************************)
(* One TeamCreate call: DefaultCoordinator::orchestrate runs the stages of *)
(* a team one after the other and the members of a stage side by side,     *)
(* behind a semaphore, and keeps three files: state.json (a snapshot per   *)
(* stage start and end), events.jsonl (an audit log with a retention       *)
(* limit) and SCRATCHPAD.md (what resume_coordinator reads).  Prompts,     *)
(* texts and telemetry are left out.  The process may die, or the turn     *)
(* that called the tool may drop it, between any two steps.                *)
(***************************************************************************)
EXTENDS Integers, Sequences, FiniteSets

CONSTANTS
  Labels,     \* member labels
  Plans,      \* requests: sequences of stages, each a sequence of labels
  Limits,     \* values of team_stage_concurrency
  MaxEntries, \* EventsRetention.max_entries
  MaxFaults   \* bound: file operations that fail

ASSUME TeamAssumption ==
  /\ Plans \subseteq Seq(Seq(Labels))
  /\ Limits \subseteq Nat
  /\ MaxEntries \in Nat /\ MaxFaults \in Nat

VARIABLES
  plan,       \* req.stages
  spawner,    \* self.spawner.is_some()
  limit,      \* config.team_stage_concurrency
  up,         \* the call is still being run
  phase,      \* where orchestrate is
  si,         \* the stage it is at, from 1
  k,          \* the member of the stage it is recording
  lifecycles,
  member,     \* what the future of each member of the stage is doing
  permits,    \* free permits of the stage's semaphore
  anyErr,     \* any_err
  sections,   \* the stage's sections: who speaks, and whether it is an error
  pad,        \* stage sections in SCRATCHPAD.md; Torn while it is rewritten
  state,      \* state.json
  events,     \* events.jsonl
  log,        \* history: every event that was appended
  failures,   \* history: members whose run failed, by stage
  registered, \* the registry has the team
  faults      \* history: failed file operations

runVars == <<plan, spawner, limit, up, phase, si, k, lifecycles, member, permits,
             anyErr, sections, pad, state, events, log, failures, registered, faults>>

inputs == <<plan, spawner, limit>>

NoState == [stage |-> 0, status |-> "none", members |-> [l \in Labels |-> "none"]]
NoPad   == -1
Torn    == -2

Event(kind, stage, label) == <<kind, stage, label>>

Phases == {"declare", "created", "stage", "spawn", "run", "record", "aggregate",
           "pad", "padwrite", "complete", "end", "announce", "register", "done", "refused"}

RunTypeOK ==
  /\ plan \in Plans /\ spawner \in BOOLEAN /\ limit \in Limits
  /\ up \in BOOLEAN /\ phase \in Phases
  /\ si \in 1..(Len(plan) + 1) /\ k \in Nat
  /\ lifecycles \in [Labels -> {"none", "idle", "active", "completed"}]
  /\ member \in [Labels -> {"none", "waiting", "running", "ok", "error"}]
  /\ permits \in Nat
  /\ anyErr \in BOOLEAN
  /\ pad \in -2..Len(plan)
  /\ state.status \in {"none", "running", "completed", "failed"}
  /\ registered \in BOOLEAN
  /\ faults \in 0..MaxFaults

Stage == IF si <= Len(plan) THEN plan[si] ELSE <<>>
Crew  == {Stage[i] : i \in DOMAIN Stage}
Everyone == UNION {{plan[s][i] : i \in DOMAIN plan[s]} : s \in DOMAIN plan}

RunInit ==
  /\ plan \in Plans /\ spawner \in BOOLEAN /\ limit \in Limits
  /\ up = TRUE /\ phase = "declare" /\ si = 1 /\ k = 1
  /\ lifecycles = [l \in Labels |-> IF l \in Everyone THEN "idle" ELSE "none"]
  /\ member = [l \in Labels |-> "none"] /\ permits = 0
  /\ anyErr = FALSE /\ sections = {}
  /\ pad = NoPad /\ state = NoState /\ events = <<>> /\ log = <<>>
  /\ failures = {} /\ registered = FALSE /\ faults = 0

-----------------------------------------------------------------------------
(* The files.  A write that fails is logged and the run goes on.           *)

Fault ==
  /\ faults < MaxFaults
  /\ faults' = faults + 1

\* TRUNCATE_TARGET_RATIO of max_entries, at least one
Target ==
  LET t == (MaxEntries * 80) \div 100 IN IF t >= 1 THEN t ELSE 1

\* Mutant: the oldest events are kept instead of the newest.
TruncateNewest(s) ==
  IF Len(s) <= MaxEntries THEN s
  ELSE <<Event("truncated", Len(s) - Target, "")>> \o SubSeq(s, 1, Target)

\* maybe_truncate_events: cut to 80 % of the limit, behind a marker.
Truncate(s) ==
  IF Len(s) <= MaxEntries THEN s
  ELSE <<Event("truncated", Len(s) - Target, "")>> \o SubSeq(s, Len(s) - Target + 1, Len(s))

\* append_team_event: the append may fail, or only the truncation after it.
Record(e) ==
  \/ /\ log' = Append(log, e) /\ events' = Truncate(Append(events, e))
     /\ UNCHANGED faults
  \/ /\ Fault
     /\ \/ UNCHANGED <<log, events>>
        \/ log' = Append(log, e) /\ events' = Append(events, e)

\* build_state_snapshot and write_team_state_atomic
Snapshot(stage, status) ==
  \/ /\ state' = [stage |-> stage, status |-> status, members |-> lifecycles]
     /\ UNCHANGED faults
  \/ Fault /\ UNCHANGED state

-----------------------------------------------------------------------------
(* The run.                                                                *)

\* team.json must be written, or there is no team.
Declare ==
  /\ up /\ phase = "declare"
  /\ \/ phase' = "created" /\ UNCHANGED faults
     \/ phase' = "refused" /\ Fault
  /\ UNCHANGED <<inputs, up, si, k, lifecycles, member, permits, anyErr, sections, pad,
                 state, events, log, failures, registered>>

\* team_created, the mailbox and the first scratchpad
Created ==
  /\ up /\ phase = "created"
  /\ Record(Event("team_created", 0, ""))
  /\ phase' = "stage"
  /\ pad' \in {NoPad, 0}
  /\ UNCHANGED <<inputs, up, si, k, lifecycles, member, permits, anyErr, sections,
                 state, failures, registered>>

\* The head of the loop over the stages: progress and stage_started
StartStage ==
  /\ up /\ phase = "stage" /\ si <= Len(plan)
  /\ Record(Event("stage_started", si, ""))
  /\ phase' = "spawn" /\ k' = 1 /\ sections' = {}
  /\ UNCHANGED <<inputs, up, si, lifecycles, member, permits, anyErr, pad, state,
                 failures, registered>>

\* Every member of the stage becomes Active before any of them runs.
SpawnMember ==
  /\ up /\ phase = "spawn" /\ spawner /\ k <= Len(Stage)
  /\ lifecycles' = [lifecycles EXCEPT ![Stage[k]] = "active"]
  /\ Record(Event("member_spawned", si, Stage[k]))
  /\ k' = k + 1
  /\ UNCHANGED <<inputs, up, phase, si, member, permits, anyErr, sections, pad, state,
                 failures, registered>>

\* Mutant: the configured limit is used as it is.
BeginStageUnclamped ==
  /\ up /\ phase = "spawn" /\ spawner /\ k > Len(Stage)
  /\ Snapshot(si, "running")
  /\ permits' = limit
  /\ member' = [l \in Labels |-> IF l \in Crew THEN "waiting" ELSE "none"]
  /\ phase' = "run"
  /\ UNCHANGED <<inputs, up, si, k, lifecycles, anyErr, sections, pad, events, log,
                 failures, registered>>

\* Snapshot of the stage's start; a semaphore of at least one permit.
BeginStage ==
  /\ up /\ phase = "spawn" /\ spawner /\ k > Len(Stage)
  /\ Snapshot(si, "running")
  /\ permits' = IF limit >= 1 THEN limit ELSE 1
  /\ member' = [l \in Labels |-> IF l \in Crew THEN "waiting" ELSE "none"]
  /\ phase' = "run"
  /\ UNCHANGED <<inputs, up, si, k, lifecycles, anyErr, sections, pad, events, log,
                 failures, registered>>

\* Without a spawner no member runs and every one is an error.
NoSpawner ==
  /\ up /\ phase = "spawn" /\ ~spawner
  /\ sections' = {[label |-> l, error |-> TRUE] : l \in Crew}
  /\ anyErr' = (anyErr \/ Crew # {})
  /\ failures' = failures \cup {<<si, l>> : l \in Crew}
  /\ phase' = "aggregate"
  /\ UNCHANGED <<inputs, up, si, k, lifecycles, member, permits, pad, state, events, log,
                 registered, faults>>

\* A member's future gets a permit and runs its agent.
StartMember(l) ==
  /\ up /\ phase = "run" /\ member[l] = "waiting" /\ permits > 0
  /\ permits' = permits - 1
  /\ member' = [member EXCEPT ![l] = "running"]
  /\ UNCHANGED <<inputs, up, phase, si, k, lifecycles, anyErr, sections, pad, state, events,
                 log, failures, registered, faults>>

\* The agent answers or fails; the permit is given back.
EndMember(l, result) ==
  /\ up /\ phase = "run" /\ member[l] = "running"
  /\ member' = [member EXCEPT ![l] = result]
  /\ permits' = permits + 1
  /\ failures' = IF result = "error" THEN failures \cup {<<si, l>>} ELSE failures
  /\ UNCHANGED <<inputs, up, phase, si, k, lifecycles, anyErr, sections, pad, state, events,
                 log, registered, faults>>

\* Mutant: select! instead of join_all, the first answer ends the stage.
JoinFirst ==
  /\ up /\ phase = "run" /\ (Crew = {} \/ \E l \in Crew : member[l] \in {"ok", "error"})
  /\ lifecycles' = [l \in Labels |-> IF l \in Crew THEN "completed" ELSE lifecycles[l]]
  /\ phase' = "record" /\ k' = 1
  /\ UNCHANGED <<inputs, up, si, member, permits, anyErr, sections, pad, state, events, log,
                 failures, registered, faults>>

\* join_all: every member ended; all are marked Completed at once.
Join ==
  /\ up /\ phase = "run" /\ \A l \in Crew : member[l] \in {"ok", "error"}
  /\ lifecycles' = [l \in Labels |-> IF l \in Crew THEN "completed" ELSE lifecycles[l]]
  /\ phase' = "record" /\ k' = 1
  /\ UNCHANGED <<inputs, up, si, member, permits, anyErr, sections, pad, state, events, log,
                 failures, registered, faults>>

\* member_completed, in the order of the plan
RecordMember ==
  /\ up /\ phase = "record" /\ k <= Len(Stage)
  /\ anyErr' = (anyErr \/ member[Stage[k]] = "error")
  /\ sections' = sections \cup {[label |-> Stage[k], error |-> member[Stage[k]] = "error"]}
  /\ Record(Event("member_completed", si, Stage[k]))
  /\ k' = k + 1
  /\ UNCHANGED <<inputs, up, phase, si, lifecycles, member, permits, pad, state, failures,
                 registered>>

Recorded ==
  /\ up /\ phase = "record" /\ k > Len(Stage)
  /\ phase' = "aggregate"
  /\ UNCHANGED <<inputs, up, si, k, lifecycles, member, permits, anyErr, sections, pad,
                 state, events, log, failures, registered, faults>>

(***************************************************************************)
(* aggregate: Concat keeps the sections, Best keeps the one the model      *)
(* names if it names one of them, Aggregate makes a single one that is     *)
(* never an error.                                                         *)
(***************************************************************************)
Aggregates ==
  {sections} \cup {{s} : s \in sections}
    \cup (IF sections = {} THEN {} ELSE {{[label |-> "(aggregated)", error |-> FALSE]}})

\* Mutant: the error flag is taken from what the aggregation left.
AggregateDecides(merged) ==
  /\ up /\ phase = "aggregate" /\ merged \in Aggregates
  /\ sections' = merged
  /\ anyErr' = \E s \in merged : s.error
  /\ phase' = "pad"
  /\ UNCHANGED <<inputs, up, si, k, lifecycles, member, permits, pad, state, events, log,
                 failures, registered, faults>>

AggregateStage(merged) ==
  /\ up /\ phase = "aggregate" /\ merged \in Aggregates
  /\ sections' = merged
  /\ phase' = "pad"
  /\ UNCHANGED <<inputs, up, si, k, lifecycles, member, permits, anyErr, pad, state, events,
                 log, failures, registered, faults>>

\* tokio::fs::write of the whole scratchpad: truncate, then write.
TruncatePad ==
  /\ up /\ phase = "pad"
  /\ phase' = "padwrite"
  /\ \/ pad' = Torn /\ UNCHANGED faults
     \/ UNCHANGED pad /\ Fault
  /\ UNCHANGED <<inputs, up, si, k, lifecycles, member, permits, anyErr, sections, state,
                 events, log, failures, registered>>

\* Mutant: the scratchpad is written before the stage's section is added.
WritePadFirst ==
  /\ up /\ phase = "padwrite"
  /\ phase' = "complete"
  /\ pad' = IF pad = Torn THEN si - 1 ELSE pad
  /\ UNCHANGED <<inputs, up, si, k, lifecycles, member, permits, anyErr, sections, state,
                 events, log, failures, registered, faults>>

WritePad ==
  /\ up /\ phase = "padwrite"
  /\ phase' = "complete"
  /\ \/ pad = Torn /\ pad' = si /\ UNCHANGED faults
     \/ pad = Torn /\ UNCHANGED pad /\ Fault
     \/ pad # Torn /\ UNCHANGED <<pad, faults>>
  /\ UNCHANGED <<inputs, up, si, k, lifecycles, member, permits, anyErr, sections, state,
                 events, log, failures, registered>>

\* Progress, and stage_completed with the failed sections
CompleteStage ==
  /\ up /\ phase = "complete"
  /\ Record(Event("stage_completed", si, ""))
  /\ phase' = "end"
  /\ UNCHANGED <<inputs, up, si, k, lifecycles, member, permits, anyErr, sections, pad, state,
                 failures, registered>>

\* Mutant: no snapshot at the end of a stage.
EndStageSilently ==
  /\ up /\ phase = "end"
  /\ si' = si + 1 /\ phase' = "stage"
  /\ UNCHANGED <<inputs, up, k, lifecycles, member, permits, anyErr, sections, pad, state,
                 events, log, failures, registered, faults>>

\* The snapshot of the stage's end, and the next stage
EndStage ==
  /\ up /\ phase = "end"
  /\ Snapshot(si, "running")
  /\ si' = si + 1 /\ phase' = "stage"
  /\ UNCHANGED <<inputs, up, k, lifecycles, member, permits, anyErr, sections, pad, events,
                 log, failures, registered>>

FinalStatus == IF anyErr THEN "failed" ELSE "completed"

\* The last snapshot, of the last stage (of stage 0 + 1 if there is none)
Finish ==
  /\ up /\ phase = "stage" /\ si > Len(plan)
  /\ Snapshot(IF Len(plan) = 0 THEN 1 ELSE Len(plan), FinalStatus)
  /\ phase' = "announce"
  /\ UNCHANGED <<inputs, up, si, k, lifecycles, member, permits, anyErr, sections, pad,
                 events, log, failures, registered>>

Announce ==
  /\ up /\ phase = "announce"
  /\ Record(Event("team_completed", 0, FinalStatus))
  /\ phase' = "register"
  /\ UNCHANGED <<inputs, up, si, k, lifecycles, member, permits, anyErr, sections, pad, state,
                 failures, registered>>

\* registry.upsert, and the tool's answer
Register ==
  /\ up /\ phase = "register"
  /\ registered' = TRUE /\ phase' = "done"
  /\ UNCHANGED <<inputs, up, si, k, lifecycles, member, permits, anyErr, sections, pad, state,
                 events, log, failures, faults>>

\* cleanup_team (TeamDelete): only a registered team; its directory goes.
Cleanup ==
  /\ up /\ registered
  /\ registered' = FALSE
  /\ \/ state' = NoState /\ events' = <<>> /\ log' = <<>> /\ pad' = NoPad /\ UNCHANGED faults
     \/ Fault /\ UNCHANGED <<state, events, log, pad>>
  /\ UNCHANGED <<inputs, up, phase, si, k, lifecycles, member, permits, anyErr, sections,
                 failures>>

\* The process dies, or the turn drops the call.
Crash ==
  /\ up /\ phase \notin {"done", "refused"}
  /\ up' = FALSE
  /\ UNCHANGED <<inputs, phase, si, k, lifecycles, member, permits, anyErr, sections, pad,
                 state, events, log, failures, registered, faults>>

Step ==
  \/ Declare \/ Created \/ StartStage \/ SpawnMember \/ BeginStage \/ NoSpawner
  \/ \E l \in Labels : StartMember(l) \/ EndMember(l, "ok") \/ EndMember(l, "error")
  \/ Join \/ RecordMember \/ Recorded
  \/ \E merged \in Aggregates : AggregateStage(merged)
  \/ TruncatePad \/ WritePad \/ CompleteStage \/ EndStage \/ Finish \/ Announce \/ Register

-----------------------------------------------------------------------------
(* Properties.                                                             *)

(***************************************************************************)
(* "A mid-run crash leaves a state.json no more than one stage stale": the *)
(* stage in the file is the one the run is at or the one before, one more  *)
(* for every write that failed.                                            *)
(***************************************************************************)
StateNotStale ==
  phase \notin {"declare", "refused", "done"} => state.stage >= si - 1 - faults

(***************************************************************************)
(* What state.json says is true of the run: a member it calls completed    *)
(* has ended and is not running again, unless the snapshot of its second   *)
(* start failed; and it calls the team completed or failed only after the  *)
(* last stage, completed exactly if no member of any stage failed, however *)
(* their answers were aggregated.                                          *)
(***************************************************************************)
StateIsTrue ==
  /\ faults = 0 => \A l \in Labels :
       state.members[l] = "completed" =>
         ~(l \in Crew /\ phase = "run" /\ member[l] \in {"waiting", "running"})
  /\ state.status \in {"completed", "failed"} =>
       si > Len(plan) /\ (state.status = "failed" <=> failures # {})

(***************************************************************************)
(* The log an auditor reads is the end of what happened, in order, behind  *)
(* at most one marker; it is never longer than the limit allows (plus the  *)
(* truncations that failed).                                               *)
(***************************************************************************)
EventsAreTheNewest ==
  LET kept == IF events # <<>> /\ events[1][1] = "truncated" THEN Tail(events) ELSE events
  IN  /\ Len(events) <= (IF MaxEntries >= 2 THEN MaxEntries ELSE 2) + faults
      /\ Len(kept) <= Len(log)
      /\ kept = SubSeq(log, Len(log) - Len(kept) + 1, Len(log))

(***************************************************************************)
(* What resume_coordinator finds: once state.json has the end of a stage,  *)
(* the scratchpad has its section, unless a write failed; it is unreadable *)
(* only if the run was cut off inside its rewriting or the write failed.   *)
(***************************************************************************)
CheckpointIsThere ==
  /\ faults = 0 /\ phase \notin {"declare", "created", "done"} =>
       \/ pad \in {si - 1, si}
       \/ pad = NoPad /\ si = 1
       \/ pad = Torn /\ phase = "padwrite"
  /\ pad = Torn => phase = "padwrite" \/ faults > 0

(***************************************************************************)
(* A run that is not cut off ends, whatever the concurrency limit is set   *)
(* to (a semaphore of zero permits would never grant one), and its members *)
(* with it: none still runs when the tool answers.                         *)
(***************************************************************************)
RunEnds == <>(phase \in {"done", "refused"} \/ ~up)

\* No member of a stage runs when the next one begins or the tool answers.
StagesDoNotOverlap ==
  \A l \in Labels : member[l] = "running" => phase = "run" /\ l \in Crew
=============================================================================

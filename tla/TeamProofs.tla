----------------------------- MODULE TeamProofs -----------------------------
(***************************************************************************)
(* Proofs about the two kinds of teams.                                    *)
(*                                                                         *)
(* Module Team: a team run and its mailboxes, for every plan, every        *)
(* concurrency limit, every retention limit and any number of file         *)
(* operations that fail.  The run keeps RunInv: where orchestrate is tells *)
(* which members run, which failures it has counted, what the snapshot in  *)
(* state.json says of the stage and what the scratchpad holds.             *)
(*                                                                         *)
(* Module SubAgents: the persistent members of a session, for any number   *)
(* of calls, names and tasks and every cap (second half).                  *)
(***************************************************************************)
EXTENDS Team, SubAgents, FiniteSetTheorems, SequenceTheorems, WellFoundedInduction, TLAPS

-----------------------------------------------------------------------------
(* The types of the state, with the files.                                 *)

Kinds == {"team_created", "stage_started", "member_spawned", "member_completed",
          "stage_completed", "team_completed"}
Happened == Kinds \X Nat \X (Labels \cup {"", "completed", "failed"})
Marker == {"truncated"} \X Nat \X {""}

Lifecycles == {"none", "idle", "active", "completed"}
States == [stage : Nat, status : {"none", "running", "completed", "failed"},
           members : [Labels -> Lifecycles]]

RunTyped ==
  /\ RunTypeOK /\ k >= 1
  /\ state \in States
  /\ events \in Seq(Happened \cup Marker) /\ log \in Seq(Happened)

-----------------------------------------------------------------------------
(* Where orchestrate is.                                                   *)

InStage == {"spawn", "run", "record", "aggregate", "pad", "padwrite", "complete", "end"}
AtEnd == {"announce", "register", "done"}

PlaceInv ==
  /\ phase \in {"declare", "created", "refused"} => si = 1
  /\ phase \in InStage => si <= Len(plan)
  /\ phase \in AtEnd => si > Len(plan)
  /\ registered => phase = "done"
  /\ state.status \in {"completed", "failed"} => phase \in AtEnd

\* Only members of the stage wait or run, and only while it runs.
MemberInv ==
  \A l \in Labels : member[l] \in {"waiting", "running"} => phase = "run" /\ l \in Crew

\* any_err has every failure of the stages before, and of those members of this one that
\* were recorded.
ErrorInv ==
  /\ anyErr => failures # {}
  /\ phase \in {"run", "record"} => \A l \in Labels : member[l] = "error" => failures # {}
  /\ phase \notin {"run", "record"} /\ failures # {} => anyErr
  /\ phase = "run" /\ failures # {} => anyErr \/ \E l \in Crew : member[l] = "error"
  /\ phase = "record" /\ failures # {} =>
       anyErr \/ \E i \in DOMAIN Stage : i >= k /\ member[Stage[i]] = "error"

\* The snapshot of a stage's start calls all its members active.
SnapshotInv ==
  /\ phase = "spawn" /\ spawner =>
       \A i \in DOMAIN Stage : i < k => lifecycles[Stage[i]] = "active"
  /\ phase = "run" /\ faults = 0 => \A l \in Crew : state.members[l] = "active"

\* The scratchpad has the sections of the stages before and, once it is written, of this one.
PadInv ==
  /\ faults = 0 /\ phase = "padwrite" => pad = Torn
  /\ faults = 0 /\ phase \in {"complete", "end"} => pad = si
  /\ faults = 0 /\ phase \in {"stage", "spawn", "run", "record", "aggregate", "pad",
                              "announce", "register"} =>
       pad = si - 1 \/ (pad = NoPad /\ si = 1)
  /\ pad = Torn => phase = "padwrite" \/ faults > 0
  /\ phase = "refused" => faults > 0

\* The final status tells whether a member of any stage failed.
FinalInv ==
  state.status \in {"completed", "failed"} => (state.status = "failed" <=> failures # {})

\* Every line of events.jsonl but a marker at its head is the event of the log at the same
\* distance from the end.
LogInv ==
  /\ Len(events) <= (IF MaxEntries >= 2 THEN MaxEntries ELSE 2) + faults
  /\ \A j \in 1..Len(events) :
       \/ j = 1 /\ events[1] \in Marker
       \/ /\ Len(log) - Len(events) + j \in 1..Len(log)
          /\ events[j] = log[Len(log) - Len(events) + j]

RunInv ==
  /\ RunTyped /\ PlaceInv /\ MemberInv /\ ErrorInv /\ SnapshotInv /\ PadInv
  /\ StateNotStale /\ FinalInv /\ LogInv

\* While the process lives, and nothing failed, a file holds what its queue holds.
BoxInv ==
  mailUp /\ mailFaults = 0 => \A p \in Peers \ torn : box[p] = file[p]

-----------------------------------------------------------------------------
(* Lemmas about the stage and the files.                                   *)

\* The stage is a sequence of labels, and its members are labels.
LEMMA StageTyped ==
  ASSUME RunTyped
  PROVE  /\ plan \in Seq(Seq(Labels)) /\ Len(plan) \in Nat
         /\ Stage \in Seq(Labels) /\ Len(Stage) \in Nat /\ DOMAIN Stage = 1..Len(Stage)
         /\ Crew \subseteq Labels /\ \A i \in DOMAIN Stage : Stage[i] \in Crew
<1>1. plan \in Seq(Seq(Labels))
  BY TeamAssumption DEF RunTyped, RunTypeOK
<1>2. si \in Nat /\ si >= 1 /\ Len(plan) \in Nat
  BY <1>1 DEF RunTyped, RunTypeOK
<1>3. Stage \in Seq(Labels)
  <2>1. CASE si <= Len(plan)
    <3>1. plan[si] \in Seq(Labels)
      BY <1>1, <1>2, <2>1
    <3>. QED
      BY <2>1, <3>1 DEF Stage
  <2>2. CASE ~(si <= Len(plan))
    <3>1. Stage = <<>>
      BY <2>2 DEF Stage
    <3>. QED
      BY <3>1
  <2>. QED
    BY <2>1, <2>2
<1>4. Len(Stage) \in Nat /\ DOMAIN Stage = 1..Len(Stage) /\ \A i \in DOMAIN Stage : Stage[i] \in Labels
  BY <1>3
<1>. QED
  BY <1>1, <1>2, <1>3, <1>4 DEF Crew

\* The stage depends on the plan and on where the run is in it.
LEMMA StageStays ==
  ASSUME UNCHANGED <<plan, si>>
  PROVE  Stage' = Stage /\ Crew' = Crew
BY DEF Stage, Crew

\* A truncated log keeps at least one event and makes room for the marker.
LEMMA TargetFits ==
  /\ Target \in Nat \ {0}
  /\ Target + 1 <= (IF MaxEntries >= 2 THEN MaxEntries ELSE 2)
  /\ Target <= MaxEntries + 1
  /\ MaxEntries > 0 => Target <= MaxEntries
BY TeamAssumption DEF Target

\* A sequence with one element put in front of it.
LEMMA AddedInFront ==
  ASSUME NEW S, NEW x \in S, NEW r \in Seq(S)
  PROVE  /\ <<x>> \o r \in Seq(S) /\ Len(<<x>> \o r) = Len(r) + 1
         /\ (<<x>> \o r)[1] = x
         /\ \A j \in 2..(Len(r) + 1) : (<<x>> \o r)[j] = r[j - 1]
<1>1. <<x>> \in Seq(S) /\ Len(<<x>>) = 1 /\ <<x>>[1] = x
  OBVIOUS
<1>2. Len(r) \in Nat
  OBVIOUS
<1>. QED
  BY <1>1, <1>2

\* append_team_event, whatever fails in it, leaves the newest events in the file.
LEMMA RecordKeepsLog ==
  ASSUME RunTyped, LogInv, NEW e \in Happened, Record(e)
  PROVE  /\ events' \in Seq(Happened \cup Marker) /\ log' \in Seq(Happened)
         /\ LogInv' /\ faults' \in 0..MaxFaults /\ faults' >= faults
<1>1. events \in Seq(Happened \cup Marker) /\ log \in Seq(Happened) /\ faults \in 0..MaxFaults
        /\ MaxFaults \in Nat
  BY TeamAssumption DEF RunTyped, RunTypeOK
<1>2. Len(events) \in Nat /\ Len(log) \in Nat
  BY <1>1
<1> DEFINE s == Append(events, e)
           h == Append(log, e)
           lim == IF MaxEntries >= 2 THEN MaxEntries ELSE 2
<1>3. s \in Seq(Happened \cup Marker) /\ h \in Seq(Happened)
        /\ Len(s) = Len(events) + 1 /\ Len(h) = Len(log) + 1
  BY <1>1
<1>4. /\ \A j \in 1..Len(events) : s[j] = events[j]
      /\ \A j \in 1..Len(log) : h[j] = log[j]
      /\ s[Len(events) + 1] = e /\ h[Len(log) + 1] = e
  BY <1>1
<1>5. ASSUME NEW j \in 1..Len(s)
      PROVE  \/ j = 1 /\ s[1] \in Marker /\ events # <<>>
             \/ /\ Len(h) - Len(s) + j \in 1..Len(h)
                /\ s[j] = h[Len(h) - Len(s) + j]
  <2>1. CASE j = Len(events) + 1
    BY <1>2, <1>3, <1>4, <2>1
  <2>2. CASE j \in 1..Len(events)
    <3>1. CASE j = 1 /\ events[1] \in Marker
      BY <1>1, <1>2, <1>4, <2>2, <3>1
    <3>2. CASE /\ Len(log) - Len(events) + j \in 1..Len(log)
               /\ events[j] = log[Len(log) - Len(events) + j]
      BY <1>2, <1>3, <1>4, <2>2, <3>2
    <3>. QED
      BY <2>2, <3>1, <3>2 DEF LogInv
  <2>. QED
    BY <1>2, <1>3, <2>1, <2>2
<1>6. lim \in Nat /\ Len(events) <= lim + faults
  BY TeamAssumption DEF LogInv
<1>. HIDE DEF s, h, lim
<1>a. ASSUME log' = h, events' = s, Len(s) <= lim + faults'
      PROVE  LogInv'
  <2>1. ASSUME NEW j \in 1..Len(events')
        PROVE  \/ j = 1 /\ events'[1] \in Marker
               \/ /\ Len(log') - Len(events') + j \in 1..Len(log')
                  /\ events'[j] = log'[Len(log') - Len(events') + j]
    BY <1>5, <1>a
  <2>2. Len(events') <= (IF MaxEntries >= 2 THEN MaxEntries ELSE 2) + faults'
    BY <1>a DEF lim
  <2>. QED
    BY <2>1, <2>2 DEF LogInv
<1>7. CASE log' = h /\ events' = s /\ Fault
  <2>1. faults' = faults + 1 /\ faults' \in 0..MaxFaults
    BY <1>1, <1>7 DEF Fault
  <2>2. Len(s) <= lim + faults'
    BY <1>1, <1>2, <1>3, <1>6, <2>1
  <2>. QED
    BY <1>1, <1>3, <1>7, <1>a, <2>1, <2>2
<1>8. CASE UNCHANGED <<log, events>> /\ Fault
  BY <1>1, <1>2, <1>6, <1>8 DEF LogInv, Fault, lim
<1>9. CASE log' = h /\ events' = Truncate(s) /\ UNCHANGED faults
  <2>1. CASE Len(s) <= MaxEntries
    <3>1. events' = s
      BY <1>9, <2>1 DEF Truncate
    <3>2. Len(s) <= lim + faults'
      BY <1>1, <1>2, <1>3, <1>9, <2>1, TeamAssumption DEF lim
    <3>. QED
      BY <1>1, <1>3, <1>9, <1>a, <3>1, <3>2
  <2>2. CASE ~(Len(s) <= MaxEntries)
    <3> DEFINE d == Len(s) - Target
               x == Event("truncated", d, "")
               r == SubSeq(s, d + 1, Len(s))
    <3>1. Target \in Nat /\ d \in Nat
      BY <1>2, <1>3, <2>2, TargetFits, TeamAssumption
    <3>2. events' = <<x>> \o r
      BY <1>9, <2>2 DEF Truncate
    <3>3. x \in Marker
      BY <3>1 DEF Event, Marker
    <3>4. r \in Seq(Happened \cup Marker) /\ Len(r) = Target /\ \A j \in 1..Target : r[j] = s[d + j]
      <4>1. Len(s) = d + Target /\ Len(s) \in Nat
        BY <1>2, <1>3, <3>1
      <4>. HIDE DEF d
      <4>2. \A i \in (d + 1)..Len(s) : s[i] \in Happened \cup Marker
        BY <1>3, <3>1, <4>1
      <4>3. /\ r \in Seq(Happened \cup Marker) /\ Len(r) = IF d + 1 <= Len(s) THEN Len(s) - (d + 1) + 1 ELSE 0
            /\ \A i \in 1..(Len(s) - (d + 1) + 1) : r[i] = s[(d + 1) + i - 1]
        BY <3>1, <4>1, <4>2, SubSeqProperties
      <4>. HIDE DEF r
      <4>4. ASSUME NEW j \in 1..Target PROVE r[j] = s[d + j]
        <5>1. j \in 1..(Len(s) - (d + 1) + 1) /\ (d + 1) + j - 1 = d + j
          BY <3>1, <4>1
        <5>. QED
          BY <4>3, <5>1
      <4>. QED
        BY <3>1, <4>1, <4>3, <4>4
    <3>5. /\ events' \in Seq(Happened \cup Marker) /\ Len(events') = Target + 1
          /\ events'[1] \in Marker /\ \A j \in 2..(Target + 1) : events'[j] = s[d + j - 1]
      <4>. HIDE DEF d, r, x
      <4>0. x \in Happened \cup Marker
        BY <3>3
      <4>1. /\ events' \in Seq(Happened \cup Marker) /\ Len(events') = Target + 1
            /\ events'[1] = x
            /\ \A j \in 2..(Target + 1) : events'[j] = r[j - 1]
        BY <3>2, <3>4, <4>0, AddedInFront
      <4>2. ASSUME NEW j \in 2..(Target + 1)
            PROVE  events'[j] = s[d + j - 1]
        <5>1. j - 1 \in 1..Target /\ d + (j - 1) = d + j - 1
          BY <3>1
        <5>. QED
          BY <3>4, <4>1, <5>1
      <4>. QED
        BY <3>3, <4>1, <4>2
    <3>6. ASSUME NEW j \in 2..(Target + 1)
          PROVE  /\ Len(h) - Len(events') + j \in 1..Len(h)
                 /\ events'[j] = h[Len(h) - Len(events') + j]
      <4>1. d + j - 1 \in 1..Len(s) /\ events'[j] = s[d + j - 1]
        <5>1. Len(s) = d + Target /\ Len(s) \in Nat
          BY <1>2, <1>3, <3>1
        <5>. HIDE DEF d
        <5>. QED
          BY <3>1, <3>5, <5>1
      <4>2. ~(d + j - 1 = 1 /\ events # <<>>)
        <5>. SUFFICES ASSUME d + j - 1 = 1, events # <<>> PROVE FALSE
          OBVIOUS
        <5>1. Len(events) > 0
          BY <1>1
        <5>2. d = 0 /\ Len(s) = Target
          BY <1>2, <1>3, <3>1
        <5>. QED
          BY <1>2, <1>3, <2>2, <5>1, <5>2, TargetFits, TeamAssumption
      <4>3. /\ Len(h) - Len(s) + (d + j - 1) \in 1..Len(h)
            /\ s[d + j - 1] = h[Len(h) - Len(s) + (d + j - 1)]
        BY <1>5, <4>1, <4>2
      <4>4. Len(h) - Len(s) + (d + j - 1) = Len(h) - Len(events') + j
        <5>1. Len(s) = d + Target /\ Len(events') = Target + 1
          BY <1>2, <1>3, <3>1, <3>5
        <5>2. Len(h) \in Nat /\ d \in Nat /\ Target \in Nat /\ j \in Int
          BY <1>2, <1>3, <3>1
        <5>. HIDE DEF d
        <5>. QED
          BY <5>1, <5>2
      <4>. QED
        BY <4>1, <4>3, <4>4
    <3>7. Len(events') <= lim + faults'
      BY <1>1, <1>9, <3>1, <3>5, TargetFits, TeamAssumption DEF lim
    <3>8. LogInv'
      <4>. SUFFICES ASSUME NEW j \in 1..Len(events')
                    PROVE  \/ j = 1 /\ events'[1] \in Marker
                           \/ /\ Len(log') - Len(events') + j \in 1..Len(log')
                              /\ events'[j] = log'[Len(log') - Len(events') + j]
        BY <3>7 DEF LogInv, lim
      <4>. QED
        BY <1>9, <3>1, <3>5, <3>6
    <3>. QED
      BY <1>1, <1>3, <1>9, <3>5, <3>8
  <2>. QED
    BY <2>1, <2>2
<1>. QED
  BY <1>7, <1>8, <1>9 DEF Record, s, h

\* A file operation that fails is counted.
LEMMA FaultCounts ==
  ASSUME RunTyped, Fault
  PROVE  faults' \in 0..MaxFaults /\ faults' > faults /\ faults \in Nat
BY TeamAssumption DEF Fault, RunTyped, RunTypeOK

\* The log stays what it is when nothing is appended.
LEMMA QuietLog ==
  ASSUME RunTyped, LogInv, UNCHANGED <<events, log>>, faults' \in Nat, faults' >= faults
  PROVE  LogInv'
<1>1. faults \in Nat /\ Len(events) \in Nat
  BY DEF RunTyped, RunTypeOK
<1>2. Len(events) <= (IF MaxEntries >= 2 THEN MaxEntries ELSE 2) + faults'
  BY <1>1, TeamAssumption DEF LogInv
<1>. QED
  BY <1>2 DEF LogInv

\* A snapshot, written or not, leaves a state file of its type.
LEMMA SnapshotTyped ==
  ASSUME RunTyped, NEW n \in Nat, NEW status \in {"running", "completed", "failed"},
         Snapshot(n, status)
  PROVE  /\ state' \in States /\ faults' \in 0..MaxFaults /\ faults' >= faults
         /\ \/ /\ state' = [stage |-> n, status |-> status, members |-> lifecycles]
               /\ faults' = faults
            \/ state' = state /\ faults' > faults
<1>1. lifecycles \in [Labels -> Lifecycles] /\ faults \in 0..MaxFaults /\ state \in States
  BY DEF RunTyped, RunTypeOK, Lifecycles
<1>2. CASE UNCHANGED faults /\ state' = [stage |-> n, status |-> status, members |-> lifecycles]
  BY <1>1, <1>2, TeamAssumption DEF States
<1>3. CASE Fault /\ UNCHANGED state
  BY <1>1, <1>3, FaultCounts, TeamAssumption
<1>. QED
  BY <1>2, <1>3 DEF Snapshot

-----------------------------------------------------------------------------
(* The steps of a run.                                                     *)

RunStep == Step \/ Cleanup \/ Crash \/ UNCHANGED runVars

\* The types and the log, over every step of the run.
LEMMA TypedStep ==
  ASSUME RunTyped, PlaceInv, LogInv, RunStep
  PROVE  RunTyped' /\ LogInv'
<1>1. /\ plan \in Seq(Seq(Labels)) /\ Len(plan) \in Nat
      /\ Stage \in Seq(Labels) /\ Len(Stage) \in Nat /\ DOMAIN Stage = 1..Len(Stage)
      /\ Crew \subseteq Labels /\ \A i \in DOMAIN Stage : Stage[i] \in Labels
  BY StageTyped
<1>2. /\ plan \in Plans /\ spawner \in BOOLEAN /\ limit \in Limits /\ limit \in Nat
      /\ up \in BOOLEAN /\ phase \in Phases /\ si \in 1..(Len(plan) + 1) /\ si \in Nat
      /\ k \in Nat /\ k >= 1 /\ permits \in Nat /\ anyErr \in BOOLEAN
      /\ lifecycles \in [Labels -> Lifecycles]
      /\ member \in [Labels -> {"none", "waiting", "running", "ok", "error"}]
      /\ pad \in -2..Len(plan) /\ registered \in BOOLEAN
      /\ faults \in 0..MaxFaults /\ faults \in Nat /\ MaxFaults \in Nat
      /\ state \in States /\ events \in Seq(Happened \cup Marker) /\ log \in Seq(Happened)
  BY TeamAssumption DEF RunTyped, RunTypeOK, Lifecycles
<1>3. ASSUME NEW e \in Happened, Record(e)
      PROVE  /\ events' \in Seq(Happened \cup Marker) /\ log' \in Seq(Happened)
             /\ LogInv' /\ faults' \in 0..MaxFaults
  BY <1>3, RecordKeepsLog
<1>4. /\ \A n \in Nat : /\ Event("stage_started", n, "") \in Happened
                       /\ Event("stage_completed", n, "") \in Happened
      /\ \A n \in Nat, l \in Labels : /\ Event("member_spawned", n, l) \in Happened
                                    /\ Event("member_completed", n, l) \in Happened
      /\ Event("team_created", 0, "") \in Happened
      /\ Event("team_completed", 0, FinalStatus) \in Happened
  BY DEF Event, Happened, Kinds, FinalStatus
<1>5. ASSUME UNCHANGED <<events, log>>, UNCHANGED faults \/ Fault
      PROVE  LogInv' /\ faults' \in 0..MaxFaults
  BY <1>2, <1>5, QuietLog, FaultCounts
<1>. USE DEF Phases, Lifecycles, inputs
<1>6. CASE Declare
  <2>1. LogInv' /\ faults' \in 0..MaxFaults
    BY <1>5, <1>6 DEF Declare
  <2>. QED
    BY <1>1, <1>2, <1>6, <2>1 DEF Declare, RunTyped, RunTypeOK, States
<1>7. CASE Created
  <2>1. Event("team_created", 0, "") \in Happened /\ Record(Event("team_created", 0, ""))
    BY <1>1, <1>2, <1>4, <1>7 DEF Created
  <2>2. events' \in Seq(Happened \cup Marker) /\ log' \in Seq(Happened) /\ LogInv' /\ faults' \in 0..MaxFaults
    BY <2>1, <1>3
  <2>. QED
    <3>0. Len(plan) \in Nat /\ pad' \in {NoPad, 0}
      BY <1>1, <1>7 DEF Created
    <3>1. phase' \in Phases /\ pad' \in -2..Len(plan)
      <4>1. phase' = "stage"
        BY <1>7 DEF Created
      <4>. QED
        BY <3>0, <4>1 DEF NoPad
    <3>2. UNCHANGED <<plan, spawner, limit, up, si, k, lifecycles, member, permits, anyErr, state, registered>>
      BY <1>7 DEF Created
    <3>. QED
      BY <1>1, <1>2, <2>2, <3>1, <3>2 DEF RunTyped, RunTypeOK, States
<1>8. CASE StartStage
  <2>1. Event("stage_started", si, "") \in Happened /\ Record(Event("stage_started", si, ""))
    BY <1>1, <1>2, <1>4, <1>8 DEF StartStage
  <2>2. events' \in Seq(Happened \cup Marker) /\ log' \in Seq(Happened) /\ LogInv' /\ faults' \in 0..MaxFaults
    BY <2>1, <1>3
  <2>. QED
    <3>1. phase' \in Phases /\ k' = 1
      BY <1>8 DEF StartStage
    <3>2. UNCHANGED <<plan, spawner, limit, up, si, lifecycles, member, permits, anyErr, pad, state, registered>>
      BY <1>8 DEF StartStage
    <3>. QED
      BY <1>1, <1>2, <2>2, <3>1, <3>2 DEF RunTyped, RunTypeOK, States
<1>9. CASE SpawnMember
  <2>0. Stage[k] \in Labels
    BY <1>1, <1>2, <1>9 DEF SpawnMember
  <2>1. Event("member_spawned", si, Stage[k]) \in Happened /\ Record(Event("member_spawned", si, Stage[k]))
    BY <1>2, <1>4, <1>9, <2>0 DEF SpawnMember
  <2>2. events' \in Seq(Happened \cup Marker) /\ log' \in Seq(Happened) /\ LogInv' /\ faults' \in 0..MaxFaults
    BY <2>1, <1>3
  <2>. QED
    BY <1>1, <1>2, <1>9, <2>2 DEF SpawnMember, RunTyped, RunTypeOK, States
<1>10. CASE BeginStage
  <2>1. state' \in States /\ faults' \in 0..MaxFaults /\ faults' >= faults
    BY <1>1, <1>2, <1>10, SnapshotTyped DEF BeginStage, FinalStatus
  <2>2. LogInv'
    BY <1>2, <1>10, <2>1, QuietLog DEF BeginStage
  <2>. QED
    BY <1>1, <1>2, <1>10, <2>1, <2>2 DEF BeginStage, RunTyped, RunTypeOK, States, PlaceInv, InStage
<1>11. CASE NoSpawner
  <2>1. LogInv' /\ faults' \in 0..MaxFaults
    BY <1>5, <1>11 DEF NoSpawner
  <2>. QED
    BY <1>1, <1>2, <1>11, <2>1 DEF NoSpawner, RunTyped, RunTypeOK, States
<1>12. CASE Join
  <2>1. LogInv' /\ faults' \in 0..MaxFaults
    BY <1>5, <1>12 DEF Join
  <2>. QED
    BY <1>1, <1>2, <1>12, <2>1 DEF Join, RunTyped, RunTypeOK, States
<1>13. CASE RecordMember
  <2>0. Stage[k] \in Labels
    BY <1>1, <1>2, <1>13 DEF RecordMember
  <2>1. Event("member_completed", si, Stage[k]) \in Happened /\ Record(Event("member_completed", si, Stage[k]))
    BY <1>2, <1>4, <1>13, <2>0 DEF RecordMember
  <2>2. events' \in Seq(Happened \cup Marker) /\ log' \in Seq(Happened) /\ LogInv' /\ faults' \in 0..MaxFaults
    BY <2>1, <1>3
  <2>. QED
    BY <1>1, <1>2, <1>13, <2>2 DEF RecordMember, RunTyped, RunTypeOK, States
<1>14. CASE Recorded
  <2>1. LogInv' /\ faults' \in 0..MaxFaults
    BY <1>5, <1>14 DEF Recorded
  <2>. QED
    BY <1>1, <1>2, <1>14, <2>1 DEF Recorded, RunTyped, RunTypeOK, States
<1>15. CASE TruncatePad
  <2>1. LogInv' /\ faults' \in 0..MaxFaults
    BY <1>5, <1>15 DEF TruncatePad
  <2>2. UNCHANGED <<plan, spawner, limit, up, si, k, lifecycles, member, permits, anyErr, state, events, log, registered>>
    BY <1>15 DEF TruncatePad, inputs
  <2>3. phase' \in Phases
    BY <1>15 DEF TruncatePad, Phases
  <2>4. pad' \in -2..Len(plan)
    BY <1>1, <1>2, <1>15 DEF TruncatePad, RunTyped, RunTypeOK, PlaceInv, InStage, Torn
  <2>. QED
    BY <1>2, <2>1, <2>2, <2>3, <2>4 DEF RunTyped, RunTypeOK
<1>16. CASE WritePad
  <2>1. LogInv' /\ faults' \in 0..MaxFaults
    BY <1>5, <1>16 DEF WritePad
  <2>2. UNCHANGED <<plan, spawner, limit, up, si, k, lifecycles, member, permits, anyErr, state, events, log, registered>>
    BY <1>16 DEF WritePad, inputs
  <2>3. phase' \in Phases
    BY <1>16 DEF WritePad, Phases
  <2>4. pad' \in -2..Len(plan)
    BY <1>1, <1>2, <1>16 DEF WritePad, RunTyped, RunTypeOK, PlaceInv, InStage, Torn
  <2>. QED
    BY <1>2, <2>1, <2>2, <2>3, <2>4 DEF RunTyped, RunTypeOK
<1>17. CASE CompleteStage
  <2>1. Event("stage_completed", si, "") \in Happened /\ Record(Event("stage_completed", si, ""))
    BY <1>1, <1>2, <1>4, <1>17 DEF CompleteStage
  <2>2. events' \in Seq(Happened \cup Marker) /\ log' \in Seq(Happened) /\ LogInv' /\ faults' \in 0..MaxFaults
    BY <2>1, <1>3
  <2>. QED
    BY <1>1, <1>2, <1>17, <2>2 DEF CompleteStage, RunTyped, RunTypeOK, States
<1>18. CASE EndStage
  <2>1. state' \in States /\ faults' \in 0..MaxFaults /\ faults' >= faults
    BY <1>1, <1>2, <1>18, SnapshotTyped DEF EndStage, FinalStatus
  <2>2. LogInv'
    BY <1>2, <1>18, <2>1, QuietLog DEF EndStage
  <2>. QED
    BY <1>1, <1>2, <1>18, <2>1, <2>2 DEF EndStage, RunTyped, RunTypeOK, States, PlaceInv, InStage
<1>19. CASE Finish
  <2>1. state' \in States /\ faults' \in 0..MaxFaults /\ faults' >= faults
    BY <1>1, <1>2, <1>19, SnapshotTyped DEF Finish, FinalStatus
  <2>2. LogInv'
    BY <1>2, <1>19, <2>1, QuietLog DEF Finish
  <2>. QED
    BY <1>1, <1>2, <1>19, <2>1, <2>2 DEF Finish, RunTyped, RunTypeOK, States, PlaceInv, InStage
<1>20. CASE Announce
  <2>1. Event("team_completed", 0, FinalStatus) \in Happened /\ Record(Event("team_completed", 0, FinalStatus))
    BY <1>1, <1>2, <1>4, <1>20 DEF Announce
  <2>2. events' \in Seq(Happened \cup Marker) /\ log' \in Seq(Happened) /\ LogInv' /\ faults' \in 0..MaxFaults
    BY <2>1, <1>3
  <2>. QED
    BY <1>1, <1>2, <1>20, <2>2 DEF Announce, RunTyped, RunTypeOK, States
<1>21. CASE Register
  <2>1. LogInv' /\ faults' \in 0..MaxFaults
    BY <1>5, <1>21 DEF Register
  <2>. QED
    BY <1>1, <1>2, <1>21, <2>1 DEF Register, RunTyped, RunTypeOK, States
<1>22. CASE Cleanup
  <2>1. CASE state' = NoState /\ events' = <<>> /\ log' = <<>> /\ pad' = NoPad /\ UNCHANGED faults
    <3>1. state' \in States
      BY <2>1 DEF NoState, States
    <3>2. events' \in Seq(Happened \cup Marker) /\ log' \in Seq(Happened) /\ Len(events') = 0
      BY <2>1
    <3>3. LogInv'
      BY <1>2, <2>1, <3>2, TeamAssumption DEF LogInv
    <3>4. pad' \in -2..Len(plan) /\ registered' \in BOOLEAN /\ faults' = faults
      <4>1. Len(plan) \in Nat
        BY <1>1
      <4>2. registered' = FALSE
        BY <1>22 DEF Cleanup
      <4>3. pad' = NoPad /\ faults' = faults
        BY <2>1
      <4>4. pad' \in -2..Len(plan)
        BY <4>1, <4>3 DEF NoPad
      <4>. QED
        BY <4>2, <4>3, <4>4
    <3>5. UNCHANGED <<plan, spawner, limit, up, phase, si, k, lifecycles, member, permits, anyErr>>
      BY <1>22 DEF Cleanup
    <3>. QED
      BY <1>1, <1>2, <3>1, <3>2, <3>3, <3>4, <3>5 DEF RunTyped, RunTypeOK, States
  <2>2. CASE Fault /\ UNCHANGED <<state, events, log, pad>>
    <3>1. LogInv' /\ faults' \in 0..MaxFaults
      BY <1>5, <2>2
    <3>. QED
      BY <1>1, <1>2, <1>22, <2>2, <3>1 DEF Cleanup, RunTyped, RunTypeOK, States
  <2>. QED
    BY <1>22, <2>1, <2>2 DEF Cleanup
<1>23. CASE Crash
  <2>1. LogInv' /\ faults' \in 0..MaxFaults
    BY <1>5, <1>23 DEF Crash
  <2>. QED
    BY <1>1, <1>2, <1>23, <2>1 DEF Crash, RunTyped, RunTypeOK, States
<1>24. ASSUME NEW l \in Labels, StartMember(l) PROVE RunTyped' /\ LogInv'
  <2>1. LogInv' /\ faults' \in 0..MaxFaults
    BY <1>5, <1>24 DEF StartMember
  <2>. QED
    BY <1>1, <1>2, <1>24, <2>1 DEF StartMember, RunTyped, RunTypeOK, States
<1>25. ASSUME NEW l \in Labels, NEW result \in {"ok", "error"}, EndMember(l, result) PROVE RunTyped' /\ LogInv'
  <2>1. LogInv' /\ faults' \in 0..MaxFaults
    BY <1>5, <1>25 DEF EndMember
  <2>. QED
    BY <1>1, <1>2, <1>25, <2>1 DEF EndMember, RunTyped, RunTypeOK, States
<1>26. ASSUME NEW merged, AggregateStage(merged) PROVE RunTyped' /\ LogInv'
  <2>1. LogInv' /\ faults' \in 0..MaxFaults
    BY <1>5, <1>26 DEF AggregateStage
  <2>. QED
    BY <1>1, <1>2, <1>26, <2>1 DEF AggregateStage, RunTyped, RunTypeOK, States
<1>27. CASE UNCHANGED runVars
  <2>1. LogInv' /\ faults' \in 0..MaxFaults
    BY <1>5, <1>27 DEF runVars
  <2>. QED
    BY <1>1, <1>2, <1>27, <2>1 DEF runVars, RunTyped, RunTypeOK, States
<1>. QED
  BY <1>6, <1>7, <1>8, <1>9, <1>10, <1>11, <1>12, <1>13, <1>14, <1>15, <1>16, <1>17, <1>18, <1>19,
     <1>20, <1>21, <1>22, <1>23, <1>24, <1>25, <1>26, <1>27 DEF RunStep, Step

-----------------------------------------------------------------------------
(* Where the run is, and who runs.                                         *)

\* The run is inside a stage of its plan or after the last one.
LEMMA PlaceStep ==
  ASSUME RunTyped, PlaceInv, RunTyped', RunStep
  PROVE  PlaceInv'
<1>. USE DEF PlaceInv, InStage, AtEnd, inputs, RunTyped, RunTypeOK, Phases, Snapshot, Fault, FinalStatus, NoState
<1>1. CASE Declare
  BY <1>1 DEF Declare
<1>2. CASE Created
  BY <1>2 DEF Created
<1>3. CASE StartStage
  BY <1>3 DEF StartStage
<1>4. CASE SpawnMember
  BY <1>4 DEF SpawnMember
<1>5. CASE BeginStage
  BY <1>5 DEF BeginStage
<1>6. CASE NoSpawner
  BY <1>6 DEF NoSpawner
<1>7. CASE Join
  BY <1>7 DEF Join
<1>8. CASE RecordMember
  BY <1>8 DEF RecordMember
<1>9. CASE Recorded
  BY <1>9 DEF Recorded
<1>10. CASE TruncatePad
  BY <1>10 DEF TruncatePad
<1>11. CASE WritePad
  BY <1>11 DEF WritePad
<1>12. CASE CompleteStage
  BY <1>12 DEF CompleteStage
<1>13. CASE EndStage
  BY <1>13 DEF EndStage
<1>14. CASE Finish
  BY <1>14 DEF Finish
<1>15. CASE Announce
  BY <1>15 DEF Announce
<1>16. CASE Register
  BY <1>16 DEF Register
<1>17. CASE Cleanup
  BY <1>17 DEF Cleanup
<1>18. CASE Crash
  BY <1>18 DEF Crash
<1>19. ASSUME NEW l \in Labels, StartMember(l) PROVE PlaceInv'
  BY <1>19 DEF StartMember
<1>20. ASSUME NEW l \in Labels, NEW result \in {"ok", "error"}, EndMember(l, result) PROVE PlaceInv'
  BY <1>20 DEF EndMember
<1>21. ASSUME NEW merged, AggregateStage(merged) PROVE PlaceInv'
  BY <1>21 DEF AggregateStage
<1>22. CASE UNCHANGED runVars
  BY <1>22 DEF runVars
<1>. QED
  BY <1>1, <1>2, <1>3, <1>4, <1>5, <1>6, <1>7, <1>8, <1>9, <1>10,
     <1>11, <1>12, <1>13, <1>14, <1>15, <1>16, <1>17, <1>18, <1>19, <1>20, <1>21, <1>22
   DEF RunStep, Step

\* A member waits or runs only in its own stage: join_all waits for every one.
LEMMA MemberStep ==
  ASSUME RunTyped, PlaceInv, MemberInv, RunStep
  PROVE  MemberInv'
<1>. USE DEF MemberInv, inputs, RunTyped, RunTypeOK
<1>a. UNCHANGED <<plan, si>> => Crew' = Crew
  BY StageStays
<1>1. CASE Declare
  BY <1>1, <1>a DEF Declare
<1>2. CASE Created
  BY <1>2, <1>a DEF Created
<1>3. CASE StartStage
  BY <1>3, <1>a DEF StartStage
<1>4. CASE SpawnMember
  BY <1>4, <1>a DEF SpawnMember
<1>5. CASE BeginStage
  BY <1>5, <1>a DEF BeginStage
<1>6. CASE NoSpawner
  BY <1>6, <1>a DEF NoSpawner
<1>7. CASE Join
  BY <1>7, <1>a DEF Join
<1>8. CASE RecordMember
  BY <1>8, <1>a DEF RecordMember
<1>9. CASE Recorded
  BY <1>9, <1>a DEF Recorded
<1>10. CASE TruncatePad
  BY <1>10, <1>a DEF TruncatePad
<1>11. CASE WritePad
  BY <1>11, <1>a DEF WritePad
<1>12. CASE CompleteStage
  BY <1>12, <1>a DEF CompleteStage
<1>13. CASE EndStage
  BY <1>13, <1>a DEF EndStage
<1>14. CASE Finish
  BY <1>14, <1>a DEF Finish
<1>15. CASE Announce
  BY <1>15, <1>a DEF Announce
<1>16. CASE Register
  BY <1>16, <1>a DEF Register
<1>17. CASE Cleanup
  BY <1>17, <1>a DEF Cleanup
<1>18. CASE Crash
  BY <1>18, <1>a DEF Crash
<1>19. ASSUME NEW l \in Labels, StartMember(l) PROVE MemberInv'
  BY <1>19, <1>a DEF StartMember
<1>20. ASSUME NEW l \in Labels, NEW result \in {"ok", "error"}, EndMember(l, result) PROVE MemberInv'
  BY <1>20, <1>a DEF EndMember
<1>21. ASSUME NEW merged, AggregateStage(merged) PROVE MemberInv'
  BY <1>21, <1>a DEF AggregateStage
<1>22. CASE UNCHANGED runVars
  BY <1>22, <1>a DEF runVars
<1>. QED
  BY <1>1, <1>2, <1>3, <1>4, <1>5, <1>6, <1>7, <1>8, <1>9, <1>10,
     <1>11, <1>12, <1>13, <1>14, <1>15, <1>16, <1>17, <1>18, <1>19, <1>20, <1>21, <1>22
   DEF RunStep, Step

\* No failure is forgotten on the way to any_err, and none is made up.
LEMMA ErrorStep ==
  ASSUME RunTyped, PlaceInv, MemberInv, ErrorInv, RunStep
  PROVE  ErrorInv'
<1>. USE DEF ErrorInv, inputs, RunTyped, RunTypeOK
<1>a. UNCHANGED <<plan, si>> => Crew' = Crew /\ Stage' = Stage
  BY StageStays
<1>b. /\ DOMAIN Stage = 1..Len(Stage) /\ Len(Stage) \in Nat /\ Crew \subseteq Labels
      /\ \A i \in DOMAIN Stage : Stage[i] \in Crew /\ Stage[i] \in Labels
      /\ \A l \in Crew : \E i \in DOMAIN Stage : Stage[i] = l
  BY StageTyped DEF Crew
<1>1. CASE Declare
  BY <1>1, <1>a, <1>b DEF Declare
<1>2. CASE Created
  BY <1>2, <1>a, <1>b DEF Created
<1>3. CASE StartStage
  BY <1>3, <1>a, <1>b DEF StartStage
<1>4. CASE SpawnMember
  BY <1>4, <1>a, <1>b DEF SpawnMember
<1>5. CASE BeginStage
  BY <1>5, <1>a, <1>b DEF BeginStage
<1>6. CASE NoSpawner
  <2>1. phase = "spawn" /\ phase' = "aggregate"
    BY <1>6 DEF NoSpawner
  <2>2. anyErr' <=> anyErr \/ Crew # {}
    BY <1>6, Zenon DEF NoSpawner
  <2>3. failures' = failures \cup {<<si, l>> : l \in Crew}
    BY <1>6 DEF NoSpawner
  <2>4. failures' # {} <=> failures # {} \/ Crew # {}
    <3>1. ASSUME Crew # {} PROVE failures' # {}
      <4>1. PICK l : l \in Crew
        BY <3>1
      <4>2. <<si, l>> \in failures'
        BY <2>3, <4>1
      <4>. QED
        BY <4>2
    <3>2. ASSUME failures' # {} PROVE failures # {} \/ Crew # {}
      <4>1. PICK f : f \in failures'
        BY <3>2
      <4>. QED
        BY <2>3, <4>1
    <3>3. failures # {} => failures' # {}
      BY <2>3
    <3>. QED
      BY <3>1, <3>2, <3>3
  <2>5. anyErr <=> failures # {}
    BY <2>1
  <2>. QED
    BY <2>1, <2>2, <2>4, <2>5
<1>7. CASE Join
  <2>1. phase = "run" /\ phase' = "record" /\ k' = 1 /\ UNCHANGED <<plan, si, member, anyErr, failures>>
    BY <1>7 DEF Join
  <2>2. ASSUME failures # {}, ~anyErr
        PROVE  \E i \in DOMAIN Stage : i >= 1 /\ member[Stage[i]] = "error"
    <3>1. PICK l \in Crew : member[l] = "error"
      BY <2>1, <2>2
    <3>2. PICK i \in DOMAIN Stage : Stage[i] = l
      BY <1>b
    <3>. QED
      BY <1>b, <3>1, <3>2
  <2>. QED
    BY <1>a, <2>1, <2>2
<1>8. CASE RecordMember
  <2>0. anyErr' <=> anyErr \/ member[Stage[k]] = "error"
    BY <1>8, Zenon DEF RecordMember
  <2>1. /\ phase = "record" /\ phase' = "record" /\ k' = k + 1 /\ k \in DOMAIN Stage
        /\ UNCHANGED <<plan, si, member, failures>>
    BY <1>8, <1>b DEF RecordMember
  <2>2. ASSUME anyErr' PROVE failures # {}
    BY <1>b, <2>0, <2>1, <2>2
  <2>3. ASSUME failures # {}, ~anyErr'
        PROVE  \E i \in DOMAIN Stage : i >= k + 1 /\ member[Stage[i]] = "error"
    <3>1. PICK i \in DOMAIN Stage : i >= k /\ member[Stage[i]] = "error"
      BY <2>0, <2>1, <2>3
    <3>2. i # k
      BY <2>0, <2>3, <3>1
    <3>. QED
      BY <1>b, <3>1, <3>2
  <2>. QED
    BY <1>a, <2>1, <2>2, <2>3
<1>9. CASE Recorded
  BY <1>9, <1>a, <1>b DEF Recorded
<1>10. CASE TruncatePad
  BY <1>10, <1>a, <1>b DEF TruncatePad
<1>11. CASE WritePad
  BY <1>11, <1>a, <1>b DEF WritePad
<1>12. CASE CompleteStage
  BY <1>12, <1>a, <1>b DEF CompleteStage
<1>13. CASE EndStage
  BY <1>13, <1>a, <1>b DEF EndStage
<1>14. CASE Finish
  BY <1>14, <1>a, <1>b DEF Finish
<1>15. CASE Announce
  BY <1>15, <1>a, <1>b DEF Announce
<1>16. CASE Register
  BY <1>16, <1>a, <1>b DEF Register
<1>17. CASE Cleanup
  BY <1>17, <1>a, <1>b DEF Cleanup
<1>18. CASE Crash
  BY <1>18, <1>a, <1>b DEF Crash
<1>19. ASSUME NEW l \in Labels, StartMember(l) PROVE ErrorInv'
  BY <1>19, <1>a, <1>b DEF StartMember
<1>20. ASSUME NEW l \in Labels, NEW result \in {"ok", "error"}, EndMember(l, result) PROVE ErrorInv'
  BY <1>20, <1>a, <1>b DEF EndMember, MemberInv
<1>21. ASSUME NEW merged, AggregateStage(merged) PROVE ErrorInv'
  BY <1>21, <1>a, <1>b DEF AggregateStage
<1>22. CASE UNCHANGED runVars
  BY <1>22, <1>a DEF runVars
<1>. QED
  BY <1>1, <1>2, <1>3, <1>4, <1>5, <1>6, <1>7, <1>8, <1>9, <1>10,
     <1>11, <1>12, <1>13, <1>14, <1>15, <1>16, <1>17, <1>18, <1>19, <1>20, <1>21, <1>22
   DEF RunStep, Step

\* Failed file operations are only counted up.
LEMMA StepFaults ==
  ASSUME RunTyped, RunStep
  PROVE  faults' = faults \/ faults' = faults + 1
<1>. USE DEF RunTyped, RunTypeOK, Record, Snapshot, Fault
<1>1. CASE Step
  BY <1>1 DEF Step, Declare, Created, StartStage, SpawnMember, BeginStage, NoSpawner, StartMember,
     EndMember, Join, RecordMember, Recorded, AggregateStage, TruncatePad, WritePad, CompleteStage,
     EndStage, Finish, Announce, Register
<1>2. CASE Cleanup \/ Crash \/ UNCHANGED runVars
  BY <1>2 DEF Cleanup, Crash, runVars
<1>. QED
  BY <1>1, <1>2 DEF RunStep

\* Every member is marked Active before the snapshot of the start of its stage is taken.
LEMMA SnapshotStep ==
  ASSUME RunTyped, PlaceInv, SnapshotInv, RunStep
  PROVE  SnapshotInv'
<1>. USE DEF SnapshotInv, inputs, RunTyped, RunTypeOK
<1>a. UNCHANGED <<plan, si>> => Crew' = Crew /\ Stage' = Stage
  BY StageStays
<1>b. /\ DOMAIN Stage = 1..Len(Stage) /\ Len(Stage) \in Nat /\ Crew \subseteq Labels
      /\ \A i \in DOMAIN Stage : Stage[i] \in Crew /\ Stage[i] \in Labels
      /\ \A l \in Crew : \E i \in DOMAIN Stage : Stage[i] = l
  BY StageTyped DEF Crew
<1>c. faults' = faults \/ faults' = faults + 1
  BY StepFaults
<1>1. CASE Declare
  BY <1>1, <1>a, <1>b, <1>c DEF Declare
<1>2. CASE Created
  BY <1>2, <1>a, <1>b, <1>c DEF Created
<1>3. CASE StartStage
  <2>1. phase' = "spawn" /\ k' = 1 /\ Stage' = Stage
    BY <1>3, <1>a DEF StartStage
  <2>2. \A i \in DOMAIN Stage : ~(i < 1)
    BY <1>b
  <2>. QED
    BY <2>1, <2>2
<1>4. CASE SpawnMember
  BY <1>4, <1>a, <1>b, <1>c DEF SpawnMember
<1>5. CASE BeginStage
  <2>1. phase = "spawn" /\ spawner /\ k > Len(Stage) /\ phase' = "run" /\ Crew' = Crew
    BY <1>5, <1>a DEF BeginStage
  <2>. SUFFICES ASSUME faults' = 0, NEW l \in Crew PROVE state'.members[l] = "active"
    BY <2>1
  <2>2. state'.members = lifecycles
    <3>1. faults # faults + 1 /\ faults >= 0 /\ faults + 1 # 0
      OBVIOUS
    <3>. QED
      BY <1>5, <3>1 DEF BeginStage, Snapshot, Fault
  <2>3. PICK i \in DOMAIN Stage : Stage[i] = l
    BY <1>b
  <2>4. i < k
    BY <1>b, <2>1
  <2>. QED
    BY <2>1, <2>2, <2>3, <2>4
<1>6. CASE NoSpawner
  BY <1>6, <1>a, <1>b, <1>c DEF NoSpawner
<1>7. CASE Join
  BY <1>7, <1>a, <1>b, <1>c DEF Join
<1>8. CASE RecordMember
  BY <1>8, <1>a, <1>b, <1>c DEF RecordMember
<1>9. CASE Recorded
  BY <1>9, <1>a, <1>b, <1>c DEF Recorded
<1>10. CASE TruncatePad
  BY <1>10, <1>a, <1>b, <1>c DEF TruncatePad
<1>11. CASE WritePad
  BY <1>11, <1>a, <1>b, <1>c DEF WritePad
<1>12. CASE CompleteStage
  BY <1>12, <1>a, <1>b, <1>c DEF CompleteStage
<1>13. CASE EndStage
  BY <1>13, <1>a, <1>b, <1>c DEF EndStage
<1>14. CASE Finish
  BY <1>14, <1>a, <1>b, <1>c DEF Finish
<1>15. CASE Announce
  BY <1>15, <1>a, <1>b, <1>c DEF Announce
<1>16. CASE Register
  BY <1>16, <1>a, <1>b, <1>c DEF Register
<1>17. CASE Cleanup
  BY <1>17, <1>c DEF Cleanup, PlaceInv
<1>18. CASE Crash
  BY <1>18, <1>a, <1>b, <1>c DEF Crash
<1>19. ASSUME NEW l \in Labels, StartMember(l) PROVE SnapshotInv'
  BY <1>19, <1>a, <1>b, <1>c DEF StartMember
<1>20. ASSUME NEW l \in Labels, NEW result \in {"ok", "error"}, EndMember(l, result) PROVE SnapshotInv'
  BY <1>20, <1>a, <1>b, <1>c DEF EndMember
<1>21. ASSUME NEW merged, AggregateStage(merged) PROVE SnapshotInv'
  BY <1>21, <1>a, <1>b, <1>c DEF AggregateStage
<1>22. CASE UNCHANGED runVars
  BY <1>22, <1>a DEF runVars
<1>. QED
  BY <1>1, <1>2, <1>3, <1>4, <1>5, <1>6, <1>7, <1>8, <1>9, <1>10,
     <1>11, <1>12, <1>13, <1>14, <1>15, <1>16, <1>17, <1>18, <1>19, <1>20, <1>21, <1>22
   DEF RunStep, Step

\* The scratchpad gets the section of a stage before the stage is called complete.
LEMMA PadStep ==
  ASSUME RunTyped, PlaceInv, PadInv, RunStep
  PROVE  PadInv'
<1>. USE DEF PadInv, inputs, RunTyped, RunTypeOK
<1>c. faults \in Nat /\ (faults' = faults \/ faults' = faults + 1)
  BY StepFaults
<1>1. CASE Declare
  BY <1>1, <1>c DEF Declare, Fault
<1>2. CASE Created
  <2>1. phase = "created" /\ phase' = "stage" /\ pad' \in {NoPad, 0} /\ si' = si
    BY <1>2 DEF Created
  <2>. QED
    BY <1>c, <2>1 DEF PlaceInv, NoPad, Torn
<1>3. CASE StartStage
  <2>1. phase = "stage" /\ phase' = "spawn" /\ pad' = pad /\ si' = si
    BY <1>3 DEF StartStage
  <2>. QED
    BY <1>c, <2>1
<1>4. CASE SpawnMember
  BY <1>4, <1>c DEF SpawnMember
<1>5. CASE BeginStage
  BY <1>5, <1>c DEF BeginStage
<1>6. CASE NoSpawner
  BY <1>6, <1>c DEF NoSpawner
<1>7. CASE Join
  BY <1>7, <1>c DEF Join
<1>8. CASE RecordMember
  BY <1>8, <1>c DEF RecordMember
<1>9. CASE Recorded
  BY <1>9, <1>c DEF Recorded
<1>10. CASE TruncatePad
  BY <1>10, <1>c DEF TruncatePad, Torn, Fault
<1>11. CASE WritePad
  BY <1>11, <1>c DEF WritePad, Torn, Fault
<1>12. CASE CompleteStage
  <2>1. phase = "complete" /\ phase' = "end" /\ pad' = pad /\ si' = si
    BY <1>12 DEF CompleteStage
  <2>. QED
    BY <1>c, <2>1
<1>13. CASE EndStage
  BY <1>13, <1>c DEF EndStage, Torn, Snapshot, Fault
<1>14. CASE Finish
  BY <1>14, <1>c DEF Finish
<1>15. CASE Announce
  BY <1>15, <1>c DEF Announce
<1>16. CASE Register
  BY <1>16, <1>c DEF Register
<1>17. CASE Cleanup
  BY <1>17, <1>c DEF Cleanup, PlaceInv, NoPad, Torn
<1>18. CASE Crash
  BY <1>18, <1>c DEF Crash
<1>19. ASSUME NEW l \in Labels, StartMember(l) PROVE PadInv'
  BY <1>19, <1>c DEF StartMember
<1>20. ASSUME NEW l \in Labels, NEW result \in {"ok", "error"}, EndMember(l, result) PROVE PadInv'
  BY <1>20, <1>c DEF EndMember
<1>21. ASSUME NEW merged, AggregateStage(merged) PROVE PadInv'
  BY <1>21, <1>c DEF AggregateStage
<1>22. CASE UNCHANGED runVars
  BY <1>22 DEF runVars
<1>. QED
  BY <1>1, <1>2, <1>3, <1>4, <1>5, <1>6, <1>7, <1>8, <1>9, <1>10,
     <1>11, <1>12, <1>13, <1>14, <1>15, <1>16, <1>17, <1>18, <1>19, <1>20, <1>21, <1>22
   DEF RunStep, Step

\* The snapshots of the start and the end of a stage keep state.json at most a stage behind,
\* one more for every write that failed.
LEMMA FreshStep ==
  ASSUME RunTyped, PlaceInv, StateNotStale, RunStep
  PROVE  StateNotStale'
<1>. USE DEF StateNotStale, inputs
<1>c. faults \in Nat /\ (faults' = faults \/ faults' = faults + 1)
  BY StepFaults DEF RunTyped, RunTypeOK
<1>d. Len(plan) \in Nat /\ si \in 1..(Len(plan) + 1) /\ state.stage \in Nat
  BY StageTyped DEF RunTyped, RunTypeOK, States
<1>1. CASE Declare
  BY <1>1, <1>c, <1>d DEF Declare, PlaceInv
<1>2. CASE Created
  <2>1. phase = "created" /\ phase' = "stage" /\ state' = state /\ si' = si
    BY <1>2 DEF Created
  <2>. QED
    BY <1>c, <1>d, <2>1
<1>3. CASE StartStage
  <2>1. phase = "stage" /\ phase' = "spawn" /\ state' = state /\ si' = si
    BY <1>3 DEF StartStage
  <2>. QED
    BY <1>c, <1>d, <2>1
<1>4. CASE SpawnMember
  BY <1>4, <1>c, <1>d DEF SpawnMember
<1>5. CASE BeginStage
  BY <1>5, <1>c, <1>d DEF BeginStage, Snapshot, Fault
<1>6. CASE NoSpawner
  BY <1>6, <1>c, <1>d DEF NoSpawner
<1>7. CASE Join
  BY <1>7, <1>c, <1>d DEF Join
<1>8. CASE RecordMember
  BY <1>8, <1>c, <1>d DEF RecordMember
<1>9. CASE Recorded
  BY <1>9, <1>c, <1>d DEF Recorded
<1>10. CASE TruncatePad
  BY <1>10, <1>c, <1>d DEF TruncatePad
<1>11. CASE WritePad
  BY <1>11, <1>c, <1>d DEF WritePad
<1>12. CASE CompleteStage
  <2>1. phase = "complete" /\ phase' = "end" /\ state' = state /\ si' = si
    BY <1>12 DEF CompleteStage
  <2>. QED
    BY <1>c, <1>d, <2>1
<1>13. CASE EndStage
  BY <1>13, <1>c, <1>d DEF EndStage, Snapshot, Fault
<1>14. CASE Finish
  BY <1>14, <1>c, <1>d DEF Finish, Snapshot, Fault
<1>15. CASE Announce
  BY <1>15, <1>c, <1>d DEF Announce
<1>16. CASE Register
  BY <1>16, <1>c, <1>d DEF Register
<1>17. CASE Cleanup
  BY <1>17, <1>c, <1>d DEF Cleanup, PlaceInv
<1>18. CASE Crash
  BY <1>18, <1>c, <1>d DEF Crash
<1>19. ASSUME NEW l \in Labels, StartMember(l) PROVE StateNotStale'
  BY <1>19, <1>c, <1>d DEF StartMember
<1>20. ASSUME NEW l \in Labels, NEW result \in {"ok", "error"}, EndMember(l, result) PROVE StateNotStale'
  BY <1>20, <1>c, <1>d DEF EndMember
<1>21. ASSUME NEW merged, AggregateStage(merged) PROVE StateNotStale'
  BY <1>21, <1>c, <1>d DEF AggregateStage
<1>22. CASE UNCHANGED runVars
  BY <1>22 DEF runVars
<1>. QED
  BY <1>1, <1>2, <1>3, <1>4, <1>5, <1>6, <1>7, <1>8, <1>9, <1>10,
     <1>11, <1>12, <1>13, <1>14, <1>15, <1>16, <1>17, <1>18, <1>19, <1>20, <1>21, <1>22
   DEF RunStep, Step

\* The final status is what any_err says of all stages, and no member fails after it.
LEMMA FinalStep ==
  ASSUME RunTyped, PlaceInv, ErrorInv, FinalInv, RunStep
  PROVE  FinalInv'
<1>. USE DEF FinalInv, inputs
<1>d. state \in States /\ state.status \in {"none", "running", "completed", "failed"}
  BY DEF RunTyped, States
<1>1. CASE Declare
  BY <1>1 DEF Declare
<1>2. CASE Created
  BY <1>2 DEF Created
<1>3. CASE StartStage
  BY <1>3 DEF StartStage
<1>4. CASE SpawnMember
  BY <1>4 DEF SpawnMember
<1>5. CASE BeginStage
  BY <1>5, <1>d DEF BeginStage, Snapshot
<1>6. CASE NoSpawner
  BY <1>6, <1>d DEF NoSpawner, PlaceInv, AtEnd
<1>7. CASE Join
  BY <1>7 DEF Join
<1>8. CASE RecordMember
  BY <1>8 DEF RecordMember
<1>9. CASE Recorded
  BY <1>9 DEF Recorded
<1>10. CASE TruncatePad
  BY <1>10 DEF TruncatePad
<1>11. CASE WritePad
  BY <1>11 DEF WritePad
<1>12. CASE CompleteStage
  BY <1>12 DEF CompleteStage
<1>13. CASE EndStage
  BY <1>13, <1>d DEF EndStage, Snapshot
<1>14. CASE Finish
  BY <1>14, <1>d DEF Finish, Snapshot, FinalStatus, ErrorInv
<1>15. CASE Announce
  BY <1>15 DEF Announce
<1>16. CASE Register
  BY <1>16 DEF Register
<1>17. CASE Cleanup
  BY <1>17, <1>d DEF Cleanup, PlaceInv, NoState
<1>18. CASE Crash
  BY <1>18 DEF Crash
<1>19. ASSUME NEW l \in Labels, StartMember(l) PROVE FinalInv'
  BY <1>19 DEF StartMember
<1>20. ASSUME NEW l \in Labels, NEW result \in {"ok", "error"}, EndMember(l, result) PROVE FinalInv'
  BY <1>20, <1>d DEF EndMember, PlaceInv, AtEnd
<1>21. ASSUME NEW merged, AggregateStage(merged) PROVE FinalInv'
  BY <1>21 DEF AggregateStage
<1>22. CASE UNCHANGED runVars
  BY <1>22 DEF runVars
<1>. QED
  BY <1>1, <1>2, <1>3, <1>4, <1>5, <1>6, <1>7, <1>8, <1>9, <1>10,
     <1>11, <1>12, <1>13, <1>14, <1>15, <1>16, <1>17, <1>18, <1>19, <1>20, <1>21, <1>22
   DEF RunStep, Step

-----------------------------------------------------------------------------
(* The theorems about the run.                                             *)

\* RunInv holds at the start.
LEMMA RunInitInv ==
  ASSUME RunInit
  PROVE  RunInv
<1>. USE DEF RunInit
<1>1. Len(plan) \in Nat
  BY TeamAssumption
<1>2. lifecycles \in [Labels -> {"none", "idle", "active", "completed"}]
  OBVIOUS
<1>3. state \in States /\ state.stage = 0 /\ state.status = "none"
  BY DEF NoState, States, Lifecycles
<1>4. events \in Seq(Happened \cup Marker) /\ log \in Seq(Happened) /\ Len(events) = 0
  OBVIOUS
<1>5. RunTyped
  <2>1. /\ si \in 1..(Len(plan) + 1) /\ k \in Nat /\ k >= 1 /\ permits \in Nat
        /\ pad \in -2..Len(plan) /\ faults \in 0..MaxFaults /\ phase \in Phases
    BY <1>1, TeamAssumption DEF Phases, NoPad
  <2>2. up \in BOOLEAN /\ anyErr \in BOOLEAN /\ registered \in BOOLEAN
    OBVIOUS
  <2>3. member \in [Labels -> {"none", "waiting", "running", "ok", "error"}]
    OBVIOUS
  <2>4. plan \in Plans /\ spawner \in BOOLEAN /\ limit \in Limits
    OBVIOUS
  <2>. HIDE DEF RunInit
  <2>. QED
    BY <1>2, <1>3, <1>4, <2>1, <2>2, <2>3, <2>4 DEF RunTyped, RunTypeOK
<1>6. PlaceInv /\ MemberInv /\ ErrorInv /\ SnapshotInv /\ FinalInv
  BY <1>3 DEF PlaceInv, MemberInv, ErrorInv, SnapshotInv, FinalInv, InStage, AtEnd
<1>7. PadInv /\ StateNotStale
  BY <1>3 DEF PadInv, StateNotStale, NoPad, Torn
<1>8. LogInv
  BY <1>4, TeamAssumption DEF LogInv
<1>. QED
  BY <1>5, <1>6, <1>7, <1>8 DEF RunInv

\* Every step of the run keeps RunInv.
LEMMA RunInvStep ==
  ASSUME RunInv, RunStep
  PROVE  RunInv'
<1>. USE DEF RunInv
<1>1. RunTyped' /\ LogInv'
  BY TypedStep
<1>2. PlaceInv' /\ MemberInv' /\ ErrorInv' /\ SnapshotInv' /\ PadInv' /\ StateNotStale' /\ FinalInv'
  BY <1>1, PlaceStep, MemberStep, ErrorStep, SnapshotStep, PadStep, FreshStep, FinalStep
<1>. QED
  BY <1>1, <1>2

\* What the steps of a team are to the run.
LEMMA TeamStepsRun ==
  ASSUME [Next]_vars
  PROVE  RunStep
BY DEF Next, vars, SendMessage, ReadMail, Die, RunStep

\* Where orchestrate is, who runs, what was counted and what the files say belong together in
\* every state of every run.
THEOREM RunInvariant == Spec => []RunInv
<1>1. Init => RunInv
  BY RunInitInv DEF Init
<1>2. RunInv /\ [Next]_vars => RunInv'
  BY RunInvStep, TeamStepsRun
<1>. QED
  BY <1>1, <1>2, PTL DEF Spec

\* The log of RunInv is the newest part of what happened, in order, behind at most one marker.
LEMMA LogIsNewest ==
  ASSUME RunTyped, LogInv
  PROVE  EventsAreTheNewest
<1>1. events \in Seq(Happened \cup Marker) /\ log \in Seq(Happened)
  BY DEF RunTyped
<1>2. Len(events) \in Nat /\ Len(log) \in Nat /\ faults \in Nat
  BY <1>1 DEF RunTyped, RunTypeOK
<1>3. /\ \A e \in Happened : e[1] # "truncated"
      /\ \A e \in Marker : e[1] = "truncated"
  BY DEF Happened, Marker, Kinds
<1> DEFINE kept == IF events # <<>> /\ events[1][1] = "truncated" THEN Tail(events) ELSE events
           n == Len(kept)
<1>4. /\ kept \in Seq(Happened \cup Marker) /\ n \in Nat /\ n <= Len(log)
      /\ \A i \in 1..n : kept[i] = log[Len(log) - n + i]
  <2>1. CASE events # <<>> /\ events[1][1] = "truncated"
    <3>1. kept = Tail(events) /\ Len(events) > 0
      BY <1>1, <2>1
    <3>. HIDE DEF kept
    <3>2. kept \in Seq(Happened \cup Marker) /\ n = Len(events) - 1
      BY <1>1, <1>2, <3>1
    <3>3. \A i \in 1..n : kept[i] = events[i + 1] /\ i + 1 \in 2..Len(events)
      BY <1>1, <1>2, <3>1, <3>2
    <3>4. \A j \in 2..Len(events) : /\ Len(log) - Len(events) + j \in 1..Len(log)
                                    /\ events[j] = log[Len(log) - Len(events) + j]
      BY <1>2 DEF LogInv
    <3>5. n <= Len(log)
      <4>1. CASE n = 0
        BY <1>2, <4>1
      <4>2. CASE n > 0
        <5>1. Len(log) - Len(events) + 2 \in 1..Len(log)
          BY <1>2, <3>2, <3>4, <4>2
        <5>. QED
          BY <1>2, <3>2, <5>1
      <4>. QED
        BY <1>2, <3>1, <3>2, <4>1, <4>2
    <3>6. ASSUME NEW i \in 1..n
          PROVE  kept[i] = log[Len(log) - n + i]
      <4>1. Len(log) - Len(events) + (i + 1) = Len(log) - n + i
        BY <1>2, <3>2
      <4>. QED
        BY <3>3, <3>4, <4>1
    <3>. QED
      BY <1>2, <3>1, <3>2, <3>5, <3>6
  <2>2. CASE ~(events # <<>> /\ events[1][1] = "truncated")
    <3>1. kept = events
      BY <2>2
    <3>2. \A j \in 1..Len(events) : /\ Len(log) - Len(events) + j \in 1..Len(log)
                                    /\ events[j] = log[Len(log) - Len(events) + j]
      BY <1>1, <1>2, <1>3, <2>2 DEF LogInv
    <3>. HIDE DEF kept
    <3>3. Len(events) <= Len(log)
      <4>1. CASE Len(events) > 0
        <5>1. Len(log) - Len(events) + 1 \in 1..Len(log)
          BY <1>2, <3>2, <4>1
        <5>. QED
          BY <1>2, <5>1
      <4>. QED
        BY <1>2, <4>1
    <3>. QED
      BY <1>1, <1>2, <3>1, <3>2, <3>3
  <2>. QED
    BY <2>1, <2>2
<1>5. kept = SubSeq(log, Len(log) - n + 1, Len(log))
  <2>. HIDE DEF kept
  <2> DEFINE r == SubSeq(log, Len(log) - n + 1, Len(log))
  <2>1. /\ r \in Seq(Happened) /\ Len(r) = n
        /\ \A i \in 1..n : r[i] = log[Len(log) - n + i]
    BY <1>1, <1>2, <1>4
  <2>. HIDE DEF r
  <2>2. kept = r
    BY <1>4, <2>1, SeqEqual
  <2>. QED
    BY <2>2 DEF r
<1>6. Len(events) <= (IF MaxEntries >= 2 THEN MaxEntries ELSE 2) + faults
  BY DEF LogInv
<1>. QED
  BY <1>4, <1>5, <1>6 DEF EventsAreTheNewest

\* What the snapshot says of the members and of the end is true.
LEMMA SnapshotIsTrue ==
  ASSUME RunInv
  PROVE  StateIsTrue
<1>1. ASSUME faults = 0, NEW l \in Labels, state.members[l] = "completed", l \in Crew, phase = "run"
      PROVE  FALSE
  BY <1>1 DEF RunInv, SnapshotInv
<1>2. state.status \in {"completed", "failed"} =>
        si > Len(plan) /\ (state.status = "failed" <=> failures # {})
  BY DEF RunInv, PlaceInv, FinalInv
<1>. QED
  BY <1>1, <1>2 DEF StateIsTrue

\* Cut off at any step without a failed write, a run leaves a scratchpad with the stages that have
\* ended, which resume_coordinator reads, unless it was cut off inside its rewriting.
THEOREM CheckpointsAreThere == Spec => []CheckpointIsThere
<1>1. RunInv => CheckpointIsThere
  <2>. SUFFICES ASSUME RunInv PROVE CheckpointIsThere
    OBVIOUS
  <2>1. /\ phase \in Phases /\ si \in Nat /\ si >= 1 /\ faults \in Nat /\ pad \in Int
    BY DEF RunInv, RunTyped, RunTypeOK
  <2>. QED
    BY <2>1 DEF RunInv, PadInv, CheckpointIsThere, Phases
<1>. QED
  BY <1>1, RunInvariant, PTL

-----------------------------------------------------------------------------
(* The mailboxes.                                                          *)

MailStep ==
  \/ \E p \in Peers : Send(p)
  \/ \E p \in Peers, max \in ReadMax : Drain(p, max) \/ DrainCrash(p, max)
  \/ MailCrash \/ Reload \/ UNCHANGED mailVars

\* drain splits a queue into what it returns and what it keeps.
LEMMA TakenAndRest ==
  ASSUME NEW S, NEW q \in Seq(S), NEW max \in Nat
  PROVE  /\ Taken(q, max) \in Seq(S) /\ Rest(q, max) \in Seq(S)
         /\ Taken(q, max) \o Rest(q, max) = q
<1>1. Len(q) \in Nat
  OBVIOUS
<1>2. CASE max < Len(q)
  <2>1. Taken(q, max) = SubSeq(q, 1, max) /\ Rest(q, max) = SubSeq(q, max + 1, Len(q))
    BY <1>2 DEF Taken, Rest
  <2>2. SubSeq(q, 1, max) \in Seq(S) /\ SubSeq(q, max + 1, Len(q)) \in Seq(S)
    BY <1>1, <1>2
  <2>3. SubSeq(q, 1, max) \o SubSeq(q, max + 1, Len(q)) = SubSeq(q, 1, Len(q))
    <3>1. 1 \in 1..(Len(q) + 1) /\ max \in (1 - 1)..Len(q) /\ Len(q) \in max..Len(q)
      BY <1>1, <1>2
    <3>. QED
      BY <3>1, ConcatAdjacentSubSeq
  <2>4. SubSeq(q, 1, Len(q)) = q
    BY SubSeqFull
  <2>. QED
    BY <2>1, <2>2, <2>3, <2>4
<1>3. CASE ~(max < Len(q))
  <2>1. Taken(q, max) = SubSeq(q, 1, Len(q)) /\ Rest(q, max) = SubSeq(q, max + 1, Len(q))
    BY <1>3 DEF Taken, Rest
  <2>2. SubSeq(q, 1, Len(q)) = q /\ SubSeq(q, max + 1, Len(q)) = <<>>
    BY <1>1, <1>3, SubSeqFull, SubSeqEmpty
  <2>3. <<>> \in Seq(S) /\ q \o <<>> = q
    BY ConcatEmptySeq
  <2>. QED
    BY <2>1, <2>2, <2>3
<1>. QED
  BY <1>2, <1>3

\* The types of the mailboxes.
LEMMA MailTypedStep ==
  ASSUME MailTypeOK, MailStep
  PROVE  MailTypeOK'
<1>. USE DEF MailTypeOK
<1>1. MaxMail \in Nat /\ MaxMailFaults \in Nat /\ ReadMax \subseteq Nat
  BY MailAssumption, MembersAssumption
<1>2. ASSUME MailFault PROVE mailFaults' \in 0..MaxMailFaults
  BY <1>1, <1>2 DEF MailFault
<1>3. ASSUME NEW p \in Peers, Send(p) PROVE MailTypeOK'
  <2>1. mail + 1 \in Mails /\ mail' \in 0..MaxMail
    BY <1>1, <1>3 DEF Send, Mails
  <2>2. \A q \in Peers : Append(box[q], mail + 1) \in Seq(Mails) /\ Append(sent[q], mail + 1) \in Seq(Mails)
                         /\ Append(file[q], mail + 1) \in Seq(Mails)
    BY <2>1
  <2>3. box' \in [Peers -> Seq(Mails)] /\ sent' \in [Peers -> Seq(Mails)]
    BY <1>3, <2>2 DEF Send
  <2>4. file' \in [Peers -> Seq(Mails)] /\ mailFaults' \in 0..MaxMailFaults
    BY <1>2, <1>3, <2>2 DEF Send
  <2>5. UNCHANGED <<received, mailUp, reloaded, torn>>
    BY <1>3 DEF Send
  <2>. QED
    BY <2>1, <2>3, <2>4, <2>5
<1>4. ASSUME NEW p \in Peers, NEW max \in ReadMax, Drain(p, max) PROVE MailTypeOK'
  <2>1. Taken(box[p], max) \in Seq(Mails) /\ Rest(box[p], max) \in Seq(Mails)
    BY <1>1, TakenAndRest
  <2>2. received[p] \o Taken(box[p], max) \in Seq(Mails)
    BY <2>1
  <2>3. received' \in [Peers -> Seq(Mails)] /\ box' \in [Peers -> Seq(Mails)]
    BY <1>4, <2>1, <2>2 DEF Drain
  <2>4. file' \in [Peers -> Seq(Mails)] /\ mailFaults' \in 0..MaxMailFaults
    BY <1>2, <1>4, <2>1 DEF Drain
  <2>5. UNCHANGED <<mail, sent, mailUp, reloaded, torn>>
    BY <1>4 DEF Drain
  <2>. QED
    BY <2>3, <2>4, <2>5
<1>5. ASSUME NEW p \in Peers, NEW max \in ReadMax, DrainCrash(p, max) PROVE MailTypeOK'
  <2>1. Rest(box[p], max) \in Seq(Mails)
    BY <1>1, TakenAndRest
  <2>2. \A n \in 0..(Len(Rest(box[p], max)) - 1) : SubSeq(Rest(box[p], max), 1, n) \in Seq(Mails)
    BY <2>1
  <2>3. file' \in [Peers -> Seq(Mails)]
    BY <1>5, <2>2 DEF DrainCrash
  <2>4. torn' \subseteq Peers /\ mailUp' \in BOOLEAN /\ UNCHANGED <<box, mail, sent, received, reloaded, mailFaults>>
    BY <1>5 DEF DrainCrash
  <2>. QED
    BY <2>3, <2>4
<1>6. CASE MailCrash
  BY <1>6 DEF MailCrash
<1>7. CASE Reload
  BY <1>7 DEF Reload
<1>8. CASE UNCHANGED mailVars
  BY <1>8 DEF mailVars
<1>. QED
  BY <1>3, <1>4, <1>5, <1>6, <1>7, <1>8 DEF MailStep

\* A message that is sent is the last of those its peer was sent, also behind what was read.
LEMMA SentLast ==
  ASSUME NEW S, NEW a \in Seq(S), NEW b \in Seq(S), NEW x \in S
  PROVE  a \o Append(b, x) = Append(a \o b, x)
OBVIOUS

\* What is drained and what is kept are what was there, behind what was read before.
LEMMA DrainedKeeps ==
  ASSUME NEW S, NEW a \in Seq(S), NEW q \in Seq(S), NEW max \in Nat
  PROVE  (a \o Taken(q, max)) \o Rest(q, max) = a \o q
<1>1. Taken(q, max) \in Seq(S) /\ Rest(q, max) \in Seq(S) /\ Taken(q, max) \o Rest(q, max) = q
  BY TakenAndRest
<1> DEFINE f == Taken(q, max)
           t == Rest(q, max)
<1>2. f \in Seq(S) /\ t \in Seq(S)
  BY <1>1
<1>. HIDE DEF f, t
<1>3. (a \o f) \o t = a \o (f \o t)
  BY <1>2, ConcatAssociative
<1>. QED
  BY <1>1, <1>3 DEF f, t

\* The queues, the files and what was read, over every step of the mailboxes.
LEMMA MailInvStep ==
  ASSUME MailTypeOK, MailInv, BoxInv, MailStep
  PROVE  MailInv' /\ BoxInv'
<1>1. MaxMail \in Nat /\ MaxMailFaults \in Nat /\ ReadMax \subseteq Nat
  BY MailAssumption, MembersAssumption
<1>2. /\ box \in [Peers -> Seq(Mails)] /\ file \in [Peers -> Seq(Mails)]
      /\ sent \in [Peers -> Seq(Mails)] /\ received \in [Peers -> Seq(Mails)]
      /\ mail \in Nat /\ mailFaults \in Nat
  BY <1>1 DEF MailTypeOK
<1>. USE DEF MailInv, MailConserved, ReloadIsExact, BoxInv
<1>3. ASSUME NEW p \in Peers, Send(p) PROVE MailInv' /\ BoxInv'
  <2>1. mail + 1 \in Mails
    BY <1>1, <1>2, <1>3 DEF Send, Mails
  <2>2. /\ received[p] \o Append(box[p], mail + 1) = Append(received[p] \o box[p], mail + 1)
        /\ received[p] \o Append(file[p], mail + 1) = Append(received[p] \o file[p], mail + 1)
    <3>1. received[p] \in Seq(Mails) /\ box[p] \in Seq(Mails) /\ file[p] \in Seq(Mails)
      BY <1>2
    <3>. QED
      <4>1. \A a, b \in Seq(Mails), x \in Mails : a \o Append(b, x) = Append(a \o b, x)
        BY SentLast
      <4>. QED
        BY <2>1, <3>1, <4>1
  <2>3. ASSUME NEW q \in Peers, q # p PROVE UNCHANGED <<box[q], file[q], sent[q], received[q]>>
    BY <1>2, <1>3, <2>3 DEF Send
  <2>4. /\ box'[p] = Append(box[p], mail + 1) /\ sent'[p] = Append(sent[p], mail + 1)
        /\ received' = received /\ UNCHANGED <<mailUp, reloaded, torn>>
    BY <1>2, <1>3 DEF Send
  <2>5. \/ file'[p] = Append(file[p], mail + 1) /\ mailFaults' = mailFaults
        \/ mailFaults' = mailFaults + 1
    BY <1>2, <1>3 DEF Send, MailFault
  <2>. HIDE DEF MailConserved, ReloadIsExact, BoxInv
  <2>6. MailConserved'
    BY <2>2, <2>3, <2>4 DEF MailConserved
  <2>7. ASSUME mailFaults' = 0 PROVE file'[p] = Append(file[p], mail + 1) /\ mailFaults = 0
    BY <1>2, <2>5, <2>7
  <2>8. ReloadIsExact'
    <3>. SUFFICES ASSUME mailFaults' = 0, NEW q \in Peers \ torn' PROVE received'[q] \o file'[q] = sent'[q]
      BY DEF ReloadIsExact
    <3>1. received[q] \o file[q] = sent[q]
      BY <2>4, <2>7 DEF ReloadIsExact
    <3>. QED
      BY <2>2, <2>3, <2>4, <2>7, <3>1
  <2>9. BoxInv'
    <3>. SUFFICES ASSUME mailUp', mailFaults' = 0, NEW q \in Peers \ torn' PROVE box'[q] = file'[q]
      BY DEF BoxInv
    <3>1. box[q] = file[q]
      BY <2>4, <2>7 DEF BoxInv
    <3>. QED
      BY <2>3, <2>4, <2>7, <3>1
  <2>. QED
    BY <2>6, <2>8, <2>9
<1>4. ASSUME NEW p \in Peers, NEW max \in ReadMax, Drain(p, max) PROVE MailInv' /\ BoxInv'
  <2>1. /\ Rest(box[p], max) \in Seq(Mails)
        /\ (received[p] \o Taken(box[p], max)) \o Rest(box[p], max) = received[p] \o box[p]
    <3>1. received[p] \in Seq(Mails) /\ box[p] \in Seq(Mails) /\ max \in Nat
      BY <1>1, <1>2
    <3>. QED
      BY <3>1, TakenAndRest, DrainedKeeps
  <2>3. ASSUME NEW q \in Peers, q # p PROVE UNCHANGED <<box[q], file[q], sent[q], received[q]>>
    BY <1>2, <1>4, <2>3 DEF Drain
  <2>4. /\ box'[p] = Rest(box[p], max) /\ received'[p] = received[p] \o Taken(box[p], max)
        /\ sent' = sent /\ UNCHANGED <<mailUp, reloaded, torn>> /\ mailUp
    BY <1>2, <1>4 DEF Drain
  <2>5. \/ file'[p] = Rest(box[p], max) /\ mailFaults' = mailFaults
        \/ mailFaults' = mailFaults + 1
    BY <1>2, <1>4 DEF Drain, MailFault
  <2>. HIDE DEF MailConserved, ReloadIsExact, BoxInv
  <2>6. MailConserved'
    BY <2>1, <2>3, <2>4 DEF MailConserved
  <2>7. ASSUME mailFaults' = 0 PROVE file'[p] = Rest(box[p], max) /\ mailFaults = 0
    BY <1>2, <2>5, <2>7
  <2>8. ReloadIsExact'
    <3>. SUFFICES ASSUME mailFaults' = 0, NEW q \in Peers \ torn' PROVE received'[q] \o file'[q] = sent'[q]
      BY DEF ReloadIsExact
    <3>1. received[q] \o file[q] = sent[q] /\ box[q] = file[q]
      BY <2>4, <2>7 DEF ReloadIsExact, BoxInv
    <3>. QED
      BY <2>1, <2>3, <2>4, <2>7, <3>1
  <2>9. BoxInv'
    <3>. SUFFICES ASSUME mailUp', mailFaults' = 0, NEW q \in Peers \ torn' PROVE box'[q] = file'[q]
      BY DEF BoxInv
    <3>1. box[q] = file[q]
      BY <2>4, <2>7 DEF BoxInv
    <3>. QED
      BY <2>3, <2>4, <2>7, <3>1
  <2>. QED
    BY <2>6, <2>8, <2>9
<1>5. ASSUME NEW p \in Peers, NEW max \in ReadMax, DrainCrash(p, max) PROVE MailInv' /\ BoxInv'
  <2>1. ~mailUp' /\ torn' = torn \cup {p} /\ UNCHANGED <<sent, received, mailFaults>>
    BY <1>5 DEF DrainCrash
  <2>2. \A q \in Peers : q # p => file'[q] = file[q]
    BY <1>2, <1>5 DEF DrainCrash
  <2>. QED
    BY <2>1, <2>2
<1>6. CASE MailCrash
  BY <1>6 DEF MailCrash
<1>7. CASE Reload
  BY <1>7 DEF Reload
<1>8. CASE UNCHANGED mailVars
  BY <1>8 DEF mailVars
<1>. QED
  BY <1>3, <1>4, <1>5, <1>6, <1>7, <1>8 DEF MailStep

\* What the steps of a team are to the mailboxes.
LEMMA TeamStepsMail ==
  ASSUME [Next]_vars
  PROVE  MailStep
BY MembersAssumption DEF Next, vars, SendMessage, ReadMail, Die, MailStep

\* No message between members is lost, doubled or out of order in memory, nor, without a failed file
\* operation, on disk, at whatever step the process dies but in the middle of a drain's rewriting.
THEOREM MailIsConserved == Spec => [](MailTypeOK /\ MailInv)
<1>1. Init => MailTypeOK /\ MailInv /\ BoxInv
  <2>. SUFFICES ASSUME MailInit PROVE MailTypeOK /\ MailInv /\ BoxInv
    BY DEF Init
  <2>1. <<>> \in Seq(Mails) /\ <<>> \o <<>> = <<>>
    OBVIOUS
  <2>2. MailTypeOK
    <3>1. /\ box \in [Peers -> Seq(Mails)] /\ file \in [Peers -> Seq(Mails)]
          /\ sent \in [Peers -> Seq(Mails)] /\ received \in [Peers -> Seq(Mails)]
      BY <2>1 DEF MailInit
    <3>2. mail \in 0..MaxMail /\ mailFaults \in 0..MaxMailFaults
      BY MailAssumption DEF MailInit
    <3>3. mailUp \in BOOLEAN /\ reloaded \in BOOLEAN /\ torn \subseteq Peers
      BY DEF MailInit
    <3>. QED
      BY <3>1, <3>2, <3>3 DEF MailTypeOK
  <2>3. MailInv /\ BoxInv
    BY <2>1 DEF MailInit, MailInv, MailConserved, ReloadIsExact, BoxInv
  <2>. QED
    BY <2>2, <2>3
<1>2. MailTypeOK /\ MailInv /\ BoxInv /\ [Next]_vars => (MailTypeOK /\ MailInv /\ BoxInv)'
  BY TeamStepsMail, MailTypedStep, MailInvStep
<1>. QED
  BY <1>1, <1>2, PTL DEF Spec

\* What the team's directory tells a reader at any moment: the state file is at most a stage old
\* and true, the log is the newest part of what happened, and no member runs outside its stage.
THEOREM TeamInvariant == Spec => []TeamInv
<1>1. RunInv /\ MailTypeOK => TeamInv
  <2>. SUFFICES ASSUME RunInv, MailTypeOK PROVE TeamInv
    OBVIOUS
  <2>1. TypeOK
    BY DEF RunInv, RunTyped, TypeOK
  <2>2. StateNotStale /\ StateIsTrue /\ EventsAreTheNewest
    BY SnapshotIsTrue, LogIsNewest DEF RunInv
  <2>3. StagesDoNotOverlap
    BY DEF RunInv, MemberInv, StagesDoNotOverlap
  <2>. QED
    BY <2>1, <2>2, <2>3 DEF TeamInv
<1>. QED
  BY <1>1, RunInvariant, MailIsConserved, PTL

-----------------------------------------------------------------------------
(***************************************************************************)
(* The persistent members of a session (module SubAgents), for any number  *)
(* of calls, names and tasks.  The call that holds team_spawn_lock is the  *)
(* only one that is under way (CallInv), and its name leads to no other    *)
(* member than the one it looked up; what TeamDelete stops meanwhile only  *)
(* takes entries away.                                                     *)
(***************************************************************************)
Calls == [at : {"idle", "evict", "send", "resolve", "grant", "build"}, name : Members \union {Nobody},
          mode : Modes \union {"plan", "inherit"}, asked : BOOLEAN, task : Nat, tx : Nat,
          victims : SUBSET Members, found : Nat, busy : SUBSET Members, epoch : Nat]
Loops == [name : Members, at : {"wait", "turn", "ended"}, queue : Seq(Nat), task : Nat,
          cancelled : {"no", "reclaimed", "deleted"}, idle : Nat, mode : Modes \union {"plan"},
          asked : BOOLEAN, epoch : Nat]

MembersTyped ==
  /\ lock \in Callers \union {Nobody} /\ call \in [Callers -> Calls]
  /\ members \in [Members -> Nat] /\ loop \in Seq(Loops)
  /\ idleSeq \in Nat /\ task \in Seq({"running", "done"})
  /\ reg \in [members : SUBSET Members, grant : Modes \union {"plan", "inherit"}]
  /\ deleting \subseteq Members /\ lost \subseteq 1..Len(task) /\ epoch \in Nat

\* The map of the members: an entry is a loop of that name that nobody stopped, and every loop that
\* runs and was not stopped has its entry.
MapInv ==
  /\ \A m \in Members : members[m] # 0 =>
       /\ members[m] \in 1..Len(loop)
       /\ loop[members[m]].name = m /\ loop[members[m]].cancelled = "no"
  /\ \A l \in 1..Len(loop) :
       loop[l].at # "ended" /\ loop[l].cancelled = "no" => members[loop[l].name] = l

\* Only the call in team_spawn_lock is under way; after the look-up its name leads to the loop it
\* found there, or nowhere.
CallInv ==
  \A c \in Callers :
    /\ call[c].at = "idle" => call[c] = Resting
    /\ call[c].at # "idle" <=> lock = c
    /\ call[c].at # "idle" => call[c].name \in Members
    /\ call[c].tx <= Len(loop)
    /\ call[c].at = "send" => members[call[c].name] \in {0, call[c].tx}
    /\ call[c].at \in {"resolve", "grant", "build"} => members[call[c].name] = 0

\* The grant of the call's epoch: what it resolved is what the team has on record, or will have.
AuthInv ==
  /\ \A c \in Callers :
       /\ call[c].epoch <= epoch
       /\ call[c].at \in {"grant", "build"} => call[c].mode # "inherit"
       /\ call[c].at \in {"evict", "send", "resolve"} /\ ~call[c].asked => call[c].mode = "inherit"
       /\ call[c].at = "grant" /\ ~call[c].asked /\ call[c].epoch = epoch =>
            reg.grant \in {"inherit", call[c].mode}
       /\ call[c].at = "build" /\ ~call[c].asked /\ call[c].epoch = epoch =>
            reg.grant = call[c].mode
  /\ \A l \in 1..Len(loop) :
       /\ loop[l].epoch <= epoch
       /\ loop[l].at # "ended" /\ ~loop[l].asked /\ loop[l].epoch = epoch => loop[l].mode = reg.grant

\* A task that runs and is not lost is with one call or one loop, and there once.
Has(l, t) == loop[l].task = t \/ t \in ToSet(loop[l].queue)
Once(q) == \A i, j \in 1..Len(q) : q[i] = q[j] => i = j
CarryInv ==
  \A c \in Callers :
    /\ call[c].at \in {"idle", "evict"} <=> call[c].task = 0
    /\ call[c].task # 0 => /\ call[c].task \in 1..Len(task) \ lost /\ task[call[c].task] = "running"
                           /\ \A l \in 1..Len(loop) : ~Has(l, call[c].task)
LoopInv ==
  \A l \in 1..Len(loop) :
    /\ loop[l].at = "turn" <=> loop[l].task # 0
    /\ loop[l].at = "ended" => loop[l].queue = <<>>
    /\ loop[l].task \notin ToSet(loop[l].queue) /\ 0 \notin ToSet(loop[l].queue) /\ Once(loop[l].queue)
HoldInv ==
  \A l \in 1..Len(loop), t \in Nat \ {0} : Has(l, t) =>
    /\ t \in 1..Len(task) \ lost /\ task[t] = "running"
    /\ \A o \in 1..Len(loop) : Has(o, t) => o = l
HeldInv ==
  \A t \in 1..Len(task) \ lost : task[t] = "running" =>
    \/ \E c \in Callers : call[c].task = t
    \/ \E l \in 1..Len(loop) : Has(l, t)
TaskInv == CarryInv /\ LoopInv /\ HoldInv /\ HeldInv

\* The member that was there when the call swept the pool is still the one its name leads to,
\* unless a TeamDelete stopped it; before the call looked again nobody else dropped it.
FoundInv ==
  \A c \in Callers : call[c].found # 0 =>
    LET f == call[c].found
    IN  /\ f \in 1..Len(loop) /\ loop[f].name = call[c].name /\ loop[f].cancelled # "reclaimed"
        /\ loop[f].cancelled = "no" =>
             /\ call[c].at = "evict" => members[call[c].name] = f
             /\ call[c].at = "send" => call[c].tx = f
             /\ call[c].at \in {"resolve", "grant", "build"} => loop[f].at = "ended"
        /\ call[c].name \notin call[c].victims

\* What the sweep leaves: a pool within the cap, or only the name itself and busy members.
PoolInv ==
  \A c \in Callers : call[c].at # "idle" =>
    \/ Cardinality(Present \ call[c].victims) <= Cap
    \/ (Present \ call[c].victims) \ {call[c].name} \subseteq call[c].busy

VictimInv == \A c \in Callers : call[c].at # "evict" => call[c].victims = {}

SubAgentsInv == MembersTyped /\ MapInv /\ CallInv /\ AuthInv /\ TaskInv /\ FoundInv /\ VictimInv /\ PoolInv

-----------------------------------------------------------------------------
(* What the actions change in a loop.                                      *)

\* One loop is replaced, the others stay.
LEMMA LoopUpdated ==
  ASSUME MembersTyped, NEW l \in 1..Len(loop), NEW r \in Loops, loop' = [loop EXCEPT ![l] = r]
  PROVE  /\ loop' \in Seq(Loops) /\ Len(loop') = Len(loop) /\ loop'[l] = r
         /\ \A o \in 1..Len(loop) : o # l => loop'[o] = loop[o]
<1>1. loop \in Seq(Loops)
  BY DEF MembersTyped
<1>. QED
  BY <1>1, ExceptSeq

\* stop_team_member takes the entry of a name and cancels the loop it led to.
LEMMA StopEffect ==
  ASSUME MembersTyped, MapInv, NEW m \in Members, NEW by \in {"reclaimed", "deleted"}, Stopped(m, by)
  PROVE  /\ members' \in [Members -> Nat] /\ members'[m] = 0
         /\ \A o \in Members : o # m => members'[o] = members[o]
         /\ loop' \in Seq(Loops) /\ Len(loop') = Len(loop)
         /\ \A l \in 1..Len(loop) :
              /\ loop'[l].name = loop[l].name /\ loop'[l].at = loop[l].at
              /\ loop'[l].queue = loop[l].queue /\ loop'[l].task = loop[l].task
              /\ loop'[l].idle = loop[l].idle /\ loop'[l].mode = loop[l].mode
              /\ loop'[l].asked = loop[l].asked /\ loop'[l].epoch = loop[l].epoch
              /\ loop'[l].cancelled = IF l = members[m] THEN by ELSE loop[l].cancelled
<1>1. /\ members \in [Members -> Nat] /\ loop \in Seq(Loops) /\ Len(loop) \in Nat
      /\ \A l \in 1..Len(loop) : loop[l] \in Loops
  BY DEF MembersTyped
<1>2. /\ members' \in [Members -> Nat] /\ members'[m] = 0
      /\ \A o \in Members : o # m => members'[o] = members[o]
  BY <1>1 DEF Stopped
<1>3. CASE members[m] = 0
  BY <1>1, <1>2, <1>3 DEF Stopped
<1>4. CASE members[m] # 0
  <2> DEFINE l == members[m]
             r == [loop[l] EXCEPT !.cancelled = by]
  <2>1. l \in 1..Len(loop)
    BY <1>4 DEF MapInv
  <2>2. loop' = [loop EXCEPT ![l] = r]
    BY <1>4 DEF Stopped
  <2>3. /\ r \in Loops /\ r.name = loop[l].name /\ r.at = loop[l].at /\ r.queue = loop[l].queue
        /\ r.task = loop[l].task /\ r.idle = loop[l].idle /\ r.mode = loop[l].mode
        /\ r.asked = loop[l].asked /\ r.epoch = loop[l].epoch /\ r.cancelled = by
    BY <1>1, <2>1 DEF Loops
  <2>. HIDE DEF l, r
  <2>4. /\ loop' \in Seq(Loops) /\ Len(loop') = Len(loop) /\ loop'[l] = r
        /\ \A o \in 1..Len(loop) : o # l => loop'[o] = loop[o]
    BY <2>1, <2>2, <2>3, LoopUpdated
  <2>. QED
    BY <1>2, <2>3, <2>4 DEF l
<1>. QED
  BY <1>3, <1>4

\* A message is queued.
LEMMA DeliverEffect ==
  ASSUME MembersTyped, CallInv, NEW c \in Callers, Deliver(c)
  PROVE  /\ call[c].tx \in 1..Len(loop) /\ loop[call[c].tx].at # "ended"
         /\ loop' \in Seq(Loops) /\ Len(loop') = Len(loop)
         /\ \A l \in 1..Len(loop) :
              /\ loop'[l].name = loop[l].name /\ loop'[l].at = loop[l].at
              /\ loop'[l].queue = IF l = call[c].tx THEN Append(loop[l].queue, call[c].task) ELSE loop[l].queue
              /\ loop'[l].task = loop[l].task /\ loop'[l].idle = loop[l].idle
              /\ loop'[l].mode = loop[l].mode /\ loop'[l].asked = loop[l].asked
              /\ loop'[l].epoch = loop[l].epoch /\ loop'[l].cancelled = loop[l].cancelled
<1>1. /\ loop \in Seq(Loops) /\ Len(loop) \in Nat /\ DOMAIN loop = 1..Len(loop)
      /\ \A l \in 1..Len(loop) : loop[l] \in Loops
      /\ call[c] \in Calls
  BY DEF MembersTyped
<1> DEFINE l == call[c].tx
           q == Append(loop[l].queue, call[c].task)
           r == [loop[l] EXCEPT !.queue = q]
<1>2. l \in 1..Len(loop) /\ loop[l].at # "ended"
  BY <1>1 DEF Deliver, Live
<1>3. loop' = [loop EXCEPT ![l] = r]
  BY DEF Deliver
<1>6. q \in Seq(Nat) /\ loop[l] \in Loops
  <2>1. loop[l] \in Loops
    BY <1>1, <1>2
  <2>2. loop[l].queue \in Seq(Nat) /\ call[c].task \in Nat
    BY <1>1, <2>1 DEF Loops, Calls
  <2>. QED
    BY <2>1, <2>2
<1>. HIDE DEF q
<1>4. /\ r \in Loops /\ r.name = loop[l].name /\ r.at = loop[l].at /\ r.queue = q
      /\ r.task = loop[l].task /\ r.idle = loop[l].idle /\ r.mode = loop[l].mode
      /\ r.asked = loop[l].asked /\ r.epoch = loop[l].epoch /\ r.cancelled = loop[l].cancelled
  BY <1>6 DEF Loops
<1>. HIDE DEF l, r
<1>5. /\ loop' \in Seq(Loops) /\ Len(loop') = Len(loop) /\ loop'[l] = r
      /\ \A o \in 1..Len(loop) : o # l => loop'[o] = loop[o]
  BY <1>2, <1>3, <1>4, LoopUpdated
<1>. QED
  BY <1>2, <1>4, <1>5 DEF l, q

\* A member is spawned.
LEMMA SpawnEffect ==
  ASSUME MembersTyped, CallInv, AuthInv, NEW c \in Callers, Spawn(c)
  PROVE  /\ members' \in [Members -> Nat] /\ members'[call[c].name] = Len(loop) + 1
         /\ \A m \in Members : m # call[c].name => members'[m] = members[m]
         /\ loop' \in Seq(Loops) /\ Len(loop') = Len(loop) + 1
         /\ \A l \in 1..Len(loop) : loop'[l] = loop[l]
         /\ LET r == loop'[Len(loop) + 1]
            IN  /\ r.name = call[c].name /\ r.at = "wait" /\ r.queue = <<call[c].task>> /\ r.task = 0
                /\ r.cancelled = "no" /\ r.idle = Busy /\ r.mode = call[c].mode
                /\ r.asked = call[c].asked /\ r.epoch = call[c].epoch
<1>1. /\ loop \in Seq(Loops) /\ Len(loop) \in Nat /\ members \in [Members -> Nat] /\ call[c] \in Calls
  BY DEF MembersTyped
<1>2. call[c].name \in Members /\ call[c].mode \in Modes \union {"plan"}
  BY <1>1, SubAgentsAssumption DEF CallInv, AuthInv, Spawn, Calls
<1> DEFINE r == [name |-> call[c].name, at |-> "wait", queue |-> <<call[c].task>>,
                 task |-> 0, cancelled |-> "no", idle |-> Busy, mode |-> call[c].mode,
                 asked |-> call[c].asked, epoch |-> call[c].epoch]
<1>3. loop' = Append(loop, r) /\ members' = [members EXCEPT ![call[c].name] = Len(loop) + 1]
  BY DEF Spawn
<1>4. <<call[c].task>> \in Seq(Nat) /\ Busy \in Nat /\ call[c].asked \in BOOLEAN /\ call[c].epoch \in Nat
  BY <1>1, SubAgentsAssumption DEF Busy, Calls
<1>5. r \in Loops
  BY <1>2, <1>4 DEF Loops
<1>6. /\ r.name = call[c].name /\ r.at = "wait" /\ r.queue = <<call[c].task>> /\ r.task = 0
      /\ r.cancelled = "no" /\ r.idle = Busy /\ r.mode = call[c].mode
      /\ r.asked = call[c].asked /\ r.epoch = call[c].epoch
  OBVIOUS
<1>. HIDE DEF r
<1>7. /\ loop' \in Seq(Loops) /\ Len(loop') = Len(loop) + 1 /\ loop'[Len(loop) + 1] = r
      /\ \A l \in 1..Len(loop) : loop'[l] = loop[l]
  BY <1>1, <1>3, <1>5
<1>8. /\ members' \in [Members -> Nat] /\ members'[call[c].name] = Len(loop) + 1
      /\ \A m \in Members : m # call[c].name => members'[m] = members[m]
  BY <1>1, <1>2, <1>3
<1>. QED
  BY <1>6, <1>7, <1>8

\* A loop takes the next message.
LEMMA TakeEffect ==
  ASSUME MembersTyped, NEW l \in 1..Len(loop), Take(l)
  PROVE  /\ loop[l].queue # <<>> /\ loop[l].at = "wait"
         /\ loop' \in Seq(Loops) /\ Len(loop') = Len(loop)
         /\ \A o \in 1..Len(loop) : o # l => loop'[o] = loop[o]
         /\ loop'[l].at = "turn" /\ loop'[l].task = Head(loop[l].queue) /\ loop'[l].queue = Tail(loop[l].queue)
         /\ loop'[l].name = loop[l].name /\ loop'[l].cancelled = loop[l].cancelled
         /\ loop'[l].mode = loop[l].mode /\ loop'[l].asked = loop[l].asked
         /\ loop'[l].epoch = loop[l].epoch
<1>a. loop[l].queue # <<>> /\ loop[l].at = "wait"
  BY DEF Take
<1>b. loop[l] \in Loops
  BY DEF MembersTyped
<1>c. loop[l].queue \in Seq(Nat)
  BY <1>b DEF Loops
<1>1. loop[l] \in Loops /\ loop[l].queue \in Seq(Nat) /\ loop[l].queue # <<>> /\ loop[l].at = "wait"
  BY <1>a, <1>b, <1>c
<1>2. Head(loop[l].queue) \in Nat /\ Tail(loop[l].queue) \in Seq(Nat) /\ Busy \in Nat
  BY <1>1, SubAgentsAssumption DEF Busy
<1> DEFINE h == Head(loop[l].queue)
           q == Tail(loop[l].queue)
           r == [loop[l] EXCEPT !.at = "turn", !.task = h, !.queue = q, !.idle = Busy]
<1>3. loop' = [loop EXCEPT ![l] = r]
  BY <1>1 DEF Take, MembersTyped
<1>. HIDE DEF h, q
<1>4. /\ r \in Loops /\ r.at = "turn" /\ r.task = h /\ r.queue = q
      /\ r.name = loop[l].name /\ r.cancelled = loop[l].cancelled /\ r.mode = loop[l].mode
      /\ r.asked = loop[l].asked /\ r.epoch = loop[l].epoch
  BY <1>1, <1>2 DEF Loops, h, q
<1>. HIDE DEF r
<1>5. /\ loop' \in Seq(Loops) /\ Len(loop') = Len(loop) /\ loop'[l] = r
      /\ \A o \in 1..Len(loop) : o # l => loop'[o] = loop[o]
  BY <1>3, <1>4, LoopUpdated
<1>. QED
  BY <1>1, <1>4, <1>5 DEF h, q

\* A turn of a member ends.
LEMMA EndTurnEffect ==
  ASSUME MembersTyped, NEW l \in 1..Len(loop), EndTurn(l)
  PROVE  /\ loop[l].at = "turn"
         /\ loop' \in Seq(Loops) /\ Len(loop') = Len(loop)
         /\ \A o \in 1..Len(loop) : o # l => loop'[o] = loop[o]
         /\ loop'[l].at = "wait" /\ loop'[l].task = 0 /\ loop'[l].queue = loop[l].queue
         /\ loop'[l].name = loop[l].name /\ loop'[l].cancelled = loop[l].cancelled
         /\ loop'[l].mode = loop[l].mode /\ loop'[l].asked = loop[l].asked
         /\ loop'[l].epoch = loop[l].epoch
<1>1. loop[l] \in Loops /\ loop[l].at = "turn" /\ idleSeq \in Nat
  BY DEF MembersTyped, EndTurn
<1> DEFINE r == [loop[l] EXCEPT !.at = "wait", !.task = 0, !.idle = idleSeq]
<1>2. loop' = [loop EXCEPT ![l] = r]
  BY <1>1 DEF EndTurn, MembersTyped
<1>3. /\ r \in Loops /\ r.at = "wait" /\ r.task = 0 /\ r.queue = loop[l].queue
      /\ r.name = loop[l].name /\ r.cancelled = loop[l].cancelled /\ r.mode = loop[l].mode
      /\ r.asked = loop[l].asked /\ r.epoch = loop[l].epoch
  BY <1>1 DEF Loops
<1>. HIDE DEF r
<1>4. /\ loop' \in Seq(Loops) /\ Len(loop') = Len(loop) /\ loop'[l] = r
      /\ \A o \in 1..Len(loop) : o # l => loop'[o] = loop[o]
  BY <1>2, <1>3, LoopUpdated
<1>. QED
  BY <1>1, <1>3, <1>4

\* A loop ends, stopped or crashed.
LEMMA EndEffect ==
  ASSUME MembersTyped, NEW l \in 1..Len(loop), loop' = [loop EXCEPT ![l] = Ended(loop[l])]
  PROVE  /\ loop' \in Seq(Loops) /\ Len(loop') = Len(loop)
         /\ \A o \in 1..Len(loop) : o # l => loop'[o] = loop[o]
         /\ loop'[l].at = "ended" /\ loop'[l].task = 0 /\ loop'[l].queue = <<>>
         /\ loop'[l].name = loop[l].name /\ loop'[l].cancelled = loop[l].cancelled
         /\ loop'[l].epoch = 0
<1>1. loop[l] \in Loops /\ Busy \in Nat /\ <<>> \in Seq(Nat)
  BY SubAgentsAssumption DEF MembersTyped, Busy
<1> DEFINE r == Ended(loop[l])
<1>2. /\ r \in Loops /\ r.at = "ended" /\ r.task = 0 /\ r.queue = <<>>
      /\ r.name = loop[l].name /\ r.cancelled = loop[l].cancelled /\ r.epoch = 0
  BY <1>1 DEF Loops, Ended
<1>. HIDE DEF r
<1>3. /\ loop' \in Seq(Loops) /\ Len(loop') = Len(loop) /\ loop'[l] = r
      /\ \A o \in 1..Len(loop) : o # l => loop'[o] = loop[o]
  BY <1>2, LoopUpdated DEF r
<1>. QED
  BY <1>2, <1>3

-----------------------------------------------------------------------------
(* What the actions change in a call.                                      *)

\* A call that is not under way holds nothing.
LEMMA RestingTyped ==
  /\ Resting \in Calls /\ Resting.at = "idle" /\ Resting.task = 0 /\ Resting.tx = 0
  /\ Resting.found = 0 /\ Resting.epoch = 0 /\ Resting.victims = {} /\ Resting.mode = "inherit"
BY DEF Resting, Calls

\* One call changes, the others stay.
LEMMA CallUpdated ==
  ASSUME MembersTyped, NEW c \in Callers, NEW r \in Calls, call' = [call EXCEPT ![c] = r]
  PROVE  call' \in [Callers -> Calls] /\ call'[c] = r /\ \A d \in Callers : d # c => call'[d] = call[d]
BY DEF MembersTyped

\* What a call that sweeps the pool keeps of it.
LEMMA EnterEffect ==
  ASSUME MembersTyped, NEW c \in Callers, NEW m \in Members, NEW mode \in Modes \union {"inherit"}, NEW expired,
         Enter(c, m, mode, expired)
  PROVE  /\ lock = Nobody /\ lock' = c /\ call' \in [Callers -> Calls]
         /\ \A d \in Callers : d # c => call'[d] = call[d]
         /\ call'[c].at = "evict" /\ call'[c].name = m /\ call'[c].mode = mode
         /\ call'[c].asked = (mode # "inherit") /\ call'[c].task = 0 /\ call'[c].tx = 0
         /\ call'[c].victims = Victims(m, expired) /\ call'[c].found = members[m]
         /\ call'[c].busy = Present \ IdleLooking /\ call'[c].epoch = epoch
         /\ UNCHANGED <<members, loop, idleSeq, task, reg, deleting, lost, epoch, memberFaults>>
<1> DEFINE r == Swept(m, mode, expired)
           v == Victims(m, expired)
           b == Present \ IdleLooking
<1>1. v \in SUBSET Members /\ b \in SUBSET Members
  BY DEF Victims, Oldest, IdleLooking, Present
<1>2. members[m] \in Nat /\ epoch \in Nat
  BY DEF MembersTyped
<1>3. r = [Resting EXCEPT !.at = "evict", !.name = m, !.mode = mode, !.asked = mode # "inherit",
                          !.victims = v, !.found = members[m], !.busy = b, !.epoch = epoch]
  BY DEF Swept
<1>4. /\ lock = Nobody /\ lock' = c /\ call' = [call EXCEPT ![c] = r]
      /\ UNCHANGED <<members, loop, idleSeq, task, reg, deleting, lost, epoch, memberFaults>>
  BY DEF Enter
<1>. HIDE DEF r, v, b
<1>5. /\ r \in Calls /\ r.at = "evict" /\ r.name = m /\ r.mode = mode
      /\ r.asked = (mode # "inherit") /\ r.task = 0 /\ r.tx = 0
      /\ r.victims = v /\ r.found = members[m] /\ r.busy = b /\ r.epoch = epoch
  BY <1>1, <1>2, <1>3 DEF Resting, Calls
<1>6. call' \in [Callers -> Calls] /\ call'[c] = r /\ \A d \in Callers : d # c => call'[d] = call[d]
  BY <1>4, <1>5, CallUpdated
<1>. QED
  BY <1>4, <1>5, <1>6 DEF v, b

\* A call drops a member from its list of victims.
LEMMA EvictEffect ==
  ASSUME MembersTyped, NEW c \in Callers, NEW m \in Members, Evict(c, m)
  PROVE  /\ call[c].at = "evict" /\ m \in call[c].victims /\ Stopped(m, "reclaimed")
         /\ call' \in [Callers -> Calls] /\ \A d \in Callers : d # c => call'[d] = call[d]
         /\ call'[c].at = "evict" /\ call'[c].name = call[c].name /\ call'[c].mode = call[c].mode
         /\ call'[c].asked = call[c].asked /\ call'[c].task = call[c].task /\ call'[c].tx = call[c].tx
         /\ call'[c].victims = call[c].victims \ {m} /\ call'[c].found = call[c].found
         /\ call'[c].busy = call[c].busy /\ call'[c].epoch = call[c].epoch
         /\ UNCHANGED <<lock, idleSeq, task, reg, deleting, lost, epoch, memberFaults>>
<1>1. call[c] \in Calls
  BY DEF MembersTyped
<1>2. /\ call[c].at = "evict" /\ m \in call[c].victims /\ Stopped(m, "reclaimed")
      /\ call' = [call EXCEPT ![c].victims = @ \ {m}]
      /\ UNCHANGED <<lock, idleSeq, task, reg, deleting, lost, epoch, memberFaults>>
  BY DEF Evict
<1> DEFINE r == [call[c] EXCEPT !.victims = call[c].victims \ {m}]
<1>3. call' = [call EXCEPT ![c] = r]
  BY <1>2
<1>4. /\ r \in Calls /\ r.at = call[c].at /\ r.name = call[c].name /\ r.mode = call[c].mode
      /\ r.asked = call[c].asked /\ r.task = call[c].task /\ r.tx = call[c].tx
      /\ r.victims = call[c].victims \ {m} /\ r.found = call[c].found
      /\ r.busy = call[c].busy /\ r.epoch = call[c].epoch
  BY <1>1 DEF Calls
<1>. HIDE DEF r
<1>5. call' \in [Callers -> Calls] /\ call'[c] = r /\ \A d \in Callers : d # c => call'[d] = call[d]
  BY <1>3, <1>4, CallUpdated
<1>. QED
  BY <1>2, <1>4, <1>5

\* A call registers its task and looks its name up.
LEMMA LookUpEffect ==
  ASSUME MembersTyped, CallInv, NEW c \in Callers, LookUp(c)
  PROVE  /\ call[c].at = "evict" /\ call[c].victims = {} /\ task' = Append(task, "running")
         /\ call' \in [Callers -> Calls] /\ \A d \in Callers : d # c => call'[d] = call[d]
         /\ call'[c].at = "send" /\ call'[c].name = call[c].name /\ call'[c].mode = call[c].mode
         /\ call'[c].asked = call[c].asked /\ call'[c].task = Len(task) + 1
         /\ call'[c].tx = members[call[c].name]
         /\ call'[c].victims = call[c].victims /\ call'[c].found = call[c].found
         /\ call'[c].busy = call[c].busy /\ call'[c].epoch = call[c].epoch
         /\ UNCHANGED <<lock, members, loop, idleSeq, reg, deleting, lost, epoch, memberFaults>>
<1>1. call[c] \in Calls /\ Len(task) \in Nat
  BY DEF MembersTyped
<1>2. /\ call[c].at = "evict" /\ call[c].victims = {} /\ task' = Append(task, "running")
      /\ call' = [call EXCEPT ![c].at = "send", ![c].task = Len(task) + 1, ![c].tx = members[call[c].name]]
      /\ UNCHANGED <<lock, members, loop, idleSeq, reg, deleting, lost, epoch, memberFaults>>
  BY DEF LookUp
<1>3. members[call[c].name] \in Nat
  BY <1>2 DEF MembersTyped, CallInv
<1> DEFINE t == Len(task) + 1
           x == members[call[c].name]
           r == [call[c] EXCEPT !.at = "send", !.task = t, !.tx = x]
<1>4. call' = [call EXCEPT ![c] = r]
  BY <1>2 DEF MembersTyped
<1>7. t \in Nat /\ x \in Nat
  BY <1>1, <1>3
<1>. HIDE DEF t, x
<1>5. /\ r \in Calls /\ r.at = "send" /\ r.name = call[c].name /\ r.mode = call[c].mode
      /\ r.asked = call[c].asked /\ r.task = t /\ r.tx = x
      /\ r.victims = call[c].victims /\ r.found = call[c].found
      /\ r.busy = call[c].busy /\ r.epoch = call[c].epoch
  BY <1>1, <1>7 DEF Calls
<1>. HIDE DEF r
<1>6. call' \in [Callers -> Calls] /\ call'[c] = r /\ \A d \in Callers : d # c => call'[d] = call[d]
  BY <1>4, <1>5, CallUpdated
<1>. QED
  BY <1>2, <1>5, <1>6 DEF t, x

Moves(c, at, mode) == call' = [call EXCEPT ![c] = [call[c] EXCEPT !.at = at, !.mode = mode]]

\* A call moves on to the next stage, with a mode.
LEMMA MoveEffect ==
  ASSUME MembersTyped, NEW c \in Callers, NEW at \in {"resolve", "grant", "build"},
         NEW mode \in Modes \union {"plan", "inherit"}, Moves(c, at, mode)
  PROVE  /\ call' \in [Callers -> Calls] /\ \A d \in Callers : d # c => call'[d] = call[d]
         /\ call'[c].at = at /\ call'[c].name = call[c].name /\ call'[c].mode = mode
         /\ call'[c].asked = call[c].asked /\ call'[c].task = call[c].task /\ call'[c].tx = call[c].tx
         /\ call'[c].victims = call[c].victims /\ call'[c].found = call[c].found
         /\ call'[c].busy = call[c].busy /\ call'[c].epoch = call[c].epoch
<1>1. call[c] \in Calls
  BY DEF MembersTyped
<1> DEFINE r == [call[c] EXCEPT !.at = at, !.mode = mode]
<1>2. /\ r \in Calls /\ r.at = at /\ r.name = call[c].name /\ r.mode = mode
      /\ r.asked = call[c].asked /\ r.task = call[c].task /\ r.tx = call[c].tx
      /\ r.victims = call[c].victims /\ r.found = call[c].found
      /\ r.busy = call[c].busy /\ r.epoch = call[c].epoch
  BY <1>1 DEF Calls
<1>3. call' = [call EXCEPT ![c] = r]
  BY DEF Moves
<1>. HIDE DEF r
<1>4. call' \in [Callers -> Calls] /\ call'[c] = r /\ \A d \in Callers : d # c => call'[d] = call[d]
  BY <1>2, <1>3, CallUpdated
<1>. QED
  BY <1>2, <1>4

\* A call finds no member, or one that ended, and drops the entry.
LEMMA MissingEffect ==
  ASSUME MembersTyped, CallInv, NEW c \in Callers, Missing(c)
  PROVE  /\ call[c].at = "send" /\ ~Live(call[c].tx)
         /\ members' \in [Members -> Nat] /\ members'[call[c].name] \in {0, members[call[c].name]}
         /\ call[c].tx # 0 => members'[call[c].name] = 0
         /\ \A m \in Members : m # call[c].name => members'[m] = members[m]
         /\ call' \in [Callers -> Calls] /\ \A d \in Callers : d # c => call'[d] = call[d]
         /\ call'[c].at = "resolve" /\ call'[c].name = call[c].name /\ call'[c].mode = call[c].mode
         /\ call'[c].asked = call[c].asked /\ call'[c].task = call[c].task /\ call'[c].tx = call[c].tx
         /\ call'[c].victims = call[c].victims /\ call'[c].found = call[c].found
         /\ call'[c].busy = call[c].busy /\ call'[c].epoch = call[c].epoch
         /\ UNCHANGED <<lock, loop, idleSeq, task, reg, deleting, lost, epoch, memberFaults>>
<1>1. /\ call[c].at = "send" /\ ~Live(call[c].tx)
      /\ members' = IF call[c].tx = 0 THEN members ELSE [members EXCEPT ![call[c].name] = 0]
      /\ call' = [call EXCEPT ![c].at = "resolve"]
      /\ UNCHANGED <<lock, loop, idleSeq, task, reg, deleting, lost, epoch, memberFaults>>
  BY DEF Missing
<1>2. call[c] \in Calls /\ call[c].name \in Members /\ members \in [Members -> Nat]
  BY <1>1 DEF MembersTyped, CallInv
<1>3. call[c].mode \in Modes \union {"plan", "inherit"}
  BY <1>2 DEF Calls
<1>4. Moves(c, "resolve", call[c].mode)
  <2>1. [call[c] EXCEPT !.at = "resolve"] = [call[c] EXCEPT !.at = "resolve", !.mode = call[c].mode]
    BY <1>2 DEF Calls
  <2>. QED
    BY <1>1, <2>1 DEF Moves
<1>5. /\ members' \in [Members -> Nat] /\ members'[call[c].name] \in {0, members[call[c].name]}
      /\ call[c].tx # 0 => members'[call[c].name] = 0
      /\ \A m \in Members : m # call[c].name => members'[m] = members[m]
  BY <1>1, <1>2
<1>. QED
  BY <1>1, <1>3, <1>4, <1>5, MoveEffect

\* A call resolves the mode of the member it will spawn.
LEMMA ResolveEffect ==
  ASSUME MembersTyped, NEW c \in Callers, Resolve(c)
  PROVE  /\ call[c].at = "resolve" /\ call' \in [Callers -> Calls]
         /\ \A d \in Callers : d # c => call'[d] = call[d]
         /\ call'[c].at = "grant" /\ call'[c].name = call[c].name
         /\ call'[c].mode = ResolvedMode(call[c].mode, reg.grant)
         /\ call'[c].asked = call[c].asked /\ call'[c].task = call[c].task /\ call'[c].tx = call[c].tx
         /\ call'[c].victims = call[c].victims /\ call'[c].found = call[c].found
         /\ call'[c].busy = call[c].busy /\ call'[c].epoch = call[c].epoch
         /\ UNCHANGED <<lock, members, loop, idleSeq, task, reg, deleting, lost, epoch, memberFaults>>
<1> DEFINE mode == ResolvedMode(call[c].mode, reg.grant)
<1>1. call[c] \in Calls /\ reg.grant \in Modes \union {"plan", "inherit"}
  BY DEF MembersTyped
<1>2. mode \in Modes \union {"plan", "inherit"}
  BY <1>1 DEF Calls, ResolvedMode
<1>3. /\ call[c].at = "resolve"
      /\ UNCHANGED <<lock, members, loop, idleSeq, task, reg, deleting, lost, epoch, memberFaults>>
      /\ call' = [call EXCEPT ![c].at = "grant", ![c].mode = ResolvedMode(@, reg.grant)]
  BY DEF Resolve
<1>4. Moves(c, "grant", mode)
  BY <1>1, <1>3 DEF MembersTyped, Calls, Moves
<1>. HIDE DEF mode
<1>. QED
  BY <1>2, <1>3, <1>4, MoveEffect DEF mode

\* A call records the grant of the team if it has none.
LEMMA EstablishEffect ==
  ASSUME MembersTyped, NEW c \in Callers, Establish(c)
  PROVE  /\ call[c].at = "grant" /\ call' \in [Callers -> Calls]
         /\ \A d \in Callers : d # c => call'[d] = call[d]
         /\ call'[c].at = "build" /\ call'[c].name = call[c].name /\ call'[c].mode = call[c].mode
         /\ call'[c].asked = call[c].asked /\ call'[c].task = call[c].task /\ call'[c].tx = call[c].tx
         /\ call'[c].victims = call[c].victims /\ call'[c].found = call[c].found
         /\ call'[c].busy = call[c].busy /\ call'[c].epoch = call[c].epoch
         /\ reg' \in [members : SUBSET Members, grant : Modes \union {"plan", "inherit"}]
         /\ reg'.grant = Granted(reg.grant, call[c].mode)
         /\ UNCHANGED <<lock, members, loop, idleSeq, task, deleting, lost, epoch, memberFaults>>
<1>1. /\ call[c] \in Calls /\ reg \in [members : SUBSET Members, grant : Modes \union {"plan", "inherit"}]
  BY DEF MembersTyped
<1>2. /\ call[c].at = "grant" /\ call' = [call EXCEPT ![c].at = "build"]
      /\ reg' = [reg EXCEPT !.grant = Granted(@, call[c].mode)]
      /\ UNCHANGED <<lock, members, loop, idleSeq, task, deleting, lost, epoch, memberFaults>>
  BY DEF Establish
<1>3. call[c].mode \in Modes \union {"plan", "inherit"}
  BY <1>1 DEF Calls
<1>4. Moves(c, "build", call[c].mode)
  <2>1. [call[c] EXCEPT !.at = "build"] = [call[c] EXCEPT !.at = "build", !.mode = call[c].mode]
    BY <1>1 DEF Calls
  <2>. QED
    BY <1>2, <2>1 DEF Moves
<1>5. /\ reg' \in [members : SUBSET Members, grant : Modes \union {"plan", "inherit"}]
      /\ reg'.grant = Granted(reg.grant, call[c].mode)
  BY <1>1, <1>2, <1>3 DEF Granted
<1>. QED
  BY <1>2, <1>3, <1>4, <1>5, MoveEffect

\* A call returns.
LEMMA ReturnEffect ==
  ASSUME MembersTyped, NEW c \in Callers, Return(c)
  PROVE  /\ lock' = Nobody /\ call' \in [Callers -> Calls] /\ call'[c] = Resting
         /\ \A d \in Callers : d # c => call'[d] = call[d]
BY RestingTyped, CallUpdated DEF Return

-----------------------------------------------------------------------------
(* The parts of the invariant, action by action.                           *)

\* A loop has a name of the team and what it holds are tasks.
LEMMA LoopTyped ==
  ASSUME MembersTyped, TaskInv, NEW l \in 1..Len(loop)
  PROVE  /\ loop[l].name \in Members /\ loop[l].task \in Nat /\ loop[l].queue \in Seq(Nat)
         /\ loop[l].epoch \in Nat /\ loop[l].mode \in Modes \union {"plan"}
         /\ ToSet(loop[l].queue) \subseteq 1..Len(task)
         /\ loop[l].at = "turn" => loop[l].task \in 1..Len(task)
<1>1. loop[l] \in Loops
  BY DEF MembersTyped
<1>2. /\ loop[l].queue \in Seq(Nat) /\ loop[l].task \in Nat /\ loop[l].name \in Members
      /\ loop[l].epoch \in Nat /\ loop[l].mode \in Modes \union {"plan"}
  BY <1>1 DEF Loops
<1>3. ToSet(loop[l].queue) \subseteq Nat
  BY <1>2 DEF ToSet
<1>. QED
  BY <1>2, <1>3 DEF TaskInv, LoopInv, HoldInv, Has

\* Types are kept.
LEMMA MembersTypeStep ==
  ASSUME MembersTyped, MapInv, CallInv, AuthInv, TaskInv, [MembersNext]_memberVars
  PROVE  MembersTyped'
<1>1. ASSUME NEW c \in Callers, NEW m \in Members,
             NEW mode \in Modes \union {"inherit"}, NEW expired \in 0..Cardinality(Members),
             Enter(c, m, mode, expired)
      PROVE  MembersTyped'
  <2>1. lock' \in Callers \union {Nobody} /\ call' \in [Callers -> Calls]
    BY <1>1, EnterEffect
  <2>2. UNCHANGED <<members, loop, idleSeq, task, reg, deleting, lost, epoch>>
    BY <1>1 DEF Enter
  <2>. QED
    BY <2>1, <2>2 DEF MembersTyped
<1>2. ASSUME NEW c \in Callers, NEW m \in Members, Evict(c, m) PROVE MembersTyped'
  <2>1. call' \in [Callers -> Calls] /\ Stopped(m, "reclaimed")
    BY <1>2, EvictEffect
  <2>2. members' \in [Members -> Nat] /\ loop' \in Seq(Loops)
    BY <2>1, StopEffect
  <2>3. UNCHANGED <<lock, idleSeq, task, reg, deleting, lost, epoch>>
    BY <1>2 DEF Evict
  <2>. QED
    BY <2>1, <2>2, <2>3 DEF MembersTyped
<1>3. ASSUME NEW c \in Callers, LookUp(c) PROVE MembersTyped'
  <2>1. call' \in [Callers -> Calls] /\ task' = Append(task, "running")
    BY <1>3, LookUpEffect
  <2>2. task' \in Seq({"running", "done"}) /\ Len(task') = Len(task) + 1 /\ Len(task) \in Nat
    BY <2>1 DEF MembersTyped
  <2>3. lost' = lost /\ lost' \subseteq 1..Len(task')
    BY <1>3, <2>2 DEF LookUp, MembersTyped
  <2>4. UNCHANGED <<lock, members, loop, idleSeq, reg, deleting, epoch>>
    BY <1>3 DEF LookUp
  <2>. QED
    BY <2>1, <2>2, <2>3, <2>4 DEF MembersTyped
<1>4. ASSUME NEW c \in Callers, Deliver(c) PROVE MembersTyped'
  <2>1. loop' \in Seq(Loops)
    BY <1>4, DeliverEffect
  <2>2. lock' = Nobody /\ call' \in [Callers -> Calls]
    BY <1>4, ReturnEffect DEF Deliver
  <2>3. UNCHANGED <<members, idleSeq, task, reg, deleting, lost, epoch>>
    BY <1>4 DEF Deliver
  <2>. QED
    BY <2>1, <2>2, <2>3 DEF MembersTyped
<1>5. ASSUME NEW c \in Callers, Missing(c) PROVE MembersTyped'
  <2>1. members' \in [Members -> Nat] /\ call' \in [Callers -> Calls]
    BY <1>5, MissingEffect
  <2>2. UNCHANGED <<lock, loop, idleSeq, task, reg, deleting, lost, epoch>>
    BY <1>5 DEF Missing
  <2>. QED
    BY <2>1, <2>2 DEF MembersTyped
<1>6. ASSUME NEW c \in Callers, Resolve(c) PROVE MembersTyped'
  <2>1. call' \in [Callers -> Calls]
    BY <1>6, ResolveEffect
  <2>2. UNCHANGED <<lock, members, loop, idleSeq, task, reg, deleting, lost, epoch>>
    BY <1>6 DEF Resolve
  <2>. QED
    BY <2>1, <2>2 DEF MembersTyped
<1>7. ASSUME NEW c \in Callers, Establish(c) PROVE MembersTyped'
  <2>1. call' \in [Callers -> Calls] /\ reg' \in [members : SUBSET Members, grant : Modes \union {"plan", "inherit"}]
    BY <1>7, EstablishEffect
  <2>2. UNCHANGED <<lock, members, loop, idleSeq, task, deleting, lost, epoch>>
    BY <1>7 DEF Establish
  <2>. QED
    BY <2>1, <2>2 DEF MembersTyped
<1>8. ASSUME NEW c \in Callers, BuildFails(c) PROVE MembersTyped'
  <2>1. lock' = Nobody /\ call' \in [Callers -> Calls]
    BY <1>8, ReturnEffect DEF BuildFails
  <2>2. call[c].task \in 1..Len(task)
    BY <1>8 DEF BuildFails, TaskInv, CarryInv
  <2>3. lost' \subseteq 1..Len(task)
    BY <1>8, <2>2 DEF BuildFails, MembersTyped
  <2>4. UNCHANGED <<members, loop, idleSeq, task, reg, deleting, epoch>>
    BY <1>8 DEF BuildFails
  <2>. QED
    BY <2>1, <2>2, <2>3, <2>4 DEF MembersTyped
<1>9. ASSUME NEW c \in Callers, Spawn(c) PROVE MembersTyped'
  <2>1. lock' = Nobody /\ call' \in [Callers -> Calls]
    BY <1>9, ReturnEffect DEF Spawn
  <2>2. members' \in [Members -> Nat] /\ loop' \in Seq(Loops)
    BY <1>9, SpawnEffect
  <2>3. UNCHANGED <<idleSeq, task, reg, deleting, lost, epoch>>
    BY <1>9 DEF Spawn
  <2>. QED
    BY <2>1, <2>2, <2>3 DEF MembersTyped
<1>10. ASSUME NEW l \in 1..Len(loop), Take(l) PROVE MembersTyped'
  <2>1. loop' \in Seq(Loops)
    BY <1>10, TakeEffect
  <2>2. loop[l].name \in Members
    BY LoopTyped
  <2>3. reg' \in [members : SUBSET Members, grant : Modes \union {"plan", "inherit"}]
    BY <1>10, <2>2 DEF Take, MembersTyped
  <2>4. UNCHANGED <<lock, call, members, idleSeq, task, deleting, lost, epoch>>
    BY <1>10 DEF Take
  <2>. QED
    BY <2>1, <2>2, <2>3, <2>4 DEF MembersTyped
<1>11. ASSUME NEW l \in 1..Len(loop), EndTurn(l) PROVE MembersTyped'
  <2>1. loop' \in Seq(Loops)
    BY <1>11, EndTurnEffect
  <2>2. loop[l].name \in Members /\ loop[l].task \in Nat
    BY LoopTyped
  <2>3. reg' \in [members : SUBSET Members, grant : Modes \union {"plan", "inherit"}]
    BY <1>11, <2>2 DEF EndTurn, MembersTyped
  <2>4. loop[l].task \in 1..Len(task)
    BY <1>11, <2>2 DEF EndTurn, TaskInv, LoopInv, HoldInv, Has
  <2>5. task' \in Seq({"running", "done"}) /\ Len(task') = Len(task)
    BY <1>11, <2>4, ExceptSeq DEF EndTurn, MembersTyped
  <2>6. idleSeq' \in Nat
    BY <1>11 DEF EndTurn, MembersTyped
  <2>7. UNCHANGED <<lock, call, members, deleting, lost, epoch>>
    BY <1>11 DEF EndTurn
  <2>. QED
    BY <2>1, <2>2, <2>3, <2>4, <2>5, <2>6, <2>7 DEF MembersTyped
<1>12. ASSUME NEW l \in 1..Len(loop), Exit(l) PROVE MembersTyped'
  <2>1. loop' \in Seq(Loops)
    BY <1>12, EndEffect DEF Exit
  <2>2. loop[l].name \in Members
    BY LoopTyped
  <2>3. reg' \in [members : SUBSET Members, grant : Modes \union {"plan", "inherit"}]
    BY <1>12, <2>2 DEF Exit, MembersTyped
  <2>4. ToSet(loop[l].queue) \subseteq 1..Len(task)
    BY LoopTyped
  <2>5. lost' \subseteq 1..Len(task)
    BY <1>12, <2>4 DEF Exit, MembersTyped
  <2>6. UNCHANGED <<lock, call, members, idleSeq, task, deleting, epoch>>
    BY <1>12 DEF Exit
  <2>. QED
    BY <2>1, <2>2, <2>3, <2>4, <2>5, <2>6 DEF MembersTyped
<1>13. ASSUME NEW l \in 1..Len(loop), Panic(l) PROVE MembersTyped'
  <2>1. loop' \in Seq(Loops)
    BY <1>13, EndEffect DEF Panic
  <2>2. loop[l].task \in 1..Len(task)
    BY <1>13, LoopTyped DEF Panic
  <2>3. ToSet(loop[l].queue) \subseteq 1..Len(task)
    BY LoopTyped
  <2>4. lost' \subseteq 1..Len(task)
    BY <1>13, <2>2, <2>3 DEF Panic, MembersTyped
  <2>5. UNCHANGED <<lock, call, members, idleSeq, task, reg, deleting, epoch>>
    BY <1>13 DEF Panic
  <2>. QED
    BY <2>1, <2>2, <2>3, <2>4, <2>5 DEF MembersTyped
<1>14. CASE TeamDelete
  <2>1. deleting' \subseteq Members /\ epoch' \in Nat
    BY <1>14 DEF TeamDelete, MembersTyped
  <2>2. reg' \in [members : SUBSET Members, grant : Modes \union {"plan", "inherit"}]
    BY <1>14 DEF TeamDelete, NoEntry
  <2>3. UNCHANGED <<lock, call, members, loop, idleSeq, task, lost>>
    BY <1>14 DEF TeamDelete
  <2>. QED
    BY <2>1, <2>2, <2>3 DEF MembersTyped
<1>15. ASSUME NEW m \in Members, DeleteStop(m) PROVE MembersTyped'
  <2>1. Stopped(m, "deleted")
    BY <1>15 DEF DeleteStop
  <2>2. members' \in [Members -> Nat] /\ loop' \in Seq(Loops)
    BY <2>1, StopEffect
  <2>3. deleting' \subseteq Members /\ UNCHANGED <<lock, call, idleSeq, task, reg, lost, epoch>>
    BY <1>15 DEF DeleteStop, MembersTyped
  <2>. QED
    BY <2>1, <2>2, <2>3 DEF MembersTyped
<1>16. ASSUME NEW labels \in Batches, TeamCreate(labels) PROVE MembersTyped'
  <2>1. reg' \in [members : SUBSET Members, grant : Modes \union {"plan", "inherit"}]
    BY <1>16, SubAgentsAssumption DEF TeamCreate
  <2>2. epoch' \in Nat
    BY <1>16 DEF TeamCreate, MembersTyped
  <2>3. UNCHANGED <<lock, call, members, loop, idleSeq, task, deleting, lost>>
    BY <1>16 DEF TeamCreate
  <2>. QED
    BY <2>1, <2>2, <2>3 DEF MembersTyped
<1>17. CASE UNCHANGED memberVars
  BY <1>17 DEF memberVars, MembersTyped
<1>18. DOMAIN loop = 1..Len(loop)
  BY DEF MembersTyped
<1>. QED
  BY <1>1, <1>2, <1>3, <1>4, <1>5, <1>6, <1>7, <1>8, <1>9, <1>10,
     <1>11, <1>12, <1>13, <1>14, <1>15, <1>16, <1>17, <1>18
   DEF MembersNext, CallerStep

\* The entries of the map are the loops that run and were not stopped.
LEMMA MapStep ==
  ASSUME MembersTyped, MapInv, CallInv, AuthInv, TaskInv, [MembersNext]_memberVars
  PROVE  MapInv'
<1>. USE DEF MapInv
<1>1. ASSUME NEW c \in Callers, NEW m \in Members,
             NEW mode \in Modes \union {"inherit"}, NEW expired \in 0..Cardinality(Members),
             Enter(c, m, mode, expired)
      PROVE  MapInv'
  <2>1. UNCHANGED <<members, loop>>
    BY <1>1 DEF Enter
  <2>. QED
    BY <2>1
<1>2. ASSUME NEW c \in Callers, NEW m \in Members, Evict(c, m) PROVE MapInv'
  <2>1. Stopped(m, "reclaimed")
    BY <1>2 DEF Evict
  <2>2. /\ members'[m] = 0 /\ \A o \in Members : o # m => members'[o] = members[o]
        /\ Len(loop') = Len(loop)
        /\ \A l \in 1..Len(loop) :
             /\ loop'[l].name = loop[l].name /\ loop'[l].at = loop[l].at
             /\ loop'[l].cancelled = IF l = members[m] THEN "reclaimed" ELSE loop[l].cancelled
    BY <2>1, StopEffect
  <2>3. \A l \in 1..Len(loop) : loop[l].name \in Members
    BY LoopTyped
  <2>. QED
    BY <2>2, <2>3
<1>3. ASSUME NEW c \in Callers, LookUp(c) PROVE MapInv'
  <2>1. UNCHANGED <<members, loop>>
    BY <1>3 DEF LookUp
  <2>. QED
    BY <2>1
<1>4. ASSUME NEW c \in Callers, Deliver(c) PROVE MapInv'
  <2>1. /\ members' = members /\ Len(loop') = Len(loop)
        /\ \A l \in 1..Len(loop) : /\ loop'[l].name = loop[l].name /\ loop'[l].at = loop[l].at
                                   /\ loop'[l].cancelled = loop[l].cancelled
    BY <1>4, DeliverEffect DEF Deliver
  <2>. QED
    BY <2>1
<1>5. ASSUME NEW c \in Callers, Missing(c) PROVE MapInv'
  <2>1. /\ call[c].at = "send" /\ ~Live(call[c].tx) /\ loop' = loop
        /\ members'[call[c].name] \in {0, members[call[c].name]}
        /\ call[c].tx # 0 => members'[call[c].name] = 0
        /\ \A m \in Members : m # call[c].name => members'[m] = members[m]
    BY <1>5, MissingEffect
  <2>2. /\ call[c].name \in Members /\ members[call[c].name] \in {0, call[c].tx}
        /\ DOMAIN loop = 1..Len(loop)
    BY <2>1 DEF CallInv, MembersTyped
  <2>3. \A l \in 1..Len(loop) : loop[l].name \in Members
    BY LoopTyped
  <2>. QED
    BY <2>1, <2>2, <2>3 DEF Live
<1>6. ASSUME NEW c \in Callers, Resolve(c) PROVE MapInv'
  <2>1. UNCHANGED <<members, loop>>
    BY <1>6 DEF Resolve
  <2>. QED
    BY <2>1
<1>7. ASSUME NEW c \in Callers, Establish(c) PROVE MapInv'
  <2>1. UNCHANGED <<members, loop>>
    BY <1>7 DEF Establish
  <2>. QED
    BY <2>1
<1>8. ASSUME NEW c \in Callers, BuildFails(c) PROVE MapInv'
  <2>1. UNCHANGED <<members, loop>>
    BY <1>8 DEF BuildFails
  <2>. QED
    BY <2>1
<1>9. ASSUME NEW c \in Callers, Spawn(c) PROVE MapInv'
  <2>1. /\ members'[call[c].name] = Len(loop) + 1
        /\ \A m \in Members : m # call[c].name => members'[m] = members[m]
        /\ Len(loop') = Len(loop) + 1 /\ \A l \in 1..Len(loop) : loop'[l] = loop[l]
        /\ loop'[Len(loop) + 1].name = call[c].name /\ loop'[Len(loop) + 1].cancelled = "no"
    BY <1>9, SpawnEffect
  <2>2. call[c].name \in Members /\ members[call[c].name] = 0 /\ Len(loop) \in Nat
    BY <1>9 DEF Spawn, CallInv, MembersTyped
  <2>3. \A l \in 1..Len(loop) : loop[l].name \in Members
    BY LoopTyped
  <2>4. \A l \in 1..Len(loop') : l = Len(loop) + 1 \/ l \in 1..Len(loop)
    BY <2>1, <2>2
  <2>5. Len(loop) + 1 \in 1..Len(loop') /\ \A l \in 1..Len(loop) : l \in 1..Len(loop')
    BY <2>1, <2>2
  <2>. QED
    BY <2>1, <2>2, <2>3, <2>4, <2>5
<1>10. ASSUME NEW l \in 1..Len(loop), Take(l) PROVE MapInv'
  <2>1. /\ Len(loop') = Len(loop) /\ members' = members
        /\ \A o \in 1..Len(loop) : o # l => loop'[o] = loop[o]
        /\ loop'[l].name = loop[l].name /\ loop'[l].cancelled = loop[l].cancelled
        /\ loop[l].at = "wait"
    BY <1>10, TakeEffect DEF Take
  <2>. QED
    BY <2>1
<1>11. ASSUME NEW l \in 1..Len(loop), EndTurn(l) PROVE MapInv'
  <2>1. /\ Len(loop') = Len(loop) /\ members' = members
        /\ \A o \in 1..Len(loop) : o # l => loop'[o] = loop[o]
        /\ loop'[l].name = loop[l].name /\ loop'[l].cancelled = loop[l].cancelled
        /\ loop[l].at = "turn"
    BY <1>11, EndTurnEffect DEF EndTurn
  <2>. QED
    BY <2>1
<1>12. ASSUME NEW l \in 1..Len(loop), Exit(l) PROVE MapInv'
  <2>1. /\ Len(loop') = Len(loop) /\ members' = members
        /\ \A o \in 1..Len(loop) : o # l => loop'[o] = loop[o]
        /\ loop'[l].name = loop[l].name /\ loop'[l].cancelled = loop[l].cancelled
        /\ loop'[l].at = "ended"
    BY <1>12, EndEffect DEF Exit
  <2>. QED
    BY <2>1
<1>13. ASSUME NEW l \in 1..Len(loop), Panic(l) PROVE MapInv'
  <2>1. /\ Len(loop') = Len(loop) /\ members' = members
        /\ \A o \in 1..Len(loop) : o # l => loop'[o] = loop[o]
        /\ loop'[l].name = loop[l].name /\ loop'[l].cancelled = loop[l].cancelled
        /\ loop'[l].at = "ended"
    BY <1>13, EndEffect DEF Panic
  <2>. QED
    BY <2>1
<1>14. CASE TeamDelete
  <2>1. UNCHANGED <<members, loop>>
    BY <1>14 DEF TeamDelete
  <2>. QED
    BY <2>1
<1>15. ASSUME NEW m \in Members, DeleteStop(m) PROVE MapInv'
  <2>1. Stopped(m, "deleted")
    BY <1>15 DEF DeleteStop
  <2>2. /\ members'[m] = 0 /\ \A o \in Members : o # m => members'[o] = members[o]
        /\ Len(loop') = Len(loop)
        /\ \A l \in 1..Len(loop) :
             /\ loop'[l].name = loop[l].name /\ loop'[l].at = loop[l].at
             /\ loop'[l].cancelled = IF l = members[m] THEN "deleted" ELSE loop[l].cancelled
    BY <2>1, StopEffect
  <2>3. \A l \in 1..Len(loop) : loop[l].name \in Members
    BY LoopTyped
  <2>. QED
    BY <2>2, <2>3
<1>16. ASSUME NEW labels \in Batches, TeamCreate(labels) PROVE MapInv'
  <2>1. UNCHANGED <<members, loop>>
    BY <1>16 DEF TeamCreate
  <2>. QED
    BY <2>1
<1>17. CASE UNCHANGED memberVars
  BY <1>17 DEF memberVars
<1>18. DOMAIN loop = 1..Len(loop)
  BY DEF MembersTyped
<1>. QED
  BY <1>1, <1>2, <1>3, <1>4, <1>5, <1>6, <1>7, <1>8, <1>9, <1>10,
     <1>11, <1>12, <1>13, <1>14, <1>15, <1>16, <1>17, <1>18
   DEF MembersNext, CallerStep

\* Only the call in team_spawn_lock is under way, and its name is taken by nobody else.
LEMMA CallStep ==
  ASSUME MembersTyped, MapInv, CallInv, AuthInv, [MembersNext]_memberVars
  PROVE  CallInv'
<1>. USE DEF CallInv
<1>1. ASSUME NEW c \in Callers, NEW m \in Members,
             NEW mode \in Modes \union {"inherit"}, NEW expired \in 0..Cardinality(Members),
             Enter(c, m, mode, expired)
      PROVE  CallInv'
  <2>1. /\ lock = Nobody /\ lock' = c /\ \A d \in Callers : d # c => call'[d] = call[d]
        /\ call'[c].at = "evict" /\ call'[c].name = m /\ call'[c].tx = 0 /\ UNCHANGED <<members, loop>>
    BY <1>1, EnterEffect
  <2>2. \A d \in Callers : d # Nobody
    BY SubAgentsAssumption DEF Nobody
  <2>3. \A d \in Callers : call[d] = Resting /\ call[d].at = "idle"
    BY <2>1, <2>2
  <2>4. Len(loop) \in Nat
    BY DEF MembersTyped
  <2>. QED
    BY <2>1, <2>3, <2>4, RestingTyped
<1>2. ASSUME NEW c \in Callers, NEW m \in Members, Evict(c, m) PROVE CallInv'
  <2>1. /\ Stopped(m, "reclaimed") /\ call'[c].at = "evict" /\ call[c].at = "evict" /\ lock' = lock
        /\ call'[c].name = call[c].name /\ call'[c].tx = call[c].tx
        /\ \A d \in Callers : d # c => call'[d] = call[d]
    BY <1>2, EvictEffect
  <2>2. Len(loop') = Len(loop)
    BY <2>1, StopEffect
  <2>3. \A d \in Callers : d # c => call[d] = Resting /\ call[d].at = "idle"
    BY <2>1
  <2>. QED
    BY <2>1, <2>2, <2>3, RestingTyped
<1>3. ASSUME NEW c \in Callers, LookUp(c) PROVE CallInv'
  <2>1. /\ call[c].at = "evict" /\ call'[c].at = "send" /\ call'[c].name = call[c].name
        /\ call'[c].tx = members[call[c].name] /\ \A d \in Callers : d # c => call'[d] = call[d]
        /\ UNCHANGED <<lock, members, loop>>
    BY <1>3, LookUpEffect
  <2>2. \A d \in Callers : d # c => call[d] = Resting /\ call[d].at = "idle"
    BY <2>1
  <2>3. members[call[c].name] <= Len(loop)
    BY <2>1 DEF MapInv, MembersTyped
  <2>. QED
    BY <2>1, <2>2, <2>3, RestingTyped
<1>4. ASSUME NEW c \in Callers, Deliver(c) PROVE CallInv'
  <2>1. lock' = Nobody /\ call'[c] = Resting /\ \A d \in Callers : d # c => call'[d] = call[d]
    BY <1>4, ReturnEffect DEF Deliver
  <2>2. \A d \in Callers : d # c => call[d] = Resting /\ call[d].at = "idle"
    BY <1>4 DEF Deliver
  <2>3. \A d \in Callers : call'[d] = Resting
    BY <2>1, <2>2
  <2>4. Len(loop') \in Nat
    BY <1>4, DeliverEffect DEF MembersTyped
  <2>. QED
    BY <2>1, <2>3, <2>4, RestingTyped, SubAgentsAssumption DEF Nobody
<1>5. ASSUME NEW c \in Callers, Missing(c) PROVE CallInv'
  <2>1. /\ call[c].at = "send" /\ call'[c].at = "resolve" /\ call'[c].name = call[c].name
        /\ call'[c].tx = call[c].tx /\ \A d \in Callers : d # c => call'[d] = call[d]
        /\ UNCHANGED <<lock, loop>>
        /\ members'[call[c].name] \in {0, members[call[c].name]}
        /\ call[c].tx # 0 => members'[call[c].name] = 0
    BY <1>5, MissingEffect
  <2>2. \A d \in Callers : d # c => call[d] = Resting /\ call[d].at = "idle"
    BY <2>1
  <2>. QED
    BY <2>1, <2>2, RestingTyped
<1>6. ASSUME NEW c \in Callers, Resolve(c) PROVE CallInv'
  <2>1. /\ call[c].at = "resolve" /\ call'[c].at = "grant" /\ call'[c].name = call[c].name
        /\ call'[c].tx = call[c].tx /\ \A d \in Callers : d # c => call'[d] = call[d]
        /\ UNCHANGED <<lock, loop>> /\ members' = members
    BY <1>6, ResolveEffect
  <2>2. \A d \in Callers : d # c => call[d] = Resting /\ call[d].at = "idle"
    BY <2>1
  <2>. QED
    BY <2>1, <2>2, RestingTyped
<1>7. ASSUME NEW c \in Callers, Establish(c) PROVE CallInv'
  <2>1. /\ call[c].at = "grant" /\ call'[c].at = "build" /\ call'[c].name = call[c].name
        /\ call'[c].tx = call[c].tx /\ \A d \in Callers : d # c => call'[d] = call[d]
        /\ UNCHANGED <<lock, loop>> /\ members' = members
    BY <1>7, EstablishEffect
  <2>2. \A d \in Callers : d # c => call[d] = Resting /\ call[d].at = "idle"
    BY <2>1
  <2>. QED
    BY <2>1, <2>2, RestingTyped
<1>8. ASSUME NEW c \in Callers, BuildFails(c) PROVE CallInv'
  <2>1. lock' = Nobody /\ call'[c] = Resting /\ \A d \in Callers : d # c => call'[d] = call[d]
    BY <1>8, ReturnEffect DEF BuildFails
  <2>2. \A d \in Callers : d # c => call[d] = Resting /\ call[d].at = "idle"
    BY <1>8 DEF BuildFails
  <2>3. \A d \in Callers : call'[d] = Resting
    BY <2>1, <2>2
  <2>4. Len(loop') \in Nat
    BY <1>8 DEF BuildFails, MembersTyped
  <2>. QED
    BY <2>1, <2>3, <2>4, RestingTyped, SubAgentsAssumption DEF Nobody
<1>9. ASSUME NEW c \in Callers, Spawn(c) PROVE CallInv'
  <2>1. lock' = Nobody /\ call'[c] = Resting /\ \A d \in Callers : d # c => call'[d] = call[d]
    BY <1>9, ReturnEffect DEF Spawn
  <2>2. \A d \in Callers : d # c => call[d] = Resting /\ call[d].at = "idle"
    BY <1>9 DEF Spawn
  <2>3. \A d \in Callers : call'[d] = Resting
    BY <2>1, <2>2
  <2>4. Len(loop') \in Nat
    BY <1>9, SpawnEffect DEF MembersTyped
  <2>. QED
    BY <2>1, <2>3, <2>4, RestingTyped, SubAgentsAssumption DEF Nobody
<1>10. ASSUME NEW l \in 1..Len(loop), Take(l) PROVE CallInv'
  <2>1. UNCHANGED <<lock, call, members>> /\ Len(loop') = Len(loop)
    BY <1>10, TakeEffect DEF Take
  <2>. QED
    BY <2>1
<1>11. ASSUME NEW l \in 1..Len(loop), EndTurn(l) PROVE CallInv'
  <2>1. UNCHANGED <<lock, call, members>> /\ Len(loop') = Len(loop)
    BY <1>11, EndTurnEffect DEF EndTurn
  <2>. QED
    BY <2>1
<1>12. ASSUME NEW l \in 1..Len(loop), Exit(l) PROVE CallInv'
  <2>1. UNCHANGED <<lock, call, members>> /\ Len(loop') = Len(loop)
    BY <1>12, EndEffect DEF Exit
  <2>. QED
    BY <2>1
<1>13. ASSUME NEW l \in 1..Len(loop), Panic(l) PROVE CallInv'
  <2>1. UNCHANGED <<lock, call, members>> /\ Len(loop') = Len(loop)
    BY <1>13, EndEffect DEF Panic
  <2>. QED
    BY <2>1
<1>14. CASE TeamDelete
  <2>1. UNCHANGED <<lock, call, members>> /\ Len(loop') = Len(loop)
    BY <1>14 DEF TeamDelete
  <2>. QED
    BY <2>1
<1>15. ASSUME NEW m \in Members, DeleteStop(m) PROVE CallInv'
  <2>1. Stopped(m, "deleted") /\ UNCHANGED <<lock, call>>
    BY <1>15 DEF DeleteStop
  <2>2. /\ members'[m] = 0 /\ \A o \in Members : o # m => members'[o] = members[o]
        /\ Len(loop') = Len(loop)
    BY <2>1, StopEffect
  <2>. QED
    BY <2>1, <2>2
<1>16. ASSUME NEW labels \in Batches, TeamCreate(labels) PROVE CallInv'
  <2>1. UNCHANGED <<lock, call, members>> /\ Len(loop') = Len(loop)
    BY <1>16 DEF TeamCreate
  <2>. QED
    BY <2>1
<1>17. CASE UNCHANGED memberVars
  BY <1>17 DEF memberVars
<1>18. DOMAIN loop = 1..Len(loop)
  BY DEF MembersTyped
<1>. QED
  BY <1>1, <1>2, <1>3, <1>4, <1>5, <1>6, <1>7, <1>8, <1>9, <1>10,
     <1>11, <1>12, <1>13, <1>14, <1>15, <1>16, <1>17, <1>18
   DEF MembersNext, CallerStep

\* Members without a mode of their own share the grant of the team.
LEMMA AuthStep ==
  ASSUME MembersTyped, MapInv, CallInv, AuthInv, TaskInv, [MembersNext]_memberVars
  PROVE  AuthInv'
<1>. USE DEF AuthInv
<1>1. ASSUME NEW c \in Callers, NEW m \in Members,
             NEW mode \in Modes \union {"inherit"}, NEW expired \in 0..Cardinality(Members),
             Enter(c, m, mode, expired)
      PROVE  AuthInv'
  <2>1. /\ \A d \in Callers : d # c => call'[d] = call[d]
        /\ call'[c].at = "evict" /\ call'[c].mode = mode /\ call'[c].epoch = epoch
        /\ call'[c].asked = (mode # "inherit") /\ UNCHANGED <<loop, reg, epoch>>
    BY <1>1, EnterEffect
  <2>3. ~call'[c].asked => call'[c].mode = "inherit"
    BY <2>1, Zenon
  <2>2. epoch \in Nat
    BY DEF MembersTyped
  <2>4. /\ \A d \in Callers : d # c => call'[d] = call[d]
        /\ call'[c].at = "evict" /\ call'[c].epoch = epoch /\ UNCHANGED <<loop, reg, epoch>>
    BY <2>1, Zenon
  <2>. QED
    BY <2>2, <2>3, <2>4
<1>2. ASSUME NEW c \in Callers, NEW m \in Members, Evict(c, m) PROVE AuthInv'
  <2>1. /\ Stopped(m, "reclaimed") /\ call[c].at = "evict" /\ call'[c].at = "evict"
        /\ call'[c].mode = call[c].mode /\ call'[c].asked = call[c].asked /\ call'[c].epoch = call[c].epoch
        /\ \A d \in Callers : d # c => call'[d] = call[d]
    BY <1>2, EvictEffect
  <2>2. /\ Len(loop') = Len(loop)
        /\ \A l \in 1..Len(loop) :
             /\ loop'[l].at = loop[l].at /\ loop'[l].mode = loop[l].mode
             /\ loop'[l].asked = loop[l].asked /\ loop'[l].epoch = loop[l].epoch
    BY <2>1, StopEffect
  <2>3. UNCHANGED <<reg, epoch>>
    BY <1>2 DEF Evict
  <2>. QED
    BY <2>1, <2>2, <2>3
<1>3. ASSUME NEW c \in Callers, LookUp(c) PROVE AuthInv'
  <2>1. /\ call[c].at = "evict" /\ call'[c].at = "send" /\ \A d \in Callers : d # c => call'[d] = call[d]
        /\ call'[c].asked = call[c].asked /\ call'[c].epoch = call[c].epoch
        /\ UNCHANGED <<epoch, loop>>
        /\ call'[c].mode = call[c].mode /\ reg' = reg
    BY <1>3, LookUpEffect
  <2>. QED
    BY <2>1
<1>4. ASSUME NEW c \in Callers, Deliver(c) PROVE AuthInv'
  <2>1. call'[c] = Resting /\ \A d \in Callers : d # c => call'[d] = call[d]
    BY <1>4, ReturnEffect DEF Deliver
  <2>2. /\ Len(loop') = Len(loop)
        /\ \A l \in 1..Len(loop) :
             /\ loop'[l].at = loop[l].at /\ loop'[l].mode = loop[l].mode
             /\ loop'[l].asked = loop[l].asked /\ loop'[l].epoch = loop[l].epoch
    BY <1>4, DeliverEffect
  <2>3. UNCHANGED <<reg, epoch>> /\ epoch \in Nat
    BY <1>4 DEF Deliver, MembersTyped
  <2>. QED
    BY <2>1, <2>2, <2>3, RestingTyped
<1>5. ASSUME NEW c \in Callers, Missing(c) PROVE AuthInv'
  <2>1. /\ call[c].at = "send" /\ call'[c].at = "resolve" /\ \A d \in Callers : d # c => call'[d] = call[d]
        /\ call'[c].asked = call[c].asked /\ call'[c].epoch = call[c].epoch
        /\ UNCHANGED <<epoch, loop>>
        /\ call'[c].mode = call[c].mode /\ reg' = reg
    BY <1>5, MissingEffect
  <2>. QED
    BY <2>1
<1>6. ASSUME NEW c \in Callers, Resolve(c) PROVE AuthInv'
  <2>1. /\ call[c].at = "resolve" /\ call'[c].at = "grant" /\ \A d \in Callers : d # c => call'[d] = call[d]
        /\ call'[c].asked = call[c].asked /\ call'[c].epoch = call[c].epoch
        /\ UNCHANGED <<epoch, loop>>
        /\ call'[c].mode = ResolvedMode(call[c].mode, reg.grant) /\ reg' = reg
    BY <1>6, ResolveEffect
  <2>. QED
    BY <2>1 DEF ResolvedMode
<1>7. ASSUME NEW c \in Callers, Establish(c) PROVE AuthInv'
  <2>1. /\ call[c].at = "grant" /\ call'[c].at = "build" /\ \A d \in Callers : d # c => call'[d] = call[d]
        /\ call'[c].asked = call[c].asked /\ call'[c].epoch = call[c].epoch
        /\ UNCHANGED <<epoch, loop>>
        /\ call'[c].mode = call[c].mode /\ reg'.grant = Granted(reg.grant, call[c].mode)
    BY <1>7, EstablishEffect
  <2>2. \A l \in 1..Len(loop) : loop[l].mode # "inherit"
    BY LoopTyped, SubAgentsAssumption
  <2>3. \A d \in Callers : d # c => call[d].at = "idle"
    BY <2>1 DEF CallInv
  <2>. QED
    BY <2>1, <2>2, <2>3 DEF Granted
<1>8. ASSUME NEW c \in Callers, BuildFails(c) PROVE AuthInv'
  <2>1. call'[c] = Resting /\ \A d \in Callers : d # c => call'[d] = call[d]
    BY <1>8, ReturnEffect DEF BuildFails
  <2>2. loop' = loop
    BY <1>8 DEF BuildFails
  <2>3. UNCHANGED <<reg, epoch>> /\ epoch \in Nat
    BY <1>8 DEF BuildFails, MembersTyped
  <2>. QED
    BY <2>1, <2>2, <2>3, RestingTyped
<1>9. ASSUME NEW c \in Callers, Spawn(c) PROVE AuthInv'
  <2>1. call'[c] = Resting /\ \A d \in Callers : d # c => call'[d] = call[d]
    BY <1>9, ReturnEffect DEF Spawn
  <2>2. /\ Len(loop') = Len(loop) + 1 /\ \A l \in 1..Len(loop) : loop'[l] = loop[l]
        /\ loop'[Len(loop) + 1].mode = call[c].mode /\ loop'[Len(loop) + 1].asked = call[c].asked
        /\ loop'[Len(loop) + 1].epoch = call[c].epoch
    BY <1>9, SpawnEffect
  <2>3. UNCHANGED <<reg, epoch>> /\ epoch \in Nat /\ call[c].at = "build" /\ Len(loop) \in Nat
    BY <1>9 DEF Spawn, MembersTyped
  <2>4. \A l \in 1..Len(loop') : l = Len(loop) + 1 \/ l \in 1..Len(loop)
    BY <2>2, <2>3
  <2>. QED
    BY <2>1, <2>2, <2>3, <2>4, RestingTyped
<1>10. ASSUME NEW l \in 1..Len(loop), Take(l) PROVE AuthInv'
  <2>1. /\ Len(loop') = Len(loop) /\ UNCHANGED <<call, epoch>>
        /\ \A o \in 1..Len(loop) : o # l => loop'[o] = loop[o]
        /\ loop'[l].mode = loop[l].mode /\ loop'[l].asked = loop[l].asked
        /\ loop'[l].epoch = loop[l].epoch /\ loop[l].at # "ended"
    BY <1>10, TakeEffect DEF Take
  <2>2. reg'.grant = reg.grant
    BY <1>10 DEF Take, MembersTyped
  <2>. QED
    BY <2>1, <2>2
<1>11. ASSUME NEW l \in 1..Len(loop), EndTurn(l) PROVE AuthInv'
  <2>1. /\ Len(loop') = Len(loop) /\ UNCHANGED <<call, epoch>>
        /\ \A o \in 1..Len(loop) : o # l => loop'[o] = loop[o]
        /\ loop'[l].mode = loop[l].mode /\ loop'[l].asked = loop[l].asked
        /\ loop'[l].epoch = loop[l].epoch /\ loop[l].at # "ended"
    BY <1>11, EndTurnEffect DEF EndTurn
  <2>2. reg'.grant = reg.grant
    BY <1>11 DEF EndTurn, MembersTyped
  <2>. QED
    BY <2>1, <2>2
<1>12. ASSUME NEW l \in 1..Len(loop), Exit(l) PROVE AuthInv'
  <2>1. /\ Len(loop') = Len(loop) /\ UNCHANGED <<call, epoch>>
        /\ \A o \in 1..Len(loop) : o # l => loop'[o] = loop[o]
        /\ loop'[l].at = "ended" /\ loop'[l].epoch = 0
    BY <1>12, EndEffect DEF Exit
  <2>2. reg'.grant = reg.grant /\ epoch \in Nat
    BY <1>12 DEF Exit, MembersTyped
  <2>. QED
    BY <2>1, <2>2
<1>13. ASSUME NEW l \in 1..Len(loop), Panic(l) PROVE AuthInv'
  <2>1. /\ Len(loop') = Len(loop) /\ UNCHANGED <<call, epoch>>
        /\ \A o \in 1..Len(loop) : o # l => loop'[o] = loop[o]
        /\ loop'[l].at = "ended" /\ loop'[l].epoch = 0
    BY <1>13, EndEffect DEF Panic
  <2>2. reg'.grant = reg.grant /\ epoch \in Nat
    BY <1>13 DEF Panic, MembersTyped
  <2>. QED
    BY <2>1, <2>2
<1>14. CASE TeamDelete
  <2>1. epoch' = epoch + 1 /\ epoch \in Nat /\ UNCHANGED <<call, loop>>
    BY <1>14 DEF TeamDelete, MembersTyped
  <2>2. \A c \in Callers : call[c].epoch \in Nat
    BY DEF MembersTyped, Calls
  <2>3. \A l \in 1..Len(loop) : loop[l].epoch \in Nat
    BY LoopTyped
  <2>. QED
    BY <2>1, <2>2, <2>3
<1>15. ASSUME NEW m \in Members, DeleteStop(m) PROVE AuthInv'
  <2>1. Stopped(m, "deleted") /\ UNCHANGED <<call, reg, epoch>>
    BY <1>15 DEF DeleteStop
  <2>2. /\ Len(loop') = Len(loop)
        /\ \A l \in 1..Len(loop) :
             /\ loop'[l].at = loop[l].at /\ loop'[l].mode = loop[l].mode
             /\ loop'[l].asked = loop[l].asked /\ loop'[l].epoch = loop[l].epoch
    BY <2>1, StopEffect
  <2>. QED
    BY <2>1, <2>2
<1>16. ASSUME NEW labels \in Batches, TeamCreate(labels) PROVE AuthInv'
  <2>1. epoch' = epoch + 1 /\ epoch \in Nat /\ UNCHANGED <<call, loop>>
    BY <1>16 DEF TeamCreate, MembersTyped
  <2>2. \A c \in Callers : call[c].epoch \in Nat
    BY DEF MembersTyped, Calls
  <2>3. \A l \in 1..Len(loop) : loop[l].epoch \in Nat
    BY LoopTyped
  <2>. QED
    BY <2>1, <2>2, <2>3
<1>17. CASE UNCHANGED memberVars
  BY <1>17 DEF memberVars
<1>18. DOMAIN loop = 1..Len(loop)
  BY DEF MembersTyped
<1>. QED
  BY <1>1, <1>2, <1>3, <1>4, <1>5, <1>6, <1>7, <1>8, <1>9, <1>10,
     <1>11, <1>12, <1>13, <1>14, <1>15, <1>16, <1>17, <1>18
   DEF MembersNext, CallerStep

\* A queue that grows by a task it does not hold.
LEMMA QueueAppend ==
  ASSUME NEW q \in Seq(Nat), NEW x \in Nat, x \notin ToSet(q), Once(q)
  PROVE  ToSet(Append(q, x)) = ToSet(q) \union {x} /\ Once(Append(q, x))
<1>1. Len(q) \in Nat /\ DOMAIN q = 1..Len(q)
  OBVIOUS
<1> DEFINE r == Append(q, x)
<1>2. /\ Len(r) = Len(q) + 1 /\ DOMAIN r = 1..(Len(q) + 1) /\ r[Len(q) + 1] = x
      /\ \A i \in 1..Len(q) : r[i] = q[i]
  OBVIOUS
<1>. HIDE DEF r
<1>3. ToSet(r) = ToSet(q) \union {x}
  BY <1>1, <1>2 DEF ToSet
<1>4. \A i \in 1..Len(q) : q[i] # x
  BY <1>1 DEF ToSet
<1>5. \A i \in 1..Len(r) : i = Len(q) + 1 \/ i \in 1..Len(q)
  BY <1>1, <1>2
<1>6. Once(r)
  BY <1>2, <1>4, <1>5 DEF Once
<1>. QED
  BY <1>3, <1>6 DEF r

\* The first task of a queue is not in the rest of it.
LEMMA QueueTake ==
  ASSUME NEW q \in Seq(Nat), q # <<>>, Once(q)
  PROVE  /\ ToSet(q) = ToSet(Tail(q)) \union {Head(q)} /\ Head(q) \notin ToSet(Tail(q))
         /\ Once(Tail(q)) /\ Head(q) \in Nat
<1>1. Len(q) \in Nat /\ Len(q) >= 1 /\ DOMAIN q = 1..Len(q) /\ Head(q) = q[1] /\ Head(q) \in Nat
  OBVIOUS
<1> DEFINE r == Tail(q)
<1>2. /\ Len(r) = Len(q) - 1 /\ DOMAIN r = 1..(Len(q) - 1)
      /\ \A i \in 1..(Len(q) - 1) : r[i] = q[i + 1]
  OBVIOUS
<1>. HIDE DEF r
<1>3. \A i \in 1..(Len(q) - 1) : i + 1 \in 1..Len(q) /\ i + 1 # 1
  BY <1>1
<1>4. \A i \in 1..Len(q) : i = 1 \/ (i - 1 \in 1..(Len(q) - 1) /\ (i - 1) + 1 = i)
  BY <1>1
<1>5. ASSUME NEW i \in 1..Len(q), i # 1 PROVE q[i] \in ToSet(r)
  <2>1. i - 1 \in 1..(Len(q) - 1) /\ (i - 1) + 1 = i
    BY <1>4, <1>5
  <2>2. r[i - 1] = q[i]
    BY <1>2, <2>1
  <2>. QED
    BY <1>2, <2>1, <2>2 DEF ToSet
<1>6. ToSet(q) = ToSet(r) \union {Head(q)}
  <2>1. ASSUME NEW y \in ToSet(q) PROVE y \in ToSet(r) \union {Head(q)}
    <3>1. PICK i \in 1..Len(q) : y = q[i]
      BY <1>1 DEF ToSet
    <3>. QED
      BY <1>1, <1>5, <3>1
  <2>2. ASSUME NEW y \in ToSet(r) PROVE y \in ToSet(q)
    <3>1. PICK i \in 1..(Len(q) - 1) : y = r[i]
      BY <1>2 DEF ToSet
    <3>. QED
      BY <1>1, <1>2, <1>3, <3>1 DEF ToSet
  <2>3. Head(q) \in ToSet(q)
    BY <1>1 DEF ToSet
  <2>. QED
    BY <2>1, <2>2, <2>3
<1>7. Head(q) \notin ToSet(r)
  <2>1. ASSUME NEW i \in 1..(Len(q) - 1) PROVE r[i] # q[1]
    BY <1>1, <1>2, <1>3 DEF Once
  <2>. QED
    BY <1>1, <1>2, <2>1 DEF ToSet
<1>8. Once(r)
  <2>1. ASSUME NEW i \in 1..(Len(q) - 1), NEW j \in 1..(Len(q) - 1), r[i] = r[j] PROVE i = j
    <3>1. i + 1 = j + 1
      BY <1>2, <1>3, <2>1 DEF Once
    <3>. QED
      BY <3>1
  <2>. QED
    BY <1>2, <2>1 DEF Once
<1>. QED
  BY <1>1, <1>6, <1>7, <1>8 DEF r

\* Steps that hand no task on, and drop those of a set.
LEMMA TasksDropped ==
  ASSUME TaskInv, NEW D \in SUBSET (Nat \ {0}), Len(loop') = Len(loop), Len(task') = Len(task),
         \A u \in 1..Len(task) \ D : task'[u] = task[u] /\ (u \in lost' <=> u \in lost),
         \A u \in 1..Len(task) \intersect D : u \in lost' \/ task'[u] # "running",
         \A l \in 1..Len(loop), u \in Nat \ {0} : Has(l, u)' <=> Has(l, u) /\ u \notin D,
         \A c \in Callers : /\ call'[c].task = IF call[c].task \in D THEN 0 ELSE call[c].task
                            /\ call'[c].at \in {"idle", "evict"} <=> call'[c].task = 0,
         LoopInv'
  PROVE  TaskInv'
<1>1. CarryInv'
  <2>1. ASSUME NEW c \in Callers, call'[c].task # 0
        PROVE  /\ call'[c].task \in 1..Len(task') \ lost' /\ task'[call'[c].task] = "running"
               /\ \A l \in 1..Len(loop') : ~Has(l, call[c].task)'
    <3>1. PICK u : u = call[c].task
      OBVIOUS
    <3>2. call'[c].task = u /\ u \notin D /\ u # 0
      BY <2>1, <3>1
    <3>3. u \in 1..Len(task) \ lost /\ task[u] = "running" /\ \A l \in 1..Len(loop) : ~Has(l, u)
      BY <3>1, <3>2 DEF TaskInv, CarryInv
    <3>4. \A l \in 1..Len(loop') : ~Has(l, u)'
      BY <3>2, <3>3
    <3>5. \A l \in 1..Len(loop') : ~Has(l, call[c].task)'
      BY <3>2, <3>4 DEF Has
    <3>. QED
      BY <3>2, <3>3, <3>5
  <2>. QED
    BY <2>1 DEF CarryInv
<1>2. HoldInv'
  BY DEF TaskInv, HoldInv
<1>3. HeldInv'
  <2>1. ASSUME NEW u \in 1..Len(task') \ lost', task'[u] = "running"
        PROVE  \/ \E c \in Callers : call'[c].task = u
               \/ \E l \in 1..Len(loop') : Has(l, u)'
    <3>1. u \in 1..Len(task) \ lost /\ task[u] = "running" /\ u \notin D /\ u \in Nat \ {0}
      BY <2>1
    <3>. QED
      BY <3>1 DEF TaskInv, HeldInv
  <2>. QED
    BY <2>1 DEF HeldInv
<1>. QED
  BY <1>1, <1>2, <1>3 DEF TaskInv

\* Steps that hand no task on.
LEMMA TasksKept ==
  ASSUME TaskInv, Len(loop') = Len(loop), UNCHANGED <<task, lost>>,
         \A l \in 1..Len(loop) : /\ loop'[l].at = loop[l].at /\ loop'[l].task = loop[l].task
                                 /\ loop'[l].queue = loop[l].queue,
         \A c \in Callers : /\ call'[c].task = call[c].task
                            /\ call'[c].at \in {"idle", "evict"} <=> call[c].at \in {"idle", "evict"}
  PROVE  TaskInv'
<1>1. \A l \in 1..Len(loop) : \A t : Has(l, t)' <=> Has(l, t)
  BY DEF Has
<1>2. LoopInv'
  BY DEF TaskInv, LoopInv, Once
<1>3. \A c \in Callers : call'[c].at \in {"idle", "evict"} <=> call'[c].task = 0
  BY DEF TaskInv, CarryInv
<1> DEFINE D == {}
<1>4. D \in SUBSET (Nat \ {0}) /\ \A u : u \notin D
  OBVIOUS
<1>. HIDE DEF D
<1>. QED
  BY <1>1, <1>2, <1>3, <1>4, TasksDropped

\* In a step, loop x gets task t and no other loop gets or loses a task.
Gets(x, t) ==
  \A l \in 1..Len(loop'), u \in Nat \ {0} :
    Has(l, u)' <=> (l \in 1..Len(loop) /\ Has(l, u)) \/ (l = x /\ u = t)

\* The call in the lock hands its task to a loop and returns.
LEMMA TaskHandedOn ==
  ASSUME MembersTyped, CallInv, TaskInv, NEW c \in Callers, call[c].at # "idle", Return(c),
         Len(loop) <= Len(loop'), Len(loop') \in Nat, NEW x \in 1..Len(loop'),
         NEW t \in Nat \ {0}, t = call[c].task, task' = task, lost' = lost,
         Gets(x, t), LoopInv'
  PROVE  TaskInv'
<1>0. \A l \in 1..Len(loop'), u \in Nat \ {0} :
        Has(l, u)' <=> (l \in 1..Len(loop) /\ Has(l, u)) \/ (l = x /\ u = t)
  BY DEF Gets
<1>1. /\ call'[c].at = "idle" /\ call'[c].task = 0
      /\ \A d \in Callers : d # c => call'[d] = call[d]
  BY ReturnEffect, RestingTyped
<1>2. \A d \in Callers : d # c => call[d].at = "idle" /\ call[d].task = 0
  BY RestingTyped DEF CallInv
<1>3. t \in 1..Len(task) \ lost /\ task[t] = "running" /\ \A l \in 1..Len(loop) : ~Has(l, t)
  BY DEF TaskInv, CarryInv
<1>4. t \in Nat \ {0} /\ Len(loop) \in Nat /\ \A l \in 1..Len(loop) : l \in 1..Len(loop')
  BY <1>3 DEF MembersTyped
<1>5. CarryInv'
  BY <1>1, <1>2 DEF CarryInv
<1>6. HoldInv'
  <2>1. ASSUME NEW l \in 1..Len(loop'), NEW u \in Nat \ {0}, Has(l, u)'
        PROVE  /\ u \in 1..Len(task') \ lost' /\ task'[u] = "running"
               /\ \A o \in 1..Len(loop') : Has(o, u)' => o = l
    <3>1. CASE u = t
      BY <1>0, <1>3, <2>1, <3>1
    <3>2. CASE u # t
      <4>1. l \in 1..Len(loop) /\ Has(l, u) /\ \A o \in 1..Len(loop') : Has(o, u)' => o \in 1..Len(loop) /\ Has(o, u)
        BY <1>0, <2>1, <3>2
      <4>. QED
        BY <4>1 DEF TaskInv, HoldInv
    <3>. QED
      BY <3>1, <3>2
  <2>. QED
    BY <2>1 DEF HoldInv
<1>7. HeldInv'
  <2>1. ASSUME NEW u \in 1..Len(task') \ lost', task'[u] = "running"
        PROVE  \E l \in 1..Len(loop') : Has(l, u)'
    <3>1. CASE u = t
      BY <1>0, <1>4, <3>1
    <3>2. CASE u # t
      <4>1. u \in Nat \ {0} /\ \A d \in Callers : call[d].task # u
        BY <1>2, <3>2
      <4>2. PICK l \in 1..Len(loop) : Has(l, u)
        BY <2>1, <4>1 DEF TaskInv, HeldInv
      <4>. QED
        BY <1>0, <1>4, <4>1, <4>2
    <3>. QED
      BY <3>1, <3>2
  <2>. QED
    BY <2>1 DEF HeldInv
<1>. QED
  BY <1>5, <1>6, <1>7 DEF TaskInv

\* A call registers a task.
LEMMA LookUpTasks ==
  ASSUME MembersTyped, CallInv, TaskInv, NEW c \in Callers, LookUp(c)
  PROVE  TaskInv'
<1>1. PICK t : t = Len(task) + 1
  OBVIOUS
<1>2. /\ call[c].at = "evict" /\ call'[c].at = "send" /\ call'[c].task = t /\ UNCHANGED <<loop, lost>>
      /\ \A d \in Callers : d # c => call'[d] = call[d]
      /\ task' = Append(task, "running")
  BY <1>1, LookUpEffect
<1>3. /\ Len(task) \in Nat /\ Len(task') = t /\ task'[t] = "running"
      /\ \A u \in 1..Len(task) : task'[u] = task[u]
  BY <1>1, <1>2 DEF MembersTyped
<1>4. /\ t \in 1..Len(task') /\ t \notin 1..Len(task) /\ t \notin lost /\ t \in Nat \ {0}
      /\ \A u \in 1..Len(task') : u = t \/ u \in 1..Len(task)
      /\ \A u \in 1..Len(task) : u \in 1..Len(task')
  BY <1>1, <1>3 DEF MembersTyped
<1>5. \A l \in 1..Len(loop) : ~Has(l, t)
  BY <1>4 DEF TaskInv, HoldInv
<1>6. \A l, u : Has(l, u)' <=> Has(l, u)
  BY <1>2 DEF Has
<1>7. CarryInv'
  <2>1. ASSUME NEW d \in Callers, d # c
        PROVE  /\ call'[d].at \in {"idle", "evict"} <=> call'[d].task = 0
               /\ call'[d].task # 0 => /\ call'[d].task \in 1..Len(task') \ lost' /\ task'[call'[d].task] = "running"
                                       /\ \A l \in 1..Len(loop') : ~Has(l, call[d].task)'
    <3>1. call'[d] = call[d] /\ \A l \in 1..Len(loop') : Has(l, call[d].task)' <=> Has(l, call[d].task)
      BY <1>2, <2>1 DEF Has
    <3>. QED
      BY <1>2, <1>3, <1>4, <3>1 DEF TaskInv, CarryInv
  <2>2. \A l \in 1..Len(loop') : ~Has(l, call[c].task)'
    BY <1>2, <1>5 DEF Has
  <2>. QED
    BY <1>2, <1>3, <1>4, <2>1, <2>2 DEF CarryInv
<1>8. LoopInv'
  BY <1>2 DEF TaskInv, LoopInv, Once
<1>9. HoldInv'
  BY <1>2, <1>3, <1>4, <1>6 DEF TaskInv, HoldInv
<1>10. HeldInv'
  <2>1. call[c].task = 0
    BY <1>2 DEF TaskInv, CarryInv
  <2>2. \A d \in Callers : call[d].task # 0 => call'[d].task = call[d].task
    BY <1>2, <2>1
  <2>. QED
    BY <1>2, <1>3, <1>4, <1>6, <2>2 DEF TaskInv, HeldInv
<1>. QED
  BY <1>7, <1>8, <1>9, <1>10 DEF TaskInv

\* An empty queue holds nothing.
LEMMA EmptyQueue == ToSet(<<>>) = {} /\ Once(<<>>)
BY DEF ToSet, Once

\* A task that runs and is not lost is with one call or one loop, and there once.
LEMMA TaskStep ==
  ASSUME MembersTyped, MapInv, CallInv, AuthInv, TaskInv, [MembersNext]_memberVars
  PROVE  TaskInv'
<1>1. ASSUME NEW c \in Callers, NEW m \in Members,
             NEW mode \in Modes \union {"inherit"}, NEW expired \in 0..Cardinality(Members),
             Enter(c, m, mode, expired)
      PROVE  TaskInv'
  <2>1. /\ Len(loop') = Len(loop) /\ UNCHANGED <<task, lost>>
        /\ \A o \in 1..Len(loop) : /\ loop'[o].at = loop[o].at /\ loop'[o].task = loop[o].task
                                   /\ loop'[o].queue = loop[o].queue
    BY <1>1 DEF Enter
  <2>3. call[c] = Resting
    BY <1>1 DEF Enter, CallInv
  <2>2. \A d \in Callers :
          /\ call'[d].task = call[d].task
          /\ call'[d].at \in {"idle", "evict"} <=> call[d].at \in {"idle", "evict"}
    BY <1>1, <2>3, EnterEffect, RestingTyped DEF Enter
  <2>. QED
    BY <2>1, <2>2, TasksKept
<1>2. ASSUME NEW c \in Callers, NEW m \in Members, Evict(c, m) PROVE TaskInv'
  <2>1. Stopped(m, "reclaimed")
    BY <1>2 DEF Evict
  <2>2. /\ Len(loop') = Len(loop)
        /\ \A o \in 1..Len(loop) : /\ loop'[o].at = loop[o].at /\ loop'[o].task = loop[o].task
                                   /\ loop'[o].queue = loop[o].queue
    BY <2>1, StopEffect
  <2>3. \A d \in Callers :
          /\ call'[d].task = call[d].task
          /\ call'[d].at \in {"idle", "evict"} <=> call[d].at \in {"idle", "evict"}
    BY <1>2, EvictEffect
  <2>4. UNCHANGED <<task, lost>>
    BY <1>2 DEF Evict
  <2>. QED
    BY <2>2, <2>3, <2>4, TasksKept
<1>3. ASSUME NEW c \in Callers, LookUp(c) PROVE TaskInv'
  BY <1>3, LookUpTasks
<1>4. ASSUME NEW c \in Callers, Deliver(c) PROVE TaskInv'
  <2>1. PICK t : t = call[c].task
    OBVIOUS
  <2>2. PICK x : x = call[c].tx
    OBVIOUS
  <2>3. /\ x \in 1..Len(loop) /\ loop[x].at # "ended" /\ Len(loop') = Len(loop)
        /\ \A l \in 1..Len(loop) : /\ loop'[l].at = loop[l].at /\ loop'[l].task = loop[l].task
                                   /\ loop'[l].queue = IF l = x THEN Append(loop[l].queue, t) ELSE loop[l].queue
    BY <1>4, <2>1, <2>2, DeliverEffect
  <2>4. call[c].at = "send" /\ Return(c) /\ task' = task /\ lost' = lost /\ Len(loop) \in Nat
    BY <1>4 DEF Deliver, MembersTyped
  <2>5. t # 0 /\ t \in Nat /\ \A l \in 1..Len(loop) : ~Has(l, t)
    BY <2>1, <2>4 DEF TaskInv, CarryInv
  <2>6. loop[x].queue \in Seq(Nat) /\ Once(loop[x].queue) /\ t \notin ToSet(loop[x].queue) /\ t # loop[x].task
    BY <2>3, <2>5, LoopTyped DEF TaskInv, LoopInv, Has
  <2>7. ToSet(loop'[x].queue) = ToSet(loop[x].queue) \union {t} /\ Once(loop'[x].queue)
    BY <2>3, <2>5, <2>6, QueueAppend
  <2>8. Gets(x, t)
    BY <2>3, <2>7 DEF Has, Gets
  <2>9. LoopInv'
    <3>1. ASSUME NEW l \in 1..Len(loop')
          PROVE  /\ loop'[l].at = "turn" <=> loop'[l].task # 0
                 /\ loop'[l].at = "ended" => loop'[l].queue = <<>>
                 /\ loop'[l].task \notin ToSet(loop'[l].queue) /\ 0 \notin ToSet(loop'[l].queue)
                 /\ Once(loop'[l].queue)
      <4>1. CASE l = x
        BY <2>3, <2>5, <2>6, <2>7, <4>1 DEF TaskInv, LoopInv
      <4>2. CASE l # x
        BY <2>3, <4>2 DEF TaskInv, LoopInv
      <4>. QED
        BY <4>1, <4>2
    <3>. QED
      BY <3>1 DEF LoopInv, Once
  <2>10. /\ call[c].at # "idle" /\ x \in Nat /\ Len(loop) <= Len(loop') /\ Len(loop') \in Nat
         /\ x \in 1..Len(loop')
    BY <2>3, <2>4
  <2>. QED
    BY <2>1, <2>4, <2>5, <2>8, <2>9, <2>10, TaskHandedOn
<1>5. ASSUME NEW c \in Callers, Missing(c) PROVE TaskInv'
  <2>1. /\ Len(loop') = Len(loop) /\ UNCHANGED <<task, lost>>
        /\ \A o \in 1..Len(loop) : /\ loop'[o].at = loop[o].at /\ loop'[o].task = loop[o].task
                                   /\ loop'[o].queue = loop[o].queue
    BY <1>5 DEF Missing
  <2>2. \A d \in Callers :
          /\ call'[d].task = call[d].task
          /\ call'[d].at \in {"idle", "evict"} <=> call[d].at \in {"idle", "evict"}
    BY <1>5, MissingEffect DEF Missing
  <2>. QED
    BY <2>1, <2>2, TasksKept
<1>6. ASSUME NEW c \in Callers, Resolve(c) PROVE TaskInv'
  <2>1. /\ Len(loop') = Len(loop) /\ UNCHANGED <<task, lost>>
        /\ \A o \in 1..Len(loop) : /\ loop'[o].at = loop[o].at /\ loop'[o].task = loop[o].task
                                   /\ loop'[o].queue = loop[o].queue
    BY <1>6 DEF Resolve
  <2>2. \A d \in Callers :
          /\ call'[d].task = call[d].task
          /\ call'[d].at \in {"idle", "evict"} <=> call[d].at \in {"idle", "evict"}
    BY <1>6, ResolveEffect DEF Resolve
  <2>. QED
    BY <2>1, <2>2, TasksKept
<1>7. ASSUME NEW c \in Callers, Establish(c) PROVE TaskInv'
  <2>1. /\ Len(loop') = Len(loop) /\ UNCHANGED <<task, lost>>
        /\ \A o \in 1..Len(loop) : /\ loop'[o].at = loop[o].at /\ loop'[o].task = loop[o].task
                                   /\ loop'[o].queue = loop[o].queue
    BY <1>7 DEF Establish
  <2>2. \A d \in Callers :
          /\ call'[d].task = call[d].task
          /\ call'[d].at \in {"idle", "evict"} <=> call[d].at \in {"idle", "evict"}
    BY <1>7, EstablishEffect DEF Establish
  <2>. QED
    BY <2>1, <2>2, TasksKept
<1>8. ASSUME NEW c \in Callers, BuildFails(c) PROVE TaskInv'
  <2>1. PICK t : t = call[c].task
    OBVIOUS
  <2>2. call[c].at = "build" /\ UNCHANGED <<loop, task>> /\ lost' = lost \union {t} /\ Return(c)
    BY <1>8, <2>1 DEF BuildFails
  <2>3. t # 0 /\ t \in Nat /\ t \in 1..Len(task) /\ \A l \in 1..Len(loop) : ~Has(l, t)
    BY <2>1, <2>2 DEF TaskInv, CarryInv
  <2>4. /\ call'[c].at = "idle" /\ call'[c].task = 0
        /\ \A d \in Callers : d # c => call'[d] = call[d] /\ call[d].at = "idle" /\ call[d].task = 0
    BY <2>2, ReturnEffect, RestingTyped DEF CallInv
  <2> DEFINE D == {t}
  <2>5. D \in SUBSET (Nat \ {0}) /\ \A u : u \in D <=> u = t
    BY <2>3
  <2>6. \A l \in 1..Len(loop), u \in Nat \ {0} : Has(l, u)' <=> Has(l, u) /\ u \notin D
    BY <2>2, <2>3 DEF Has
  <2>7. LoopInv'
    BY <2>2 DEF TaskInv, LoopInv, Once
  <2>8. \A d \in Callers : /\ call'[d].task = IF call[d].task \in D THEN 0 ELSE call[d].task
                           /\ call'[d].at \in {"idle", "evict"} <=> call'[d].task = 0
    BY <2>1, <2>4, <2>5
  <2>. HIDE DEF D
  <2>. QED
    BY <2>2, <2>5, <2>6, <2>7, <2>8, TasksDropped
<1>9. ASSUME NEW c \in Callers, Spawn(c) PROVE TaskInv'
  <2>1. PICK t : t = call[c].task
    OBVIOUS
  <2>2. PICK x : x = Len(loop) + 1
    OBVIOUS
  <2>3. /\ Len(loop') = x /\ \A l \in 1..Len(loop) : loop'[l] = loop[l]
        /\ loop'[x].at = "wait" /\ loop'[x].task = 0 /\ loop'[x].queue = <<t>>
    BY <1>9, <2>1, <2>2, SpawnEffect
  <2>4. call[c].at = "build" /\ Return(c) /\ task' = task /\ lost' = lost /\ Len(loop) \in Nat
    BY <1>9 DEF Spawn, MembersTyped
  <2>5. t # 0 /\ t \in Nat
    BY <2>1, <2>4 DEF TaskInv, CarryInv
  <2>6. ToSet(<<t>>) = {t} /\ Once(<<t>>)
    BY DEF ToSet, Once
  <2>7. x \in 1..Len(loop') /\ x \notin 1..Len(loop) /\ \A l \in 1..Len(loop') : l = x \/ l \in 1..Len(loop)
    BY <2>2, <2>3, <2>4
  <2>8. Gets(x, t)
    BY <2>3, <2>6, <2>7 DEF Has, Gets
  <2>9. LoopInv'
    <3>1. ASSUME NEW l \in 1..Len(loop')
          PROVE  /\ loop'[l].at = "turn" <=> loop'[l].task # 0
                 /\ loop'[l].at = "ended" => loop'[l].queue = <<>>
                 /\ loop'[l].task \notin ToSet(loop'[l].queue) /\ 0 \notin ToSet(loop'[l].queue)
                 /\ Once(loop'[l].queue)
      <4>1. CASE l = x
        BY <2>3, <2>5, <2>6, <4>1
      <4>2. CASE l # x
        BY <2>3, <2>7, <4>2 DEF TaskInv, LoopInv
      <4>. QED
        BY <4>1, <4>2
    <3>. QED
      BY <3>1 DEF LoopInv, Once
  <2>10. /\ call[c].at # "idle" /\ x \in Nat /\ Len(loop) <= Len(loop') /\ Len(loop') \in Nat
         /\ x \in 1..Len(loop')
    BY <2>2, <2>3, <2>4, <2>7
  <2>. QED
    BY <2>1, <2>4, <2>5, <2>8, <2>9, <2>10, TaskHandedOn
<1>10. ASSUME NEW l \in 1..Len(loop), Take(l) PROVE TaskInv'
  <2>1. /\ loop[l].queue # <<>> /\ loop[l].at = "wait" /\ Len(loop') = Len(loop)
        /\ \A o \in 1..Len(loop) : o # l => loop'[o] = loop[o]
        /\ loop'[l].at = "turn" /\ loop'[l].task = Head(loop[l].queue)
        /\ loop'[l].queue = Tail(loop[l].queue)
    BY <1>10, TakeEffect
  <2>2. UNCHANGED <<call, task, lost>>
    BY <1>10 DEF Take
  <2>3. loop[l].queue \in Seq(Nat) /\ Once(loop[l].queue) /\ loop[l].task = 0 /\ 0 \notin ToSet(loop[l].queue)
    BY <2>1, LoopTyped DEF TaskInv, LoopInv
  <2>4. /\ ToSet(loop[l].queue) = ToSet(loop'[l].queue) \union {loop'[l].task}
        /\ loop'[l].task \notin ToSet(loop'[l].queue) /\ Once(loop'[l].queue)
    BY <2>1, <2>3, QueueTake
  <2>5. LoopInv'
    <3>1. ASSUME NEW o \in 1..Len(loop')
          PROVE  /\ loop'[o].at = "turn" <=> loop'[o].task # 0
                 /\ loop'[o].at = "ended" => loop'[o].queue = <<>>
                 /\ loop'[o].task \notin ToSet(loop'[o].queue) /\ 0 \notin ToSet(loop'[o].queue)
                 /\ Once(loop'[o].queue)
      <4>1. CASE o = l
        BY <2>1, <2>3, <2>4, <4>1 DEF TaskInv, LoopInv
      <4>2. CASE o # l
        BY <2>1, <4>2 DEF TaskInv, LoopInv
      <4>. QED
        BY <4>1, <4>2
    <3>. QED
      BY <3>1 DEF LoopInv, Once
  <2>6. \A o \in 1..Len(loop), u \in Nat \ {0} : Has(o, u)' <=> Has(o, u)
    <3>1. ASSUME NEW o \in 1..Len(loop), NEW u \in Nat \ {0} PROVE Has(o, u)' <=> Has(o, u)
      <4>1. CASE o = l
        BY <2>3, <2>4, <4>1 DEF Has
      <4>2. CASE o # l
        BY <2>1, <4>2 DEF Has
      <4>. QED
        BY <4>1, <4>2
    <3>. QED
      BY <3>1
  <2> DEFINE D == {}
  <2>7. D \in SUBSET (Nat \ {0}) /\ \A u : u \notin D
    OBVIOUS
  <2>. HIDE DEF D
  <2>8. \A d \in Callers : /\ call'[d].task = IF call[d].task \in D THEN 0 ELSE call[d].task
                           /\ call'[d].at \in {"idle", "evict"} <=> call'[d].task = 0
    BY <2>2, <2>7 DEF TaskInv, CarryInv
  <2>. QED
    BY <2>1, <2>2, <2>5, <2>6, <2>7, <2>8, TasksDropped
<1>11. ASSUME NEW l \in 1..Len(loop), EndTurn(l) PROVE TaskInv'
  <2>1. /\ Len(loop') = Len(loop) /\ \A o \in 1..Len(loop) : o # l => loop'[o] = loop[o]
        /\ loop[l].at = "turn" /\ loop'[l].at = "wait" /\ loop'[l].task = 0 /\ loop'[l].queue = loop[l].queue
    BY <1>11, EndTurnEffect
  <2>2. PICK t : t = loop[l].task
    OBVIOUS
  <2>3. UNCHANGED <<call, lost>> /\ task' = [task EXCEPT ![t] = "done"]
    BY <1>11, <2>2 DEF EndTurn
  <2>4. /\ loop[l].queue \in Seq(Nat) /\ t \notin ToSet(loop[l].queue) /\ 0 \notin ToSet(loop[l].queue)
        /\ ToSet(loop[l].queue) \subseteq 1..Len(task) /\ Once(loop[l].queue)
    BY <2>2, LoopTyped DEF TaskInv, LoopInv
  <2>5. t # 0 /\ t \in 1..Len(task)
    BY <2>1, <2>2, <2>3, LoopTyped DEF TaskInv, LoopInv
  <2> DEFINE D == {t}
  <2>6. D \in SUBSET (Nat \ {0}) /\ D \subseteq 1..Len(task)
    BY <2>4, <2>5
  <2>7. \A u \in D : Has(l, u)
    BY <2>2 DEF Has
  <2>8. \A u \in D, o \in 1..Len(loop) : o # l => ~Has(o, u)
    BY <2>6, <2>7 DEF TaskInv, HoldInv
  <2>9. \A u \in D, c \in Callers : call[c].task # u
    BY <2>6, <2>7 DEF TaskInv, CarryInv
  <2>10. \A u \in Nat \ {0} : Has(l, u)' <=> Has(l, u) /\ u \notin D
    BY <2>1, <2>2, <2>4, <2>5 DEF Has
  <2>11. \A o \in 1..Len(loop), u \in Nat \ {0} : Has(o, u)' <=> Has(o, u) /\ u \notin D
    <3>1. ASSUME NEW o \in 1..Len(loop), NEW u \in Nat \ {0}, o # l PROVE Has(o, u)' <=> Has(o, u) /\ u \notin D
      BY <2>1, <2>8, <3>1 DEF Has
    <3>. QED
      BY <2>10, <3>1
  <2>12. LoopInv'
    <3>1. ASSUME NEW o \in 1..Len(loop')
          PROVE  /\ loop'[o].at = "turn" <=> loop'[o].task # 0
                 /\ loop'[o].at = "ended" => loop'[o].queue = <<>>
                 /\ loop'[o].task \notin ToSet(loop'[o].queue) /\ 0 \notin ToSet(loop'[o].queue)
                 /\ Once(loop'[o].queue)
      <4>1. CASE o = l
        BY <2>1, <2>4, <4>1 DEF TaskInv, LoopInv
      <4>2. CASE o # l
        BY <2>1, <4>2 DEF TaskInv, LoopInv
      <4>. QED
        BY <4>1, <4>2
    <3>. QED
      BY <3>1 DEF LoopInv, Once
  <2>13. /\ Len(task') = Len(task)
         /\ \A u \in 1..Len(task) \ D : task'[u] = task[u] /\ (u \in lost' <=> u \in lost)
         /\ \A u \in 1..Len(task) \intersect D : u \in lost' \/ task'[u] # "running"
    BY <2>3, <2>5, ExceptSeq DEF MembersTyped
  <2>14. \A d \in Callers : /\ call'[d].task = IF call[d].task \in D THEN 0 ELSE call[d].task
                            /\ call'[d].at \in {"idle", "evict"} <=> call'[d].task = 0
    BY <2>3, <2>9 DEF TaskInv, CarryInv
  <2>. HIDE DEF D
  <2>. QED
    BY <2>1, <2>6, <2>11, <2>12, <2>13, <2>14, TasksDropped
<1>12. ASSUME NEW l \in 1..Len(loop), Exit(l) PROVE TaskInv'
  <2>1. /\ Len(loop') = Len(loop) /\ \A o \in 1..Len(loop) : o # l => loop'[o] = loop[o]
        /\ loop'[l].at = "ended" /\ loop'[l].task = 0 /\ loop'[l].queue = <<>>
    BY <1>12, EndEffect DEF Exit
  <2>2. PICK t : t = loop[l].task
    OBVIOUS
  <2>3. loop[l].at = "wait" /\ UNCHANGED <<call, task>> /\ lost' = lost \union ToSet(loop[l].queue)
    BY <1>12, <2>2 DEF Exit
  <2>4. /\ loop[l].queue \in Seq(Nat) /\ t \notin ToSet(loop[l].queue) /\ 0 \notin ToSet(loop[l].queue)
        /\ ToSet(loop[l].queue) \subseteq 1..Len(task) /\ Once(loop[l].queue)
    BY <2>2, LoopTyped DEF TaskInv, LoopInv
  <2>5. t = 0
    BY <2>1, <2>2, <2>3, LoopTyped DEF TaskInv, LoopInv
  <2> DEFINE D == ToSet(loop[l].queue)
  <2>6. D \in SUBSET (Nat \ {0}) /\ D \subseteq 1..Len(task)
    BY <2>4, <2>5
  <2>7. \A u \in D : Has(l, u)
    BY <2>2 DEF Has
  <2>8. \A u \in D, o \in 1..Len(loop) : o # l => ~Has(o, u)
    BY <2>6, <2>7 DEF TaskInv, HoldInv
  <2>9. \A u \in D, c \in Callers : call[c].task # u
    BY <2>6, <2>7 DEF TaskInv, CarryInv
  <2>10. \A u \in Nat \ {0} : Has(l, u)' <=> Has(l, u) /\ u \notin D
    BY <2>1, <2>2, <2>4, <2>5, EmptyQueue DEF Has
  <2>11. \A o \in 1..Len(loop), u \in Nat \ {0} : Has(o, u)' <=> Has(o, u) /\ u \notin D
    <3>1. ASSUME NEW o \in 1..Len(loop), NEW u \in Nat \ {0}, o # l PROVE Has(o, u)' <=> Has(o, u) /\ u \notin D
      BY <2>1, <2>8, <3>1 DEF Has
    <3>. QED
      BY <2>10, <3>1
  <2>12. LoopInv'
    <3>1. ASSUME NEW o \in 1..Len(loop')
          PROVE  /\ loop'[o].at = "turn" <=> loop'[o].task # 0
                 /\ loop'[o].at = "ended" => loop'[o].queue = <<>>
                 /\ loop'[o].task \notin ToSet(loop'[o].queue) /\ 0 \notin ToSet(loop'[o].queue)
                 /\ Once(loop'[o].queue)
      <4>1. CASE o = l
        BY <2>1, EmptyQueue, <4>1 DEF TaskInv, LoopInv
      <4>2. CASE o # l
        BY <2>1, <4>2 DEF TaskInv, LoopInv
      <4>. QED
        BY <4>1, <4>2
    <3>. QED
      BY <3>1 DEF LoopInv, Once
  <2>13. /\ Len(task') = Len(task)
         /\ \A u \in 1..Len(task) \ D : task'[u] = task[u] /\ (u \in lost' <=> u \in lost)
         /\ \A u \in 1..Len(task) \intersect D : u \in lost' \/ task'[u] # "running"
    BY <2>3
  <2>14. \A d \in Callers : /\ call'[d].task = IF call[d].task \in D THEN 0 ELSE call[d].task
                            /\ call'[d].at \in {"idle", "evict"} <=> call'[d].task = 0
    BY <2>3, <2>9 DEF TaskInv, CarryInv
  <2>. HIDE DEF D
  <2>. QED
    BY <2>1, <2>6, <2>11, <2>12, <2>13, <2>14, TasksDropped
<1>13. ASSUME NEW l \in 1..Len(loop), Panic(l) PROVE TaskInv'
  <2>1. /\ Len(loop') = Len(loop) /\ \A o \in 1..Len(loop) : o # l => loop'[o] = loop[o]
        /\ loop'[l].at = "ended" /\ loop'[l].task = 0 /\ loop'[l].queue = <<>>
    BY <1>13, EndEffect DEF Panic
  <2>2. PICK t : t = loop[l].task
    OBVIOUS
  <2>3. loop[l].at = "turn" /\ UNCHANGED <<call, task>> /\ lost' = lost \union ToSet(loop[l].queue) \union {t}
    BY <1>13, <2>2 DEF Panic
  <2>4. /\ loop[l].queue \in Seq(Nat) /\ t \notin ToSet(loop[l].queue) /\ 0 \notin ToSet(loop[l].queue)
        /\ ToSet(loop[l].queue) \subseteq 1..Len(task) /\ Once(loop[l].queue)
    BY <2>2, LoopTyped DEF TaskInv, LoopInv
  <2>5. t # 0 /\ t \in 1..Len(task)
    BY <2>1, <2>2, <2>3, LoopTyped DEF TaskInv, LoopInv
  <2> DEFINE D == ToSet(loop[l].queue) \union {t}
  <2>6. D \in SUBSET (Nat \ {0}) /\ D \subseteq 1..Len(task)
    BY <2>4, <2>5
  <2>7. \A u \in D : Has(l, u)
    BY <2>2 DEF Has
  <2>8. \A u \in D, o \in 1..Len(loop) : o # l => ~Has(o, u)
    BY <2>6, <2>7 DEF TaskInv, HoldInv
  <2>9. \A u \in D, c \in Callers : call[c].task # u
    BY <2>6, <2>7 DEF TaskInv, CarryInv
  <2>10. \A u \in Nat \ {0} : Has(l, u)' <=> Has(l, u) /\ u \notin D
    BY <2>1, <2>2, <2>4, <2>5, EmptyQueue DEF Has
  <2>11. \A o \in 1..Len(loop), u \in Nat \ {0} : Has(o, u)' <=> Has(o, u) /\ u \notin D
    <3>1. ASSUME NEW o \in 1..Len(loop), NEW u \in Nat \ {0}, o # l PROVE Has(o, u)' <=> Has(o, u) /\ u \notin D
      BY <2>1, <2>8, <3>1 DEF Has
    <3>. QED
      BY <2>10, <3>1
  <2>12. LoopInv'
    <3>1. ASSUME NEW o \in 1..Len(loop')
          PROVE  /\ loop'[o].at = "turn" <=> loop'[o].task # 0
                 /\ loop'[o].at = "ended" => loop'[o].queue = <<>>
                 /\ loop'[o].task \notin ToSet(loop'[o].queue) /\ 0 \notin ToSet(loop'[o].queue)
                 /\ Once(loop'[o].queue)
      <4>1. CASE o = l
        BY <2>1, EmptyQueue, <4>1 DEF TaskInv, LoopInv
      <4>2. CASE o # l
        BY <2>1, <4>2 DEF TaskInv, LoopInv
      <4>. QED
        BY <4>1, <4>2
    <3>. QED
      BY <3>1 DEF LoopInv, Once
  <2>13. /\ Len(task') = Len(task)
         /\ \A u \in 1..Len(task) \ D : task'[u] = task[u] /\ (u \in lost' <=> u \in lost)
         /\ \A u \in 1..Len(task) \intersect D : u \in lost' \/ task'[u] # "running"
    BY <2>3
  <2>14. \A d \in Callers : /\ call'[d].task = IF call[d].task \in D THEN 0 ELSE call[d].task
                            /\ call'[d].at \in {"idle", "evict"} <=> call'[d].task = 0
    BY <2>3, <2>9 DEF TaskInv, CarryInv
  <2>. HIDE DEF D
  <2>. QED
    BY <2>1, <2>6, <2>11, <2>12, <2>13, <2>14, TasksDropped
<1>14. CASE TeamDelete
  <2>1. /\ Len(loop') = Len(loop) /\ UNCHANGED <<task, lost>>
        /\ \A o \in 1..Len(loop) : /\ loop'[o].at = loop[o].at /\ loop'[o].task = loop[o].task
                                   /\ loop'[o].queue = loop[o].queue
    BY <1>14 DEF TeamDelete
  <2>2. \A d \in Callers :
          /\ call'[d].task = call[d].task
          /\ call'[d].at \in {"idle", "evict"} <=> call[d].at \in {"idle", "evict"}
    BY <1>14 DEF TeamDelete
  <2>. QED
    BY <2>1, <2>2, TasksKept
<1>15. ASSUME NEW m \in Members, DeleteStop(m) PROVE TaskInv'
  <2>1. Stopped(m, "deleted") /\ UNCHANGED <<call, task, lost>>
    BY <1>15 DEF DeleteStop
  <2>2. /\ Len(loop') = Len(loop)
        /\ \A o \in 1..Len(loop) : /\ loop'[o].at = loop[o].at /\ loop'[o].task = loop[o].task
                                   /\ loop'[o].queue = loop[o].queue
    BY <2>1, StopEffect
  <2>. QED
    BY <2>1, <2>2, TasksKept
<1>16. ASSUME NEW labels \in Batches, TeamCreate(labels) PROVE TaskInv'
  <2>1. /\ Len(loop') = Len(loop) /\ UNCHANGED <<task, lost>>
        /\ \A o \in 1..Len(loop) : /\ loop'[o].at = loop[o].at /\ loop'[o].task = loop[o].task
                                   /\ loop'[o].queue = loop[o].queue
    BY <1>16 DEF TeamCreate
  <2>2. \A d \in Callers :
          /\ call'[d].task = call[d].task
          /\ call'[d].at \in {"idle", "evict"} <=> call[d].at \in {"idle", "evict"}
    BY <1>16 DEF TeamCreate
  <2>. QED
    BY <2>1, <2>2, TasksKept
<1>17. CASE UNCHANGED memberVars
  <2>1. UNCHANGED <<call, loop, task, lost>>
    BY <1>17 DEF memberVars
  <2>. QED
    BY <2>1, TasksKept
<1>18. DOMAIN loop = 1..Len(loop)
  BY DEF MembersTyped
<1>. QED
  BY <1>1, <1>2, <1>3, <1>4, <1>5, <1>6, <1>7, <1>8, <1>9, <1>10,
     <1>11, <1>12, <1>13, <1>14, <1>15, <1>16, <1>17, <1>18
   DEF MembersNext, CallerStep

-----------------------------------------------------------------------------
(* What a call found, and the pool it leaves.                              *)

\* When the call in the lock returns no call is under way.
LEMMA NoneLeft ==
  ASSUME MembersTyped, CallInv, NEW c \in Callers, call[c].at # "idle", Return(c)
  PROVE  /\ \A d \in Callers : call'[d] = Resting
         /\ FoundInv' /\ VictimInv' /\ PoolInv'
<1>1. call'[c] = Resting /\ \A d \in Callers : d # c => call'[d] = call[d]
  BY ReturnEffect
<1>2. \A d \in Callers : d # c => call[d] = Resting
  BY DEF CallInv
<1>3. \A d \in Callers : call'[d] = Resting
  BY <1>1, <1>2
<1>. QED
  BY <1>3, RestingTyped DEF FoundInv, VictimInv, PoolInv

\* Steps of the loops do not touch what the calls found.
LEMMA FoundKept ==
  ASSUME FoundInv, Len(loop') = Len(loop), UNCHANGED <<call, members>>,
         \A l \in 1..Len(loop) :
           /\ loop'[l].name = loop[l].name /\ loop'[l].cancelled = loop[l].cancelled
           /\ loop[l].at = "ended" => loop'[l].at = "ended"
  PROVE  FoundInv'
BY DEF FoundInv

\* The sweep spares the member that its call is about to message, and nobody else but a TeamDelete stops it.
LEMMA FoundStep ==
  ASSUME MembersTyped, MapInv, CallInv, AuthInv, TaskInv, FoundInv, [MembersNext]_memberVars
  PROVE  FoundInv'
<1>1. ASSUME NEW c \in Callers, NEW m \in Members,
             NEW mode \in Modes \union {"inherit"}, NEW expired \in 0..Cardinality(Members),
             Enter(c, m, mode, expired)
      PROVE  FoundInv'
  <2>0. \A d \in Callers : d # c => call[d].found = 0
    BY <1>1, RestingTyped, SubAgentsAssumption DEF Enter, CallInv, Nobody
  <2>1. /\ UNCHANGED <<members, loop>> /\ \A d \in Callers : d # c => call'[d] = call[d]
        /\ call'[c].at = "evict" /\ call'[c].name = m /\ call'[c].found = members[m]
        /\ call'[c].victims = Victims(m, expired)
    BY <1>1, EnterEffect
  <2>2. m \notin Victims(m, expired)
    BY DEF Victims, Oldest
  <2>. QED
    BY <2>0, <2>1, <2>2 DEF FoundInv, MapInv
<1>2. ASSUME NEW c \in Callers, NEW m \in Members, Evict(c, m) PROVE FoundInv'
  <2>0. \A d \in Callers : d # c => call[d].found = 0
    BY <1>2, RestingTyped DEF Evict, CallInv
  <2>1. /\ Stopped(m, "reclaimed") /\ m \in call[c].victims /\ call[c].at = "evict"
        /\ \A d \in Callers : d # c => call'[d] = call[d]
        /\ call'[c].at = "evict" /\ call'[c].name = call[c].name /\ call'[c].found = call[c].found
        /\ call'[c].victims = call[c].victims \ {m}
    BY <1>2, EvictEffect
  <2>2. /\ members'[m] = 0 /\ \A o \in Members : o # m => members'[o] = members[o]
        /\ Len(loop') = Len(loop)
        /\ \A l \in 1..Len(loop) :
             /\ loop'[l].name = loop[l].name /\ loop'[l].at = loop[l].at
             /\ loop'[l].cancelled = IF l = members[m] THEN "reclaimed" ELSE loop[l].cancelled
    BY <2>1, StopEffect
  <2>3. call[c].name \in Members
    BY <2>1 DEF CallInv
  <2>4. ASSUME call[c].found # 0
        PROVE  /\ call[c].name # m /\ call[c].found # members[m] /\ call[c].found \in 1..Len(loop)
               /\ loop[call[c].found].name = call[c].name /\ loop[call[c].found].cancelled # "reclaimed"
               /\ loop[call[c].found].cancelled = "no" => members[call[c].name] = call[c].found
    BY <2>1, <2>4 DEF FoundInv, MapInv
  <2>. QED
    BY <2>0, <2>1, <2>2, <2>3, <2>4 DEF FoundInv
<1>3. ASSUME NEW c \in Callers, LookUp(c) PROVE FoundInv'
  <2>0. \A d \in Callers : d # c => call[d].found = 0
    BY <1>3, RestingTyped DEF LookUp, CallInv
  <2>1. /\ UNCHANGED <<members, loop>> /\ \A d \in Callers : d # c => call'[d] = call[d]
        /\ call[c].at = "evict" /\ call'[c].at = "send" /\ call'[c].tx = members[call[c].name]
        /\ call'[c].found = call[c].found /\ call'[c].name = call[c].name /\ call'[c].victims = call[c].victims
    BY <1>3, LookUpEffect
  <2>. QED
    BY <2>0, <2>1 DEF FoundInv
<1>4. ASSUME NEW c \in Callers, Deliver(c) PROVE FoundInv'
  <2>1. call[c].at # "idle" /\ Return(c)
    BY <1>4 DEF Deliver
  <2>. QED
    BY <2>1, NoneLeft
<1>5. ASSUME NEW c \in Callers, Missing(c) PROVE FoundInv'
  <2>0. \A d \in Callers : d # c => call[d].found = 0
    BY <1>5, RestingTyped DEF Missing, CallInv
  <2>1. /\ loop' = loop /\ \A d \in Callers : d # c => call'[d] = call[d]
        /\ call[c].at = "send" /\ ~Live(call[c].tx) /\ call'[c].at = "resolve"
        /\ call'[c].found = call[c].found /\ call'[c].name = call[c].name /\ call'[c].victims = call[c].victims
    BY <1>5, MissingEffect
  <2>2. DOMAIN loop = 1..Len(loop)
    BY DEF MembersTyped
  <2>. QED
    BY <2>0, <2>1, <2>2 DEF FoundInv, Live
<1>6. ASSUME NEW c \in Callers, Resolve(c) PROVE FoundInv'
  <2>0. \A d \in Callers : d # c => call[d].found = 0
    BY <1>6, RestingTyped DEF Resolve, CallInv
  <2>1. /\ UNCHANGED <<members, loop>> /\ \A d \in Callers : d # c => call'[d] = call[d]
        /\ call[c].at \in {"resolve", "grant", "build"} /\ call'[c].at \in {"resolve", "grant", "build"}
        /\ call'[c].found = call[c].found /\ call'[c].name = call[c].name /\ call'[c].victims = call[c].victims
    BY <1>6, ResolveEffect
  <2>. QED
    BY <2>0, <2>1 DEF FoundInv
<1>7. ASSUME NEW c \in Callers, Establish(c) PROVE FoundInv'
  <2>0. \A d \in Callers : d # c => call[d].found = 0
    BY <1>7, RestingTyped DEF Establish, CallInv
  <2>1. /\ UNCHANGED <<members, loop>> /\ \A d \in Callers : d # c => call'[d] = call[d]
        /\ call[c].at \in {"resolve", "grant", "build"} /\ call'[c].at \in {"resolve", "grant", "build"}
        /\ call'[c].found = call[c].found /\ call'[c].name = call[c].name /\ call'[c].victims = call[c].victims
    BY <1>7, EstablishEffect
  <2>. QED
    BY <2>0, <2>1 DEF FoundInv
<1>8. ASSUME NEW c \in Callers, BuildFails(c) PROVE FoundInv'
  <2>1. call[c].at # "idle" /\ Return(c)
    BY <1>8 DEF BuildFails
  <2>. QED
    BY <2>1, NoneLeft
<1>9. ASSUME NEW c \in Callers, Spawn(c) PROVE FoundInv'
  <2>1. call[c].at # "idle" /\ Return(c)
    BY <1>9 DEF Spawn
  <2>. QED
    BY <2>1, NoneLeft
<1>10. ASSUME NEW l \in 1..Len(loop), Take(l) PROVE FoundInv'
  <2>1. /\ Len(loop') = Len(loop) /\ UNCHANGED <<call, members>>
        /\ \A o \in 1..Len(loop) : o # l => loop'[o] = loop[o]
        /\ loop'[l].name = loop[l].name /\ loop'[l].cancelled = loop[l].cancelled
        /\ loop[l].at # "ended"
    BY <1>10, TakeEffect DEF Take
  <2>. QED
    BY <2>1, FoundKept
<1>11. ASSUME NEW l \in 1..Len(loop), EndTurn(l) PROVE FoundInv'
  <2>1. /\ Len(loop') = Len(loop) /\ UNCHANGED <<call, members>>
        /\ \A o \in 1..Len(loop) : o # l => loop'[o] = loop[o]
        /\ loop'[l].name = loop[l].name /\ loop'[l].cancelled = loop[l].cancelled
        /\ loop[l].at # "ended"
    BY <1>11, EndTurnEffect DEF EndTurn
  <2>. QED
    BY <2>1, FoundKept
<1>12. ASSUME NEW l \in 1..Len(loop), Exit(l) PROVE FoundInv'
  <2>1. /\ Len(loop') = Len(loop) /\ UNCHANGED <<call, members>>
        /\ \A o \in 1..Len(loop) : o # l => loop'[o] = loop[o]
        /\ loop'[l].name = loop[l].name /\ loop'[l].cancelled = loop[l].cancelled
        /\ loop'[l].at = "ended"
    BY <1>12, EndEffect DEF Exit
  <2>. QED
    BY <2>1, FoundKept
<1>13. ASSUME NEW l \in 1..Len(loop), Panic(l) PROVE FoundInv'
  <2>1. /\ Len(loop') = Len(loop) /\ UNCHANGED <<call, members>>
        /\ \A o \in 1..Len(loop) : o # l => loop'[o] = loop[o]
        /\ loop'[l].name = loop[l].name /\ loop'[l].cancelled = loop[l].cancelled
        /\ loop'[l].at = "ended"
    BY <1>13, EndEffect DEF Panic
  <2>. QED
    BY <2>1, FoundKept
<1>14. CASE TeamDelete
  <2>1. UNCHANGED <<call, members, loop>>
    BY <1>14 DEF TeamDelete
  <2>. QED
    BY <2>1, FoundKept
<1>15. ASSUME NEW m \in Members, DeleteStop(m) PROVE FoundInv'
  <2>1. Stopped(m, "deleted") /\ call' = call
    BY <1>15 DEF DeleteStop
  <2>2. /\ members'[m] = 0 /\ \A o \in Members : o # m => members'[o] = members[o]
        /\ Len(loop') = Len(loop)
        /\ \A l \in 1..Len(loop) :
             /\ loop'[l].name = loop[l].name /\ loop'[l].at = loop[l].at
             /\ loop'[l].cancelled = IF l = members[m] THEN "deleted" ELSE loop[l].cancelled
    BY <2>1, StopEffect
  <2>3. \A c \in Callers : call[c].at # "idle" => call[c].name \in Members
    BY DEF CallInv
  <2>. QED
    BY <2>1, <2>2, <2>3 DEF FoundInv
<1>16. ASSUME NEW labels \in Batches, TeamCreate(labels) PROVE FoundInv'
  <2>1. UNCHANGED <<call, members, loop>>
    BY <1>16 DEF TeamCreate
  <2>. QED
    BY <2>1, FoundKept
<1>17. CASE UNCHANGED memberVars
  <2>1. UNCHANGED <<call, members, loop>>
    BY <1>17 DEF memberVars
  <2>. QED
    BY <2>1, FoundKept
<1>18. DOMAIN loop = 1..Len(loop)
  BY DEF MembersTyped
<1>. QED
  BY <1>1, <1>2, <1>3, <1>4, <1>5, <1>6, <1>7, <1>8, <1>9, <1>10,
     <1>11, <1>12, <1>13, <1>14, <1>15, <1>16, <1>17, <1>18
   DEF MembersNext, CallerStep

\* Past the sweep a call has no victims left.
LEMMA VictimStep ==
  ASSUME MembersTyped, CallInv, AuthInv, VictimInv, [MembersNext]_memberVars
  PROVE  VictimInv'
<1>1. ASSUME NEW c \in Callers, NEW m \in Members,
             NEW mode \in Modes \union {"inherit"}, NEW expired \in 0..Cardinality(Members),
             Enter(c, m, mode, expired)
      PROVE  VictimInv'
  <2>1. /\ \A d \in Callers : d # c => call'[d] = call[d]
        /\ call'[c].at = "evict"
    BY <1>1, EnterEffect
  <2>. QED
    BY <2>1 DEF VictimInv
<1>2. ASSUME NEW c \in Callers, NEW m \in Members, Evict(c, m) PROVE VictimInv'
  <2>1. /\ \A d \in Callers : d # c => call'[d] = call[d]
        /\ call'[c].at = "evict"
    BY <1>2, EvictEffect
  <2>. QED
    BY <2>1 DEF VictimInv
<1>3. ASSUME NEW c \in Callers, LookUp(c) PROVE VictimInv'
  <2>1. /\ \A d \in Callers : d # c => call'[d] = call[d]
        /\ call[c].victims = {} /\ call'[c].victims = call[c].victims
    BY <1>3, LookUpEffect
  <2>. QED
    BY <2>1 DEF VictimInv
<1>4. ASSUME NEW c \in Callers, Deliver(c) PROVE VictimInv'
  <2>1. call[c].at # "idle" /\ Return(c)
    BY <1>4 DEF Deliver
  <2>. QED
    BY <2>1, NoneLeft
<1>5. ASSUME NEW c \in Callers, Missing(c) PROVE VictimInv'
  <2>1. /\ \A d \in Callers : d # c => call'[d] = call[d]
        /\ call[c].at # "evict" /\ call'[c].victims = call[c].victims
    BY <1>5, MissingEffect
  <2>. QED
    BY <2>1 DEF VictimInv
<1>6. ASSUME NEW c \in Callers, Resolve(c) PROVE VictimInv'
  <2>1. /\ \A d \in Callers : d # c => call'[d] = call[d]
        /\ call[c].at # "evict" /\ call'[c].victims = call[c].victims
    BY <1>6, ResolveEffect
  <2>. QED
    BY <2>1 DEF VictimInv
<1>7. ASSUME NEW c \in Callers, Establish(c) PROVE VictimInv'
  <2>1. /\ \A d \in Callers : d # c => call'[d] = call[d]
        /\ call[c].at # "evict" /\ call'[c].victims = call[c].victims
    BY <1>7, EstablishEffect
  <2>. QED
    BY <2>1 DEF VictimInv
<1>8. ASSUME NEW c \in Callers, BuildFails(c) PROVE VictimInv'
  <2>1. call[c].at # "idle" /\ Return(c)
    BY <1>8 DEF BuildFails
  <2>. QED
    BY <2>1, NoneLeft
<1>9. ASSUME NEW c \in Callers, Spawn(c) PROVE VictimInv'
  <2>1. call[c].at # "idle" /\ Return(c)
    BY <1>9 DEF Spawn
  <2>. QED
    BY <2>1, NoneLeft
<1>10. ASSUME NEW l \in 1..Len(loop), Take(l) PROVE VictimInv'
  <2>1. call' = call
    BY <1>10 DEF Take
  <2>. QED
    BY <2>1 DEF VictimInv
<1>11. ASSUME NEW l \in 1..Len(loop), EndTurn(l) PROVE VictimInv'
  <2>1. call' = call
    BY <1>11 DEF EndTurn
  <2>. QED
    BY <2>1 DEF VictimInv
<1>12. ASSUME NEW l \in 1..Len(loop), Exit(l) PROVE VictimInv'
  <2>1. call' = call
    BY <1>12 DEF Exit
  <2>. QED
    BY <2>1 DEF VictimInv
<1>13. ASSUME NEW l \in 1..Len(loop), Panic(l) PROVE VictimInv'
  <2>1. call' = call
    BY <1>13 DEF Panic
  <2>. QED
    BY <2>1 DEF VictimInv
<1>14. CASE TeamDelete
  <2>1. call' = call
    BY <1>14 DEF TeamDelete
  <2>. QED
    BY <2>1 DEF VictimInv
<1>15. ASSUME NEW m \in Members, DeleteStop(m) PROVE VictimInv'
  <2>1. call' = call
    BY <1>15 DEF DeleteStop
  <2>. QED
    BY <2>1 DEF VictimInv
<1>16. ASSUME NEW labels \in Batches, TeamCreate(labels) PROVE VictimInv'
  <2>1. call' = call
    BY <1>16 DEF TeamCreate
  <2>. QED
    BY <2>1 DEF VictimInv
<1>17. CASE UNCHANGED memberVars
  <2>1. call' = call
    BY <1>17 DEF memberVars
  <2>. QED
    BY <2>1 DEF VictimInv
<1>18. DOMAIN loop = 1..Len(loop)
  BY DEF MembersTyped
<1>. QED
  BY <1>1, <1>2, <1>3, <1>4, <1>5, <1>6, <1>7, <1>8, <1>9, <1>10,
     <1>11, <1>12, <1>13, <1>14, <1>15, <1>16, <1>17, <1>18
   DEF MembersNext, CallerStep

\* A set of naturals has a least element.
LEMMA Least ==
  ASSUME NEW T \in SUBSET Nat, T # {}
  PROVE  \E x \in T : \A y \in T : x <= y
<1> DEFINE Less == OpToRel(<, Nat)
<1>1. IsWellFoundedOn(Less, Nat)
  BY NatLessThanWellFounded
<1>2. \A x, y \in Nat : x < y => <<x, y>> \in Less
  BY DEF OpToRel
<1>. HIDE DEF Less
<1>3. PICK x \in T : \A y \in T : ~(<<y, x>> \in Less)
  BY <1>1, WFMin
<1>4. \A y \in T : ~(y < x)
  BY <1>2, <1>3
<1>. QED
  BY <1>4

\* The oldest n of a set of members are all of it, or at least n: members that went idle at the
\* same place in the order count together.
LEMMA OldestCount ==
  ASSUME MembersTyped, MapInv, NEW S \in SUBSET Present, NEW n \in Nat, Oldest(S, n) # S
  PROVE  Cardinality(Oldest(S, n)) >= n
<1> DEFINE idle(o) == loop[members[o]].idle
           O == Oldest(S, n)
           Before(x) == {o \in S : idle(o) < idle(x)}
<1>1. \A o \in S : idle(o) \in Nat
  <2>1. ASSUME NEW o \in S PROVE loop[members[o]] \in Loops
    <3>1. o \in Members /\ members[o] # 0
      BY DEF Present
    <3>2. members[o] \in 1..Len(loop)
      BY <3>1 DEF MapInv
    <3>. QED
      BY <3>2 DEF MembersTyped
  <2>. QED
    BY <2>1 DEF Loops
<1>2. O = {x \in S : Cardinality(Before(x)) < n}
  BY DEF Oldest
<1>3. IsFiniteSet(S)
  BY SubAgentsAssumption, FS_Subset DEF Present
<1>4. O \in SUBSET S /\ S \ O # {}
  BY <1>2
<1>. HIDE DEF idle, O
<1> DEFINE T == {idle(x) : x \in S \ O}
<1>5. T \in SUBSET Nat /\ T # {}
  BY <1>1, <1>4
<1>6. PICK i \in T : \A j \in T : i <= j
  BY <1>5, Least
<1>7. PICK x \in S \ O : i = idle(x)
  BY <1>6
<1>8. \A y \in S \ O : ~(idle(y) < idle(x))
  BY <1>1, <1>6, <1>7
<1>9. Before(x) \subseteq O
  BY <1>8
<1>10. ~(Cardinality(Before(x)) < n)
  BY <1>2, <1>7
<1>. HIDE DEF Before
<1>11. IsFiniteSet(O)
  BY <1>3, <1>4, FS_Subset
<1>12. IsFiniteSet(Before(x)) /\ Cardinality(Before(x)) <= Cardinality(O)
  BY <1>9, <1>11, FS_Subset
<1>13. Cardinality(Before(x)) \in Nat /\ Cardinality(O) \in Nat
  BY <1>11, <1>12, FS_CardinalityType
<1>14. Cardinality(O) >= n
  BY <1>10, <1>12, <1>13
<1>. QED
  BY <1>14 DEF O

\* There are finitely many members.
LEMMA PresentFinite == IsFiniteSet(Present) /\ Cardinality(Present) \in Nat
BY SubAgentsAssumption, FS_Subset, FS_CardinalityType DEF Present

\* The sweep leaves a pool within the cap, or only the name itself and the members in a turn.
LEMMA SweepBounds ==
  ASSUME MembersTyped, MapInv, NEW m \in Members, NEW expired
  PROVE  \/ Cardinality(Present \ Victims(m, expired)) <= Cap
         \/ (Present \ Victims(m, expired)) \ {m} \subseteq Present \ IdleLooking
<1> DEFINE S == IdleLooking \ {m}
           v == Victims(m, expired)
           O == Oldest(S, Excess)
<1>1. /\ S \in SUBSET Present /\ O \subseteq v /\ O \subseteq Present
  BY DEF IdleLooking, Victims, Oldest
<1>2. /\ Cardinality(Present) \in Nat /\ IsFiniteSet(Present) /\ Cap \in Nat /\ Excess \in Nat
      /\ Excess = IF Cardinality(Present) > Cap THEN Cardinality(Present) - Cap ELSE 0
  BY PresentFinite, SubAgentsAssumption DEF Cap, Excess
<1>3. CASE O = S
  BY <1>1, <1>3
<1>4. CASE O # S
  <2>1. Cardinality(O) >= Excess
    BY <1>1, <1>2, <1>4, OldestCount
  <2>. HIDE DEF S, v, O
  <2>2. /\ Cardinality(Present \ O) = Cardinality(Present) - Cardinality(Present \intersect O)
        /\ IsFiniteSet(Present \ O)
    BY <1>2, FS_Difference
  <2>3. Present \intersect O = O
    BY <1>1
  <2>4. IsFiniteSet(O) /\ Cardinality(O) \in Nat
    BY <1>1, <1>2, FS_Subset, FS_CardinalityType
  <2>5. Cardinality(Present \ O) <= Cap /\ Cardinality(Present \ O) \in Nat
    <3>1. PICK p : p = Cardinality(Present)
      OBVIOUS
    <3>2. PICK o : o = Cardinality(O)
      OBVIOUS
    <3>3. PICK d : d = Cardinality(Present \ O)
      OBVIOUS
    <3>4. d = p - o /\ d \in Nat
      BY <2>2, <2>3, <3>1, <3>2, <3>3, FS_CardinalityType
    <3>5. /\ p \in Nat /\ o \in Nat /\ Cap \in Nat /\ o >= Excess
          /\ Excess = IF p > Cap THEN p - Cap ELSE 0
      BY <1>2, <2>1, <2>4, <3>1, <3>2
    <3>6. d <= Cap
      BY <3>4, <3>5
    <3>. QED
      BY <3>3, <3>4, <3>6
  <2>6. Present \ v \in SUBSET (Present \ O)
    BY <1>1
  <2>7. Cardinality(Present \ v) <= Cardinality(Present \ O) /\ Cardinality(Present \ v) \in Nat
    BY <2>2, <2>6, FS_Subset, FS_CardinalityType
  <2>8. Cardinality(Present \ v) <= Cap
    BY <1>2, <2>5, <2>7
  <2>. QED
    BY <2>8 DEF v
<1>. QED
  BY <1>3, <1>4

\* A pool that only shrinks stays within what the sweep left.
LEMMA PoolKept ==
  ASSUME PoolInv, Present' \subseteq Present,
         \A c \in Callers : call'[c].at # "idle" =>
           /\ call[c].at # "idle" /\ call'[c].victims = call[c].victims
           /\ call'[c].name = call[c].name /\ call'[c].busy = call[c].busy
  PROVE  PoolInv'
<1>1. SUFFICES ASSUME NEW c \in Callers, call'[c].at # "idle"
               PROVE  \/ Cardinality(Present' \ call'[c].victims) <= Cap
                      \/ (Present' \ call'[c].victims) \ {call'[c].name} \subseteq call'[c].busy
  BY DEF PoolInv, Cap
<1>2. /\ call'[c].victims = call[c].victims /\ call'[c].name = call[c].name /\ call'[c].busy = call[c].busy
      /\ call[c].at # "idle"
  BY <1>1
<1> DEFINE P == Present \ call[c].victims
           Q == Present' \ call[c].victims
<1>3. Cardinality(P) <= Cap \/ P \ {call[c].name} \subseteq call[c].busy
  BY <1>2 DEF PoolInv
<1>4. Q \in SUBSET P
  OBVIOUS
<1>5. IsFiniteSet(P)
  BY PresentFinite, FS_Subset
<1>. HIDE DEF P, Q
<1>6. Cap \in Nat
  BY SubAgentsAssumption DEF Cap
<1>7. /\ Cardinality(Q) <= Cardinality(P) /\ Cardinality(P) \in Nat /\ Cardinality(Q) \in Nat
  BY <1>4, <1>5, FS_Subset, FS_CardinalityType
<1>8. Cardinality(Q) <= Cap \/ Q \ {call[c].name} \subseteq call[c].busy
  BY <1>3, <1>4, <1>6, <1>7
<1>. QED
  BY <1>2, <1>8 DEF Q

\* Until the call returns its sweep bounds the pool.
LEMMA PoolStep ==
  ASSUME MembersTyped, MapInv, CallInv, AuthInv, PoolInv, [MembersNext]_memberVars
  PROVE  PoolInv'
<1>1. ASSUME NEW c \in Callers, NEW m \in Members,
             NEW mode \in Modes \union {"inherit"}, NEW expired \in 0..Cardinality(Members),
             Enter(c, m, mode, expired)
      PROVE  PoolInv'
  <2>1. /\ \A d \in Callers : d # c => call'[d] = call[d]
        /\ call'[c].name = m /\ call'[c].busy = Present \ IdleLooking
        /\ call'[c].victims = Victims(m, expired) /\ members' = members
    BY <1>1, EnterEffect
  <2>2. \A d \in Callers : d # c => call[d].at = "idle"
    BY <1>1, SubAgentsAssumption DEF Enter, CallInv, Nobody
  <2>3. Present' = Present
    BY <2>1 DEF Present
  <2>. QED
    BY <2>1, <2>2, <2>3, SweepBounds DEF PoolInv
<1>2. ASSUME NEW c \in Callers, NEW m \in Members, Evict(c, m) PROVE PoolInv'
  <2>1. /\ \A d \in Callers : d # c => call'[d] = call[d]
        /\ call'[c].name = call[c].name /\ call'[c].busy = call[c].busy /\ call[c].at = "evict"
        /\ call'[c].victims = call[c].victims \ {m} /\ Stopped(m, "reclaimed") /\ m \in call[c].victims
    BY <1>2, EvictEffect
  <2>2. \A d \in Callers : d # c => call[d].at = "idle"
    BY <1>2 DEF Evict, CallInv
  <2>3. members'[m] = 0 /\ \A o \in Members : o # m => members'[o] = members[o]
    BY <2>1, StopEffect
  <2>4. Present' = Present \ {m}
    BY <2>3 DEF Present
  <2>5. Present' \ call'[c].victims = Present \ call[c].victims
    BY <2>1, <2>4
  <2>. QED
    BY <2>1, <2>2, <2>5 DEF PoolInv
<1>3. ASSUME NEW c \in Callers, LookUp(c) PROVE PoolInv'
  <2>1. /\ \A d \in Callers : d # c => call'[d] = call[d]
        /\ call[c].at # "idle" /\ call'[c].victims = call[c].victims
        /\ call'[c].name = call[c].name /\ call'[c].busy = call[c].busy
    BY <1>3, LookUpEffect
  <2>2. members' = members
    BY <1>3, LookUpEffect
  <2>3. Present' \subseteq Present
    BY <2>2 DEF Present
  <2>. QED
    BY <2>1, <2>3, PoolKept
<1>4. ASSUME NEW c \in Callers, Deliver(c) PROVE PoolInv'
  <2>1. call[c].at # "idle" /\ Return(c)
    BY <1>4 DEF Deliver
  <2>. QED
    BY <2>1, NoneLeft
<1>5. ASSUME NEW c \in Callers, Missing(c) PROVE PoolInv'
  <2>1. /\ \A d \in Callers : d # c => call'[d] = call[d]
        /\ call[c].at # "idle" /\ call'[c].victims = call[c].victims
        /\ call'[c].name = call[c].name /\ call'[c].busy = call[c].busy
    BY <1>5, MissingEffect
  <2>2. /\ call[c].at = "send" /\ members'[call[c].name] \in {0, members[call[c].name]}
        /\ \A m \in Members : m # call[c].name => members'[m] = members[m]
    BY <1>5, MissingEffect
  <2>3. Present' \subseteq Present
    BY <2>2 DEF Present
  <2>. QED
    BY <2>1, <2>3, PoolKept
<1>6. ASSUME NEW c \in Callers, Resolve(c) PROVE PoolInv'
  <2>1. /\ \A d \in Callers : d # c => call'[d] = call[d]
        /\ call[c].at # "idle" /\ call'[c].victims = call[c].victims
        /\ call'[c].name = call[c].name /\ call'[c].busy = call[c].busy
    BY <1>6, ResolveEffect
  <2>2. members' = members
    BY <1>6, ResolveEffect
  <2>3. Present' \subseteq Present
    BY <2>2 DEF Present
  <2>. QED
    BY <2>1, <2>3, PoolKept
<1>7. ASSUME NEW c \in Callers, Establish(c) PROVE PoolInv'
  <2>1. /\ \A d \in Callers : d # c => call'[d] = call[d]
        /\ call[c].at # "idle" /\ call'[c].victims = call[c].victims
        /\ call'[c].name = call[c].name /\ call'[c].busy = call[c].busy
    BY <1>7, EstablishEffect
  <2>2. members' = members
    BY <1>7, EstablishEffect
  <2>3. Present' \subseteq Present
    BY <2>2 DEF Present
  <2>. QED
    BY <2>1, <2>3, PoolKept
<1>8. ASSUME NEW c \in Callers, BuildFails(c) PROVE PoolInv'
  <2>1. call[c].at # "idle" /\ Return(c)
    BY <1>8 DEF BuildFails
  <2>. QED
    BY <2>1, NoneLeft
<1>9. ASSUME NEW c \in Callers, Spawn(c) PROVE PoolInv'
  <2>1. call[c].at # "idle" /\ Return(c)
    BY <1>9 DEF Spawn
  <2>. QED
    BY <2>1, NoneLeft
<1>10. ASSUME NEW l \in 1..Len(loop), Take(l) PROVE PoolInv'
  <2>1. UNCHANGED <<call, members>>
    BY <1>10 DEF Take
  <2>2. Present' = Present
    BY <2>1 DEF Present
  <2>. QED
    BY <2>1, <2>2, PoolKept
<1>11. ASSUME NEW l \in 1..Len(loop), EndTurn(l) PROVE PoolInv'
  <2>1. UNCHANGED <<call, members>>
    BY <1>11 DEF EndTurn
  <2>2. Present' = Present
    BY <2>1 DEF Present
  <2>. QED
    BY <2>1, <2>2, PoolKept
<1>12. ASSUME NEW l \in 1..Len(loop), Exit(l) PROVE PoolInv'
  <2>1. UNCHANGED <<call, members>>
    BY <1>12 DEF Exit
  <2>2. Present' = Present
    BY <2>1 DEF Present
  <2>. QED
    BY <2>1, <2>2, PoolKept
<1>13. ASSUME NEW l \in 1..Len(loop), Panic(l) PROVE PoolInv'
  <2>1. UNCHANGED <<call, members>>
    BY <1>13 DEF Panic
  <2>2. Present' = Present
    BY <2>1 DEF Present
  <2>. QED
    BY <2>1, <2>2, PoolKept
<1>14. CASE TeamDelete
  <2>1. UNCHANGED <<call, members>>
    BY <1>14 DEF TeamDelete
  <2>2. Present' = Present
    BY <2>1 DEF Present
  <2>. QED
    BY <2>1, <2>2, PoolKept
<1>15. ASSUME NEW m \in Members, DeleteStop(m) PROVE PoolInv'
  <2>1. call' = call /\ Stopped(m, "deleted")
    BY <1>15 DEF DeleteStop
  <2>2. members'[m] = 0 /\ \A o \in Members : o # m => members'[o] = members[o]
    BY <2>1, StopEffect
  <2>3. Present' \subseteq Present
    BY <2>2 DEF Present
  <2>. QED
    BY <2>1, <2>3, PoolKept
<1>16. ASSUME NEW labels \in Batches, TeamCreate(labels) PROVE PoolInv'
  <2>1. UNCHANGED <<call, members>>
    BY <1>16 DEF TeamCreate
  <2>2. Present' = Present
    BY <2>1 DEF Present
  <2>. QED
    BY <2>1, <2>2, PoolKept
<1>17. CASE UNCHANGED memberVars
  <2>1. UNCHANGED <<call, members>>
    BY <1>17 DEF memberVars
  <2>2. Present' = Present
    BY <2>1 DEF Present
  <2>. QED
    BY <2>1, <2>2, PoolKept
<1>18. DOMAIN loop = 1..Len(loop)
  BY DEF MembersTyped
<1>. QED
  BY <1>1, <1>2, <1>3, <1>4, <1>5, <1>6, <1>7, <1>8, <1>9, <1>10,
     <1>11, <1>12, <1>13, <1>14, <1>15, <1>16, <1>17, <1>18
   DEF MembersNext, CallerStep

\* At first nobody calls, and there is no member and no task.
LEMMA SubAgentsInit == MembersInit => SubAgentsInv
<1>. SUFFICES ASSUME MembersInit PROVE SubAgentsInv
  OBVIOUS
<1>1. \A c \in Callers : call[c] = Resting
  BY DEF MembersInit
<1>2. /\ Len(loop) = 0 /\ Len(task) = 0 /\ loop = <<>> /\ task = <<>> /\ lock = Nobody
      /\ 1..Len(loop) = {} /\ 1..Len(task) = {}
      /\ \A m \in Members : members[m] = 0
  BY DEF MembersInit
<1>3. MembersTyped
  <2>1. loop \in Seq(Loops) /\ task \in Seq({"running", "done"}) /\ lost \subseteq 1..Len(task)
    BY DEF MembersInit
  <2>2. call \in [Callers -> Calls]
    BY RestingTyped DEF MembersInit
  <2>. QED
    BY <2>1, <2>2 DEF MembersInit, MembersTyped, NoEntry
<1>4. MapInv
  BY <1>2 DEF MapInv
<1>5. CallInv
  BY <1>1, <1>2, RestingTyped, SubAgentsAssumption DEF CallInv, Nobody
<1>6. AuthInv
  BY <1>1, <1>2, RestingTyped DEF AuthInv, MembersInit
<1>7. TaskInv
  BY <1>1, <1>2, RestingTyped DEF TaskInv, CarryInv, LoopInv, HoldInv, HeldInv
<1>8. FoundInv /\ VictimInv /\ PoolInv
  BY <1>1, RestingTyped DEF FoundInv, VictimInv, PoolInv
<1>. QED
  BY <1>3, <1>4, <1>5, <1>6, <1>7, <1>8 DEF SubAgentsInv

\* The inductive invariant of the persistent members: the lock serialises the calls, the map leads to
\* the loops that run, a task is in one place, a sweep spares the member it is about to message.
THEOREM SubAgentsInvariant == MembersSpec => []SubAgentsInv
<1>1. SubAgentsInv /\ [MembersNext]_memberVars => SubAgentsInv'
  BY MembersTypeStep, MapStep, CallStep, AuthStep, TaskStep, FoundStep, VictimStep, PoolStep DEF SubAgentsInv
<1>. QED
  BY <1>1, SubAgentsInit, PTL DEF MembersSpec

\* Every loop that runs and was not stopped is the one its name leads to, and the members spawned
\* without a mode of their own share the grant on record (team_spawn_lock, set_team_permission_mode_if_absent).
THEOREM MembersAreReachable == MembersSpec => []MembersInv
<1>1. SubAgentsInv => MembersInv
  <2>. SUFFICES ASSUME SubAgentsInv PROVE MembersInv
    OBVIOUS
  <2>0. MembersTyped /\ MapInv /\ CallInv /\ AuthInv /\ TaskInv
    BY DEF SubAgentsInv
  <2>1. /\ DOMAIN loop = 1..Len(loop) /\ DOMAIN task = 1..Len(task) /\ Len(loop) \in Nat
    BY <2>0 DEF MembersTyped
  <2>2. NoOrphan
    BY <2>0, <2>1 DEF MapInv, NoOrphan, Live
  <2>3. OneAuthorization
    BY <2>0, <2>1 DEF AuthInv, OneAuthorization, Live
  <2>4. \A c \in Callers : call[c].at \in {"idle", "evict", "send", "resolve", "grant", "build"}
    <3>1. \A c \in Callers : call[c] \in Calls
      BY <2>0 DEF MembersTyped
    <3>. QED
      BY <3>1 DEF Calls
  <2>5. members \in [Members -> 0..Len(loop)]
    <3>1. members \in [Members -> Nat] /\ \A m \in Members : members[m] \in 0..Len(loop)
      BY <2>0, <2>1 DEF MembersTyped, MapInv
    <3>. QED
      BY <3>1
  <2>6. \A l \in DOMAIN loop :
          /\ loop[l].at \in {"wait", "turn", "ended"} /\ loop[l].cancelled \in {"no", "reclaimed", "deleted"}
          /\ loop[l].name \in Members /\ loop[l].mode \in Modes \union {"plan"}
          /\ loop[l].at = "turn" => loop[l].task \in DOMAIN task
    <3>1. \A l \in DOMAIN loop : loop[l] \in Loops
      BY <2>0, <2>1 DEF MembersTyped
    <3>2. \A l \in DOMAIN loop : loop[l].at = "turn" => loop[l].task \in DOMAIN task
      BY <2>0, <2>1, LoopTyped
    <3>. QED
      BY <3>1, <3>2 DEF Loops
  <2>7. /\ \A t \in DOMAIN task : task[t] \in {"running", "done"}
        /\ lost \subseteq DOMAIN task /\ deleting \subseteq Members /\ lock \in Callers \union {Nobody}
        /\ reg.members \subseteq Members /\ reg.grant \in Modes \union {"plan", "inherit"}
    BY <2>0, <2>1 DEF MembersTyped
  <2>. QED
    BY <2>2, <2>3, <2>4, <2>5, <2>6, <2>7 DEF MembersInv, MembersTypeOK
<1>. QED
  BY <1>1, SubAgentsInvariant, PTL

\* Nothing is lost in silence: a task that runs is with exactly one call or member, unless its member
\* was stopped or crashed with it or was never built.
THEOREM TasksHeld == MembersSpec => []TasksAreHeld
<1>1. SubAgentsInv => TasksAreHeld
  <2>. SUFFICES ASSUME SubAgentsInv, NEW t \in DOMAIN task
                PROVE  Held(t) = IF task[t] = "running" /\ t \notin lost THEN 1 ELSE 0
    BY DEF TasksAreHeld
  <2>0. MembersTyped /\ CallInv /\ CarryInv /\ LoopInv /\ HoldInv /\ HeldInv
    BY DEF SubAgentsInv, TaskInv
  <2>1. t \in Nat \ {0} /\ t \in 1..Len(task) /\ DOMAIN loop = 1..Len(loop)
    BY <2>0 DEF MembersTyped
  <2> DEFINE C == {c \in Callers : call[c].task = t}
             L == {l \in DOMAIN loop : Live(l) /\ (loop[l].task = t \/ t \in ToSet(loop[l].queue))}
  <2>2. Held(t) = Cardinality(C) + Cardinality(L)
    BY DEF Held, Holders
  <2>3. \A l : l \in L <=> l \in 1..Len(loop) /\ Has(l, t)
    BY <2>0, <2>1, EmptyQueue DEF Has, Live, LoopInv
  <2>4. \A c \in C : task[t] = "running" /\ t \notin lost /\ \A l : l \notin L
    BY <2>0, <2>1, <2>3 DEF CarryInv
  <2>5. \A l \in L : task[t] = "running" /\ t \notin lost /\ \A o \in L : o = l
    BY <2>0, <2>1, <2>3 DEF HoldInv
  <2>6. \A c, d \in C : c = d
    BY <2>0, <2>1 DEF CarryInv, CallInv
  <2>7. task[t] = "running" /\ t \notin lost => C # {} \/ L # {}
    BY <2>0, <2>1, <2>3 DEF HeldInv
  <2>. HIDE DEF C, L
  <2>8. CASE C # {}
    <3>1. PICK c : C = {c}
      BY <2>6, <2>8
    <3>2. L = {}
      BY <2>4, <3>1
    <3>3. Cardinality(C) = 1 /\ Cardinality(L) = 0
      BY <3>1, <3>2, FS_Singleton, FS_EmptySet
    <3>. QED
      BY <2>2, <2>4, <3>1, <3>3
  <2>9. CASE C = {} /\ L # {}
    <3>1. PICK l : L = {l}
      BY <2>5, <2>9
    <3>2. Cardinality(C) = 0 /\ Cardinality(L) = 1
      BY <2>9, <3>1, FS_Singleton, FS_EmptySet
    <3>. QED
      BY <2>2, <2>5, <3>1, <3>2
  <2>10. CASE C = {} /\ L = {}
    <3>1. Cardinality(C) = 0 /\ Cardinality(L) = 0
      BY <2>10, FS_EmptySet
    <3>. QED
      BY <2>2, <2>7, <2>10, <3>1
  <2>. QED
    BY <2>8, <2>9, <2>10
<1>. QED
  BY <1>1, SubAgentsInvariant, PTL

\* A member that was there when a call swept the pool is only replaced if a TeamDelete stopped it or
\* it crashed (reclaim_idle_team_members spares the protected name).
THEOREM ConversationsAreKept == MembersSpec => KeepsConversation
<1>1. ASSUME SubAgentsInv, NEW c \in Callers, Spawn(c)
      PROVE  LET found == call[c].found
             IN  \/ found = 0
                 \/ loop[found].cancelled = "deleted"
                 \/ ~Live(found) /\ loop[found].cancelled = "no"
  <2>1. call[c].at = "build" /\ FoundInv /\ MembersTyped
    BY <1>1 DEF Spawn, SubAgentsInv
  <2>2. ASSUME NEW f \in 1..Len(loop)
        PROVE  loop[f].cancelled \in {"no", "reclaimed", "deleted"}
    <3>1. loop[f] \in Loops
      BY <2>1 DEF MembersTyped
    <3>. QED
      BY <3>1 DEF Loops
  <2>. QED
    BY <2>1, <2>2 DEF FoundInv, Live
<1>2. SubAgentsInv => [\A c \in Callers : Spawn(c) =>
        LET found == call[c].found
        IN  \/ found = 0
            \/ loop[found].cancelled = "deleted"
            \/ ~Live(found) /\ loop[found].cancelled = "no"]_memberVars
  BY <1>1
<1>. QED
  BY <1>2, SubAgentsInvariant, PTL DEF MembersSpec, KeepsConversation

\* A spawn leaves at most one member more than the cap, unless all the others were in a turn when the
\* call swept the pool (reclaim_idle_team_members: "just enough to get back under the cap").
THEOREM PoolIsBounded == MembersSpec => PoolBounded
<1>1. ASSUME SubAgentsInv, NEW c \in Callers, Spawn(c)
      PROVE  \/ Cardinality(Present') <= Cap + 1
             \/ Present' \ {call[c].name} \subseteq call[c].busy
  <2>0. MembersTyped /\ CallInv /\ AuthInv /\ VictimInv /\ PoolInv
    BY <1>1 DEF SubAgentsInv
  <2>1. call[c].at = "build" /\ call[c].name \in Members /\ call[c].victims = {}
    BY <1>1, <2>0 DEF Spawn, CallInv, VictimInv
  <2>2. PICK n : n = call[c].name
    OBVIOUS
  <2>3. /\ members'[n] = Len(loop) + 1 /\ Len(loop) + 1 # 0 /\ n \in Members
        /\ \A m \in Members : m # n => members'[m] = members[m]
    BY <1>1, <2>0, <2>1, <2>2, SpawnEffect DEF MembersTyped
  <2>4. Present' = Present \union {n}
    BY <2>3 DEF Present
  <2>5. Cardinality(Present) <= Cap \/ Present \ {n} \subseteq call[c].busy
    <3>1. Present \ call[c].victims = Present
      BY <2>1
    <3>. QED
      BY <2>0, <2>1, <2>2, <3>1 DEF PoolInv
  <2>6. Cap \in Nat /\ Cardinality(Present) \in Nat
    BY PresentFinite, SubAgentsAssumption DEF Cap
  <2>7. Cardinality(Present \union {n}) = IF n \in Present THEN Cardinality(Present) ELSE Cardinality(Present) + 1
    BY PresentFinite, FS_AddElement
  <2>8. CASE Cardinality(Present) <= Cap
    BY <2>4, <2>6, <2>7, <2>8
  <2>9. CASE Present \ {n} \subseteq call[c].busy
    BY <2>2, <2>4, <2>9
  <2>. QED
    BY <2>5, <2>8, <2>9
<1>2. SubAgentsInv => [\A c \in Callers : Spawn(c) =>
        \/ Cardinality(Present') <= Cap + 1
        \/ Present' \ {call[c].name} \subseteq call[c].busy]_memberVars
  BY <1>1
<1>. QED
  BY <1>2, SubAgentsInvariant, PTL DEF MembersSpec, PoolBounded
=============================================================================

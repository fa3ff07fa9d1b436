--------------------------- MODULE SessionBuffer ---------------------------
(***************************************************************************)
(* SessionManager: the conversation in memory, the cursor up to which it   *)
(* has been written, and the turn loop's calls on it.  Each call is given  *)
(* as its effect on the buffer; the modules that EXTEND this one say what  *)
(* the store does (Transcript: what it promises; JsonlTranscript: lines).  *)
(*                                                                         *)
(* A message is its id, which is also the time it was pushed, who it came  *)
(* from, and whether the body of a tool result has been blanked.  The      *)
(* roles persist() skips never occur in a session and are left out.        *)
(***************************************************************************)
EXTENDS Naturals, Sequences

CONSTANTS
  MaxClock,    \* messages ever made
  MaxFaults,   \* writes that fail
  MaxFresh     \* messages one compaction puts in front of what it keeps

ASSUME BufferAssumption == MaxClock \in Nat /\ MaxFaults \in Nat /\ MaxFresh \in Nat

VARIABLES
  mem,       \* messages
  stamps,    \* message_timestamps
  cursor,    \* persisted_up_to
  notes,     \* indices of unwritten messages noted as the user's
  mode,      \* where the agent is
  clock,     \* ids given out
  faults,    \* writes that failed
  unlucky,   \* history: messages unwritten when a persist failed
  floor,     \* history: clock at the last /clear
  lost       \* history: a marker or a load failed, and no other followed it

bufferVars == <<mem, stamps, cursor, notes, mode, clock, faults, unlucky, floor, lost>>

Sources == {"user", "tool", "engine"}
Message == [id : Nat, by : Sources, cleared : BOOLEAN]
Origins == {"user", "tool", "injected", "none"}

\* "idle": between turns; "turn": in one; then the persist calls of
\* finish_turn, of the top of the loop and of the end of a step; "aging" and
\* "warned": compact_if_needed; "model": a call is in flight; "down": no process.
Modes == {"idle", "turn", "finish", "top", "step", "aging", "warned", "model", "down"}

BufferTypeOK ==
  /\ mem \in Seq(Message) /\ stamps \in Seq(Nat)
  /\ cursor \in 0..Len(mem)
  /\ notes \subseteq 1..Len(mem)
  /\ mode \in Modes
  /\ clock \in Nat /\ faults \in Nat /\ floor \in Nat
  /\ unlucky \subseteq Nat
  /\ lost \in BOOLEAN

BufferInit ==
  /\ mem = <<>> /\ stamps = <<>> /\ cursor = 0 /\ notes = {}
  /\ mode = "idle" /\ clock = 0 /\ faults = 0
  /\ unlucky = {} /\ floor = 0 /\ lost = FALSE

Goto(m) == mode' = m
MessageOf(o) == [id |-> clock + 1, by |-> o, cleared |-> FALSE]

BeginTurn ==
  /\ mode = "idle" /\ Goto("turn")
  /\ UNCHANGED <<mem, stamps, cursor, notes, clock, faults, unlucky, floor, lost>>

\* push_message, push_message_from, push_reply: only what the user sent is
\* noted as the user's.
Push(o) ==
  /\ mode = "turn" /\ clock < MaxClock
  /\ mem' = Append(mem, MessageOf(o))
  /\ stamps' = Append(stamps, clock + 1)
  /\ notes' = IF o = "user" THEN notes \cup {Len(mem) + 1} ELSE notes
  /\ clock' = clock + 1
  /\ UNCHANGED <<cursor, mode, faults, unlucky, floor, lost>>

-----------------------------------------------------------------------------
(* persist(), one line at a time; it stops at the first that fails.        *)

PersistCalls == {"finish", "top", "step"}

BeginPersist(p) ==
  /\ mode = "turn" /\ Goto(p)
  /\ UNCHANGED <<mem, stamps, cursor, notes, clock, faults, unlucky, floor, lost>>

AfterPersist ==
  IF mode = "finish" THEN "idle" ELSE IF mode = "top" THEN "aging" ELSE "turn"

\* The note, or else what the shape of an unmarked message tells.
OriginOfNext ==
  IF cursor + 1 \in notes THEN "user"
  ELSE IF mem[cursor + 1].by = "tool" THEN "tool" ELSE "injected"

NextLine == [kind |-> "message", view |-> <<mem[cursor + 1]>>, origin |-> OriginOfNext]

Persisting == mode \in PersistCalls /\ cursor < Len(mem)

LineWritten ==
  /\ Persisting
  /\ notes' = notes \ {cursor + 1}
  /\ cursor' = cursor + 1
  /\ UNCHANGED <<mem, stamps, mode, clock, faults, unlucky, floor, lost>>

\* Every caller logs a warning and goes on.
LineFailed ==
  /\ Persisting /\ faults < MaxFaults
  /\ faults' = faults + 1
  /\ unlucky' = unlucky \cup {mem[i].id : i \in (cursor + 1)..Len(mem)}
  /\ Goto(AfterPersist)
  /\ UNCHANGED <<mem, stamps, cursor, notes, clock, floor, lost>>

PersistDone ==
  /\ mode \in PersistCalls /\ cursor >= Len(mem)
  /\ Goto(AfterPersist)
  /\ UNCHANGED <<mem, stamps, cursor, notes, clock, faults, unlucky, floor, lost>>

-----------------------------------------------------------------------------
(* Compaction.                                                             *)

Blank(m) == IF m.by = "tool" THEN [m EXCEPT !.cleared = TRUE] ELSE m

\* Mutant: results are blanked before the step is persisted.
AgeBeforePersist(i) ==
  /\ mode \in {"turn", "aging"}
  /\ mem[i].by = "tool" /\ ~mem[i].cleared
  /\ mem' = [mem EXCEPT ![i] = Blank(@)]
  /\ UNCHANGED <<stamps, cursor, notes, mode, clock, faults, unlucky, floor, lost>>

\* The aging passes, the tool-result budget and the reactive pass: blank the
\* body of an old result where it stands, in memory only.
Age(i) ==
  /\ mode = "aging"
  /\ mem[i].by = "tool" /\ ~mem[i].cleared
  /\ mem' = [mem EXCEPT ![i] = Blank(@)]
  /\ UNCHANGED <<stamps, cursor, notes, mode, clock, faults, unlucky, floor, lost>>

\* The context warning, pushed between the passes and the threshold.
Warn ==
  /\ mode = "aging" /\ clock < MaxClock
  /\ mem' = Append(mem, MessageOf("engine"))
  /\ stamps' = Append(stamps, clock + 1)
  /\ clock' = clock + 1
  /\ Goto("warned")
  /\ UNCHANGED <<cursor, notes, faults, unlucky, floor, lost>>

\* The conversation is below the threshold.
AgingDone ==
  /\ mode \in {"aging", "warned"} /\ Goto("model")
  /\ UNCHANGED <<mem, stamps, cursor, notes, clock, faults, unlucky, floor, lost>>

ModelDone ==
  /\ mode = "model" /\ Goto("turn")
  /\ UNCHANGED <<mem, stamps, cursor, notes, clock, faults, unlucky, floor, lost>>

Fresh(n) == [i \in 1..n |-> [id |-> clock + i, by |-> "engine", cleared |-> FALSE]]

(***************************************************************************)
(* What a compaction may leave: n new messages (a summary, a boundary,     *)
(* recovered context), then either the latest messages (snip, collapse,    *)
(* summary) or all of them with old results blanked (micro-compact).  The  *)
(* newest round is always kept.                                            *)
(***************************************************************************)
Compacted(n) ==
  {Fresh(n) \o SubSeq(mem, k + 1, Len(mem)) : k \in 0..(Len(mem) - 1)} \cup
  {Fresh(n) \o [i \in 1..Len(mem) |-> IF i <= j THEN Blank(mem[i]) ELSE mem[i]] :
     j \in 1..(Len(mem) - 1)}

Marker(new) == [kind |-> "compact", view |-> new, origin |-> "none"]

Truncated(s, n) == SubSeq(s, 1, IF n < Len(s) THEN n ELSE Len(s))

\* Mutant: the cursor moves to the end whatever became of the marker.
ReplaceIgnoresFailure(new, ok) ==
  /\ ok \/ faults < MaxFaults
  /\ mem' = new
  /\ notes' = {}
  /\ cursor' = Len(new)
  /\ faults' = IF ok THEN faults ELSE faults + 1
  /\ lost' = ~ok
  /\ UNCHANGED unlucky

\* Mutant: the notes of the old list survive.
ReplaceKeepsNotes(new, ok) ==
  /\ ok \/ faults < MaxFaults
  /\ mem' = new
  /\ cursor' = IF ok THEN Len(new) ELSE 0
  /\ faults' = IF ok THEN faults ELSE faults + 1
  /\ lost' = ~ok
  /\ UNCHANGED <<notes, unlucky>>

\* replace_messages_after_compact: the list is swapped first, and a marker
\* that cannot be written sends the cursor back to the start.
Replace(new, ok) ==
  /\ ok \/ faults < MaxFaults
  /\ mem' = new
  /\ notes' = {}
  /\ cursor' = IF ok THEN Len(new) ELSE 0
  /\ faults' = IF ok THEN faults ELSE faults + 1
  /\ lost' = ~ok
  /\ UNCHANGED unlucky

\* run_compaction: asked for by the token budget, or by /compact between
\* turns, which then finishes like any local command.
Compact(new, n, ok) ==
  /\ mode \in {"aging", "warned", "idle"} /\ clock + n <= MaxClock
  /\ mode = "idle" => new # mem
  /\ Replace(new, ok)
  /\ stamps' = Truncated(stamps, Len(new))
  /\ clock' = clock + n
  /\ Goto(IF mode = "idle" THEN "finish" ELSE "model")
  /\ UNCHANGED floor

\* The model refused the prompt as too long: compact, and retry the call once.
CompactAndRetry(new, n, ok) ==
  /\ mode = "model" /\ clock + n <= MaxClock /\ Len(new) < Len(mem)
  /\ Replace(new, ok)
  /\ clock' = clock + n
  /\ Goto("turn")
  /\ UNCHANGED <<stamps, floor>>

\* /clear, a compaction to nothing, then finish_turn.
Clear(ok) ==
  /\ mode = "idle"
  /\ Replace(<<>>, ok)
  /\ stamps' = <<>>
  /\ floor' = clock
  /\ Goto("finish")
  /\ UNCHANGED clock

-----------------------------------------------------------------------------
(* The process dies, or the agent is dropped; later the session is resumed.*)

Crash ==
  /\ mode # "down"
  /\ mode' = "down"
  /\ mem' = <<>> /\ stamps' = <<>> /\ cursor' = 0 /\ notes' = {}
  /\ UNCHANGED <<clock, faults, unlucky, floor, lost>>

Resume(loaded) ==
  /\ mode = "down"
  /\ mode' = "idle"
  /\ mem' = loaded
  /\ stamps' = [i \in 1..Len(loaded) |-> clock]
  /\ cursor' = Len(loaded)
  /\ notes' = {}
  /\ lost' = FALSE
  /\ UNCHANGED <<clock, faults, unlucky, floor>>

\* The transcript could not be read, because a line does not parse or because
\* reading failed: the session goes on under its id with an empty context.
StartEmpty(fault) ==
  /\ mode = "down" /\ (fault => faults < MaxFaults)
  /\ mode' = "idle"
  /\ mem' = <<>> /\ stamps' = <<>> /\ cursor' = 0 /\ notes' = {}
  /\ faults' = IF fault THEN faults + 1 ELSE faults
  /\ lost' = TRUE
  /\ UNCHANGED <<clock, unlucky, floor>>
=============================================================================

-------------------------- MODULE JsonlTranscript --------------------------
(***************************************************************************)
(* The store a session really has: JsonlHistoryStore appends one line per  *)
(* entry and never rewrites the file; load() parses every line, and the    *)
(* transcript projection folds them into the conversation.  The file       *)
(* starts with the Meta line the daemon wrote.                             *)
(*                                                                         *)
(* Shown to keep the promise of module Transcript.                         *)
(***************************************************************************)
EXTENDS SessionBuffer, SequencesExt

CONSTANTS
  TornWrites,  \* as in module Transcript
  MaxLines     \* bound on the length of the file

ASSUME JsonlAssumption == TornWrites \in BOOLEAN /\ MaxLines \in Nat

VARIABLE log   \* the lines of <session>.jsonl

vars == <<bufferVars, log>>

Line(kind, view, origin) == [kind |-> kind, view |-> view, origin |-> origin]
Meta == Line("meta", <<>>, "none")

\* Part of a line without its newline, and the line it becomes when the next
\* one is appended to it.  Neither parses.
Torn    == Line("torn", <<>>, "none")
Garbled == Line("garbled", <<>>, "none")
Bad(e)  == e.kind \in {"torn", "garbled"}

Init == BufferInit /\ log = <<Meta>>

-----------------------------------------------------------------------------
(* Reading.                                                                *)

Readable(l) == \A i \in DOMAIN l : ~Bad(l[i])

\* The lines before the first that does not parse.
Parsed(l) ==
  SubSeq(l, 1, CHOOSE n \in 0..Len(l) :
                 /\ \A i \in 1..n : ~Bad(l[i])
                 /\ n < Len(l) => Bad(l[n + 1]))

\* Mutant: a marker adds its payload instead of replacing the view.
ApplyStacks(v, e) == v \o e.view

\* apply_entry_to_messages: Meta adds nothing, a marker starts afresh.
ApplyEntry(v, e) == IF e.kind = "compact" THEN e.view ELSE v \o e.view

\* project_messages: the conversation after each line of the loop, and after
\* the last one.
Reading(l) ==
  LET after[i \in 0..Len(l)] ==
        IF i = 0 THEN <<>> ELSE ApplyEntry(after[i - 1], l[i])
  IN  after

Project(l) == Reading(l)[Len(l)]

\* The messages that have lines of their own.
Recorded(l) ==
  {[msg |-> e.view[1], origin |-> e.origin] : e \in {f \in ToSet(l) : f.kind = "message"}}

-----------------------------------------------------------------------------
(* Writing.                                                                *)

\* append_tagged, under append_lock: one write of the line and its newline.
AppendLine(e) ==
  /\ Len(log) < MaxLines
  /\ log' = IF Last(log).kind = "torn" THEN Append(Front(log), Garbled)
            ELSE Append(log, e)

\* It fails before the write, or in the middle of it.
AppendFails ==
  /\ Len(log) < MaxLines
  /\ log' \in {log} \cup (IF TornWrites /\ Last(log).kind # "torn"
                          THEN {Append(log, Torn)} ELSE {})

WriteMarker(new, ok) == IF ok THEN AppendLine(Marker(new)) ELSE AppendFails

PersistLine == LineWritten /\ AppendLine(NextLine)
PersistFails == LineFailed /\ AppendFails

CompactWith(n, ok) ==
  \E new \in Compacted(n) :
    (Compact(new, n, ok) \/ CompactAndRetry(new, n, ok)) /\ WriteMarker(new, ok)

ClearAll(ok) == Clear(ok) /\ WriteMarker(<<>>, ok)

InMemory ==
  /\ \/ BeginTurn \/ PersistDone \/ Warn \/ AgingDone \/ ModelDone \/ Crash
     \/ \E o \in Sources : Push(o)
     \/ \E p \in PersistCalls : BeginPersist(p)
     \/ \E i \in 1..Len(mem) : Age(i)
  /\ UNCHANGED log

\* SessionManager::resume
Load == Readable(log) /\ Resume(Project(log)) /\ UNCHANGED log

\* Taken for a session without history, it gets another Meta line; if only the
\* second load fails, it does not.
LoadFails == StartEmpty(Readable(log)) /\ (AppendLine(Meta) \/ AppendFails \/ UNCHANGED log)

Next ==
  \/ InMemory \/ PersistLine \/ PersistFails
  \/ \E n \in 0..MaxFresh, ok \in BOOLEAN : CompactWith(n, ok)
  \/ \E ok \in BOOLEAN : ClearAll(ok)
  \/ Load \/ LoadFails

Spec == Init /\ [][Next]_vars

-----------------------------------------------------------------------------
Store ==
  INSTANCE Transcript WITH
    view <- Project(Parsed(log)),
    readable <- Readable(log),
    recorded <- Recorded(Parsed(log))

(***************************************************************************)
(* The file of lines, read by folding them, is the store module Transcript *)
(* describes: every append, also one that fails half-way, and every load   *)
(* is a step of it.                                                        *)
(***************************************************************************)
ImplementsStore == Store!Spec
=============================================================================

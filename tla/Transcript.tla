----------------------------- MODULE Transcript -----------------------------
(***************************************************************************)
(* A session and what its store promises it: view is the conversation that *)
(* loading the transcript would give back (project_messages).  An append   *)
(* that succeeds adds a message to it or, for a compaction marker,         *)
(* replaces it; one that fails leaves it, or tears the file, which then    *)
(* cannot be loaded any more.                                              *)
(***************************************************************************)
EXTENDS SessionBuffer

CONSTANT TornWrites   \* a failing write may leave part of its line behind

ASSUME TornAssumption == TornWrites \in BOOLEAN

VARIABLES
  view,      \* the conversation on disk
  readable,  \* load() succeeds
  recorded   \* history: the messages written as lines of their own

storeVars == <<view, readable, recorded>>
vars == <<bufferVars, storeVars>>

Records == [msg : Message, origin : Origins]

TypeOK ==
  /\ BufferTypeOK
  /\ view \in Seq(Message)
  /\ readable \in BOOLEAN
  /\ recorded \subseteq Records

Init == BufferInit /\ view = <<>> /\ readable = TRUE /\ recorded = {}

\* One step of the projection: a marker is a replay boundary.
Apply(e, v) == IF e.kind = "compact" THEN e.view ELSE v \o e.view

AppendLine(e) ==
  /\ view' = IF readable THEN Apply(e, view) ELSE view
  /\ recorded' = IF readable /\ e.kind = "message"
                 THEN recorded \cup {[msg |-> e.view[1], origin |-> e.origin]}
                 ELSE recorded
  /\ UNCHANGED readable

AppendFails ==
  /\ readable' \in IF TornWrites THEN {readable, FALSE} ELSE {readable}
  /\ UNCHANGED <<view, recorded>>

WriteMarker(new, ok) == IF ok THEN AppendLine(Marker(new)) ELSE AppendFails

PersistLine == LineWritten /\ AppendLine(NextLine)
PersistFails == LineFailed /\ AppendFails

CompactWith(n, ok) ==
  \E new \in Compacted(n) :
    (Compact(new, n, ok) \/ CompactAndRetry(new, n, ok)) /\ WriteMarker(new, ok)

ClearAll(ok) == Clear(ok) /\ WriteMarker(<<>>, ok)

\* Nothing is written.
InMemory ==
  /\ \/ BeginTurn \/ PersistDone \/ Warn \/ AgingDone \/ ModelDone \/ Crash
     \/ \E o \in Sources : Push(o)
     \/ \E p \in PersistCalls : BeginPersist(p)
     \/ \E i \in 1..Len(mem) : Age(i)
  /\ UNCHANGED storeVars

ResumeView == readable /\ Resume(view) /\ UNCHANGED storeVars

\* load() fails on the first line it cannot parse.  A session taken for new
\* gets a Meta line of its own, which changes no conversation.
ResumeFails == StartEmpty(readable) /\ AppendFails

Next ==
  \/ InMemory \/ PersistLine \/ PersistFails
  \/ \E n \in 0..MaxFresh, ok \in BOOLEAN : CompactWith(n, ok)
  \/ \E ok \in BOOLEAN : ClearAll(ok)
  \/ ResumeView \/ ResumeFails

Spec == Init /\ [][Next]_vars

-----------------------------------------------------------------------------
(* Properties.                                                             *)

\* The last n messages of v are the first n of m.
EndsWith(v, m, n) ==
  /\ n <= Len(v)
  /\ \A i \in 1..n : v[Len(v) - n + i].id = m[i].id

(***************************************************************************)
(* What a resume would bring back ends with the part of the conversation   *)
(* the cursor says is written, message by message and in order, whatever   *)
(* writes failed and however compaction rewrote the list; unless a marker  *)
(* was lost, it is exactly that part.  So persist() neither drops, nor     *)
(* doubles, nor reorders a message.                                        *)
(***************************************************************************)
Recoverable ==
  readable /\ mode # "down" =>
    /\ EndsWith(view, mem, cursor)
    /\ ~lost => Len(view) = cursor

(***************************************************************************)
(* Nothing is recorded as something the user said that the user did not    *)
(* say: notes are kept by index, and compaction moves the messages under   *)
(* them.                                                                   *)
(***************************************************************************)
NeverMisattributed ==
  \A r \in recorded : r.origin = "user" => r.msg.by = "user"

(***************************************************************************)
(* The step is persisted before anything is blanked: a tool result is on   *)
(* disk without its body only if writing it had failed, or if its body is  *)
(* on an earlier line.                                                     *)
(***************************************************************************)
BodiesWritten ==
  \A r \in recorded : r.msg.cleared =>
    \/ r.msg.id \in unlucky
    \/ \E q \in recorded : q.msg.id = r.msg.id /\ ~q.msg.cleared

(***************************************************************************)
(* What AgingInput's comment says of message_ages: for every message, when *)
(* it was pushed.  So no message looks older than it is.                   *)
(***************************************************************************)
AgesAreTrue ==
  \A i \in 1..Len(mem) : i <= Len(stamps) => stamps[i] >= mem[i].id

(***************************************************************************)
(* What clear()'s comment says: a resume after /clear starts empty too.    *)
(***************************************************************************)
ClearedStaysCleared == readable => \A i \in 1..Len(view) : view[i].id > floor

(***************************************************************************)
(* What replace_messages_after_compact's comment says of a failed write:   *)
(* the next persist() writes the messages out, so the content is not lost. *)
(* If no persist has failed, and one has written everything that the list  *)
(* holds, the transcript can be loaded.                                    *)
(***************************************************************************)
ContentSurvives ==
  mode \in PersistCalls /\ unlucky = {} /\ cursor = Len(mem) /\ mem # <<>> => readable
=============================================================================

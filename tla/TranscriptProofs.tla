-------------------------- MODULE TranscriptProofs --------------------------
(***************************************************************************)
(* Proofs about module Transcript, for every number of messages, failures  *)
(* and compactions.  Recoverable is inductive together with the types: a   *)
(* step moves the cursor and the conversation on disk by the same message, *)
(* or sends the cursor to 0, where there is nothing left to claim.         *)
(***************************************************************************)
EXTENDS Transcript, TLAPS

\* What a compaction writes is a list of messages.
LEMMA FreshType ==
  ASSUME clock \in Nat, NEW n \in Nat
  PROVE  Fresh(n) \in Seq(Message)
<1>1. \A i \in 1..n : [id |-> clock + i, by |-> "engine", cleared |-> FALSE] \in Message
  BY DEF Message, Sources
<1>. QED
  BY <1>1 DEF Fresh

\* So is what it leaves of the conversation.
LEMMA CompactedType ==
  ASSUME BufferTypeOK, NEW n \in Nat, NEW new \in Compacted(n)
  PROVE  new \in Seq(Message)
<1>1. Fresh(n) \in Seq(Message)
  BY FreshType DEF BufferTypeOK
<1>2. \A k \in 0..(Len(mem) - 1) : SubSeq(mem, k + 1, Len(mem)) \in Seq(Message)
  BY DEF BufferTypeOK
<1>3. \A m \in Message : Blank(m) \in Message
  BY DEF Blank, Message, Sources
<1>4. \A j \in 1..(Len(mem) - 1) :
         [i \in 1..Len(mem) |-> IF i <= j THEN Blank(mem[i]) ELSE mem[i]] \in Seq(Message)
  <2>. TAKE j \in 1..(Len(mem) - 1)
  <2>1. \A i \in 1..Len(mem) : (IF i <= j THEN Blank(mem[i]) ELSE mem[i]) \in Message
    BY <1>3 DEF BufferTypeOK
  <2>. QED
    BY <2>1 DEF BufferTypeOK
<1>5. \A s, t \in Seq(Message) : s \o t \in Seq(Message)
  OBVIOUS
<1>6. CASE new \in {Fresh(n) \o SubSeq(mem, k + 1, Len(mem)) : k \in 0..(Len(mem) - 1)}
  BY <1>1, <1>2, <1>5, <1>6
<1>7. CASE new \in {Fresh(n) \o [i \in 1..Len(mem) |-> IF i <= j THEN Blank(mem[i]) ELSE mem[i]] :
                     j \in 1..(Len(mem) - 1)}
  <2>1. PICK j \in 1..(Len(mem) - 1) :
          new = Fresh(n) \o [i \in 1..Len(mem) |-> IF i <= j THEN Blank(mem[i]) ELSE mem[i]]
    BY <1>7
  <2>. QED
    BY <1>1, <1>4, <1>5, <2>1
<1>. QED
  BY <1>6, <1>7 DEF Compacted

\* A list is swapped in with the cursor at its end or at its start.
LEMMA ReplaceType ==
  ASSUME BufferTypeOK, NEW new \in Seq(Message), NEW ok \in BOOLEAN, Replace(new, ok)
  PROVE  /\ mem' \in Seq(Message) /\ cursor' \in 0..Len(mem')
         /\ notes' \subseteq 1..Len(mem') /\ faults' \in Nat
         /\ lost' \in BOOLEAN /\ unlucky' \subseteq Nat
BY DEF Replace, BufferTypeOK

\* A step keeps the types of the buffer and of the conversation on disk.
LEMMA TypeStep == TypeOK /\ [Next]_vars => TypeOK'
<1>. SUFFICES ASSUME TypeOK, [Next]_vars PROVE TypeOK'
  OBVIOUS
<1>. USE DEF TypeOK
<1>1. CASE InMemory
  <2>. USE DEF InMemory, BufferTypeOK, storeVars, Goto, Modes
  <2>1. CASE BeginTurn
    BY <1>1, <2>1 DEF BeginTurn
  <2>2. CASE PersistDone
    BY <1>1, <2>2 DEF PersistDone, AfterPersist, PersistCalls
  <2>3. CASE Warn
    BY <1>1, <2>3 DEF Warn, MessageOf, Message, Sources
  <2>4. CASE AgingDone \/ ModelDone
    BY <1>1, <2>4 DEF AgingDone, ModelDone
  <2>5. CASE Crash
    BY <1>1, <2>5 DEF Crash
  <2>6. ASSUME NEW o \in Sources, Push(o) PROVE TypeOK'
    <3>1. MessageOf(o) \in Message
      BY DEF MessageOf, Message
    <3>2. mem' \in Seq(Message) /\ Len(mem') = Len(mem) + 1 /\ stamps' \in Seq(Nat)
      BY <2>6, <3>1 DEF Push
    <3>3. notes' \subseteq 1..Len(mem')
      <4>1. notes' \subseteq notes \cup {Len(mem) + 1}
        BY <2>6 DEF Push
      <4>2. Len(mem) \in Nat /\ notes \subseteq 1..Len(mem)
        OBVIOUS
      <4>3. \A k \in notes \cup {Len(mem) + 1} : k \in 1..(Len(mem) + 1)
        BY <4>2
      <4>. QED
        BY <3>2, <4>1, <4>3
    <3>. QED
      BY <1>1, <2>6, <3>2, <3>3 DEF Push
  <2>7. ASSUME NEW p \in PersistCalls, BeginPersist(p) PROVE TypeOK'
    BY <1>1, <2>7 DEF BeginPersist, PersistCalls
  <2>8. ASSUME NEW i \in 1..Len(mem), Age(i) PROVE TypeOK'
    <3>1. mem[i] \in Message
      OBVIOUS
    <3>2. Blank(mem[i]) \in Message
      BY <3>1 DEF Blank, Message, Sources
    <3>3. mem' \in Seq(Message) /\ Len(mem') = Len(mem)
      BY <2>8, <3>2 DEF Age
    <3>. QED
      BY <1>1, <2>8, <3>3 DEF Age
  <2>. QED
    BY <1>1, <2>1, <2>2, <2>3, <2>4, <2>5, <2>6, <2>7, <2>8
<1>2. CASE PersistLine
  <2>1. mem[cursor + 1] \in Message /\ OriginOfNext \in Origins
    BY <1>2 DEF PersistLine, LineWritten, Persisting, BufferTypeOK, OriginOfNext, Origins
  <2>2. BufferTypeOK'
    BY <1>2 DEF PersistLine, LineWritten, Persisting, BufferTypeOK
  <2>3. view' \in Seq(Message) /\ recorded' \subseteq Records /\ readable' \in BOOLEAN
    BY <1>2, <2>1 DEF PersistLine, AppendLine, NextLine, Apply, Records
  <2>. QED
    BY <2>2, <2>3
<1>3. CASE PersistFails
  <2>1. {mem[i].id : i \in (cursor + 1)..Len(mem)} \subseteq Nat
    <3>1. \A i \in (cursor + 1)..Len(mem) : mem[i] \in Message
      BY DEF BufferTypeOK
    <3>. QED
      BY <3>1 DEF Message
  <2>2. BufferTypeOK'
    <3>1. AfterPersist \in Modes
      BY DEF AfterPersist, Modes
    <3>2. mode' \in Modes /\ faults' \in Nat
      BY <1>3, <3>1 DEF PersistFails, LineFailed, BufferTypeOK, Goto
    <3>3. unlucky' = unlucky \cup {mem[i].id : i \in (cursor + 1)..Len(mem)}
      BY <1>3 DEF PersistFails, LineFailed
    <3>4. unlucky' \subseteq Nat
      BY <2>1, <3>3 DEF BufferTypeOK
    <3>5. UNCHANGED <<mem, stamps, cursor, notes, clock, floor, lost>>
      BY <1>3 DEF PersistFails, LineFailed
    <3>. QED
      BY <3>2, <3>4, <3>5 DEF BufferTypeOK
  <2>3. readable' \in BOOLEAN
    BY <1>3 DEF PersistFails, AppendFails
  <2>. QED
    BY <1>3, <2>2, <2>3 DEF PersistFails, AppendFails
<1>4. ASSUME NEW n \in 0..MaxFresh, NEW ok \in BOOLEAN, CompactWith(n, ok)
      PROVE  TypeOK'
  <2>0. n \in Nat
    BY BufferAssumption
  <2>1. PICK new \in Compacted(n) :
          (Compact(new, n, ok) \/ CompactAndRetry(new, n, ok)) /\ WriteMarker(new, ok)
    BY <1>4 DEF CompactWith
  <2>2. new \in Seq(Message)
    BY <2>0, CompactedType
  <2>3. Replace(new, ok)
    BY <2>1 DEF Compact, CompactAndRetry
  <2>4. stamps' \in Seq(Nat) /\ mode' \in Modes /\ clock' \in Nat /\ floor' \in Nat
    <3>1. Len(new) \in Nat
      BY <2>2
    <3>2. Truncated(stamps, Len(new)) \in Seq(Nat)
      BY <3>1 DEF Truncated, BufferTypeOK
    <3>3. CASE Compact(new, n, ok)
      BY <2>0, <3>2, <3>3 DEF Compact, BufferTypeOK, Goto, Modes
    <3>4. CASE CompactAndRetry(new, n, ok)
      BY <2>0, <3>4 DEF CompactAndRetry, BufferTypeOK, Goto, Modes
    <3>. QED
      BY <2>1, <3>3, <3>4
  <2>5. BufferTypeOK'
    BY <2>2, <2>3, <2>4, ReplaceType DEF BufferTypeOK
  <2>6. view' \in Seq(Message) /\ recorded' \subseteq Records /\ readable' \in BOOLEAN
    BY <2>1, <2>2 DEF WriteMarker, AppendLine, AppendFails, Marker, Apply
  <2>. QED
    BY <2>5, <2>6
<1>5. ASSUME NEW ok \in BOOLEAN, ClearAll(ok) PROVE TypeOK'
  <2>1. <<>> \in Seq(Message)
    OBVIOUS
  <2>2. Replace(<<>>, ok)
    BY <1>5 DEF ClearAll, Clear
  <2>3. stamps' \in Seq(Nat) /\ mode' \in Modes /\ clock' \in Nat /\ floor' \in Nat
    BY <1>5 DEF ClearAll, Clear, BufferTypeOK, Goto, Modes
  <2>4. BufferTypeOK'
    BY <2>1, <2>2, <2>3, ReplaceType DEF BufferTypeOK
  <2>5. view' \in Seq(Message) /\ recorded' \subseteq Records /\ readable' \in BOOLEAN
    <3>1. CASE ok
      BY <1>5, <2>1, <3>1 DEF ClearAll, WriteMarker, AppendLine, Marker, Apply
    <3>2. CASE ~ok
      BY <1>5, <3>2 DEF ClearAll, WriteMarker, AppendFails
    <3>. QED
      BY <3>1, <3>2
  <2>. QED
    BY <2>4, <2>5
<1>6. CASE ResumeView
  <2>1. Len(view) \in Nat /\ [i \in 1..Len(view) |-> clock] \in Seq(Nat)
    BY DEF BufferTypeOK
  <2>2. lost' \in BOOLEAN
    BY <1>6 DEF ResumeView, Resume
  <2>3. BufferTypeOK'
    BY <1>6, <2>1, <2>2 DEF ResumeView, Resume, BufferTypeOK, Modes
  <2>. QED
    BY <1>6, <2>3 DEF ResumeView, storeVars
<1>7. CASE UNCHANGED vars
  BY <1>7 DEF vars, bufferVars, storeVars, BufferTypeOK
<1>8. CASE ResumeFails
  <2>1. <<>> \in Seq(Message) /\ <<>> \in Seq(Nat) /\ Len(<<>>) = 0
    OBVIOUS
  <2>2. faults' \in Nat
    BY <1>8 DEF ResumeFails, StartEmpty, BufferTypeOK
  <2>3. lost' \in BOOLEAN
    BY <1>8 DEF ResumeFails, StartEmpty
  <2>4. BufferTypeOK'
    BY <1>8, <2>1, <2>2, <2>3 DEF ResumeFails, StartEmpty, BufferTypeOK, Modes
  <2>5. view' \in Seq(Message) /\ recorded' \subseteq Records /\ readable' \in BOOLEAN
    BY <1>8 DEF ResumeFails, AppendFails
  <2>. QED
    BY <2>4, <2>5
<1>. QED
  BY <1>1, <1>2, <1>3, <1>4, <1>5, <1>6, <1>7, <1>8 DEF Next

\* A session without messages over an empty store has these types.
LEMMA TypeInit == Init => TypeOK
<1>. SUFFICES ASSUME Init PROVE TypeOK
  OBVIOUS
<1>1. BufferTypeOK
  <2>1. mem \in Seq(Message) /\ stamps \in Seq(Nat) /\ Len(mem) = 0
    BY DEF Init, BufferInit
  <2>2. lost \in BOOLEAN
    BY DEF Init, BufferInit
  <2>. QED
    BY <2>1, <2>2 DEF Init, BufferInit, BufferTypeOK, Modes
<1>2. view \in Seq(Message) /\ recorded \subseteq Records
  BY DEF Init
<1>3. readable \in BOOLEAN
  BY DEF Init
<1>. QED
  BY <1>1, <1>2, <1>3 DEF TypeOK

\* The buffer and the conversation on disk keep their types, and the cursor
\* never points past the list, however compaction shortens it.
THEOREM TypeCorrect == Spec => []TypeOK
BY TypeInit, TypeStep, PTL DEF Spec

-----------------------------------------------------------------------------
(* What a resume brings back.                                              *)

\* Writing the next message moves cursor and view together.
LEMMA PersistLineKeeps ==
  ASSUME TypeOK, Recoverable, PersistLine
  PROVE  Recoverable'
<1>. SUFFICES ASSUME readable', mode' # "down"
              PROVE  EndsWith(view', mem', cursor') /\ (~lost' => Len(view') = cursor')
  BY DEF Recoverable
<1>1. readable /\ mode # "down" /\ mem' = mem /\ cursor' = cursor + 1 /\ (lost' <=> lost)
  BY DEF PersistLine, LineWritten, AppendLine
<1>2. mem[cursor + 1] \in Message /\ cursor \in Nat /\ view \in Seq(Message)
  BY DEF PersistLine, LineWritten, Persisting, TypeOK, BufferTypeOK
<1>3. view' = view \o <<mem[cursor + 1]>>
  BY <1>1 DEF PersistLine, AppendLine, NextLine, Apply
<1>4. /\ Len(view') = Len(view) + 1
      /\ view'[Len(view) + 1] = mem[cursor + 1]
      /\ \A i \in 1..Len(view) : view'[i] = view[i]
  BY <1>2, <1>3
<1>5. EndsWith(view, mem, cursor) /\ (~lost => Len(view) = cursor)
  BY <1>1 DEF Recoverable
<1>6. EndsWith(view', mem, cursor + 1)
  <2>1. cursor + 1 <= Len(view')
    BY <1>2, <1>4, <1>5 DEF EndsWith
  <2>2. ASSUME NEW i \in 1..(cursor + 1)
        PROVE  view'[Len(view') - (cursor + 1) + i].id = mem[i].id
    <3>1. CASE i = cursor + 1
      BY <1>2, <1>4, <3>1
    <3>2. CASE i \in 1..cursor
      <4>1. Len(view') - (cursor + 1) + i = Len(view) - cursor + i
        BY <1>2, <1>4, <3>2
      <4>2. Len(view) - cursor + i \in 1..Len(view)
        BY <1>2, <1>5, <3>2 DEF EndsWith
      <4>. QED
        BY <1>4, <1>5, <3>2, <4>1, <4>2 DEF EndsWith
    <3>. QED
      BY <1>2, <3>1, <3>2
  <2>. QED
    BY <2>1, <2>2 DEF EndsWith
<1>. QED
  BY <1>1, <1>2, <1>4, <1>5, <1>6

\* A marker that is written makes the new list the conversation on disk; one
\* that is not leaves the cursor at 0.
LEMMA ReplaceKeeps ==
  ASSUME TypeOK, NEW new \in Seq(Message), NEW ok \in BOOLEAN,
         Replace(new, ok), WriteMarker(new, ok)
  PROVE  Recoverable'
<1>. SUFFICES ASSUME readable'
              PROVE  EndsWith(view', mem', cursor') /\ (~lost' => Len(view') = cursor')
  BY DEF Recoverable
<1>1. CASE ok
  <2>1. readable /\ view' = new
    BY <1>1 DEF WriteMarker, AppendLine, Marker, Apply
  <2>2. mem' = new /\ cursor' = Len(new)
    BY <1>1 DEF Replace
  <2>3. Len(new) \in Nat
    OBVIOUS
  <2>4. EndsWith(new, new, Len(new))
    BY <2>3 DEF EndsWith
  <2>. QED
    BY <2>1, <2>2, <2>4
<1>2. CASE ~ok
  <2>1. view' = view /\ cursor' = 0 /\ lost'
    BY <1>2 DEF WriteMarker, AppendFails, Replace
  <2>2. EndsWith(view', mem', 0)
    <3>1. Len(view') \in Nat
      BY <2>1 DEF TypeOK
    <3>. QED
      BY <3>1 DEF EndsWith
  <2>. QED
    BY <2>1, <2>2
<1>. QED
  BY <1>1, <1>2

\* Steps that only add to the list, or only blank bodies in it.
LEMMA SameIdsKeep ==
  ASSUME TypeOK, Recoverable, UNCHANGED storeVars, UNCHANGED <<cursor, lost>>,
         mode # "down", \A i \in 1..cursor : mem'[i].id = mem[i].id
  PROVE  Recoverable'
<1>1. readable' => readable
  BY DEF storeVars
<1>. SUFFICES ASSUME readable'
              PROVE  EndsWith(view, mem', cursor) /\ (~lost => Len(view) = cursor)
  BY DEF Recoverable, storeVars
<1>2. EndsWith(view, mem, cursor) /\ (~lost => Len(view) = cursor)
  BY <1>1 DEF Recoverable
<1>. QED
  BY <1>2 DEF EndsWith

(***************************************************************************)
(* Whatever fails and whatever is compacted, what a resume would bring     *)
(* back ends with the part of the conversation persist() has counted as    *)
(* written, and is exactly it unless a compaction marker was lost.         *)
(***************************************************************************)
THEOREM ConversationRecoverable == Spec => []Recoverable
<1>1. Init => Recoverable
  <2>. SUFFICES ASSUME Init PROVE Recoverable
    OBVIOUS
  <2>1. view = <<>> /\ cursor = 0
    BY DEF Init, BufferInit
  <2>2. Len(<<>>) = 0
    OBVIOUS
  <2>. QED
    BY <2>1, <2>2 DEF Recoverable, EndsWith
<1>2. TypeOK /\ Recoverable /\ [Next]_vars => Recoverable'
  <2>. SUFFICES ASSUME TypeOK, Recoverable, [Next]_vars PROVE Recoverable'
    OBVIOUS
  <2>0. cursor \in Nat /\ cursor <= Len(mem) /\ mem \in Seq(Message) /\ Len(mem) \in Nat
    BY DEF TypeOK, BufferTypeOK
  <2>1. CASE InMemory
    <3>0. UNCHANGED storeVars
      BY <2>1 DEF InMemory
    <3>1. CASE BeginTurn \/ PersistDone \/ AgingDone \/ ModelDone
      BY <3>0, <3>1, SameIdsKeep
         DEF BeginTurn, PersistDone, AgingDone, ModelDone, PersistCalls
    <3>2. CASE Warn
      <4>1. mem' = Append(mem, MessageOf("engine")) /\ UNCHANGED <<cursor, lost>> /\ mode # "down"
        BY <3>2 DEF Warn
      <4>2. \A i \in 1..cursor : mem'[i] = mem[i]
        BY <2>0, <4>1
      <4>. QED
        BY <3>0, <4>1, <4>2, SameIdsKeep
    <3>3. CASE Crash
      BY <3>3 DEF Crash, Recoverable
    <3>4. ASSUME NEW o \in Sources, Push(o) PROVE Recoverable'
      <4>1. mem' = Append(mem, MessageOf(o)) /\ UNCHANGED <<cursor, lost>> /\ mode # "down"
        BY <3>4 DEF Push
      <4>2. \A i \in 1..cursor : mem'[i] = mem[i]
        BY <2>0, <4>1
      <4>. QED
        BY <3>0, <4>1, <4>2, SameIdsKeep
    <3>5. ASSUME NEW p \in PersistCalls, BeginPersist(p) PROVE Recoverable'
      BY <3>0, <3>5, SameIdsKeep DEF BeginPersist
    <3>6. ASSUME NEW k \in 1..Len(mem), Age(k) PROVE Recoverable'
      <4>1. \A i \in 1..cursor : mem[i] \in Message /\ mem'[i] \in {mem[i], Blank(mem[i])}
        BY <2>0, <3>6 DEF Age
      <4>2. \A m \in Message : Blank(m).id = m.id
        BY DEF Blank, Message
      <4>3. \A i \in 1..cursor : mem'[i].id = mem[i].id
        BY <4>1, <4>2
      <4>. QED
        BY <3>0, <3>6, <4>3, SameIdsKeep DEF Age
    <3>. QED
      BY <2>1, <3>1, <3>2, <3>3, <3>4, <3>5, <3>6 DEF InMemory
  <2>2. CASE PersistLine
    BY <2>2, PersistLineKeeps
  <2>3. CASE PersistFails
    <3>1. UNCHANGED <<mem, view, cursor, lost>> /\ mode # "down"
      BY <2>3 DEF PersistFails, LineFailed, AppendFails, Persisting, PersistCalls
    <3>2. readable' => readable
      BY <2>3 DEF PersistFails, AppendFails
    <3>. QED
      BY <3>1, <3>2 DEF Recoverable
  <2>4. ASSUME NEW n \in 0..MaxFresh, NEW ok \in BOOLEAN, CompactWith(n, ok)
        PROVE  Recoverable'
    <3>1. PICK new \in Compacted(n) :
            (Compact(new, n, ok) \/ CompactAndRetry(new, n, ok)) /\ WriteMarker(new, ok)
      BY <2>4 DEF CompactWith
    <3>2. n \in Nat
      BY BufferAssumption
    <3>3. new \in Seq(Message)
      BY <3>2, CompactedType DEF TypeOK
    <3>4. Replace(new, ok)
      BY <3>1 DEF Compact, CompactAndRetry
    <3>. QED
      BY <3>1, <3>3, <3>4, ReplaceKeeps
  <2>5. ASSUME NEW ok \in BOOLEAN, ClearAll(ok) PROVE Recoverable'
    <3>1. <<>> \in Seq(Message)
      OBVIOUS
    <3>2. Replace(<<>>, ok) /\ WriteMarker(<<>>, ok)
      BY <2>5 DEF ClearAll, Clear
    <3>. QED
      BY <3>1, <3>2, ReplaceKeeps
  <2>6. CASE ResumeView
    <3>1. view' = view /\ mem' = view /\ cursor' = Len(view)
      BY <2>6 DEF ResumeView, Resume, storeVars
    <3>2. Len(view) \in Nat
      BY DEF TypeOK
    <3>3. EndsWith(view, view, Len(view))
      BY <3>2 DEF EndsWith
    <3>. QED
      BY <3>1, <3>3 DEF Recoverable
  <2>7. CASE UNCHANGED vars
    BY <2>7 DEF vars, bufferVars, storeVars, Recoverable
  <2>8. CASE ResumeFails
    <3>1. view' = view /\ cursor' = 0 /\ lost'
      BY <2>8 DEF ResumeFails, StartEmpty, AppendFails
    <3>2. Len(view) \in Nat
      BY DEF TypeOK
    <3>. QED
      BY <3>1, <3>2 DEF Recoverable, EndsWith
  <2>. QED
    BY <2>1, <2>2, <2>3, <2>4, <2>5, <2>6, <2>7, <2>8 DEF Next
<1>. QED
  BY <1>1, <1>2, TypeCorrect, PTL DEF Spec

-----------------------------------------------------------------------------
(* Who said what.                                                          *)

\* The strengthening: a note stands only at a message of the user's.
NotesAreTrue == \A i \in notes : mem[i].by = "user"

Attribution == NotesAreTrue /\ NeverMisattributed

\* A step that drops the notes and writes no message.
LEMMA NoteFreeStep ==
  ASSUME notes' = {}, UNCHANGED recorded, NeverMisattributed
  PROVE  Attribution'
BY DEF Attribution, NotesAreTrue, NeverMisattributed

(***************************************************************************)
(* No line of the transcript says that the user said something the user    *)
(* did not say, although notes are kept by index and compaction moves the  *)
(* messages they stand for.                                                *)
(***************************************************************************)
THEOREM Attributed == Spec => []NeverMisattributed
<1>1. Init => Attribution
  BY DEF Init, BufferInit, Attribution, NotesAreTrue, NeverMisattributed
<1>2. TypeOK /\ Attribution /\ [Next]_vars => Attribution'
  <2>. SUFFICES ASSUME TypeOK, Attribution, [Next]_vars PROVE Attribution'
    OBVIOUS
  <2>0. /\ notes \subseteq 1..Len(mem) /\ mem \in Seq(Message) /\ Len(mem) \in Nat
        /\ NotesAreTrue /\ NeverMisattributed
    BY DEF TypeOK, BufferTypeOK, Attribution
  <2>1. CASE InMemory
    <3>0. UNCHANGED recorded
      BY <2>1 DEF InMemory, storeVars
    <3>1. CASE BeginTurn \/ PersistDone \/ AgingDone \/ ModelDone
      BY <2>0, <3>0, <3>1 DEF BeginTurn, PersistDone, AgingDone, ModelDone,
         Attribution, NotesAreTrue, NeverMisattributed
    <3>2. CASE Warn
      <4>1. mem' = Append(mem, MessageOf("engine")) /\ notes' = notes
        BY <3>2 DEF Warn
      <4>2. \A i \in 1..Len(mem) : mem'[i] = mem[i]
        BY <2>0, <4>1
      <4>. QED
        BY <2>0, <3>0, <4>1, <4>2 DEF Attribution, NotesAreTrue, NeverMisattributed
    <3>3. CASE Crash
      BY <2>0, <3>0, <3>3, NoteFreeStep DEF Crash
    <3>4. ASSUME NEW o \in Sources, Push(o) PROVE Attribution'
      <4>1. mem' = Append(mem, MessageOf(o))
        BY <3>4 DEF Push
      <4>2. /\ \A i \in 1..Len(mem) : mem'[i] = mem[i]
            /\ mem'[Len(mem) + 1] = MessageOf(o)
        BY <2>0, <4>1
      <4>3. \A i \in notes' : i \in notes \/ (i = Len(mem) + 1 /\ o = "user")
        BY <3>4 DEF Push
      <4>4. MessageOf(o).by = o
        BY DEF MessageOf
      <4>5. NotesAreTrue'
        BY <2>0, <4>2, <4>3, <4>4 DEF NotesAreTrue
      <4>. QED
        BY <2>0, <3>0, <4>5 DEF Attribution, NeverMisattributed
    <3>5. ASSUME NEW p \in PersistCalls, BeginPersist(p) PROVE Attribution'
      BY <2>0, <3>0, <3>5 DEF BeginPersist, Attribution, NotesAreTrue, NeverMisattributed
    <3>6. ASSUME NEW k \in 1..Len(mem), Age(k) PROVE Attribution'
      <4>1. \A i \in 1..Len(mem) : mem[i] \in Message /\ mem'[i] \in {mem[i], Blank(mem[i])}
        BY <2>0, <3>6 DEF Age
      <4>2. \A m \in Message : Blank(m).by = m.by
        BY DEF Blank, Message
      <4>3. \A i \in 1..Len(mem) : mem'[i].by = mem[i].by
        BY <4>1, <4>2
      <4>4. notes' = notes
        BY <3>6 DEF Age
      <4>. QED
        BY <2>0, <3>0, <4>3, <4>4 DEF Attribution, NotesAreTrue, NeverMisattributed
    <3>. QED
      BY <2>1, <3>1, <3>2, <3>3, <3>4, <3>5, <3>6 DEF InMemory
  <2>2. CASE PersistLine
    <3>1. notes' \subseteq notes /\ mem' = mem
      BY <2>2 DEF PersistLine, LineWritten
    <3>2. OriginOfNext = "user" => mem[cursor + 1].by = "user"
      BY <2>0 DEF OriginOfNext, NotesAreTrue
    <3>3. \A r \in recorded' : r \in recorded
             \/ r = [msg |-> mem[cursor + 1], origin |-> OriginOfNext]
      BY <2>2 DEF PersistLine, AppendLine, NextLine
    <3>4. NeverMisattributed'
      BY <2>0, <3>2, <3>3 DEF NeverMisattributed
    <3>. QED
      BY <2>0, <3>1, <3>4 DEF Attribution, NotesAreTrue
  <2>3. CASE PersistFails
    BY <2>0, <2>3 DEF PersistFails, LineFailed, AppendFails, Attribution,
       NotesAreTrue, NeverMisattributed
  <2>4. ASSUME NEW n \in 0..MaxFresh, NEW ok \in BOOLEAN, CompactWith(n, ok)
        PROVE  Attribution'
    <3>1. PICK new \in Compacted(n) :
            (Compact(new, n, ok) \/ CompactAndRetry(new, n, ok)) /\ WriteMarker(new, ok)
      BY <2>4 DEF CompactWith
    <3>2. notes' = {}
      BY <3>1 DEF Compact, CompactAndRetry, Replace
    <3>3. UNCHANGED recorded
      BY <3>1 DEF WriteMarker, AppendLine, AppendFails, Marker
    <3>. QED
      BY <2>0, <3>2, <3>3, NoteFreeStep
  <2>5. ASSUME NEW ok \in BOOLEAN, ClearAll(ok) PROVE Attribution'
    <3>1. notes' = {}
      BY <2>5 DEF ClearAll, Clear, Replace
    <3>2. UNCHANGED recorded
      BY <2>5 DEF ClearAll, WriteMarker, AppendLine, AppendFails, Marker
    <3>. QED
      BY <2>0, <3>1, <3>2, NoteFreeStep
  <2>6. CASE ResumeView
    BY <2>0, <2>6, NoteFreeStep DEF ResumeView, Resume, storeVars
  <2>7. CASE UNCHANGED vars
    BY <2>0, <2>7 DEF vars, bufferVars, storeVars, Attribution, NotesAreTrue, NeverMisattributed
  <2>8. CASE ResumeFails
    BY <2>0, <2>8, NoteFreeStep DEF ResumeFails, StartEmpty, AppendFails
  <2>. QED
    BY <2>1, <2>2, <2>3, <2>4, <2>5, <2>6, <2>7, <2>8 DEF Next
<1>3. Attribution => NeverMisattributed
  BY DEF Attribution
<1>. QED
  BY <1>1, <1>2, <1>3, TypeCorrect, PTL DEF Spec

-----------------------------------------------------------------------------
(* Bodies.                                                                 *)

\* The body of message i is on a line of the transcript, or writing it failed.
Kept(i) == i \in unlucky \/ \E q \in recorded : q.msg.id = i /\ ~q.msg.cleared

\* Whatever is blanked in s, and every tool result among its first n, is kept.
KeptUpTo(s, n) ==
  \A i \in 1..Len(s) : s[i].cleared \/ (s[i].by = "tool" /\ i <= n) => Kept(s[i].id)

(***************************************************************************)
(* The strengthening: between turns, and from the persist at the top of    *)
(* the loop to the end of the model call, every tool result of the         *)
(* conversation is kept; at other times those below the cursor are.        *)
(***************************************************************************)
Settled == {"idle", "aging", "warned", "model"}

Claimed == IF mode \in Settled THEN Len(mem) ELSE cursor

BodiesInv ==
  /\ BodiesWritten
  /\ readable => KeptUpTo(mem, Claimed) /\ KeptUpTo(view, Len(view))

\* A step that writes no line of its own and leaves kept messages in both lists.
LEMMA NoLineKeeps ==
  ASSUME BodiesWritten, unlucky \subseteq unlucky', recorded' = recorded,
         readable' => KeptUpTo(mem, Claimed)' /\ KeptUpTo(view, Len(view))'
  PROVE  BodiesInv'
<1>1. BodiesWritten'
  BY DEF BodiesWritten
<1>. QED
  BY <1>1 DEF BodiesInv

\* The two halves of a concatenation.
LEMMA Concatenation ==
  ASSUME NEW S, NEW s \in Seq(S), NEW t \in Seq(S)
  PROVE  /\ s \o t \in Seq(S) /\ Len(s \o t) = Len(s) + Len(t)
         /\ Len(s) \in Nat /\ Len(t) \in Nat
         /\ \A i \in 1..Len(s) : (s \o t)[i] = s[i]
         /\ \A i \in 1..Len(t) : (s \o t)[Len(s) + i] = t[i]
OBVIOUS

\* When the conversation is settled, all that a compaction may leave is kept.
LEMMA CompactedKept ==
  ASSUME TypeOK, KeptUpTo(mem, Len(mem)), NEW n \in Nat, NEW new \in Compacted(n)
  PROVE  \A i \in 1..Len(new) : new[i].cleared \/ new[i].by = "tool" => Kept(new[i].id)
<1>1. /\ mem \in Seq(Message) /\ Len(mem) \in Nat /\ clock \in Nat
      /\ \A i \in 1..Len(mem) : mem[i] \in Message
  BY DEF TypeOK, BufferTypeOK
<1>2. Fresh(n) \in Seq(Message)
  BY <1>1, FreshType
<1>3. Len(Fresh(n)) = n /\ \A i \in 1..n : ~Fresh(n)[i].cleared /\ Fresh(n)[i].by = "engine"
  BY <1>1 DEF Fresh
<1>4. \A i \in 1..Len(mem) : mem[i].cleared \/ mem[i].by = "tool" => Kept(mem[i].id)
  BY <1>1 DEF KeptUpTo
<1>5. ASSUME NEW rest \in Seq(Message), new = Fresh(n) \o rest,
             \A i \in 1..Len(rest) : rest[i].cleared \/ rest[i].by = "tool" => Kept(rest[i].id)
      PROVE  \A i \in 1..Len(new) : new[i].cleared \/ new[i].by = "tool" => Kept(new[i].id)
  <2>. TAKE i \in 1..Len(new)
  <2>1. /\ Len(new) = n + Len(rest) /\ Len(rest) \in Nat
        /\ \A k \in 1..n : new[k] = Fresh(n)[k]
        /\ \A k \in 1..Len(rest) : new[n + k] = rest[k]
    <3>1. Len(Fresh(n)) = n
      BY <1>3
    <3>2. /\ Len(Fresh(n) \o rest) = Len(Fresh(n)) + Len(rest) /\ Len(rest) \in Nat
          /\ \A k \in 1..Len(Fresh(n)) : (Fresh(n) \o rest)[k] = Fresh(n)[k]
          /\ \A k \in 1..Len(rest) : (Fresh(n) \o rest)[Len(Fresh(n)) + k] = rest[k]
      BY <1>2, Concatenation
    <3>. QED
      BY <1>5, <3>1, <3>2
  <2>2. CASE i <= n
    BY <1>3, <2>1, <2>2
  <2>3. CASE i > n
    <3>1. i - n \in 1..Len(rest) /\ n + (i - n) = i
      BY <2>1, <2>3
    <3>2. new[i] = rest[i - n]
      BY <2>1, <3>1
    <3>. QED
      BY <1>5, <3>1, <3>2
  <2>. QED
    BY <2>1, <2>2, <2>3
<1>6. ASSUME NEW k \in 0..(Len(mem) - 1), new = Fresh(n) \o SubSeq(mem, k + 1, Len(mem))
      PROVE  \A i \in 1..Len(new) : new[i].cleared \/ new[i].by = "tool" => Kept(new[i].id)
  <2>1. SubSeq(mem, k + 1, Len(mem)) \in Seq(Message)
    BY <1>1
  <2>2. /\ Len(SubSeq(mem, k + 1, Len(mem))) = Len(mem) - k
        /\ \A i \in 1..(Len(mem) - k) : SubSeq(mem, k + 1, Len(mem))[i] = mem[k + i]
    BY <1>1
  <2>3. \A i \in 1..(Len(mem) - k) : k + i \in 1..Len(mem)
    BY <1>1
  <2>. QED
    BY <1>4, <1>5, <1>6, <2>1, <2>2, <2>3
<1>7. ASSUME NEW j \in 1..(Len(mem) - 1),
             new = Fresh(n) \o [i \in 1..Len(mem) |-> IF i <= j THEN Blank(mem[i]) ELSE mem[i]]
      PROVE  \A i \in 1..Len(new) : new[i].cleared \/ new[i].by = "tool" => Kept(new[i].id)
  <2>. DEFINE rest == [i \in 1..Len(mem) |-> IF i <= j THEN Blank(mem[i]) ELSE mem[i]]
  <2>1. \A m \in Message : /\ Blank(m) \in Message /\ Blank(m).id = m.id
                           /\ Blank(m).cleared \/ Blank(m).by = "tool" => m.cleared \/ m.by = "tool"
    BY DEF Blank, Message, Sources
  <2>2. \A i \in 1..Len(mem) : rest[i] \in Message
    BY <1>1, <2>1
  <2>3. rest \in Seq(Message) /\ Len(rest) = Len(mem)
    BY <1>1, <2>2
  <2>4. \A i \in 1..Len(rest) : rest[i].cleared \/ rest[i].by = "tool" => Kept(rest[i].id)
    <3>. TAKE i \in 1..Len(rest)
    <3>1. i \in 1..Len(mem) /\ rest[i] \in {mem[i], Blank(mem[i])}
      BY <2>3
    <3>. QED
      BY <1>1, <1>4, <2>1, <3>1
  <2>. HIDE DEF rest
  <2>5. new = Fresh(n) \o rest
    BY <1>7 DEF rest
  <2>. QED
    BY <1>5, <2>3, <2>4, <2>5
<1>. QED
  BY <1>6, <1>7 DEF Compacted

\* A compaction, or /clear, keeps the bodies: it runs while all are kept.
LEMMA ReplaceKeepsBodies ==
  ASSUME BodiesInv, NEW new \in Seq(Message), NEW ok \in BOOLEAN,
         Replace(new, ok), WriteMarker(new, ok),
         readable => \A i \in 1..Len(new) : new[i].cleared \/ new[i].by = "tool" => Kept(new[i].id)
  PROVE  BodiesInv'
<1>1. mem' = new /\ unlucky' = unlucky /\ recorded' = recorded /\ (readable' => readable)
  BY DEF Replace, WriteMarker, AppendLine, AppendFails, Marker
<1>2. \A i : Kept(i)' <=> Kept(i)
  BY <1>1 DEF Kept
<1>3. view' \in {view, new}
  BY DEF WriteMarker, AppendLine, AppendFails, Marker, Apply
<1>4. readable' => KeptUpTo(mem, Claimed)'
  BY <1>1, <1>2 DEF KeptUpTo
<1>5. readable' => KeptUpTo(view, Len(view))'
  <2>1. CASE view' = view
    BY <1>1, <1>2, <2>1 DEF KeptUpTo, BodiesInv
  <2>2. CASE view' = new
    BY <1>1, <1>2, <2>2 DEF KeptUpTo
  <2>. QED
    BY <1>3, <2>1, <2>2
<1>. QED
  BY <1>1, <1>4, <1>5, NoLineKeeps DEF BodiesInv

\* The next message is written as a line of its own.
LEMMA PersistLineKeepsBodies ==
  ASSUME TypeOK, BodiesInv, PersistLine
  PROVE  BodiesInv'
<1>. DEFINE m == mem[cursor + 1]
            line == [msg |-> m, origin |-> OriginOfNext]
            KeptNow(i) == i \in unlucky' \/ \E q \in recorded' : q.msg.id = i /\ ~q.msg.cleared
<1>1. /\ cursor \in Nat /\ cursor + 1 \in 1..Len(mem) /\ Len(mem) \in Nat
      /\ mem \in Seq(Message) /\ m \in Message /\ view \in Seq(Message)
  BY DEF TypeOK, BufferTypeOK, PersistLine, LineWritten, Persisting
<1>2. /\ mode \notin Settled /\ cursor' = cursor + 1
      /\ UNCHANGED <<mem, mode, unlucky, readable>>
  BY DEF PersistLine, LineWritten, AppendLine, Persisting, PersistCalls, Settled
<1>3. CASE ~readable
  <2>1. recorded' = recorded /\ ~readable'
    BY <1>2, <1>3 DEF PersistLine, AppendLine
  <2>. QED
    BY <1>2, <2>1, NoLineKeeps DEF BodiesInv
<1>4. CASE readable
  <2>1. recorded' = recorded \cup {line}
    BY <1>4 DEF PersistLine, AppendLine, NextLine
  <2>2. view' = view \o <<m>>
    BY <1>4 DEF PersistLine, AppendLine, NextLine, Apply
  <2>3. \A i : Kept(i) => KeptNow(i)
    BY <1>2, <2>1 DEF Kept
  <2>4. /\ KeptUpTo(mem, cursor) /\ KeptUpTo(view, Len(view)) /\ BodiesWritten
    BY <1>2, <1>4 DEF BodiesInv, Claimed
  <2>5. m.cleared => Kept(m.id)
    BY <1>1, <2>4 DEF KeptUpTo
  <2>6. KeptNow(m.id)
    <3>1. CASE m.cleared
      BY <2>3, <2>5, <3>1
    <3>2. CASE ~m.cleared
      <4>1. line \in recorded' /\ line.msg = m
        BY <2>1
      <4>2. line.msg.id = m.id /\ ~line.msg.cleared
        BY <3>2, <4>1
      <4>. QED
        BY <4>1, <4>2, Zenon
    <3>. QED
      BY <3>1, <3>2
  <2>7. BodiesWritten'
    <3>1. \A r \in recorded' : r.msg.cleared => KeptNow(r.msg.id)
      <4>. SUFFICES ASSUME NEW r \in recorded', r.msg.cleared PROVE KeptNow(r.msg.id)
        OBVIOUS
      <4>1. CASE r = line
        BY <2>6, <4>1
      <4>2. CASE r \in recorded
        BY <2>3, <2>4, <4>2 DEF BodiesWritten, Kept
      <4>. QED
        BY <2>1, <4>1, <4>2
    <3>. QED
      BY <3>1 DEF BodiesWritten
  <2>8. KeptUpTo(mem, Claimed)'
    <3>1. Claimed' = cursor + 1
      BY <1>2 DEF Claimed
    <3>. SUFFICES ASSUME NEW i \in 1..Len(mem),
                         mem[i].cleared \/ (mem[i].by = "tool" /\ i <= cursor + 1)
                  PROVE  KeptNow(mem[i].id)
      BY <1>2, <3>1 DEF KeptUpTo, Kept
    <3>2. CASE i = cursor + 1
      BY <2>6, <3>2
    <3>3. CASE i # cursor + 1
      BY <1>1, <2>3, <2>4, <3>3 DEF KeptUpTo
    <3>. QED
      BY <3>2, <3>3
  <2>9. KeptUpTo(view, Len(view))'
    <3>1. /\ Len(view') = Len(view) + 1 /\ Len(view) \in Nat
          /\ view'[Len(view) + 1] = m /\ \A i \in 1..Len(view) : view'[i] = view[i]
      BY <1>1, <2>2
    <3>. SUFFICES ASSUME NEW i \in 1..Len(view'), view'[i].cleared \/ view'[i].by = "tool"
                  PROVE  KeptNow(view'[i].id)
      BY DEF KeptUpTo, Kept
    <3>2. CASE i = Len(view) + 1
      BY <2>6, <3>1, <3>2
    <3>3. CASE i \in 1..Len(view)
      BY <2>3, <2>4, <3>1, <3>3 DEF KeptUpTo
    <3>. QED
      BY <3>1, <3>2, <3>3
  <2>. QED
    BY <2>7, <2>8, <2>9 DEF BodiesInv
<1>. QED
  BY <1>3, <1>4

\* A step that only moves the mode: what it claims more has to be kept.
LEMMA ModeStepKeeps ==
  ASSUME TypeOK, BodiesInv, UNCHANGED <<mem, cursor, unlucky, storeVars>>,
         mode' \in Settled => mode \in Settled \/ cursor = Len(mem)
  PROVE  BodiesInv'
<1>1. \A i : Kept(i)' <=> Kept(i)
  BY DEF Kept, storeVars
<1>2. cursor \in Nat /\ Len(mem) \in Nat /\ cursor <= Len(mem)
  BY DEF TypeOK, BufferTypeOK
<1>3. Claimed \in Nat /\ Claimed' \in Nat /\ Claimed' <= Claimed
  BY <1>2 DEF Claimed
<1>4. readable' => KeptUpTo(mem, Claimed)'
  BY <1>1, <1>3 DEF KeptUpTo, BodiesInv, storeVars
<1>5. readable' => KeptUpTo(view, Len(view))'
  BY <1>1 DEF KeptUpTo, BodiesInv, storeVars
<1>. QED
  BY <1>4, <1>5, NoLineKeeps DEF BodiesInv, storeVars

\* A message is added at the end of the list, not yet written.
LEMMA AppendKeepsBodies ==
  ASSUME TypeOK, BodiesInv, UNCHANGED <<cursor, unlucky, storeVars>>,
         NEW o \in Sources, mem' = Append(mem, MessageOf(o)),
         \/ mode \notin Settled /\ mode' = mode
         \/ mode \in Settled /\ o # "tool"
  PROVE  BodiesInv'
<1>1. \A i : Kept(i)' <=> Kept(i)
  BY DEF Kept, storeVars
<1>2. /\ cursor \in Nat /\ Len(mem) \in Nat /\ cursor <= Len(mem)
      /\ Len(mem') = Len(mem) + 1 /\ \A i \in 1..Len(mem) : mem'[i] = mem[i]
      /\ mem'[Len(mem) + 1] = MessageOf(o)
  BY DEF TypeOK, BufferTypeOK
<1>3. ~MessageOf(o).cleared /\ MessageOf(o).by = o
  BY DEF MessageOf
<1>4. readable' => KeptUpTo(mem, Claimed)'
  <2>. SUFFICES ASSUME readable, NEW i \in 1..Len(mem'),
                       mem'[i].cleared \/ (mem'[i].by = "tool" /\ i <= Claimed')
                PROVE  Kept(mem'[i].id)
    BY <1>1 DEF KeptUpTo, storeVars
  <2>1. i \in 1..Len(mem)
    <3>1. CASE mode \in Settled
      BY <1>2, <1>3, <3>1
    <3>2. CASE mode \notin Settled
      <4>1. Claimed' = cursor
        BY <3>2 DEF Claimed
      <4>. QED
        BY <1>2, <1>3, <4>1
    <3>. QED
      BY <3>1, <3>2
  <2>2. i <= Claimed' => i <= Claimed
    BY <1>2, <2>1 DEF Claimed
  <2>. QED
    BY <1>2, <2>1, <2>2 DEF KeptUpTo, BodiesInv
<1>5. readable' => KeptUpTo(view, Len(view))'
  BY <1>1 DEF KeptUpTo, BodiesInv, storeVars
<1>. QED
  BY <1>4, <1>5, NoLineKeeps DEF BodiesInv, storeVars

(***************************************************************************)
(* Whatever fails, however often results are blanked, compacted, crashed   *)
(* over and resumed: a tool result is on disk without its body only if     *)
(* writing it had failed, or if its body is on another line.               *)
(***************************************************************************)
THEOREM BodiesAreWritten == Spec => []BodiesWritten
<1>1. Init => BodiesInv
  <2>. SUFFICES ASSUME Init PROVE BodiesInv
    OBVIOUS
  <2>1. mem = <<>> /\ view = <<>> /\ recorded = {}
    BY DEF Init, BufferInit
  <2>2. \A n : KeptUpTo(<<>>, n)
    BY DEF KeptUpTo
  <2>. QED
    BY <2>1, <2>2 DEF BodiesInv, BodiesWritten
<1>2. TypeOK /\ BodiesInv /\ [Next]_vars => BodiesInv'
  <2>. SUFFICES ASSUME TypeOK, BodiesInv, [Next]_vars PROVE BodiesInv'
    OBVIOUS
  <2>0. /\ cursor \in Nat /\ cursor <= Len(mem) /\ mem \in Seq(Message) /\ Len(mem) \in Nat
        /\ \A n : KeptUpTo(<<>>, n)
    BY DEF TypeOK, BufferTypeOK, KeptUpTo
  <2>1. CASE InMemory
    <3>0. UNCHANGED storeVars
      BY <2>1 DEF InMemory
    <3>1. CASE BeginTurn
      BY <3>0, <3>1, ModeStepKeeps DEF BeginTurn, Goto, Settled
    <3>2. CASE PersistDone
      BY <2>0, <3>0, <3>2, ModeStepKeeps DEF PersistDone
    <3>3. CASE AgingDone \/ ModelDone
      BY <3>0, <3>3, ModeStepKeeps DEF AgingDone, ModelDone, Goto, Settled
    <3>4. CASE Warn
      <4>1. mode \in Settled /\ "engine" \in Sources /\ "engine" # "tool"
        BY <3>4 DEF Warn, Settled, Sources
      <4>. QED
        BY <3>0, <3>4, <4>1, AppendKeepsBodies DEF Warn
    <3>5. CASE Crash
      <4>1. mem' = <<>> /\ unlucky' = unlucky
        BY <3>5 DEF Crash
      <4>2. readable' => KeptUpTo(mem, Claimed)' /\ KeptUpTo(view, Len(view))'
        BY <3>0, <4>1 DEF BodiesInv, KeptUpTo, Kept, storeVars
      <4>. QED
        BY <3>0, <4>1, <4>2, NoLineKeeps DEF BodiesInv, storeVars
    <3>6. ASSUME NEW o \in Sources, Push(o) PROVE BodiesInv'
      <4>1. mode \notin Settled
        BY <3>6 DEF Push, Settled
      <4>. QED
        BY <3>0, <3>6, <4>1, AppendKeepsBodies DEF Push
    <3>7. ASSUME NEW p \in PersistCalls, BeginPersist(p) PROVE BodiesInv'
      BY <3>0, <3>7, ModeStepKeeps DEF BeginPersist, PersistCalls, Goto, Settled
    <3>8. ASSUME NEW k \in 1..Len(mem), Age(k) PROVE BodiesInv'
      <4>1. /\ mode \in Settled /\ UNCHANGED <<mode, cursor, unlucky>>
            /\ mem' = [mem EXCEPT ![k] = Blank(mem[k])]
        BY <3>8 DEF Age, Settled
      <4>2. /\ Len(mem') = Len(mem) /\ mem[k].by = "tool"
            /\ \A i \in 1..Len(mem) : mem[i] \in Message /\ mem'[i] \in {mem[i], Blank(mem[i])}
        BY <2>0, <3>8, <4>1 DEF Age
      <4>3. \A m \in Message : /\ Blank(m).id = m.id
                               /\ Blank(m).cleared \/ Blank(m).by = "tool" => m.cleared \/ m.by = "tool"
        BY DEF Blank, Message
      <4>4. \A i : Kept(i)' <=> Kept(i)
        BY <3>0, <4>1 DEF Kept, storeVars
      <4>5. readable' => KeptUpTo(mem, Claimed)'
        <5>. SUFFICES ASSUME readable, NEW i \in 1..Len(mem'), mem'[i].cleared \/ mem'[i].by = "tool"
                      PROVE  Kept(mem'[i].id)
          BY <3>0, <4>4 DEF KeptUpTo, storeVars
        <5>1. i \in 1..Len(mem) /\ (mem[i].cleared \/ mem[i].by = "tool") /\ mem'[i].id = mem[i].id
          BY <4>2, <4>3
        <5>2. KeptUpTo(mem, Len(mem))
          BY <4>1 DEF BodiesInv, Claimed
        <5>. QED
          BY <2>0, <5>1, <5>2 DEF KeptUpTo
      <4>6. readable' => KeptUpTo(view, Len(view))'
        BY <3>0, <4>4 DEF BodiesInv, KeptUpTo, storeVars
      <4>. QED
        BY <3>0, <4>1, <4>5, <4>6, NoLineKeeps DEF BodiesInv, storeVars
    <3>. QED
      BY <2>1, <3>1, <3>2, <3>3, <3>4, <3>5, <3>6, <3>7, <3>8 DEF InMemory
  <2>2. CASE PersistLine
    BY <2>2, PersistLineKeepsBodies
  <2>3. CASE PersistFails
    <3>1. /\ UNCHANGED <<mem, view, cursor, recorded>> /\ mode \notin Settled
          /\ unlucky' = unlucky \cup {mem[i].id : i \in (cursor + 1)..Len(mem)}
          /\ readable' => readable
      BY <2>3 DEF PersistFails, LineFailed, AppendFails, Persisting, PersistCalls, Settled
    <3>2. \A i : Kept(i) => Kept(i)'
      BY <3>1 DEF Kept
    <3>3. \A i \in (cursor + 1)..Len(mem) : mem[i].id \in unlucky'
      BY <3>1
    <3>4. readable' => KeptUpTo(mem, Claimed)'
      <4>. SUFFICES ASSUME readable, NEW i \in 1..Len(mem), mem[i].cleared \/ mem[i].by = "tool"
                    PROVE  \A id : id = mem[i].id => Kept(id)'
        BY <3>1 DEF KeptUpTo
      <4>1. CASE i \in (cursor + 1)..Len(mem)
        BY <3>3, <4>1 DEF Kept
      <4>2. CASE i \in 1..cursor
        <5>1. Kept(mem[i].id)
          BY <3>1, <4>2 DEF BodiesInv, KeptUpTo, Claimed
        <5>. QED
          BY <3>2, <5>1
      <4>. QED
        BY <2>0, <4>1, <4>2
    <3>5. readable' => KeptUpTo(view, Len(view))'
      BY <3>1, <3>2 DEF BodiesInv, KeptUpTo
    <3>. QED
      BY <3>1, <3>4, <3>5, NoLineKeeps DEF BodiesInv
  <2>4. ASSUME NEW n \in 0..MaxFresh, NEW ok \in BOOLEAN, CompactWith(n, ok)
        PROVE  BodiesInv'
    <3>1. PICK new \in Compacted(n) :
            (Compact(new, n, ok) \/ CompactAndRetry(new, n, ok)) /\ WriteMarker(new, ok)
      BY <2>4 DEF CompactWith
    <3>2. n \in Nat
      BY BufferAssumption
    <3>3. new \in Seq(Message)
      BY <3>2, CompactedType DEF TypeOK
    <3>4. Replace(new, ok) /\ mode \in Settled
      BY <3>1 DEF Compact, CompactAndRetry, Settled
    <3>5. readable => KeptUpTo(mem, Len(mem))
      BY <3>4 DEF BodiesInv, Claimed
    <3>6. readable => \A i \in 1..Len(new) : new[i].cleared \/ new[i].by = "tool" => Kept(new[i].id)
      BY <3>2, <3>5, CompactedKept
    <3>. QED
      BY <3>1, <3>3, <3>4, <3>6, ReplaceKeepsBodies
  <2>5. ASSUME NEW ok \in BOOLEAN, ClearAll(ok) PROVE BodiesInv'
    <3>1. <<>> \in Seq(Message) /\ Len(<<>>) = 0
      OBVIOUS
    <3>2. Replace(<<>>, ok) /\ WriteMarker(<<>>, ok)
      BY <2>5 DEF ClearAll, Clear
    <3>3. \A i \in 1..Len(<<>>) : <<>>[i].cleared \/ <<>>[i].by = "tool" => Kept(<<>>[i].id)
      BY <3>1
    <3>. QED
      BY <3>1, <3>2, <3>3, ReplaceKeepsBodies, Zenon
  <2>6. CASE ResumeView
    <3>1. mem' = view /\ UNCHANGED <<view, recorded, readable, unlucky>> /\ cursor' = Len(view)
      BY <2>6 DEF ResumeView, Resume, storeVars
    <3>2. \A i : Kept(i)' <=> Kept(i)
      BY <3>1 DEF Kept
    <3>3. readable' => KeptUpTo(mem, Claimed)' /\ KeptUpTo(view, Len(view))'
      <4>1. Claimed' = Len(view)
        BY <3>1 DEF Claimed
      <4>. QED
        BY <3>1, <3>2, <4>1 DEF BodiesInv, KeptUpTo
    <3>. QED
      BY <3>1, <3>3, NoLineKeeps DEF BodiesInv
  <2>7. CASE UNCHANGED vars
    BY <2>7, ModeStepKeeps DEF vars, bufferVars
  <2>8. CASE ResumeFails
    <3>1. mem' = <<>> /\ UNCHANGED <<view, recorded, unlucky>> /\ (readable' => readable)
      BY <2>8 DEF ResumeFails, StartEmpty, AppendFails
    <3>2. \A i : Kept(i)' <=> Kept(i)
      BY <3>1 DEF Kept
    <3>3. readable' => KeptUpTo(mem, Claimed)' /\ KeptUpTo(view, Len(view))'
      BY <3>1, <3>2 DEF BodiesInv, KeptUpTo
    <3>. QED
      BY <3>1, <3>3, NoLineKeeps DEF BodiesInv
  <2>. QED
    BY <2>1, <2>2, <2>3, <2>4, <2>5, <2>6, <2>7, <2>8 DEF Next
<1>3. BodiesInv => BodiesWritten
  BY DEF BodiesInv
<1>. QED
  BY <1>1, <1>2, <1>3, TypeCorrect, PTL DEF Spec
=============================================================================

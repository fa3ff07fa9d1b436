----------------------- MODULE JsonlTranscriptProofs -----------------------
(***************************************************************************)
(* Proof that JsonlTranscript implements Transcript, for files of any      *)
(* length, and what follows from it for the file.  The projection is a     *)
(* loop over the lines, so that three facts need induction: the recursion  *)
(* has a solution, two files that agree up to a line give the same         *)
(* conversation there, and a file that cannot be loaded has a first line   *)
(* that does not parse.  Induction is over sets of numbers, from the       *)
(* well-foundedness of <.                                                  *)
(***************************************************************************)
EXTENDS JsonlTranscript, WellFoundedInduction, TLAPS

-----------------------------------------------------------------------------
(* Induction.                                                              *)

\* A set that holds 0 and, with each number, the next holds every number.  (Its complement
\* would have a least element.)
LEMMA Induction ==
  ASSUME NEW S, 0 \in S, \A n \in Nat : n \in S => n + 1 \in S
  PROVE  Nat \subseteq S
<1>. DEFINE R == OpToRel(<, Nat)
            T == Nat \ S
<1>1. IsWellFoundedOn(R, Nat)
  BY NatLessThanWellFounded
<1>2. \A x, y \in Nat : x < y => <<x, y>> \in R
  BY DEF OpToRel
<1>. HIDE DEF R
<1>3. SUFFICES ASSUME T # {} PROVE FALSE
  OBVIOUS
<1>4. PICK m \in T : \A n \in T : ~(<<n, m>> \in R)
  <2>1. T \subseteq Nat
    OBVIOUS
  <2>. HIDE DEF T
  <2>. QED
    BY <1>1, <1>3, <2>1, WFMin
<1>5. m \in Nat /\ m # 0
  OBVIOUS
<1>6. m - 1 \in Nat /\ m - 1 < m /\ (m - 1) + 1 = m
  BY <1>5
<1>7. m - 1 \in T
  BY <1>6
<1>. QED
  BY <1>2, <1>4, <1>5, <1>6, <1>7

-----------------------------------------------------------------------------
(* The loop of project_messages.                                           *)

\* What the loop has to satisfy up to its nth line.
Reads(r, l, n) == r = [i \in 0..n |-> IF i = 0 THEN <<>> ELSE ApplyEntry(r[i - 1], l[i])]

\* The recursion has a solution for every length.
LEMMA ReadsExists ==
  ASSUME NEW l, NEW n \in Nat
  PROVE  \E r : Reads(r, l, n)
<1>. DEFINE S == {m \in Nat : \E r : Reads(r, l, m)}
<1>1. 0 \in S
  <2>1. Reads([i \in 0..0 |-> <<>>], l, 0)
    BY DEF Reads
  <2>. QED
    BY <2>1
<1>2. ASSUME NEW m \in Nat, m \in S PROVE m + 1 \in S
  <2>1. PICK r : Reads(r, l, m)
    BY <1>2
  <2>. DEFINE q == [i \in 0..(m + 1) |-> IF i <= m THEN r[i] ELSE ApplyEntry(r[m], l[m + 1])]
  <2>2. \A i \in 0..(m + 1) :
          q[i] = IF i = 0 THEN <<>> ELSE ApplyEntry(q[i - 1], l[i])
    <3>. TAKE i \in 0..(m + 1)
    <3>1. CASE i = 0
      BY <2>1, <3>1 DEF Reads
    <3>2. CASE i \in 1..m
      <4>1. i \in 0..m /\ i - 1 \in 0..m /\ i # 0 /\ i <= m /\ i - 1 <= m /\ i - 1 \in 0..(m + 1)
        BY <3>2
      <4>2. q[i] = r[i] /\ q[i - 1] = r[i - 1]
        BY <4>1
      <4>3. r[i] = ApplyEntry(r[i - 1], l[i])
        BY <2>1, <4>1 DEF Reads
      <4>. QED
        BY <4>1, <4>2, <4>3
    <3>3. CASE i = m + 1
      <4>1. q[i] = ApplyEntry(r[m], l[m + 1]) /\ q[m] = r[m] /\ i - 1 = m /\ i # 0
        BY <3>3
      <4>. QED
        BY <3>3, <4>1
    <3>. QED
      BY <3>1, <3>2, <3>3
  <2>3. q = [i \in 0..(m + 1) |-> q[i]]
    OBVIOUS
  <2>. HIDE DEF q
  <2>4. q = [i \in 0..(m + 1) |-> IF i = 0 THEN <<>> ELSE ApplyEntry(q[i - 1], l[i])]
    BY <2>2, <2>3
  <2>5. Reads(q, l, m + 1)
    BY <2>4 DEF Reads
  <2>. QED
    BY <2>5
<1>. HIDE DEF S
<1>3. Nat \subseteq S
  BY <1>1, <1>2, Induction
<1>. QED
  BY <1>3 DEF S

\* So the definition is one: each line is applied to what the lines before it gave.
LEMMA ReadingReads ==
  ASSUME NEW l, Len(l) \in Nat
  PROVE  Reads(Reading(l), l, Len(l))
<1>1. \E r : r = [i \in 0..Len(l) |-> IF i = 0 THEN <<>> ELSE ApplyEntry(r[i - 1], l[i])]
  BY ReadsExists DEF Reads
<1>2. Reading(l) =
        CHOOSE r : r = [i \in 0..Len(l) |-> IF i = 0 THEN <<>> ELSE ApplyEntry(r[i - 1], l[i])]
  BY DEF Reading
<1>. QED
  BY <1>1, <1>2 DEF Reads

\* Two files that agree up to a line give the same conversation there.
LEMMA ReadsSame ==
  ASSUME NEW l, NEW k, NEW b \in Nat, NEW n \in Nat, NEW r, NEW q,
         Reads(r, l, b), Reads(q, k, n), b <= n, \A i \in 1..b : l[i] = k[i]
  PROVE  r[b] = q[b]
<1>. DEFINE S == {i \in Nat : i <= b => r[i] = q[i]}
<1>1. 0 \in S
  BY DEF Reads
<1>2. ASSUME NEW i \in Nat, i \in S PROVE i + 1 \in S
  <2>. SUFFICES ASSUME i + 1 <= b PROVE r[i + 1] = q[i + 1]
    OBVIOUS
  <2>1. /\ i + 1 \in 0..b /\ i + 1 \in 0..n /\ i + 1 # 0 /\ (i + 1) - 1 = i /\ i + 1 \in 1..b
        /\ i <= b
    OBVIOUS
  <2>2. r[i + 1] = ApplyEntry(r[i], l[i + 1]) /\ q[i + 1] = ApplyEntry(q[i], k[i + 1])
    BY <2>1 DEF Reads
  <2>3. r[i] = q[i] /\ l[i + 1] = k[i + 1]
    BY <1>2, <2>1
  <2>. QED
    BY <2>2, <2>3
<1>. HIDE DEF S
<1>3. b \in S
  BY <1>1, <1>2, Induction
<1>. QED
  BY <1>3 DEF S

\* One more line is one more step of the loop.
LEMMA ProjectAppend ==
  ASSUME NEW L, NEW l \in Seq(L), NEW e \in L
  PROVE  Project(Append(l, e)) = ApplyEntry(Project(l), e)
<1>. DEFINE a == Append(l, e)
            n == Len(l)
<1>1. n \in Nat /\ Len(a) = n + 1 /\ a[n + 1] = e /\ \A i \in 1..n : l[i] = a[i]
  OBVIOUS
<1>. HIDE DEF a, n
<1>2. Reads(Reading(l), l, n)
  BY <1>1, ReadingReads DEF n
<1>3. Reads(Reading(a), a, n + 1)
  BY <1>1, ReadingReads
<1>4. Reading(l)[n] = Reading(a)[n]
  <2>1. n <= n + 1 /\ n + 1 \in Nat
    BY <1>1
  <2>. QED
    BY <1>1, <1>2, <1>3, <2>1, ReadsSame
<1>5. Reading(a)[n + 1] = ApplyEntry(Reading(a)[n], a[n + 1])
  <2>1. n + 1 \in 0..(n + 1) /\ n + 1 # 0 /\ (n + 1) - 1 = n
    BY <1>1
  <2>. QED
    BY <1>3, <2>1 DEF Reads
<1>. QED
  BY <1>1, <1>4, <1>5 DEF Project, a, n

-----------------------------------------------------------------------------
(* The part of the file that parses.                                       *)

\* n lines parse, and the next one does not.
ParsesUpTo(l, n) ==
  /\ n \in 0..Len(l)
  /\ \A i \in 1..n : ~Bad(l[i])
  /\ n < Len(l) => Bad(l[n + 1])

\* There is such a number, and only one.
LEMMA ParsedIs ==
  ASSUME NEW l, Len(l) \in Nat, NEW n, ParsesUpTo(l, n)
  PROVE  Parsed(l) = SubSeq(l, 1, n)
<1>. DEFINE c == CHOOSE m \in 0..Len(l) :
                   /\ \A i \in 1..m : ~Bad(l[i])
                   /\ m < Len(l) => Bad(l[m + 1])
<1>1. ParsesUpTo(l, c)
  BY DEF ParsesUpTo
<1>2. Parsed(l) = SubSeq(l, 1, c)
  BY DEF Parsed
<1>. HIDE DEF c
<1>3. c = n
  <2>1. c \in Nat /\ n \in Nat /\ c <= Len(l) /\ n <= Len(l)
    BY <1>1 DEF ParsesUpTo
  <2>2. ~(c < n)
    <3>. SUFFICES ASSUME c < n PROVE FALSE
      OBVIOUS
    <3>1. c < Len(l) /\ c + 1 \in 1..n
      BY <2>1
    <3>. QED
      BY <1>1, <3>1 DEF ParsesUpTo
  <2>3. ~(n < c)
    <3>. SUFFICES ASSUME n < c PROVE FALSE
      OBVIOUS
    <3>1. n < Len(l) /\ n + 1 \in 1..c
      BY <2>1
    <3>. QED
      BY <1>1, <3>1 DEF ParsesUpTo
  <2>. QED
    BY <2>1, <2>2, <2>3
<1>. QED
  BY <1>2, <1>3

\* A file that can be loaded parses to its end.
LEMMA ReadableParses ==
  ASSUME NEW L, NEW l \in Seq(L), Readable(l)
  PROVE  Parsed(l) = l
<1>1. ParsesUpTo(l, Len(l))
  BY DEF ParsesUpTo, Readable
<1>2. Parsed(l) = SubSeq(l, 1, Len(l))
  BY <1>1, ParsedIs
<1>. QED
  BY <1>2

\* Any other has a first line that does not parse.
LEMMA UnreadableParses ==
  ASSUME NEW L, NEW l \in Seq(L), ~Readable(l)
  PROVE  \E n \in 0..(Len(l) - 1) : ParsesUpTo(l, n) /\ Bad(l[n + 1])
<1>. DEFINE S == {n \in Nat : \A i \in 1..n : i <= Len(l) => ~Bad(l[i])}
<1>1. 0 \in S
  OBVIOUS
<1>2. Len(l) \notin S
  BY DEF Readable
<1>. HIDE DEF S
<1>3. PICK n \in Nat : n \in S /\ n + 1 \notin S
  BY <1>1, <1>2, Induction
<1>4. (\A i \in 1..n : i <= Len(l) => ~Bad(l[i])) /\ n + 1 <= Len(l) /\ Bad(l[n + 1])
  BY <1>3 DEF S
<1>. QED
  BY <1>4 DEF ParsesUpTo

\* What is written after a line that does not parse is not reached.
LEMMA ParsedUnreadable ==
  ASSUME NEW L, NEW l \in Seq(L), NEW k \in Seq(L), ~Readable(l), Len(l) <= Len(k),
         \A i \in 1..Len(l) : (l[i] = k[i]) \/ (i = Len(l) /\ Bad(l[i]) /\ Bad(k[i]))
  PROVE  Parsed(k) = Parsed(l) /\ ~Readable(k)
<1>1. PICK n \in 0..(Len(l) - 1) : ParsesUpTo(l, n) /\ Bad(l[n + 1])
  BY UnreadableParses
<1>2. Len(l) \in Nat /\ Len(k) \in Nat /\ n \in Nat /\ n + 1 \in 1..Len(l) /\ n + 1 \in 1..Len(k)
  BY <1>1
<1>3. \A i \in 1..n : i \in 1..Len(l) /\ i # Len(l) /\ l[i] = k[i] /\ ~Bad(l[i])
  BY <1>1, <1>2 DEF ParsesUpTo
<1>4. Bad(k[n + 1])
  BY <1>1, <1>2
<1>5. ParsesUpTo(k, n)
  BY <1>2, <1>3, <1>4 DEF ParsesUpTo
<1>6. Parsed(k) = SubSeq(k, 1, n) /\ Parsed(l) = SubSeq(l, 1, n)
  BY <1>1, <1>2, <1>5, ParsedIs
<1>7. SubSeq(k, 1, n) = SubSeq(l, 1, n)
  <2>1. SubSeq(k, 1, n) = [i \in 1..n |-> k[i]] /\ SubSeq(l, 1, n) = [i \in 1..n |-> l[i]]
    BY <1>2
  <2>. QED
    BY <1>3, <2>1
<1>. QED
  BY <1>2, <1>4, <1>6, <1>7 DEF Readable

-----------------------------------------------------------------------------
(* What an append does to the store that the file is read as.              *)

Kinds == {"meta", "message", "compact", "torn", "garbled"}
Lines == [kind : Kinds, view : Seq(Message), origin : Origins]

\* The file is never empty: it starts with the Meta line.
LogOK == log \in Seq(Lines) /\ log # <<>>

\* To a file that can be loaded, a line that parses.
LEMMA AppendReadable ==
  ASSUME NEW l \in Seq(Lines), NEW e \in Lines, Readable(l), ~Bad(e)
  PROVE  /\ Readable(Append(l, e))
         /\ Project(Parsed(Append(l, e))) = ApplyEntry(Project(Parsed(l)), e)
         /\ Recorded(Parsed(Append(l, e))) =
              IF e.kind = "message"
              THEN Recorded(Parsed(l)) \cup {[msg |-> e.view[1], origin |-> e.origin]}
              ELSE Recorded(Parsed(l))
<1>. DEFINE a == Append(l, e)
<1>1. a \in Seq(Lines) /\ Len(a) = Len(l) + 1 /\ a[Len(l) + 1] = e
        /\ \A i \in 1..Len(l) : a[i] = l[i]
  OBVIOUS
<1>2. Len(l) \in Nat /\ DOMAIN l = 1..Len(l) /\ DOMAIN a = 1..(Len(l) + 1)
  OBVIOUS
<1>. HIDE DEF a
<1>3. Readable(a)
  <2>. SUFFICES ASSUME NEW i \in 1..(Len(l) + 1) PROVE ~Bad(a[i])
    BY <1>2 DEF Readable
  <2>1. CASE i = Len(l) + 1
    BY <1>1, <2>1
  <2>2. CASE i \in 1..Len(l)
    BY <1>1, <1>2, <2>2 DEF Readable
  <2>. QED
    BY <1>2, <2>1, <2>2
<1>4. Parsed(a) = a /\ Parsed(l) = l
  BY <1>1, <1>3, ReadableParses
<1>5. Project(a) = ApplyEntry(Project(l), e)
  BY ProjectAppend DEF a
<1>6. ToSet(a) = ToSet(l) \cup {e}
  <2>1. ToSet(a) = {a[i] : i \in 1..(Len(l) + 1)} /\ ToSet(l) = {l[i] : i \in 1..Len(l)}
    BY <1>2 DEF ToSet
  <2>2. \A i \in 1..(Len(l) + 1) : i \in 1..Len(l) \/ i = Len(l) + 1
    BY <1>2
  <2>3. Len(l) + 1 \in 1..(Len(l) + 1) /\ \A i \in 1..Len(l) : i \in 1..(Len(l) + 1)
    BY <1>2
  <2>. QED
    BY <1>1, <2>1, <2>2, <2>3
<1>7. Recorded(a) = IF e.kind = "message"
                    THEN Recorded(l) \cup {[msg |-> e.view[1], origin |-> e.origin]}
                    ELSE Recorded(l)
  BY <1>6 DEF Recorded
<1>. QED
  BY <1>3, <1>4, <1>5, <1>7 DEF a

\* append_tagged that succeeds, whatever the end of the file.
LEMMA AppendLineStores ==
  ASSUME LogOK, NEW e \in Lines, ~Bad(e), AppendLine(e)
  PROVE  /\ LogOK'
         /\ Readable(log') = Readable(log)
         /\ Project(Parsed(log')) =
              IF Readable(log) THEN ApplyEntry(Project(Parsed(log)), e) ELSE Project(Parsed(log))
         /\ Recorded(Parsed(log')) =
              IF Readable(log) /\ e.kind = "message"
              THEN Recorded(Parsed(log)) \cup {[msg |-> e.view[1], origin |-> e.origin]}
              ELSE Recorded(Parsed(log))
<1>1. log \in Seq(Lines) /\ Len(log) \in Nat \ {0}
  BY DEF LogOK
<1>2. CASE Last(log).kind = "torn"
  <2>1. log' = Append(Front(log), Garbled)
    BY <1>2 DEF AppendLine
  <2>2. Garbled \in Lines
    BY DEF Garbled, Line, Lines, Kinds, Origins
  <2>3. Front(log) \in Seq(Lines) /\ Len(Front(log)) = Len(log) - 1
        /\ \A i \in 1..(Len(log) - 1) : Front(log)[i] = log[i]
    <3>1. PICK n \in Nat : Len(log) = n + 1
      <4>1. Len(log) - 1 \in Nat /\ Len(log) = (Len(log) - 1) + 1
        BY <1>1
      <4>. QED
        BY <4>1
    <3>2. Front(log) = SubSeq(log, 1, n)
      BY <1>1, <3>1 DEF Front
    <3>. QED
      BY <1>1, <3>1, <3>2
  <2>4. log' \in Seq(Lines) /\ Len(log') = Len(log) /\ log'[Len(log)] = Garbled
        /\ \A i \in 1..(Len(log) - 1) : log'[i] = log[i]
    BY <1>1, <2>1, <2>2, <2>3
  <2>5. Bad(log[Len(log)]) /\ Bad(Garbled)
    BY <1>2 DEF Last, Bad, Garbled, Line
  <2>6. ~Readable(log)
    BY <1>1, <2>5 DEF Readable
  <2>7. \A i \in 1..Len(log) : log[i] = log'[i] \/ (i = Len(log) /\ Bad(log[i]) /\ Bad(log'[i]))
    BY <1>1, <2>4, <2>5
  <2>8. Parsed(log') = Parsed(log) /\ ~Readable(log')
    BY <1>1, <2>4, <2>6, <2>7, ParsedUnreadable
  <2>9. LogOK'
    BY <1>1, <2>4 DEF LogOK
  <2>. QED
    BY <2>6, <2>8, <2>9 DEF Readable
<1>3. CASE Last(log).kind # "torn"
  <2>1. log' = Append(log, e)
    BY <1>3 DEF AppendLine
  <2>2. LogOK'
    BY <1>1, <2>1 DEF LogOK
  <2>3. CASE Readable(log)
    <3>1. Readable(log')
      BY <1>1, <2>1, <2>3, AppendReadable
    <3>2. Readable(log) = Readable(log')
      BY <2>3, <3>1 DEF Readable
    <3>. QED
      BY <1>1, <2>1, <2>2, <2>3, <3>2, AppendReadable
  <2>4. CASE ~Readable(log)
    <3>1. log' \in Seq(Lines) /\ Len(log) <= Len(log') /\ \A i \in 1..Len(log) : log[i] = log'[i]
      BY <1>1, <2>1
    <3>2. Parsed(log') = Parsed(log) /\ ~Readable(log')
      BY <1>1, <2>4, <3>1, ParsedUnreadable
    <3>. QED
      BY <2>2, <2>4, <3>2 DEF Readable
  <2>. QED
    BY <2>3, <2>4
<1>. QED
  BY <1>2, <1>3

\* append_tagged that fails: the store stays, or cannot be loaded any more.
LEMMA AppendFailsStores ==
  ASSUME LogOK, AppendFails
  PROVE  /\ LogOK'
         /\ Readable(log') \in IF TornWrites THEN {Readable(log), FALSE} ELSE {Readable(log)}
         /\ Project(Parsed(log')) = Project(Parsed(log))
         /\ Recorded(Parsed(log')) = Recorded(Parsed(log))
<1>1. log \in Seq(Lines) /\ Len(log) \in Nat \ {0}
  BY DEF LogOK
<1>2. CASE log' = log
  BY <1>2 DEF LogOK
<1>3. CASE TornWrites /\ log' = Append(log, Torn)
  <2>1. Torn \in Lines /\ Bad(Torn)
    BY DEF Torn, Line, Lines, Kinds, Origins, Bad
  <2>2. log' \in Seq(Lines) /\ Len(log') = Len(log) + 1 /\ log'[Len(log) + 1] = Torn
        /\ \A i \in 1..Len(log) : log[i] = log'[i]
    BY <1>1, <1>3, <2>1
  <2>3. LogOK'
    BY <1>1, <2>2 DEF LogOK
  <2>4. ~Readable(log')
    <3>1. Len(log) + 1 \in DOMAIN log'
      BY <1>1, <2>2
    <3>. QED
      BY <2>1, <2>2, <3>1 DEF Readable
  <2>5. Parsed(log') = Parsed(log)
    <3>1. CASE Readable(log)
      <4>1. ParsesUpTo(log', Len(log))
        BY <1>1, <2>1, <2>2, <3>1 DEF ParsesUpTo, Readable
      <4>2. Parsed(log') = SubSeq(log', 1, Len(log))
        BY <1>1, <2>2, <4>1, ParsedIs
      <4>3. SubSeq(log', 1, Len(log)) = log
        BY <1>1, <2>2
      <4>. QED
        BY <1>1, <3>1, <4>2, <4>3, ReadableParses
    <3>2. CASE ~Readable(log)
      <4>1. Len(log) <= Len(log')
        BY <1>1, <2>2
      <4>. QED
        BY <1>1, <2>2, <3>2, <4>1, ParsedUnreadable
    <3>. QED
      BY <3>1, <3>2
  <2>6. Readable(log') = FALSE
    BY <2>4 DEF Readable
  <2>. QED
    BY <1>3, <2>3, <2>5, <2>6
<1>. QED
  BY <1>2, <1>3 DEF AppendFails

\* A Meta line changes no conversation.
LEMMA MetaStores ==
  ASSUME LogOK, Project(Parsed(log)) \in Seq(Message), AppendLine(Meta)
  PROVE  /\ LogOK'
         /\ Readable(log') = Readable(log)
         /\ Project(Parsed(log')) = Project(Parsed(log))
         /\ Recorded(Parsed(log')) = Recorded(Parsed(log))
<1>1. Meta \in Lines /\ ~Bad(Meta) /\ Meta.kind = "meta" /\ Meta.view = <<>>
  BY DEF Meta, Line, Lines, Kinds, Origins, Bad
<1>2. ApplyEntry(Project(Parsed(log)), Meta) = Project(Parsed(log))
  BY <1>1 DEF ApplyEntry
<1>. QED
  BY <1>1, <1>2, AppendLineStores

-----------------------------------------------------------------------------
(* The steps of the session over the file are steps over the store.        *)

\* The theorems of TranscriptProofs, of the store that the file is read as.
Proved ==
  INSTANCE TranscriptProofs WITH
    view <- Project(Parsed(log)),
    readable <- Readable(log),
    recorded <- Recorded(Parsed(log))

\* The types that TranscriptProofs speaks of are the ones of this file's messages.
LEMMA SameTypes ==
  /\ Proved!Message = Message /\ Proved!Origins = Origins
  /\ Proved!BufferTypeOK <=> BufferTypeOK
BY DEF Message, Proved!Message, Sources, Proved!Sources, Origins, Proved!Origins, BufferTypeOK,
   Proved!BufferTypeOK, Modes, Proved!Modes

\* What the calls do to the buffer does not depend on the store.
LEMMA SameBuffer ==
  /\ Proved!LineWritten <=> LineWritten
  /\ Proved!LineFailed <=> LineFailed
  /\ Proved!NextLine = NextLine
  /\ \A new : Proved!Marker(new) = Marker(new)
  /\ \A n : Proved!Compacted(n) = Compacted(n)
BY DEF LineWritten, Proved!LineWritten, LineFailed, Proved!LineFailed, NextLine,
   Proved!NextLine, Marker, Proved!Marker, Compacted, Proved!Compacted, Persisting,
   Proved!Persisting, PersistCalls, Proved!PersistCalls, OriginOfNext, Proved!OriginOfNext,
   Goto, Proved!Goto, AfterPersist, Proved!AfterPersist, Fresh, Proved!Fresh, Blank,
   Proved!Blank

\* Compactions and /clear.
LEMMA SameCompaction ==
  ASSUME NEW new, NEW n, NEW ok
  PROVE  /\ Proved!Compact(new, n, ok) <=> Compact(new, n, ok)
         /\ Proved!CompactAndRetry(new, n, ok) <=> CompactAndRetry(new, n, ok)
         /\ Proved!Clear(ok) <=> Clear(ok)
BY DEF Compact, Proved!Compact, CompactAndRetry, Proved!CompactAndRetry, Clear, Proved!Clear,
   Replace, Proved!Replace, Truncated, Proved!Truncated, Goto, Proved!Goto

\* A resume, and a session that goes on without its history.
LEMMA SameResume ==
  ASSUME NEW loaded, NEW fault
  PROVE  /\ Proved!Resume(loaded) <=> Resume(loaded)
         /\ Proved!StartEmpty(fault) <=> StartEmpty(fault)
BY DEF Resume, Proved!Resume, StartEmpty, Proved!StartEmpty

\* Nothing is written.
LEMMA InMemoryRefines == InMemory => Proved!InMemory
BY DEF InMemory, Proved!InMemory, BeginTurn, Proved!BeginTurn, PersistDone, Proved!PersistDone,
   Warn, Proved!Warn, AgingDone, Proved!AgingDone, ModelDone, Proved!ModelDone, Crash,
   Proved!Crash, Push, Proved!Push, BeginPersist, Proved!BeginPersist, Age, Proved!Age, Sources,
   Proved!Sources, PersistCalls, Proved!PersistCalls, Goto, Proved!Goto, MessageOf,
   Proved!MessageOf, AfterPersist, Proved!AfterPersist, Blank, Proved!Blank, Proved!storeVars

\* An append to the file is an append to the store.
LEMMA AppendLineRefines ==
  ASSUME LogOK, NEW e \in Lines, ~Bad(e), AppendLine(e)
  PROVE  LogOK' /\ Proved!AppendLine(e)
<1>1. /\ LogOK'
      /\ Readable(log') = Readable(log)
      /\ Project(Parsed(log')) =
           IF Readable(log) THEN ApplyEntry(Project(Parsed(log)), e) ELSE Project(Parsed(log))
      /\ Recorded(Parsed(log')) =
           IF Readable(log) /\ e.kind = "message"
           THEN Recorded(Parsed(log)) \cup {[msg |-> e.view[1], origin |-> e.origin]}
           ELSE Recorded(Parsed(log))
  BY AppendLineStores
<1>2. ApplyEntry(Project(Parsed(log)), e) = Proved!Apply(e, Project(Parsed(log)))
  BY DEF ApplyEntry, Proved!Apply
<1>. QED
  BY <1>1, <1>2 DEF Proved!AppendLine

\* One that fails is one that fails, with the same loss.
LEMMA AppendFailsRefines ==
  ASSUME LogOK, AppendFails
  PROVE  LogOK' /\ Proved!AppendFails
BY AppendFailsStores DEF Proved!AppendFails

\* A step over the file, which keeps its shape, is a step over the store.
LEMMA StepRefines ==
  ASSUME LogOK, Proved!TypeOK, Next
  PROVE  LogOK' /\ Proved!Next
<1>1. BufferTypeOK /\ Project(Parsed(log)) \in Seq(Message)
  BY SameTypes DEF Proved!TypeOK
<1>2. CASE InMemory
  <2>1. LogOK'
    BY <1>2 DEF InMemory, LogOK
  <2>. QED
    BY <1>2, <2>1, InMemoryRefines DEF Proved!Next
<1>3. CASE PersistLine
  <2>1. LineWritten /\ AppendLine(NextLine)
    BY <1>3 DEF PersistLine
  <2>2. mem[cursor + 1] \in Message
    BY <1>1, <2>1 DEF LineWritten, Persisting, BufferTypeOK
  <2>3. NextLine \in Lines /\ ~Bad(NextLine)
    BY <2>2 DEF NextLine, OriginOfNext, Lines, Kinds, Origins, Bad
  <2>4. LogOK' /\ Proved!AppendLine(NextLine)
    BY <2>1, <2>3, AppendLineRefines
  <2>. QED
    BY <2>1, <2>4, SameBuffer DEF Proved!PersistLine, Proved!Next
<1>4. CASE PersistFails
  <2>1. LineFailed /\ AppendFails
    BY <1>4 DEF PersistFails
  <2>. QED
    BY <2>1, AppendFailsRefines, SameBuffer DEF Proved!PersistFails, Proved!Next
<1>5. ASSUME NEW new \in Seq(Message), NEW ok \in BOOLEAN, WriteMarker(new, ok)
      PROVE  LogOK' /\ Proved!WriteMarker(new, ok)
  <2>1. Marker(new) \in Lines /\ ~Bad(Marker(new))
    BY DEF Marker, Lines, Kinds, Origins, Bad
  <2>2. CASE ok
    <3>1. AppendLine(Marker(new))
      BY <1>5, <2>2 DEF WriteMarker
    <3>. QED
      BY <2>1, <2>2, <3>1, AppendLineRefines, SameBuffer DEF Proved!WriteMarker
  <2>3. CASE ~ok
    <3>1. AppendFails
      BY <1>5, <2>3 DEF WriteMarker
    <3>. QED
      BY <2>3, <3>1, AppendFailsRefines DEF Proved!WriteMarker
  <2>. QED
    BY <2>2, <2>3
<1>6. ASSUME NEW n \in 0..MaxFresh, NEW ok \in BOOLEAN, CompactWith(n, ok)
      PROVE  LogOK' /\ Proved!Next
  <2>1. PICK new \in Compacted(n) :
          (Compact(new, n, ok) \/ CompactAndRetry(new, n, ok)) /\ WriteMarker(new, ok)
    BY <1>6 DEF CompactWith
  <2>2. new \in Seq(Message)
    <3>1. n \in Nat
      BY BufferAssumption
    <3>. QED
      BY <1>1, <2>1, <3>1, BufferAssumption, JsonlAssumption, SameTypes, SameBuffer,
         Proved!CompactedType
  <2>3. LogOK' /\ Proved!WriteMarker(new, ok)
    BY <1>5, <2>1, <2>2
  <2>4. Proved!CompactWith(n, ok)
    BY <2>1, <2>3, SameBuffer, SameCompaction DEF Proved!CompactWith
  <2>. QED
    BY <2>3, <2>4 DEF Proved!Next
<1>7. ASSUME NEW ok \in BOOLEAN, ClearAll(ok)
      PROVE  LogOK' /\ Proved!Next
  <2>1. Clear(ok) /\ WriteMarker(<<>>, ok)
    BY <1>7 DEF ClearAll
  <2>2. LogOK' /\ Proved!WriteMarker(<<>>, ok)
    <3>1. <<>> \in Seq(Message)
      OBVIOUS
    <3>. QED
      BY <1>5, <2>1, <3>1
  <2>3. Proved!ClearAll(ok)
    BY <2>1, <2>2, SameCompaction DEF Proved!ClearAll
  <2>. QED
    BY <2>2, <2>3 DEF Proved!Next
<1>8. CASE Load
  <2>1. Readable(log) /\ Resume(Project(log)) /\ log' = log
    BY <1>8 DEF Load
  <2>2. Parsed(log) = log
    BY <2>1, ReadableParses DEF LogOK
  <2>3. Proved!ResumeView
    BY <2>1, <2>2, SameResume DEF Proved!ResumeView, Proved!storeVars
  <2>. QED
    BY <2>1, <2>3 DEF Proved!Next, LogOK
<1>9. CASE LoadFails
  <2>1. StartEmpty(Readable(log)) /\ (AppendLine(Meta) \/ AppendFails \/ log' = log)
    BY <1>9 DEF LoadFails
  <2>2. LogOK' /\ Proved!AppendFails
    <3>1. CASE AppendLine(Meta)
      BY <1>1, <3>1, MetaStores DEF Proved!AppendFails
    <3>2. CASE AppendFails
      BY <3>2, AppendFailsRefines
    <3>3. CASE log' = log
      BY <3>3 DEF Proved!AppendFails, LogOK
    <3>. QED
      BY <2>1, <3>1, <3>2, <3>3
  <2>3. Proved!ResumeFails
    BY <2>1, <2>2, SameResume DEF Proved!ResumeFails
  <2>. QED
    BY <2>2, <2>3 DEF Proved!Next
<1>. QED
  BY <1>2, <1>3, <1>4, <1>6, <1>7, <1>8, <1>9 DEF Next

-----------------------------------------------------------------------------
(* The refinement.                                                         *)

\* An empty file but for its Meta line is the empty store.
LEMMA InitRefines ==
  ASSUME Init
  PROVE  LogOK /\ Proved!Init
<1>1. Meta \in Lines /\ ~Bad(Meta) /\ Meta.kind = "meta" /\ Meta.view = <<>>
  BY DEF Meta, Line, Lines, Kinds, Origins, Bad
<1>2. log = <<Meta>> /\ log \in Seq(Lines) /\ Len(log) = 1 /\ log[1] = Meta
  BY <1>1 DEF Init
<1>3. Readable(log)
  BY <1>1, <1>2 DEF Readable
<1>4. Parsed(log) = log
  BY <1>2, <1>3, ReadableParses
<1>5. Project(log) = <<>>
  <2>1. Reads(Reading(log), log, 1)
    BY <1>2, ReadingReads
  <2>2. Reading(log)[0] = <<>> /\ Reading(log)[1] = ApplyEntry(Reading(log)[0], log[1])
    BY <2>1 DEF Reads
  <2>3. Reading(log)[1] = <<>> \o <<>>
    BY <1>1, <1>2, <2>2 DEF ApplyEntry
  <2>. QED
    BY <1>2, <2>3 DEF Project
<1>6. Recorded(log) = {}
  BY <1>1, <1>2 DEF Recorded, ToSet
<1>7. Readable(log) = TRUE
  BY <1>3 DEF Readable
<1>. QED
  BY <1>2, <1>4, <1>5, <1>6, <1>7 DEF Init, LogOK, Proved!Init, BufferInit, Proved!BufferInit

\* Reading the file means the same to TranscriptProofs and to JsonlTranscript.
LEMMA SameInit == Proved!Init <=> Store!Init
BY DEF Store!Init, Proved!Init, Store!BufferInit, Proved!BufferInit

\* The variables of the store are the same.
LEMMA SameVars == Proved!vars = Store!vars
BY DEF Store!vars, Proved!vars, Store!bufferVars, Proved!bufferVars, Store!storeVars,
       Proved!storeVars

\* So are its steps, action by action.
LEMMA SameNext == Proved!Next <=> Store!Next
<1>1. Proved!InMemory <=> Store!InMemory
  BY DEF Store!InMemory, Proved!InMemory, Store!BeginTurn, Proved!BeginTurn, Store!PersistDone,
     Proved!PersistDone, Store!Warn, Proved!Warn, Store!AgingDone, Proved!AgingDone,
     Store!ModelDone, Proved!ModelDone, Store!Crash, Proved!Crash, Store!Push, Proved!Push,
     Store!BeginPersist, Proved!BeginPersist, Store!Age, Proved!Age, Store!Sources,
     Proved!Sources, Store!PersistCalls, Proved!PersistCalls, Store!Goto, Proved!Goto,
     Store!MessageOf, Proved!MessageOf, Store!AfterPersist, Proved!AfterPersist, Store!Blank,
     Proved!Blank, Store!storeVars, Proved!storeVars
<1>2. /\ \A e : Proved!AppendLine(e) <=> Store!AppendLine(e)
      /\ Proved!AppendFails <=> Store!AppendFails
  BY DEF Store!AppendLine, Proved!AppendLine, Store!AppendFails, Proved!AppendFails,
     Store!Apply, Proved!Apply
<1>3. (Proved!PersistLine <=> Store!PersistLine) /\ (Proved!PersistFails <=> Store!PersistFails)
  BY <1>2 DEF Store!PersistLine, Proved!PersistLine, Store!PersistFails, Proved!PersistFails,
     Store!LineWritten, Proved!LineWritten, Store!LineFailed, Proved!LineFailed, Store!NextLine,
     Proved!NextLine, Store!Persisting, Proved!Persisting, Store!PersistCalls,
     Proved!PersistCalls, Store!OriginOfNext, Proved!OriginOfNext, Store!Goto, Proved!Goto,
     Store!AfterPersist, Proved!AfterPersist
<1>4. \A new, ok : Proved!WriteMarker(new, ok) <=> Store!WriteMarker(new, ok)
  BY <1>2 DEF Store!WriteMarker, Proved!WriteMarker, Store!Marker, Proved!Marker
<1>5. \A n : Proved!Compacted(n) = Store!Compacted(n)
  BY DEF Store!Compacted, Proved!Compacted, Store!Fresh, Proved!Fresh, Store!Blank, Proved!Blank
<1>6. \A new, n, ok : /\ Proved!Compact(new, n, ok) <=> Store!Compact(new, n, ok)
                      /\ Proved!CompactAndRetry(new, n, ok) <=> Store!CompactAndRetry(new, n, ok)
                      /\ Proved!Clear(ok) <=> Store!Clear(ok)
  BY DEF Store!Compact, Proved!Compact, Store!CompactAndRetry, Proved!CompactAndRetry,
     Store!Clear, Proved!Clear, Store!Replace, Proved!Replace, Store!Truncated,
     Proved!Truncated, Store!Goto, Proved!Goto
<1>7. \A n, ok : /\ Proved!CompactWith(n, ok) <=> Store!CompactWith(n, ok)
                 /\ Proved!ClearAll(ok) <=> Store!ClearAll(ok)
  BY <1>4, <1>5, <1>6 DEF Store!CompactWith, Proved!CompactWith, Store!ClearAll, Proved!ClearAll
<1>8. (Proved!ResumeView <=> Store!ResumeView) /\ (Proved!ResumeFails <=> Store!ResumeFails)
  BY <1>2 DEF Store!ResumeView, Proved!ResumeView, Store!ResumeFails, Proved!ResumeFails,
     Store!Resume, Proved!Resume, Store!StartEmpty, Proved!StartEmpty, Store!storeVars,
     Proved!storeVars
<1>. QED
  BY <1>1, <1>3, <1>7, <1>8 DEF Store!Next, Proved!Next

\* The file keeps its shape, and what it is read as the types of the store.
LogInv == LogOK /\ Proved!TypeOK

\* The file starts with its Meta line, holds lines only, and what is read from it is a
\* conversation with its record.
THEOREM LogInvariant == Spec => []LogInv
<1>1. Init => LogInv
  BY InitRefines, BufferAssumption, JsonlAssumption, Proved!TypeInit DEF LogInv
<1>2. LogInv /\ [Next]_vars => LogInv'
  <2>. SUFFICES ASSUME LogInv, [Next]_vars PROVE LogInv'
    OBVIOUS
  <2>1. CASE Next
    BY <2>1, StepRefines, BufferAssumption, JsonlAssumption, Proved!TypeStep DEF LogInv
  <2>2. CASE UNCHANGED vars
    BY <2>2, BufferAssumption, JsonlAssumption, Proved!TypeStep
    DEF LogInv, LogOK, vars, bufferVars, Proved!vars, Proved!bufferVars, Proved!storeVars
  <2>. QED
    BY <2>1, <2>2
<1>. QED
  BY <1>1, <1>2, PTL DEF Spec

(***************************************************************************)
(* The file of lines, read by folding them, is the store that Transcript   *)
(* describes: every append, also one that fails half-way, and every load.  *)
(***************************************************************************)
THEOREM FileIsStore == Spec => ImplementsStore
<1>1. Init => Store!Init
  BY InitRefines, SameInit
<1>2. LogInv /\ [Next]_vars => [Store!Next]_(Store!vars)
  <2>. SUFFICES ASSUME LogInv, [Next]_vars PROVE [Store!Next]_(Store!vars)
    OBVIOUS
  <2>1. CASE Next
    BY <2>1, StepRefines, SameNext DEF LogInv
  <2>2. CASE UNCHANGED vars
    BY <2>2 DEF vars, bufferVars, Store!vars, Store!bufferVars, Store!storeVars
  <2>. QED
    BY <2>1, <2>2
<1>. QED
  BY <1>1, <1>2, LogInvariant, PTL DEF Spec, ImplementsStore, Store!Spec

\* The same, as the specification that TranscriptProofs is about.
LEMMA SpecRefines == Spec => Proved!Spec
<1>1. Init => Proved!Init
  BY InitRefines
<1>2. LogInv /\ [Next]_vars => [Proved!Next]_(Proved!vars)
  <2>. SUFFICES ASSUME LogInv, [Next]_vars PROVE [Proved!Next]_(Proved!vars)
    OBVIOUS
  <2>1. CASE Next
    BY <2>1, StepRefines DEF LogInv
  <2>2. CASE UNCHANGED vars
    BY <2>2 DEF vars, bufferVars, Proved!vars, Proved!bufferVars, Proved!storeVars
  <2>. QED
    BY <2>1, <2>2
<1>. QED
  BY <1>1, <1>2, LogInvariant, PTL DEF Spec, Proved!Spec

(***************************************************************************)
(* So a resume from the file itself brings back what the cursor says is    *)
(* written, nothing is recorded as the user's that is not, and a tool      *)
(* result without its body was unlucky or is on an earlier line with it.   *)
(***************************************************************************)
THEOREM FileIsRecoverable ==
  Spec => [](Store!Recoverable /\ Store!NeverMisattributed /\ Store!BodiesWritten)
<1>1. Proved!Recoverable <=> Store!Recoverable
  BY DEF Proved!Recoverable, Store!Recoverable, Proved!EndsWith, Store!EndsWith
<1>2. Proved!NeverMisattributed <=> Store!NeverMisattributed
  BY DEF Proved!NeverMisattributed, Store!NeverMisattributed
<1>3. Proved!BodiesWritten <=> Store!BodiesWritten
  BY DEF Proved!BodiesWritten, Store!BodiesWritten
<1>4. Proved!Spec => []Proved!Recoverable
  BY BufferAssumption, JsonlAssumption, Proved!ConversationRecoverable, PTL
<1>5. Proved!Spec => []Proved!NeverMisattributed
  BY BufferAssumption, JsonlAssumption, Proved!Attributed, PTL
<1>6. Proved!Spec => []Proved!BodiesWritten
  BY BufferAssumption, JsonlAssumption, Proved!BodiesAreWritten, PTL
<1>. QED
  BY <1>1, <1>2, <1>3, <1>4, <1>5, <1>6, SpecRefines, PTL
=============================================================================

-------------------------- MODULE StreamExecProofs --------------------------
(***************************************************************************)
(* Proofs about module StreamExec, for every number of calls, every set of *)
(* tools and every permission rule.  The argument is StreamInv: an         *)
(* unfinished call is in the batch or is the sequential tool, and at each  *)
(* stage only one of the two is polled.  The second part is about module   *)
(* PermissionGate, the engine that decides on a call before it runs.       *)
(***************************************************************************)
EXTENDS StreamExec, PermissionGate, FiniteSetTheorems, WellFoundedInduction, TLAPS

IndInv == Typed /\ StreamInv /\ Consent

\* An element of a sequence over S is in S.
LEMMA ElementTyped ==
  ASSUME NEW S, NEW s \in Seq(S), NEW r \in 1..Len(s)
  PROVE  s[r] \in S
OBVIOUS

\* What is in the buffer of results is a result of some call.
LEMMA ResultTyped ==
  ASSUME NEW s \in Seq([idx : Calls, kind : Kinds]), NEW r \in 1..Len(s)
  PROVE  s[r].idx \in Calls
<1>1. s[r] \in [idx : Calls, kind : Kinds]
  BY ElementTyped
<1>. QED
  BY <1>1

\* A call that is polled has arrived.
LEMMA PolledArrived ==
  ASSUME Typed, StreamInv, NEW i \in Calls, Polled(i)
  PROVE  i \in 1..Len(asked) /\ tool[i] # "new"
<1>1. Len(asked) \in Nat
  BY DEF Typed
<1>2. i \in 1..Len(asked)
  BY <1>1, StreamAssumption DEF StreamInv, Arrived, StageInv, Polled, Sequential, Calls
<1>. QED
  BY <1>1, <1>2, StreamAssumption DEF StreamInv, Arrived, Calls

\* A call that is in the middle of its work is being polled.
LEMMA BusyIsPolled ==
  ASSUME Typed, StreamInv, NEW i \in Calls, tool[i] \notin {"new", "queued", "ended"}
  PROVE  Polled(i)
<1>1. Len(asked) \in Nat /\ i \in 1..Len(asked)
  BY StreamAssumption DEF Typed, StreamInv, Arrived, Calls
<1>2. i \in batch \/ (stage \in {"barrier", "sequential"} /\ i = Sequential)
  BY <1>1 DEF StreamInv, Unfinished
<1>3. CASE i \in batch
  BY <1>3 DEF Typed, Stages, StreamInv, StageInv, Polled
<1>4. CASE stage \in {"barrier", "sequential"} /\ i = Sequential
  BY <1>4 DEF StreamInv, StageInv, Polled
<1>. QED
  BY <1>2, <1>3, <1>4

\* What Ends leaves alone and what it moves, for a call that has not ended.
LEMMA EndsInv ==
  ASSUME Typed, StreamInv, NEW i \in Calls, Polled(i), tool[i] # "ended",
         NEW kind \in Kinds, Ends(i, kind), UNCHANGED asked
  PROVE  /\ stage' \in Stages /\ batch' \subseteq Calls /\ abort' \in BOOLEAN
         /\ tool' \in [Calls -> ToolStages]
         /\ results' \in Seq([idx : Calls, kind : Kinds])
         /\ Arrived' /\ Unfinished' /\ StageInv' /\ ResultInv'
         /\ tool'[i] = "ended"
         /\ \A j \in Calls : j # i => tool'[j] = tool[j]
<1>1. i \in 1..Len(asked) /\ tool[i] # "new" /\ Len(asked) \in Nat
  BY PolledArrived DEF Typed
<1>2. tool' = [tool EXCEPT ![i] = "ended"] /\ tool \in [Calls -> ToolStages]
  BY DEF Ends, Goto, Typed
<1>3. /\ tool' \in [Calls -> ToolStages] /\ tool'[i] = "ended"
      /\ \A j \in Calls : j # i => tool'[j] = tool[j]
  BY <1>2 DEF ToolStages
<1>4. /\ results' = Append(results, [idx |-> i, kind |-> kind])
      /\ results \in Seq([idx : Calls, kind : Kinds])
      /\ [idx |-> i, kind |-> kind] \in [idx : Calls, kind : Kinds]
  BY DEF Ends, Buffer, Typed
<1>5. /\ results' \in Seq([idx : Calls, kind : Kinds])
      /\ Len(results') = Len(results) + 1 /\ Len(results) \in Nat
      /\ results'[Len(results) + 1].idx = i
      /\ \A r \in 1..Len(results) : results'[r] = results[r]
  BY <1>4
<1>6. ResultInv'
  <2>1. \A r \in 1..Len(results) : results[r].idx \in Calls /\ results[r].idx # i
    BY <1>4, ResultTyped DEF StreamInv, ResultInv
  <2>2. \A j \in Calls : tool'[j] = "ended" <=> \E r \in 1..Len(results') : results'[r].idx = j
    <3>. TAKE j \in Calls
    <3>1. CASE j = i
      BY <3>1, <1>3, <1>5
    <3>2. CASE j # i
      <4>1. tool'[j] = tool[j]
        BY <3>2, <1>3
      <4>2. tool[j] = "ended" <=> \E r \in 1..Len(results) : results[r].idx = j
        BY DEF StreamInv, ResultInv
      <4>3. (\E r \in 1..Len(results) : results[r].idx = j)
              <=> (\E r \in 1..Len(results') : results'[r].idx = j)
        BY <1>5, <3>2
      <4>. QED
        BY <4>1, <4>2, <4>3
    <3>. QED
      BY <3>1, <3>2
  <2>3. \A r, q \in 1..Len(results') : results'[r].idx = results'[q].idx => r = q
    <3>1. \A r, q \in 1..Len(results) : results[r].idx = results[q].idx => r = q
      BY DEF StreamInv, ResultInv
    <3>. SUFFICES ASSUME NEW r \in 1..Len(results'), NEW q \in 1..Len(results'),
                         results'[r].idx = results'[q].idx
                  PROVE  r = q
      OBVIOUS
    <3>2. CASE r \in 1..Len(results) /\ q \in 1..Len(results)
      BY <3>1, <3>2, <1>5
    <3>3. CASE r = Len(results) + 1 \/ q = Len(results) + 1
      BY <3>3, <1>5, <2>1
    <3>. QED
      BY <3>2, <3>3, <1>5
  <2>. QED
    BY <2>2, <2>3 DEF ResultInv
<1>7. CASE stage = "sequential"
  <2>1. stage' = "stream" /\ batch' = {} /\ abort' = FALSE /\ i = Sequential /\ batch = {}
    BY <1>7 DEF Ends, Polled, StreamInv, StageInv
  <2>2. Arrived'
    BY <2>1, <1>1, <1>3 DEF StreamInv, Arrived, Calls
  <2>3. Unfinished'
    BY <2>1, <1>1, <1>3, <1>7, StreamAssumption DEF StreamInv, Unfinished, Sequential, Calls, Typed
  <2>4. StageInv'
    BY <2>1 DEF StageInv
  <2>. QED
    BY <2>1, <2>2, <2>3, <2>4, <1>3, <1>5, <1>6 DEF Stages
<1>8. CASE stage # "sequential"
  <2>1. /\ stage' = stage /\ batch' = batch \ {i} /\ i \in batch
        /\ abort' = (abort \/ kind \in {"error", "aborted"})
    BY <1>8 DEF Ends, Polled
  <2>2. Arrived'
    BY <2>1, <1>1, <1>3 DEF StreamInv, Arrived, Calls, Typed
  <2>3. Unfinished'
    BY <2>1, <1>1, <1>3, StreamAssumption DEF StreamInv, Unfinished, Sequential, Calls, Typed
  <2>4. StageInv'
    BY <2>1, <1>1, <1>3, <1>8, StreamAssumption DEF StreamInv, StageInv, Sequential, Calls, Typed, Polled
  <2>5. abort' \in BOOLEAN
    BY <2>1
  <2>. QED
    BY <2>1, <2>2, <2>3, <2>4, <2>5, <1>3, <1>5, <1>6 DEF Typed
<1>. QED
  BY <1>7, <1>8

\* A call ends, wherever it was: the rest of the invariant.
LEMMA EndsKeepsInv ==
  ASSUME IndInv, NEW i \in Calls, Polled(i), tool[i] # "ended",
         NEW kind \in Kinds, Ends(i, kind),
         UNCHANGED <<asked, granted, consented, cancelled, broken>>,
         \/ UNCHANGED <<registered, decision>> /\ tool[i] # "prompt"
         \/ LeavePrompt(i)
  PROVE  IndInv'
<1>. Typed /\ StreamInv /\ Consent
  BY DEF IndInv
<1>1. /\ stage' \in Stages /\ batch' \subseteq Calls /\ abort' \in BOOLEAN
      /\ tool' \in [Calls -> ToolStages]
      /\ results' \in Seq([idx : Calls, kind : Kinds])
      /\ Arrived' /\ Unfinished' /\ StageInv' /\ ResultInv'
      /\ tool'[i] = "ended"
      /\ \A j \in Calls : j # i => tool'[j] = tool[j]
  BY EndsInv
<1>2. registered' \subseteq registered \ {i}
  BY DEF LeavePrompt, StreamInv, PromptInv
<1>3. /\ decision' \in [Calls -> Decisions \cup {"none"}]
      /\ \A j \in Calls : decision'[j] = decision[j] \/ decision'[j] = "none"
  BY DEF LeavePrompt, Typed
<1>4. PromptInv'
  BY <1>1, <1>2, <1>3 DEF PromptInv, StreamInv, Typed
<1>5. Typed'
  BY <1>1, <1>2, <1>3 DEF Typed
<1>6. Consent'
  <2>1. 1..Len(asked) \subseteq Calls
    BY StreamAssumption DEF Typed, Calls
  <2>. QED
    BY <1>1, <2>1 DEF Consent, Rule
<1>. QED
  BY <1>1, <1>4, <1>5, <1>6 DEF IndInv, StreamInv

\* A call moves on to another stage of its work without ending.
LEMMA GotoKeepsInv ==
  ASSUME IndInv, NEW i \in Calls, Polled(i), tool[i] # "ended",
         NEW s \in {"hook", "prompt", "call"}, Goto(i, s),
         UNCHANGED <<stage, asked, batch, abort, results, cancelled, broken>>
  PROVE  /\ tool' \in [Calls -> ToolStages]
         /\ tool'[i] = s
         /\ \A j \in Calls : j # i => tool'[j] = tool[j]
         /\ Arrived' /\ Unfinished' /\ StageInv' /\ ResultInv'
<1>. Typed /\ StreamInv
  BY DEF IndInv
<1>1. i \in 1..Len(asked) /\ tool[i] # "new" /\ Len(asked) \in Nat
  BY PolledArrived DEF Typed
<1>2. /\ tool' \in [Calls -> ToolStages] /\ tool'[i] = s
      /\ \A j \in Calls : j # i => tool'[j] = tool[j]
  BY DEF Goto, Typed, ToolStages
<1>3. Arrived'
  BY <1>1, <1>2 DEF StreamInv, Arrived, Calls, Typed
<1>4. Unfinished'
  BY <1>1, <1>2, StreamAssumption DEF StreamInv, Unfinished, Sequential, Calls, Typed
<1>5. StageInv'
  <2>1. stage # "stream"
    BY DEF Polled
  <2>2. stage = "barrier" => i # Sequential /\ Sequential \in Calls
    BY <1>1, StreamAssumption DEF Polled, StreamInv, StageInv, Sequential, Calls, Typed
  <2>. QED
    BY <1>2, <2>1, <2>2 DEF StreamInv, StageInv, Sequential
<1>6. ResultInv'
  BY <1>2 DEF StreamInv, ResultInv
<1>. QED
  BY <1>2, <1>3, <1>4, <1>5, <1>6

\* A ToolUse arrives and is queued, in the batch or behind the barrier.
LEMMA ArriveKeepsInv ==
  ASSUME IndInv, NEW k \in Keys, Arrive(k)
  PROVE  IndInv'
<1>. Typed /\ StreamInv /\ Consent
  BY DEF IndInv
<1>. DEFINE n == Len(asked) + 1
<1>1. /\ asked \in Seq(Keys) /\ Len(asked) \in Nat /\ Len(asked) < MaxTools /\ stage = "stream"
      /\ asked' = Append(asked, k)
      /\ UNCHANGED <<abort, registered, decision, granted, consented, cancelled, broken>>
  BY DEF Arrive, ArriveDuplicate, ArriveSafe, ArriveSequential, promptVars, Typed
<1>2. /\ n \in Calls /\ n \in Nat /\ n > 0 /\ n <= MaxTools
      /\ asked' \in Seq(Keys) /\ Len(asked') = n /\ asked'[n] = k
      /\ \A j \in 1..Len(asked) : j \in Calls /\ j # n /\ asked'[j] = asked[j]
  BY <1>1, StreamAssumption DEF Calls
<1>3. tool[n] = "new" /\ n \notin batch /\ batch \subseteq Calls
  BY <1>1, <1>2 DEF StreamInv, Arrived, Typed
<1>4. PICK s \in {"queued", "ended"} : tool' = [tool EXCEPT ![n] = s]
  BY DEF Arrive, ArriveDuplicate, ArriveSafe, ArriveSequential, Goto
<1>5. /\ tool' \in [Calls -> ToolStages] /\ tool'[n] = s
      /\ \A j \in Calls : j # n => tool'[j] = tool[j]
  BY <1>2, <1>4 DEF Typed, ToolStages
<1>6. /\ \A i \in Calls : tool'[i] = "new" <=> i > Len(asked')
      /\ \A i \in batch : i <= Len(asked') /\ asked'[i] \in Safe /\ tool'[i] # "ended" /\ tool'[i] = "queued"
  BY <1>1, <1>2, <1>3, <1>5 DEF StreamInv, Arrived, StageInv, Calls
<1>7. \A i \in 1..Len(asked) : tool'[i] # "ended" => i \in batch
  BY <1>1, <1>2, <1>5 DEF StreamInv, Unfinished
<1>8. \A i \in 1..Len(asked') : i \in 1..Len(asked) \/ i = n
  BY <1>1, <1>2
<1>9. PromptInv'
  BY <1>1, <1>3, <1>5 DEF StreamInv, PromptInv, Typed
<1>10. Consent'
  BY <1>1, <1>2, <1>5, <1>8 DEF Consent, Rule
<1>11. /\ abort' \in BOOLEAN /\ cancelled' \in BOOLEAN /\ broken' \in BOOLEAN
       /\ registered' \subseteq Calls /\ granted' \subseteq Rules /\ consented' \subseteq Calls
       /\ decision' \in [Calls -> Decisions \cup {"none"}]
  BY <1>1 DEF Typed
<1>12. CASE ArriveDuplicate(k)
  <2>1. /\ tool'[n] = "ended" /\ UNCHANGED <<stage, batch>>
        /\ results' = Append(results, [idx |-> n, kind |-> "duplicate"])
        /\ results \in Seq([idx : Calls, kind : Kinds])
        /\ [idx |-> n, kind |-> "duplicate"] \in [idx : Calls, kind : Kinds]
    BY <1>2, <1>12 DEF ArriveDuplicate, Goto, Buffer, Typed, Kinds
  <2>2. /\ results' \in Seq([idx : Calls, kind : Kinds])
        /\ Len(results') = Len(results) + 1 /\ Len(results) \in Nat
        /\ results'[Len(results) + 1].idx = n
        /\ \A r \in 1..Len(results) : results'[r] = results[r]
    BY <2>1
  <2>3. \A r \in 1..Len(results) : results[r].idx \in Calls /\ results[r].idx # n
    BY <2>1, <1>3, ResultTyped DEF StreamInv, ResultInv
  <2>4. \A j \in Calls : tool'[j] = "ended" <=> \E r \in 1..Len(results') : results'[r].idx = j
    <3>. TAKE j \in Calls
    <3>1. tool[j] = "ended" <=> \E r \in 1..Len(results) : results[r].idx = j
      BY DEF StreamInv, ResultInv
    <3>2. CASE j = n
      BY <2>1, <2>2, <3>2
    <3>3. CASE j # n
      BY <1>5, <2>2, <3>1, <3>3
    <3>. QED
      BY <3>2, <3>3
  <2>5. \A r, q \in 1..Len(results') : results'[r].idx = results'[q].idx => r = q
    <3>1. \A r, q \in 1..Len(results) : results[r].idx = results[q].idx => r = q
      BY DEF StreamInv, ResultInv
    <3>. SUFFICES ASSUME NEW r \in 1..Len(results'), NEW q \in 1..Len(results'),
                         results'[r].idx = results'[q].idx
                  PROVE  r = q
      OBVIOUS
    <3>2. CASE r \in 1..Len(results) /\ q \in 1..Len(results)
      BY <3>1, <3>2, <2>2
    <3>3. CASE r = Len(results) + 1 \/ q = Len(results) + 1
      BY <3>3, <2>2, <2>3
    <3>. QED
      BY <3>2, <3>3, <2>2
  <2>6. Arrived' /\ StageInv'
    BY <1>1, <1>6, <2>1 DEF Arrived, StageInv
  <2>7. Unfinished'
    BY <1>7, <1>8, <2>1 DEF Unfinished
  <2>8. Typed'
    BY <1>1, <1>2, <1>5, <1>11, <2>1, <2>2 DEF Typed
  <2>. QED
    BY <1>9, <1>10, <2>4, <2>5, <2>6, <2>7, <2>8 DEF IndInv, StreamInv, ResultInv
<1>13. CASE ArriveSafe(k)
  <2>1. /\ tool'[n] = "queued" /\ k \in Safe
        /\ batch' = batch \cup {n} /\ UNCHANGED <<stage, results>>
    BY <1>2, <1>13 DEF ArriveSafe, Goto, Typed
  <2>2. Arrived' /\ StageInv'
    <3>1. \A i \in batch' : i <= Len(asked') /\ asked'[i] \in Safe /\ tool'[i] = "queued"
      BY <1>2, <1>6, <2>1
    <3>. QED
      BY <1>1, <1>6, <2>1, <3>1 DEF Arrived, StageInv
  <2>3. Unfinished'
    BY <1>7, <1>8, <2>1 DEF Unfinished
  <2>4. ResultInv'
    BY <1>3, <1>5, <2>1 DEF StreamInv, ResultInv
  <2>5. Typed'
    BY <1>1, <1>2, <1>5, <1>11, <2>1 DEF Typed
  <2>. QED
    BY <1>9, <1>10, <2>2, <2>3, <2>4, <2>5 DEF IndInv, StreamInv
<1>14. CASE ArriveSequential(k)
  <2>1. tool'[n] = "queued" /\ stage' = "barrier" /\ UNCHANGED <<batch, results>>
    BY <1>2, <1>14 DEF ArriveSequential, Goto, Typed
  <2>2. Arrived' /\ StageInv'
    <3>1. Arrived'
      BY <1>6, <2>1 DEF Arrived
    <3>. QED
      BY <1>2, <1>3, <2>1, <3>1 DEF StageInv, Sequential
  <2>3. Unfinished'
    BY <1>2, <1>7, <1>8, <2>1 DEF Unfinished, Sequential
  <2>4. ResultInv'
    BY <1>3, <1>5, <2>1 DEF StreamInv, ResultInv
  <2>5. Typed'
    BY <1>1, <1>2, <1>5, <1>11, <2>1 DEF Typed, Stages
  <2>. QED
    BY <1>9, <1>10, <2>2, <2>3, <2>4, <2>5 DEF IndInv, StreamInv
<1>. QED
  BY <1>12, <1>13, <1>14 DEF Arrive

\* The invariant holds at the start, and every step keeps it.
THEOREM StreamInvariant == Spec => []IndInv
<1>1. Init => IndInv
  <2>. SUFFICES ASSUME Init PROVE IndInv
    OBVIOUS
  <2>1. Typed
    <3>1. asked \in Seq(Keys) /\ Len(asked) <= MaxTools
      BY StreamAssumption DEF Init
    <3>2. \A S : <<>> \in Seq(S)
      OBVIOUS
    <3>3. results \in Seq([idx : Calls, kind : Kinds])
      BY <3>2 DEF Init
    <3>. QED
      BY <3>1, <3>3 DEF Init, Typed, Stages, ToolStages
  <2>2. Arrived /\ Unfinished /\ StageInv /\ PromptInv /\ ResultInv /\ Consent
    BY StreamAssumption DEF Init, Arrived, Unfinished, StageInv, PromptInv, ResultInv, Consent, Calls
  <2>. QED
    BY <2>1, <2>2 DEF IndInv, StreamInv
<1>2. IndInv /\ [Next]_vars => IndInv'
  <2>. SUFFICES ASSUME IndInv, [Next]_vars PROVE IndInv'
    OBVIOUS
  <2>. Typed /\ StreamInv /\ Consent
    BY DEF IndInv
  <2>0. 1..Len(asked) \subseteq Calls /\ Len(asked) \in Nat
    BY StreamAssumption DEF Typed, Calls
  <2>1. ASSUME NEW k \in Keys, Arrive(k) PROVE IndInv'
    BY <2>1, ArriveKeepsInv
  <2>2. CASE StreamEnds
    BY <2>2 DEF StreamEnds, promptVars, IndInv, Typed, Stages, StreamInv, Arrived, Unfinished,
                StageInv, PromptInv, ResultInv, Consent, Rule, Sequential
  <2>3. CASE StreamFails
    BY <2>3 DEF StreamFails, promptVars, IndInv, Typed, Stages, StreamInv, Arrived, Unfinished,
                StageInv, PromptInv, ResultInv, Consent, Rule, Sequential
  <2>4. CASE BarrierDrained
    BY <2>4 DEF BarrierDrained, promptVars, IndInv, Typed, Stages, StreamInv, Arrived, Unfinished,
                StageInv, PromptInv, ResultInv, Consent, Rule, Sequential
  <2>5. CASE WriteReply
    <3>1. /\ stage = "final" /\ batch = {} /\ stage' = "written"
          /\ UNCHANGED <<asked, batch, abort, tool, promptVars, results, cancelled, broken>>
      BY <2>5 DEF WriteReply
    <3>. QED
      BY <3>1 DEF promptVars, IndInv, Typed, Stages, StreamInv, Arrived, Unfinished,
                  StageInv, PromptInv, ResultInv, Consent, Rule, Sequential
  <2>6. ASSUME NEW i \in Calls, Run(i) PROVE IndInv'
    <3>1. CASE Start(i)
      <4>1. /\ Polled(i) /\ tool[i] = "queued" /\ Goto(i, "hook")
            /\ UNCHANGED <<stage, asked, batch, abort, registered, decision, granted,
                           consented, results, cancelled, broken>>
        BY <3>1 DEF Start, promptVars
      <4>2. /\ tool' \in [Calls -> ToolStages] /\ tool'[i] = "hook"
            /\ \A j \in Calls : j # i => tool'[j] = tool[j]
            /\ Arrived' /\ Unfinished' /\ StageInv' /\ ResultInv'
        BY <4>1, GotoKeepsInv
      <4>3. PromptInv'
        BY <4>1, <4>2 DEF StreamInv, PromptInv, Typed
      <4>4. Consent'
        BY <4>1, <4>2, <2>0 DEF Consent, Rule
      <4>5. Typed'
        BY <4>1, <4>2 DEF Typed
      <4>. QED
        BY <4>2, <4>3, <4>4, <4>5 DEF IndInv, StreamInv
    <3>2. CASE Refused(i)
      BY <3>2, EndsKeepsInv DEF Refused, promptVars, Kinds
    <3>3. CASE Permitted(i)
      <4>1. /\ Polled(i) /\ tool[i] = "hook" /\ Goto(i, "call")
            /\ Rule(i) \in Allowed \cup granted
            /\ UNCHANGED <<stage, asked, batch, abort, registered, decision, granted,
                           consented, results, cancelled, broken>>
        BY <3>3 DEF Permitted, promptVars
      <4>2. /\ tool' \in [Calls -> ToolStages] /\ tool'[i] = "call"
            /\ \A j \in Calls : j # i => tool'[j] = tool[j]
            /\ Arrived' /\ Unfinished' /\ StageInv' /\ ResultInv'
        BY <4>1, GotoKeepsInv
      <4>3. PromptInv'
        BY <4>1, <4>2 DEF StreamInv, PromptInv, Typed
      <4>4. Consent'
        BY <4>1, <4>2, <2>0 DEF Consent, Rule
      <4>5. Typed'
        BY <4>1, <4>2 DEF Typed
      <4>. QED
        BY <4>2, <4>3, <4>4, <4>5 DEF IndInv, StreamInv
    <3>4. CASE Prompt(i)
      <4>1. /\ Polled(i) /\ tool[i] = "hook" /\ Goto(i, "prompt")
            /\ registered' = registered \cup {i}
            /\ UNCHANGED <<stage, asked, batch, abort, decision, granted,
                           consented, results, cancelled, broken>>
        BY <3>4 DEF Prompt
      <4>2. /\ tool' \in [Calls -> ToolStages] /\ tool'[i] = "prompt"
            /\ \A j \in Calls : j # i => tool'[j] = tool[j]
            /\ Arrived' /\ Unfinished' /\ StageInv' /\ ResultInv'
        BY <4>1, GotoKeepsInv
      <4>3. PromptInv'
        BY <4>1, <4>2 DEF StreamInv, PromptInv, Typed
      <4>4. Consent'
        BY <4>1, <4>2, <2>0 DEF Consent, Rule
      <4>5. Typed'
        BY <4>1, <4>2 DEF Typed
      <4>. QED
        BY <4>2, <4>3, <4>4, <4>5 DEF IndInv, StreamInv
    <3>5. CASE Approved(i)
      <4>1. /\ Polled(i) /\ tool[i] = "prompt" /\ Goto(i, "call") /\ LeavePrompt(i)
            /\ decision[i] \in {"permit", "always"}
            /\ granted' = IF decision[i] = "always" THEN granted \cup {Rule(i)} ELSE granted
            /\ UNCHANGED <<stage, asked, batch, abort, consented, results, cancelled, broken>>
        BY <3>5 DEF Approved
      <4>2. /\ tool' \in [Calls -> ToolStages] /\ tool'[i] = "call"
            /\ \A j \in Calls : j # i => tool'[j] = tool[j]
            /\ Arrived' /\ Unfinished' /\ StageInv' /\ ResultInv'
        BY <4>1, GotoKeepsInv
      <4>3. i \in consented /\ i \in 1..Len(asked)
        BY <4>1, PolledArrived DEF StreamInv, PromptInv
      <4>4. Rule(i) \in Rules
        <5>1. asked[i] \in Keys
          BY <4>3, ElementTyped DEF Typed
        <5>. QED
          BY <5>1, StreamAssumption DEF Rule
      <4>5. /\ decision' \in [Calls -> Decisions \cup {"none"}] /\ decision'[i] = "none"
            /\ \A j \in Calls : j # i => decision'[j] = decision[j]
            /\ registered' = registered \ {i}
            /\ granted \subseteq granted' /\ granted' \subseteq Rules
        BY <4>1, <4>4 DEF LeavePrompt, Typed
      <4>6. PromptInv'
        BY <4>1, <4>2, <4>5 DEF StreamInv, PromptInv, Typed
      <4>7. Consent'
        BY <4>1, <4>2, <4>3, <4>5, <2>0 DEF Consent, Rule
      <4>8. Typed'
        BY <4>1, <4>2, <4>5 DEF Typed
      <4>. QED
        BY <4>2, <4>6, <4>7, <4>8 DEF IndInv, StreamInv
    <3>6. CASE Unapproved(i)
      BY <3>6, EndsKeepsInv DEF Unapproved, Kinds
    <3>7. ASSUME NEW kind \in {"ok", "failed", "error"}, CallEnds(i, kind) PROVE IndInv'
      BY <3>7, EndsKeepsInv DEF CallEnds, promptVars, Kinds
    <3>8. CASE Aborted(i)
      <4>1. Polled(i) /\ tool[i] # "ended"
        BY <3>8 DEF Aborted, StreamInv, Arrived
      <4>. QED
        BY <3>8, <4>1, EndsKeepsInv DEF Aborted, Kinds
    <3>. QED
      BY <2>6, <3>1, <3>2, <3>3, <3>4, <3>5, <3>6, <3>7, <3>8
      DEF Run, DeniedByHost, TimedOut, WaitCancelled
  <2>7. ASSUME NEW i \in Calls, NEW d \in Decisions, Respond(i, d) PROVE IndInv'
    <3>1. /\ i \in registered
          /\ decision' \in [Calls -> Decisions \cup {"none"}] /\ decision'[i] = d
          /\ \A j \in Calls : j # i => decision'[j] = decision[j]
          /\ registered' = registered \ {i}
          /\ consented' = IF d = "deny" THEN consented ELSE consented \cup {i}
          /\ UNCHANGED <<stage, asked, batch, abort, tool, granted, results, cancelled, broken>>
      BY <2>7 DEF Respond, Typed
    <3>2. PromptInv'
      BY <3>1 DEF StreamInv, PromptInv, Typed
    <3>3. Consent'
      BY <3>1 DEF Consent, Rule
    <3>4. Typed'
      BY <3>1 DEF Typed
    <3>5. Arrived' /\ Unfinished' /\ StageInv' /\ ResultInv'
      BY <3>1 DEF StreamInv, Arrived, Unfinished, StageInv, ResultInv, Sequential
    <3>. QED
      BY <3>2, <3>3, <3>4, <3>5 DEF IndInv, StreamInv
  <2>8. CASE Cancel
    BY <2>8 DEF Cancel, promptVars, IndInv, Typed, StreamInv, Arrived, Unfinished,
                StageInv, PromptInv, ResultInv, Consent, Rule, Sequential
  <2>9. CASE UNCHANGED vars
    BY <2>9 DEF vars, promptVars, IndInv, Typed, StreamInv, Arrived, Unfinished,
                StageInv, PromptInv, ResultInv, Consent, Rule, Sequential
  <2>. QED
    BY <2>1, <2>2, <2>3, <2>4, <2>5, <2>6, <2>7, <2>8, <2>9 DEF Next, Executor, RespondLate
<1>. QED
  BY <1>1, <1>2, PTL DEF Spec

\* No tool runs that neither the rules nor the host permitted.
THEOREM NoCallWithoutConsent == Spec => []Consent
<1>1. IndInv => Consent
  BY DEF IndInv
<1>. QED
  BY <1>1, StreamInvariant, PTL

\* A registration belongs to a prompt that is being waited on.
THEOREM PromptsAreLive == Spec => []NoStalePrompt
<1>1. IndInv => NoStalePrompt
  <2>. SUFFICES ASSUME IndInv, NEW i \in registered PROVE tool[i] = "prompt" /\ Polled(i)
    BY DEF NoStalePrompt
  <2>1. tool[i] = "prompt" /\ i \in Calls
    BY DEF IndInv, StreamInv, PromptInv, Typed
  <2>. QED
    BY <2>1, BusyIsPolled DEF IndInv
<1>. QED
  BY <1>1, StreamInvariant, PTL

\* A tool that is not concurrency-safe shares its time with no other.
THEOREM SequentialAlone == Spec => []BarrierAlone
<1>1. IndInv => BarrierAlone
  <2>. SUFFICES ASSUME IndInv, NEW i \in 1..Len(asked), NEW j \in 1..Len(asked), i < j,
                       asked[i] \notin Safe \/ asked[j] \notin Safe,
                       tool[j] \notin {"queued", "ended"}, tool[i] # "ended"
                PROVE  FALSE
    BY DEF BarrierAlone
  <2>. Typed /\ StreamInv /\ i \in Calls /\ j \in Calls /\ Len(asked) \in Nat
    BY StreamAssumption DEF IndInv, Typed, Calls
  <2>1. tool[j] # "new"
    BY DEF StreamInv, Arrived
  <2>2. Polled(j)
    BY <2>1, BusyIsPolled
  <2>3. i \in batch
    BY DEF StreamInv, Unfinished, Sequential
  <2>4. CASE stage = "sequential"
    BY <2>3, <2>4 DEF StreamInv, StageInv
  <2>5. CASE j \in batch
    BY <2>3, <2>5 DEF StreamInv, Arrived
  <2>. QED
    BY <2>2, <2>4, <2>5 DEF Polled
<1>. QED
  BY <1>1, StreamInvariant, PTL

(***************************************************************************)
(* When the reply is written, every call of it has exactly one result,     *)
(* however many were duplicates, refused, aborted or cut short.            *)
(***************************************************************************)
THEOREM AnsweredOnce ==
  Spec => [](stage = "written" =>
               \A i \in 1..Len(asked) : \E r \in 1..Len(results) :
                 \A q \in 1..Len(results) : results[q].idx = i <=> q = r)
<1>1. IndInv => (stage = "written" =>
               \A i \in 1..Len(asked) : \E r \in 1..Len(results) :
                 \A q \in 1..Len(results) : results[q].idx = i <=> q = r)
  <2>. SUFFICES ASSUME IndInv, stage = "written", NEW i \in 1..Len(asked)
                PROVE  \E r \in 1..Len(results) :
                         \A q \in 1..Len(results) : results[q].idx = i <=> q = r
    OBVIOUS
  <2>1. i \in Calls
    BY StreamAssumption DEF IndInv, Typed, Calls
  <2>2. tool[i] = "ended"
    BY DEF IndInv, StreamInv, StageInv, Unfinished
  <2>3. PICK r \in 1..Len(results) : results[r].idx = i
    BY <2>1, <2>2 DEF IndInv, StreamInv, ResultInv
  <2>. QED
    BY <2>3 DEF IndInv, StreamInv, ResultInv
<1>. QED
  BY <1>1, StreamInvariant, PTL

-----------------------------------------------------------------------------
(* Aborts stay inside their batch.                                         *)

\* Call n ends no batch: it is concurrency-safe, or answered as a duplicate.
Plain(n) == asked[n] \in Safe \/ \E m \in 1..(n - 1) : asked[m] = asked[n]

\* No barrier was passed since call i arrived; one may just have been reached.
OpenFrom(i) ==
  \A n \in i..Len(asked) : Plain(n) \/ (stage = "barrier" /\ n = Sequential)

(***************************************************************************)
(* The strengthening: everything in the batch came after the last barrier, *)
(* the token is fresh while the stream is read, and if it is cancelled     *)
(* while a batch drains, the stream broke or a call of that batch failed.  *)
(***************************************************************************)
AbortInv ==
  /\ \A i \in batch : OpenFrom(i)
  /\ stage = "stream" => ~abort
  /\ broken => stage \in {"final", "written"}
  /\ abort /\ ~broken /\ stage \in {"barrier", "final"} =>
       \E q \in 1..Len(results) : results[q].kind = "error" /\ OpenFrom(results[q].idx)
  /\ AbortIsLocal

\* A buffered result is one of a call that has arrived.
LEMMA ResultArrived ==
  ASSUME IndInv, NEW r \in 1..Len(results)
  PROVE  results[r].idx \in 1..Len(asked)
<1>1. results[r].idx \in Calls
  BY ResultTyped DEF IndInv, Typed
<1>2. tool[results[r].idx] = "ended"
  BY <1>1 DEF IndInv, StreamInv, ResultInv
<1>3. Len(asked) \in Nat
  BY DEF IndInv, Typed
<1>. QED
  BY <1>1, <1>2, <1>3, StreamAssumption DEF IndInv, StreamInv, Arrived, Calls

\* A result is added at the end of the buffer.
LEMMA BufferAppends ==
  ASSUME IndInv, NEW i \in Calls, NEW kind \in Kinds, Buffer(i, kind)
  PROVE  /\ Len(results) \in Nat /\ Len(results') = Len(results) + 1
         /\ results'[Len(results) + 1] = [idx |-> i, kind |-> kind]
         /\ \A r \in 1..Len(results) : results'[r] = results[r]
<1>1. /\ results \in Seq([idx : Calls, kind : Kinds])
      /\ [idx |-> i, kind |-> kind] \in [idx : Calls, kind : Kinds]
  BY DEF IndInv, Typed
<1>. QED
  BY <1>1 DEF Buffer

\* Two calls since the last barrier are of one batch.
LEMMA OpenIsSameBatch ==
  ASSUME Len(asked) \in Nat, NEW i \in 1..Len(asked), NEW j \in 1..Len(asked),
         OpenFrom(i), OpenFrom(j)
  PROVE  SameBatch(i, j)
<1>. SUFFICES ASSUME NEW n \in 1..Len(asked), (i < n /\ n < j) \/ (j < n /\ n < i)
              PROVE  Plain(n)
  BY DEF SameBatch, Plain
<1>1. n # Sequential
  BY DEF Sequential
<1>2. CASE i < n
  BY <1>1, <1>2 DEF OpenFrom
<1>3. CASE j < n
  BY <1>1, <1>3 DEF OpenFrom
<1>. QED
  BY <1>2, <1>3

\* The call ends in its batch or behind the barrier: an abort has a cause there.
LEMMA EndsKeepsAbort ==
  ASSUME IndInv, AbortInv, NEW i \in Calls, Polled(i), NEW kind \in Kinds, Ends(i, kind),
         UNCHANGED <<asked, broken>>, kind = "aborted" => abort /\ i \in batch
  PROVE  AbortInv'
<1>. Typed /\ StreamInv
  BY DEF IndInv
<1>0. Len(asked) \in Nat /\ i \in 1..Len(asked)
  BY PolledArrived DEF Typed
<1>1. /\ Len(results) \in Nat /\ Len(results') = Len(results) + 1
      /\ results'[Len(results) + 1] = [idx |-> i, kind |-> kind]
      /\ \A r \in 1..Len(results) : results'[r] = results[r]
  BY BufferAppends DEF Ends
<1>2. \A a, b : SameBatch(a, b)' <=> SameBatch(a, b)
  BY DEF SameBatch
<1>3. kind = "aborted" =>
        \/ broken /\ SameBatch(i, Len(asked) + 1)
        \/ \E q \in 1..Len(results) :
             results[q].kind = "error" /\ SameBatch(results[q].idx, i)
  <2>. SUFFICES ASSUME kind = "aborted"
                PROVE  \/ broken /\ SameBatch(i, Len(asked) + 1)
                       \/ \E q \in 1..Len(results) :
                            results[q].kind = "error" /\ SameBatch(results[q].idx, i)
    OBVIOUS
  <2>1. abort /\ i \in batch /\ stage \in {"barrier", "final"} /\ OpenFrom(i)
    BY DEF Polled, StreamInv, StageInv, AbortInv
  <2>2. CASE broken
    <3>1. stage # "barrier"
      BY <2>2 DEF AbortInv
    <3>2. SameBatch(i, Len(asked) + 1)
      BY <1>0, <2>1, <3>1 DEF SameBatch, OpenFrom, Plain
    <3>. QED
      BY <2>2, <3>2
  <2>3. CASE ~broken
    <3>1. PICK q \in 1..Len(results) : results[q].kind = "error" /\ OpenFrom(results[q].idx)
      BY <2>1, <2>3 DEF AbortInv
    <3>2. results[q].idx \in 1..Len(asked)
      BY ResultArrived
    <3>3. SameBatch(results[q].idx, i)
      BY <1>0, <2>1, <3>1, <3>2, OpenIsSameBatch
    <3>. QED
      BY <3>1, <3>3
  <2>. QED
    BY <2>2, <2>3
<1>4. AbortIsLocal'
  <2>. SUFFICES ASSUME NEW r \in 1..Len(results'), results'[r].kind = "aborted"
                PROVE  \/ broken /\ SameBatch(results'[r].idx, Len(asked) + 1)
                       \/ \E q \in 1..(r - 1) :
                            results'[q].kind = "error" /\ SameBatch(results'[q].idx, results'[r].idx)
    BY <1>2 DEF AbortIsLocal, SameBatch
  <2>1. CASE r \in 1..Len(results)
    <3>1. results'[r] = results[r]
      BY <1>1, <2>1
    <3>2. \A q \in 1..(r - 1) : q \in 1..Len(results) /\ results'[q] = results[q]
      BY <1>1, <2>1
    <3>. QED
      BY <2>1, <3>1, <3>2 DEF AbortInv, AbortIsLocal
  <2>2. CASE r = Len(results) + 1
    <3>1. results'[r].idx = i /\ kind = "aborted"
      BY <1>1, <2>2
    <3>2. r - 1 = Len(results)
      BY <1>1, <2>2
    <3>. QED
      BY <1>1, <1>3, <3>1, <3>2
  <2>. QED
    BY <1>1, <2>1, <2>2
<1>5. CASE stage = "sequential"
  <2>1. stage' = "stream" /\ batch' = {} /\ abort' = FALSE
    BY <1>5 DEF Ends
  <2>2. ~broken'
    BY <1>5 DEF AbortInv
  <2>. QED
    BY <1>4, <2>1, <2>2 DEF AbortInv
<1>6. CASE stage # "sequential"
  <2>1. /\ stage' = stage /\ batch' = batch \ {i} /\ i \in batch
        /\ abort' = (abort \/ kind \in {"error", "aborted"})
    BY <1>6 DEF Ends, Polled
  <2>2. \A j : OpenFrom(j)' <=> OpenFrom(j)
    BY <2>1 DEF OpenFrom, Plain, Sequential
  <2>3. stage # "stream"
    BY <1>6 DEF Polled
  <2>4. abort' /\ ~broken' /\ stage' \in {"barrier", "final"} =>
          \E q \in 1..Len(results') : results'[q].kind = "error" /\ OpenFrom(results'[q].idx)
    <3>. SUFFICES ASSUME abort', ~broken, stage \in {"barrier", "final"}
                  PROVE  \E q \in 1..Len(results') : results'[q].kind = "error" /\ OpenFrom(results'[q].idx)
      BY <2>1
    <3>1. CASE abort
      <4>1. PICK q \in 1..Len(results) : results[q].kind = "error" /\ OpenFrom(results[q].idx)
        BY <3>1 DEF AbortInv
      <4>. QED
        BY <1>1, <4>1
    <3>2. CASE kind = "error"
      <4>1. OpenFrom(i)
        BY <2>1 DEF AbortInv
      <4>. QED
        BY <1>1, <3>2, <4>1
    <3>. QED
      BY <2>1, <3>1, <3>2
  <2>5. \A j \in batch' : OpenFrom(j)
    BY <2>1 DEF AbortInv
  <2>6. (\A j \in batch : OpenFrom(j))'
    BY <2>2, <2>5
  <2>7. broken' => stage' \in {"final", "written"}
    BY <2>1 DEF AbortInv
  <2>8. (abort /\ ~broken /\ stage \in {"barrier", "final"} =>
           \E q \in 1..Len(results) : results[q].kind = "error" /\ OpenFrom(results[q].idx))'
    BY <2>2, <2>4
  <2>. QED
    BY <1>4, <2>1, <2>3, <2>6, <2>7, <2>8 DEF AbortInv
<1>. QED
  BY <1>5, <1>6

\* What arrives later changes nothing about the calls that are there.
LEMMA ArrivalIsLater ==
  ASSUME Len(asked) \in Nat, NEW k, asked \in Seq(Keys), k \in Keys, asked' = Append(asked, k)
  PROVE  /\ Len(asked') = Len(asked) + 1 /\ asked'[Len(asked) + 1] = k
         /\ \A n \in 1..Len(asked) : asked'[n] = asked[n] /\ (Plain(n)' <=> Plain(n))
         /\ \A i, j \in 1..Len(asked) : SameBatch(i, j)' <=> SameBatch(i, j)
<1>1. /\ Len(asked') = Len(asked) + 1 /\ asked'[Len(asked) + 1] = k
      /\ \A n \in 1..Len(asked) : asked'[n] = asked[n]
  OBVIOUS
<1>2. \A n \in 1..Len(asked) : Plain(n)' <=> Plain(n)
  <2>. TAKE n \in 1..Len(asked)
  <2>1. \A m \in 1..(n - 1) : m \in 1..Len(asked)
    OBVIOUS
  <2>. QED
    BY <1>1, <2>1 DEF Plain
<1>3. \A i, j \in 1..Len(asked) : SameBatch(i, j)' <=> SameBatch(i, j)
  <2>. TAKE i, j \in 1..Len(asked)
  <2>1. SameBatch(i, j) <=>
          \A n \in 1..Len(asked) : (i < n /\ n < j) \/ (j < n /\ n < i) => Plain(n)
    BY DEF SameBatch, Plain
  <2>2. SameBatch(i, j)' <=>
          \A n \in 1..Len(asked') : (i < n /\ n < j) \/ (j < n /\ n < i) => Plain(n)'
    BY DEF SameBatch, Plain
  <2>3. \A n \in 1..Len(asked') : n \in 1..Len(asked) \/ n = Len(asked) + 1
    BY <1>1
  <2>4. \A n \in 1..Len(asked) : n \in 1..Len(asked')
    BY <1>1
  <2>. QED
    BY <1>2, <2>1, <2>2, <2>3, <2>4
<1>. QED
  BY <1>1, <1>2, <1>3

\* A ToolUse arrives: a duplicate, one for the batch, or one that ends it.
LEMMA ArriveKeepsAbort ==
  ASSUME IndInv, AbortInv, NEW k \in Keys, Arrive(k)
  PROVE  AbortInv'
<1>. Typed /\ StreamInv
  BY DEF IndInv
<1>0. PICK n \in Nat : n = Len(asked) + 1
  BY DEF Typed
<1>1. /\ asked \in Seq(Keys) /\ Len(asked) \in Nat /\ Len(asked) < MaxTools /\ stage = "stream"
      /\ asked' = Append(asked, k) /\ UNCHANGED <<abort, broken>> /\ ~abort /\ ~broken
  BY DEF Arrive, ArriveDuplicate, ArriveSafe, ArriveSequential, Typed, AbortInv
<1>2. /\ Len(asked') = n /\ asked'[n] = k
      /\ \A m \in 1..Len(asked) : asked'[m] = asked[m] /\ (Plain(m)' <=> Plain(m))
      /\ \A i, j \in 1..Len(asked) : SameBatch(i, j)' <=> SameBatch(i, j)
  BY <1>0, <1>1, ArrivalIsLater
<1>3. \A i \in batch : i \in 1..Len(asked)
  BY <1>1, StreamAssumption DEF StreamInv, Arrived, Typed, Calls
<1>4. stage' = "barrier" \/ Plain(n)'
  <2>1. CASE ArriveDuplicate(k)
    <3>1. PICK m \in DOMAIN asked : asked[m] = k
      BY <2>1 DEF ArriveDuplicate, Seen
    <3>2. m \in 1..Len(asked) /\ m \in 1..(n - 1)
      BY <1>0, <1>1
    <3>3. asked'[m] = asked'[n]
      BY <1>2, <3>1, <3>2
    <3>. QED
      BY <1>1, <3>2, <3>3 DEF Plain
  <2>2. CASE ArriveSafe(k)
    BY <1>1, <1>2, <2>2 DEF ArriveSafe, Plain
  <2>3. CASE ArriveSequential(k)
    BY <2>3 DEF ArriveSequential
  <2>. QED
    BY <2>1, <2>2, <2>3 DEF Arrive
<1>5. stage' \in {"stream", "barrier"} /\ batch' \subseteq batch \cup {n}
  BY <1>0, <1>1 DEF Arrive, ArriveDuplicate, ArriveSafe, ArriveSequential
<1>6. (\A i \in batch : OpenFrom(i))'
  <2>. SUFFICES ASSUME NEW i \in batch', NEW m \in i..n
                PROVE  Plain(m)' \/ (stage' = "barrier" /\ m = n)
    BY <1>2 DEF OpenFrom, Sequential
  <2>1. i \in 1..n
    BY <1>0, <1>1, <1>3, <1>5
  <2>2. CASE m = n
    BY <1>4, <2>2
  <2>3. CASE m # n
    <3>1. m \in 1..Len(asked) /\ i # n
      BY <1>0, <1>1, <2>1, <2>3
    <3>2. i \in batch
      BY <1>5, <3>1
    <3>3. Plain(m)
      BY <1>1, <3>1, <3>2 DEF AbortInv, OpenFrom
    <3>. QED
      BY <1>2, <3>1, <3>3
  <2>. QED
    BY <2>2, <2>3
<1>7. AbortIsLocal'
  <2>1. /\ \A r \in 1..Len(results') : results'[r].kind = "aborted" => r \in 1..Len(results)
        /\ \A r \in 1..Len(results) : r \in 1..Len(results') /\ results'[r] = results[r]
    <3>1. CASE ArriveDuplicate(k)
      <4>1. n \in Calls /\ "duplicate" \in Kinds /\ Buffer(n, "duplicate")
        BY <1>0, <1>1, <3>1, StreamAssumption DEF ArriveDuplicate, Calls, Kinds
      <4>2. /\ Len(results) \in Nat /\ Len(results') = Len(results) + 1
            /\ results'[Len(results) + 1] = [idx |-> n, kind |-> "duplicate"]
            /\ \A r \in 1..Len(results) : results'[r] = results[r]
        BY <4>1, BufferAppends
      <4>. QED
        BY <4>2
    <3>2. CASE ArriveSafe(k) \/ ArriveSequential(k)
      BY <3>2 DEF ArriveSafe, ArriveSequential
    <3>. QED
      BY <3>1, <3>2 DEF Arrive
  <2>2. Len(results) \in Nat
    BY DEF Typed
  <2>. SUFFICES ASSUME NEW r \in 1..Len(results'), results'[r].kind = "aborted"
                PROVE  \E q \in 1..(r - 1) : /\ results'[q].kind = "error"
                                             /\ SameBatch(results[q].idx, results[r].idx)
                                             /\ results'[q] = results[q] /\ results'[r] = results[r]
                                             /\ results[q].idx \in 1..Len(asked)
                                             /\ results[r].idx \in 1..Len(asked)
    BY <1>2 DEF AbortIsLocal
  <2>3. r \in 1..Len(results) /\ results'[r] = results[r]
    BY <2>1
  <2>4. PICK q \in 1..(r - 1) :
          results[q].kind = "error" /\ SameBatch(results[q].idx, results[r].idx)
    BY <1>1, <2>3 DEF AbortInv, AbortIsLocal
  <2>5. q \in 1..Len(results) /\ results'[q] = results[q]
    BY <2>1, <2>2, <2>3
  <2>. QED
    BY <2>3, <2>4, <2>5, ResultArrived
<1>. QED
  BY <1>1, <1>5, <1>6, <1>7 DEF AbortInv

\* A step that touches neither calls, batch, token nor results.
LEMMA QuietKeepsAbort ==
  ASSUME AbortInv, UNCHANGED <<stage, asked, batch, abort, results, broken>>
  PROVE  AbortInv'
BY DEF AbortInv, OpenFrom, Plain, Sequential, AbortIsLocal, SameBatch

(***************************************************************************)
(* An aborted call has its cause in its own batch, whatever failed before  *)
(* the barrier and however the calls of the batch raced to their ends.     *)
(***************************************************************************)
THEOREM AbortsAreLocal == Spec => []AbortIsLocal
<1>1. Init => AbortInv
  BY DEF Init, AbortInv, AbortIsLocal
<1>2. IndInv /\ AbortInv /\ [Next]_vars => AbortInv'
  <2>. SUFFICES ASSUME IndInv, AbortInv, [Next]_vars PROVE AbortInv'
    OBVIOUS
  <2>1. ASSUME NEW k \in Keys, Arrive(k) PROVE AbortInv'
    BY <2>1, ArriveKeepsAbort
  <2>2. CASE StreamEnds
    BY <2>2 DEF StreamEnds, AbortInv, OpenFrom, Plain, Sequential, AbortIsLocal, SameBatch
  <2>3. CASE StreamFails
    <3>1. /\ stage = "stream" /\ stage' = "final" /\ broken' /\ ~broken
          /\ UNCHANGED <<asked, batch, results>>
      BY <2>3 DEF StreamFails, AbortInv
    <3>2. \A i : OpenFrom(i) => OpenFrom(i)'
      BY <3>1 DEF OpenFrom, Plain, Sequential
    <3>3. \A a, b : SameBatch(a, b) => SameBatch(a, b)'
      BY <3>1 DEF SameBatch
    <3>4. AbortIsLocal'
      <4>. SUFFICES ASSUME NEW r \in 1..Len(results), results[r].kind = "aborted"
                    PROVE  \E q \in 1..(r - 1) : /\ results[q].kind = "error"
                                                 /\ SameBatch(results[q].idx, results[r].idx)
        BY <3>1 DEF AbortIsLocal, SameBatch
      <4>. QED
        BY <3>1 DEF AbortInv, AbortIsLocal
    <3>. QED
      BY <3>1, <3>2, <3>4 DEF AbortInv
  <2>4. CASE BarrierDrained
    BY <2>4 DEF BarrierDrained, AbortInv, OpenFrom, Plain, Sequential, AbortIsLocal, SameBatch
  <2>5. CASE WriteReply
    <3>1. /\ stage = "final" /\ batch = {} /\ stage' = "written"
          /\ UNCHANGED <<asked, batch, abort, results, broken>>
      BY <2>5 DEF WriteReply
    <3>. QED
      BY <3>1 DEF AbortInv, OpenFrom, Plain, Sequential, AbortIsLocal, SameBatch
  <2>6. ASSUME NEW i \in Calls, Run(i) PROVE AbortInv'
    <3>1. CASE Start(i) \/ Permitted(i) \/ Prompt(i) \/ Approved(i)
      BY <3>1, QuietKeepsAbort DEF Start, Permitted, Prompt, Approved
    <3>2. CASE Refused(i)
      BY <3>2, EndsKeepsAbort DEF Refused, Kinds
    <3>3. CASE Unapproved(i)
      BY <3>3, EndsKeepsAbort DEF Unapproved, Kinds
    <3>4. ASSUME NEW kind \in {"ok", "failed", "error"}, CallEnds(i, kind) PROVE AbortInv'
      BY <3>4, EndsKeepsAbort DEF CallEnds, Kinds
    <3>5. CASE Aborted(i)
      BY <3>5, EndsKeepsAbort DEF Aborted, Kinds
    <3>. QED
      BY <2>6, <3>1, <3>2, <3>3, <3>4, <3>5 DEF Run, DeniedByHost, TimedOut, WaitCancelled
  <2>7. ASSUME NEW i \in Calls, NEW d \in Decisions, Respond(i, d) PROVE AbortInv'
    BY <2>7, QuietKeepsAbort DEF Respond
  <2>8. CASE Cancel \/ UNCHANGED vars
    BY <2>8, QuietKeepsAbort DEF Cancel, vars
  <2>. QED
    BY <2>1, <2>2, <2>3, <2>4, <2>5, <2>6, <2>7, <2>8 DEF Next, Executor, RespondLate
<1>3. AbortInv => AbortIsLocal
  BY DEF AbortInv
<1>. QED
  BY <1>1, <1>2, <1>3, StreamInvariant, PTL DEF Spec

-----------------------------------------------------------------------------
(* The reply is paired with its results.                                   *)

\* A function that is one to one and onto.
LEMMA OneToOne ==
  ASSUME NEW S, NEW T, NEW f \in [S -> T],
         \A a, b \in S : f[a] = f[b] => a = b,
         \A k \in T : \E a \in S : f[a] = k
  PROVE  f \in Bijection(S, T)
<1>1. f \in Injection(S, T)
  BY DEF Injection, IsInjective
<1>2. f \in Surjection(S, T)
  BY DEF Surjection
<1>. QED
  BY <1>1, <1>2 DEF Bijection

\* What it counts: as many arguments as values.
LEMMA CountedBy ==
  ASSUME NEW S, NEW n \in Nat, NEW f \in Bijection(S, 1..n)
  PROVE  IsFiniteSet(S) /\ Cardinality(S) = n
<1>1. IsFiniteSet(1..n) /\ Cardinality(1..n) = n
  <2>1. 1 \in Int /\ n \in Int
    OBVIOUS
  <2>2. Cardinality(1..n) = IF 1 > n THEN 0 ELSE n - 1 + 1
    BY <2>1, FS_Interval
  <2>3. IsFiniteSet(1..n)
    BY <2>1, FS_Interval
  <2>. QED
    BY <2>2, <2>3
<1>2. f \in Injection(S, 1..n) /\ f \in Surjection(S, 1..n)
  BY DEF Bijection
<1>. QED
  BY <1>1, <1>2, FS_Injection

(***************************************************************************)
(* Sorting by submission index puts the result of call k in place k, once  *)
(* every call of the reply has its one result.                             *)
(***************************************************************************)
LEMMA SortedIsInOrder ==
  ASSUME NEW n \in Nat, Len(results) \in Nat,
         \A r \in 1..Len(results) : results[r].idx \in 1..n,
         \A r, q \in 1..Len(results) : results[r].idx = results[q].idx => r = q,
         \A i \in 1..n : \E r \in 1..Len(results) : results[r].idx = i
  PROVE  [k \in 1..Len(results) |-> Sorted[k].idx] = [i \in 1..n |-> i]
<1>. DEFINE R == 1..Len(results)
<1>1. Len(results) = n
  <2>. DEFINE f == [r \in R |-> results[r].idx]
  <2>1. /\ f \in [R -> 1..n]
        /\ \A a, b \in R : f[a] = f[b] => a = b
        /\ \A k \in 1..n : \E a \in R : f[a] = k
    OBVIOUS
  <2>2. Cardinality(R) = n
    <3>. HIDE DEF f, R
    <3>1. f \in Bijection(R, 1..n)
      BY <2>1, OneToOne
    <3>. QED
      BY <3>1, CountedBy
  <2>3. Cardinality(R) = Len(results)
    <3>1. Cardinality(R) = IF 1 > Len(results) THEN 0 ELSE Len(results) - 1 + 1
      BY FS_Interval
    <3>. QED
      BY <3>1
  <2>. QED
    BY <2>2, <2>3
<1>2. ASSUME NEW r \in R PROVE Place(r) = results[r].idx
  <2>. DEFINE Q == {q \in R : \/ results[q].idx < results[r].idx
                              \/ results[q].idx = results[r].idx /\ q <= r}
              f == [q \in Q |-> results[q].idx]
  <2>1. PICK p \in 1..n : p = results[r].idx
    OBVIOUS
  <2>2. \A q \in R : q \in Q <=> results[q].idx <= p
    <3>. TAKE q \in R
    <3>1. results[q].idx \in 1..n
      OBVIOUS
    <3>2. CASE results[q].idx = p
      <4>1. q = r
        BY <2>1, <3>2
      <4>. QED
        BY <2>1, <4>1
    <3>3. CASE results[q].idx # p
      BY <2>1, <3>1, <3>3
    <3>. QED
      BY <3>2, <3>3
  <2>3. /\ f \in [Q -> 1..p]
        /\ \A a, b \in Q : f[a] = f[b] => a = b
        /\ \A k \in 1..p : \E a \in Q : f[a] = k
    <3>1. \A q \in Q : results[q].idx \in 1..p
      <4>. TAKE q \in Q
      <4>1. q \in R /\ results[q].idx <= p /\ results[q].idx \in 1..n
        BY <2>2
      <4>. QED
        BY <4>1
    <3>2. \A k \in 1..p : \E a \in Q : results[a].idx = k
      <4>. TAKE k \in 1..p
      <4>1. k \in 1..n
        BY <2>1
      <4>2. PICK a \in R : results[a].idx = k
        BY <4>1
      <4>. QED
        BY <2>2, <4>2
    <3>3. Q \subseteq R
      OBVIOUS
    <3>. HIDE DEF Q
    <3>. QED
      BY <3>1, <3>2, <3>3
  <2>4. Place(r) = Cardinality(Q)
    BY DEF Place
  <2>5. p \in Nat
    OBVIOUS
  <2>6. Cardinality(Q) = p
    <3>. HIDE DEF Q, f
    <3>1. f \in Bijection(Q, 1..p)
      BY <2>3, OneToOne
    <3>. QED
      BY <2>5, <3>1, CountedBy
  <2>. QED
    BY <2>1, <2>4, <2>6
<1>3. ASSUME NEW k \in 1..n PROVE Sorted[k].idx = k
  <2>1. PICK r \in R : results[r].idx = k
    OBVIOUS
  <2>2. Place(r) = k
    BY <1>2, <2>1
  <2>. DEFINE c == CHOOSE q \in R : Place(q) = k
  <2>3. c \in R /\ Place(c) = k
    BY <2>2
  <2>4. Sorted[k] = results[c]
    BY <1>1 DEF Sorted
  <2>. HIDE DEF c
  <2>. QED
    BY <1>2, <2>3, <2>4
<1>. QED
  BY <1>1, <1>3

\* What write_reply will write, from the state in which it is called.
LEMMA ReplyInOrder ==
  ASSUME IndInv, stage = "final", batch = {}
  PROVE  [k \in 1..Len(results) |-> Sorted[k].idx] = [i \in 1..Len(asked) |-> i]
<1>1. Len(asked) \in Nat /\ Len(results) \in Nat
  BY DEF IndInv, Typed
<1>2. \A r \in 1..Len(results) : results[r].idx \in 1..Len(asked)
  BY ResultArrived
<1>3. \A r, q \in 1..Len(results) : results[r].idx = results[q].idx => r = q
  BY DEF IndInv, StreamInv, ResultInv
<1>4. \A i \in 1..Len(asked) : \E r \in 1..Len(results) : results[r].idx = i
  <2>. TAKE i \in 1..Len(asked)
  <2>1. i \in Calls
    BY <1>1, StreamAssumption DEF IndInv, Typed, Calls
  <2>2. tool[i] = "ended"
    BY DEF IndInv, StreamInv, Unfinished
  <2>. QED
    BY <2>1, <2>2 DEF IndInv, StreamInv, ResultInv
<1>. QED
  BY <1>1, <1>2, <1>3, <1>4, SortedIsInOrder

(***************************************************************************)
(* Every tool_use is answered by one tool_result, in submission order:     *)
(* whatever order the results were buffered in, write_reply's sort and the *)
(* bookkeeping of the batch put exactly 1, 2, ..., n in the message.       *)
(***************************************************************************)
THEOREM ReplyIsPaired == Spec => []Paired
<1>1. Init => Paired
  BY DEF Init, Paired
<1>2. IndInv /\ Paired /\ [Next]_vars => Paired'
  <2>. SUFFICES ASSUME IndInv, Paired, [Next]_vars, stage' = "written"
                PROVE  written' = [i \in 1..Len(asked') |-> i]
    BY DEF Paired
  <2>1. CASE WriteReply
    BY <2>1, ReplyInOrder DEF WriteReply
  <2>2. CASE UNCHANGED <<stage, asked, written>>
    BY <2>2 DEF Paired
  <2>3. ASSUME NEW k \in Keys, Arrive(k) PROVE FALSE
    BY <2>3 DEF Arrive, ArriveDuplicate, ArriveSafe, ArriveSequential
  <2>4. CASE StreamEnds \/ StreamFails \/ BarrierDrained
    BY <2>4 DEF StreamEnds, StreamFails, BarrierDrained
  <2>5. ASSUME NEW i \in Calls, NEW kind \in Kinds, Ends(i, kind), Polled(i) PROVE FALSE
    BY <2>5 DEF Ends, Polled
  <2>6. ASSUME NEW i \in Calls, Run(i) PROVE UNCHANGED <<stage, asked, written>>
    <3>1. CASE Start(i) \/ Permitted(i) \/ Prompt(i) \/ Approved(i)
      BY <3>1 DEF Start, Permitted, Prompt, Approved
    <3>2. CASE Refused(i) \/ Unapproved(i) \/ Aborted(i)
      BY <3>2, <2>5 DEF Refused, Unapproved, Aborted, Kinds
    <3>3. ASSUME NEW kind \in {"ok", "failed", "error"}, CallEnds(i, kind) PROVE FALSE
      BY <3>3, <2>5 DEF CallEnds, Kinds
    <3>. QED
      BY <2>6, <3>1, <3>2, <3>3 DEF Run, DeniedByHost, TimedOut, WaitCancelled
  <2>7. ASSUME NEW i \in Calls, NEW d \in Decisions, Respond(i, d)
        PROVE  UNCHANGED <<stage, asked, written>>
    BY <2>7 DEF Respond
  <2>8. CASE Cancel \/ UNCHANGED vars
    BY <2>2, <2>8 DEF Cancel, vars
  <2>. QED
    BY <2>1, <2>2, <2>3, <2>4, <2>6, <2>7, <2>8 DEF Next, Executor, RespondLate
<1>. QED
  BY <1>1, <1>2, StreamInvariant, PTL DEF Spec

-----------------------------------------------------------------------------
(* The permission engine, whose verdicts the executor takes as sets: for   *)
(* every rule set, every matching of rules and every tool call.            *)

\* Specificity is the length of a pattern, which an i32 holds.
Lengths == MaxLength \in Nat /\ Length \in [Texts -> 0..MaxLength]

\* A set of naturals has a least element.
LEMMA Least ==
  ASSUME NEW T \in SUBSET Nat, T # {}
  PROVE  \E m \in T : \A n \in T : m <= n
<1> DEFINE R == OpToRel(<, Nat)
<1>1. IsWellFoundedOn(R, Nat)  BY NatLessThanWellFounded
<1>2. \A x, y \in Nat : x < y => <<x, y>> \in R  BY DEF OpToRel
<1> HIDE DEF R
<1>3. PICK m \in T : \A n \in T : ~(<<n, m>> \in R)  BY <1>1, WFMin
<1>4. \A n \in T : ~(n < m)  BY <1>2, <1>3
<1> QED BY <1>4

\* A set of bounded naturals has a greatest element.
LEMMA Greatest ==
  ASSUME NEW B \in Nat, NEW T \in SUBSET (0..B), T # {}
  PROVE  \E m \in T : \A n \in T : n <= m
<1> DEFINE U == {x \in Nat : \E n \in T : x = B - n}
<1>1. U \in SUBSET Nat  OBVIOUS
<1>2. \A n \in T : n \in 0..B /\ B - n \in Nat  OBVIOUS
<1>3. U # {}  BY <1>2
<1>4. PICK u \in U : \A x \in U : u <= x  BY <1>1, <1>3, Least
<1>5. PICK m \in T : u = B - m  BY <1>4
<1>6. \A n \in T : B - n \in U  BY <1>2
<1>7. \A n \in T : n <= m
  <2> SUFFICES ASSUME NEW n \in T PROVE n <= m  OBVIOUS
  <2>1. B - m <= B - n  BY <1>4, <1>5, <1>6
  <2>2. n \in Nat /\ m \in Nat  BY <1>2
  <2> QED BY <2>1, <2>2
<1> QED BY <1>7

\* What the selection works on: rules with ranks, lengths and priorities in their ranges.
LEMMA Scores ==
  ASSUME Lengths, NEW r \in PermissionRule
  PROVE  /\ Rank(r) \in 0..2
         /\ Specificity(r) \in 0..MaxLength
         /\ Priority(r.source) \in 0..60
         /\ r.behavior = "deny" <=> Rank(r) = 2
         /\ r.behavior = "ask" <=> Rank(r) = 1
         /\ r.behavior = "allow" <=> Rank(r) = 0
<1>1. r.behavior \in Behaviors /\ r.source \in Sources /\ r.content \in Texts \union {Nothing}
  BY DEF PermissionRule
<1>2. Rank(r) \in 0..2 /\ (r.behavior = "deny" <=> Rank(r) = 2)
        /\ (r.behavior = "ask" <=> Rank(r) = 1) /\ (r.behavior = "allow" <=> Rank(r) = 0)
  BY <1>1 DEF Rank, Behaviors
<1>3. Specificity(r) \in 0..MaxLength  BY <1>1 DEF Specificity, Lengths
<1>4. Priority(r.source) \in 0..60  BY <1>1 DEF Priority, Sources
<1> QED BY <1>2, <1>3, <1>4

\* decide() finds a rule whenever one matches, and it is one of the strongest behavior.
LEMMA ReportedIsStrongest ==
  ASSUME Lengths, NEW D \in SUBSET Nat, NEW rs \in [D -> PermissionRule], NEW hits \in SUBSET D, hits # {}
  PROVE  Reported(rs, hits) \in hits /\ \A j \in hits : Rank(rs[j]) <= Rank(rs[Reported(rs, hits)])
<1> DEFINE A == Strongest(rs, hits)
           M == MostSpecific(rs, A)
           H == HighestSource(rs, M)
<1>0. \A i \in hits : rs[i] \in PermissionRule  OBVIOUS
<1>1. A # {}
  <2> DEFINE T == {Rank(rs[i]) : i \in hits}
  <2>0. \A i \in hits : Rank(rs[i]) \in 0..2  BY <1>0, Scores
  <2>1. T \in SUBSET (0..2) /\ T # {}  BY <2>0
  <2>2. PICK m \in T : \A n \in T : n <= m  BY <2>1, Greatest
  <2>3. PICK i \in hits : m = Rank(rs[i])  BY <2>2
  <2>4. i \in A  BY <2>2, <2>3 DEF Strongest
  <2> QED BY <2>4
<1>2. A \subseteq hits  BY DEF Strongest
<1>3. M # {}
  <2> DEFINE T == {Specificity(rs[i]) : i \in A}
  <2>1. T \in SUBSET (0..MaxLength) /\ T # {}  BY <1>0, <1>1, <1>2, Scores
  <2>2. PICK m \in T : \A n \in T : n <= m  BY <2>1, Greatest DEF Lengths
  <2>3. PICK i \in A : m = Specificity(rs[i])  BY <2>2
  <2>4. i \in M  BY <2>2, <2>3 DEF MostSpecific
  <2> QED BY <2>4
<1>4. M \subseteq A  BY DEF MostSpecific
<1>5. H # {}
  <2> DEFINE T == {Priority(rs[i].source) : i \in M}
  <2>1. T \in SUBSET (0..60) /\ T # {}  BY <1>0, <1>2, <1>3, <1>4, Scores
  <2>2. PICK m \in T : \A n \in T : n <= m  BY <2>1, Greatest
  <2>3. PICK i \in M : m = Priority(rs[i].source)  BY <2>2
  <2>4. i \in H  BY <2>2, <2>3 DEF HighestSource
  <2> QED BY <2>4
<1>6. H \subseteq M  BY DEF HighestSource
<1>7. Best(rs, hits) = H  BY DEF Best
<1> HIDE DEF A, M, H
<1>8. H \in SUBSET Nat  BY <1>2, <1>4, <1>6
<1>9. \E i \in H : \A j \in H : i <= j  BY <1>5, <1>8, Least
<1>10. Reported(rs, hits) \in H  BY <1>7, <1>9 DEF Reported
<1>11. Reported(rs, hits) \in A  BY <1>4, <1>6, <1>10
<1> QED BY <1>2, <1>11 DEF A, Strongest

Hits == Behaviors \union {"none"}

\* "only the behavior decides": what decide() answers is a deny if a matching rule denies, else
\* an ask if one asks, and an allow only if all of them allow; how long a rule is and where it
\* comes from never matters.
THEOREM BehaviorDecides ==
  ASSUME Lengths, NEW D \in SUBSET Nat, NEW rs \in [D -> PermissionRule], NEW hits \in SUBSET D
  PROVE  /\ Hit(rs, hits) \in Hits
         /\ Hit(rs, hits) = "deny" <=> \E i \in hits : rs[i].behavior = "deny"
         /\ (\E i \in hits : rs[i].behavior = "ask") => Hit(rs, hits) \in {"deny", "ask"}
         /\ Hit(rs, hits) = "allow" => \E i \in hits : i = Reported(rs, hits) /\ rs[i].behavior = "allow"
         /\ Hit(rs, hits) = "allow" => \A i \in hits : rs[i].behavior = "allow"
<1>1. CASE hits = {}  BY <1>1 DEF Hit, Hits, Behaviors
<1>2. CASE hits # {}
  <2> DEFINE b == Reported(rs, hits)
  <2>1. b \in hits /\ \A j \in hits : Rank(rs[j]) <= Rank(rs[b])  BY <1>2, ReportedIsStrongest
  <2>2. Hit(rs, hits) = rs[b].behavior  BY <1>2 DEF Hit
  <2> HIDE DEF b
  <2>3. \A j \in hits : rs[j] \in PermissionRule /\ rs[j].behavior \in Behaviors  BY DEF PermissionRule
  <2>4. \A j \in hits : /\ Rank(rs[j]) \in 0..2
                        /\ rs[j].behavior = "deny" <=> Rank(rs[j]) = 2
                        /\ rs[j].behavior = "ask" <=> Rank(rs[j]) = 1
                        /\ rs[j].behavior = "allow" <=> Rank(rs[j]) = 0
    BY <2>3, Scores
  <2>5. Hit(rs, hits) = "deny" <=> \E i \in hits : rs[i].behavior = "deny"
    BY <2>1, <2>2, <2>4
  <2>6. (\E i \in hits : rs[i].behavior = "ask") => Hit(rs, hits) \in {"deny", "ask"}
    <3> SUFFICES ASSUME NEW i \in hits, rs[i].behavior = "ask" PROVE rs[b].behavior # "allow"
      BY <2>1, <2>2, <2>3 DEF Behaviors
    <3>1. Rank(rs[i]) = 1 /\ Rank(rs[i]) <= Rank(rs[b])  BY <2>1, <2>4
    <3> QED BY <2>1, <2>4, <3>1
  <2>7. Hit(rs, hits) = "allow" => \A i \in hits : rs[i].behavior = "allow"
    <3> SUFFICES ASSUME rs[b].behavior = "allow", NEW i \in hits PROVE Rank(rs[i]) = 0
      BY <2>2, <2>4
    <3>1. Rank(rs[b]) = 0 /\ Rank(rs[i]) <= Rank(rs[b]) /\ Rank(rs[i]) \in 0..2  BY <2>1, <2>4
    <3> QED BY <3>1
  <2>8. Hit(rs, hits) \in Hits  BY <2>1, <2>2, <2>3 DEF Hits
  <2> QED BY <2>1, <2>2, <2>5, <2>6, <2>7, <2>8 DEF b
<1> QED BY <1>1, <1>2

\* A refusal on an alias counts, an allow on one does not.
LEMMA Restricts ==
  ASSUME NEW self \in Hits, NEW other \in Hits
  PROVE  /\ RestrictedBy(self, other) \in Hits
         /\ RestrictedBy(self, other) = "deny" <=> self = "deny" \/ other = "deny"
         /\ self = "ask" \/ other = "ask" => RestrictedBy(self, other) \in {"deny", "ask"}
         /\ RestrictedBy(self, other) = "allow" => self = "allow"
BY DEF RestrictedBy, Hits, Behaviors

\* What evaluate, evaluate_path and evaluate_shell answer when a rule refuses.
LEMMA RefusedByRule ==
  ASSUME Lengths, NEW D \in SUBSET Nat, NEW rs \in [D -> PermissionRule], NEW c \in Call
  PROVE  /\ RuledBy(rs, c, "deny") => RuleHit(rs, c) = "deny"
         /\ RuledBy(rs, c, "ask") => RuleHit(rs, c) \in {"deny", "ask"}
<1> DEFINE text(t) == TextHits(rs, c.tool, t)
           path(p) == PathHits(rs, c, p)
<1>1. ASSUME NEW hits \in SUBSET D
      PROVE  /\ Hit(rs, hits) \in Hits
             /\ (\E i \in hits : rs[i].behavior = "deny") => Hit(rs, hits) = "deny"
             /\ (\E i \in hits : rs[i].behavior = "ask") => Hit(rs, hits) \in {"deny", "ask"}
  BY BehaviorDecides
<1>2. \A t : text(t) \in SUBSET D  BY DEF TextHits
<1>3. \A p : path(p) \in SUBSET D  BY DEF PathHits
<1>4. CASE c.kind \in {"read", "write"} /\ c.text # Nothing
  <2>1. RuleHit(rs, c) = EvaluatePath(rs, c)  BY <1>4 DEF RuleHit
  <2>2. \A p : AliasHit(rs, c, p) \in Hits  BY <1>1, <1>3 DEF AliasHit, Hits
  <2>3. \A b : RuledBy(rs, c, b) =>
          \E p \in {c.primary, c.home, c.real} \ {Nothing} : \E i \in path(p) : rs[i].behavior = b
    BY <1>4 DEF RuledBy, Concerns
  <2> DEFINE first == Hit(rs, path(c.primary))
             then == RestrictedBy(first, AliasHit(rs, c, c.home))
  <2>4. first \in Hits  BY <1>1, <1>3
  <2>5. then \in Hits  BY <2>2, <2>4, Restricts
  <2>6. EvaluatePath(rs, c) = RestrictedBy(then, AliasHit(rs, c, c.real))  BY DEF EvaluatePath
  <2>7. \A p : p # Nothing => AliasHit(rs, c, p) = Hit(rs, path(p))  BY DEF AliasHit
  <2>8. ASSUME RuledBy(rs, c, "deny") PROVE EvaluatePath(rs, c) = "deny"
    <3>1. PICK p \in {c.primary, c.home, c.real} \ {Nothing} : \E i \in path(p) : rs[i].behavior = "deny"
      BY <2>3, <2>8
    <3>0. Hit(rs, path(p)) = "deny"  BY <1>1, <1>3, <3>1
    <3>2. first = "deny" \/ AliasHit(rs, c, c.home) = "deny" \/ AliasHit(rs, c, c.real) = "deny"
      BY <2>7, <3>0
    <3> HIDE DEF first, then
    <3>3. then = "deny" \/ AliasHit(rs, c, c.real) = "deny"
      BY <2>2, <2>4, <3>2, Restricts DEF then
    <3> QED BY <2>2, <2>5, <2>6, <3>3, Restricts
  <2>9. ASSUME RuledBy(rs, c, "ask") PROVE EvaluatePath(rs, c) \in {"deny", "ask"}
    <3>1. PICK p \in {c.primary, c.home, c.real} \ {Nothing} : \E i \in path(p) : rs[i].behavior = "ask"
      BY <2>3, <2>9
    <3>0. Hit(rs, path(p)) \in {"deny", "ask"}  BY <1>1, <1>3, <3>1
    <3>2. \/ first \in {"deny", "ask"} \/ AliasHit(rs, c, c.home) \in {"deny", "ask"}
          \/ AliasHit(rs, c, c.real) \in {"deny", "ask"}
      BY <2>7, <3>0
    <3> HIDE DEF first, then
    <3>3. then \in {"deny", "ask"} \/ AliasHit(rs, c, c.real) \in {"deny", "ask"}
      BY <2>2, <2>4, <3>2, Restricts DEF then
    <3> QED BY <2>2, <2>5, <2>6, <3>3, Restricts
  <2> QED BY <2>1, <2>8, <2>9
<1>5. CASE c.kind = "shell" /\ c.text # Nothing
  <2>1. RuleHit(rs, c) = EvaluateShell(rs, c)  BY <1>5 DEF RuleHit
  <2>2. \A b : RuledBy(rs, c, b) =>
          \/ \E i \in text(c.text) : rs[i].behavior = b
          \/ \E s \in c.segments : \E i \in text(s) : rs[i].behavior = b
    BY <1>5 DEF RuledBy, Concerns
  <2> DEFINE whole == Hit(rs, text(c.text))
             parts == {Hit(rs, text(s)) : s \in c.segments}
  <2>3. RuledBy(rs, c, "deny") => "deny" \in parts \union {whole}  BY <1>1, <1>2, <2>2
  <2>4. RuledBy(rs, c, "ask") => (parts \union {whole}) \intersect {"deny", "ask"} # {}  BY <1>1, <1>2, <2>2
  <2>5. c.segments = {} => EvaluateShell(rs, c) = whole /\ parts = {}  BY DEF EvaluateShell
  <2>6. "deny" \in parts \union {whole} => EvaluateShell(rs, c) = "deny"
    BY <2>5 DEF EvaluateShell
  <2>7. "ask" \in parts \union {whole} => EvaluateShell(rs, c) \in {"deny", "ask"}
    BY <2>5, <2>6 DEF EvaluateShell
  <2> QED BY <2>1, <2>3, <2>4, <2>6, <2>7
<1>6. CASE ~(c.kind \in {"read", "write"} /\ c.text # Nothing) /\ ~(c.kind = "shell" /\ c.text # Nothing)
  <2>1. RuleHit(rs, c) = Hit(rs, text(c.text))  BY <1>6 DEF RuleHit
  <2>2. \A b : RuledBy(rs, c, b) => \E i \in text(c.text) : rs[i].behavior = b
    BY <1>6 DEF RuledBy, Concerns
  <2> QED BY <1>1, <1>2, <2>1, <2>2
<1> QED BY <1>4, <1>5, <1>6

\* Rules, positions and mode keep their types, and rules are only added at the end.
THEOREM GateTypeCorrect == GateSpec => []GateTypeOK
<1>1. GateInit => GateTypeOK
  BY DEF GateInit, GateTypeOK
<1>2. GateTypeOK /\ [GateNext]_gateVars => GateTypeOK'
  <2> SUFFICES ASSUME GateTypeOK, [GateNext]_gateVars PROVE GateTypeOK'  OBVIOUS
  <2> USE DEF GateTypeOK
  <2>1. ASSUME NEW r \in PermissionRule, Added(r) PROVE GateTypeOK'
    BY <2>1 DEF Added
  <2>2. ASSUME NEW t \in Tools, NEW content \in Texts \union {Nothing},
               AddTemporaryAllow(t, content) \/ AddPersistentAllow(t, content)
        PROVE  GateTypeOK'
    BY <2>1, <2>2 DEF AddTemporaryAllow, AddPersistentAllow, PermissionRule, Behaviors, Sources
  <2>3. CASE ClearTemporaryAllows
    BY <2>3 DEF ClearTemporaryAllows
  <2>4. ASSUME NEW m \in Modes, SetPermissionMode(m) PROVE GateTypeOK'
    BY <2>4 DEF SetPermissionMode
  <2>5. CASE UNCHANGED gateVars  BY <2>5 DEF gateVars
  <2> QED BY <2>2, <2>3, <2>4, <2>5 DEF GateNext
<1> QED BY <1>1, <1>2, PTL DEF GateSpec

\* What the gate answers, given what the rules say.
LEMMA GateAnswers ==
  ASSUME NEW rs, NEW m \in Modes, NEW c \in Call, c.known
  PROVE  /\ RuleHit(rs, c) = "deny" => Check(rs, m, c) = "deny"
         /\ Checked(c) \intersect Immune # {} => Check(rs, m, c) = "deny"
         /\ RuleHit(rs, c) = "ask" /\ m # "bypass" => Check(rs, m, c) # "allow"
         /\ m = "dontAsk" => Check(rs, m, c) # "ask"
         /\ m = "plan" /\ Check(rs, m, c) = "allow" => c.readOnly \/ (c.own = "allow" /\ c.overrides)
BY DEF Check, Gate, ModeDenies, Dispatch, Modes

\* Deny rules are final in every reachable state of every session.
THEOREM DenyRulesAreFinal == Lengths => (GateSpec => []DenyIsFinal)
<1> SUFFICES ASSUME Lengths PROVE GateSpec => []DenyIsFinal  OBVIOUS
<1>1. GateTypeOK => DenyIsFinal
  BY RefusedByRule, GateAnswers DEF GateTypeOK, DenyIsFinal
<1> QED BY <1>1, GateTypeCorrect, PTL

\* Protected paths are, under any of the names a path has.
THEOREM ImmunePathsAreFinal == GateSpec => []ImmuneIsFinal
<1>1. GateTypeOK => ImmuneIsFinal  BY GateAnswers DEF GateTypeOK, ImmuneIsFinal
<1> QED BY <1>1, GateTypeCorrect, PTL

\* Ask rules prompt or deny outside bypass mode.
THEOREM AskRulesAreAsked == Lengths => (GateSpec => []AskIsAsked)
<1> SUFFICES ASSUME Lengths PROVE GateSpec => []AskIsAsked  OBVIOUS
<1>1. GateTypeOK => AskIsAsked
  <2> SUFFICES ASSUME GateTypeOK, NEW c \in Call, c.known, RuledBy(rules, c, "ask"), mode # "bypass"
               PROVE  Check(rules, mode, c) # "allow"
    BY DEF AskIsAsked
  <2>1. RuleHit(rules, c) \in {"deny", "ask"}  BY RefusedByRule DEF GateTypeOK
  <2> QED BY <2>1, GateAnswers DEF GateTypeOK
<1> QED BY <1>1, GateTypeCorrect, PTL

\* dontAsk does not ask and plan does not write.
THEOREM ModesAreStrict == GateSpec => []StrictModes
<1>1. GateTypeOK => StrictModes  BY GateAnswers DEF GateTypeOK, StrictModes
<1> QED BY <1>1, GateTypeCorrect, PTL

\* An allow by rules covers every command of a line, or the line, or the path that is opened.
THEOREM AllowsCover == Lengths => (GateSpec => []AllowCovers)
<1> SUFFICES ASSUME Lengths PROVE GateSpec => []AllowCovers  OBVIOUS
<1>1. GateTypeOK => AllowCovers
  <2> SUFFICES ASSUME GateTypeOK, NEW c \in Call, RuleHit(rules, c) = "allow", c.text # Nothing
               PROVE  /\ c.kind = "shell" =>
                           \/ \A s \in c.segments : \E i \in TextHits(rules, c.tool, s) : rules[i].behavior = "allow"
                           \/ \E i \in DOMAIN rules : rules[i].behavior = "allow" /\ rules[i].content = c.trimmed
                      /\ c.kind \in {"read", "write"} =>
                           \E i \in PathHits(rules, c, c.primary) : rules[i].behavior = "allow"
    BY DEF AllowCovers
  <2> DEFINE D == DOMAIN rules
  <2>0. D \in SUBSET Nat /\ rules \in [D -> PermissionRule]  BY DEF GateTypeOK
  <2>1. ASSUME NEW hits \in SUBSET D
        PROVE  /\ Hit(rules, hits) \in Hits
               /\ Hit(rules, hits) = "allow" =>
                    \E i \in hits : i = Reported(rules, hits) /\ rules[i].behavior = "allow"
    BY <2>0, BehaviorDecides
  <2>2. \A t : TextHits(rules, c.tool, t) \in SUBSET D  BY DEF TextHits
  <2>3. \A p : PathHits(rules, c, p) \in SUBSET D  BY DEF PathHits
  <2>4. ASSUME c.kind = "shell"
        PROVE  \/ \A s \in c.segments : \E i \in TextHits(rules, c.tool, s) : rules[i].behavior = "allow"
               \/ \E i \in DOMAIN rules : rules[i].behavior = "allow" /\ rules[i].content = c.trimmed
    <3> DEFINE line == TextHits(rules, c.tool, c.text)
               whole == Hit(rules, line)
               parts == {Hit(rules, TextHits(rules, c.tool, s)) : s \in c.segments}
    <3>1. EvaluateShell(rules, c) = "allow"  BY <2>4 DEF RuleHit
    <3>2. \/ c.segments = {}
          \/ whole = "allow" /\ rules[Reported(rules, line)].content = c.trimmed
          \/ parts = {"allow"}
      BY <3>1 DEF EvaluateShell
    <3>3. CASE whole = "allow" /\ rules[Reported(rules, line)].content = c.trimmed
      BY <2>1, <2>2, <3>3
    <3>4. CASE parts = {"allow"}
      <4>1. \A s \in c.segments : Hit(rules, TextHits(rules, c.tool, s)) = "allow"  BY <3>4
      <4> QED BY <2>1, <2>2, <4>1
    <3> QED BY <3>2, <3>3, <3>4
  <2>5. ASSUME c.kind \in {"read", "write"}
        PROVE  \E i \in PathHits(rules, c, c.primary) : rules[i].behavior = "allow"
    <3>1. EvaluatePath(rules, c) = "allow"  BY <2>5 DEF RuleHit
    <3>2. \A p : AliasHit(rules, c, p) \in Hits  BY <2>1, <2>3 DEF AliasHit, Hits
    <3>3. Hit(rules, PathHits(rules, c, c.primary)) \in Hits  BY <2>1, <2>3
    <3> DEFINE then == RestrictedBy(Hit(rules, PathHits(rules, c, c.primary)), AliasHit(rules, c, c.home))
    <3>4. then \in Hits /\ (then = "allow" => Hit(rules, PathHits(rules, c, c.primary)) = "allow")
      BY <3>2, <3>3, Restricts
    <3>5. RestrictedBy(then, AliasHit(rules, c, c.real)) = "allow"  BY <3>1 DEF EvaluatePath
    <3> HIDE DEF then
    <3>6. then = "allow"  BY <3>2, <3>4, <3>5, Restricts
    <3> QED BY <2>1, <2>3, <3>4, <3>6
  <2> QED BY <2>4, <2>5
<1> QED BY <1>1, GateTypeCorrect, PTL

\* A step keeps every rule in its place, except those of skills, which it may remove.
LEMMA RulesStay ==
  ASSUME GateTypeOK, [GateNext]_gateVars, NEW i \in DOMAIN rules, rules[i].source # "command"
  PROVE  i \in DOMAIN rules' /\ rules'[i] = rules[i]
<1>1. i # next  BY DEF GateTypeOK
<1>2. ASSUME NEW r, Added(r) PROVE i \in DOMAIN rules' /\ rules'[i] = rules[i]
  BY <1>1, <1>2 DEF Added
<1>3. CASE \E t \in Tools, content \in Texts \union {Nothing} :
             AddTemporaryAllow(t, content) \/ AddPersistentAllow(t, content)
  BY <1>2, <1>3 DEF AddTemporaryAllow, AddPersistentAllow
<1>4. CASE ClearTemporaryAllows  BY <1>4 DEF ClearTemporaryAllows
<1>5. CASE \E m \in Modes : SetPermissionMode(m)  BY <1>5 DEF SetPermissionMode
<1>6. CASE UNCHANGED gateVars  BY <1>6 DEF gateVars
<1> QED BY <1>3, <1>4, <1>5, <1>6 DEF GateNext

\* A rule that stays concerns what it concerned.
LEMMA ConcernStays ==
  ASSUME NEW rs, NEW new, NEW c, NEW i \in DOMAIN rs, i \in DOMAIN new, new[i] = rs[i], Concerns(rs, i, c)
  PROVE  Concerns(new, i, c)
<1>1. \A p : i \in PathHits(rs, c, p) => i \in PathHits(new, c, p)  BY DEF PathHits
<1>2. \A t : i \in TextHits(rs, c.tool, t) => i \in TextHits(new, c.tool, t)  BY DEF TextHits
<1> QED BY <1>1, <1>2 DEF Concerns

\* A refusal by a rule that is not a skill's is for good, whatever is granted and whichever mode
\* is chosen after it.
THEOREM RefusalsAreForGood ==
  ASSUME Lengths, NEW CONSTANT c \in Call, c.known
  PROVE  GateSpec => DeniedForGood(c)
<1>1. GateTypeOK /\ StandingDeny(c) /\ [GateNext]_gateVars => StandingDeny(c)'
  <2> SUFFICES ASSUME GateTypeOK, StandingDeny(c), [GateNext]_gateVars PROVE StandingDeny(c)'  OBVIOUS
  <2>1. PICK i \in DOMAIN rules :
          rules[i].behavior = "deny" /\ rules[i].source # "command" /\ Concerns(rules, i, c)
    BY DEF StandingDeny
  <2>2. i \in DOMAIN rules' /\ rules'[i] = rules[i]  BY <2>1, RulesStay
  <2>3. Concerns(rules', i, c)  BY <2>1, <2>2, ConcernStays
  <2> QED BY <2>1, <2>2, <2>3 DEF StandingDeny
<1>2. GateTypeOK /\ StandingDeny(c) => Check(rules, mode, c) = "deny"
  <2> SUFFICES ASSUME GateTypeOK, StandingDeny(c) PROVE Check(rules, mode, c) = "deny"  OBVIOUS
  <2>1. RuledBy(rules, c, "deny")  BY DEF StandingDeny, RuledBy
  <2>2. RuleHit(rules, c) = "deny"  BY <2>1, RefusedByRule DEF GateTypeOK
  <2> QED BY <2>2, GateAnswers DEF GateTypeOK
<1> QED BY <1>1, <1>2, GateTypeCorrect, PTL DEF GateSpec, DeniedForGood

\* "permit always" survives the cleanup of skills.
THEOREM GrantsAreKept == GateSpec => GrantsStay
<1>1. ASSUME GateTypeOK, [GateNext]_gateVars, NEW c \in Call,
             \E i \in DOMAIN rules : rules[i].source = "session" /\ Concerns(rules, i, c)
      PROVE  \E i \in DOMAIN rules' : rules'[i].source = "session" /\ Concerns(rules', i, c)
  <2>1. PICK i \in DOMAIN rules : rules[i].source = "session" /\ Concerns(rules, i, c)  BY <1>1
  <2>2. i \in DOMAIN rules' /\ rules'[i] = rules[i]  BY <1>1, <2>1, RulesStay
  <2>3. Concerns(rules', i, c)  BY <2>1, <2>2, ConcernStays
  <2> QED BY <2>1, <2>2, <2>3
<1>2. GateTypeOK /\ [GateNext]_gateVars =>
        [\A c \in Call : (\E i \in DOMAIN rules : rules[i].source = "session" /\ Concerns(rules, i, c))
           => \E i \in DOMAIN rules' : rules'[i].source = "session" /\ Concerns(rules', i, c)]_gateVars
  BY <1>1
<1> QED BY <1>2, GateTypeCorrect, PTL DEF GateSpec, GrantsStay
=============================================================================

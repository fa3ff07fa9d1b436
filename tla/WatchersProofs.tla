--------------------------- MODULE WatchersProofs ---------------------------
(***************************************************************************)
(* Proofs about module Watchers: what a subscriber of a session can have   *)
(* missed, for any number of connections and turns, any depth of their     *)
(* queues and any number of failures.                                      *)
(*                                                                         *)
(* What makes it inductive: the channel holds the events of the turn whose *)
(* relay runs (ChannelInv); whoever is no subscriber has no history        *)
(* (WatchInv); every step is in the transcript or among those whose        *)
(* persist failed (WrittenInv); a prompt the engine waits for is in the    *)
(* channel or, once the relay took it up, registered (PromptInv); and a    *)
(* tab has what came since it was entered, told of its watermark or not    *)
(* (EntryInv).                                                             *)
(***************************************************************************)
EXTENDS Watchers, TLAPS

\* The frames of the channel are of the turn, of steps that were made and prompts that were asked.
FrameOK(f) ==
  /\ f.kind = "step" => f.n \in 1..total
  /\ f.kind = "prompt" => f.n \in 1..prompts
  /\ f.kind \in {"start", "complete", "error"} => f.n = turn

ChannelInv ==
  /\ turn = 0 <=> engine = "idle"
  /\ turn = 0 \/ engine = "told" => events = <<>> /\ relay = 0
  /\ turn <= turns
  /\ \A i \in 1..Len(events) : FrameOK(events[i])
  /\ relay # 0 => events # <<>> /\ Head(events) = Frame("prompt", relay)
  /\ engine = "done" <=> events # <<>> /\ events[Len(events)].kind \in {"complete", "error"}
  /\ \A i \in 1..(Len(events) - 1) : events[i].kind \notin {"complete", "error"}

\* Every relay that has still to clear the prompts ended a turn of its own.
ClearInv == clearing + (IF turn = 0 THEN 0 ELSE 1) <= turns

WatchInv ==
  /\ \A c \in Conns \ subs : watch[c] = Unwatched
  /\ \A c \in Conns : watch[c].steps \subseteq 1..total

WrittenInv == \A n \in 1..total \ late : n <= written

PromptInv ==
  /\ engine # "run" => asked = {}
  /\ asked \subseteq 1..prompts
  /\ live => \A p \in asked \ erased : p \in pending \/ Waits(Frame("prompt", p))
  /\ live /\ relay # 0 /\ relay \in asked \ erased => relay \in pending

IndInv == TypeOK /\ ChannelInv /\ ClearInv /\ WatchInv /\ WrittenInv /\ PromptInv

-----------------------------------------------------------------------------
(* Lemmas about frames, histories and the channel.                         *)

Watches == [via : BOOLEAN, base : 0..Unknown, unread : 0..MaxSteps,
            unasked : SUBSET (1..MaxPrompts), steps : SUBSET (1..MaxSteps),
            asks : SUBSET (1..MaxPrompts), running : SUBSET (1..MaxTurns)]

\* What no frame changes.
Entered(w) == <<w.via, w.base, w.unread, w.unasked>>

\* What being told of a frame changes in the history of a subscription.
LEMMA ToldChanges ==
  ASSUME NEW w \in Watches, NEW f,
         f.kind = "step" => f.n \in 1..MaxSteps,
         f.kind = "prompt" => f.n \in 1..MaxPrompts,
         f.kind = "start" => f.n \in 1..MaxTurns
  PROVE  /\ Told(w, f) \in Watches
         /\ Entered(Told(w, f)) = Entered(w)
         /\ Told(w, f).steps = IF f.kind = "step" THEN w.steps \union {f.n} ELSE w.steps
         /\ Told(w, f).asks = IF f.kind = "prompt" THEN w.asks \union {f.n} ELSE w.asks
         /\ f.kind = "start" => Told(w, f).running = w.running \union {f.n}
         /\ f.kind \in {"step", "prompt"} => Told(w, f).running = w.running
         /\ f.kind \notin {"start", "step", "prompt"} => Told(w, f).running = w.running \ {f.n}
<1>. USE DEF Watches, Entered
<1>1. CASE f.kind = "step"
  BY <1>1 DEF Told
<1>2. CASE f.kind = "prompt"
  BY <1>2 DEF Told
<1>3. CASE f.kind = "start"
  BY <1>3 DEF Told
<1>4. CASE f.kind \notin {"start", "step", "prompt"}
  BY <1>4 DEF Told
<1>. QED
  BY <1>1, <1>2, <1>3, <1>4

\* Nobody's history.
LEMMA UnwatchedTyped ==
  /\ Unwatched \in Watches /\ Unwatched.base = Unknown /\ ~Unwatched.via
  /\ Unwatched.unread = 0 /\ Unwatched.unasked = {}
  /\ Unwatched.steps = {} /\ Unwatched.asks = {} /\ Unwatched.running = {}
BY WatchersAssumption DEF Unwatched, Watches, Unknown

\* A broadcast drops whoever cannot take the frame and tells everybody else but the excepted.
LEMMA BroadcastTells ==
  ASSUME TypeOK, NEW f, NEW except \in SUBSET Conns, BroadcastExcept(f, except),
         f.kind = "step" => f.n \in 1..MaxSteps,
         f.kind = "prompt" => f.n \in 1..MaxPrompts,
         f.kind = "start" => f.n \in 1..MaxTurns
  PROVE  /\ subs' \subseteq subs /\ queue' \in [Conns -> 0..Depth] /\ watch' \in [Conns -> Watches]
         /\ \A c \in subs' \ except : watch'[c] = Told(watch[c], f)
         /\ \A c \in subs' \intersect except : watch'[c] = watch[c]
         /\ \A c \in subs \ subs' : watch'[c] = Unwatched
         /\ \A c \in Conns \ subs : watch'[c] = watch[c]
<1> DEFINE kept == {c \in subs : c \in except \/ Takes(c)}
           told == kept \ except
<1>1. /\ subs' = kept
      /\ queue' = [c \in Conns |-> IF c \in told THEN queue[c] + 1 ELSE queue[c]]
      /\ watch' = [c \in Conns |-> CASE c \in told -> Told(watch[c], f)
                                     [] c \in subs \ kept -> Unwatched
                                     [] OTHER -> watch[c]]
  BY DEF BroadcastExcept
<1>2. subs \subseteq Conns /\ queue \in [Conns -> 0..Depth] /\ watch \in [Conns -> Watches] /\ Depth \in Nat
  BY WatchersAssumption DEF TypeOK, Watches
<1>3. \A c \in told : queue[c] < Depth
  BY DEF Takes
<1>4. \A c \in Conns : Told(watch[c], f) \in Watches /\ Unwatched \in Watches
  BY <1>2, ToldChanges, UnwatchedTyped
<1>. HIDE DEF told, kept
<1>5. \A c \in Conns : /\ c \in told => watch'[c] = Told(watch[c], f)
                       /\ c \in subs \ kept => watch'[c] = Unwatched
                       /\ c \notin told /\ c \notin subs \ kept => watch'[c] = watch[c]
  BY <1>1 DEF told
<1>6. queue' \in [Conns -> 0..Depth]
  BY <1>1, <1>2, <1>3
<1>7. watch' \in [Conns -> Watches]
  <2>1. \A c \in Conns : watch'[c] \in Watches
    BY <1>2, <1>4, <1>5
  <2>2. DOMAIN watch' = Conns /\ watch' = [c \in Conns |-> watch'[c]]
    BY <1>1
  <2>. QED
    BY <2>1, <2>2
<1>. QED
  BY <1>1, <1>2, <1>5, <1>6, <1>7 DEF told, kept

\* What is appended to the channel waits in it, behind what was there.
LEMMA Appended ==
  ASSUME TypeOK, NEW f \in Frames, events' = Append(events, f)
  PROVE  /\ events' \in Seq(Frames) /\ Len(events') = Len(events) + 1 /\ events' # <<>>
         /\ events'[Len(events) + 1] = f /\ \A i \in 1..Len(events) : events'[i] = events[i]
         /\ events # <<>> => Head(events') = Head(events)
         /\ Waits(f)' /\ \A g : Waits(g) => Waits(g)'
<1>1. events \in Seq(Frames) /\ Len(events) \in Nat
  BY DEF TypeOK
<1>2. /\ events' \in Seq(Frames) /\ Len(events') = Len(events) + 1 /\ events' # <<>>
      /\ events'[Len(events) + 1] = f /\ \A i \in 1..Len(events) : events'[i] = events[i]
  BY <1>1
<1>3. events # <<>> => Head(events') = Head(events)
  BY <1>1, <1>2
<1>4. Waits(f)' /\ \A g : Waits(g) => Waits(g)'
  BY <1>1, <1>2 DEF Waits
<1>. QED
  BY <1>2, <1>3, <1>4

\* What the relay takes from the channel is its head; all the rest waits on.
LEMMA Taken ==
  ASSUME TypeOK, events # <<>>, events' = Tail(events)
  PROVE  /\ events' \in Seq(Frames) /\ Len(events') = Len(events) - 1 /\ Len(events) >= 1
         /\ Head(events) = events[1] /\ Head(events) \in Frames
         /\ \A i \in 1..Len(events') : events'[i] = events[i + 1] /\ i + 1 \in 1..Len(events)
         /\ \A g : Waits(g) => g = Head(events) \/ Waits(g)'
<1>1. events \in Seq(Frames) /\ Len(events) \in Nat /\ Len(events) >= 1
  BY DEF TypeOK
<1>2. /\ events' \in Seq(Frames) /\ Len(events') = Len(events) - 1
      /\ Head(events) = events[1] /\ Head(events) \in Frames
      /\ \A i \in 1..Len(events') : events'[i] = events[i + 1] /\ i + 1 \in 1..Len(events)
  BY <1>1
<1>3. ASSUME NEW g, Waits(g), g # Head(events) PROVE Waits(g)'
  <2>1. PICK i \in 1..Len(events) : events[i] = g
    BY <1>3 DEF Waits
  <2>2. i # 1
    BY <1>2, <1>3, <2>1
  <2>3. i - 1 \in 1..Len(events') /\ events'[i - 1] = events[(i - 1) + 1] /\ (i - 1) + 1 = i
    BY <1>1, <1>2, <2>1, <2>2
  <2>4. events'[i - 1] = g
    BY <2>1, <2>3
  <2>. QED
    BY <2>3, <2>4 DEF Waits
<1>. QED
  BY <1>1, <1>2, <1>3

\* The event the relay takes up next is of its turn, of a step that was made or a prompt.
LEMMA HeadFrame ==
  ASSUME TypeOK, ChannelInv, events # <<>>
  PROVE  /\ Head(events) \in Frames /\ FrameOK(Head(events)) /\ turn \in 1..MaxTurns
         /\ Head(events).kind = "step" => Head(events).n \in 1..MaxSteps
         /\ Head(events).kind = "prompt" => Head(events).n \in 1..MaxPrompts
         /\ Head(events).kind = "start" => Head(events).n \in 1..MaxTurns
<1>1. events \in Seq(Frames) /\ Len(events) \in Nat /\ Len(events) >= 1
  BY DEF TypeOK
<1>2. Head(events) = events[1] /\ Head(events) \in Frames /\ 1 \in 1..Len(events)
  BY <1>1
<1>3. FrameOK(Head(events)) /\ turn # 0
  BY <1>2 DEF ChannelInv
<1>4. /\ turn \in 1..MaxTurns /\ total \in Nat /\ total <= MaxSteps /\ prompts \in Nat
      /\ prompts <= MaxPrompts
  BY <1>3, WatchersAssumption DEF TypeOK
<1>. QED
  BY <1>2, <1>3, <1>4, WatchersAssumption DEF FrameOK

\* What a broadcast of the next event does to the subscribers and their histories.
LEMMA EventTells ==
  ASSUME TypeOK, ChannelInv, events # <<>>, NEW except \in SUBSET Conns,
         BroadcastExcept(Head(events), except)
  PROVE  /\ subs' \subseteq subs /\ queue' \in [Conns -> 0..Depth] /\ watch' \in [Conns -> Watches]
         /\ \A c \in subs' \ except :
              /\ Entered(watch'[c]) = Entered(watch[c])
              /\ watch'[c].steps = IF Head(events).kind = "step"
                                  THEN watch[c].steps \union {Head(events).n} ELSE watch[c].steps
              /\ watch'[c].asks = IF Head(events).kind = "prompt"
                                 THEN watch[c].asks \union {Head(events).n} ELSE watch[c].asks
              /\ Head(events).kind = "start" =>
                   watch'[c].running = watch[c].running \union {Head(events).n}
              /\ Head(events).kind \in {"step", "prompt"} => watch'[c].running = watch[c].running
              /\ Head(events).kind \in {"complete", "error"} =>
                   watch'[c].running = watch[c].running \ {Head(events).n}
         /\ \A c \in subs' \intersect except : watch'[c] = watch[c]
         /\ \A c \in subs \ subs' : watch'[c] = Unwatched
         /\ \A c \in Conns \ subs : watch'[c] = watch[c]
<1> DEFINE f == Head(events)
<1>1. /\ f.kind = "step" => f.n \in 1..MaxSteps
      /\ f.kind = "prompt" => f.n \in 1..MaxPrompts
      /\ f.kind = "start" => f.n \in 1..MaxTurns
  BY HeadFrame
<1>2. BroadcastExcept(f, except)
  OBVIOUS
<1>3. watch \in [Conns -> Watches] /\ subs \subseteq Conns
  BY DEF TypeOK, Watches
<1>. HIDE DEF f
<1>4. /\ subs' \subseteq subs /\ queue' \in [Conns -> 0..Depth] /\ watch' \in [Conns -> Watches]
      /\ \A c \in subs' \ except : watch'[c] = Told(watch[c], f)
      /\ \A c \in subs' \intersect except : watch'[c] = watch[c]
      /\ \A c \in subs \ subs' : watch'[c] = Unwatched
      /\ \A c \in Conns \ subs : watch'[c] = watch[c]
  BY <1>1, <1>2, BroadcastTells
<1>5. ASSUME NEW c \in subs' \ except
      PROVE  /\ Entered(watch'[c]) = Entered(watch[c])
             /\ watch'[c].steps = IF f.kind = "step" THEN watch[c].steps \union {f.n} ELSE watch[c].steps
             /\ watch'[c].asks = IF f.kind = "prompt" THEN watch[c].asks \union {f.n} ELSE watch[c].asks
             /\ f.kind = "start" => watch'[c].running = watch[c].running \union {f.n}
             /\ f.kind \in {"step", "prompt"} => watch'[c].running = watch[c].running
             /\ f.kind \in {"complete", "error"} => watch'[c].running = watch[c].running \ {f.n}
  <2>1. watch[c] \in Watches /\ watch'[c] = Told(watch[c], f)
    BY <1>3, <1>4
  <2>2. f.kind \in {"complete", "error"} => f.kind \notin {"start", "step", "prompt"}
    OBVIOUS
  <2> DEFINE w == watch[c]
             x == watch'[c]
  <2>3. w \in Watches /\ x = Told(w, f)
    BY <2>1
  <2>. HIDE DEF w, x
  <2>4. /\ Entered(x) = Entered(w)
        /\ x.steps = IF f.kind = "step" THEN w.steps \union {f.n} ELSE w.steps
        /\ x.asks = IF f.kind = "prompt" THEN w.asks \union {f.n} ELSE w.asks
        /\ f.kind = "start" => x.running = w.running \union {f.n}
        /\ f.kind \in {"step", "prompt"} => x.running = w.running
        /\ f.kind \notin {"start", "step", "prompt"} => x.running = w.running \ {f.n}
    BY <1>1, <2>3, ToldChanges
  <2>. QED
    BY <2>2, <2>4 DEF w, x
<1>. QED
  BY <1>4, <1>5 DEF f

\* Nobody but the caller of a turn whose engine is gone is left with it.
LEMMA GoneTells ==
  ASSUME TypeOK, RelayGone
  PROVE  /\ subs' \subseteq subs /\ queue' \in [Conns -> 0..Depth] /\ watch' \in [Conns -> Watches]
         /\ \A c \in subs' : /\ Entered(watch'[c]) = Entered(watch[c])
                             /\ watch'[c].steps = watch[c].steps /\ watch'[c].asks = watch[c].asks
         /\ \A c \in subs' \ {owner} : watch'[c].running = watch[c].running \ {turn}
         /\ \A c \in subs' \intersect {owner} : watch'[c] = watch[c]
         /\ \A c \in subs \ subs' : watch'[c] = Unwatched
         /\ \A c \in Conns \ subs : watch'[c] = watch[c]
<1> DEFINE f == Frame("error", turn)
<1>1. f.kind = "error" /\ f.n = turn
  BY DEF Frame
<1>2. BroadcastExcept(f, {owner}) /\ {owner} \in SUBSET Conns
  BY DEF RelayGone, TypeOK
<1>3. watch \in [Conns -> Watches] /\ subs \subseteq Conns
  BY DEF TypeOK, Watches
<1>. HIDE DEF f
<1>4. /\ subs' \subseteq subs /\ queue' \in [Conns -> 0..Depth] /\ watch' \in [Conns -> Watches]
      /\ \A c \in subs' \ {owner} : watch'[c] = Told(watch[c], f)
      /\ \A c \in subs' \intersect {owner} : watch'[c] = watch[c]
      /\ \A c \in subs \ subs' : watch'[c] = Unwatched
      /\ \A c \in Conns \ subs : watch'[c] = watch[c]
  BY <1>1, <1>2, BroadcastTells
<1>5. ASSUME NEW c \in subs' \ {owner}
      PROVE  /\ Entered(watch'[c]) = Entered(watch[c])
             /\ watch'[c].steps = watch[c].steps /\ watch'[c].asks = watch[c].asks
             /\ watch'[c].running = watch[c].running \ {turn}
  <2> DEFINE w == watch[c]
             x == watch'[c]
  <2>1. w \in Watches /\ x = Told(w, f)
    BY <1>3, <1>4
  <2>. HIDE DEF w, x
  <2>2. /\ Entered(x) = Entered(w) /\ x.steps = w.steps /\ x.asks = w.asks
        /\ x.running = w.running \ {turn}
    BY <1>1, <2>1, ToldChanges
  <2>. QED
    BY <2>2 DEF w, x
<1>. QED
  BY <1>4, <1>5

\* What a subscribe makes of the history of its connection.
LEMMA JoinedTyped ==
  ASSUME TypeOK, NEW w \in Watches
  PROVE  /\ Joined(w) \in Watches
         /\ Joined(w).steps = w.steps /\ Joined(w).running = w.running
         /\ Joined(w).asks = w.asks \union pending /\ Joined(w).unasked = {}
         /\ Joined(w).via /\ Joined(w).base = Unknown /\ Joined(w).unread = written
<1>1. written \in 0..total /\ total \in 0..MaxSteps /\ MaxSteps \in Nat
  BY WatchersAssumption DEF TypeOK
<1>2. pending \subseteq 1..MaxPrompts /\ written \in 0..MaxSteps /\ Unknown \in 0..Unknown
  BY <1>1 DEF TypeOK, Unknown
<1>. QED
  BY <1>2 DEF Joined, Watches

\* What the answer to it makes of the history.
LEMMA AnsweredTyped ==
  ASSUME TypeOK, NEW w \in Watches, NEW ok \in BOOLEAN
  PROVE  /\ Answered(w, ok) \in Watches
         /\ Answered(w, ok).base = IF ok THEN written ELSE 0
         /\ Answered(w, ok).unread = IF ok THEN 0 ELSE w.unread
         /\ Answered(w, ok).steps = w.steps /\ Answered(w, ok).running = w.running
         /\ Answered(w, ok).asks = w.asks /\ Answered(w, ok).unasked = w.unasked
         /\ Answered(w, ok).via = w.via
<1>1. written \in 0..total /\ total \in 0..MaxSteps /\ MaxSteps \in Nat
  BY WatchersAssumption DEF TypeOK
<1>2. written \in 0..Unknown /\ 0 \in 0..Unknown /\ 0 \in 0..MaxSteps
  BY <1>1 DEF Unknown
<1>. QED
  BY <1>2 DEF Answered, Watches

\* The types in parts, as the actions change them.
SessionTyped ==
  /\ live \in BOOLEAN /\ subs \subseteq Conns /\ pending \subseteq 1..MaxPrompts
  /\ turn \in 0..MaxTurns /\ owner \in Conns /\ relay \in 0..MaxPrompts /\ clearing \in 0..MaxTurns
EngineTyped ==
  /\ engine \in {"idle", "run", "done", "gone", "told"} /\ total \in 0..MaxSteps /\ written \in 0..total
  /\ asked \subseteq 1..MaxPrompts /\ late \subseteq 1..MaxSteps /\ erased \subseteq 1..MaxPrompts
CountersTyped == turns \in 0..MaxTurns /\ prompts \in 0..MaxPrompts /\ faults \in 0..MaxFaults
ConnsTyped ==
  /\ open \subseteq Conns /\ writer \subseteq Conns /\ queue \in [Conns -> 0..Depth]
  /\ request \in [Conns -> {"none", "sent", "inserted"}] /\ due \subseteq Conns \X (0..MaxTurns)
EventsTyped == events \in Seq(Frames)
WatchTyped == watch \in [Conns -> Watches]

\* The parts make up the types, before a step and after it.
LEMMA TypeParts ==
  /\ TypeOK <=> /\ SessionTyped /\ EngineTyped /\ CountersTyped
                /\ ConnsTyped /\ EventsTyped /\ WatchTyped
  /\ TypeOK' <=> /\ SessionTyped' /\ EngineTyped' /\ CountersTyped'
                 /\ ConnsTyped' /\ EventsTyped' /\ WatchTyped'
BY Zenon DEF TypeOK, SessionTyped, EngineTyped, CountersTyped, ConnsTyped, EventsTyped, WatchTyped, Watches

\* The types of the session and its turn are kept.
LEMMA SessionTypeStep ==
  ASSUME TypeOK, ChannelInv, ClearInv, [Next]_vars
  PROVE  SessionTyped'
<1>. USE TypeParts, WatchersAssumption DEF SessionTyped
<1>1. ASSUME NEW c \in Callers, StartTurn(c) PROVE SessionTyped'
  BY <1>1 DEF StartTurn, Conns, CountersTyped
<1>2. ASSUME NEW ok \in BOOLEAN, Step(ok) PROVE SessionTyped'
  BY <1>2 DEF Step, Conns, Leave, GiveBack, engineVars, counters, connVars
<1>3. ASSUME NEW kind \in {"complete", "error"}, NEW ok \in BOOLEAN, Finish(kind, ok) PROVE SessionTyped'
  BY <1>3 DEF Finish, Conns, Leave, GiveBack, engineVars, counters, connVars
<1>4. CASE Stop
  BY <1>4 DEF Stop, Conns, Leave, GiveBack, engineVars, counters, connVars
<1>5. CASE Ask
  BY <1>5 DEF Ask, Conns, Leave, GiveBack, engineVars, counters, connVars
<1>6. ASSUME NEW p \in 1..MaxPrompts, TimeOut(p) PROVE SessionTyped'
  BY <1>6 DEF TimeOut, Conns, Leave, GiveBack, engineVars, counters, connVars
<1>7. ASSUME NEW p \in 1..MaxPrompts, RespondToPrompt(p) PROVE SessionTyped'
  BY <1>7 DEF RespondToPrompt, Conns, Leave, GiveBack, engineVars, counters, connVars
<1>8. CASE RelayFrame
  <2>1. events # <<>> /\ events' = Tail(events)
    BY <1>8 DEF RelayFrame, Next1
  <2>2. subs' \subseteq Conns /\ queue' \in [Conns -> 0..Depth] /\ watch' \in [Conns -> Watches]
    BY <1>8, <2>1, EventTells DEF RelayFrame, Broadcast, TypeOK
  <2>. QED
    BY <1>8, <2>2 DEF RelayFrame, GiveBack
<1>9. CASE Remember
  BY <1>9, HeadFrame DEF Remember
<1>10. CASE Show
  <2>1. events # <<>> /\ events' = Tail(events)
    BY <1>10 DEF Show, Next1
  <2>2. subs' \subseteq Conns /\ queue' \in [Conns -> 0..Depth] /\ watch' \in [Conns -> Watches]
    BY <1>10, <2>1, EventTells DEF Show, Broadcast, TypeOK
  <2>. QED
    BY <1>10, <2>2 DEF Show, GiveBack
<1>11. CASE RelayComplete
  <2>1. events # <<>> /\ events' = Tail(events)
    BY <1>11 DEF RelayComplete, Next1
  <2>2. subs' \subseteq Conns /\ queue' \in [Conns -> 0..Depth] /\ watch' \in [Conns -> Watches]
    BY <1>11, <2>1, EventTells DEF RelayComplete, Broadcast, TypeOK
  <2>3. clearing + 1 \in 0..MaxTurns
    BY <2>1, HeadFrame DEF ClearInv, CountersTyped
  <2>. QED
    BY <1>11, <2>2, <2>3 DEF RelayComplete, GiveBack
<1>12. CASE Clear
  BY <1>12 DEF Clear, Conns, Leave, GiveBack, engineVars, counters, connVars
<1>13. CASE RelayError
  <2>1. events # <<>> /\ events' = Tail(events)
    BY <1>13 DEF RelayError, Next1
  <2>2. subs' \subseteq Conns /\ queue' \in [Conns -> 0..Depth] /\ watch' \in [Conns -> Watches]
    BY <1>13, <2>1, EventTells DEF RelayError, Broadcast, TypeOK
  <2>. QED
    BY <1>13, <2>2 DEF RelayError, GiveBack
<1>14. CASE RelayGone
  <2>1. subs' \subseteq subs
    BY <1>14, GoneTells
  <2>2. UNCHANGED <<live, pending, turn, owner, relay, clearing>>
    BY <1>14 DEF RelayGone
  <2>. QED
    BY <2>1, <2>2
<1>15. CASE Close
  BY <1>15 DEF Close, Conns, Leave, GiveBack, engineVars, counters, connVars
<1>16. CASE Rebuild
  BY <1>16 DEF Rebuild, Conns, Leave, GiveBack, engineVars, counters, connVars
<1>17. ASSUME NEW c \in Tabs, Subscribe(c) PROVE SessionTyped'
  BY <1>17 DEF Subscribe, Conns, Leave, GiveBack, engineVars, counters, connVars
<1>18. ASSUME NEW c \in Conns, Insert(c) PROVE SessionTyped'
  BY <1>18 DEF Insert, Conns, Leave, GiveBack, engineVars, counters, connVars
<1>19. ASSUME NEW c \in Conns, NotFound(c) PROVE SessionTyped'
  BY <1>19 DEF NotFound, Conns, Leave, GiveBack, engineVars, counters, connVars
<1>20. ASSUME NEW c \in Conns, NEW ok \in BOOLEAN, Watermark(c, ok) PROVE SessionTyped'
  BY <1>20 DEF Watermark, Conns, Leave, GiveBack, engineVars, counters, connVars
<1>21. ASSUME NEW c \in Conns, Unsubscribe(c) PROVE SessionTyped'
  BY <1>21 DEF Unsubscribe, Conns, Leave, GiveBack, engineVars, counters, connVars
<1>22. ASSUME NEW c \in Conns, DropConnection(c) PROVE SessionTyped'
  BY <1>22 DEF DropConnection, Conns, Leave, GiveBack, engineVars, counters, connVars
<1>23. ASSUME NEW c \in Conns, NEW ok \in BOOLEAN, Write(c, ok) PROVE SessionTyped'
  BY <1>23 DEF Write, Conns, Leave, GiveBack, engineVars, counters, connVars
<1>24. ASSUME NEW c \in Conns, NEW t \in 0..MaxTurns, Respond(c, t) PROVE SessionTyped'
  BY <1>24 DEF Respond, Conns, Leave, GiveBack, engineVars, counters, connVars
<1>25. CASE RemoveGone
  <2>1. /\ live' = FALSE /\ subs' = {} /\ pending' = {} /\ turn' = 0
        /\ UNCHANGED <<owner, relay, clearing>>
    BY <1>25 DEF RemoveGone, GiveBack
  <2>2. 0 \in 0..MaxTurns
    OBVIOUS
  <2>. QED
    BY <2>1, <2>2
<1>26. ASSUME NEW c \in Conns, Steer(c) PROVE SessionTyped'
  BY <1>26 DEF Steer, Conns
<1>27. CASE UNCHANGED vars
  BY <1>27 DEF vars, engineVars, counters, connVars
<1>. QED
  BY <1>1, <1>2, <1>3, <1>4, <1>5, <1>6, <1>7, <1>8, <1>9, <1>10, <1>11, <1>12, <1>13, <1>14, <1>15,
     <1>16, <1>17, <1>18, <1>19, <1>20, <1>21, <1>22, <1>23, <1>24, <1>25, <1>26, <1>27 DEF Next, Conns

\* The types of the engine's state are kept.
LEMMA EngineTypeStep ==
  ASSUME TypeOK, [Next]_vars
  PROVE  EngineTyped'
<1>. USE TypeParts, WatchersAssumption DEF EngineTyped
<1>1. ASSUME NEW c \in Callers, StartTurn(c) PROVE EngineTyped'
  BY <1>1 DEF StartTurn, engineVars
<1>2. ASSUME NEW ok \in BOOLEAN, Step(ok) PROVE EngineTyped'
  <2>1. EngineTyped /\ MaxSteps \in Nat
    BY TypeParts, WatchersAssumption
  <2>2. /\ total' = total + 1 /\ total < MaxSteps /\ UNCHANGED <<engine, asked, erased>>
        /\ Persist(total + 1, ok)
    BY <1>2 DEF Step
  <2>3. written' \in {total + 1, written} /\ late' \subseteq late \union ((written + 1)..(total + 1))
    BY <2>2 DEF Persist
  <2>. QED
    BY <2>1, <2>2, <2>3
<1>3. ASSUME NEW kind \in {"complete", "error"}, NEW ok \in BOOLEAN, Finish(kind, ok) PROVE EngineTyped'
  BY <1>3 DEF Finish, Persist
<1>4. CASE Stop
  BY <1>4 DEF Stop, engineVars
<1>5. CASE Ask
  BY <1>5 DEF Ask, CountersTyped
<1>6. ASSUME NEW p \in 1..MaxPrompts, TimeOut(p) PROVE EngineTyped'
  BY <1>6 DEF TimeOut, engineVars
<1>7. ASSUME NEW p \in 1..MaxPrompts, RespondToPrompt(p) PROVE EngineTyped'
  BY <1>7 DEF RespondToPrompt, engineVars
<1>8. CASE RelayFrame
  BY <1>8 DEF RelayFrame, engineVars
<1>9. CASE Remember
  BY <1>9 DEF Remember, engineVars
<1>10. CASE Show
  BY <1>10 DEF Show, engineVars
<1>11. CASE RelayComplete
  BY <1>11 DEF RelayComplete, engineVars
<1>12. CASE Clear
  BY <1>12 DEF Clear, engineVars
<1>13. CASE RelayError
  BY <1>13 DEF RelayError, engineVars
<1>14. CASE RelayGone
  BY <1>14 DEF RelayGone, engineVars
<1>15. CASE Close
  BY <1>15 DEF Close, engineVars
<1>16. CASE Rebuild
  BY <1>16 DEF Rebuild, engineVars
<1>17. ASSUME NEW c \in Tabs, Subscribe(c) PROVE EngineTyped'
  BY <1>17 DEF Subscribe, engineVars
<1>18. ASSUME NEW c \in Conns, Insert(c) PROVE EngineTyped'
  BY <1>18 DEF Insert, engineVars
<1>19. ASSUME NEW c \in Conns, NotFound(c) PROVE EngineTyped'
  BY <1>19 DEF NotFound, engineVars
<1>20. ASSUME NEW c \in Conns, NEW ok \in BOOLEAN, Watermark(c, ok) PROVE EngineTyped'
  BY <1>20 DEF Watermark, engineVars
<1>21. ASSUME NEW c \in Conns, Unsubscribe(c) PROVE EngineTyped'
  BY <1>21 DEF Unsubscribe, engineVars
<1>22. ASSUME NEW c \in Conns, DropConnection(c) PROVE EngineTyped'
  BY <1>22 DEF DropConnection, engineVars
<1>23. ASSUME NEW c \in Conns, NEW ok \in BOOLEAN, Write(c, ok) PROVE EngineTyped'
  BY <1>23 DEF Write, engineVars
<1>24. ASSUME NEW c \in Conns, NEW t \in 0..MaxTurns, Respond(c, t) PROVE EngineTyped'
  BY <1>24 DEF Respond, engineVars
<1>25. CASE RemoveGone
  BY <1>25 DEF RemoveGone, engineVars
<1>26. ASSUME NEW c \in Conns, Steer(c) PROVE EngineTyped'
  BY <1>26 DEF Steer, engineVars
<1>27. CASE UNCHANGED vars
  BY <1>27 DEF vars, engineVars, counters, connVars
<1>. QED
  BY <1>1, <1>2, <1>3, <1>4, <1>5, <1>6, <1>7, <1>8, <1>9, <1>10, <1>11, <1>12, <1>13, <1>14, <1>15,
     <1>16, <1>17, <1>18, <1>19, <1>20, <1>21, <1>22, <1>23, <1>24, <1>25, <1>26, <1>27 DEF Next, Conns

\* The counters stay within their bounds.
LEMMA CountersTypeStep ==
  ASSUME TypeOK, [Next]_vars
  PROVE  CountersTyped'
<1>. USE TypeParts, WatchersAssumption DEF CountersTyped, counters, Fault
<1>1. ASSUME NEW c \in Callers, StartTurn(c) PROVE CountersTyped'
  BY <1>1 DEF StartTurn
<1>2. ASSUME NEW ok \in BOOLEAN, Step(ok) PROVE CountersTyped'
  BY <1>2 DEF Step, Persist
<1>3. ASSUME NEW kind \in {"complete", "error"}, NEW ok \in BOOLEAN, Finish(kind, ok) PROVE CountersTyped'
  BY <1>3 DEF Finish, Persist
<1>4. CASE Stop
  BY <1>4 DEF Stop
<1>5. CASE Ask
  BY <1>5 DEF Ask
<1>6. ASSUME NEW p \in 1..MaxPrompts, TimeOut(p) PROVE CountersTyped'
  BY <1>6 DEF TimeOut
<1>7. ASSUME NEW p \in 1..MaxPrompts, RespondToPrompt(p) PROVE CountersTyped'
  BY <1>7 DEF RespondToPrompt
<1>8. CASE RelayFrame
  BY <1>8 DEF RelayFrame
<1>9. CASE Remember
  BY <1>9 DEF Remember
<1>10. CASE Show
  BY <1>10 DEF Show
<1>11. CASE RelayComplete
  BY <1>11 DEF RelayComplete
<1>12. CASE Clear
  BY <1>12 DEF Clear
<1>13. CASE RelayError
  BY <1>13 DEF RelayError
<1>14. CASE RelayGone
  BY <1>14 DEF RelayGone
<1>15. CASE Close
  BY <1>15 DEF Close
<1>16. CASE Rebuild
  BY <1>16 DEF Rebuild
<1>17. ASSUME NEW c \in Tabs, Subscribe(c) PROVE CountersTyped'
  BY <1>17 DEF Subscribe
<1>18. ASSUME NEW c \in Conns, Insert(c) PROVE CountersTyped'
  BY <1>18 DEF Insert
<1>19. ASSUME NEW c \in Conns, NotFound(c) PROVE CountersTyped'
  BY <1>19 DEF NotFound
<1>20. ASSUME NEW c \in Conns, NEW ok \in BOOLEAN, Watermark(c, ok) PROVE CountersTyped'
  BY <1>20 DEF Watermark
<1>21. ASSUME NEW c \in Conns, Unsubscribe(c) PROVE CountersTyped'
  BY <1>21 DEF Unsubscribe
<1>22. ASSUME NEW c \in Conns, DropConnection(c) PROVE CountersTyped'
  BY <1>22 DEF DropConnection
<1>23. ASSUME NEW c \in Conns, NEW ok \in BOOLEAN, Write(c, ok) PROVE CountersTyped'
  BY <1>23 DEF Write
<1>24. ASSUME NEW c \in Conns, NEW t \in 0..MaxTurns, Respond(c, t) PROVE CountersTyped'
  BY <1>24 DEF Respond
<1>25. CASE RemoveGone
  BY <1>25 DEF RemoveGone
<1>26. ASSUME NEW c \in Conns, Steer(c) PROVE CountersTyped'
  BY <1>26 DEF Steer
<1>27. CASE UNCHANGED vars
  BY <1>27 DEF vars, engineVars, counters, connVars
<1>. QED
  BY <1>1, <1>2, <1>3, <1>4, <1>5, <1>6, <1>7, <1>8, <1>9, <1>10, <1>11, <1>12, <1>13, <1>14, <1>15,
     <1>16, <1>17, <1>18, <1>19, <1>20, <1>21, <1>22, <1>23, <1>24, <1>25, <1>26, <1>27 DEF Next, Conns

\* The types of the connections are kept, and no queue grows beyond its depth.
LEMMA ConnsTypeStep ==
  ASSUME TypeOK, ChannelInv, [Next]_vars
  PROVE  ConnsTyped'
<1>. USE TypeParts, WatchersAssumption DEF ConnsTyped, connVars
<1>1. ASSUME NEW c \in Callers, StartTurn(c) PROVE ConnsTyped'
  BY <1>1 DEF StartTurn
<1>2. ASSUME NEW ok \in BOOLEAN, Step(ok) PROVE ConnsTyped'
  BY <1>2 DEF Step
<1>3. ASSUME NEW kind \in {"complete", "error"}, NEW ok \in BOOLEAN, Finish(kind, ok) PROVE ConnsTyped'
  BY <1>3 DEF Finish
<1>4. CASE Stop
  BY <1>4 DEF Stop
<1>5. CASE Ask
  BY <1>5 DEF Ask
<1>6. ASSUME NEW p \in 1..MaxPrompts, TimeOut(p) PROVE ConnsTyped'
  BY <1>6 DEF TimeOut
<1>7. ASSUME NEW p \in 1..MaxPrompts, RespondToPrompt(p) PROVE ConnsTyped'
  BY <1>7 DEF RespondToPrompt
<1>8. CASE RelayFrame
  <2>1. events # <<>> /\ events' = Tail(events)
    BY <1>8 DEF RelayFrame, Next1
  <2>2. subs' \subseteq Conns /\ queue' \in [Conns -> 0..Depth] /\ watch' \in [Conns -> Watches]
    BY <1>8, <2>1, EventTells DEF RelayFrame, Broadcast, TypeOK
  <2>. QED
    BY <1>8, <2>2 DEF RelayFrame, GiveBack, SessionTyped
<1>9. CASE Remember
  BY <1>9 DEF Remember
<1>10. CASE Show
  <2>1. events # <<>> /\ events' = Tail(events)
    BY <1>10 DEF Show, Next1
  <2>2. subs' \subseteq Conns /\ queue' \in [Conns -> 0..Depth] /\ watch' \in [Conns -> Watches]
    BY <1>10, <2>1, EventTells DEF Show, Broadcast, TypeOK
  <2>. QED
    BY <1>10, <2>2 DEF Show, GiveBack, SessionTyped
<1>11. CASE RelayComplete
  <2>1. events # <<>> /\ events' = Tail(events)
    BY <1>11 DEF RelayComplete, Next1
  <2>2. subs' \subseteq Conns /\ queue' \in [Conns -> 0..Depth] /\ watch' \in [Conns -> Watches]
    BY <1>11, <2>1, EventTells DEF RelayComplete, Broadcast, TypeOK
  <2>. QED
    BY <1>11, <2>2 DEF RelayComplete, GiveBack, SessionTyped
<1>12. CASE Clear
  BY <1>12 DEF Clear
<1>13. CASE RelayError
  <2>1. events # <<>> /\ events' = Tail(events)
    BY <1>13 DEF RelayError, Next1
  <2>2. subs' \subseteq Conns /\ queue' \in [Conns -> 0..Depth] /\ watch' \in [Conns -> Watches]
    BY <1>13, <2>1, EventTells DEF RelayError, Broadcast, TypeOK
  <2>. QED
    BY <1>13, <2>2 DEF RelayError, GiveBack, SessionTyped
<1>14. CASE RelayGone
  <2>1. queue' \in [Conns -> 0..Depth]
    BY <1>14, GoneTells
  <2>2. UNCHANGED <<connVars, due>>
    BY <1>14 DEF RelayGone
  <2>. QED
    BY <2>1, <2>2
<1>15. CASE Close
  BY <1>15 DEF Close
<1>16. CASE Rebuild
  BY <1>16 DEF Rebuild
<1>17. ASSUME NEW c \in Tabs, Subscribe(c) PROVE ConnsTyped'
  BY <1>17 DEF Subscribe
<1>18. ASSUME NEW c \in Conns, Insert(c) PROVE ConnsTyped'
  BY <1>18 DEF Insert
<1>19. ASSUME NEW c \in Conns, NotFound(c) PROVE ConnsTyped'
  BY <1>19 DEF NotFound
<1>20. ASSUME NEW c \in Conns, NEW ok \in BOOLEAN, Watermark(c, ok) PROVE ConnsTyped'
  BY <1>20 DEF Watermark
<1>21. ASSUME NEW c \in Conns, Unsubscribe(c) PROVE ConnsTyped'
  BY <1>21 DEF Unsubscribe
<1>22. ASSUME NEW c \in Conns, DropConnection(c) PROVE ConnsTyped'
  BY <1>22 DEF DropConnection
<1>23. ASSUME NEW c \in Conns, NEW ok \in BOOLEAN, Write(c, ok) PROVE ConnsTyped'
  BY <1>23 DEF Write
<1>24. ASSUME NEW c \in Conns, NEW t \in 0..MaxTurns, Respond(c, t) PROVE ConnsTyped'
  BY <1>24 DEF Respond
<1>25. CASE RemoveGone
  <2>1. turn \in 0..MaxTurns /\ owner \in Conns
    BY DEF SessionTyped
  <2>. QED
    BY <1>25, <2>1 DEF RemoveGone, GiveBack
<1>26. ASSUME NEW c \in Conns, Steer(c) PROVE ConnsTyped'
  BY <1>26 DEF Steer
<1>27. CASE UNCHANGED vars
  BY <1>27 DEF vars, engineVars, counters, connVars
<1>. QED
  BY <1>1, <1>2, <1>3, <1>4, <1>5, <1>6, <1>7, <1>8, <1>9, <1>10, <1>11, <1>12, <1>13, <1>14, <1>15,
     <1>16, <1>17, <1>18, <1>19, <1>20, <1>21, <1>22, <1>23, <1>24, <1>25, <1>26, <1>27 DEF Next, Conns

\* The channel holds frames.
LEMMA EventsTypeStep ==
  ASSUME TypeOK, [Next]_vars
  PROVE  EventsTyped'
<1>. USE TypeParts, WatchersAssumption DEF EventsTyped
<1>1. ASSUME NEW c \in Callers, StartTurn(c) PROVE EventsTyped'
  <2>1. Frame("start", turns + 1) \in Frames
    BY DEF Frame, Frames, CountersTyped
  <2>. QED
    BY <1>1, <2>1, Appended DEF StartTurn
<1>2. ASSUME NEW ok \in BOOLEAN, Step(ok) PROVE EventsTyped'
  <2>1. Frame("step", total + 1) \in Frames
    BY DEF Frame, Frames, EngineTyped
  <2>. QED
    BY <1>2, <2>1, Appended DEF Step
<1>3. ASSUME NEW kind \in {"complete", "error"}, NEW ok \in BOOLEAN, Finish(kind, ok) PROVE EventsTyped'
  <2>1. Frame(kind, turn) \in Frames
    BY DEF Frame, Frames, SessionTyped
  <2>. QED
    BY <1>3, <2>1, Appended DEF Finish
<1>4. CASE Stop
  BY <1>4 DEF Stop
<1>5. CASE Ask
  <2>1. Frame("prompt", prompts + 1) \in Frames
    BY DEF Frame, Frames, CountersTyped
  <2>. QED
    BY <1>5, <2>1, Appended DEF Ask
<1>6. ASSUME NEW p \in 1..MaxPrompts, TimeOut(p) PROVE EventsTyped'
  BY <1>6 DEF TimeOut
<1>7. ASSUME NEW p \in 1..MaxPrompts, RespondToPrompt(p) PROVE EventsTyped'
  BY <1>7 DEF RespondToPrompt
<1>8. CASE RelayFrame
  BY <1>8, Taken DEF RelayFrame, Next1
<1>9. CASE Remember
  BY <1>9 DEF Remember
<1>10. CASE Show
  BY <1>10, Taken DEF Show, Next1
<1>11. CASE RelayComplete
  BY <1>11, Taken DEF RelayComplete, Next1
<1>12. CASE Clear
  BY <1>12 DEF Clear
<1>13. CASE RelayError
  BY <1>13, Taken DEF RelayError, Next1
<1>14. CASE RelayGone
  BY <1>14 DEF RelayGone
<1>15. CASE Close
  BY <1>15 DEF Close
<1>16. CASE Rebuild
  BY <1>16 DEF Rebuild
<1>17. ASSUME NEW c \in Tabs, Subscribe(c) PROVE EventsTyped'
  BY <1>17 DEF Subscribe
<1>18. ASSUME NEW c \in Conns, Insert(c) PROVE EventsTyped'
  BY <1>18 DEF Insert
<1>19. ASSUME NEW c \in Conns, NotFound(c) PROVE EventsTyped'
  BY <1>19 DEF NotFound
<1>20. ASSUME NEW c \in Conns, NEW ok \in BOOLEAN, Watermark(c, ok) PROVE EventsTyped'
  BY <1>20 DEF Watermark
<1>21. ASSUME NEW c \in Conns, Unsubscribe(c) PROVE EventsTyped'
  BY <1>21 DEF Unsubscribe
<1>22. ASSUME NEW c \in Conns, DropConnection(c) PROVE EventsTyped'
  BY <1>22 DEF DropConnection
<1>23. ASSUME NEW c \in Conns, NEW ok \in BOOLEAN, Write(c, ok) PROVE EventsTyped'
  BY <1>23 DEF Write
<1>24. ASSUME NEW c \in Conns, NEW t \in 0..MaxTurns, Respond(c, t) PROVE EventsTyped'
  BY <1>24 DEF Respond
<1>25. CASE RemoveGone
  BY <1>25 DEF RemoveGone
<1>26. ASSUME NEW c \in Conns, Steer(c) PROVE EventsTyped'
  BY <1>26 DEF Steer
<1>27. CASE UNCHANGED vars
  BY <1>27 DEF vars, engineVars, counters, connVars
<1>. QED
  BY <1>1, <1>2, <1>3, <1>4, <1>5, <1>6, <1>7, <1>8, <1>9, <1>10, <1>11, <1>12, <1>13, <1>14, <1>15,
     <1>16, <1>17, <1>18, <1>19, <1>20, <1>21, <1>22, <1>23, <1>24, <1>25, <1>26, <1>27 DEF Next, Conns

\* The histories of the subscriptions have their type.
LEMMA WatchTypeStep ==
  ASSUME TypeOK, ChannelInv, [Next]_vars
  PROVE  WatchTyped'
<1>. USE TypeParts, UnwatchedTyped DEF WatchTyped
<1>1. ASSUME NEW c \in Callers, StartTurn(c) PROVE WatchTyped'
  BY <1>1 DEF StartTurn
<1>2. ASSUME NEW ok \in BOOLEAN, Step(ok) PROVE WatchTyped'
  BY <1>2 DEF Step
<1>3. ASSUME NEW kind \in {"complete", "error"}, NEW ok \in BOOLEAN, Finish(kind, ok) PROVE WatchTyped'
  BY <1>3 DEF Finish
<1>4. CASE Stop
  BY <1>4 DEF Stop
<1>5. CASE Ask
  BY <1>5 DEF Ask
<1>6. ASSUME NEW p \in 1..MaxPrompts, TimeOut(p) PROVE WatchTyped'
  BY <1>6 DEF TimeOut
<1>7. ASSUME NEW p \in 1..MaxPrompts, RespondToPrompt(p) PROVE WatchTyped'
  BY <1>7 DEF RespondToPrompt
<1>8. CASE RelayFrame
  <2>1. events # <<>> /\ events' = Tail(events)
    BY <1>8 DEF RelayFrame, Next1
  <2>2. subs' \subseteq Conns /\ queue' \in [Conns -> 0..Depth] /\ watch' \in [Conns -> Watches]
    BY <1>8, <2>1, EventTells DEF RelayFrame, Broadcast, TypeOK
  <2>. QED
    BY <1>8, <2>2 DEF RelayFrame
<1>9. CASE Remember
  BY <1>9 DEF Remember
<1>10. CASE Show
  <2>1. events # <<>> /\ events' = Tail(events)
    BY <1>10 DEF Show, Next1
  <2>2. subs' \subseteq Conns /\ queue' \in [Conns -> 0..Depth] /\ watch' \in [Conns -> Watches]
    BY <1>10, <2>1, EventTells DEF Show, Broadcast, TypeOK
  <2>. QED
    BY <1>10, <2>2 DEF Show
<1>11. CASE RelayComplete
  <2>1. events # <<>> /\ events' = Tail(events)
    BY <1>11 DEF RelayComplete, Next1
  <2>2. subs' \subseteq Conns /\ queue' \in [Conns -> 0..Depth] /\ watch' \in [Conns -> Watches]
    BY <1>11, <2>1, EventTells DEF RelayComplete, Broadcast, TypeOK
  <2>. QED
    BY <1>11, <2>2 DEF RelayComplete
<1>12. CASE Clear
  BY <1>12 DEF Clear
<1>13. CASE RelayError
  <2>1. events # <<>> /\ events' = Tail(events)
    BY <1>13 DEF RelayError, Next1
  <2>2. subs' \subseteq Conns /\ queue' \in [Conns -> 0..Depth] /\ watch' \in [Conns -> Watches]
    BY <1>13, <2>1, EventTells DEF RelayError, Broadcast, TypeOK
  <2>. QED
    BY <1>13, <2>2 DEF RelayError
<1>14. CASE RelayGone
  BY <1>14, GoneTells
<1>15. CASE Close
  BY <1>15 DEF Close
<1>16. CASE Rebuild
  BY <1>16 DEF Rebuild
<1>17. ASSUME NEW c \in Tabs, Subscribe(c) PROVE WatchTyped'
  BY <1>17 DEF Subscribe
<1>18. ASSUME NEW c \in Conns, Insert(c) PROVE WatchTyped'
  <2>1. watch' = [watch EXCEPT ![c] = Joined(watch[c])]
    BY <1>18 DEF Insert
  <2>2. \A w \in Watches : Joined(w) \in Watches
    BY JoinedTyped
  <2>. QED
    BY <2>1, <2>2
<1>19. ASSUME NEW c \in Conns, NotFound(c) PROVE WatchTyped'
  BY <1>19 DEF NotFound
<1>20. ASSUME NEW c \in Conns, NEW ok \in BOOLEAN, Watermark(c, ok) PROVE WatchTyped'
  <2>1. watch' = [watch EXCEPT ![c] = IF watch[c].via THEN Answered(watch[c], ok) ELSE watch[c]]
    BY <1>20 DEF Watermark
  <2>2. \A w \in Watches : Answered(w, ok) \in Watches
    BY AnsweredTyped
  <2>. QED
    BY <2>1, <2>2
<1>21. ASSUME NEW c \in Conns, Unsubscribe(c) PROVE WatchTyped'
  BY <1>21 DEF Unsubscribe, Leave
<1>22. ASSUME NEW c \in Conns, DropConnection(c) PROVE WatchTyped'
  BY <1>22 DEF DropConnection, Leave
<1>23. ASSUME NEW c \in Conns, NEW ok \in BOOLEAN, Write(c, ok) PROVE WatchTyped'
  BY <1>23 DEF Write
<1>24. ASSUME NEW c \in Conns, NEW t \in 0..MaxTurns, Respond(c, t) PROVE WatchTyped'
  <2>1. \A w \in Watches : Told(w, Frame("answer", t)) \in Watches
    BY DEF Told, Frame, Watches
  <2>. QED
    BY <1>24, <2>1 DEF Respond
<1>25. CASE RemoveGone
  BY <1>25 DEF RemoveGone
<1>26. ASSUME NEW c \in Conns, Steer(c) PROVE WatchTyped'
  <2>1. watch' = watch \/ watch' = [watch EXCEPT ![c].unasked = pending]
    BY <1>26 DEF Steer
  <2>2. pending \in SUBSET (1..MaxPrompts)
    BY DEF SessionTyped
  <2>. QED
    BY <2>1, <2>2 DEF Watches
<1>27. CASE UNCHANGED vars
  BY <1>27 DEF vars, engineVars, counters, connVars
<1>. QED
  BY <1>1, <1>2, <1>3, <1>4, <1>5, <1>6, <1>7, <1>8, <1>9, <1>10, <1>11, <1>12, <1>13, <1>14, <1>15,
     <1>16, <1>17, <1>18, <1>19, <1>20, <1>21, <1>22, <1>23, <1>24, <1>25, <1>26, <1>27 DEF Next, Conns

\* Types are kept.
LEMMA TypeStep ==
  ASSUME TypeOK, ChannelInv, ClearInv, [Next]_vars
  PROVE  TypeOK'
BY TypeParts, SessionTypeStep, EngineTypeStep, CountersTypeStep, ConnsTypeStep, EventsTypeStep, WatchTypeStep

\* A running engine puts an event into the channel.
LEMMA ChannelAppend ==
  ASSUME TypeOK, ChannelInv, engine = "run", NEW f \in Frames, events' = Append(events, f),
         UNCHANGED <<turn, relay, turns>>,
         total' \in Nat, prompts' \in Nat, total <= total', prompts <= prompts',
         f.kind = "step" => f.n \in 1..total', f.kind = "prompt" => f.n \in 1..prompts',
         f.kind \in {"start", "complete", "error"} => f.n = turn,
         engine' = IF f.kind \in {"complete", "error"} THEN "done" ELSE "run"
  PROVE  ChannelInv'
<1>1. /\ events \in Seq(Frames) /\ Len(events) \in Nat /\ total \in Nat /\ prompts \in Nat
      /\ events # <<>> => Len(events) >= 1
  BY DEF TypeOK
<1>2. /\ Len(events') = Len(events) + 1 /\ events' # <<>> /\ events'[Len(events) + 1] = f
      /\ \A i \in 1..Len(events) : events'[i] = events[i]
      /\ events # <<>> => Head(events') = Head(events)
  BY Appended
<1>3. \A i \in 1..Len(events) : events[i].kind \notin {"complete", "error"}
  BY <1>1 DEF ChannelInv
<1>4. turn # 0
  BY DEF ChannelInv
<1>5. ASSUME NEW i \in 1..Len(events') PROVE FrameOK(events[i])' 
  <2>1. CASE i = Len(events) + 1
    <3>1. events'[i] = f
      BY <1>2, <2>1
    <3>. QED
      BY <3>1 DEF FrameOK
  <2>2. CASE i # Len(events) + 1
    <3>1. i \in 1..Len(events) /\ events'[i] = events[i] /\ FrameOK(events[i])
      BY <1>1, <1>2, <2>2 DEF ChannelInv
    <3>. QED
      BY <1>1, <3>1 DEF FrameOK
  <2>. QED
    BY <2>1, <2>2
<1>6. /\ (turn = 0 <=> engine = "idle")' /\ (turn <= turns)'
      /\ (turn = 0 \/ engine = "told" => events = <<>> /\ relay = 0)'
  BY <1>4 DEF ChannelInv
<1>7. (relay # 0 => events # <<>> /\ Head(events) = Frame("prompt", relay))'
  BY <1>2 DEF ChannelInv, Frame
<1>8. (engine = "done" <=> events # <<>> /\ events[Len(events)].kind \in {"complete", "error"})'
  BY <1>2
<1>9. (\A i \in 1..(Len(events) - 1) : events[i].kind \notin {"complete", "error"})'
  BY <1>1, <1>2, <1>3
<1>. QED
  BY <1>5, <1>6, <1>7, <1>8, <1>9 DEF ChannelInv

\* The relay takes an event from the channel, and ends with the last one of a turn.
LEMMA ChannelTake ==
  ASSUME TypeOK, ChannelInv, events # <<>>, events' = Tail(events),
         UNCHANGED <<total, prompts, turns>>, relay' = 0,
         IF Head(events).kind \in {"complete", "error"}
           THEN turn' = 0 /\ engine' = "idle"
           ELSE UNCHANGED <<turn, engine>>
  PROVE  ChannelInv'
<1>1. /\ events \in Seq(Frames) /\ Len(events) \in Nat /\ turns \in Nat /\ turn \in Nat
  BY DEF TypeOK
<1>2. /\ Len(events') = Len(events) - 1 /\ Len(events) >= 1 /\ Head(events) = events[1]
      /\ events' \in Seq(Frames)
      /\ \A i \in 1..Len(events') : events'[i] = events[i + 1] /\ i + 1 \in 1..Len(events)
  BY Taken
<1>3. turn # 0 /\ turn <= turns
  BY DEF ChannelInv
<1>4. CASE Head(events).kind \in {"complete", "error"}
  <2>1. Len(events) = 1
    BY <1>1, <1>2, <1>4 DEF ChannelInv
  <2>2. Len(events') = 0 /\ events' = <<>>
    BY <1>2, <2>1
  <2>. QED
    BY <1>1, <1>4, <2>2 DEF ChannelInv
<1>5. CASE Head(events).kind \notin {"complete", "error"}
  <2>1. UNCHANGED <<turn, engine>>
    BY <1>5
  <2>2. ASSUME NEW i \in 1..Len(events') PROVE FrameOK(events[i])'
    <3>1. events'[i] = events[i + 1] /\ FrameOK(events[i + 1])
      BY <1>2 DEF ChannelInv
    <3>. QED
      BY <2>1, <3>1 DEF FrameOK
  <2>3. (engine = "done" <=> events # <<>> /\ events[Len(events)].kind \in {"complete", "error"})'
    <3>1. CASE Len(events) = 1
      <4>1. engine # "done" /\ events' = <<>>
        BY <1>2, <1>5, <3>1 DEF ChannelInv
      <4>. QED
        BY <2>1, <4>1
    <3>2. CASE Len(events) # 1
      <4>1. events' # <<>> /\ events'[Len(events')] = events[Len(events)]
        <5>1. Len(events') \in 1..Len(events') /\ Len(events') + 1 = Len(events)
          BY <1>1, <1>2, <3>2
        <5>2. events' # <<>>
          BY <5>1
        <5>3. events'[Len(events')] = events[Len(events') + 1]
          BY <1>2, <5>1
        <5>. QED
          BY <5>1, <5>2, <5>3
      <4>2. engine = "done" <=> events[Len(events)].kind \in {"complete", "error"}
        BY DEF ChannelInv
      <4>. QED
        BY <2>1, <4>1, <4>2
    <3>. QED
      BY <3>1, <3>2
  <2>4. (\A i \in 1..(Len(events) - 1) : events[i].kind \notin {"complete", "error"})'
    <3>1. ASSUME NEW i \in 1..(Len(events') - 1) PROVE events'[i].kind \notin {"complete", "error"}
      <4>1. i \in 1..Len(events') /\ i + 1 \in 1..(Len(events) - 1)
        BY <1>1, <1>2
      <4>2. events'[i] = events[i + 1] /\ events[i + 1].kind \notin {"complete", "error"}
        BY <1>2, <4>1 DEF ChannelInv
      <4>. QED
        BY <4>2
    <3>. QED
      BY <3>1
  <2>5. /\ (turn = 0 <=> engine = "idle")' /\ (turn = 0 \/ engine = "told" => events = <<>> /\ relay = 0)'
        /\ (turn <= turns)' /\ (relay # 0 => events # <<>> /\ Head(events) = Frame("prompt", relay))'
    BY <1>3, <2>1 DEF ChannelInv
  <2>. QED
    BY <2>2, <2>3, <2>4, <2>5 DEF ChannelInv
<1>. QED
  BY <1>4, <1>5

\* The channel holds the events of the turn whose relay runs, its end last.
LEMMA ChannelStep ==
  ASSUME TypeOK, ChannelInv, [Next]_vars
  PROVE  ChannelInv'
<1>1. ASSUME NEW c \in Callers, StartTurn(c) PROVE ChannelInv'
  <2>1. events = <<>> /\ relay = 0 /\ turns \in Nat /\ total \in Nat /\ prompts \in Nat
    BY <1>1 DEF StartTurn, ChannelInv, TypeOK
  <2> DEFINE f == Frame("start", turns + 1)
  <2>2. f.kind = "start" /\ f.n = turns + 1
    BY DEF Frame
  <2>3. /\ turn' = turns + 1 /\ turns' = turns + 1 /\ engine' = "run" /\ events' = Append(events, f)
        /\ relay' = relay
    BY <1>1 DEF StartTurn
  <2>. HIDE DEF f
  <2>4. Len(events') = 1 /\ events'[1] = f /\ events' # <<>>
    BY <2>1, <2>3
  <2>5. \A i \in 1..Len(events') : FrameOK(events[i])'
    BY <2>2, <2>3, <2>4 DEF FrameOK
  <2>. QED
    BY <2>1, <2>2, <2>3, <2>4, <2>5 DEF ChannelInv
<1>2. ASSUME NEW ok \in BOOLEAN, Step(ok) PROVE ChannelInv'
  <2> DEFINE f == Frame("step", total + 1)
  <2>1. f \in Frames /\ f.kind = "step" /\ f.n = total + 1 /\ total \in Nat /\ prompts \in Nat /\ turn \in Nat
    BY DEF Frame, Frames, TypeOK
  <2>2. /\ engine = "run" /\ events' = Append(events, f) /\ UNCHANGED <<turn, relay, turns>>
        /\ engine' = engine /\ total' = total + 1 /\ prompts' = prompts
    BY <1>2 DEF Step, Persist, Fault, counters
  <2>. HIDE DEF f
  <2>3. total' \in Nat /\ prompts' \in Nat /\ total <= total' /\ prompts <= prompts'
    BY <2>1, <2>2
  <2>. QED
    BY <2>1, <2>2, <2>3, ChannelAppend
<1>3. ASSUME NEW kind \in {"complete", "error"}, NEW ok \in BOOLEAN, Finish(kind, ok) PROVE ChannelInv'
  <2> DEFINE f == Frame(kind, turn)
  <2>1. f \in Frames /\ f.kind = kind /\ f.n = turn /\ total \in Nat /\ prompts \in Nat /\ turn \in Nat
    BY DEF Frame, Frames, TypeOK
  <2>2. /\ engine = "run" /\ events' = Append(events, f) /\ UNCHANGED <<turn, relay, turns>>
        /\ engine' = "done" /\ total' = total /\ prompts' = prompts
    BY <1>3 DEF Finish, Persist, Fault, counters
  <2>. HIDE DEF f
  <2>3. total' \in Nat /\ prompts' \in Nat /\ total <= total' /\ prompts <= prompts'
    BY <2>1, <2>2
  <2>. QED
    BY <2>1, <2>2, <2>3, ChannelAppend
<1>4. CASE Stop
  <2>1. engine = "run" /\ engine' = "gone" /\ UNCHANGED <<turn, events, relay, turns, total, prompts>>
    BY <1>4 DEF Stop, Fault, Leave, engineVars, counters
  <2>. QED
    BY <2>1 DEF ChannelInv, FrameOK
<1>5. CASE Ask
  <2> DEFINE f == Frame("prompt", prompts + 1)
  <2>1. f \in Frames /\ f.kind = "prompt" /\ f.n = prompts + 1 /\ total \in Nat /\ prompts \in Nat /\ turn \in Nat
    BY DEF Frame, Frames, TypeOK
  <2>2. /\ engine = "run" /\ events' = Append(events, f) /\ UNCHANGED <<turn, relay, turns>>
        /\ engine' = engine /\ total' = total /\ prompts' = prompts + 1
    BY <1>5 DEF Ask
  <2>. HIDE DEF f
  <2>3. total' \in Nat /\ prompts' \in Nat /\ total <= total' /\ prompts <= prompts'
    BY <2>1, <2>2
  <2>. QED
    BY <2>1, <2>2, <2>3, ChannelAppend
<1>6. ASSUME NEW p \in 1..MaxPrompts, TimeOut(p) PROVE ChannelInv'
  <2>1. UNCHANGED <<turn, events, engine, relay, turns, total, prompts>>
    BY <1>6 DEF TimeOut, Fault, Leave, engineVars, counters
  <2>. QED
    BY <2>1 DEF ChannelInv, FrameOK
<1>7. ASSUME NEW p \in 1..MaxPrompts, RespondToPrompt(p) PROVE ChannelInv'
  <2>1. UNCHANGED <<turn, events, engine, relay, turns, total, prompts>>
    BY <1>7 DEF RespondToPrompt, Fault, Leave, engineVars, counters
  <2>. QED
    BY <2>1 DEF ChannelInv, FrameOK
<1>8. CASE RelayFrame
  <2>1. /\ events # <<>> /\ events' = Tail(events) /\ UNCHANGED <<total, prompts, turns>>
        /\ Head(events).kind \in {"start", "step"} /\ UNCHANGED <<turn, engine>>
    BY <1>8 DEF RelayFrame, Next1, GiveBack, engineVars, counters
  <2>2. relay' = 0
    BY <1>8, <2>1 DEF RelayFrame, ChannelInv, Frame
  <2>. QED
    BY <2>1, <2>2, ChannelTake
<1>9. CASE Remember
  <2>1. /\ events # <<>> /\ Head(events).kind = "prompt" /\ relay' = Head(events).n
        /\ UNCHANGED <<turn, events, engine, turns, total, prompts>>
    BY <1>9 DEF Remember, engineVars, counters
  <2>2. Head(events) \in Frames /\ turn # 0
    BY <1>9, <2>1, HeadFrame DEF Remember
  <2>3. Head(events) = Frame("prompt", Head(events).n)
    BY <2>1, <2>2 DEF Frames, Frame
  <2>. QED
    BY <2>1, <2>2, <2>3 DEF ChannelInv, FrameOK
<1>10. CASE Show
  <2>1. /\ events # <<>> /\ events' = Tail(events) /\ UNCHANGED <<total, prompts, turns>>
        /\ Head(events).kind = "prompt" /\ UNCHANGED <<turn, engine>>
    BY <1>10 DEF Show, Next1, GiveBack, engineVars, counters
  <2>2. relay' = 0
    BY <1>10, <2>1 DEF Show, ChannelInv, Frame
  <2>. QED
    BY <2>1, <2>2, ChannelTake
<1>11. CASE RelayComplete
  <2>1. /\ events # <<>> /\ events' = Tail(events) /\ UNCHANGED <<total, prompts, turns>>
        /\ Head(events).kind = "complete" /\ turn' = 0 /\ engine' = "idle"
    BY <1>11 DEF RelayComplete, Next1, GiveBack, engineVars, counters
  <2>2. relay' = 0
    BY <1>11, <2>1 DEF RelayComplete, ChannelInv, Frame
  <2>. QED
    BY <2>1, <2>2, ChannelTake
<1>12. CASE Clear
  <2>1. UNCHANGED <<turn, events, engine, relay, turns, total, prompts>>
    BY <1>12 DEF Clear, Fault, Leave, engineVars, counters
  <2>. QED
    BY <2>1 DEF ChannelInv, FrameOK
<1>13. CASE RelayError
  <2>1. /\ events # <<>> /\ events' = Tail(events) /\ UNCHANGED <<total, prompts, turns>>
        /\ Head(events).kind = "error" /\ turn' = 0 /\ engine' = "idle"
    BY <1>13 DEF RelayError, Next1, GiveBack, engineVars, counters
  <2>2. relay' = 0
    BY <1>13, <2>1 DEF RelayError, ChannelInv, Frame
  <2>. QED
    BY <2>1, <2>2, ChannelTake
<1>14. CASE RelayGone
  <2>1. /\ engine = "gone" /\ engine' = "told" /\ events = <<>>
        /\ UNCHANGED <<turn, events, relay, turns, total, prompts>>
    BY <1>14 DEF RelayGone, counters
  <2>. QED
    BY <2>1 DEF ChannelInv, FrameOK
<1>15. CASE Close
  <2>1. UNCHANGED <<turn, events, engine, relay, turns, total, prompts>>
    BY <1>15 DEF Close, Fault, Leave, engineVars, counters
  <2>. QED
    BY <2>1 DEF ChannelInv, FrameOK
<1>16. CASE Rebuild
  <2>1. UNCHANGED <<turn, events, engine, relay, turns, total, prompts>>
    BY <1>16 DEF Rebuild, Fault, Leave, engineVars, counters
  <2>. QED
    BY <2>1 DEF ChannelInv, FrameOK
<1>17. ASSUME NEW c \in Tabs, Subscribe(c) PROVE ChannelInv'
  <2>1. UNCHANGED <<turn, events, engine, relay, turns, total, prompts>>
    BY <1>17 DEF Subscribe, Fault, Leave, engineVars, counters
  <2>. QED
    BY <2>1 DEF ChannelInv, FrameOK
<1>18. ASSUME NEW c \in Conns, Insert(c) PROVE ChannelInv'
  <2>1. UNCHANGED <<turn, events, engine, relay, turns, total, prompts>>
    BY <1>18 DEF Insert, Fault, Leave, engineVars, counters
  <2>. QED
    BY <2>1 DEF ChannelInv, FrameOK
<1>19. ASSUME NEW c \in Conns, NotFound(c) PROVE ChannelInv'
  <2>1. UNCHANGED <<turn, events, engine, relay, turns, total, prompts>>
    BY <1>19 DEF NotFound, Fault, Leave, engineVars, counters
  <2>. QED
    BY <2>1 DEF ChannelInv, FrameOK
<1>20. ASSUME NEW c \in Conns, NEW ok \in BOOLEAN, Watermark(c, ok) PROVE ChannelInv'
  <2>1. UNCHANGED <<turn, events, engine, relay, turns, total, prompts>>
    BY <1>20 DEF Watermark, Fault, Leave, engineVars, counters
  <2>. QED
    BY <2>1 DEF ChannelInv, FrameOK
<1>21. ASSUME NEW c \in Conns, Unsubscribe(c) PROVE ChannelInv'
  <2>1. UNCHANGED <<turn, events, engine, relay, turns, total, prompts>>
    BY <1>21 DEF Unsubscribe, Fault, Leave, engineVars, counters
  <2>. QED
    BY <2>1 DEF ChannelInv, FrameOK
<1>22. ASSUME NEW c \in Conns, DropConnection(c) PROVE ChannelInv'
  <2>1. UNCHANGED <<turn, events, engine, relay, turns, total, prompts>>
    BY <1>22 DEF DropConnection, Fault, Leave, engineVars, counters
  <2>. QED
    BY <2>1 DEF ChannelInv, FrameOK
<1>23. ASSUME NEW c \in Conns, NEW ok \in BOOLEAN, Write(c, ok) PROVE ChannelInv'
  <2>1. UNCHANGED <<turn, events, engine, relay, turns, total, prompts>>
    BY <1>23 DEF Write, Fault, Leave, engineVars, counters
  <2>. QED
    BY <2>1 DEF ChannelInv, FrameOK
<1>24. ASSUME NEW c \in Conns, NEW t \in 0..MaxTurns, Respond(c, t) PROVE ChannelInv'
  <2>1. UNCHANGED <<turn, events, engine, relay, turns, total, prompts>>
    BY <1>24 DEF Respond, Fault, Leave, engineVars, counters
  <2>. QED
    BY <2>1 DEF ChannelInv, FrameOK
<1>25. CASE RemoveGone
  <2>1. turn' = 0 /\ engine' = "idle" /\ UNCHANGED <<events, relay, turns>>
    BY <1>25 DEF RemoveGone, GiveBack, counters
  <2>2. events = <<>> /\ relay = 0 /\ turns \in Nat /\ Len(events') = 0
    BY <1>25, <2>1 DEF ChannelInv, TypeOK, RemoveGone
  <2>. QED
    BY <2>1, <2>2 DEF ChannelInv
<1>26. ASSUME NEW c \in Conns, Steer(c) PROVE ChannelInv'
  <2>1. UNCHANGED <<turn, events, engine, relay, turns, total, prompts>>
    BY <1>26 DEF Steer, engineVars, counters
  <2>. QED
    BY <2>1 DEF ChannelInv, FrameOK
<1>27. CASE UNCHANGED vars
  BY <1>27 DEF vars, engineVars, counters, ChannelInv, FrameOK
<1>. QED
  BY <1>1, <1>2, <1>3, <1>4, <1>5, <1>6, <1>7, <1>8, <1>9, <1>10, <1>11, <1>12, <1>13, <1>14, <1>15,
     <1>16, <1>17, <1>18, <1>19, <1>20, <1>21, <1>22, <1>23, <1>24, <1>25, <1>26, <1>27 DEF Next, Conns

\* Every relay that has still to clear the prompts ended a turn of its own.
LEMMA ClearStep ==
  ASSUME TypeOK, ChannelInv, ClearInv, [Next]_vars
  PROVE  ClearInv'
<1>. USE DEF ClearInv, counters
<1>a. clearing \in Nat /\ turns \in Nat /\ turn \in Nat
  BY DEF TypeOK
<1>1. ASSUME NEW c \in Callers, StartTurn(c) PROVE ClearInv'
  BY <1>a, <1>1 DEF StartTurn, Fault, Persist, Leave, GiveBack, Next1
<1>2. ASSUME NEW ok \in BOOLEAN, Step(ok) PROVE ClearInv'
  BY <1>a, <1>2 DEF Step, Fault, Persist, Leave, GiveBack, Next1
<1>3. ASSUME NEW kind \in {"complete", "error"}, NEW ok \in BOOLEAN, Finish(kind, ok) PROVE ClearInv'
  BY <1>a, <1>3 DEF Finish, Fault, Persist, Leave, GiveBack, Next1
<1>4. CASE Stop
  BY <1>a, <1>4 DEF Stop, Fault, Persist, Leave, GiveBack, Next1
<1>5. CASE Ask
  BY <1>a, <1>5 DEF Ask, Fault, Persist, Leave, GiveBack, Next1
<1>6. ASSUME NEW p \in 1..MaxPrompts, TimeOut(p) PROVE ClearInv'
  BY <1>a, <1>6 DEF TimeOut, Fault, Persist, Leave, GiveBack, Next1
<1>7. ASSUME NEW p \in 1..MaxPrompts, RespondToPrompt(p) PROVE ClearInv'
  BY <1>a, <1>7 DEF RespondToPrompt, Fault, Persist, Leave, GiveBack, Next1
<1>8. CASE RelayFrame
  BY <1>a, <1>8 DEF RelayFrame, Fault, Persist, Leave, GiveBack, Next1
<1>9. CASE Remember
  BY <1>a, <1>9 DEF Remember, Fault, Persist, Leave, GiveBack, Next1
<1>10. CASE Show
  BY <1>a, <1>10 DEF Show, Fault, Persist, Leave, GiveBack, Next1
<1>11. CASE RelayComplete
  BY <1>a, <1>11 DEF RelayComplete, Fault, Persist, Leave, GiveBack, Next1
<1>12. CASE Clear
  BY <1>a, <1>12 DEF Clear, Fault, Persist, Leave, GiveBack, Next1
<1>13. CASE RelayError
  BY <1>a, <1>13 DEF RelayError, Fault, Persist, Leave, GiveBack, Next1
<1>14. CASE RelayGone
  BY <1>a, <1>14 DEF RelayGone, Fault, Persist, Leave, GiveBack, Next1
<1>15. CASE Close
  BY <1>a, <1>15 DEF Close, Fault, Persist, Leave, GiveBack, Next1
<1>16. CASE Rebuild
  BY <1>a, <1>16 DEF Rebuild, Fault, Persist, Leave, GiveBack, Next1
<1>17. ASSUME NEW c \in Tabs, Subscribe(c) PROVE ClearInv'
  BY <1>a, <1>17 DEF Subscribe, Fault, Persist, Leave, GiveBack, Next1
<1>18. ASSUME NEW c \in Conns, Insert(c) PROVE ClearInv'
  BY <1>a, <1>18 DEF Insert, Fault, Persist, Leave, GiveBack, Next1
<1>19. ASSUME NEW c \in Conns, NotFound(c) PROVE ClearInv'
  BY <1>a, <1>19 DEF NotFound, Fault, Persist, Leave, GiveBack, Next1
<1>20. ASSUME NEW c \in Conns, NEW ok \in BOOLEAN, Watermark(c, ok) PROVE ClearInv'
  BY <1>a, <1>20 DEF Watermark, Fault, Persist, Leave, GiveBack, Next1
<1>21. ASSUME NEW c \in Conns, Unsubscribe(c) PROVE ClearInv'
  BY <1>a, <1>21 DEF Unsubscribe, Fault, Persist, Leave, GiveBack, Next1
<1>22. ASSUME NEW c \in Conns, DropConnection(c) PROVE ClearInv'
  BY <1>a, <1>22 DEF DropConnection, Fault, Persist, Leave, GiveBack, Next1
<1>23. ASSUME NEW c \in Conns, NEW ok \in BOOLEAN, Write(c, ok) PROVE ClearInv'
  BY <1>a, <1>23 DEF Write, Fault, Persist, Leave, GiveBack, Next1
<1>24. ASSUME NEW c \in Conns, NEW t \in 0..MaxTurns, Respond(c, t) PROVE ClearInv'
  BY <1>a, <1>24 DEF Respond, Fault, Persist, Leave, GiveBack, Next1
<1>25. CASE RemoveGone
  BY <1>a, <1>25 DEF RemoveGone, GiveBack
<1>26. ASSUME NEW c \in Conns, Steer(c) PROVE ClearInv'
  BY <1>a, <1>26 DEF Steer
<1>27. CASE UNCHANGED vars
  BY <1>27 DEF vars
<1>. QED
  BY <1>1, <1>2, <1>3, <1>4, <1>5, <1>6, <1>7, <1>8, <1>9, <1>10, <1>11, <1>12, <1>13, <1>14, <1>15,
     <1>16, <1>17, <1>18, <1>19, <1>20, <1>21, <1>22, <1>23, <1>24, <1>25, <1>26, <1>27 DEF Next, Conns

-----------------------------------------------------------------------------
(* What the actions of one connection change in the histories.             *)

\* A connection that is entered is handed the prompts that are registered.
LEMMA InsertTells ==
  ASSUME TypeOK, NEW c \in Conns, Insert(c)
  PROVE  /\ \A d \in Conns :
              /\ watch'[d].steps = watch[d].steps /\ watch'[d].running = watch[d].running
              /\ watch'[d].asks = IF d = c THEN watch[d].asks \union pending ELSE watch[d].asks
              /\ d # c => watch'[d] = watch[d]
         /\ watch'[c].via /\ watch'[c].base = Unknown
         /\ watch'[c].unread = written /\ watch'[c].unasked = {}
<1>1. watch \in [Conns -> Watches]
  BY DEF TypeOK, Watches
<1>2. watch' = [watch EXCEPT ![c] = Joined(watch[c])]
  BY DEF Insert
<1>3. /\ \A d \in Conns \ {c} : watch'[d] = watch[d]
      /\ watch'[c] = Joined(watch[c]) /\ watch[c] \in Watches
  BY <1>1, <1>2
<1>4. /\ watch'[c].steps = watch[c].steps /\ watch'[c].running = watch[c].running
      /\ watch'[c].asks = watch[c].asks \union pending /\ watch'[c].unasked = {}
      /\ watch'[c].via /\ watch'[c].base = Unknown /\ watch'[c].unread = written
  BY <1>3, JoinedTyped
<1>. QED
  BY <1>3, <1>4

\* The watermark is the length of the transcript at a moment at which the connection is entered,
\* or 0 when the load fails.
LEMMA WatermarkTells ==
  ASSUME TypeOK, NEW c \in Conns, NEW ok \in BOOLEAN, Watermark(c, ok)
  PROVE  /\ \A d \in Conns :
              /\ watch'[d].steps = watch[d].steps /\ watch'[d].running = watch[d].running
              /\ watch'[d].asks = watch[d].asks /\ watch'[d].unasked = watch[d].unasked
              /\ watch'[d].via = watch[d].via
              /\ d # c \/ ~watch[d].via => watch'[d] = watch[d]
         /\ watch[c].via => /\ watch'[c].base = IF ok THEN written ELSE 0
                            /\ watch'[c].unread = IF ok THEN 0 ELSE watch[c].unread
<1>1. watch \in [Conns -> Watches]
  BY DEF TypeOK, Watches
<1>2. watch' = [watch EXCEPT ![c] = IF watch[c].via THEN Answered(watch[c], ok) ELSE watch[c]]
  BY DEF Watermark
<1>3. /\ \A d \in Conns \ {c} : watch'[d] = watch[d]
      /\ watch'[c] = IF watch[c].via THEN Answered(watch[c], ok) ELSE watch[c]
      /\ watch[c] \in Watches
  BY <1>1, <1>2
<1>. QED
  BY <1>3, AnsweredTyped

\* A steer that was accepted enters its connection without the prompts that are registered.
LEMMA SteerTells ==
  ASSUME TypeOK, NEW c \in Conns, Steer(c)
  PROVE  /\ \A d \in Conns :
              /\ watch'[d].steps = watch[d].steps /\ watch'[d].running = watch[d].running
              /\ watch'[d].asks = watch[d].asks /\ watch'[d].base = watch[d].base
              /\ watch'[d].via = watch[d].via /\ watch'[d].unread = watch[d].unread
              /\ d # c \/ d \in subs => watch'[d] = watch[d]
              /\ d \notin subs' => watch'[d] = watch[d]
         /\ subs \subseteq subs' /\ subs' \subseteq subs \union {c}
         /\ c \in subs' \ subs => live /\ watch'[c].unasked = pending
<1>1. watch \in [Conns -> Watches]
  BY DEF TypeOK, Watches
<1>2. CASE live /\ c \notin subs
  <2>1. watch' = [watch EXCEPT ![c].unasked = pending] /\ subs' = subs \union {c}
    BY <1>2 DEF Steer
  <2>. QED
    BY <1>1, <1>2, <2>1 DEF Watches
<1>3. CASE ~live \/ c \in subs
  <2>1. watch' = watch /\ subs' \in {subs, subs \union {c}} /\ (~live => subs' = subs)
    BY <1>3 DEF Steer
  <2>. QED
    BY <1>3, <2>1
<1>. QED
  BY <1>2, <1>3

\* An answer tells its connection of the end of the turn, and nothing else.
LEMMA AnswerTells ==
  ASSUME TypeOK, NEW c \in Conns, NEW t \in 0..MaxTurns, Respond(c, t)
  PROVE  \A d \in Conns :
           /\ Entered(watch'[d]) = Entered(watch[d]) /\ watch'[d].steps = watch[d].steps
           /\ watch'[d].asks = watch[d].asks
           /\ watch'[d].running =
                IF d = c /\ c \in subs THEN watch[d].running \ {t} ELSE watch[d].running
           /\ d \notin subs => watch'[d] = watch[d]
<1>1. watch \in [Conns -> Watches]
  BY DEF TypeOK, Watches
<1>2. watch' = IF c \in subs THEN [watch EXCEPT ![c] = Told(watch[c], Frame("answer", t))] ELSE watch
  BY DEF Respond
<1>3. watch[c] \in Watches
  BY <1>1
<1> DEFINE f == Frame("answer", t)
           x == Told(watch[c], f)
<1>4. f.kind = "answer" /\ f.n = t
  BY DEF Frame
<1>5. /\ Entered(x) = Entered(watch[c]) /\ x.steps = watch[c].steps /\ x.asks = watch[c].asks
      /\ x.running = watch[c].running \ {t}
  <2>. HIDE DEF f
  <2>. QED
    BY <1>3, <1>4 DEF Told, Watches, Entered
<1>. HIDE DEF x
<1>. QED
  BY <1>1, <1>2, <1>5 DEF x, f

\* A relay that has the end of its turn before it has an engine that is done.
LEMMA EndIsDone ==
  ASSUME TypeOK, ChannelInv, events # <<>>, Head(events).kind \in {"complete", "error"}
  PROVE  engine = "done"
<1>1. Head(events) = events[1] /\ Len(events) \in Nat /\ Len(events) >= 1
  BY DEF TypeOK
<1>. QED
  BY <1>1 DEF ChannelInv

-----------------------------------------------------------------------------
(* The parts of the invariant, action by action.                           *)

\* Whoever is no subscriber has no history, and nobody is told of a step that was not made.
LEMMA WatchStep ==
  ASSUME TypeOK, ChannelInv, WatchInv, [Next]_vars
  PROVE  WatchInv'
<1>. USE DEF WatchInv
<1>1. ASSUME NEW c \in Callers, StartTurn(c) PROVE WatchInv'
  BY <1>1 DEF StartTurn
<1>2. ASSUME NEW ok \in BOOLEAN, Step(ok) PROVE WatchInv'
  <2>1. UNCHANGED <<subs, watch>> /\ total' = total + 1 /\ total \in Nat
    BY <1>2 DEF Step, TypeOK
  <2>. QED
    BY <2>1
<1>3. ASSUME NEW kind \in {"complete", "error"}, NEW ok \in BOOLEAN, Finish(kind, ok) PROVE WatchInv'
  <2>1. UNCHANGED <<subs, watch, total>>
    BY <1>3 DEF Finish, engineVars
  <2>. QED
    BY <2>1
<1>4. CASE Stop
  <2>1. UNCHANGED <<subs, watch, total>>
    BY <1>4 DEF Stop, engineVars
  <2>. QED
    BY <2>1
<1>5. CASE Ask
  <2>1. UNCHANGED <<subs, watch, total>>
    BY <1>5 DEF Ask, engineVars
  <2>. QED
    BY <2>1
<1>6. ASSUME NEW p \in 1..MaxPrompts, TimeOut(p) PROVE WatchInv'
  <2>1. UNCHANGED <<subs, watch, total>>
    BY <1>6 DEF TimeOut, engineVars
  <2>. QED
    BY <2>1
<1>7. ASSUME NEW p \in 1..MaxPrompts, RespondToPrompt(p) PROVE WatchInv'
  <2>1. UNCHANGED <<subs, watch, total>>
    BY <1>7 DEF RespondToPrompt, engineVars
  <2>. QED
    BY <2>1
<1>8. CASE RelayFrame
  <2>1. events # <<>> /\ total' = total
    BY <1>8 DEF RelayFrame, Next1, engineVars
  <2>2. Head(events).kind = "step" => Head(events).n \in 1..total
    BY <2>1, HeadFrame DEF FrameOK
  <2>3. /\ subs' \subseteq subs /\ subs \subseteq Conns
        /\ \A c \in subs' :
             \/ watch'[c].steps = watch[c].steps
             \/ /\ Head(events).kind = "step"
                /\ watch'[c].steps = watch[c].steps \union {Head(events).n}
        /\ \A c \in subs \ subs' : watch'[c] = Unwatched
        /\ \A c \in Conns \ subs : watch'[c] = watch[c]
    BY <1>8, <2>1, EventTells DEF RelayFrame, Broadcast, TypeOK
  <2>. QED
    BY <2>1, <2>2, <2>3, UnwatchedTyped
<1>9. CASE Remember
  <2>1. UNCHANGED <<subs, watch, total>>
    BY <1>9 DEF Remember, engineVars
  <2>. QED
    BY <2>1
<1>10. CASE Show
  <2>1. events # <<>> /\ total' = total
    BY <1>10 DEF Show, Next1, engineVars
  <2>2. Head(events).kind = "step" => Head(events).n \in 1..total
    BY <2>1, HeadFrame DEF FrameOK
  <2>3. /\ subs' \subseteq subs /\ subs \subseteq Conns
        /\ \A c \in subs' :
             \/ watch'[c].steps = watch[c].steps
             \/ /\ Head(events).kind = "step"
                /\ watch'[c].steps = watch[c].steps \union {Head(events).n}
        /\ \A c \in subs \ subs' : watch'[c] = Unwatched
        /\ \A c \in Conns \ subs : watch'[c] = watch[c]
    BY <1>10, <2>1, EventTells DEF Show, Broadcast, TypeOK
  <2>. QED
    BY <2>1, <2>2, <2>3, UnwatchedTyped
<1>11. CASE RelayComplete
  <2>1. events # <<>> /\ total' = total
    BY <1>11 DEF RelayComplete, Next1, engineVars
  <2>2. Head(events).kind = "step" => Head(events).n \in 1..total
    BY <2>1, HeadFrame DEF FrameOK
  <2>3. /\ subs' \subseteq subs /\ subs \subseteq Conns
        /\ \A c \in subs' :
             \/ watch'[c].steps = watch[c].steps
             \/ /\ Head(events).kind = "step"
                /\ watch'[c].steps = watch[c].steps \union {Head(events).n}
        /\ \A c \in subs \ subs' : watch'[c] = Unwatched
        /\ \A c \in Conns \ subs : watch'[c] = watch[c]
    BY <1>11, <2>1, EventTells DEF RelayComplete, Broadcast, TypeOK
  <2>. QED
    BY <2>1, <2>2, <2>3, UnwatchedTyped
<1>12. CASE Clear
  <2>1. UNCHANGED <<subs, watch, total>>
    BY <1>12 DEF Clear, engineVars
  <2>. QED
    BY <2>1
<1>13. CASE RelayError
  <2>1. events # <<>> /\ total' = total
    BY <1>13 DEF RelayError, Next1, engineVars
  <2>2. Head(events).kind = "step" => Head(events).n \in 1..total
    BY <2>1, HeadFrame DEF FrameOK
  <2>3. /\ subs' \subseteq subs /\ subs \subseteq Conns
        /\ \A c \in subs' :
             \/ watch'[c].steps = watch[c].steps
             \/ /\ Head(events).kind = "step"
                /\ watch'[c].steps = watch[c].steps \union {Head(events).n}
        /\ \A c \in subs \ subs' : watch'[c] = Unwatched
        /\ \A c \in Conns \ subs : watch'[c] = watch[c]
    BY <1>13, <2>1, EventTells DEF RelayError, Broadcast, TypeOK
  <2>. QED
    BY <2>1, <2>2, <2>3, UnwatchedTyped
<1>14. CASE RelayGone
  <2>1. total' = total
    BY <1>14 DEF RelayGone
  <2>. QED
    BY <1>14, <2>1, GoneTells, UnwatchedTyped DEF TypeOK
<1>15. CASE Close
  <2>1. subs' = {} /\ watch' = [c \in Conns |-> Unwatched]
    BY <1>15 DEF Close
  <2>. QED
    BY <2>1, UnwatchedTyped
<1>16. CASE Rebuild
  <2>1. subs' = {} /\ watch' = [c \in Conns |-> Unwatched]
    BY <1>16 DEF Rebuild
  <2>. QED
    BY <2>1, UnwatchedTyped
<1>17. ASSUME NEW c \in Tabs, Subscribe(c) PROVE WatchInv'
  <2>1. UNCHANGED <<subs, watch, total>>
    BY <1>17 DEF Subscribe, engineVars
  <2>. QED
    BY <2>1
<1>18. ASSUME NEW c \in Conns, Insert(c) PROVE WatchInv'
  <2>1. subs' = subs \union {c} /\ total' = total
    BY <1>18 DEF Insert, engineVars
  <2>2. \A d \in Conns : watch'[d].steps = watch[d].steps /\ (d # c => watch'[d] = watch[d])
    BY <1>18, InsertTells
  <2>. QED
    BY <2>1, <2>2
<1>19. ASSUME NEW c \in Conns, NotFound(c) PROVE WatchInv'
  <2>1. UNCHANGED <<subs, watch, total>>
    BY <1>19 DEF NotFound, engineVars
  <2>. QED
    BY <2>1
<1>20. ASSUME NEW c \in Conns, NEW ok \in BOOLEAN, Watermark(c, ok) PROVE WatchInv'
  <2>1. subs' = subs /\ total' = total
    BY <1>20 DEF Watermark, engineVars
  <2>. QED
    BY <1>20, <2>1, WatermarkTells, UnwatchedTyped
<1>21. ASSUME NEW c \in Conns, Unsubscribe(c) PROVE WatchInv'
  <2>1. subs' = subs \ {c} /\ watch' = [watch EXCEPT ![c] = Unwatched] /\ total' = total
    BY <1>21 DEF Unsubscribe, Leave, engineVars
  <2>2. watch \in [Conns -> Watches]
    BY DEF TypeOK, Watches
  <2>. QED
    BY <2>1, <2>2, UnwatchedTyped
<1>22. ASSUME NEW c \in Conns, DropConnection(c) PROVE WatchInv'
  <2>1. subs' = subs \ {c} /\ watch' = [watch EXCEPT ![c] = Unwatched] /\ total' = total
    BY <1>22 DEF DropConnection, Leave, engineVars
  <2>2. watch \in [Conns -> Watches]
    BY DEF TypeOK, Watches
  <2>. QED
    BY <2>1, <2>2, UnwatchedTyped
<1>23. ASSUME NEW c \in Conns, NEW ok \in BOOLEAN, Write(c, ok) PROVE WatchInv'
  <2>1. UNCHANGED <<subs, watch, total>>
    BY <1>23 DEF Write, engineVars
  <2>. QED
    BY <2>1
<1>24. ASSUME NEW c \in Conns, NEW t \in 0..MaxTurns, Respond(c, t) PROVE WatchInv'
  <2>1. subs' = subs /\ total' = total
    BY <1>24 DEF Respond, engineVars
  <2>. QED
    BY <1>24, <2>1, AnswerTells
<1>25. CASE RemoveGone
  <2>1. subs' = {} /\ watch' = [c \in Conns |-> Unwatched]
    BY <1>25 DEF RemoveGone
  <2>. QED
    BY <2>1, UnwatchedTyped
<1>26. ASSUME NEW c \in Conns, Steer(c) PROVE WatchInv'
  <2>1. total' = total /\ subs \subseteq Conns
    BY <1>26 DEF Steer, engineVars, TypeOK
  <2>. QED
    BY <1>26, <2>1, SteerTells
<1>27. CASE UNCHANGED vars
  BY <1>27 DEF vars, engineVars
<1>. QED
  BY <1>1, <1>2, <1>3, <1>4, <1>5, <1>6, <1>7, <1>8, <1>9, <1>10, <1>11, <1>12, <1>13, <1>14, <1>15,
     <1>16, <1>17, <1>18, <1>19, <1>20, <1>21, <1>22, <1>23, <1>24, <1>25, <1>26, <1>27 DEF Next, Conns

\* A step is in the transcript, or is one whose persist failed.
LEMMA WrittenStep ==
  ASSUME TypeOK, WrittenInv, [Next]_vars
  PROVE  WrittenInv'
<1>. USE DEF WrittenInv
<1>1. ASSUME NEW c \in Callers, StartTurn(c) PROVE WrittenInv'
  BY <1>1 DEF StartTurn, engineVars
<1>2. ASSUME NEW ok \in BOOLEAN, Step(ok) PROVE WrittenInv'
  <2>1. total \in Nat /\ written \in 0..total /\ total' = total + 1 /\ Persist(total + 1, ok)
    BY <1>2 DEF Step, TypeOK
  <2>2. /\ written' = IF ok THEN total + 1 ELSE written
        /\ late' = IF ok THEN late ELSE late \union ((written + 1)..(total + 1))
    BY <2>1 DEF Persist
  <2>. QED
    BY <2>1, <2>2
<1>3. ASSUME NEW kind \in {"complete", "error"}, NEW ok \in BOOLEAN, Finish(kind, ok) PROVE WrittenInv'
  <2>1. total \in Nat /\ written \in 0..total /\ total' = total /\ Persist(total, ok)
    BY <1>3 DEF Finish, TypeOK
  <2>2. /\ written' = IF ok THEN total ELSE written
        /\ late' = IF ok THEN late ELSE late \union ((written + 1)..(total))
    BY <2>1 DEF Persist
  <2>. QED
    BY <2>1, <2>2
<1>4. CASE Stop
  BY <1>4 DEF Stop, engineVars
<1>5. CASE Ask
  BY <1>5 DEF Ask, engineVars
<1>6. ASSUME NEW p \in 1..MaxPrompts, TimeOut(p) PROVE WrittenInv'
  BY <1>6 DEF TimeOut, engineVars
<1>7. ASSUME NEW p \in 1..MaxPrompts, RespondToPrompt(p) PROVE WrittenInv'
  BY <1>7 DEF RespondToPrompt, engineVars
<1>8. CASE RelayFrame
  BY <1>8 DEF RelayFrame, engineVars
<1>9. CASE Remember
  BY <1>9 DEF Remember, engineVars
<1>10. CASE Show
  BY <1>10 DEF Show, engineVars
<1>11. CASE RelayComplete
  BY <1>11 DEF RelayComplete, engineVars
<1>12. CASE Clear
  BY <1>12 DEF Clear, engineVars
<1>13. CASE RelayError
  BY <1>13 DEF RelayError, engineVars
<1>14. CASE RelayGone
  BY <1>14 DEF RelayGone, engineVars
<1>15. CASE Close
  BY <1>15 DEF Close, engineVars
<1>16. CASE Rebuild
  BY <1>16 DEF Rebuild, engineVars
<1>17. ASSUME NEW c \in Tabs, Subscribe(c) PROVE WrittenInv'
  BY <1>17 DEF Subscribe, engineVars
<1>18. ASSUME NEW c \in Conns, Insert(c) PROVE WrittenInv'
  BY <1>18 DEF Insert, engineVars
<1>19. ASSUME NEW c \in Conns, NotFound(c) PROVE WrittenInv'
  BY <1>19 DEF NotFound, engineVars
<1>20. ASSUME NEW c \in Conns, NEW ok \in BOOLEAN, Watermark(c, ok) PROVE WrittenInv'
  BY <1>20 DEF Watermark, engineVars
<1>21. ASSUME NEW c \in Conns, Unsubscribe(c) PROVE WrittenInv'
  BY <1>21 DEF Unsubscribe, engineVars
<1>22. ASSUME NEW c \in Conns, DropConnection(c) PROVE WrittenInv'
  BY <1>22 DEF DropConnection, engineVars
<1>23. ASSUME NEW c \in Conns, NEW ok \in BOOLEAN, Write(c, ok) PROVE WrittenInv'
  BY <1>23 DEF Write, engineVars
<1>24. ASSUME NEW c \in Conns, NEW t \in 0..MaxTurns, Respond(c, t) PROVE WrittenInv'
  BY <1>24 DEF Respond, engineVars
<1>25. CASE RemoveGone
  BY <1>25 DEF RemoveGone
<1>26. ASSUME NEW c \in Conns, Steer(c) PROVE WrittenInv'
  BY <1>26 DEF Steer, engineVars
<1>27. CASE UNCHANGED vars
  BY <1>27 DEF vars, engineVars
<1>. QED
  BY <1>1, <1>2, <1>3, <1>4, <1>5, <1>6, <1>7, <1>8, <1>9, <1>10, <1>11, <1>12, <1>13, <1>14, <1>15,
     <1>16, <1>17, <1>18, <1>19, <1>20, <1>21, <1>22, <1>23, <1>24, <1>25, <1>26, <1>27 DEF Next, Conns

\* A prompt the engine waits for is in the channel or registered.
LEMMA PromptStep ==
  ASSUME TypeOK, ChannelInv, PromptInv, [Next]_vars
  PROVE  PromptInv'
<1>. USE DEF PromptInv, Waits
<1>1. ASSUME NEW c \in Callers, StartTurn(c) PROVE PromptInv'
  <2>1. asked' = {} /\ UNCHANGED prompts
    BY <1>1 DEF StartTurn, Persist, Fault, engineVars, counters, ChannelInv, Next1
  <2>. QED
    BY <2>1
<1>2. ASSUME NEW ok \in BOOLEAN, Step(ok) PROVE PromptInv'
  <2>1. /\ UNCHANGED <<live, pending, relay, engine, asked, erased, prompts>>
        /\ \A g : Waits(g) => Waits(g)'
    <3>1. Frame("step", total + 1) \in Frames
      BY DEF Frame, Frames, TypeOK
    <3>. QED
      BY <1>2, <3>1, Appended DEF Step, Persist, Fault, counters
  <2>. HIDE DEF Waits
  <2>. QED
    BY <2>1
<1>3. ASSUME NEW kind \in {"complete", "error"}, NEW ok \in BOOLEAN, Finish(kind, ok) PROVE PromptInv'
  <2>1. asked' = {} /\ UNCHANGED prompts
    BY <1>3 DEF Finish, Persist, Fault, engineVars, counters, ChannelInv, Next1
  <2>. QED
    BY <2>1
<1>4. CASE Stop
  <2>1. asked' = {} /\ UNCHANGED prompts
    BY <1>4 DEF Stop, Persist, Fault, engineVars, counters, ChannelInv, Next1
  <2>. QED
    BY <2>1
<1>5. CASE Ask
  <2>1. PICK n : n = prompts + 1
    OBVIOUS
  <2>2. Frame("prompt", n) \in Frames /\ prompts \in Nat
    BY <2>1 DEF Frame, Frames, TypeOK
  <2>3. /\ UNCHANGED <<live, pending, relay, engine, erased>> /\ engine = "run"
        /\ asked' = asked \union {n} /\ prompts' = n
        /\ events' = Append(events, Frame("prompt", n))
    BY <1>5, <2>1 DEF Ask
  <2>4. Waits(Frame("prompt", n))' /\ \A g : Waits(g) => Waits(g)'
    BY <2>2, <2>3, Appended
  <2>5. relay # 0 => relay \in 1..prompts
    BY HeadFrame DEF ChannelInv, FrameOK, Frame
  <2>. HIDE DEF Waits
  <2>6. \A q : Waits(Frame("prompt", q)) => Waits(Frame("prompt", q))'
    BY <2>4
  <2>7. ASSUME live', NEW q \in asked' \ erased' PROVE q \in pending' \/ Waits(Frame("prompt", q))'
    BY <2>3, <2>4, <2>6, <2>7
  <2>. QED
    BY <2>1, <2>2, <2>3, <2>5, <2>7
<1>6. ASSUME NEW p \in 1..MaxPrompts, TimeOut(p) PROVE PromptInv'
  <2>1. asked' = asked \ {p} /\ UNCHANGED <<live, pending, relay, events, engine, erased, prompts>>
    BY <1>6 DEF TimeOut, counters
  <2>. QED
    BY <2>1
<1>7. ASSUME NEW p \in 1..MaxPrompts, RespondToPrompt(p) PROVE PromptInv'
  <2>1. /\ asked' = asked \ {p} /\ pending' = pending \ {p}
        /\ UNCHANGED <<live, relay, events, engine, erased, prompts>>
    BY <1>7 DEF RespondToPrompt, counters
  <2>. QED
    BY <2>1
<1>8. CASE RelayFrame
  <2>1. /\ UNCHANGED <<live, pending, relay, engine, asked, erased, prompts>>
        /\ events # <<>> /\ events' = Tail(events) /\ Head(events).kind \in {"start", "step"}
    BY <1>8 DEF RelayFrame, Next1, engineVars, counters
  <2>2. \A q : Waits(Frame("prompt", q)) => Waits(Frame("prompt", q))'
    <3>1. \A q : Frame("prompt", q) # Head(events)
      BY <2>1 DEF Frame
    <3>. QED
      BY <2>1, <3>1, Taken
  <2>. HIDE DEF Waits
  <2>. QED
    BY <2>1, <2>2
<1>9. CASE Remember
  <2>1. /\ UNCHANGED <<live, events, engine, asked, erased, prompts>>
        /\ pending' = IF live THEN pending \union {relay'} ELSE pending
    BY <1>9 DEF Remember, engineVars, counters
  <2>. QED
    BY <2>1
<1>10. CASE Show
  <2>1. /\ UNCHANGED <<live, pending, engine, asked, erased, prompts>>
        /\ events # <<>> /\ events' = Tail(events) /\ relay # 0 /\ relay' = 0
    BY <1>10 DEF Show, Next1, engineVars, counters
  <2>2. \A q : Waits(Frame("prompt", q)) => q = relay \/ Waits(Frame("prompt", q))'
    <3>1. \A q : Frame("prompt", q) = Head(events) => q = relay
      BY <2>1 DEF Frame, ChannelInv
    <3>. QED
      BY <2>1, <3>1, Taken
  <2>. HIDE DEF Waits
  <2>. QED
    BY <2>1, <2>2
<1>11. CASE RelayComplete
  <2>1. asked' = {} /\ UNCHANGED prompts
    BY <1>11, EndIsDone DEF RelayComplete, Persist, Fault, engineVars, counters, ChannelInv, Next1
  <2>. QED
    BY <2>1
<1>12. CASE Clear
  <2>1. /\ UNCHANGED <<live, relay, events, engine, asked, prompts>>
        /\ pending' = {} /\ erased' = erased \union (pending \intersect asked)
    BY <1>12 DEF Clear, engineVars, counters
  <2>. QED
    BY <2>1
<1>13. CASE RelayError
  <2>1. asked' = {} /\ UNCHANGED prompts
    BY <1>13, EndIsDone DEF RelayError, Persist, Fault, engineVars, counters, ChannelInv, Next1
  <2>. QED
    BY <2>1
<1>14. CASE RelayGone
  <2>1. asked' = {} /\ UNCHANGED prompts
    BY <1>14 DEF RelayGone, Persist, Fault, engineVars, counters, ChannelInv, Next1
  <2>. QED
    BY <2>1
<1>15. CASE Close
  <2>1. live' = FALSE /\ UNCHANGED <<asked, engine, prompts>>
    BY <1>15 DEF Close, Fault, engineVars
  <2>. QED
    BY <2>1
<1>16. CASE Rebuild
  <2>1. asked' = {} /\ UNCHANGED prompts
    BY <1>16 DEF Rebuild, Persist, Fault, engineVars, counters, ChannelInv, Next1
  <2>. QED
    BY <2>1
<1>17. ASSUME NEW c \in Tabs, Subscribe(c) PROVE PromptInv'
  <2>1. UNCHANGED <<live, pending, relay, events, engine, asked, erased, prompts>>
    BY <1>17 DEF Subscribe, Fault, Leave, engineVars, counters
  <2>. QED
    BY <2>1
<1>18. ASSUME NEW c \in Conns, Insert(c) PROVE PromptInv'
  <2>1. UNCHANGED <<live, pending, relay, events, engine, asked, erased, prompts>>
    BY <1>18 DEF Insert, Fault, Leave, engineVars, counters
  <2>. QED
    BY <2>1
<1>19. ASSUME NEW c \in Conns, NotFound(c) PROVE PromptInv'
  <2>1. UNCHANGED <<live, pending, relay, events, engine, asked, erased, prompts>>
    BY <1>19 DEF NotFound, Fault, Leave, engineVars, counters
  <2>. QED
    BY <2>1
<1>20. ASSUME NEW c \in Conns, NEW ok \in BOOLEAN, Watermark(c, ok) PROVE PromptInv'
  <2>1. UNCHANGED <<live, pending, relay, events, engine, asked, erased, prompts>>
    BY <1>20 DEF Watermark, Fault, Leave, engineVars, counters
  <2>. QED
    BY <2>1
<1>21. ASSUME NEW c \in Conns, Unsubscribe(c) PROVE PromptInv'
  <2>1. UNCHANGED <<live, pending, relay, events, engine, asked, erased, prompts>>
    BY <1>21 DEF Unsubscribe, Fault, Leave, engineVars, counters
  <2>. QED
    BY <2>1
<1>22. ASSUME NEW c \in Conns, DropConnection(c) PROVE PromptInv'
  <2>1. UNCHANGED <<live, pending, relay, events, engine, asked, erased, prompts>>
    BY <1>22 DEF DropConnection, Fault, Leave, engineVars, counters
  <2>. QED
    BY <2>1
<1>23. ASSUME NEW c \in Conns, NEW ok \in BOOLEAN, Write(c, ok) PROVE PromptInv'
  <2>1. UNCHANGED <<live, pending, relay, events, engine, asked, erased, prompts>>
    BY <1>23 DEF Write, Fault, Leave, engineVars, counters
  <2>. QED
    BY <2>1
<1>24. ASSUME NEW c \in Conns, NEW t \in 0..MaxTurns, Respond(c, t) PROVE PromptInv'
  <2>1. UNCHANGED <<live, pending, relay, events, engine, asked, erased, prompts>>
    BY <1>24 DEF Respond, Fault, Leave, engineVars, counters
  <2>. QED
    BY <2>1
<1>25. CASE RemoveGone
  <2>1. asked' = {} /\ UNCHANGED prompts
    BY <1>25 DEF RemoveGone, counters
  <2>. QED
    BY <2>1
<1>26. ASSUME NEW c \in Conns, Steer(c) PROVE PromptInv'
  <2>1. UNCHANGED <<live, pending, relay, events, engine, asked, erased, prompts>>
    BY <1>26 DEF Steer, engineVars, counters
  <2>. QED
    BY <2>1
<1>27. CASE UNCHANGED vars
  BY <1>27 DEF vars, engineVars, counters
<1>. QED
  BY <1>1, <1>2, <1>3, <1>4, <1>5, <1>6, <1>7, <1>8, <1>9, <1>10, <1>11, <1>12, <1>13, <1>14, <1>15,
     <1>16, <1>17, <1>18, <1>19, <1>20, <1>21, <1>22, <1>23, <1>24, <1>25, <1>26, <1>27 DEF Next, Conns

-----------------------------------------------------------------------------
(* What a subscriber can have missed, action by action.                    *)

\* A broadcast of the next event takes nothing from what the remaining subscribers were told.
LEMMA EventKnown ==
  ASSUME TypeOK, ChannelInv, events # <<>>, NEW except \in SUBSET Conns,
         BroadcastExcept(Head(events), except)
  PROVE  /\ subs' \subseteq subs
         /\ \A c \in subs' : /\ Entered(watch'[c]) = Entered(watch[c])
                             /\ watch[c].steps \subseteq watch'[c].steps
                             /\ watch[c].asks \subseteq watch'[c].asks
         /\ \A c \in Conns \ subs' : watch'[c] \in {Unwatched, watch[c]}
         /\ \A c \in subs' \ except :
              /\ Head(events).kind = "step" => Head(events).n \in watch'[c].steps
              /\ Head(events).kind = "prompt" => Head(events).n \in watch'[c].asks
<1>1. /\ subs' \subseteq subs /\ \A c \in subs' \intersect except : watch'[c] = watch[c]
      /\ \A c \in Conns \ subs' : watch'[c] \in {Unwatched, watch[c]}
  BY EventTells
<1>2. \A c \in subs' \ except :
        /\ Entered(watch'[c]) = Entered(watch[c])
        /\ watch'[c].steps = IF Head(events).kind = "step"
                            THEN watch[c].steps \union {Head(events).n} ELSE watch[c].steps
        /\ watch'[c].asks = IF Head(events).kind = "prompt"
                           THEN watch[c].asks \union {Head(events).n} ELSE watch[c].asks
  BY EventTells
<1>3. ASSUME NEW c \in subs' \ except
      PROVE  /\ Entered(watch'[c]) = Entered(watch[c])
             /\ watch[c].steps \subseteq watch'[c].steps
             /\ watch[c].asks \subseteq watch'[c].asks
             /\ Head(events).kind = "step" => Head(events).n \in watch'[c].steps
             /\ Head(events).kind = "prompt" => Head(events).n \in watch'[c].asks
  BY <1>2
<1>4. ASSUME NEW c \in subs' \intersect except
      PROVE  /\ Entered(watch'[c]) = Entered(watch[c])
             /\ watch[c].steps \subseteq watch'[c].steps
             /\ watch[c].asks \subseteq watch'[c].asks
  BY <1>1
<1>. QED
  BY <1>1, <1>3, <1>4

\* An answer that is still to come finds no watermark, and only who asked for one has one.  Whoever
\* asked has seen what came since it was entered, and what was there before, unless it was told
\* of no watermark or its load failed.
EntryInv ==
  /\ \A c \in Conns : /\ request[c] = "inserted" => watch[c].base = Unknown
                      /\ watch[c].base # Unknown => watch[c].via
  /\ \A c \in subs : watch[c].via =>
       \A n \in 1..total \ late :
         \/ n <= watch[c].unread
         \/ watch[c].base # Unknown /\ n <= watch[c].base
         \/ n \in watch[c].steps
         \/ Waits(Frame("step", n))

\* What a tab has of the steps is kept.
LEMMA EntryStep ==
  ASSUME IndInv, EntryInv, [Next]_vars
  PROVE  EntryInv'
<1>. USE DEF IndInv, EntryInv
<1>1. ASSUME NEW c \in Callers, StartTurn(c) PROVE EntryInv'
  <2>1. Frame("start", turns + 1) \in Frames
    BY DEF Frame, Frames, TypeOK
  <2>2. \A g : Waits(g) => Waits(g)'
    BY <1>1, <2>1, Appended DEF StartTurn
  <2>3. \A n : Waits(Frame("step", n)) => Waits(Frame("step", n))'
    BY <2>2
  <2>4. subs' = subs \union {c} /\ UNCHANGED <<watch, total, late, request>> /\ c \in Conns
    BY <1>1 DEF StartTurn, Conns, connVars
  <2>. QED
    BY <2>3, <2>4, UnwatchedTyped DEF WatchInv
<1>2. ASSUME NEW ok \in BOOLEAN, Step(ok) PROVE EntryInv'
  <2>1. PICK m : m = total + 1
    OBVIOUS
  <2>2. Frame("step", m) \in Frames /\ total \in Nat
    BY <2>1 DEF Frame, Frames, TypeOK
  <2>3. events' = Append(events, Frame("step", m)) /\ total' = m /\ UNCHANGED <<subs, watch, request>>
    BY <1>2, <2>1 DEF Step, connVars
  <2>4. late \subseteq late'
    BY <1>2 DEF Step, Persist
  <2>5. Waits(Frame("step", m))' /\ \A g : Waits(g) => Waits(g)'
    BY <2>2, <2>3, Appended
  <2>6. \A n : Waits(Frame("step", n)) => Waits(Frame("step", n))'
    BY <2>5
  <2>7. \A n \in 1..m : n = m \/ n \in 1..total
    BY <2>1, <2>2
  <2>. QED
    BY <2>3, <2>4, <2>5, <2>6, <2>7
<1>3. ASSUME NEW kind \in {"complete", "error"}, NEW ok \in BOOLEAN, Finish(kind, ok) PROVE EntryInv'
  <2>1. Frame(kind, turn) \in Frames
    BY DEF Frame, Frames, TypeOK
  <2>2. \A g : Waits(g) => Waits(g)'
    BY <1>3, <2>1, Appended DEF Finish
  <2>3. \A n : Waits(Frame("step", n)) => Waits(Frame("step", n))'
    BY <2>2
  <2>4. UNCHANGED <<subs, watch, total, request>> /\ late \subseteq late'
    BY <1>3 DEF Finish, Persist, TypeOK, connVars
  <2>. QED
    BY <2>3, <2>4, UnwatchedTyped DEF WatchInv
<1>4. CASE Stop
  <2>1. UNCHANGED <<subs, watch, events, total, late, request>>
    BY <1>4 DEF Stop, Fault, engineVars, connVars
  <2>. QED
    BY <2>1 DEF Waits
<1>5. CASE Ask
  <2>1. Frame("prompt", prompts + 1) \in Frames
    BY DEF Frame, Frames, TypeOK
  <2>2. \A g : Waits(g) => Waits(g)'
    BY <1>5, <2>1, Appended DEF Ask
  <2>3. \A n : Waits(Frame("step", n)) => Waits(Frame("step", n))'
    BY <2>2
  <2>4. UNCHANGED <<subs, watch, total, late, request>>
    BY <1>5 DEF Ask, Persist, TypeOK, connVars
  <2>. QED
    BY <2>3, <2>4, UnwatchedTyped DEF WatchInv
<1>6. ASSUME NEW p \in 1..MaxPrompts, TimeOut(p) PROVE EntryInv'
  <2>1. UNCHANGED <<subs, watch, events, total, late, request>>
    BY <1>6 DEF TimeOut, Fault, engineVars, connVars
  <2>. QED
    BY <2>1 DEF Waits
<1>7. ASSUME NEW p \in 1..MaxPrompts, RespondToPrompt(p) PROVE EntryInv'
  <2>1. UNCHANGED <<subs, watch, events, total, late, request>>
    BY <1>7 DEF RespondToPrompt, Fault, engineVars, connVars
  <2>. QED
    BY <2>1 DEF Waits
<1>8. CASE RelayFrame
  <2>1. events # <<>> /\ events' = Tail(events) /\ UNCHANGED <<total, late, request>> /\ subs \subseteq Conns
    BY <1>8 DEF RelayFrame, Next1, engineVars, connVars, TypeOK
  <2>2. /\ subs' \subseteq subs
        /\ \A c \in Conns \ subs' : watch'[c] \in {Unwatched, watch[c]}
        /\ \A c \in subs' : /\ Entered(watch'[c]) = Entered(watch[c])
                            /\ watch[c].steps \subseteq watch'[c].steps
                            /\ Head(events).kind = "step" => Head(events).n \in watch'[c].steps
    <3>1. BroadcastExcept(Head(events), {}) /\ {} \in SUBSET Conns
      BY <1>8 DEF RelayFrame, Broadcast, Next1, TypeOK
    <3>. QED
      BY <2>1, <3>1, EventKnown
  <2>3. \A n : Waits(Frame("step", n)) =>
             (Head(events).kind = "step" /\ Head(events).n = n) \/ Waits(Frame("step", n))'
    BY <2>1, Taken DEF Frame
  <2>. QED
    BY <2>1, <2>2, <2>3, UnwatchedTyped DEF Entered
<1>9. CASE Remember
  <2>1. UNCHANGED <<subs, watch, events, total, late, request>>
    BY <1>9 DEF Remember, Fault, engineVars, connVars
  <2>. QED
    BY <2>1 DEF Waits
<1>10. CASE Show
  <2>1. events # <<>> /\ events' = Tail(events) /\ UNCHANGED <<total, late, request>> /\ subs \subseteq Conns
    BY <1>10 DEF Show, Next1, engineVars, connVars, TypeOK
  <2>2. /\ subs' \subseteq subs
        /\ \A c \in Conns \ subs' : watch'[c] \in {Unwatched, watch[c]}
        /\ \A c \in subs' : /\ Entered(watch'[c]) = Entered(watch[c])
                            /\ watch[c].steps \subseteq watch'[c].steps
                            /\ Head(events).kind = "step" => Head(events).n \in watch'[c].steps
    <3>1. BroadcastExcept(Head(events), {}) /\ {} \in SUBSET Conns
      BY <1>10 DEF Show, Broadcast, Next1, TypeOK
    <3>. QED
      BY <2>1, <3>1, EventKnown
  <2>3. \A n : Waits(Frame("step", n)) =>
             (Head(events).kind = "step" /\ Head(events).n = n) \/ Waits(Frame("step", n))'
    BY <2>1, Taken DEF Frame
  <2>. QED
    BY <2>1, <2>2, <2>3, UnwatchedTyped DEF Entered
<1>11. CASE RelayComplete
  <2>1. events # <<>> /\ events' = Tail(events) /\ UNCHANGED <<total, late, request>> /\ subs \subseteq Conns
    BY <1>11 DEF RelayComplete, Next1, engineVars, connVars, TypeOK
  <2>2. /\ subs' \subseteq subs
        /\ \A c \in Conns \ subs' : watch'[c] \in {Unwatched, watch[c]}
        /\ \A c \in subs' : /\ Entered(watch'[c]) = Entered(watch[c])
                            /\ watch[c].steps \subseteq watch'[c].steps
                            /\ Head(events).kind = "step" => Head(events).n \in watch'[c].steps
    <3>1. BroadcastExcept(Head(events), {}) /\ {} \in SUBSET Conns
      BY <1>11 DEF RelayComplete, Broadcast, Next1, TypeOK
    <3>. QED
      BY <2>1, <3>1, EventKnown
  <2>3. \A n : Waits(Frame("step", n)) =>
             (Head(events).kind = "step" /\ Head(events).n = n) \/ Waits(Frame("step", n))'
    BY <2>1, Taken DEF Frame
  <2>. QED
    BY <2>1, <2>2, <2>3, UnwatchedTyped DEF Entered
<1>12. CASE Clear
  <2>1. UNCHANGED <<subs, watch, events, total, late, request>>
    BY <1>12 DEF Clear, Fault, engineVars, connVars
  <2>. QED
    BY <2>1 DEF Waits
<1>13. CASE RelayError
  <2>1. events # <<>> /\ events' = Tail(events) /\ UNCHANGED <<total, late, request>> /\ subs \subseteq Conns
    BY <1>13 DEF RelayError, Next1, engineVars, connVars, TypeOK
  <2>2. /\ subs' \subseteq subs
        /\ \A c \in Conns \ subs' : watch'[c] \in {Unwatched, watch[c]}
        /\ \A c \in subs' : /\ Entered(watch'[c]) = Entered(watch[c])
                            /\ watch[c].steps \subseteq watch'[c].steps
                            /\ Head(events).kind = "step" => Head(events).n \in watch'[c].steps
    <3>1. BroadcastExcept(Head(events), {owner}) /\ {owner} \in SUBSET Conns /\ Head(events).kind = "error"
      BY <1>13 DEF RelayError, Broadcast, Next1, TypeOK
    <3>. QED
      BY <2>1, <3>1, EventKnown
  <2>3. \A n : Waits(Frame("step", n)) =>
             (Head(events).kind = "step" /\ Head(events).n = n) \/ Waits(Frame("step", n))'
    BY <2>1, Taken DEF Frame
  <2>. QED
    BY <2>1, <2>2, <2>3, UnwatchedTyped DEF Entered
<1>14. CASE RelayGone
  <2>1. UNCHANGED <<events, total, late, request>> /\ subs \subseteq Conns
    BY <1>14 DEF RelayGone, connVars, TypeOK
  <2>2. /\ subs' \subseteq subs
        /\ \A c \in Conns \ subs' : watch'[c] \in {Unwatched, watch[c]}
        /\ \A c \in subs' : /\ Entered(watch'[c]) = Entered(watch[c])
                            /\ watch'[c].steps = watch[c].steps
    BY <1>14, GoneTells
  <2>. QED
    BY <2>1, <2>2, UnwatchedTyped DEF Entered, Waits
<1>15. CASE Close
  <2>1. subs' = {} /\ watch' = [c \in Conns |-> Unwatched]
    BY <1>15 DEF Close
  <2>. QED
    BY <2>1, UnwatchedTyped
<1>16. CASE Rebuild
  <2>1. subs' = {} /\ watch' = [c \in Conns |-> Unwatched]
    BY <1>16 DEF Rebuild
  <2>. QED
    BY <2>1, UnwatchedTyped
<1>17. ASSUME NEW c \in Tabs, Subscribe(c) PROVE EntryInv'
  <2>1. /\ UNCHANGED <<subs, watch, events, total, late>>
        /\ request' = [request EXCEPT ![c] = "sent"]
        /\ request \in [Conns -> {"none", "sent", "inserted"}]
    BY <1>17 DEF Subscribe, engineVars, TypeOK
  <2>. QED
    BY <2>1 DEF Waits
<1>18. ASSUME NEW c \in Conns, Insert(c) PROVE EntryInv'
  <2>1. subs' = subs \union {c} /\ UNCHANGED <<events, total, late>> /\ subs \subseteq Conns
    BY <1>18 DEF Insert, engineVars, TypeOK
  <2>2. /\ request' = [request EXCEPT ![c] = "inserted"]
        /\ request \in [Conns -> {"none", "sent", "inserted"}]
    BY <1>18 DEF Insert, TypeOK
  <2>3. /\ \A d \in Conns \ {c} : watch'[d] = watch[d]
        /\ watch'[c].via /\ watch'[c].base = Unknown /\ watch'[c].unread = written
    BY <1>18, InsertTells
  <2>4. \A n \in 1..total \ late : n <= written
    BY DEF WrittenInv
  <2>. QED
    BY <2>1, <2>2, <2>3, <2>4 DEF Waits
<1>19. ASSUME NEW c \in Conns, NotFound(c) PROVE EntryInv'
  <2>1. /\ UNCHANGED <<subs, watch, events, total, late>>
        /\ request' = [request EXCEPT ![c] = "none"]
        /\ request \in [Conns -> {"none", "sent", "inserted"}]
    BY <1>19 DEF NotFound, engineVars, TypeOK
  <2>. QED
    BY <2>1 DEF Waits
<1>20. ASSUME NEW c \in Conns, NEW ok \in BOOLEAN, Watermark(c, ok) PROVE EntryInv'
  <2>1. subs' = subs /\ UNCHANGED <<events, total, late>> /\ subs \subseteq Conns
    BY <1>20 DEF Watermark, engineVars, TypeOK
  <2>2. /\ request' = [request EXCEPT ![c] = "none"] /\ request[c] = "inserted"
        /\ request \in [Conns -> {"none", "sent", "inserted"}]
    BY <1>20 DEF Watermark, TypeOK
  <2>3. /\ \A d \in Conns : /\ watch'[d].steps = watch[d].steps /\ watch'[d].via = watch[d].via
                            /\ d # c \/ ~watch[d].via => watch'[d] = watch[d]
        /\ watch[c].via => /\ watch'[c].base = IF ok THEN written ELSE 0
                           /\ watch'[c].unread = IF ok THEN 0 ELSE watch[c].unread
    BY <1>20, WatermarkTells
  <2>4. 0 # Unknown /\ written # Unknown
    <3>1. written \in 0..total /\ total \in 0..MaxSteps /\ MaxSteps \in Nat
      BY WatchersAssumption DEF TypeOK
    <3>. QED
      BY <3>1 DEF Unknown
  <2>5. \A n \in 1..total \ late : n <= written
    BY DEF WrittenInv
  <2>6. ASSUME NEW d \in Conns
        PROVE  /\ request'[d] = "inserted" => watch'[d].base = Unknown
               /\ watch'[d].base # Unknown => watch'[d].via
    <3>1. request'[d] = (IF d = c THEN "none" ELSE request[d])
      BY <2>2
    <3>2. watch'[d].base # Unknown => watch'[d].via
      <4>1. CASE d = c /\ watch[c].via
        BY <2>3, <4>1
      <4>2. CASE d # c \/ ~watch[c].via
        BY <2>3, <4>2
      <4>. QED
        BY <4>1, <4>2
    <3>3. request'[d] = "inserted" => watch'[d].base = Unknown
      BY <2>3, <3>1
    <3>. QED
      BY <3>2, <3>3
  <2>7. ASSUME NEW d \in subs', watch'[d].via, NEW n \in 1..total' \ late'
        PROVE  \/ n <= watch'[d].unread
               \/ watch'[d].base # Unknown /\ n <= watch'[d].base
               \/ n \in watch'[d].steps
               \/ Waits(Frame("step", n))'
    <3>1. /\ d \in subs /\ d \in Conns /\ n \in 1..total \ late
          /\ watch[d].via /\ watch'[d].steps = watch[d].steps
      BY <2>1, <2>3, <2>7
    <3>2. Waits(Frame("step", n)) => Waits(Frame("step", n))'
      BY <2>1 DEF Waits
    <3>3. \/ n <= watch[d].unread
          \/ watch[d].base # Unknown /\ n <= watch[d].base
          \/ n \in watch[d].steps
          \/ Waits(Frame("step", n))
      BY <3>1
    <3>4. CASE d # c
      BY <2>3, <3>1, <3>2, <3>3, <3>4
    <3>5. CASE d = c /\ ok
      BY <2>3, <2>4, <2>5, <3>1, <3>5
    <3>6. CASE d = c /\ ~ok
      <4>1. watch[d].base = Unknown /\ watch'[d].unread = watch[d].unread
        BY <2>2, <2>3, <3>1, <3>6
      <4>. QED
        BY <3>1, <3>2, <3>3, <4>1
    <3>. QED
      BY <3>4, <3>5, <3>6
  <2>. QED
    BY <2>6, <2>7
<1>21. ASSUME NEW c \in Conns, Unsubscribe(c) PROVE EntryInv'
  <2>1. /\ subs' = subs \ {c} /\ watch' = [watch EXCEPT ![c] = Unwatched]
        /\ UNCHANGED <<events, total, late, request>>
    BY <1>21 DEF Unsubscribe, Leave, engineVars, connVars
  <2>2. /\ \A d \in subs' : d \in subs /\ watch'[d] = watch[d]
        /\ \A d \in Conns : watch'[d] = watch[d] \/ watch'[d] = Unwatched
    BY <2>1 DEF TypeOK
  <2>. QED
    BY <2>1, <2>2, UnwatchedTyped DEF Waits
<1>22. ASSUME NEW c \in Conns, DropConnection(c) PROVE EntryInv'
  <2>1. /\ subs' = subs \ {c} /\ watch' = [watch EXCEPT ![c] = Unwatched]
        /\ UNCHANGED <<events, total, late, request>>
    BY <1>22 DEF DropConnection, Leave, engineVars, connVars
  <2>2. /\ \A d \in subs' : d \in subs /\ watch'[d] = watch[d]
        /\ \A d \in Conns : watch'[d] = watch[d] \/ watch'[d] = Unwatched
    BY <2>1 DEF TypeOK
  <2>. QED
    BY <2>1, <2>2, UnwatchedTyped DEF Waits
<1>23. ASSUME NEW c \in Conns, NEW ok \in BOOLEAN, Write(c, ok) PROVE EntryInv'
  <2>1. UNCHANGED <<subs, watch, events, total, late, request>>
    BY <1>23 DEF Write, Fault, engineVars, connVars
  <2>. QED
    BY <2>1 DEF Waits
<1>24. ASSUME NEW c \in Conns, NEW t \in 0..MaxTurns, Respond(c, t) PROVE EntryInv'
  <2>1. subs' = subs /\ UNCHANGED <<events, total, late, request>> /\ subs \subseteq Conns
    BY <1>24 DEF Respond, engineVars, connVars, TypeOK
  <2>2. \A d \in Conns : Entered(watch'[d]) = Entered(watch[d]) /\ watch'[d].steps = watch[d].steps
    BY <1>24, AnswerTells
  <2>. QED
    BY <2>1, <2>2 DEF Waits, Entered
<1>25. CASE RemoveGone
  <2>1. subs' = {} /\ watch' = [c \in Conns |-> Unwatched]
    BY <1>25 DEF RemoveGone
  <2>. QED
    BY <2>1, UnwatchedTyped
<1>26. ASSUME NEW c \in Conns, Steer(c) PROVE EntryInv'
  <2>1. UNCHANGED <<events, total, late, request>> /\ subs \subseteq Conns
    BY <1>26 DEF Steer, engineVars, connVars, TypeOK
  <2>2. /\ \A d \in Conns : /\ watch'[d].base = watch[d].base /\ watch'[d].via = watch[d].via
                            /\ watch'[d].unread = watch[d].unread
                            /\ watch'[d].steps = watch[d].steps
        /\ subs' \subseteq subs \union {c}
    BY <1>26, SteerTells
  <2>3. c \notin subs => ~watch[c].via
    BY UnwatchedTyped DEF WatchInv
  <2>. QED
    BY <2>1, <2>2, <2>3 DEF Waits
<1>27. CASE UNCHANGED vars
  BY <1>27 DEF vars, engineVars, connVars, Waits
<1>. QED
  BY <1>1, <1>2, <1>3, <1>4, <1>5, <1>6, <1>7, <1>8, <1>9, <1>10, <1>11, <1>12, <1>13, <1>14, <1>15,
     <1>16, <1>17, <1>18, <1>19, <1>20, <1>21, <1>22, <1>23, <1>24, <1>25, <1>26, <1>27 DEF Next, Conns

\* Every subscriber knows of the prompts the engine waits for.
LEMMA ReachStep ==
  ASSUME IndInv, PromptsReach, [Next]_vars
  PROVE  PromptsReach'
<1>. USE DEF IndInv, PromptsReach
<1>1. ASSUME NEW c \in Callers, StartTurn(c) PROVE PromptsReach'
  <2>1. asked' = {}
    BY <1>1 DEF StartTurn, engineVars, ChannelInv, PromptInv
  <2>. QED
    BY <2>1
<1>2. ASSUME NEW ok \in BOOLEAN, Step(ok) PROVE PromptsReach'
  <2>1. Frame("step", total + 1) \in Frames
    BY DEF Frame, Frames, TypeOK
  <2>2. \A g : Waits(g) => Waits(g)'
    BY <1>2, <2>1, Appended DEF Step
  <2>3. \A p : Waits(Frame("prompt", p)) => Waits(Frame("prompt", p))'
    BY <2>2
  <2>4. UNCHANGED <<subs, watch, asked, erased>>
    BY <1>2 DEF Step
  <2>. QED
    BY <2>3, <2>4
<1>3. ASSUME NEW kind \in {"complete", "error"}, NEW ok \in BOOLEAN, Finish(kind, ok) PROVE PromptsReach'
  <2>1. asked' = {}
    BY <1>3 DEF Finish, engineVars, Persist
  <2>. QED
    BY <2>1
<1>4. CASE Stop
  <2>1. asked' = {}
    BY <1>4 DEF Stop, engineVars, Fault
  <2>. QED
    BY <2>1
<1>5. CASE Ask
  <2>1. PICK q : q = prompts + 1
    OBVIOUS
  <2>2. Frame("prompt", q) \in Frames
    BY <2>1 DEF Frame, Frames, TypeOK
  <2>3. /\ events' = Append(events, Frame("prompt", q)) /\ asked' = asked \union {q}
        /\ UNCHANGED <<subs, watch, erased>>
    BY <1>5, <2>1 DEF Ask
  <2>4. Waits(Frame("prompt", q))' /\ \A g : Waits(g) => Waits(g)'
    BY <2>2, <2>3, Appended
  <2>5. \A p : Waits(Frame("prompt", p)) => Waits(Frame("prompt", p))'
    BY <2>4
  <2>. QED
    BY <2>3, <2>4, <2>5
<1>6. ASSUME NEW p \in 1..MaxPrompts, TimeOut(p) PROVE PromptsReach'
  <2>1. asked' \subseteq asked /\ UNCHANGED <<subs, watch, events, erased>>
    BY <1>6 DEF TimeOut
  <2>. QED
    BY <2>1 DEF Waits
<1>7. ASSUME NEW p \in 1..MaxPrompts, RespondToPrompt(p) PROVE PromptsReach'
  <2>1. asked' \subseteq asked /\ UNCHANGED <<subs, watch, events, erased>>
    BY <1>7 DEF RespondToPrompt
  <2>. QED
    BY <2>1 DEF Waits
<1>8. CASE RelayFrame
  <2>1. events # <<>> /\ events' = Tail(events) /\ UNCHANGED <<asked, erased>> /\ subs \subseteq Conns
    BY <1>8 DEF RelayFrame, Next1, engineVars, TypeOK
  <2>2. /\ subs' \subseteq subs
        /\ \A c \in subs' : /\ Entered(watch'[c]) = Entered(watch[c])
                            /\ watch[c].asks \subseteq watch'[c].asks
                            /\ Head(events).kind = "prompt" => Head(events).n \in watch'[c].asks
    <3>1. BroadcastExcept(Head(events), {}) /\ {} \in SUBSET Conns
      BY <1>8 DEF RelayFrame, Broadcast, Next1, TypeOK
    <3>. QED
      BY <2>1, <3>1, EventKnown
  <2>3. \A p : Waits(Frame("prompt", p)) =>
             (Head(events).kind = "prompt" /\ Head(events).n = p) \/ Waits(Frame("prompt", p))'
    BY <2>1, Taken DEF Frame
  <2>. QED
    BY <2>1, <2>2, <2>3 DEF Entered
<1>9. CASE Remember
  <2>1. UNCHANGED <<subs, watch, events, asked, erased>>
    BY <1>9 DEF Remember, Fault, engineVars
  <2>. QED
    BY <2>1 DEF Waits
<1>10. CASE Show
  <2>1. events # <<>> /\ events' = Tail(events) /\ UNCHANGED <<asked, erased>> /\ subs \subseteq Conns
    BY <1>10 DEF Show, Next1, engineVars, TypeOK
  <2>2. /\ subs' \subseteq subs
        /\ \A c \in subs' : /\ Entered(watch'[c]) = Entered(watch[c])
                            /\ watch[c].asks \subseteq watch'[c].asks
                            /\ Head(events).kind = "prompt" => Head(events).n \in watch'[c].asks
    <3>1. BroadcastExcept(Head(events), {}) /\ {} \in SUBSET Conns
      BY <1>10 DEF Show, Broadcast, Next1, TypeOK
    <3>. QED
      BY <2>1, <3>1, EventKnown
  <2>3. \A p : Waits(Frame("prompt", p)) =>
             (Head(events).kind = "prompt" /\ Head(events).n = p) \/ Waits(Frame("prompt", p))'
    BY <2>1, Taken DEF Frame
  <2>. QED
    BY <2>1, <2>2, <2>3 DEF Entered
<1>11. CASE RelayComplete
  <2>1. asked' = {}
    BY <1>11, EndIsDone DEF RelayComplete, engineVars, Next1, PromptInv
  <2>. QED
    BY <2>1
<1>12. CASE Clear
  <2>1. erased \subseteq erased' /\ UNCHANGED <<subs, watch, events, asked>>
    BY <1>12 DEF Clear, engineVars
  <2>. QED
    BY <2>1 DEF Waits
<1>13. CASE RelayError
  <2>1. asked' = {}
    BY <1>13, EndIsDone DEF RelayError, engineVars, Next1, PromptInv
  <2>. QED
    BY <2>1
<1>14. CASE RelayGone
  <2>1. asked' = {}
    BY <1>14 DEF RelayGone, PromptInv
  <2>. QED
    BY <2>1
<1>15. CASE Close
  <2>1. subs' = {}
    BY <1>15 DEF Close
  <2>. QED
    BY <2>1
<1>16. CASE Rebuild
  <2>1. subs' = {}
    BY <1>16 DEF Rebuild
  <2>. QED
    BY <2>1
<1>17. ASSUME NEW c \in Tabs, Subscribe(c) PROVE PromptsReach'
  <2>1. UNCHANGED <<subs, watch, events, asked, erased>>
    BY <1>17 DEF Subscribe, Fault, engineVars
  <2>. QED
    BY <2>1 DEF Waits
<1>18. ASSUME NEW c \in Conns, Insert(c) PROVE PromptsReach'
  <2>1. /\ live /\ subs' = subs \union {c} /\ UNCHANGED <<events, asked, erased>>
        /\ subs \subseteq Conns
    BY <1>18 DEF Insert, engineVars, TypeOK
  <2>2. /\ \A d \in Conns \ {c} : watch'[d] = watch[d]
        /\ watch'[c].asks = watch[c].asks \union pending
    BY <1>18, InsertTells
  <2>3. \A p \in asked \ erased : p \in pending \/ Waits(Frame("prompt", p))
    BY <2>1 DEF PromptInv
  <2>. QED
    BY <2>1, <2>2, <2>3 DEF Waits
<1>19. ASSUME NEW c \in Conns, NotFound(c) PROVE PromptsReach'
  <2>1. UNCHANGED <<subs, watch, events, asked, erased>>
    BY <1>19 DEF NotFound, Fault, engineVars
  <2>. QED
    BY <2>1 DEF Waits
<1>20. ASSUME NEW c \in Conns, NEW ok \in BOOLEAN, Watermark(c, ok) PROVE PromptsReach'
  <2>1. subs' = subs /\ UNCHANGED <<events, asked, erased>> /\ subs \subseteq Conns
    BY <1>20 DEF Watermark, engineVars, TypeOK
  <2>2. \A d \in Conns : watch'[d].asks = watch[d].asks /\ watch'[d].unasked = watch[d].unasked
    BY <1>20, WatermarkTells
  <2>. QED
    BY <2>1, <2>2 DEF Waits
<1>21. ASSUME NEW c \in Conns, Unsubscribe(c) PROVE PromptsReach'
  <2>1. /\ subs' = subs \ {c} /\ watch' = [watch EXCEPT ![c] = Unwatched]
        /\ UNCHANGED <<events, asked, erased>>
    BY <1>21 DEF Unsubscribe, Leave, engineVars
  <2>2. \A d \in subs' : d \in subs /\ watch'[d] = watch[d]
    BY <2>1 DEF TypeOK
  <2>. QED
    BY <2>1, <2>2 DEF Waits
<1>22. ASSUME NEW c \in Conns, DropConnection(c) PROVE PromptsReach'
  <2>1. /\ subs' = subs \ {c} /\ watch' = [watch EXCEPT ![c] = Unwatched]
        /\ UNCHANGED <<events, asked, erased>>
    BY <1>22 DEF DropConnection, Leave, engineVars
  <2>2. \A d \in subs' : d \in subs /\ watch'[d] = watch[d]
    BY <2>1 DEF TypeOK
  <2>. QED
    BY <2>1, <2>2 DEF Waits
<1>23. ASSUME NEW c \in Conns, NEW ok \in BOOLEAN, Write(c, ok) PROVE PromptsReach'
  <2>1. UNCHANGED <<subs, watch, events, asked, erased>>
    BY <1>23 DEF Write, Fault, engineVars
  <2>. QED
    BY <2>1 DEF Waits
<1>24. ASSUME NEW c \in Conns, NEW t \in 0..MaxTurns, Respond(c, t) PROVE PromptsReach'
  <2>1. subs' = subs /\ UNCHANGED <<events, asked, erased>> /\ subs \subseteq Conns
    BY <1>24 DEF Respond, engineVars, TypeOK
  <2>2. \A d \in Conns : watch'[d].asks = watch[d].asks /\ Entered(watch'[d]) = Entered(watch[d])
    BY <1>24, AnswerTells
  <2>. QED
    BY <2>1, <2>2 DEF Waits, Entered
<1>25. CASE RemoveGone
  <2>1. subs' = {}
    BY <1>25 DEF RemoveGone
  <2>. QED
    BY <2>1
<1>26. ASSUME NEW c \in Conns, Steer(c) PROVE PromptsReach'
  <2>1. UNCHANGED <<events, asked, erased>> /\ subs \subseteq Conns
    BY <1>26 DEF Steer, engineVars, TypeOK
  <2>2. /\ \A d \in subs : watch'[d] = watch[d]
        /\ subs' \subseteq subs \union {c}
        /\ c \in subs' \ subs => live /\ watch'[c].unasked = pending
    BY <1>26, <2>1, SteerTells
  <2>3. live => \A p \in asked \ erased : p \in pending \/ Waits(Frame("prompt", p))
    BY DEF PromptInv
  <2>. QED
    BY <2>1, <2>2, <2>3 DEF Waits
<1>27. CASE UNCHANGED vars
  BY <1>27 DEF vars, engineVars, Waits
<1>. QED
  BY <1>1, <1>2, <1>3, <1>4, <1>5, <1>6, <1>7, <1>8, <1>9, <1>10, <1>11, <1>12, <1>13, <1>14, <1>15,
     <1>16, <1>17, <1>18, <1>19, <1>20, <1>21, <1>22, <1>23, <1>24, <1>25, <1>26, <1>27 DEF Next, Conns

\* Every subscriber is told of the end of the turns it was told of.
LEMMA EndStep ==
  ASSUME IndInv, TurnEndSeen, [Next]_vars
  PROVE  TurnEndSeen'
<1>. USE DEF IndInv, TurnEndSeen
<1>1. ASSUME NEW c \in Callers, StartTurn(c) PROVE TurnEndSeen'
  <2>1. /\ subs' = subs \union {c} /\ turn = 0 /\ c \in Conns /\ subs \subseteq Conns
        /\ UNCHANGED <<writer, watch, due>>
    BY <1>1 DEF StartTurn, connVars, Conns, TypeOK
  <2>2. \A d \in Conns : 0 \notin watch[d].running
    BY DEF TypeOK
  <2>3. c \notin subs => watch[c].running = {}
    BY <2>1, UnwatchedTyped DEF WatchInv
  <2>. QED
    BY <2>1, <2>2, <2>3
<1>2. ASSUME NEW ok \in BOOLEAN, Step(ok) PROVE TurnEndSeen'
  <2>1. UNCHANGED <<subs, writer, watch, turn, owner, engine, due>>
    BY <1>2 DEF Step, Fault, connVars, engineVars
  <2>. QED
    BY <2>1
<1>3. ASSUME NEW kind \in {"complete", "error"}, NEW ok \in BOOLEAN, Finish(kind, ok) PROVE TurnEndSeen'
  <2>1. UNCHANGED <<subs, writer, watch, turn, owner, due>> /\ engine' # "told"
    BY <1>3 DEF Finish, Fault, connVars, engineVars
  <2>. QED
    BY <2>1
<1>4. CASE Stop
  <2>1. UNCHANGED <<subs, writer, watch, turn, owner, due>> /\ engine' # "told"
    BY <1>4 DEF Stop, Fault, connVars, engineVars
  <2>. QED
    BY <2>1
<1>5. CASE Ask
  <2>1. UNCHANGED <<subs, writer, watch, turn, owner, engine, due>>
    BY <1>5 DEF Ask, Fault, connVars, engineVars
  <2>. QED
    BY <2>1
<1>6. ASSUME NEW p \in 1..MaxPrompts, TimeOut(p) PROVE TurnEndSeen'
  <2>1. UNCHANGED <<subs, writer, watch, turn, owner, engine, due>>
    BY <1>6 DEF TimeOut, Fault, connVars, engineVars
  <2>. QED
    BY <2>1
<1>7. ASSUME NEW p \in 1..MaxPrompts, RespondToPrompt(p) PROVE TurnEndSeen'
  <2>1. UNCHANGED <<subs, writer, watch, turn, owner, engine, due>>
    BY <1>7 DEF RespondToPrompt, Fault, connVars, engineVars
  <2>. QED
    BY <2>1
<1>8. CASE RelayFrame
  <2>1. /\ events # <<>> /\ Head(events).kind \in {"start", "step", "prompt"}
        /\ UNCHANGED <<writer, turn, owner, due>> /\ engine' # "told" /\ subs \subseteq Conns
    BY <1>8 DEF RelayFrame, Next1, connVars, engineVars, TypeOK, ChannelInv
  <2>2. Head(events).kind = "start" => Head(events).n = turn
    BY <2>1, HeadFrame DEF FrameOK
  <2>3. /\ subs' \subseteq subs
        /\ \A c \in subs' : \/ watch'[c].running = watch[c].running
                            \/ /\ Head(events).kind = "start"
                               /\ watch'[c].running = watch[c].running \union {Head(events).n}
    BY <1>8, <2>1, EventTells DEF RelayFrame, Broadcast, TypeOK
  <2>. QED
    BY <2>1, <2>2, <2>3
<1>9. CASE Remember
  <2>1. UNCHANGED <<subs, writer, watch, turn, owner, engine, due>>
    BY <1>9 DEF Remember, Fault, connVars, engineVars
  <2>. QED
    BY <2>1
<1>10. CASE Show
  <2>1. /\ events # <<>> /\ Head(events).kind \in {"start", "step", "prompt"}
        /\ UNCHANGED <<writer, turn, owner, due>> /\ engine' # "told" /\ subs \subseteq Conns
    BY <1>10 DEF Show, Next1, connVars, engineVars, TypeOK, ChannelInv
  <2>2. Head(events).kind = "start" => Head(events).n = turn
    BY <2>1, HeadFrame DEF FrameOK
  <2>3. /\ subs' \subseteq subs
        /\ \A c \in subs' : \/ watch'[c].running = watch[c].running
                            \/ /\ Head(events).kind = "start"
                               /\ watch'[c].running = watch[c].running \union {Head(events).n}
    BY <1>10, <2>1, EventTells DEF Show, Broadcast, TypeOK
  <2>. QED
    BY <2>1, <2>2, <2>3
<1>11. CASE RelayComplete
  <2>1. /\ events # <<>> /\ Head(events).kind \in {"complete", "error"}
        /\ UNCHANGED writer /\ due' = due \union {<<owner, turn>>} /\ subs \subseteq Conns
    BY <1>11 DEF RelayComplete, Next1, connVars, GiveBack, TypeOK
  <2>2. Head(events).n = turn
    BY <2>1, HeadFrame DEF FrameOK
  <2>3. /\ subs' \subseteq subs
        /\ \A c \in subs' : watch'[c].running = watch[c].running \ {Head(events).n}
    <3>1. BroadcastExcept(Head(events), {}) /\ {} \in SUBSET Conns
      BY <1>11 DEF RelayComplete, Broadcast, TypeOK
    <3>. QED
      BY <2>1, <3>1, EventTells
  <2>. QED
    BY <2>1, <2>2, <2>3
<1>12. CASE Clear
  <2>1. UNCHANGED <<subs, writer, watch, turn, owner, engine, due>>
    BY <1>12 DEF Clear, Fault, connVars, engineVars
  <2>. QED
    BY <2>1
<1>13. CASE RelayError
  <2>1. /\ events # <<>> /\ Head(events).kind \in {"complete", "error"}
        /\ UNCHANGED writer /\ due' = due \union {<<owner, turn>>} /\ subs \subseteq Conns
    BY <1>13 DEF RelayError, Next1, connVars, GiveBack, TypeOK
  <2>2. Head(events).n = turn
    BY <2>1, HeadFrame DEF FrameOK
  <2>3. /\ subs' \subseteq subs
        /\ \A c \in subs' \ {owner} : watch'[c].running = watch[c].running \ {Head(events).n}
        /\ \A c \in subs' \intersect {owner} : watch'[c] = watch[c]
    <3>1. BroadcastExcept(Head(events), {owner}) /\ {owner} \in SUBSET Conns
      BY <1>13 DEF RelayError, Broadcast, TypeOK
    <3>. QED
      BY <2>1, <3>1, EventTells
  <2>4. turn' = 0
    BY <1>13 DEF RelayError, GiveBack
  <2>5. ASSUME NEW c \in subs' \intersect writer', NEW t \in watch'[c].running PROVE <<c, t>> \in due'
    <3>1. c \in subs \intersect writer /\ t \in watch[c].running /\ (c # owner => t # turn)
      BY <2>1, <2>2, <2>3
    <3>2. t = turn \/ <<c, t>> \in due
      BY <3>1
    <3>. QED
      BY <2>1, <3>1, <3>2
  <2>. QED
    BY <2>5
<1>14. CASE RelayGone
  <2>1. /\ UNCHANGED <<writer, turn, owner, due>> /\ engine' = "told" /\ engine = "gone"
        /\ subs \subseteq Conns
    BY <1>14 DEF RelayGone, connVars, TypeOK
  <2>2. /\ subs' \subseteq subs
        /\ \A c \in subs' \ {owner} : watch'[c].running = watch[c].running \ {turn}
        /\ \A c \in subs' \intersect {owner} : watch'[c] = watch[c]
    BY <1>14, GoneTells
  <2>. QED
    BY <2>1, <2>2
<1>15. CASE Close
  <2>1. subs' = {}
    BY <1>15 DEF Close
  <2>. QED
    BY <2>1
<1>16. CASE Rebuild
  <2>1. subs' = {}
    BY <1>16 DEF Rebuild
  <2>. QED
    BY <2>1
<1>17. ASSUME NEW c \in Tabs, Subscribe(c) PROVE TurnEndSeen'
  <2>1. UNCHANGED <<subs, writer, watch, turn, owner, engine, due>>
    BY <1>17 DEF Subscribe, Fault, connVars, engineVars
  <2>. QED
    BY <2>1
<1>18. ASSUME NEW c \in Conns, Insert(c) PROVE TurnEndSeen'
  <2>1. /\ subs' = subs \union {c} /\ due \subseteq due' /\ subs \subseteq Conns
        /\ UNCHANGED <<writer, turn, owner, engine>>
    BY <1>18 DEF Insert, connVars, engineVars, TypeOK
  <2>2. \A d \in Conns : watch'[d].running = watch[d].running
    BY <1>18, InsertTells
  <2>. QED
    BY <1>18, <2>1, <2>2, UnwatchedTyped DEF WatchInv
<1>19. ASSUME NEW c \in Conns, NotFound(c) PROVE TurnEndSeen'
  <2>1. due \subseteq due' /\ UNCHANGED <<subs, writer, watch, turn, owner, engine>>
    BY <1>19 DEF NotFound, connVars, engineVars
  <2>. QED
    BY <2>1
<1>20. ASSUME NEW c \in Conns, NEW ok \in BOOLEAN, Watermark(c, ok) PROVE TurnEndSeen'
  <2>1. /\ subs' = subs /\ due \subseteq due' /\ subs \subseteq Conns
        /\ UNCHANGED <<writer, turn, owner, engine>>
    BY <1>20 DEF Watermark, connVars, engineVars, TypeOK
  <2>2. \A d \in Conns : watch'[d].running = watch[d].running
    BY <1>20, WatermarkTells
  <2>. QED
    BY <1>20, <2>1, <2>2, UnwatchedTyped DEF WatchInv
<1>21. ASSUME NEW c \in Conns, Unsubscribe(c) PROVE TurnEndSeen'
  <2>1. /\ subs' = subs \ {c} /\ watch' = [watch EXCEPT ![c] = Unwatched]
        /\ UNCHANGED <<writer, turn, owner, engine, due>>
    BY <1>21 DEF Unsubscribe, Leave, connVars, engineVars
  <2>2. \A d \in subs' : d \in subs /\ watch'[d] = watch[d]
    BY <2>1 DEF TypeOK
  <2>. QED
    BY <2>1, <2>2
<1>22. ASSUME NEW c \in Conns, DropConnection(c) PROVE TurnEndSeen'
  <2>1. /\ subs' = subs \ {c} /\ watch' = [watch EXCEPT ![c] = Unwatched]
        /\ UNCHANGED <<writer, turn, owner, engine, due>>
    BY <1>22 DEF DropConnection, Leave, connVars, engineVars
  <2>2. \A d \in subs' : d \in subs /\ watch'[d] = watch[d]
    BY <2>1 DEF TypeOK
  <2>. QED
    BY <2>1, <2>2
<1>23. ASSUME NEW c \in Conns, NEW ok \in BOOLEAN, Write(c, ok) PROVE TurnEndSeen'
  <2>1. writer' \subseteq writer /\ UNCHANGED <<subs, watch, turn, owner, engine, due>>
    BY <1>23 DEF Write, engineVars
  <2>. QED
    BY <2>1
<1>24. ASSUME NEW c \in Conns, NEW t \in 0..MaxTurns, Respond(c, t) PROVE TurnEndSeen'
  <2>1. /\ due' = due \ {<<c, t>>} /\ UNCHANGED <<subs, writer, turn, owner, engine>> /\ subs \subseteq Conns
    BY <1>24 DEF Respond, connVars, engineVars, TypeOK
  <2>2. \A d \in Conns : watch'[d].running =
             IF d = c /\ c \in subs THEN watch[d].running \ {t} ELSE watch[d].running
    BY <1>24, AnswerTells
  <2>. QED
    BY <2>1, <2>2
<1>25. CASE RemoveGone
  <2>1. subs' = {}
    BY <1>25 DEF RemoveGone
  <2>. QED
    BY <2>1
<1>26. ASSUME NEW c \in Conns, Steer(c) PROVE TurnEndSeen'
  <2>1. due \subseteq due' /\ UNCHANGED <<writer, turn, owner, engine>> /\ subs \subseteq Conns
    BY <1>26 DEF Steer, connVars, engineVars, TypeOK
  <2>2. /\ \A d \in Conns : watch'[d].running = watch[d].running
        /\ subs' \subseteq subs \union {c}
    BY <1>26, SteerTells
  <2>3. c \notin subs => watch[c].running = {}
    BY UnwatchedTyped DEF WatchInv
  <2>. QED
    BY <2>1, <2>2, <2>3
<1>27. CASE UNCHANGED vars
  BY <1>27 DEF vars, connVars, engineVars
<1>. QED
  BY <1>1, <1>2, <1>3, <1>4, <1>5, <1>6, <1>7, <1>8, <1>9, <1>10, <1>11, <1>12, <1>13, <1>14, <1>15,
     <1>16, <1>17, <1>18, <1>19, <1>20, <1>21, <1>22, <1>23, <1>24, <1>25, <1>26, <1>27 DEF Next, Conns

-----------------------------------------------------------------------------
(* The theorems.                                                           *)

\* A session nobody watches satisfies the invariant.
LEMMA InitInv == Init => IndInv
<1>. SUFFICES ASSUME Init PROVE IndInv
  OBVIOUS
<1>. USE DEF Init
<1>1. TypeOK
  <2>1. SessionTyped
    BY WatchersAssumption DEF SessionTyped, Conns
  <2>2. EngineTyped
    BY WatchersAssumption DEF EngineTyped
  <2>3. CountersTyped
    BY WatchersAssumption DEF CountersTyped
  <2>4. ConnsTyped
    BY WatchersAssumption DEF ConnsTyped
  <2>5. EventsTyped
    BY DEF EventsTyped
  <2>6. WatchTyped
    BY UnwatchedTyped DEF WatchTyped
  <2>. QED
    BY <2>1, <2>2, <2>3, <2>4, <2>5, <2>6, TypeParts
<1>2. Len(events) = 0
  OBVIOUS
<1>3. ChannelInv
  BY <1>2 DEF ChannelInv
<1>4. ClearInv /\ WrittenInv
  BY DEF ClearInv, WrittenInv
<1>5. WatchInv
  BY UnwatchedTyped DEF WatchInv
<1>6. PromptInv
  BY DEF PromptInv
<1>. QED
  BY <1>1, <1>3, <1>4, <1>5, <1>6 DEF IndInv

\* Types, the bound on what is queued for a connection, and the inductive invariant: the channel
\* holds the events of the turn whose relay runs, whoever is no subscriber has no history, every
\* step is in the transcript or its persist failed, and a prompt the engine waits for is in the
\* channel or registered.  (run_turn's event loop, subscribe_session, remember_prompt.)
THEOREM WatchersInvariant == Spec => []IndInv
<1>1. IndInv /\ [Next]_vars => IndInv'
  <2>. SUFFICES ASSUME IndInv, [Next]_vars PROVE IndInv'
    OBVIOUS
  <2>1. TypeOK /\ ChannelInv /\ ClearInv /\ WatchInv /\ WrittenInv /\ PromptInv
    BY DEF IndInv
  <2>2. TypeOK' /\ ChannelInv' /\ ClearInv'
    BY <2>1, TypeStep, ChannelStep, ClearStep
  <2>3. WatchInv' /\ WrittenInv' /\ PromptInv'
    BY <2>1, WatchStep, WrittenStep, PromptStep
  <2>. QED
    BY <2>2, <2>3 DEF IndInv
<1>. QED
  BY <1>1, InitInv, PTL DEF Spec

\* A tab that subscribes at any moment, reads the history up to last_seq and applies the frames it
\* gets, misses no step that was announced, as long as it is a subscriber; a load that failed costs
\* it the steps that were in the transcript before it was entered, and no other.
\* (subscribe_session enters the connection before it reads the length, transcript_len answers 0
\* when it cannot; a step is persisted before StepEnd.)
THEOREM StepsAreSeen == Spec => []NoGap
<1>1. Init => EntryInv
  BY UnwatchedTyped DEF Init, EntryInv
<1>2. IndInv /\ EntryInv /\ [Next]_vars => EntryInv'
  BY EntryStep
<1>3. IndInv /\ EntryInv => NoGap
  BY DEF IndInv, TypeOK, EntryInv, NoGap
<1>. QED
  BY <1>1, <1>2, <1>3, WatchersInvariant, PTL DEF Spec

\* Every subscriber knows of every permission prompt the engine still waits for, by its frame or
\* by the answer to subscribe, or the prompt is still in the channel; excepted are prompts that the
\* end of the turn before erased and, for who watches because its steer was accepted, those that
\* were pending then.  (remember_prompt before the broadcast; run_turn enters who steered.)
THEOREM PromptsAreSeen == Spec => []PromptsReach
<1>1. Init => PromptsReach
  BY DEF Init, PromptsReach
<1>2. IndInv /\ PromptsReach /\ [Next]_vars => PromptsReach'
  BY ReachStep
<1>. QED
  BY <1>1, <1>2, WatchersInvariant, PTL DEF Spec

\* No watcher "would otherwise see a turn that never ends": whoever was told of the start of a turn
\* that is over was told of its end, or its answer is on the way.  (broadcast_to_session_except
\* and the answer of run_turn, together.)
THEOREM EndsAreSeen == Spec => []TurnEndSeen
<1>1. Init => TurnEndSeen
  BY DEF Init, TurnEndSeen
<1>2. IndInv /\ TurnEndSeen /\ [Next]_vars => TurnEndSeen'
  BY EndStep
<1>. QED
  BY <1>1, <1>2, WatchersInvariant, PTL DEF Spec

\* A client that is told of a step finds it in the transcript, unless its persist failed.
\* (execute_inner persists before it announces StepEnd.)
THEOREM AnnouncedAreWritten == Spec => []AnnouncedIsWritten
<1>1. IndInv => AnnouncedIsWritten
  BY DEF IndInv, WatchInv, WrittenInv, AnnouncedIsWritten
<1>. QED
  BY <1>1, WatchersInvariant, PTL

\* A subscriber is never ahead of the transcript nor short of it, and its queue stays within its
\* bound: it was told of no step that is not on disk, and of every step that was announced, but
\* those whose persist failed, and those that were there before it was entered if its load failed.
\* (subscribe_session, the relay of run_turn and execute_inner.)
THEOREM WatchersHold == Spec => []WatchersInv
<1>1. IndInv => TypeOK
  BY DEF IndInv
<1>2. TypeOK /\ AnnouncedIsWritten /\ NoGap => WatchersInv
  BY DEF WatchersInv
<1>. QED
  BY <1>1, <1>2, WatchersInvariant, AnnouncedAreWritten, StepsAreSeen, PTL
=============================================================================

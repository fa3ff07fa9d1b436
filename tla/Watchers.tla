------------------------------ MODULE Watchers ------------------------------
(***************************************************************************)
(* The connections that watch one session (daemon/src/session_pool.rs,     *)
(* rpc.rs, server.rs, ws.rs).  The engine sends events to the run_turn     *)
(* call that holds the turn; that call, the relay, broadcasts each as a    *)
(* frame to the session's subscribers.  Every connection has a bounded     *)
(* outbound queue and a writer task; a subscriber whose queue is full is   *)
(* dropped.  Requests run on tasks of their own, so a subscribe may finish *)
(* after its connection went away, and a tab may subscribe between any two *)
(* frames: it is told the length of the transcript, reads the history up   *)
(* to there and applies the frames that came meanwhile.                    *)
(*                                                                         *)
(* A queue is kept as its length; what it was sent is in watch, a history. *)
(* Frames that neither begin or end a turn, end a step nor ask are left    *)
(* out, and so is compaction, which makes the transcript shorter.  The     *)
(* daemon has a history store.  A session closed in the middle of a turn   *)
(* is not opened again before the relay has ended (SessionTurns has that   *)
(* case).                                                                  *)
(***************************************************************************)
EXTENDS Naturals, Sequences, FiniteSets

CONSTANTS
  Callers,    \* connections that call run_turn
  Tabs,       \* connections that subscribe or steer, one request at a time; one may be both
  Depth,      \* OUTBOUND_QUEUE_DEPTH
  MaxTurns,   \* bound: turns
  MaxSteps,   \* bound: steps of all turns
  MaxPrompts, \* bound: permission prompts
  MaxFaults   \* bound: failed persists and loads, engines that stop, sessions closed

ASSUME WatchersAssumption ==
  /\ IsFiniteSet(Callers) /\ IsFiniteSet(Tabs) /\ Depth \in Nat \ {0}
  /\ {MaxTurns, MaxSteps, MaxPrompts, MaxFaults} \subseteq Nat

VARIABLES
  live,      \* the session is in the pool
  subs,      \* subscribers
  pending,   \* pending_prompts
  turn,      \* the turn whose relay runs, 0 if the slot is free
  owner,     \* the connection that started it
  engine,    \* the engine of the turn: "idle", "run", "done" (the end is in events), "gone",
             \* "told" (gone, and the watchers were told)
  relay,     \* the prompt that was remembered and not yet broadcast, or 0
  clearing,  \* relays that gave the slot back and have still to clear the prompts
  events,    \* the engine's event channel
  total, written, \* messages in memory, messages in the transcript
  asked,     \* prompts the engine waits for
  turns, prompts, faults,  \* counters
  open,      \* connections whose drop_connection has not run
  writer,    \* connections whose writer task runs
  queue,     \* length of the outbound queue
  request,   \* the subscribe request: "none", "sent", "inserted"
  due,       \* answers that wait for room: <<c, t>> to the run_turn of turn t, <<c, 0>> to one that
             \* steered and to subscribe
  watch,     \* per connection, history of the current subscription
  late, erased

Conns == Callers \union Tabs

engineVars == <<engine, total, written, asked, late>>
connVars == <<open, writer, request>>
counters == <<turns, prompts, faults>>
vars == <<live, subs, pending, turn, owner, relay, clearing, events, engineVars, counters,
          connVars, queue, due, watch, erased>>

(***************************************************************************)
(* watch is the history of a subscription, and starts again when the       *)
(* connection leaves the subscribers: via says that it was asked for with  *)
(* subscribe, base is the watermark of the answer (Unknown before that),   *)
(* unread the length of the transcript when it was entered, if no answer   *)
(* gave it the true one, unasked the prompts that were pending when a      *)
(* steer entered it, steps and asks the steps and the prompts it was told  *)
(* of, running the turns whose start it was told and whose end it was not. *)
(* late are the steps whose persist failed, erased the prompts forgotten   *)
(* while the engine waited for them.                                       *)
(***************************************************************************)
Unknown == MaxSteps + 1
Unwatched == [via |-> FALSE, base |-> Unknown, unread |-> 0, unasked |-> {},
              steps |-> {}, asks |-> {}, running |-> {}]
Frame(kind, n) == [kind |-> kind, n |-> n]
Told(w, f) ==
  CASE f.kind = "step" -> [w EXCEPT !.steps = @ \union {f.n}]
    [] f.kind = "prompt" -> [w EXCEPT !.asks = @ \union {f.n}]
    [] f.kind = "start" -> [w EXCEPT !.running = @ \union {f.n}]
    [] OTHER -> [w EXCEPT !.running = @ \ {f.n}]

Init ==
  /\ live = TRUE /\ subs = {} /\ pending = {} /\ turn = 0 /\ owner \in Callers /\ engine = "idle"
  /\ relay = 0 /\ clearing = 0 /\ events = <<>> /\ total = 0 /\ written = 0 /\ asked = {}
  /\ turns = 0 /\ prompts = 0 /\ faults = 0
  /\ open = Conns /\ writer = Conns /\ queue = [c \in Conns |-> 0]
  /\ request = [c \in Conns |-> "none"] /\ due = {}
  /\ watch = [c \in Conns |-> Unwatched] /\ late = {} /\ erased = {}

Fault == faults < MaxFaults /\ faults' = faults + 1 /\ UNCHANGED <<turns, prompts>>

(***************************************************************************)
(* broadcast_to_session_except: whoever cannot take the frame at once is   *)
(* no subscriber any more.                                                 *)
(***************************************************************************)
Takes(c) == c \in writer /\ queue[c] < Depth

\* Mutant: the broadcast waits until every subscriber has room.
BroadcastWaits(frame, except) ==
  /\ \A c \in subs \ except : Takes(c)
  /\ UNCHANGED subs
  /\ queue' = [c \in Conns |-> IF c \in subs \ except THEN queue[c] + 1 ELSE queue[c]]
  /\ watch' = [c \in Conns |-> IF c \in subs \ except
                              THEN Told(watch[c], frame) ELSE watch[c]]

\* Mutant: a subscriber that cannot take the frame misses it and stays.
BroadcastLossy(frame, except) ==
  LET told == {c \in subs \ except : Takes(c)}
  IN  /\ UNCHANGED subs
      /\ queue' = [c \in Conns |-> IF c \in told THEN queue[c] + 1 ELSE queue[c]]
      /\ watch' = [c \in Conns |-> IF c \in told THEN Told(watch[c], frame)
                                               ELSE watch[c]]

\* Every other subscriber gets the frame; the excepted one stays and gets nothing.
BroadcastExcept(frame, except) ==
  LET kept == {c \in subs : c \in except \/ Takes(c)}
      told == kept \ except
  IN  /\ subs' = kept
      /\ queue' = [c \in Conns |-> IF c \in told THEN queue[c] + 1 ELSE queue[c]]
      /\ watch' = [c \in Conns |->
           CASE c \in told -> Told(watch[c], frame)
             [] c \in subs \ kept -> Unwatched
             [] OTHER -> watch[c]]

Broadcast(frame) == BroadcastExcept(frame, {})

(***************************************************************************)
(* The turn: run_turn takes the slot, and its caller watches.  The engine  *)
(* persists what a step produced before it announces the step.             *)
(***************************************************************************)
StartTurn(c) ==
  /\ live /\ turn = 0 /\ turns < MaxTurns
  /\ turn' = turns + 1 /\ turns' = turns + 1 /\ owner' = c /\ engine' = "run"
  /\ subs' = subs \union {c}
  /\ events' = Append(events, Frame("start", turns + 1))
  /\ UNCHANGED <<live, pending, relay, clearing, total, written, asked, late, prompts, faults,
                 connVars, queue, due, watch, erased>>

\* With nothing to write there is nothing that fails.
Persist(n, ok) ==
  /\ written' = IF ok THEN n ELSE written
  /\ late' = IF ok THEN late ELSE late \union ((written + 1)..n)
  /\ IF ok THEN UNCHANGED counters ELSE n > written /\ Fault

\* Mutant: the step is announced before it is persisted.
StepUnwritten(ok) ==
  /\ engine = "run" /\ total < MaxSteps
  /\ total' = total + 1 /\ Persist(total, ok)
  /\ events' = Append(events, Frame("step", total + 1))
  /\ UNCHANGED <<live, subs, pending, turn, owner, engine, relay, clearing, asked, connVars, queue,
                 due, watch, erased>>

\* A step ends.
Step(ok) ==
  /\ engine = "run" /\ total < MaxSteps
  /\ total' = total + 1 /\ Persist(total + 1, ok)
  /\ events' = Append(events, Frame("step", total + 1))
  /\ UNCHANGED <<live, subs, pending, turn, owner, engine, relay, clearing, asked, connVars, queue,
                 due, watch, erased>>

\* The turn ends, and persists before it says so: it is complete, or failed.  An engine that
\* stops says nothing more.
Finish(kind, ok) ==
  /\ engine = "run" /\ engine' = "done" /\ asked' = {}
  /\ Persist(total, ok) /\ UNCHANGED total
  /\ events' = Append(events, Frame(kind, turn))
  /\ UNCHANGED <<live, subs, pending, turn, owner, relay, clearing, connVars, queue, due, watch, erased>>

Stop ==
  /\ engine = "run" /\ engine' = "gone" /\ asked' = {}
  /\ IF live THEN Fault ELSE UNCHANGED counters
  /\ UNCHANGED <<live, subs, pending, turn, owner, relay, clearing, events, total, written, late,
                 connVars, queue, due, watch, erased>>

Ask ==
  /\ engine = "run" /\ prompts < MaxPrompts
  /\ prompts' = prompts + 1 /\ asked' = asked \union {prompts + 1}
  /\ events' = Append(events, Frame("prompt", prompts + 1))
  /\ UNCHANGED <<live, subs, pending, turn, owner, relay, clearing, engine, total, written, late,
                 turns, faults, connVars, queue, due, watch, erased>>

\* The engine's own time for the answer is over.
TimeOut(p) ==
  /\ p \in asked /\ asked' = asked \ {p}
  /\ UNCHANGED <<live, subs, pending, turn, owner, relay, clearing, events, engine, total, written,
                 late, counters, connVars, queue, due, watch, erased>>

\* respond_to_prompt: a prompt nobody waits for is forgotten all the same.
RespondToPrompt(p) ==
  /\ live /\ p \in pending
  /\ asked' = asked \ {p} /\ pending' = pending \ {p}
  /\ UNCHANGED <<live, subs, turn, owner, relay, clearing, events, engine, total, written, late,
                 counters, connVars, queue, due, watch, erased>>

(***************************************************************************)
(* The relay: the event loop of run_turn.                                  *)
(***************************************************************************)
Next1(kinds) == turn # 0 /\ events # <<>> /\ Head(events).kind \in kinds /\ events' = Tail(events)

RelayFrame ==
  /\ Next1({"start", "step"})
  /\ Broadcast(Head(events))
  /\ UNCHANGED <<live, pending, turn, owner, relay, clearing, engineVars, counters, connVars, due, erased>>

\* Mutant: the prompt is not registered.
RememberNothing ==
  /\ turn # 0 /\ relay = 0 /\ events # <<>> /\ Head(events).kind = "prompt"
  /\ relay' = Head(events).n
  /\ UNCHANGED <<live, subs, pending, turn, owner, clearing, events, engineVars, counters, connVars,
                 queue, due, watch, erased>>

\* "Registered before it is sent: a tab that subscribes between the two must still be handed
\* the question."
Remember ==
  /\ turn # 0 /\ relay = 0 /\ events # <<>> /\ Head(events).kind = "prompt"
  /\ relay' = Head(events).n
  /\ pending' = IF live THEN pending \union {relay'} ELSE pending
  /\ UNCHANGED <<live, subs, turn, owner, clearing, events, engineVars, counters, connVars, queue,
                 due, watch, erased>>

Show ==
  /\ relay # 0 /\ relay' = 0 /\ Next1({"prompt"})
  /\ Broadcast(Head(events))
  /\ UNCHANGED <<live, pending, turn, owner, clearing, engineVars, counters, connVars, due, erased>>

GiveBack == turn' = 0 /\ due' = due \union {<<owner, turn>>} /\ UNCHANGED owner

\* The slot is given back first; the prompts are cleared, and the caller is answered, after it.
RelayComplete ==
  /\ Next1({"complete"})
  /\ Broadcast(Head(events)) /\ GiveBack
  /\ clearing' = clearing + 1 /\ engine' = "idle"
  /\ UNCHANGED <<live, pending, relay, total, written, asked, late, counters, connVars, erased>>

Clear ==
  /\ clearing > 0 /\ clearing' = clearing - 1
  /\ pending' = {} /\ erased' = erased \union (pending \intersect asked)
  /\ UNCHANGED <<live, subs, turn, owner, relay, events, engineVars, counters, connVars, queue, due, watch>>

\* Mutant: only the caller is told of the error, by its answer.
RelayErrorQuiet ==
  /\ Next1({"error"})
  /\ GiveBack /\ engine' = "idle"
  /\ UNCHANGED <<live, subs, pending, relay, clearing, total, written, asked, late, counters, connVars,
                 queue, watch, erased>>

\* The caller is told by its answer, everybody else by a frame; the prompts stay.
RelayError ==
  /\ Next1({"error"})
  /\ BroadcastExcept(Head(events), {owner}) /\ GiveBack
  /\ engine' = "idle"
  /\ UNCHANGED <<live, pending, relay, clearing, total, written, asked, late, counters, connVars, erased>>

\* The channel is closed: everybody but the caller is told of it as of an error, ...
RelayGone ==
  /\ turn # 0 /\ events = <<>> /\ engine = "gone"
  /\ BroadcastExcept(Frame("error", turn), {owner})
  /\ engine' = "told"
  /\ UNCHANGED <<live, pending, turn, owner, relay, clearing, events, total, written, asked, late,
                 counters, connVars, due, erased>>

\* ... and the session leaves the pool, with the prompts and the subscribers it had by then.
RemoveGone ==
  /\ engine = "told" /\ engine' = "idle" /\ GiveBack
  /\ live' = FALSE /\ subs' = {} /\ pending' = {} /\ watch' = [c \in Conns |-> Unwatched]
  /\ UNCHANGED <<relay, clearing, events, total, written, asked, late, counters, connVars, queue,
                 erased>>

(***************************************************************************)
(* The session leaves the pool (close, eviction, delete), or is built      *)
(* again: run_turn does so for one that is not live and for one whose      *)
(* binding is stale, and starts with no subscribers.                       *)
(***************************************************************************)
Close ==
  /\ live /\ Fault
  /\ live' = FALSE /\ subs' = {} /\ pending' = {} /\ watch' = [c \in Conns |-> Unwatched]
  /\ UNCHANGED <<turn, owner, relay, clearing, events, engineVars, connVars, queue, due, erased>>

Rebuild ==
  /\ turn = 0 /\ IF live THEN Fault ELSE UNCHANGED counters
  /\ live' = TRUE /\ subs' = {} /\ pending' = {} /\ watch' = [c \in Conns |-> Unwatched]
  /\ UNCHANGED <<turn, owner, relay, clearing, events, engineVars, connVars, queue, due, erased>>

(***************************************************************************)
(* A connection.  Requests are served by tasks that outlive it.            *)
(***************************************************************************)
Subscribe(c) ==
  /\ c \in open /\ request[c] = "none" /\ <<c, 0>> \notin due
  /\ request' = [request EXCEPT ![c] = "sent"]
  /\ UNCHANGED <<live, subs, pending, turn, owner, relay, clearing, events, engineVars, counters,
                 open, writer, queue, due, watch, erased>>

\* Who is entered by a subscribe is answered with the prompts that are pending.
Joined(w) == [w EXCEPT !.asks = @ \union pending, !.unasked = {}, !.via = TRUE, !.base = Unknown,
                       !.unread = written]

\* subscribe_session enters the connection under the lock of the pool ...
Insert(c) ==
  /\ request[c] = "sent" /\ live
  /\ request' = [request EXCEPT ![c] = "inserted"]
  /\ subs' = subs \union {c}
  /\ watch' = [watch EXCEPT ![c] = Joined(@)]
  /\ UNCHANGED <<live, pending, turn, owner, relay, clearing, events, engineVars, counters, open,
                 writer, queue, due, erased>>

NotFound(c) ==
  /\ request[c] = "sent" /\ ~live
  /\ request' = [request EXCEPT ![c] = "none"] /\ due' = due \union {<<c, 0>>}
  /\ UNCHANGED <<live, subs, pending, turn, owner, relay, clearing, events, engineVars, counters,
                 open, writer, queue, watch, erased>>

Answered(w, ok) ==
  [w EXCEPT !.base = IF ok THEN written ELSE 0, !.unread = IF ok THEN 0 ELSE @]

\* ... and reads the length of the transcript after it has let go of it.  A load that fails is
\* answered with a length of 0, which makes a difference unless that is the length.
Watermark(c, ok) ==
  /\ request[c] = "inserted"
  /\ request' = [request EXCEPT ![c] = "none"] /\ due' = due \union {<<c, 0>>}
  /\ watch' = [watch EXCEPT ![c] = IF @.via THEN Answered(@, ok) ELSE @]
  /\ IF ok THEN UNCHANGED counters ELSE written > 0 /\ Fault
  /\ UNCHANGED <<live, subs, pending, turn, owner, relay, clearing, events, engineVars,
                 open, writer, queue, erased>>

\* run_turn with on_busy = "steer": a turn accepted the message, now or, its task being slow, some
\* time ago; its sender watches from here on, and is answered without the prompts.
Steer(c) ==
  /\ turns > 0 /\ request[c] = "none" /\ <<c, 0>> \notin due /\ due' = due \union {<<c, 0>>}
  /\ subs' = IF live THEN subs \union {c} ELSE subs
  /\ watch' = IF live /\ c \notin subs THEN [watch EXCEPT ![c].unasked = pending] ELSE watch
  /\ UNCHANGED <<live, pending, turn, owner, relay, clearing, events, engineVars, counters,
                 connVars, queue, erased>>

Leave(c) == subs' = subs \ {c} /\ watch' = [watch EXCEPT ![c] = Unwatched]

Unsubscribe(c) ==
  /\ c \in open /\ c \in subs /\ Leave(c)
  /\ UNCHANGED <<live, pending, turn, owner, relay, clearing, events, engineVars, counters, connVars,
                 queue, due, erased>>

\* The peer closes the connection and the reader ends.
DropConnection(c) ==
  /\ c \in open /\ Fault /\ open' = open \ {c} /\ Leave(c)
  /\ UNCHANGED <<live, pending, turn, owner, relay, clearing, events, engineVars, writer, request,
                 queue, due, erased>>

\* The writer: a frame it cannot write to a connection that is gone is its last one.
Write(c, ok) ==
  /\ c \in writer /\ queue[c] > 0 /\ (c \in open => ok)
  /\ writer' = IF ok THEN writer ELSE writer \ {c}
  /\ queue' = [queue EXCEPT ![c] = IF ok THEN @ - 1 ELSE 0]
  /\ UNCHANGED <<live, subs, pending, turn, owner, relay, clearing, events, engineVars, counters,
                 open, request, due, watch, erased>>

\* An answer waits for room, and is lost once the writer has ended.
Respond(c, t) ==
  /\ <<c, t>> \in due /\ (c \in writer => queue[c] < Depth)
  /\ due' = due \ {<<c, t>>}
  /\ queue' = IF c \in writer THEN [queue EXCEPT ![c] = @ + 1] ELSE queue
  /\ watch' = IF c \in subs THEN [watch EXCEPT ![c] = Told(@, Frame("answer", t))] ELSE watch
  /\ UNCHANGED <<live, subs, pending, turn, owner, relay, clearing, events, engineVars, counters,
                 connVars, erased>>

-----------------------------------------------------------------------------
Relay == RelayFrame \/ Remember \/ Show \/ RelayComplete \/ RelayError \/ RelayGone \/ RemoveGone

Next ==
  \/ \E ok \in BOOLEAN : Step(ok) \/ Finish("complete", ok) \/ Finish("error", ok)
  \/ Stop \/ Ask \/ Clear \/ Close \/ Rebuild
  \/ RelayFrame \/ Remember \/ Show \/ RelayComplete \/ RelayError \/ RelayGone \/ RemoveGone
  \/ \E p \in 1..MaxPrompts : TimeOut(p) \/ RespondToPrompt(p)
  \/ \E c \in Conns :
        \/ c \in Callers /\ StartTurn(c)
        \/ c \in Tabs /\ (Subscribe(c) \/ Steer(c))
        \/ Insert(c) \/ NotFound(c)
        \/ Unsubscribe(c) \/ DropConnection(c)
        \/ \E ok \in BOOLEAN : Watermark(c, ok) \/ Write(c, ok)
        \/ \E t \in 0..MaxTurns : Respond(c, t)

Spec == Init /\ [][Next]_vars
-----------------------------------------------------------------------------
Frames == [kind : {"start", "step", "prompt", "complete", "error"}, n : Nat]

\* The types of the state, and the bound on what is queued for a connection.
TypeOK ==
  /\ live \in BOOLEAN /\ subs \subseteq Conns /\ pending \subseteq 1..MaxPrompts
  /\ turn \in 0..MaxTurns /\ owner \in Conns /\ engine \in {"idle", "run", "done", "gone", "told"}
  /\ relay \in 0..MaxPrompts /\ clearing \in 0..MaxTurns /\ events \in Seq(Frames)
  /\ total \in 0..MaxSteps /\ written \in 0..total /\ asked \subseteq 1..MaxPrompts
  /\ turns \in 0..MaxTurns /\ prompts \in 0..MaxPrompts /\ faults \in 0..MaxFaults
  /\ open \subseteq Conns /\ writer \subseteq Conns
  /\ queue \in [Conns -> 0..Depth] /\ request \in [Conns -> {"none", "sent", "inserted"}]
  /\ due \subseteq Conns \X (0..MaxTurns)
  /\ watch \in [Conns -> [via : BOOLEAN, base : 0..Unknown, unread : 0..MaxSteps,
                         unasked : SUBSET (1..MaxPrompts), steps : SUBSET (1..MaxSteps),
                         asks : SUBSET (1..MaxPrompts), running : SUBSET (1..MaxTurns)]]
  /\ late \subseteq 1..MaxSteps /\ erased \subseteq 1..MaxPrompts

Waits(f) == \E i \in 1..Len(events) : events[i] = f

\* A tab that subscribes at any moment, reads the history up to last_seq and applies the frames
\* it gets, misses no step that was announced, as long as it is a subscriber: a step is in the
\* transcript before it is announced, and the tab is entered before the length is read.
\* (subscribe_session, broadcast_to_session and persist before StepEnd, together.  Excepted are
\* the steps whose persist failed, and, for a tab whose load failed and that was told a length of
\* 0, the steps that were in the transcript before it was entered: no later one.)
NoGap ==
  \A c \in subs : watch[c].base # Unknown =>
    \A n \in 1..total \ late :
      \/ n <= watch[c].base \/ n <= watch[c].unread
      \/ n \in watch[c].steps
      \/ Waits(Frame("step", n))

\* Whoever watches knows of every permission prompt the engine still waits for and that was
\* shown: by its frame, or in the answer to subscribe.  (remember_prompt before the broadcast.
\* Excepted are prompts erased by the end of the turn before, and, for a connection that watches
\* because its steer was accepted, those that were pending when it was entered: its answer has
\* none of them.  Whoever comes in by subscribe, then or later, is told.)
PromptsReach ==
  \A c \in subs, p \in asked \ erased :
    p \in watch[c].asks \/ p \in watch[c].unasked \/ Waits(Frame("prompt", p))

\* Whoever was shown the start of a turn, and still watches, is shown its end or, its caller,
\* gets it as the answer: no watcher "would otherwise see a turn that never ends".  Of an engine
\* that stopped they are told before the session is removed.
TurnEndSeen ==
  \A c \in subs \intersect writer : \A t \in watch[c].running :
    \/ t = turn /\ (engine = "told" => c = owner)
    \/ <<c, t>> \in due

\* A client that is told of a step finds it in the transcript: what step_end announces was
\* written before, unless its persist failed.
AnnouncedIsWritten ==
  \A c \in Conns : \A n \in watch[c].steps \ late : n <= written

\* No client can hold up a turn: whatever the queues and whoever stopped reading, the relay can
\* take the next event.  (A slow subscriber is dropped, not waited for.)
NeverHeldUp == turn # 0 /\ events # <<>> => ENABLED Relay

(***************************************************************************)
(* Types, and what a watcher has of the steps of the session: nothing that *)
(* is not on disk, and nothing short of what was announced.                *)
(***************************************************************************)
WatchersInv == TypeOK /\ AnnouncedIsWritten /\ NoGap

(***************************************************************************)
(* What the documentation says and the code does not do.                   *)
(***************************************************************************)

\* "Whatever was still being asked died with the turn": only such prompts are cleared.
PromptsNeverErased == erased = {}

\* The prompts are emptied when the turn ends (docs/daemon_rpc_protocol.md).
PromptsCleared == turn = 0 /\ clearing = 0 => pending = {}

\* "A connection went away: forget it everywhere": it does not come back.
DroppedIsForgotten == subs \subseteq open

\* Subscribe first, "then read history up to `last_seq`": that is all of it.
HistoryIsComplete ==
  \A c \in subs : watch[c].base # Unknown =>
    \A n \in 1..total \ late :
      n <= watch[c].base \/ n \in watch[c].steps \/ Waits(Frame("step", n))

\* Whoever watches, however it came to, "must still be handed the question".
EveryWatcherIsAsked ==
  \A c \in subs, p \in asked \ erased :
    p \in watch[c].asks \/ Waits(Frame("prompt", p))
=============================================================================

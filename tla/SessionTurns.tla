---------------------------- MODULE SessionTurns ----------------------------
(***************************************************************************)
(* One live session of the daemon: SessionPool::run_turn from the moment it*)
(* looks for the session's turn slot, session.interrupt, and the removal   *)
(* of the session (eviction, session.close, daemon.shutdown), all driving  *)
(* the engine of module AgentLoop through its channels.                    *)
(*                                                                         *)
(* The turn slot is the event receiver: event_rx.take() succeeds for one   *)
(* caller, which puts it back when its turn is over.  Every visit to the   *)
(* sessions map is one step; nothing is held between two visits.           *)
(***************************************************************************)
EXTENDS AgentLoop, FiniteSets

CONSTANT Interrupts   \* session.interrupt calls, each made once

ASSUME InterruptAssumption == None \notin Interrupts

VARIABLES
  live,     \* the sessions map has an entry for this session
  slot,     \* who holds event_rx (None: it is in its place)
  current,  \* LiveSession.current_turn
  policy,   \* on_busy of each call
  pc,       \* where each call is
  tried,    \* steer_tried of each call
  answer,   \* the response each call got
  ipc,      \* where each interrupt is
  target    \* the turn an interrupt was answered `interrupted: true` for

poolVars == <<live, slot, current>>
callVars == <<policy, pc, tried, answer>>
intVars  == <<ipc, target>>
vars     == <<agentVars, poolVars, callVars, intVars>>

Policies == {"reject", "queue", "steer"}

CallStages == {"lookup", "take", "acking", "waiting", "mark", "send",
               "stream", "giveback", "clear", "done"}

Answers == {"none", "turn", "steer", "busy", "error", "not_found", "engine_stopped"}

TypeOK ==
  /\ AgentTypeOK
  /\ live \in BOOLEAN
  /\ slot \in Calls \cup {None} /\ current \in Calls \cup {None}
  /\ policy \in [Calls -> Policies]
  /\ pc \in [Calls -> CallStages]
  /\ tried \subseteq Calls
  /\ answer \in [Calls -> Answers]
  /\ ipc \in [Interrupts -> {"read", "send", "done"}]
  /\ target \in [Interrupts -> Calls \cup {None}]

Init ==
  /\ AgentInit
  /\ live = TRUE /\ slot = None /\ current = None
  /\ policy \in [Calls -> Policies]
  /\ pc = [c \in Calls |-> "lookup"]
  /\ tried = {}
  /\ answer = [c \in Calls |-> "none"]
  /\ ipc = [i \in Interrupts |-> "read"]
  /\ target = [i \in Interrupts |-> None]

Goto(c, l) == pc' = [pc EXCEPT ![c] = l] /\ UNCHANGED answer
Answer(c, a) ==
  /\ pc' = [pc EXCEPT ![c] = "done"]
  /\ answer' = [answer EXCEPT ![c] = a]

-----------------------------------------------------------------------------
(* run_turn.                                                               *)

\* Clone the session's handles under the sessions lock, or find it gone.
LookUp(c) ==
  /\ pc[c] = "lookup"
  /\ IF live THEN Goto(c, "take") ELSE Answer(c, "not_found")
  /\ UNCHANGED <<agentVars, poolVars, policy, tried, intVars>>

\* Mutant: the slot is not looked at.
TakeAnyway(c) ==
  /\ pc[c] = "take"
  /\ slot' = c
  /\ Goto(c, "mark")
  /\ UNCHANGED <<agentVars, live, current, policy, tried, intVars>>

\* event_rx.take() returned the receiver.
TakeSlot(c) ==
  /\ pc[c] = "take" /\ slot = None
  /\ slot' = c
  /\ Goto(c, "mark")
  /\ UNCHANGED <<agentVars, live, current, policy, tried, intVars>>

\* Mutant: the message is sent before the busy answer is decided.
RejectSendsFirst(c) ==
  /\ pc[c] = "take" /\ slot # None /\ policy[c] = "reject"
  /\ Answer(c, "busy")
  /\ Deliver(UserMsg(c))
  /\ UNCHANGED <<demux, fwd, events, phase, turn, outcome, cancelled, stopped,
                 steps, accepting, pending, accepted, returned, mem, saved,
                 seen, poolVars, policy, tried, intVars>>

\* OnBusy::Reject
Reject(c) ==
  /\ pc[c] = "take" /\ slot # None /\ policy[c] = "reject"
  /\ Answer(c, "busy")
  /\ UNCHANGED <<agentVars, poolVars, policy, tried, intVars>>

\* OnBusy::Steer, once: hand the message to the running turn.
Steer(c) ==
  /\ pc[c] = "take" /\ slot # None /\ policy[c] = "steer" /\ c \notin tried
  /\ tried' = tried \cup {c}
  /\ Deliver(SteerMsg(c))
  /\ Goto(c, "acking")
  /\ UNCHANGED <<demux, fwd, events, phase, turn, outcome, cancelled, stopped,
                 steps, accepting, pending, accepted, returned, mem, saved,
                 seen, poolVars, policy, intVars>>

\* The turn took it: answer at once.
SteerAccepted(c) ==
  /\ pc[c] = "acking" /\ ack[c] = "accepted"
  /\ Answer(c, "steer")
  /\ UNCHANGED <<agentVars, poolVars, policy, tried, intVars>>

\* NotRunning, or the one-shot was dropped.
SteerRefused(c) ==
  /\ pc[c] = "acking" /\ ack[c] = "refused"
  /\ Goto(c, "lookup")
  /\ UNCHANGED <<agentVars, poolVars, policy, tried, intVars>>

\* No acknowledgement within five seconds; the Steer may still be unread.
SteerTimeout(c) ==
  /\ pc[c] = "acking" /\ ack[c] = "waiting"
  /\ ack' = [ack EXCEPT ![c] = "none"]
  /\ Goto(c, "lookup")
  /\ UNCHANGED <<input, demux, fwd, events, phase, turn, outcome, cancelled,
                 stopped, steps, accepting, pending, accepted, returned, mem,
                 saved, seen, poolVars, policy, tried, intVars>>

\* OnBusy::Queue, and a Steer that fell back to it.
Wait(c) ==
  /\ pc[c] = "take" /\ slot # None
  /\ policy[c] = "queue" \/ c \in tried
  /\ Goto(c, "waiting")
  /\ UNCHANGED <<agentVars, poolVars, policy, tried, intVars>>

\* Notified by clear_current_turn, or one second passed.
WakeUp(c) ==
  /\ pc[c] = "waiting"
  /\ Goto(c, "lookup")
  /\ UNCHANGED <<agentVars, poolVars, policy, tried, intVars>>

\* current_turn = Some(turn_id), if the session is still in the map.
Mark(c) ==
  /\ pc[c] = "mark"
  /\ current' = IF live THEN c ELSE current
  /\ Goto(c, "send")
  /\ UNCHANGED <<agentVars, live, slot, policy, tried, intVars>>

Send(c) ==
  /\ pc[c] = "send"
  /\ Deliver(UserMsg(c))
  /\ Goto(c, "stream")
  /\ UNCHANGED <<demux, fwd, events, phase, turn, outcome, cancelled, stopped,
                 steps, accepting, pending, accepted, returned, mem, saved,
                 seen, poolVars, policy, tried, intVars>>

\* A terminal event ends the streaming loop; the next step gives event_rx back.
Stream(c) ==
  /\ pc[c] = "stream" /\ events # <<>>
  /\ events' = Tail(events)
  /\ pc' = [pc EXCEPT ![c] = "giveback"]
  /\ answer' = [answer EXCEPT ![c] =
                  IF Head(events).kind = "complete" THEN "turn" ELSE "error"]
  /\ UNCHANGED <<input, demux, fwd, phase, turn, outcome, cancelled, stopped,
                 steps, accepting, pending, ack, accepted, returned, mem,
                 saved, seen, poolVars, policy, tried, intVars>>

\* The event channel is closed: drop the entry so that the next call resumes.
EngineGone(c) ==
  /\ pc[c] = "stream" /\ events = <<>> /\ phase = "exited"
  /\ live' = FALSE
  /\ stopped' = TRUE
  /\ Answer(c, "engine_stopped")
  /\ UNCHANGED <<input, demux, fwd, events, phase, turn, outcome, cancelled,
                 steps, accepting, pending, ack, accepted, returned, mem,
                 saved, seen, slot, current, policy, tried, intVars>>

\* Mutant: the receiver is dropped instead of put back.
GiveBackLost(c) ==
  /\ pc[c] = "giveback"
  /\ Goto(c, "clear")
  /\ UNCHANGED <<agentVars, poolVars, policy, tried, intVars>>

\* *event_rx_mutex.lock().await = Some(event_rx)
GiveBack(c) ==
  /\ pc[c] = "giveback"
  /\ slot' = None
  /\ Goto(c, "clear")
  /\ UNCHANGED <<agentVars, live, current, policy, tried, intVars>>

\* clear_current_turn, and notify_waiters.
ClearCurrent(c) ==
  /\ pc[c] = "clear"
  /\ current' = IF live THEN None ELSE current
  /\ Goto(c, "done")
  /\ UNCHANGED <<agentVars, live, slot, policy, tried, intVars>>

RunTurn(c) ==
  \/ LookUp(c) \/ TakeSlot(c) \/ Reject(c) \/ Steer(c) \/ SteerAccepted(c)
  \/ SteerRefused(c) \/ Wait(c) \/ WakeUp(c) \/ Mark(c) \/ Send(c)
  \/ Stream(c) \/ EngineGone(c) \/ GiveBack(c) \/ ClearCurrent(c)

-----------------------------------------------------------------------------
(* session.interrupt, and the end of the session.                          *)

\* Under the sessions lock: is a turn running?
InterruptRead(i) ==
  /\ ipc[i] = "read"
  /\ IF live /\ current # None
     THEN ipc' = [ipc EXCEPT ![i] = "send"] /\ target' = [target EXCEPT ![i] = current]
     ELSE ipc' = [ipc EXCEPT ![i] = "done"] /\ UNCHANGED target
  /\ UNCHANGED <<agentVars, poolVars, callVars>>

InterruptSend(i) ==
  /\ ipc[i] = "send"
  /\ Deliver(CancelMsg)
  /\ ipc' = [ipc EXCEPT ![i] = "done"]
  /\ UNCHANGED <<demux, fwd, events, phase, turn, outcome, cancelled, stopped,
                 steps, accepting, pending, accepted, returned, mem, saved,
                 seen, poolVars, callVars, target>>

\* Eviction, session.close, shutdown: the entry leaves the map and the token
\* passed to Agent::run is cancelled, and with it the running turn's.
RemoveSession ==
  /\ live
  /\ live' = FALSE
  /\ stopped' = TRUE
  /\ cancelled' = (cancelled \/ turn # None)
  /\ UNCHANGED <<input, demux, fwd, events, phase, turn, outcome, steps,
                 accepting, pending, ack, accepted, returned, mem, saved, seen,
                 slot, current, callVars, intVars>>

Engine == (AgentLoopStep \/ Demultiplex) /\ UNCHANGED <<poolVars, callVars, intVars>>

AllDone ==
  /\ \A c \in Calls : pc[c] = "done"
  /\ \A i \in Interrupts : ipc[i] = "done"
  /\ UNCHANGED vars

Next ==
  \/ \E c \in Calls : RunTurn(c) \/ SteerTimeout(c)
  \/ \E i \in Interrupts : InterruptRead(i) \/ InterruptSend(i)
  \/ RemoveSession
  \/ Engine
  \/ AllDone

Spec == Init /\ [][Next]_vars

(***************************************************************************)
(* Every task that can run is polled again: run_turn calls, interrupts,    *)
(* the demultiplexer and the loop.  A model call and a tool end (TurnStep  *)
(* is fair in "model").  Nobody is obliged to evict the session, and a     *)
(* Steer need not time out.                                                *)
(***************************************************************************)
FairSpec ==
  /\ Spec
  /\ \A c \in Calls : WF_vars(RunTurn(c))
  /\ \A i \in Interrupts : WF_vars(InterruptRead(i) \/ InterruptSend(i))
  /\ WF_vars(AgentLoopStep /\ UNCHANGED <<poolVars, callVars, intVars>>)
  /\ WF_vars(Demultiplex /\ UNCHANGED <<poolVars, callVars, intVars>>)

-----------------------------------------------------------------------------
(* Properties.                                                             *)

Count(c, s) == Cardinality({k \in DOMAIN s : s[k] = c})
One(b) == IF b THEN 1 ELSE 0

(***************************************************************************)
(* While event_rx is in its place the engine is at rest: no turn runs, no  *)
(* user message is on its way, no terminal event is left for the next      *)
(* caller to mistake for its own, and the transcript is on disk, or the    *)
(* last persist tried to write it and failed.  This is what finish_turn's  *)
(* "persist, then announce" is for: the daemon hands the session to the    *)
(* next caller on TurnComplete and may rebuild it from the transcript      *)
(* straight away.                                                          *)
(***************************************************************************)
FreeSlotIsQuiet ==
  slot = None =>
    /\ turn = None /\ fwd = <<>> /\ events = <<>>
    /\ \A k \in DOMAIN input : input[k].kind # "user"
    /\ saved # "no"

(***************************************************************************)
(* A caller is never answered with the end of somebody else's turn:        *)
(* run_turn does not compare turn ids, so the terminal event it reads must *)
(* be its own, and the only one in the channel.                            *)
(***************************************************************************)
OwnTurnEnds ==
  events # <<>> => Len(events) = 1 /\ slot = events[1].turn /\ pc[slot] = "stream"

(***************************************************************************)
(* A call answered SESSION_BUSY left no trace: its message is in no queue  *)
(* and in no transcript.                                                   *)
(***************************************************************************)
RejectedIsNotRead ==
  \A c \in Calls : answer[c] = "busy" =>
    /\ \A k \in DOMAIN input : input[k].id # c
    /\ c \notin ToSet(fwd) /\ c \notin ToSet(pending)
    /\ \A k \in DOMAIN mem : mem[k].id # c

(***************************************************************************)
(* A message a turn accepted is queued, in the conversation or handed back,*)
(* and exactly one of these, once: never stranded, never doubled.          *)
(***************************************************************************)
SteeredOnceOrReturned ==
  \A c \in Calls :
    Count(c, pending) + Count(SteerMsg(c), mem) + One(c \in returned) = One(c \in accepted)

(***************************************************************************)
(* Between turns the steering queue is closed and empty: a message cannot  *)
(* be accepted on behalf of a turn that has passed its last boundary.      *)
(***************************************************************************)
NothingStranded == phase \notin TurnPhases => ~accepting /\ pending = <<>>

(***************************************************************************)
(* Types, and where a message may be: nowhere if its call was rejected, in *)
(* one place once if a turn accepted it, never in a queue that no turn     *)
(* reads any more.                                                         *)
(***************************************************************************)
TurnsInv == TypeOK /\ RejectedIsNotRead /\ SteeredOnceOrReturned /\ NothingStranded

(***************************************************************************)
(* A message a running turn accepted is, in the end, delivered into the    *)
(* conversation or handed back to its sender; whether a model call is sent *)
(* a message that was delivered is another matter (DeliveredIsRead).       *)
(***************************************************************************)
AcceptedIsSettled ==
  \A c \in Calls : (c \in accepted) ~> (SteerMsg(c) \in ToSet(mem) \/ c \in returned)

(***************************************************************************)
(* Every run_turn is answered, whatever the others do, interrupts, steers  *)
(* and the removal of the session included.                                *)
(***************************************************************************)
EveryCallAnswered == \A c \in Calls : <>(pc[c] = "done")

(***************************************************************************)
(* What clear_current_turn's comment says: "busy" is exactly "someone      *)
(* holds the channel".  A call that streams a turn is the current turn.    *)
(***************************************************************************)
BusyIsHeld == \A c \in Calls : live /\ pc[c] = "stream" => current = c

(***************************************************************************)
(* What the protocol document says of session.interrupt: it cancels the    *)
(* current turn.  Once its CancelTurn was handled, the turn it was         *)
(* answered `interrupted: true` for does not run on an uncancelled token.  *)
(***************************************************************************)
InterruptLands ==
  \A i \in Interrupts :
    ipc[i] = "done" /\ target[i] # None /\ CancelMsg \notin ToSet(input)
      => (turn = target[i] => cancelled)

(***************************************************************************)
(* What finish_turn's comment says a host may take TurnComplete for: the   *)
(* transcript is on disk.  It is not when persist failed.                  *)
(***************************************************************************)
AnnouncedIsOnDisk == slot = None => saved = "yes"

(***************************************************************************)
(* What the protocol document says of a steered message: a turn that ended *)
(* before reading it hands it back and keeps it out of the transcript.  So *)
(* no turn ends with a steered message its model was never sent.           *)
(***************************************************************************)
DeliveredIsRead ==
  phase = "finish" => \A k \in (seen + 1)..Len(mem) : mem[k].kind # "steer"

(***************************************************************************)
(* What run_turn's comment says when a steer is not acknowledged: the turn *)
(* is past its last step and the message waits for the next turn instead.  *)
(* So no message both joins a running turn and starts one of its own.      *)
(***************************************************************************)
SteerOrTurn == turn # None => turn \notin accepted
=============================================================================

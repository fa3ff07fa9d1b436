----------------------------- MODULE AgentLoop -----------------------------
(***************************************************************************)
(* The engine of one session: Agent::run with its input demultiplexer, the *)
(* turn loop it drives (process_turn, run_user_turn) and the queue of      *)
(* messages a user sends while a turn is running (SteerQueue).             *)
(*                                                                         *)
(* Three things run concurrently: the demultiplexer task, the turn loop,   *)
(* and whoever holds the input channel (module SessionTurns).  They share  *)
(* the input channel, the forwarding channel, the token of the current     *)
(* turn and the steering queue; the turn loop alone touches the transcript.*)
(*                                                                         *)
(* A message is named by the run_turn call that sent it, which is also the *)
(* id of the turn it starts.  Of the conversation, mem keeps the messages  *)
(* users sent, in order; replies and tool results only leave something to  *)
(* write until the next persist, whose failure is logged and no more.      *)
(* Compaction, which rewrites the conversation, belongs to another module. *)
(***************************************************************************)
EXTENDS Naturals, Sequences, SequencesExt

CONSTANTS
  Calls,      \* run_turn calls: message ids and turn ids
  MaxSteps,   \* model calls a turn may make (the limits policy)
  None

ASSUME AgentAssumption == None \notin Calls /\ MaxSteps \in Nat \ {0}

VARIABLES
  input,      \* the session's input channel
  demux,      \* the demultiplexer task: "unborn", "running" or "gone"
  fwd,        \* what the demultiplexer forwarded to the loop
  events,     \* terminal events on the event channel
  phase,      \* where the loop is
  turn,       \* current_turn_id while a turn runs
  outcome,    \* how run_user_turn_inner returned
  cancelled,  \* current_turn_cancel: the token of the last started turn
  stopped,    \* the token given to Agent::run
  steps,      \* api_calls of the running turn
  accepting,  \* SteerQueue.accepting
  pending,    \* SteerQueue.pending
  ack,        \* the one-shot reply to each Steer
  accepted,   \* history: messages some turn accepted
  returned,   \* history: messages handed back by UserMessagesReturned
  mem,        \* session.messages: what users sent
  saved,      \* the transcript is on disk, is not, or is not because the last persist failed
  seen        \* history: how much of mem the last model call was sent

agentVars == <<input, demux, fwd, events, phase, turn, outcome, cancelled,
               stopped, steps, accepting, pending, ack, accepted, returned,
               mem, saved, seen>>

UserMsg(c)  == [kind |-> "user", id |-> c]
SteerMsg(c) == [kind |-> "steer", id |-> c]
CancelMsg   == [kind |-> "cancel", id |-> None]

Messages ==
  {UserMsg(c) : c \in Calls} \cup {SteerMsg(c) : c \in Calls} \cup {CancelMsg}

Entries == [kind : {"user", "steer"}, id : Calls]

Phases == {"starting", "idle", "submit", "top", "model", "boundary", "last",
           "close", "finish", "exited"}

TurnPhases == Phases \ {"starting", "idle", "exited"}

Saves == {"yes", "no", "failed"}

AgentTypeOK ==
  /\ input \in Seq(Messages)
  /\ demux \in {"unborn", "running", "gone"}
  /\ fwd \in Seq(Calls)
  /\ events \in Seq([kind : {"complete", "error"}, turn : Calls])
  /\ phase \in Phases
  /\ turn \in Calls \cup {None}
  /\ outcome \in {"none", "ok", "cancelled", "stopped", "error"}
  /\ cancelled \in BOOLEAN /\ stopped \in BOOLEAN /\ accepting \in BOOLEAN
  /\ steps \in 0..MaxSteps
  /\ pending \in Seq(Calls)
  /\ ack \in [Calls -> {"none", "waiting", "accepted", "refused"}]
  /\ accepted \subseteq Calls /\ returned \subseteq Calls
  /\ mem \in Seq(Entries)
  /\ saved \in Saves /\ seen \in 0..Len(mem)

AgentInit ==
  /\ input = <<>> /\ demux = "unborn" /\ fwd = <<>> /\ events = <<>>
  /\ phase = "starting" /\ turn = None /\ outcome = "none"
  /\ cancelled = FALSE /\ stopped = FALSE /\ steps = 0
  /\ accepting = FALSE /\ pending = <<>>
  /\ ack = [c \in Calls |-> "none"]
  /\ accepted = {} /\ returned = {}
  /\ mem = <<>> /\ saved = "yes" /\ seen = 0

-----------------------------------------------------------------------------
(* Start-up and the demultiplexer.                                         *)

(***************************************************************************)
(* SystemInit, the lifecycle hooks, orphaned permissions and the warm-up   *)
(* run before the demultiplexer is spawned; until then nothing reads the   *)
(* input channel.                                                          *)
(***************************************************************************)
StartUp ==
  /\ phase = "starting"
  /\ phase' = "idle"
  /\ demux' = "running"
  /\ UNCHANGED <<input, fwd, events, turn, outcome, cancelled, stopped, steps,
                 accepting, pending, ack, accepted, returned, mem, saved, seen>>

\* What input_tx.send does once the receiver is gone: nothing, and a Steer's
\* one-shot is dropped with the message.
Deliver(m) ==
  /\ input' = IF demux = "gone" THEN input ELSE Append(input, m)
  /\ ack' = IF m.kind = "steer"
            THEN [ack EXCEPT ![m.id] =
                    IF demux = "gone" THEN "refused" ELSE "waiting"]
            ELSE ack

\* Mutant: the offer does not look at `accepting`.
OfferAlways(c) ==
  /\ pending' = Append(pending, c)
  /\ ack' = [ack EXCEPT ![c] = IF @ = "waiting" THEN "accepted" ELSE @]
  /\ accepted' = accepted \cup {c}

(***************************************************************************)
(* SteerQueue::offer and the acknowledgement.  One whose sender has timed  *)
(* out is queued all the same.                                             *)
(***************************************************************************)
Offer(c) ==
  IF accepting
  THEN /\ pending' = Append(pending, c)
       /\ ack' = [ack EXCEPT ![c] = IF @ = "waiting" THEN "accepted" ELSE @]
       /\ accepted' = accepted \cup {c}
  ELSE /\ ack' = [ack EXCEPT ![c] = IF @ = "waiting" THEN "refused" ELSE @]
       /\ UNCHANGED <<pending, accepted>>

DemuxSteer ==
  /\ demux = "running" /\ input # <<>> /\ Head(input).kind = "steer"
  /\ Offer(Head(input).id)
  /\ input' = Tail(input)
  /\ UNCHANGED <<demux, fwd, events, phase, turn, outcome, cancelled, stopped,
                 steps, accepting, returned, mem, saved, seen>>

DemuxCancel ==
  /\ demux = "running" /\ input # <<>> /\ Head(input).kind = "cancel"
  /\ input' = Tail(input)
  /\ cancelled' = TRUE
  /\ UNCHANGED <<demux, fwd, events, phase, turn, outcome, stopped, steps,
                 accepting, pending, ack, accepted, returned, mem, saved, seen>>

DemuxForward ==
  /\ demux = "running" /\ input # <<>> /\ Head(input).kind = "user"
  /\ phase # "exited"
  /\ input' = Tail(input)
  /\ fwd' = Append(fwd, Head(input).id)
  /\ UNCHANGED <<demux, events, phase, turn, outcome, cancelled, stopped,
                 steps, accepting, pending, ack, accepted, returned, mem,
                 saved, seen>>

(***************************************************************************)
(* The loop has exited, so the forward fails and the task ends: the rest   *)
(* of the channel is dropped, one-shots included.                          *)
(***************************************************************************)
DemuxEnds ==
  /\ demux = "running" /\ input # <<>> /\ Head(input).kind = "user"
  /\ phase = "exited"
  /\ demux' = "gone"
  /\ input' = <<>>
  /\ ack' = [c \in Calls |->
               IF ack[c] = "waiting" /\ SteerMsg(c) \in ToSet(input)
               THEN "refused" ELSE ack[c]]
  /\ UNCHANGED <<fwd, events, phase, turn, outcome, cancelled, stopped, steps,
                 accepting, pending, accepted, returned, mem, saved, seen>>

-----------------------------------------------------------------------------
(* The loop: one turn at a time.                                           *)

(***************************************************************************)
(* The session token was cancelled: leave the loop.  What was forwarded    *)
(* and not started is dropped with the channel.                            *)
(***************************************************************************)
ExitLoop ==
  /\ phase = "idle" /\ stopped
  /\ phase' = "exited"
  /\ fwd' = <<>>
  /\ UNCHANGED <<input, demux, events, turn, outcome, cancelled, stopped,
                 steps, accepting, pending, ack, accepted, returned, mem,
                 saved, seen>>

(***************************************************************************)
(* The loop takes the next message: a fresh child token, then process_turn.*)
(* A local slash command (/help, /clear, ...) goes straight to finish_turn;*)
(* any other message opens the steering queue and runs the model.          *)
(***************************************************************************)
BeginTurn(local) ==
  /\ phase = "idle" /\ fwd # <<>>
  /\ turn' = Head(fwd)
  /\ fwd' = Tail(fwd)
  /\ cancelled' = stopped
  /\ steps' = 0
  /\ accepting' = ~local
  /\ phase' = IF local THEN "finish" ELSE "submit"
  /\ outcome' = IF local THEN "ok" ELSE "none"
  /\ UNCHANGED <<input, demux, events, stopped, pending, ack, accepted,
                 returned, mem, saved, seen>>

\* run_user_turn_inner returns o
Return(o) == phase' = "close" /\ outcome' = o

\* A UserPromptSubmit hook refuses the message: it is never pushed.
PromptBlocked ==
  /\ phase = "submit"
  /\ Return("stopped")
  /\ UNCHANGED <<input, demux, fwd, events, turn, cancelled, stopped, steps,
                 accepting, pending, ack, accepted, returned, mem, saved, seen>>

(***************************************************************************)
(* Turn set-up (skills, frozen context, instructions, reminders, memory    *)
(* recall) and the push of the user's message.                             *)
(***************************************************************************)
PushUserMessage ==
  /\ phase = "submit"
  /\ mem' = Append(mem, UserMsg(turn))
  /\ saved' = "no"
  /\ phase' = "top"
  /\ UNCHANGED <<input, demux, fwd, events, turn, outcome, cancelled, stopped,
                 steps, accepting, pending, ack, accepted, returned, seen>>

\* session.persist() of a transcript in state s: with nothing to write it does nothing, and a
\* store that fails is warned of.
Persist(s) == saved' \in IF s = "yes" THEN {"yes"} ELSE {"yes", "failed"}

(***************************************************************************)
(* The top of the loop persists, then looks at the token, the turn policy  *)
(* and the hard cap.                                                       *)
(***************************************************************************)
TopStops ==
  /\ phase = "top"
  /\ Persist(saved)
  /\ IF cancelled THEN Return("cancelled") ELSE Return("stopped")
  /\ UNCHANGED <<input, demux, fwd, events, turn, cancelled, stopped, steps,
                 accepting, pending, ack, accepted, returned, mem, seen>>

\* None of them objects: the next step, "from a transcript that is on disk", if persist succeeded.
CallModel ==
  /\ phase = "top" /\ ~cancelled /\ steps < MaxSteps
  /\ Persist(saved)
  /\ steps' = steps + 1
  /\ seen' = Len(mem)
  /\ phase' = "model"
  /\ UNCHANGED <<input, demux, fwd, events, turn, outcome, cancelled, stopped,
                 accepting, pending, ack, accepted, returned, mem>>

(***************************************************************************)
(* The call, and the retries the recovery policy allows, failed; or the    *)
(* stream broke off, in which case what had arrived is in the transcript.  *)
(***************************************************************************)
ModelFails(partial) ==
  /\ phase = "model"
  /\ saved' = IF partial THEN "no" ELSE saved
  /\ Return("error")
  /\ UNCHANGED <<input, demux, fwd, events, turn, cancelled, stopped, steps,
                 accepting, pending, ack, accepted, returned, mem, seen>>

(***************************************************************************)
(* The reply asked for tools.  execute_stream wrote the reply and, next to *)
(* it, the message with every result; both are persisted before the hooks, *)
(* the policy and the budget are asked whether the turn goes on.           *)
(***************************************************************************)
ToolReply(goesOn) ==
  /\ phase = "model"
  /\ Persist("no")
  /\ IF goesOn THEN phase' = "boundary" /\ UNCHANGED outcome ELSE Return("stopped")
  /\ UNCHANGED <<input, demux, fwd, events, turn, cancelled, stopped, steps,
                 accepting, pending, ack, accepted, returned, mem, seen>>

(***************************************************************************)
(* The reply asked for no tools (or a cancelled stream stopped before any).*)
(* Hooks, the policy or the budget may end the turn here; an output limit  *)
(* or an output target may send it round again; otherwise it is at its     *)
(* last boundary.                                                          *)
(***************************************************************************)
TextReply(then) ==
  /\ phase = "model"
  /\ Persist("no")
  /\ IF then = "close" THEN Return("stopped") ELSE phase' = then /\ UNCHANGED outcome
  /\ UNCHANGED <<input, demux, fwd, events, turn, cancelled, stopped, steps,
                 accepting, pending, ack, accepted, returned, mem, seen>>

\* deliver_queued_user_messages: everything queued joins the conversation.
DeliverQueued ==
  /\ mem' = mem \o [k \in 1..Len(pending) |-> SteerMsg(pending[k])]
  /\ saved' = IF pending # <<>> THEN "no" ELSE saved
  /\ pending' = <<>>

(***************************************************************************)
(* A step boundary: what the user sent meanwhile is delivered, unless the  *)
(* turn is being cancelled.                                                *)
(***************************************************************************)
StepBoundary ==
  /\ phase = "boundary"
  /\ IF cancelled THEN UNCHANGED <<mem, saved, pending>> ELSE DeliverQueued
  /\ phase' = "top"
  /\ UNCHANGED <<input, demux, fwd, events, turn, outcome, cancelled, stopped,
                 steps, accepting, ack, accepted, returned, seen>>

(***************************************************************************)
(* The last boundary, take_or_close: deliver what is queued and go round   *)
(* again, or stop accepting in the same breath.                            *)
(***************************************************************************)
LastBoundary ==
  /\ phase = "last"
  /\ IF pending # <<>>
     THEN DeliverQueued /\ phase' = "top" /\ UNCHANGED <<accepting, outcome>>
     ELSE accepting' = FALSE /\ Return("ok") /\ UNCHANGED <<mem, saved, pending>>
  /\ UNCHANGED <<input, demux, fwd, events, turn, cancelled, stopped, steps,
                 ack, accepted, returned, seen>>

\* Mutant: the queue is closed without reading what is left in it.
CloseForgets ==
  /\ phase = "close"
  /\ accepting' = FALSE
  /\ pending' = <<>>
  /\ phase' = "finish"
  /\ UNCHANGED <<input, demux, fwd, events, turn, outcome, cancelled, stopped,
                 steps, ack, accepted, returned, mem, saved, seen>>

\* Mutant: what is left in the queue stays there for a later turn.
CloseLeavesQueue ==
  /\ phase = "close"
  /\ accepting' = FALSE
  /\ phase' = "finish"
  /\ UNCHANGED <<input, demux, fwd, events, turn, outcome, cancelled, stopped,
                 steps, pending, ack, accepted, returned, mem, saved, seen>>

(***************************************************************************)
(* run_user_turn after its body: close the queue and hand back the rest.   *)
(***************************************************************************)
CloseSteering ==
  /\ phase = "close"
  /\ accepting' = FALSE
  /\ pending' = <<>>
  /\ returned' = returned \cup ToSet(pending)
  /\ phase' = "finish"
  /\ UNCHANGED <<input, demux, fwd, events, turn, outcome, cancelled, stopped,
                 steps, ack, accepted, mem, saved, seen>>

TerminalEvent ==
  [kind |-> IF outcome = "error" THEN "error" ELSE "complete", turn |-> turn]

\* Mutant: announce without persisting.
FinishAnnouncesFirst ==
  /\ phase = "finish"
  /\ events' = Append(events, TerminalEvent)
  /\ phase' = "idle" /\ turn' = None /\ outcome' = "none"
  /\ UNCHANGED <<input, demux, fwd, cancelled, stopped, steps, accepting,
                 pending, ack, accepted, returned, mem, saved, seen>>

(***************************************************************************)
(* finish_turn: persist, then announce, also when persist failed.  A turn  *)
(* that failed is announced by Agent::run as an Error event instead of     *)
(* TurnComplete.                                                           *)
(***************************************************************************)
FinishTurn ==
  /\ phase = "finish"
  /\ Persist(saved)
  /\ events' = Append(events, TerminalEvent)
  /\ phase' = "idle" /\ turn' = None /\ outcome' = "none"
  /\ UNCHANGED <<input, demux, fwd, cancelled, stopped, steps, accepting,
                 pending, ack, accepted, returned, mem, seen>>

Demultiplex == DemuxSteer \/ DemuxCancel \/ DemuxForward \/ DemuxEnds

TurnStep ==
  \/ PromptBlocked \/ PushUserMessage \/ TopStops \/ CallModel
  \/ \E b \in BOOLEAN : ModelFails(b) \/ ToolReply(b)
  \/ \E t \in {"top", "last", "close"} : TextReply(t)
  \/ StepBoundary \/ LastBoundary \/ CloseSteering \/ FinishTurn

AgentLoopStep == StartUp \/ ExitLoop \/ (\E l \in BOOLEAN : BeginTurn(l)) \/ TurnStep
=============================================================================

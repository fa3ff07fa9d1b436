------------------------- MODULE SessionTurnsProofs -------------------------
(***************************************************************************)
(* Proofs about module SessionTurns, and with it about the engine of       *)
(* module AgentLoop, for every number of calls and interrupts.  Two        *)
(* arguments carry them.  The slot's holder has at most one message on its *)
(* way: in the input channel, forwarded, running as a turn, or answered by *)
(* a terminal event.  And a call steers at most once, so that its message  *)
(* has one place: the channel, the queue, the conversation, or returned.   *)
(***************************************************************************)
EXTENDS SessionTurns, FiniteSetTheorems, TLAPS

-----------------------------------------------------------------------------
(* Types.                                                                  *)

\* A turn has an id exactly while one runs.
TurnRuns == turn # None <=> phase \in TurnPhases

TypeInv == TypeOK /\ TurnRuns

-----------------------------------------------------------------------------
(* The holder of the slot and its one message.                             *)

\* No user message is in the input channel.
NoUser == \A k \in DOMAIN input : input[k].kind # "user"

\* The one user message in the input channel is the one of call c.
OneUser(c) ==
  \E k \in DOMAIN input :
    /\ input[k] = UserMsg(c)
    /\ \A j \in DOMAIN input : input[j].kind = "user" => j = k

\* Nothing is on its way ...
Quiet == NoUser /\ fwd = <<>> /\ turn = None /\ events = <<>>

\* ... or the message of call c is, in one of four places.
OnItsWay(c) ==
  \/ OneUser(c) /\ fwd = <<>> /\ turn = None /\ events = <<>>
  \/ NoUser /\ fwd = <<c>> /\ turn = None /\ events = <<>>
  \/ NoUser /\ fwd = <<>> /\ turn = c /\ events = <<>>
  \/ NoUser /\ fwd = <<>> /\ turn = None /\ Len(events) = 1 /\ events[1].turn = c

HolderStages == {"mark", "send", "stream", "giveback"}

\* The engine is gone and its last holder kept the slot.
Abandoned == pc[slot] = "done" /\ phase = "exited" /\ events = <<>>

HolderInv ==
  /\ \A c \in Calls : pc[c] \in HolderStages => slot = c
  /\ slot # None => pc[slot] \in HolderStages \/ Abandoned
  /\ Quiet \/ (slot # None /\ OnItsWay(slot) /\ (pc[slot] = "stream" \/ Abandoned))
  /\ saved = "no" => turn # None
  /\ phase = "exited" => fwd = <<>>

-----------------------------------------------------------------------------
(* The steering queue.                                                     *)

\* It is open only in a turn that has not closed it.
QueueInv == phase \notin TurnPhases \ {"finish"} => ~accepting /\ pending = <<>>

-----------------------------------------------------------------------------
(* Who sent what.                                                          *)

\* Call c took the slot and sent its message.
Sent(c) == pc[c] \in {"stream", "giveback", "clear", "done"} /\ answer[c] # "busy"

\* Whoever has a message somewhere has sent one.
FromSender(m) ==
  /\ m.kind = "steer" => m.id \in tried
  /\ m.kind = "user" => Sent(m.id)

SenderInv ==
  /\ \A k \in DOMAIN input : FromSender(input[k])
  /\ \A k \in DOMAIN mem : FromSender(mem[k])
  /\ \A k \in DOMAIN fwd : Sent(fwd[k])
  /\ turn # None => Sent(turn)
  /\ \A k \in DOMAIN pending : pending[k] \in tried
  /\ \A c \in tried : policy[c] = "steer"
  /\ \A c \in Calls : answer[c] = "busy" => policy[c] = "reject" /\ pc[c] = "done"

-----------------------------------------------------------------------------
(* A steered message has one place.                                        *)

Absent(x, s) == \A k \in DOMAIN s : s[k] # x
Once(x, s) == \E k \in DOMAIN s : \A j \in DOMAIN s : s[j] = x <=> j = k

\* Nowhere, in the queue, in the conversation, or handed back.
Nowhere(c)  == Absent(c, pending) /\ Absent(SteerMsg(c), mem) /\ c \notin returned
Queued(c)   == Once(c, pending) /\ Absent(SteerMsg(c), mem) /\ c \notin returned
Read(c)     == Absent(c, pending) /\ Once(SteerMsg(c), mem) /\ c \notin returned
Returned(c) == Absent(c, pending) /\ Absent(SteerMsg(c), mem) /\ c \in returned

OnePlace(c) ==
  /\ c \notin accepted => Nowhere(c)
  /\ c \in accepted => Queued(c) \/ Read(c) \/ Returned(c)
  /\ Absent(SteerMsg(c), input) \/ (Once(SteerMsg(c), input) /\ c \notin accepted)
  /\ c \notin tried => Absent(SteerMsg(c), input) /\ c \notin accepted

SteerInv == \A c \in Calls : OnePlace(c)

-----------------------------------------------------------------------------
(* Types hold.                                                             *)

\* The first message of a channel, and what is left of it.
LEMMA HeadTail ==
  ASSUME NEW S, NEW s \in Seq(S), s # <<>>
  PROVE  /\ Head(s) \in S /\ Tail(s) \in Seq(S) /\ Head(s) = s[1]
         /\ Len(s) \in Nat \ {0} /\ Len(Tail(s)) = Len(s) - 1
         /\ \A k \in 1..Len(Tail(s)) : Tail(s)[k] = s[k + 1]
OBVIOUS

\* What the kinds of messages are, and what they carry.
LEMMA MessageKinds ==
  /\ \A c \in Calls : /\ UserMsg(c) \in Messages /\ SteerMsg(c) \in Messages
                      /\ UserMsg(c) \in Entries /\ SteerMsg(c) \in Entries
  /\ CancelMsg \in Messages
  /\ \A m \in Messages : m.kind \in {"user", "steer"} => m.id \in Calls
<1>1. \A c \in Calls : UserMsg(c) \in Messages /\ SteerMsg(c) \in Messages
  BY DEF Messages
<1>2. \A c \in Calls : UserMsg(c) \in Entries /\ SteerMsg(c) \in Entries
  BY DEF Entries, UserMsg, SteerMsg
<1>3. \A m \in Messages : m.kind \in {"user", "steer"} => m.id \in Calls
  BY DEF Messages, UserMsg, SteerMsg, CancelMsg
<1>. QED
  BY <1>1, <1>2, <1>3 DEF Messages

\* Everything that is sent is a message, and only a Steer touches its one-shot.
LEMMA DeliverTyped ==
  ASSUME TypeInv, NEW m \in Messages, Deliver(m)
  PROVE  /\ input' \in Seq(Messages)
         /\ ack' \in [Calls -> {"none", "waiting", "accepted", "refused"}]
BY MessageKinds DEF Deliver, TypeInv, TypeOK, AgentTypeOK

\* The queue joins the conversation.
LEMMA DeliverQueuedTyped ==
  ASSUME TypeInv, DeliverQueued
  PROVE  /\ mem' \in Seq(Entries) /\ pending' \in Seq(Calls) /\ saved' \in Saves
         /\ Len(mem') \in Nat /\ Len(mem) <= Len(mem')
<1>. DEFINE q == [k \in 1..Len(pending) |-> SteerMsg(pending[k])]
<1>1. q \in Seq(Entries)
  BY MessageKinds DEF TypeInv, TypeOK, AgentTypeOK
<1>2. mem \in Seq(Entries) /\ mem' = mem \o q /\ pending' = <<>>
  BY DEF DeliverQueued, TypeInv, TypeOK, AgentTypeOK
<1>3. saved' \in Saves
  BY DEF DeliverQueued, Saves, TypeInv, TypeOK, AgentTypeOK
<1>. HIDE DEF q
<1>. QED
  BY <1>1, <1>2, <1>3

\* A step of the engine.
LEMMA EngineTyped ==
  ASSUME TypeInv, Engine
  PROVE  TypeInv'
<1>. USE AgentAssumption DEF TypeInv, TypeOK, AgentTypeOK, TurnRuns
<1>0. UNCHANGED <<live, slot, current, policy, pc, tried, answer, ipc, target>>
  BY DEF Engine, poolVars, callVars, intVars
<1>1. CASE StartUp
  BY <1>0, <1>1 DEF StartUp, Phases, TurnPhases
<1>2. CASE ExitLoop
  BY <1>0, <1>2 DEF ExitLoop, Phases, TurnPhases
<1>3. ASSUME NEW l \in BOOLEAN, BeginTurn(l) PROVE TypeInv'
  BY <1>0, <1>3, HeadTail DEF BeginTurn, Phases, TurnPhases
<1>4. CASE PromptBlocked
  BY <1>0, <1>4 DEF PromptBlocked, Return, Phases, TurnPhases
<1>5. CASE PushUserMessage
  BY <1>0, <1>5, MessageKinds DEF PushUserMessage, Saves, Phases, TurnPhases
<1>6. CASE TopStops
  BY <1>0, <1>6 DEF TopStops, Persist, Saves, Return, Phases, TurnPhases
<1>7. CASE CallModel
  <2>1. phase = "top" /\ phase' = "model" /\ steps' \in 0..MaxSteps /\ seen' \in 0..Len(mem')
    BY <1>7 DEF CallModel
  <2>2. /\ saved' \in Saves
        /\ UNCHANGED <<input, demux, fwd, events, turn, outcome, cancelled, stopped,
                       accepting, pending, ack, accepted, returned, mem>>
    BY <1>7 DEF CallModel, Persist, Saves
  <2>. QED
    BY ZenonT(40), <1>0, <2>1, <2>2 DEF Phases, TurnPhases
<1>8. ASSUME NEW b \in BOOLEAN, ModelFails(b) \/ ToolReply(b) PROVE TypeInv'
  <2>1. /\ phase = "model" /\ phase' \in {"close", "boundary"} /\ saved' \in Saves
        /\ outcome' \in {outcome, "error", "stopped"}
        /\ UNCHANGED <<input, demux, fwd, events, turn, cancelled, stopped, steps,
                       accepting, pending, ack, accepted, returned, mem, seen>>
    BY <1>8 DEF ModelFails, ToolReply, Return, Persist, Saves
  <2>. QED
    BY <1>0, <2>1 DEF Phases, TurnPhases
<1>9. ASSUME NEW t \in {"top", "last", "close"}, TextReply(t) PROVE TypeInv'
  <2>1. /\ phase = "model" /\ phase' \in {"top", "last", "close"} /\ saved' \in Saves
        /\ outcome' \in {outcome, "stopped"}
        /\ UNCHANGED <<input, demux, fwd, events, turn, cancelled, stopped, steps,
                       accepting, pending, ack, accepted, returned, mem, seen>>
    BY <1>9 DEF TextReply, Return, Persist, Saves
  <2>2. phase' \in Phases /\ TurnRuns'
    BY <2>1 DEF Phases, TurnPhases
  <2>3. /\ outcome' \in {"none", "ok", "cancelled", "stopped", "error"}
        /\ saved' \in Saves /\ seen' \in 0..Len(mem')
    BY <2>1
  <2>. QED
    BY <1>0, <2>1, <2>2, <2>3
<1>10. CASE StepBoundary
  <2>1. /\ mem' \in Seq(Entries) /\ pending' \in Seq(Calls) /\ saved' \in Saves
        /\ seen \in 0..Len(mem')
    <3>1. CASE DeliverQueued
      <4>1. /\ mem' \in Seq(Entries) /\ pending' \in Seq(Calls) /\ saved' \in Saves
            /\ Len(mem') \in Nat /\ Len(mem) <= Len(mem')
        BY <3>1, DeliverQueuedTyped
      <4>. QED
        BY <4>1
    <3>2. CASE UNCHANGED <<mem, saved, pending>>
      BY <3>2
    <3>. QED
      BY <1>10, <3>1, <3>2 DEF StepBoundary
  <2>2. /\ phase = "boundary" /\ phase' = "top"
        /\ UNCHANGED <<input, demux, fwd, events, turn, outcome, cancelled, stopped,
                       steps, accepting, ack, accepted, returned, seen>>
    BY <1>10 DEF StepBoundary
  <2>. QED
    BY <1>0, <2>1, <2>2 DEF Phases, TurnPhases
<1>11. CASE LastBoundary
  <2>1. /\ mem' \in Seq(Entries) /\ pending' \in Seq(Calls) /\ saved' \in Saves
        /\ seen \in 0..Len(mem')
    <3>1. CASE DeliverQueued
      <4>1. /\ mem' \in Seq(Entries) /\ pending' \in Seq(Calls) /\ saved' \in Saves
            /\ Len(mem') \in Nat /\ Len(mem) <= Len(mem')
        BY <3>1, DeliverQueuedTyped
      <4>. QED
        BY <4>1
    <3>2. CASE UNCHANGED <<mem, saved, pending>>
      BY <3>2
    <3>. QED
      BY <1>11, <3>1, <3>2 DEF LastBoundary
  <2>2. /\ phase = "last" /\ phase' \in {"top", "close"} /\ accepting' \in BOOLEAN
        /\ outcome' \in {outcome, "ok"}
        /\ UNCHANGED <<input, demux, fwd, events, turn, cancelled, stopped,
                       steps, ack, accepted, returned, seen>>
    BY <1>11 DEF LastBoundary, Return
  <2>. QED
    BY <1>0, <2>1, <2>2 DEF Phases, TurnPhases
<1>12. CASE CloseSteering
  <2>1. pending' \in Seq(Calls) /\ returned' \subseteq Calls
    BY <1>12 DEF CloseSteering, ToSet
  <2>. QED
    BY ZenonT(40), <1>0, <1>12, <2>1 DEF CloseSteering, Phases, TurnPhases
<1>13. CASE FinishTurn
  <2>1. phase = "finish" /\ phase' = "idle" /\ turn \in Calls /\ turn' = None
    BY <1>13 DEF FinishTurn, TurnPhases, Phases
  <2>2. TerminalEvent \in [kind : {"complete", "error"}, turn : Calls]
    BY <2>1 DEF TerminalEvent
  <2>3. events' \in Seq([kind : {"complete", "error"}, turn : Calls])
    BY <1>13, <2>2 DEF FinishTurn
  <2>4. /\ saved' \in Saves /\ outcome' = "none"
        /\ UNCHANGED <<input, demux, fwd, cancelled, stopped, steps, accepting,
                       pending, ack, accepted, returned, mem, seen>>
    BY <1>13 DEF FinishTurn, Persist, Saves
  <2>. QED
    BY <1>0, <2>1, <2>3, <2>4 DEF Phases, TurnPhases
<1>14. CASE DemuxSteer
  <2>1. Head(input).id \in Calls /\ input' \in Seq(Messages)
    BY <1>14, HeadTail, MessageKinds DEF DemuxSteer
  <2>2. PICK c \in Calls : c = Head(input).id
    BY <2>1
  <2>3. /\ pending' \in Seq(Calls) /\ accepted' \subseteq Calls
        /\ ack' \in [Calls -> {"none", "waiting", "accepted", "refused"}]
    <3>1. CASE accepting
      <4>1. /\ pending' = Append(pending, c) /\ accepted' = accepted \cup {c}
            /\ ack' = [ack EXCEPT ![c] = IF ack[c] = "waiting" THEN "accepted" ELSE ack[c]]
        BY <1>14, <2>2, <3>1 DEF DemuxSteer, Offer
      <4>. QED
        BY <4>1
    <3>2. CASE ~accepting
      BY ZenonT(40), <1>14, <2>2, <3>2 DEF DemuxSteer, Offer
    <3>. QED
      BY <3>1, <3>2
  <2>. QED
    BY <1>0, <1>14, <2>1, <2>3 DEF DemuxSteer
<1>15. CASE DemuxCancel
  <2>1. input' \in Seq(Messages)
    BY <1>15, HeadTail DEF DemuxCancel
  <2>. QED
    BY <1>0, <1>15, <2>1 DEF DemuxCancel
<1>16. CASE DemuxForward
  <2>1. Head(input).id \in Calls /\ input' \in Seq(Messages)
    BY <1>16, HeadTail, MessageKinds DEF DemuxForward
  <2>2. fwd' \in Seq(Calls)
    BY <1>16, <2>1 DEF DemuxForward
  <2>. QED
    BY <1>0, <1>16, <2>1, <2>2 DEF DemuxForward
<1>17. CASE DemuxEnds
  <2>1. /\ input' \in Seq(Messages)
        /\ ack' \in [Calls -> {"none", "waiting", "accepted", "refused"}]
    BY <1>17 DEF DemuxEnds
  <2>. QED
    BY <1>0, <1>17, <2>1 DEF DemuxEnds
<1>. QED
  BY <1>1, <1>2, <1>3, <1>4, <1>5, <1>6, <1>7, <1>8, <1>9, <1>10, <1>11, <1>12,
     <1>13, <1>14, <1>15, <1>16, <1>17 DEF Engine, AgentLoopStep, TurnStep, Demultiplex

\* A step of a run_turn call, an interrupt or the removal of the session.
LEMMA PoolTyped ==
  ASSUME TypeInv,
         \/ \E c \in Calls : RunTurn(c) \/ SteerTimeout(c)
         \/ \E i \in Interrupts : InterruptRead(i) \/ InterruptSend(i)
         \/ RemoveSession
  PROVE  TypeInv'
<1>. USE AgentAssumption DEF TypeInv, TypeOK, AgentTypeOK, TurnRuns
<1>1. ASSUME NEW c \in Calls, NEW l \in CallStages, Goto(c, l)
      PROVE  pc' \in [Calls -> CallStages] /\ answer' \in [Calls -> Answers]
  BY <1>1 DEF Goto
<1>2. ASSUME NEW c \in Calls, NEW a \in Answers, Answer(c, a)
      PROVE  pc' \in [Calls -> CallStages] /\ answer' \in [Calls -> Answers]
  BY <1>2 DEF Answer, CallStages
<1>3. ASSUME NEW c \in Calls, LookUp(c) PROVE TypeInv'
  <2>1. pc' \in [Calls -> CallStages] /\ answer' \in [Calls -> Answers]
    BY <1>1, <1>2, <1>3 DEF LookUp, CallStages, Answers
  <2>. QED
    BY <1>3, <2>1 DEF LookUp, agentVars, poolVars, intVars
<1>4. ASSUME NEW c \in Calls,
             Reject(c) \/ SteerAccepted(c) \/ SteerRefused(c) \/ Wait(c) \/ WakeUp(c)
      PROVE  TypeInv'
  <2>1. pc' \in [Calls -> CallStages] /\ answer' \in [Calls -> Answers]
    BY <1>1, <1>2, <1>4
    DEF Reject, SteerAccepted, SteerRefused, Wait, WakeUp, CallStages, Answers
  <2>2. UNCHANGED <<agentVars, poolVars, policy, tried, intVars>>
    BY <1>4 DEF Reject, SteerAccepted, SteerRefused, Wait, WakeUp
  <2>. QED
    BY <2>1, <2>2 DEF agentVars, poolVars, intVars
<1>5. ASSUME NEW c \in Calls, TakeSlot(c) \/ Mark(c) \/ GiveBack(c) \/ ClearCurrent(c)
      PROVE  TypeInv'
  <2>1. pc' \in [Calls -> CallStages] /\ answer' \in [Calls -> Answers]
    BY <1>1, <1>5 DEF TakeSlot, Mark, GiveBack, ClearCurrent, CallStages
  <2>2. /\ slot' \in Calls \cup {None} /\ current' \in Calls \cup {None}
        /\ UNCHANGED <<agentVars, live, policy, tried, intVars>>
    BY <1>5 DEF TakeSlot, Mark, GiveBack, ClearCurrent
  <2>. QED
    BY <2>1, <2>2 DEF agentVars, intVars
<1>6. ASSUME NEW c \in Calls, Steer(c) \/ Send(c) PROVE TypeInv'
  <2>1. pc' \in [Calls -> CallStages] /\ answer' \in [Calls -> Answers]
    BY <1>1, <1>6 DEF Steer, Send, CallStages
  <2>2. PICK m \in Messages : Deliver(m)
    BY <1>6, MessageKinds DEF Steer, Send
  <2>3. /\ input' \in Seq(Messages)
        /\ ack' \in [Calls -> {"none", "waiting", "accepted", "refused"}]
    BY <2>2, DeliverTyped
  <2>4. /\ tried' \subseteq Calls
        /\ UNCHANGED <<demux, fwd, events, phase, turn, outcome, cancelled, stopped,
                       steps, accepting, pending, accepted, returned, mem, saved,
                       seen, live, slot, current, policy, ipc, target>>
    BY <1>6 DEF Steer, Send, poolVars, intVars
  <2>. QED
    BY <2>1, <2>3, <2>4
<1>7. ASSUME NEW c \in Calls, SteerTimeout(c) PROVE TypeInv'
  <2>1. pc' \in [Calls -> CallStages] /\ answer' \in [Calls -> Answers]
    BY <1>1, <1>7 DEF SteerTimeout, CallStages
  <2>2. ack' \in [Calls -> {"none", "waiting", "accepted", "refused"}]
    BY <1>7 DEF SteerTimeout
  <2>3. UNCHANGED <<input, demux, fwd, events, phase, turn, outcome, cancelled, stopped,
                    steps, accepting, pending, accepted, returned, mem, saved,
                    seen, live, slot, current, policy, tried, ipc, target>>
    BY <1>7 DEF SteerTimeout, poolVars, intVars
  <2>. QED
    BY <2>1, <2>2, <2>3
<1>8. ASSUME NEW c \in Calls, Stream(c) PROVE TypeInv'
  <2>1. pc' \in [Calls -> CallStages] /\ answer' \in [Calls -> Answers]
    BY <1>8 DEF Stream, CallStages, Answers
  <2>2. events' \in Seq([kind : {"complete", "error"}, turn : Calls])
    BY <1>8, HeadTail DEF Stream
  <2>3. UNCHANGED <<input, demux, fwd, phase, turn, outcome, cancelled, stopped,
                    steps, accepting, pending, ack, accepted, returned, mem, saved,
                    seen, live, slot, current, policy, tried, ipc, target>>
    BY <1>8 DEF Stream, poolVars, intVars
  <2>. QED
    BY <2>1, <2>2, <2>3
<1>9. ASSUME NEW c \in Calls, EngineGone(c) PROVE TypeInv'
  <2>1. pc' \in [Calls -> CallStages] /\ answer' \in [Calls -> Answers]
    BY <1>2, <1>9 DEF EngineGone, Answers
  <2>. QED
    BY ZenonT(40), <1>9, <2>1 DEF EngineGone, intVars
<1>10. ASSUME NEW i \in Interrupts, InterruptRead(i) PROVE TypeInv'
  <2>1. /\ ipc' \in [Interrupts -> {"read", "send", "done"}]
        /\ target' \in [Interrupts -> Calls \cup {None}]
    BY <1>10 DEF InterruptRead
  <2>. QED
    BY <1>10, <2>1 DEF InterruptRead, agentVars, poolVars, callVars
<1>11. ASSUME NEW i \in Interrupts, InterruptSend(i) PROVE TypeInv'
  <2>1. /\ input' \in Seq(Messages)
        /\ ack' \in [Calls -> {"none", "waiting", "accepted", "refused"}]
    BY <1>11, DeliverTyped, MessageKinds DEF InterruptSend
  <2>2. ipc' \in [Interrupts -> {"read", "send", "done"}]
    BY <1>11 DEF InterruptSend
  <2>. QED
    BY <1>11, <2>1, <2>2 DEF InterruptSend, poolVars, callVars
<1>12. CASE RemoveSession
  BY ZenonT(40), <1>12 DEF RemoveSession, callVars, intVars
<1>. QED
  BY <1>3, <1>4, <1>5, <1>6, <1>7, <1>8, <1>9, <1>10, <1>11, <1>12 DEF RunTurn

\* Every variable has its type, and a turn has an id exactly while one runs.
THEOREM TypeCorrect == Spec => []TypeInv
<1>1. Init => TypeInv
  <2>. SUFFICES ASSUME Init PROVE TypeInv
    OBVIOUS
  <2>1. /\ input \in Seq(Messages) /\ fwd \in Seq(Calls) /\ pending \in Seq(Calls)
        /\ mem \in Seq(Entries) /\ Len(mem) = 0
        /\ events \in Seq([kind : {"complete", "error"}, turn : Calls])
    <3>1. \A S : <<>> \in Seq(S)
      OBVIOUS
    <3>2. Len(mem) = 0
      BY DEF Init, AgentInit
    <3>. QED
      BY <3>1, <3>2 DEF Init, AgentInit
  <2>2. seen \in 0..Len(mem) /\ steps \in 0..MaxSteps
    BY <2>1, AgentAssumption DEF Init, AgentInit
  <2>3. TurnRuns /\ phase \in Phases
    BY DEF Init, AgentInit, TurnRuns, Phases, TurnPhases
  <2>4. AgentTypeOK
    BY <2>1, <2>2, <2>3 DEF Init, AgentInit, AgentTypeOK, Saves
  <2>. QED
    BY <2>3, <2>4 DEF Init, TypeInv, TypeOK, CallStages, Answers
<1>2. TypeInv /\ [Next]_vars => TypeInv'
  <2>. SUFFICES ASSUME TypeInv, [Next]_vars PROVE TypeInv'
    OBVIOUS
  <2>1. CASE UNCHANGED vars
    BY <2>1 DEF vars, agentVars, poolVars, callVars, intVars, TypeInv, TypeOK,
                AgentTypeOK, TurnRuns
  <2>. QED
    BY <2>1, PoolTyped, EngineTyped DEF Next, AllDone
<1>. QED
  BY <1>1, <1>2, PTL DEF Spec

-----------------------------------------------------------------------------
(* The slot's holder is the only one with a message on its way.            *)

\* Reading a message that is not a user's leaves the user's where it is.
LEMMA ReadOther ==
  ASSUME TypeInv, input # <<>>, Head(input).kind # "user", input' = Tail(input)
  PROVE  /\ NoUser => NoUser'
         /\ \A c \in Calls : OneUser(c) => OneUser(c)'
<1>1. /\ Head(input) = input[1] /\ Len(input) \in Nat \ {0}
      /\ Len(input') = Len(input) - 1
      /\ \A k \in 1..Len(input') : input'[k] = input[k + 1]
      /\ DOMAIN input = 1..Len(input) /\ DOMAIN input' = 1..Len(input')
  BY HeadTail DEF TypeInv, TypeOK, AgentTypeOK
<1>2. NoUser => NoUser'
  BY <1>1 DEF NoUser
<1>3. ASSUME NEW c \in Calls, OneUser(c) PROVE OneUser(c)'
  <2>1. PICK k \in DOMAIN input :
          input[k] = UserMsg(c) /\ \A j \in DOMAIN input : input[j].kind = "user" => j = k
    BY <1>3 DEF OneUser
  <2>2. k # 1
    BY <1>1, <2>1 DEF UserMsg
  <2>3. k - 1 \in 1..Len(input') /\ input'[k - 1] = UserMsg(c)
    BY <1>1, <2>1, <2>2
  <2>4. \A j \in 1..Len(input') : input'[j].kind = "user" => j = k - 1
    BY <1>1, <2>1
  <2>. QED
    BY <1>1, <2>3, <2>4 DEF OneUser, UserMsg
<1>. QED
  BY <1>2, <1>3

\* Reading the one user message leaves none.
LEMMA ReadUser ==
  ASSUME TypeInv, input # <<>>, Head(input).kind = "user", input' = Tail(input)
  PROVE  /\ ~NoUser
         /\ \A c \in Calls : OneUser(c) => Head(input).id = c /\ NoUser'
<1>1. /\ Head(input) = input[1] /\ Len(input) \in Nat \ {0}
      /\ Len(input') = Len(input) - 1
      /\ \A k \in 1..Len(input') : input'[k] = input[k + 1]
      /\ DOMAIN input = 1..Len(input) /\ DOMAIN input' = 1..Len(input')
  BY HeadTail DEF TypeInv, TypeOK, AgentTypeOK
<1>2. 1 \in DOMAIN input /\ input[1].kind = "user"
  BY <1>1
<1>3. ~NoUser
  BY <1>2 DEF NoUser
<1>4. ASSUME NEW c \in Calls, OneUser(c) PROVE Head(input).id = c /\ NoUser'
  <2>1. PICK k \in DOMAIN input :
          input[k] = UserMsg(c) /\ \A j \in DOMAIN input : input[j].kind = "user" => j = k
    BY <1>4 DEF OneUser
  <2>2. k = 1
    BY <1>2, <2>1
  <2>3. Head(input).id = c
    BY <1>1, <2>1, <2>2 DEF UserMsg
  <2>4. NoUser'
    BY <1>1, <2>1, <2>2 DEF NoUser
  <2>. QED
    BY <2>3, <2>4
<1>. QED
  BY <1>3, <1>4

\* Sending a message that is not a user's.
LEMMA SendOther ==
  ASSUME TypeInv, NEW m \in Messages, m.kind # "user", Deliver(m)
  PROVE  /\ NoUser => NoUser'
         /\ \A c \in Calls : OneUser(c) => OneUser(c)'
<1>1. CASE demux = "gone"
  BY <1>1 DEF Deliver, NoUser, OneUser, UserMsg
<1>2. CASE demux # "gone"
  <2>1. /\ input' = Append(input, m) /\ input \in Seq(Messages)
    BY <1>2 DEF Deliver, TypeInv, TypeOK, AgentTypeOK
  <2>2. /\ Len(input) \in Nat /\ Len(input') = Len(input) + 1
        /\ input'[Len(input) + 1] = m
        /\ \A k \in 1..Len(input) : input'[k] = input[k]
        /\ DOMAIN input = 1..Len(input) /\ DOMAIN input' = 1..Len(input')
    BY <2>1
  <2>3. NoUser => NoUser'
    BY <2>2 DEF NoUser
  <2>4. ASSUME NEW c \in Calls, OneUser(c) PROVE OneUser(c)'
    <3>1. PICK k \in DOMAIN input :
            input[k] = UserMsg(c) /\ \A j \in DOMAIN input : input[j].kind = "user" => j = k
      BY <2>4 DEF OneUser
    <3>2. k \in DOMAIN input' /\ input'[k] = UserMsg(c)
      BY <2>2, <3>1
    <3>3. \A j \in DOMAIN input' : input'[j].kind = "user" => j = k
      BY <2>2, <3>1
    <3>. QED
      BY <3>2, <3>3 DEF OneUser, UserMsg
  <2>. QED
    BY <2>3, <2>4
<1>. QED
  BY <1>1, <1>2

\* Sending a user message into a channel that has none.
LEMMA SendUser ==
  ASSUME TypeInv, NEW c \in Calls, NoUser, Deliver(UserMsg(c))
  PROVE  NoUser' \/ OneUser(c)'
<1>1. CASE demux = "gone"
  BY <1>1 DEF Deliver, NoUser
<1>2. CASE demux # "gone"
  <2>1. /\ input' = Append(input, UserMsg(c)) /\ input \in Seq(Messages) /\ UserMsg(c) \in Messages
    BY <1>2, MessageKinds DEF Deliver, TypeInv, TypeOK, AgentTypeOK
  <2>2. /\ Len(input) \in Nat /\ Len(input') = Len(input) + 1
        /\ input'[Len(input) + 1] = UserMsg(c)
        /\ \A k \in 1..Len(input) : input'[k] = input[k]
        /\ DOMAIN input = 1..Len(input) /\ DOMAIN input' = 1..Len(input')
    BY <2>1
  <2>3. \A j \in DOMAIN input' : input'[j].kind = "user" => j = Len(input) + 1
    BY <2>2 DEF NoUser
  <2>4. Len(input) + 1 \in DOMAIN input'
    BY <2>2
  <2>. QED
    BY <2>2, <2>3, <2>4 DEF OneUser, UserMsg
<1>. QED
  BY <1>1, <1>2

\* A step of the engine: no call moves, and the message may move on or be dropped.
LEMMA EngineKeepsWay ==
  ASSUME TypeInv, HolderInv, UNCHANGED <<slot, pc>>,
         phase = "exited" => phase' = "exited" /\ events' = events,
         Quiet => Quiet',
         \A c \in Calls : OnItsWay(c) => OnItsWay(c)' \/ Quiet',
         saved' = "no" => turn' # None, phase' = "exited" => fwd' = <<>>
  PROVE  HolderInv'
<1>1. slot # None => slot \in Calls
  BY DEF TypeInv, TypeOK
<1>2. Abandoned => Abandoned'
  BY DEF Abandoned
<1>3. Quiet' \/ (slot # None /\ OnItsWay(slot)' /\ (pc[slot] = "stream" \/ Abandoned))
  <2>1. CASE Quiet
    BY <2>1
  <2>2. CASE slot # None /\ OnItsWay(slot) /\ (pc[slot] = "stream" \/ Abandoned)
    <3>1. PICK c \in Calls : c = slot /\ c = slot'
      BY <1>1, <2>2
    <3>2. OnItsWay(c)
      BY <2>2, <3>1
    <3>3. OnItsWay(c)' \/ Quiet'
      BY <3>2
    <3>4. OnItsWay(c)' => OnItsWay(slot)'
      BY <3>1 DEF OnItsWay, OneUser
    <3>. QED
      BY <2>2, <3>3, <3>4
  <2>. QED
    BY <2>1, <2>2 DEF HolderInv
<1>4. Quiet' \/ (slot' # None /\ OnItsWay(slot)' /\ (pc'[slot'] = "stream" \/ Abandoned'))
  BY <1>2, <1>3
<1>. QED
  BY <1>2, <1>4 DEF HolderInv

\* What the steps inside a turn have in common.
LEMMA InsideTurn ==
  ASSUME \/ PromptBlocked \/ PushUserMessage \/ TopStops \/ CallModel
         \/ \E b \in BOOLEAN : ModelFails(b) \/ ToolReply(b)
         \/ \E t \in {"top", "last", "close"} : TextReply(t)
         \/ StepBoundary \/ LastBoundary \/ CloseSteering
  PROVE  /\ phase \in TurnPhases /\ phase # "finish" /\ phase' \in TurnPhases
         /\ UNCHANGED <<input, fwd, turn, events, accepted, ack>>
<1>1. CASE PromptBlocked \/ PushUserMessage \/ TopStops \/ CallModel
  BY <1>1 DEF PromptBlocked, PushUserMessage, TopStops, CallModel, Return, TurnPhases, Phases
<1>2. ASSUME NEW b \in BOOLEAN, ModelFails(b) \/ ToolReply(b)
      PROVE  /\ phase \in TurnPhases /\ phase # "finish" /\ phase' \in TurnPhases
             /\ UNCHANGED <<input, fwd, turn, events, accepted, ack>>
  BY <1>2 DEF ModelFails, ToolReply, Return, TurnPhases, Phases
<1>3. ASSUME NEW t \in {"top", "last", "close"}, TextReply(t)
      PROVE  /\ phase \in TurnPhases /\ phase # "finish" /\ phase' \in TurnPhases
             /\ UNCHANGED <<input, fwd, turn, events, accepted, ack>>
  BY <1>3 DEF TextReply, Return, TurnPhases, Phases
<1>4. CASE StepBoundary \/ LastBoundary \/ CloseSteering
  BY <1>4 DEF StepBoundary, LastBoundary, CloseSteering, Return, TurnPhases, Phases
<1>. QED
  BY <1>1, <1>2, <1>3, <1>4

\* The steps of the engine keep the one place of the holder's message.
LEMMA EngineKeepsHolder ==
  ASSUME TypeInv, HolderInv, Engine
  PROVE  HolderInv'
<1>0. UNCHANGED <<slot, pc>>
  BY DEF Engine, poolVars, callVars
<1>1. turn # None <=> phase \in TurnPhases
  BY DEF TypeInv, TurnRuns
<1>2. (saved = "no" => turn # None) /\ (phase = "exited" => fwd = <<>>)
  BY DEF HolderInv
<1>3. CASE \/ PromptBlocked \/ PushUserMessage \/ TopStops \/ CallModel
           \/ \E b \in BOOLEAN : ModelFails(b) \/ ToolReply(b)
           \/ \E t \in {"top", "last", "close"} : TextReply(t)
           \/ StepBoundary \/ LastBoundary \/ CloseSteering
  <2>1. /\ phase \in TurnPhases /\ phase' \in TurnPhases
        /\ UNCHANGED <<input, fwd, turn, events>>
    BY <1>3, InsideTurn
  <2>2. Quiet => Quiet'
    BY <2>1 DEF Quiet, NoUser
  <2>3. \A c \in Calls : OnItsWay(c) => OnItsWay(c)'
    BY <2>1 DEF OnItsWay, NoUser, OneUser, UserMsg
  <2>4. phase # "exited" /\ phase' # "exited" /\ turn' # None
    BY <1>1, <2>1 DEF TurnPhases
  <2>. QED
    BY <1>0, <2>2, <2>3, <2>4, EngineKeepsWay
<1>4. CASE StartUp
  <2>1. /\ phase = "starting" /\ phase' = "idle"
        /\ UNCHANGED <<input, fwd, turn, events, saved>>
    BY <1>4 DEF StartUp
  <2>2. Quiet => Quiet'
    BY <2>1 DEF Quiet, NoUser
  <2>3. \A c \in Calls : OnItsWay(c) => OnItsWay(c)'
    BY <2>1 DEF OnItsWay, NoUser, OneUser, UserMsg
  <2>. QED
    BY <1>0, <1>2, <2>1, <2>2, <2>3, EngineKeepsWay
<1>5. CASE ExitLoop
  <2>1. /\ phase = "idle" /\ phase' = "exited" /\ fwd' = <<>> /\ turn = None
        /\ UNCHANGED <<input, turn, events, saved>>
    BY <1>1, <1>5 DEF ExitLoop, TurnPhases
  <2>2. Quiet => Quiet'
    BY <2>1 DEF Quiet, NoUser
  <2>3. ASSUME NEW c \in Calls, OnItsWay(c) PROVE OnItsWay(c)' \/ Quiet'
    BY <2>1, <2>3 DEF OnItsWay, NoUser, OneUser, UserMsg, Quiet
  <2>. QED
    BY <1>0, <1>2, <2>1, <2>2, <2>3, EngineKeepsWay
<1>6. ASSUME NEW l \in BOOLEAN, BeginTurn(l) PROVE HolderInv'
  <2>1. /\ phase = "idle" /\ phase' \in {"submit", "finish"}
        /\ fwd # <<>> /\ fwd' = Tail(fwd) /\ turn' = Head(fwd)
        /\ UNCHANGED <<input, events, saved>>
    BY <1>6 DEF BeginTurn
  <2>2. ~Quiet
    BY <2>1 DEF Quiet
  <2>3. ASSUME NEW c \in Calls, OnItsWay(c) PROVE OnItsWay(c)'
    <3>1. NoUser /\ fwd = <<c>> /\ turn = None /\ events = <<>>
      BY <2>1, <2>3 DEF OnItsWay
    <3>2. turn' = c /\ fwd' = <<>>
      BY <2>1, <3>1
    <3>3. NoUser'
      BY <2>1, <3>1 DEF NoUser
    <3>. QED
      BY <2>1, <3>1, <3>2, <3>3 DEF OnItsWay
  <2>4. turn = None /\ saved # "no"
    BY <1>1, <1>2, <2>1 DEF TurnPhases
  <2>. QED
    BY <1>0, <2>1, <2>2, <2>3, <2>4, EngineKeepsWay
<1>7. CASE FinishTurn
  <2>1. /\ phase = "finish" /\ phase' = "idle" /\ turn # None /\ turn' = None
        /\ events' = Append(events, TerminalEvent) /\ saved' # "no"
        /\ UNCHANGED <<input, fwd>>
    BY <1>1, <1>7 DEF FinishTurn, Persist, TurnPhases, Phases
  <2>2. ~Quiet
    BY <2>1 DEF Quiet
  <2>3. ASSUME NEW c \in Calls, OnItsWay(c) PROVE OnItsWay(c)'
    <3>1. NoUser /\ fwd = <<>> /\ turn = c /\ events = <<>>
      BY <2>1, <2>3 DEF OnItsWay
    <3>2. events' = <<TerminalEvent>> /\ TerminalEvent.turn = c
      BY <2>1, <3>1 DEF TerminalEvent
    <3>3. Len(events') = 1 /\ events'[1].turn = c
      BY <3>2
    <3>4. NoUser'
      BY <2>1, <3>1 DEF NoUser
    <3>. QED
      BY <2>1, <3>1, <3>3, <3>4 DEF OnItsWay
  <2>. QED
    BY <1>0, <2>1, <2>2, <2>3, EngineKeepsWay
<1>8. CASE DemuxSteer \/ DemuxCancel
  <2>1. /\ input # <<>> /\ Head(input).kind # "user" /\ input' = Tail(input)
        /\ UNCHANGED <<phase, fwd, turn, events, saved>>
    BY <1>8 DEF DemuxSteer, DemuxCancel
  <2>2. (NoUser => NoUser') /\ \A c \in Calls : OneUser(c) => OneUser(c)'
    BY <2>1, ReadOther
  <2>3. Quiet => Quiet'
    BY <2>1, <2>2 DEF Quiet
  <2>4. \A c \in Calls : OnItsWay(c) => OnItsWay(c)'
    BY <2>1, <2>2 DEF OnItsWay
  <2>. QED
    BY <1>0, <1>2, <2>1, <2>3, <2>4, EngineKeepsWay
<1>9. CASE DemuxForward
  <2>1. /\ input # <<>> /\ Head(input).kind = "user" /\ input' = Tail(input)
        /\ phase # "exited" /\ fwd' = Append(fwd, Head(input).id)
        /\ UNCHANGED <<phase, turn, events, saved>>
    BY <1>9 DEF DemuxForward
  <2>2. ~NoUser /\ \A c \in Calls : OneUser(c) => Head(input).id = c /\ NoUser'
    BY <2>1, ReadUser
  <2>3. ASSUME NEW c \in Calls, OnItsWay(c) PROVE OnItsWay(c)'
    <3>1. OneUser(c) /\ fwd = <<>> /\ turn = None /\ events = <<>>
      BY <2>2, <2>3 DEF OnItsWay
    <3>2. NoUser' /\ fwd' = <<c>>
      BY <2>1, <2>2, <3>1
    <3>. QED
      BY <2>1, <3>1, <3>2 DEF OnItsWay
  <2>4. ~Quiet
    BY <2>2 DEF Quiet
  <2>. QED
    BY <1>0, <1>2, <2>1, <2>3, <2>4, EngineKeepsWay
<1>10. CASE DemuxEnds
  <2>1. /\ input # <<>> /\ Head(input).kind = "user" /\ input' = <<>>
        /\ phase = "exited" /\ UNCHANGED <<phase, fwd, turn, events, saved>>
    BY <1>10 DEF DemuxEnds
  <2>2. ~NoUser
    <3>1. Head(input) = input[1] /\ 1 \in DOMAIN input
      BY <2>1, HeadTail DEF TypeInv, TypeOK, AgentTypeOK
    <3>. QED
      BY <2>1, <3>1 DEF NoUser
  <2>3. NoUser'
    BY <2>1 DEF NoUser
  <2>4. ASSUME NEW c \in Calls, OnItsWay(c) PROVE Quiet'
    BY <2>1, <2>2, <2>3, <2>4 DEF OnItsWay, Quiet
  <2>5. ~Quiet
    BY <2>2 DEF Quiet
  <2>. QED
    BY <1>0, <1>2, <2>1, <2>4, <2>5, EngineKeepsWay
<1>. QED
  BY <1>3, <1>4, <1>5, <1>6, <1>7, <1>8, <1>9, <1>10
  DEF Engine, AgentLoopStep, TurnStep, Demultiplex

\* A call that does not hold the slot moves on, and its message, if any, is a Steer.
LEMMA OutsiderKeepsHolder ==
  ASSUME TypeInv, HolderInv, NEW c \in Calls, NEW l \in CallStages \ HolderStages,
         pc[c] \notin HolderStages \cup {"done"}, pc' = [pc EXCEPT ![c] = l],
         UNCHANGED <<slot, phase, fwd, turn, events, saved>>,
         NoUser => NoUser', \A b \in Calls : OneUser(b) => OneUser(b)'
  PROVE  HolderInv'
<1>1. pc \in [Calls -> CallStages] /\ slot \in Calls \cup {None}
  BY DEF TypeInv, TypeOK
<1>2. slot # None => slot \in Calls /\ slot # c /\ pc'[slot] = pc[slot]
  BY <1>1 DEF HolderInv, Abandoned
<1>3. \A b \in Calls : pc'[b] \in HolderStages => slot = b
  BY <1>1 DEF HolderInv
<1>4. Quiet => Quiet'
  BY DEF Quiet
<1>5. slot # None /\ OnItsWay(slot) => OnItsWay(slot)'
  <2>. SUFFICES ASSUME slot # None, OnItsWay(slot) PROVE OnItsWay(slot)'
    OBVIOUS
  <2>1. PICK s \in Calls : s = slot /\ s = slot'
    BY <1>2
  <2>2. OneUser(s) => OneUser(s)'
    OBVIOUS
  <2>3. OneUser(s)' => OneUser(slot)'
    BY <2>1 DEF OneUser
  <2>. QED
    BY <2>1, <2>2, <2>3 DEF OnItsWay
<1>. QED
  BY <1>2, <1>3, <1>4, <1>5 DEF HolderInv, Abandoned

\* The holder of the slot moves on among its own stages.
LEMMA HolderMoves ==
  ASSUME TypeInv, HolderInv, NEW c \in Calls, NEW l \in HolderStages,
         slot = c, pc' = [pc EXCEPT ![c] = l], UNCHANGED <<slot, phase, fwd, turn, saved>>,
         Quiet' \/ (l = "stream" /\ OnItsWay(c)')
  PROVE  HolderInv'
<1>1. pc \in [Calls -> CallStages] /\ c # None
  BY AgentAssumption DEF TypeInv, TypeOK
<1>2. pc'[c] = l /\ \A b \in Calls : pc'[b] \in HolderStages => c = b
  BY <1>1 DEF HolderInv, HolderStages
<1>3. OnItsWay(c)' => OnItsWay(slot)'
  BY DEF OnItsWay, OneUser
<1>. QED
  BY <1>1, <1>2, <1>3 DEF HolderInv

\* Nothing the invariant speaks of moves, but a Cancel may be sent.
LEMMA BystanderKeepsHolder ==
  ASSUME TypeInv, HolderInv, UNCHANGED <<slot, pc, phase, fwd, turn, events, saved>>,
         NoUser => NoUser', \A b \in Calls : OneUser(b) => OneUser(b)'
  PROVE  HolderInv'
<1>1. Quiet => Quiet'
  BY DEF Quiet
<1>2. \A c \in Calls : OnItsWay(c) => OnItsWay(c)'
  BY DEF OnItsWay
<1>3. (saved' = "no" => turn' # None) /\ (phase' = "exited" => fwd' = <<>>)
  BY DEF HolderInv
<1>. QED
  BY <1>1, <1>2, <1>3, EngineKeepsWay

\* So do the steps of the pool: run_turn, on_busy, the sweep and the removal of a session.
LEMMA PoolKeepsHolder ==
  ASSUME TypeInv, HolderInv,
         \/ \E c \in Calls : RunTurn(c) \/ SteerTimeout(c)
         \/ \E i \in Interrupts : InterruptRead(i) \/ InterruptSend(i)
         \/ RemoveSession
  PROVE  HolderInv'
<1>0. ASSUME UNCHANGED input PROVE (NoUser => NoUser') /\ \A b \in Calls : OneUser(b) => OneUser(b)'
  BY <1>0 DEF NoUser, OneUser, UserMsg
<1>1. ASSUME NEW c \in Calls,
             \/ LookUp(c) \/ Reject(c) \/ SteerAccepted(c) \/ SteerRefused(c) \/ Wait(c)
             \/ WakeUp(c) \/ ClearCurrent(c) \/ SteerTimeout(c)
      PROVE  HolderInv'
  <2>1. /\ pc[c] \notin HolderStages \cup {"done"}
        /\ UNCHANGED <<slot, phase, fwd, turn, events, saved, input>>
    BY <1>1 DEF LookUp, Reject, SteerAccepted, SteerRefused, Wait, WakeUp, ClearCurrent,
                SteerTimeout, HolderStages, agentVars, poolVars
  <2>2. PICK l \in CallStages \ HolderStages : pc' = [pc EXCEPT ![c] = l]
    BY <1>1 DEF LookUp, Reject, SteerAccepted, SteerRefused, Wait, WakeUp, ClearCurrent,
                SteerTimeout, Goto, Answer, HolderStages, CallStages
  <2>. QED
    BY <1>0, <2>1, <2>2, OutsiderKeepsHolder
<1>2. ASSUME NEW c \in Calls, Steer(c) PROVE HolderInv'
  <2>1. /\ pc[c] \notin HolderStages \cup {"done"} /\ pc' = [pc EXCEPT ![c] = "acking"]
        /\ UNCHANGED <<slot, phase, fwd, turn, events, saved>>
    BY <1>2 DEF Steer, Goto, HolderStages, poolVars
  <2>2. (NoUser => NoUser') /\ \A b \in Calls : OneUser(b) => OneUser(b)'
    BY <1>2, SendOther, MessageKinds DEF Steer, SteerMsg
  <2>3. "acking" \in CallStages \ HolderStages
    BY DEF CallStages, HolderStages
  <2>. QED
    BY <2>1, <2>2, <2>3, OutsiderKeepsHolder
<1>3. ASSUME NEW c \in Calls, TakeSlot(c) PROVE HolderInv'
  <2>1. /\ slot = None /\ slot' = c /\ pc' = [pc EXCEPT ![c] = "mark"]
        /\ UNCHANGED <<phase, fwd, turn, events, saved, input>>
    BY <1>3 DEF TakeSlot, Goto, agentVars
  <2>2. \A b \in Calls : pc[b] \notin HolderStages
    BY <2>1, AgentAssumption DEF HolderInv
  <2>3. pc'[c] = "mark" /\ \A b \in Calls : pc'[b] \in HolderStages => b = c
    BY <2>1, <2>2 DEF TypeInv, TypeOK
  <2>4. Quiet'
    BY <2>1 DEF HolderInv, Quiet, NoUser
  <2>. QED
    BY <2>1, <2>3, <2>4 DEF HolderInv, HolderStages
<1>4. ASSUME NEW c \in Calls, Mark(c) PROVE HolderInv'
  <2>1. /\ pc[c] = "mark" /\ pc' = [pc EXCEPT ![c] = "send"]
        /\ UNCHANGED <<slot, phase, fwd, turn, events, saved, input>>
    BY <1>4 DEF Mark, Goto, agentVars
  <2>2. slot = c /\ Quiet
    BY <2>1 DEF HolderInv, HolderStages, Abandoned
  <2>3. Quiet'
    BY <2>1, <2>2 DEF Quiet, NoUser
  <2>. QED
    BY <2>1, <2>2, <2>3, HolderMoves DEF HolderStages
<1>5. ASSUME NEW c \in Calls, Send(c) PROVE HolderInv'
  <2>1. /\ pc[c] = "send" /\ pc' = [pc EXCEPT ![c] = "stream"] /\ Deliver(UserMsg(c))
        /\ UNCHANGED <<slot, phase, fwd, turn, events, saved>>
    BY <1>5 DEF Send, Goto, poolVars
  <2>2. slot = c /\ Quiet
    BY <2>1 DEF HolderInv, HolderStages, Abandoned
  <2>3. NoUser' \/ OneUser(c)'
    BY <2>1, <2>2, SendUser DEF Quiet
  <2>4. Quiet' \/ OnItsWay(c)'
    BY <2>1, <2>2, <2>3 DEF Quiet, OnItsWay
  <2>. QED
    BY <2>1, <2>2, <2>4, HolderMoves DEF HolderStages
<1>6. ASSUME NEW c \in Calls, Stream(c) PROVE HolderInv'
  <2>1. /\ pc[c] = "stream" /\ pc' = [pc EXCEPT ![c] = "giveback"]
        /\ events # <<>> /\ events' = Tail(events)
        /\ UNCHANGED <<slot, phase, fwd, turn, saved, input>>
    BY <1>6 DEF Stream, poolVars
  <2>2. slot = c /\ OnItsWay(c)
    BY <2>1 DEF HolderInv, HolderStages, Abandoned, Quiet
  <2>3. NoUser /\ fwd = <<>> /\ turn = None /\ Len(events) = 1
    BY <2>1, <2>2 DEF OnItsWay
  <2>4. events' = <<>>
    <3>1. events \in Seq([kind : {"complete", "error"}, turn : Calls])
      BY DEF TypeInv, TypeOK, AgentTypeOK
    <3>. QED
      BY <2>1, <2>3, <3>1
  <2>5. Quiet'
    BY <2>1, <2>3, <2>4 DEF Quiet, NoUser
  <2>. QED
    BY <2>1, <2>2, <2>5, HolderMoves DEF HolderStages
<1>7. ASSUME NEW c \in Calls, EngineGone(c) PROVE HolderInv'
  <2>1. /\ pc[c] = "stream" /\ pc' = [pc EXCEPT ![c] = "done"]
        /\ events = <<>> /\ phase = "exited"
        /\ UNCHANGED <<slot, phase, fwd, turn, events, saved, input>>
    BY <1>7 DEF EngineGone, Answer
  <2>2. slot = c /\ c # None
    BY <2>1, AgentAssumption DEF HolderInv, HolderStages
  <2>3. pc'[c] = "done" /\ \A b \in Calls : pc'[b] \notin HolderStages
    BY <2>1, <2>2 DEF HolderInv, HolderStages, TypeInv, TypeOK
  <2>4. Quiet => Quiet'
    BY <2>1 DEF Quiet, NoUser
  <2>5. OnItsWay(slot) => OnItsWay(slot)'
    BY <2>1 DEF OnItsWay, NoUser, OneUser, UserMsg
  <2>. QED
    BY <2>1, <2>2, <2>3, <2>4, <2>5 DEF HolderInv, Abandoned
<1>8. ASSUME NEW c \in Calls, GiveBack(c) PROVE HolderInv'
  <2>1. /\ pc[c] = "giveback" /\ pc' = [pc EXCEPT ![c] = "clear"] /\ slot' = None
        /\ UNCHANGED <<phase, fwd, turn, events, saved, input>>
    BY <1>8 DEF GiveBack, Goto, agentVars
  <2>2. slot = c /\ Quiet
    BY <2>1 DEF HolderInv, HolderStages, Abandoned
  <2>3. \A b \in Calls : pc'[b] \notin HolderStages
    BY <2>1, <2>2 DEF HolderInv, HolderStages, TypeInv, TypeOK
  <2>4. Quiet'
    BY <2>1, <2>2 DEF Quiet, NoUser
  <2>. QED
    BY <2>1, <2>3, <2>4 DEF HolderInv
<1>9. CASE RemoveSession \/ \E i \in Interrupts : InterruptRead(i)
  <2>1. UNCHANGED <<slot, pc, phase, fwd, turn, events, saved, input>>
    BY <1>9 DEF RemoveSession, InterruptRead, agentVars, poolVars, callVars
  <2>. QED
    BY <1>0, <2>1, BystanderKeepsHolder
<1>10. ASSUME NEW i \in Interrupts, InterruptSend(i) PROVE HolderInv'
  <2>1. /\ UNCHANGED <<slot, pc, phase, fwd, turn, events, saved>>
        /\ Deliver(CancelMsg) /\ CancelMsg \in Messages /\ CancelMsg.kind # "user"
    BY <1>10, MessageKinds DEF InterruptSend, poolVars, callVars, CancelMsg
  <2>2. (NoUser => NoUser') /\ \A b \in Calls : OneUser(b) => OneUser(b)'
    BY <2>1, SendOther
  <2>. QED
    BY <2>1, <2>2, BystanderKeepsHolder
<1>. QED
  BY <1>1, <1>2, <1>3, <1>4, <1>5, <1>6, <1>7, <1>8, <1>9, <1>10 DEF RunTurn

(***************************************************************************)
(* Whatever the calls, the demultiplexer and the loop do, at most one user *)
(* message is under way, and it is the one of the slot's holder.           *)
(***************************************************************************)
THEOREM HolderInvariant == Spec => []HolderInv
<1>1. Init => HolderInv
  BY AgentAssumption DEF Init, AgentInit, HolderInv, HolderStages, Quiet, NoUser
<1>2. TypeInv /\ HolderInv /\ [Next]_vars => HolderInv'
  <2>. SUFFICES ASSUME TypeInv, HolderInv, [Next]_vars PROVE HolderInv'
    OBVIOUS
  <2>1. CASE UNCHANGED vars
    <3>1. UNCHANGED <<slot, pc, phase, fwd, turn, events, saved, input>>
      BY <2>1 DEF vars, agentVars, poolVars, callVars
    <3>2. (NoUser => NoUser') /\ \A b \in Calls : OneUser(b) => OneUser(b)'
      BY <3>1 DEF NoUser, OneUser, UserMsg
    <3>. QED
      BY <3>1, <3>2, BystanderKeepsHolder
  <2>. QED
    BY <2>1, PoolKeepsHolder, EngineKeepsHolder DEF Next, AllDone
<1>. QED
  BY <1>1, <1>2, TypeCorrect, PTL DEF Spec

(***************************************************************************)
(* While event_rx is in its place the engine is at rest, and its           *)
(* transcript is on disk unless the last persist failed.                   *)
(***************************************************************************)
THEOREM FreeSlotQuiet == Spec => []FreeSlotIsQuiet
<1>1. HolderInv => FreeSlotIsQuiet
  BY DEF HolderInv, FreeSlotIsQuiet, Quiet, NoUser
<1>. QED
  BY <1>1, HolderInvariant, PTL

\* The terminal event in the channel is the one its reader waits for.
THEOREM OwnTurn == Spec => []OwnTurnEnds
<1>1. HolderInv => OwnTurnEnds
  BY DEF HolderInv, OwnTurnEnds, Quiet, OnItsWay, Abandoned
<1>. QED
  BY <1>1, HolderInvariant, PTL

-----------------------------------------------------------------------------
(* The steering queue is closed and empty between turns.                   *)

\* The steering queue takes messages only while a turn is open, and keeps none after it: what
\* drain_steering_queue left is gone when the turn ends.
THEOREM QueueInvariant == Spec => []QueueInv
<1>1. Init => QueueInv
  BY DEF Init, AgentInit, QueueInv
<1>2. QueueInv /\ [Next]_vars => QueueInv'
  <2>. SUFFICES ASSUME QueueInv, [Next]_vars PROVE QueueInv'
    OBVIOUS
  <2>1. CASE UNCHANGED <<phase, accepting, pending>>
    BY <2>1 DEF QueueInv
  <2>2. ASSUME NEW c \in Calls, RunTurn(c) \/ SteerTimeout(c)
        PROVE  UNCHANGED <<phase, accepting, pending>>
    BY <2>2 DEF RunTurn, LookUp, TakeSlot, Reject, Steer, SteerAccepted, SteerRefused, Wait,
                WakeUp, Mark, Send, Stream, EngineGone, GiveBack, ClearCurrent, SteerTimeout,
                agentVars
  <2>3. CASE \/ RemoveSession \/ AllDone \/ UNCHANGED vars
             \/ \E i \in Interrupts : InterruptRead(i) \/ InterruptSend(i)
    BY <2>1, <2>3 DEF RemoveSession, AllDone, InterruptRead, InterruptSend, vars, agentVars
  <2>4. CASE Engine
    <3>1. CASE StartUp \/ ExitLoop
      BY <3>1 DEF StartUp, ExitLoop, QueueInv, TurnPhases
    <3>2. ASSUME NEW l \in BOOLEAN, BeginTurn(l) PROVE QueueInv'
      BY <3>2 DEF BeginTurn, QueueInv, TurnPhases, Phases
    <3>3. CASE PromptBlocked \/ PushUserMessage \/ TopStops \/ CallModel
      BY <3>3 DEF PromptBlocked, PushUserMessage, TopStops, CallModel, Return, QueueInv,
                  TurnPhases, Phases
    <3>4. ASSUME NEW b \in BOOLEAN, ModelFails(b) \/ ToolReply(b) PROVE QueueInv'
      BY <3>4 DEF ModelFails, ToolReply, Return, QueueInv, TurnPhases, Phases
    <3>5. ASSUME NEW t \in {"top", "last", "close"}, TextReply(t) PROVE QueueInv'
      BY <3>5 DEF TextReply, Return, QueueInv, TurnPhases, Phases
    <3>6. CASE StepBoundary \/ LastBoundary
      BY <3>6 DEF StepBoundary, LastBoundary, Return, QueueInv, TurnPhases, Phases
    <3>7. CASE CloseSteering \/ FinishTurn
      BY <3>7 DEF CloseSteering, FinishTurn, QueueInv, TurnPhases, Phases
    <3>8. CASE DemuxSteer
      BY <3>8 DEF DemuxSteer, Offer, QueueInv
    <3>9. CASE DemuxCancel \/ DemuxForward \/ DemuxEnds
      BY <2>1, <3>9 DEF DemuxCancel, DemuxForward, DemuxEnds
    <3>. QED
      BY <2>4, <3>1, <3>2, <3>3, <3>4, <3>5, <3>6, <3>7, <3>8, <3>9
      DEF Engine, AgentLoopStep, TurnStep, Demultiplex
  <2>. QED
    BY <2>1, <2>2, <2>3, <2>4 DEF Next
<1>. QED
  BY <1>1, <1>2, PTL DEF Spec

-----------------------------------------------------------------------------
(* Every message has a sender.                                             *)

\* What a call has sent stays sent.
LEMMA SentStays ==
  ASSUME TypeInv, SenderInv,
         \/ \E c \in Calls : RunTurn(c) \/ SteerTimeout(c)
         \/ \E i \in Interrupts : InterruptRead(i) \/ InterruptSend(i)
         \/ RemoveSession
  PROVE  /\ \A b \in Calls : Sent(b) => Sent(b)'
         /\ tried \subseteq tried' /\ UNCHANGED policy
         /\ \A b \in tried' : policy[b] = "steer"
         /\ \A b \in Calls : answer'[b] = "busy" => policy[b] = "reject" /\ pc'[b] = "done"
<1>. pc \in [Calls -> CallStages] /\ answer \in [Calls -> Answers]
  BY DEF TypeInv, TypeOK
<1>0. /\ \A b \in tried : policy[b] = "steer"
      /\ \A b \in Calls : answer[b] = "busy" => policy[b] = "reject" /\ pc[b] = "done"
  BY DEF SenderInv
<1>. DEFINE G == /\ \A b \in Calls : Sent(b) => Sent(b)'
                 /\ tried \subseteq tried' /\ UNCHANGED policy
                 /\ \A b \in tried' : policy[b] = "steer"
                 /\ \A b \in Calls : answer'[b] = "busy" => policy[b] = "reject" /\ pc'[b] = "done"
<1>1. ASSUME NEW c \in Calls, NEW l \in {"take", "mark", "acking", "lookup", "waiting", "send"},
             pc[c] \notin {"stream", "giveback", "clear", "done"}, Goto(c, l),
             UNCHANGED <<policy, tried>>
      PROVE  G
  BY <1>0, <1>1 DEF Goto, Sent
<1>2. ASSUME NEW c \in Calls, NEW l \in {"stream", "giveback", "clear", "done"}, Goto(c, l),
             pc[c] # "done", UNCHANGED <<policy, tried>>
      PROVE  G
  BY <1>0, <1>2 DEF Goto, Sent
<1>3. ASSUME NEW c \in Calls, NEW a \in Answers \ {"busy"}, Answer(c, a),
             UNCHANGED <<policy, tried>>
      PROVE  G
  BY <1>0, <1>3 DEF Answer, Sent
<1>4. ASSUME NEW c \in Calls, Steer(c) PROVE G
  BY <1>0, <1>4 DEF Steer, Goto, Sent
<1>5. ASSUME NEW c \in Calls, Reject(c) PROVE G
  BY <1>0, <1>5 DEF Reject, Answer, Sent
<1>6. ASSUME NEW c \in Calls, Stream(c) PROVE G
  BY <1>0, <1>6 DEF Stream, Sent
<1>7. ASSUME NEW c \in Calls, LookUp(c) PROVE G
  BY <1>1, <1>3, <1>7 DEF LookUp, Answers
<1>8. ASSUME NEW c \in Calls,
             \/ TakeSlot(c) \/ SteerRefused(c) \/ SteerTimeout(c) \/ Wait(c) \/ WakeUp(c) \/ Mark(c)
      PROVE  G
  BY <1>1, <1>8 DEF TakeSlot, SteerRefused, SteerTimeout, Wait, WakeUp, Mark
<1>9. ASSUME NEW c \in Calls, Send(c) \/ GiveBack(c) \/ ClearCurrent(c) PROVE G
  BY <1>2, <1>9 DEF Send, GiveBack, ClearCurrent
<1>10. ASSUME NEW c \in Calls, SteerAccepted(c) \/ EngineGone(c) PROVE G
  BY <1>3, <1>10 DEF SteerAccepted, EngineGone, Answers
<1>11. CASE RemoveSession \/ \E i \in Interrupts : InterruptRead(i) \/ InterruptSend(i)
  BY <1>0, <1>11 DEF RemoveSession, InterruptRead, InterruptSend, callVars, Sent
<1>12. ASSUME NEW c \in Calls, RunTurn(c) \/ SteerTimeout(c) PROVE G
  <2>. HIDE DEF G
  <2>. QED
    BY <1>4, <1>5, <1>6, <1>7, <1>8, <1>9, <1>10, <1>12 DEF RunTurn
<1>. QED
  BY <1>11, <1>12

\* What is in the channel after a send: what was there, and the message sent.
LEMMA DeliverAdds ==
  ASSUME TypeInv, NEW m \in Messages, Deliver(m)
  PROVE  \A k \in DOMAIN input' :
           (k \in DOMAIN input /\ input'[k] = input[k]) \/ input'[k] = m
<1>1. CASE demux = "gone"
  BY <1>1 DEF Deliver
<1>2. CASE demux # "gone"
  BY <1>2 DEF Deliver, TypeInv, TypeOK, AgentTypeOK
<1>. QED
  BY <1>1, <1>2

\* The steps of the pool keep what is known of the senders of the messages under way.
LEMMA PoolKeepsSender ==
  ASSUME TypeInv, SenderInv,
         \/ \E c \in Calls : RunTurn(c) \/ SteerTimeout(c)
         \/ \E i \in Interrupts : InterruptRead(i) \/ InterruptSend(i)
         \/ RemoveSession
  PROVE  SenderInv'
<1>1. /\ \A b \in Calls : Sent(b) => Sent(b)'
      /\ tried \subseteq tried' /\ UNCHANGED policy
      /\ \A b \in tried' : policy[b] = "steer"
      /\ \A b \in Calls : answer'[b] = "busy" => policy[b] = "reject" /\ pc'[b] = "done"
  BY SentStays
<1>2. \A m \in Messages \cup Entries : FromSender(m) => FromSender(m)'
  <2>. TAKE m \in Messages \cup Entries
  <2>1. m.kind = "user" => m.id \in Calls
    BY MessageKinds DEF Entries
  <2>. QED
    BY <1>1, <2>1 DEF FromSender
<1>3. UNCHANGED <<fwd, turn, mem, pending>>
  <2>1. ASSUME NEW c \in Calls, RunTurn(c) \/ SteerTimeout(c)
        PROVE  UNCHANGED <<fwd, turn, mem, pending>>
    BY <2>1 DEF RunTurn, LookUp, TakeSlot, Reject, Steer, SteerAccepted, SteerRefused, Wait,
                WakeUp, Mark, Send, Stream, EngineGone, GiveBack, ClearCurrent, SteerTimeout,
                agentVars
  <2>2. CASE RemoveSession \/ \E i \in Interrupts : InterruptRead(i) \/ InterruptSend(i)
    BY <2>2 DEF RemoveSession, InterruptRead, InterruptSend, agentVars
  <2>. QED
    BY <2>1, <2>2
<1>4. \A k \in DOMAIN mem : FromSender(mem[k])'
  <2>. TAKE k \in DOMAIN mem
  <2>1. PICK m \in Entries : m = mem[k] /\ m = mem'[k]
    BY <1>3 DEF TypeInv, TypeOK, AgentTypeOK
  <2>2. FromSender(m)'
    <3>1. FromSender(m)
      BY <2>1 DEF SenderInv
    <3>. QED
      BY <1>2, <3>1
  <2>. QED
    BY <2>1, <2>2 DEF FromSender
<1>5. ASSUME NEW k \in DOMAIN input, input'[k] = input[k] PROVE FromSender(input[k])'
  <2>1. PICK m \in Messages : m = input[k] /\ m = input'[k]
    BY <1>5 DEF TypeInv, TypeOK, AgentTypeOK
  <2>2. FromSender(m)'
    <3>1. FromSender(m)
      BY <2>1 DEF SenderInv
    <3>. QED
      BY <1>2, <3>1
  <2>. QED
    BY <2>1, <2>2 DEF FromSender
<1>6. ASSUME NEW m \in Messages, Deliver(m), FromSender(m)'
      PROVE  \A k \in DOMAIN input' : FromSender(input[k])'
  <2>. TAKE k \in DOMAIN input'
  <2>1. (k \in DOMAIN input /\ input'[k] = input[k]) \/ input'[k] = m
    BY <1>6, DeliverAdds
  <2>2. CASE input'[k] = m
    BY <1>6, <2>2 DEF FromSender
  <2>. QED
    BY <1>5, <2>1, <2>2
<1>7. \A k \in DOMAIN input' : FromSender(input[k])'
  <2>1. ASSUME UNCHANGED input PROVE \A k \in DOMAIN input' : FromSender(input[k])'
    BY <1>5, <2>1
  <2>2. ASSUME NEW c \in Calls, Steer(c) PROVE \A k \in DOMAIN input' : FromSender(input[k])'
    <3>1. FromSender(SteerMsg(c))' /\ Deliver(SteerMsg(c)) /\ SteerMsg(c) \in Messages
      BY <2>2, MessageKinds DEF Steer, FromSender, SteerMsg
    <3>. QED
      BY <1>6, <3>1
  <2>3. ASSUME NEW c \in Calls, Send(c) PROVE \A k \in DOMAIN input' : FromSender(input[k])'
    <3>1. answer[c] # "busy" /\ pc'[c] = "stream" /\ answer' = answer
      BY <2>3 DEF Send, Goto, SenderInv, TypeInv, TypeOK
    <3>2. FromSender(UserMsg(c))' /\ Deliver(UserMsg(c)) /\ UserMsg(c) \in Messages
      BY <2>3, <3>1, MessageKinds DEF Send, FromSender, UserMsg, Sent
    <3>. QED
      BY <1>6, <3>2
  <2>4. ASSUME NEW i \in Interrupts, InterruptSend(i)
        PROVE  \A k \in DOMAIN input' : FromSender(input[k])'
    <3>1. FromSender(CancelMsg)' /\ Deliver(CancelMsg) /\ CancelMsg \in Messages
      BY <2>4, MessageKinds DEF InterruptSend, FromSender, CancelMsg
    <3>. QED
      BY <1>6, <3>1
  <2>5. ASSUME NEW c \in Calls,
               \/ LookUp(c) \/ TakeSlot(c) \/ Reject(c) \/ SteerAccepted(c) \/ SteerRefused(c)
               \/ Wait(c) \/ WakeUp(c) \/ Mark(c) \/ Stream(c) \/ EngineGone(c) \/ GiveBack(c)
               \/ ClearCurrent(c) \/ SteerTimeout(c)
        PROVE  UNCHANGED input
    BY <2>5 DEF LookUp, TakeSlot, Reject, SteerAccepted, SteerRefused, Wait, WakeUp, Mark,
                Stream, EngineGone, GiveBack, ClearCurrent, SteerTimeout, agentVars
  <2>6. ASSUME RemoveSession \/ \E i \in Interrupts : InterruptRead(i) PROVE UNCHANGED input
    BY <2>6 DEF RemoveSession, InterruptRead, agentVars
  <2>7. ASSUME NEW c \in Calls, RunTurn(c) \/ SteerTimeout(c)
        PROVE  \A k \in DOMAIN input' : FromSender(input[k])'
    BY <2>1, <2>2, <2>3, <2>5, <2>7 DEF RunTurn
  <2>. QED
    BY <2>1, <2>4, <2>6, <2>7
<1>8. /\ \A k \in DOMAIN fwd : Sent(fwd[k])'
      /\ turn # None => Sent(turn)'
      /\ \A k \in DOMAIN pending : pending[k] \in tried'
  <2>1. ASSUME NEW k \in DOMAIN fwd PROVE Sent(fwd[k])'
    <3>1. PICK c \in Calls : c = fwd[k] /\ c = fwd'[k]
      BY <1>3 DEF TypeInv, TypeOK, AgentTypeOK
    <3>2. Sent(c)'
      <4>1. Sent(c)
        BY <3>1 DEF SenderInv
      <4>. QED
        BY <1>1, <4>1
    <3>. QED
      BY <3>1, <3>2 DEF Sent
  <2>2. ASSUME turn # None PROVE Sent(turn)'
    <3>1. PICK c \in Calls : c = turn /\ c = turn'
      BY <1>3, <2>2 DEF TypeInv, TypeOK, AgentTypeOK
    <3>2. Sent(c)'
      <4>1. Sent(c)
        BY <2>2, <3>1 DEF SenderInv
      <4>. QED
        BY <1>1, <4>1
    <3>. QED
      BY <3>1, <3>2 DEF Sent
  <2>3. \A k \in DOMAIN pending : pending[k] \in tried'
    BY <1>1 DEF SenderInv
  <2>. QED
    BY <2>1, <2>2, <2>3
<1>. QED
  BY <1>1, <1>3, <1>4, <1>7, <1>8 DEF SenderInv

\* The conversation after the queue joined it: what was there, then the queue.
LEMMA DeliverQueuedAdds ==
  ASSUME TypeInv, DeliverQueued
  PROVE  /\ Len(mem) \in Nat /\ Len(pending) \in Nat
         /\ DOMAIN mem = 1..Len(mem) /\ DOMAIN pending = 1..Len(pending)
         /\ DOMAIN mem' = 1..(Len(mem) + Len(pending))
         /\ \A k \in 1..Len(mem) : mem'[k] = mem[k]
         /\ \A k \in 1..Len(pending) : mem'[Len(mem) + k] = SteerMsg(pending[k])
         /\ pending' = <<>>
<1>. DEFINE q == [k \in 1..Len(pending) |-> SteerMsg(pending[k])]
<1>1. q \in Seq(Entries)
  BY MessageKinds DEF TypeInv, TypeOK, AgentTypeOK
<1>2. mem \in Seq(Entries) /\ pending \in Seq(Calls) /\ mem' = mem \o q /\ pending' = <<>>
  BY DEF DeliverQueued, TypeInv, TypeOK, AgentTypeOK
<1>3. Len(q) = Len(pending) /\ Len(pending) \in Nat /\ \A k \in 1..Len(pending) : q[k] = SteerMsg(pending[k])
  BY <1>2
<1>. HIDE DEF q
<1>4. /\ Len(mem) \in Nat /\ DOMAIN mem = 1..Len(mem) /\ DOMAIN pending = 1..Len(pending)
      /\ mem \o q \in Seq(Entries) /\ Len(mem \o q) = Len(mem) + Len(q)
      /\ \A k \in 1..Len(mem) : (mem \o q)[k] = mem[k]
      /\ \A k \in 1..Len(q) : (mem \o q)[Len(mem) + k] = q[k]
  BY <1>1, <1>2
<1>. QED
  BY <1>2, <1>3, <1>4

\* So do the steps of the engine, which take a message from one place and put it in the next.
LEMMA EngineKeepsSender ==
  ASSUME TypeInv, SenderInv, Engine
  PROVE  SenderInv'
<1>0. UNCHANGED <<policy, pc, tried, answer>>
  BY DEF Engine, callVars
<1>1. ASSUME \A k \in DOMAIN input' : FromSender(input'[k]),
             \A k \in DOMAIN mem' : FromSender(mem'[k]),
             \A k \in DOMAIN fwd' : Sent(fwd'[k]),
             turn' # None => Sent(turn'),
             \A k \in DOMAIN pending' : pending'[k] \in tried
      PROVE  SenderInv'
  BY <1>0, <1>1 DEF SenderInv, FromSender, Sent
<1>2. /\ \A k \in DOMAIN input : FromSender(input[k])
      /\ \A k \in DOMAIN mem : FromSender(mem[k])
      /\ \A k \in DOMAIN fwd : Sent(fwd[k])
      /\ turn # None => Sent(turn)
      /\ \A k \in DOMAIN pending : pending[k] \in tried
  BY DEF SenderInv
<1>3. input # <<>> => /\ FromSender(Head(input))
                      /\ \A k \in DOMAIN Tail(input) : FromSender(Tail(input)[k])
  <2>. SUFFICES ASSUME input # <<>>
                PROVE  FromSender(Head(input)) /\ \A k \in DOMAIN Tail(input) : FromSender(Tail(input)[k])
    OBVIOUS
  <2>1. /\ Head(input) = input[1] /\ Len(input) \in Nat \ {0} /\ Len(Tail(input)) = Len(input) - 1
        /\ \A k \in 1..Len(Tail(input)) : Tail(input)[k] = input[k + 1]
        /\ DOMAIN input = 1..Len(input) /\ DOMAIN Tail(input) = 1..Len(Tail(input))
    BY HeadTail DEF TypeInv, TypeOK, AgentTypeOK
  <2>2. FromSender(Head(input))
    BY <1>2, <2>1
  <2>3. ASSUME NEW k \in DOMAIN Tail(input) PROVE FromSender(Tail(input)[k])
    <3>1. k + 1 \in DOMAIN input /\ Tail(input)[k] = input[k + 1]
      BY <2>1
    <3>. QED
      BY <1>2, <3>1
  <2>. QED
    BY <2>2, <2>3
<1>4. CASE UNCHANGED <<input, mem, fwd, turn, pending>>
  BY <1>1, <1>2, <1>4
<1>5. CASE StartUp \/ PromptBlocked \/ TopStops \/ CallModel
  BY <1>4, <1>5 DEF StartUp, PromptBlocked, TopStops, CallModel
<1>6. ASSUME NEW b \in BOOLEAN, ModelFails(b) \/ ToolReply(b) PROVE SenderInv'
  BY <1>4, <1>6 DEF ModelFails, ToolReply
<1>7. ASSUME NEW t \in {"top", "last", "close"}, TextReply(t) PROVE SenderInv'
  BY <1>4, <1>7 DEF TextReply
<1>8. CASE ExitLoop
  <2>1. fwd' = <<>> /\ UNCHANGED <<input, mem, turn, pending>>
    BY <1>8 DEF ExitLoop
  <2>. QED
    BY <1>1, <1>2, <2>1
<1>9. ASSUME NEW l \in BOOLEAN, BeginTurn(l) PROVE SenderInv'
  <2>1. fwd # <<>> /\ turn' = Head(fwd) /\ fwd' = Tail(fwd) /\ UNCHANGED <<input, mem, pending>>
    BY <1>9 DEF BeginTurn
  <2>2. /\ Head(fwd) = fwd[1] /\ Len(fwd) \in Nat \ {0} /\ Len(fwd') = Len(fwd) - 1
        /\ \A k \in 1..Len(fwd') : fwd'[k] = fwd[k + 1]
        /\ DOMAIN fwd = 1..Len(fwd) /\ DOMAIN fwd' = 1..Len(fwd')
    BY <2>1, HeadTail DEF TypeInv, TypeOK, AgentTypeOK
  <2>3. 1 \in DOMAIN fwd /\ \A k \in DOMAIN fwd' : k + 1 \in DOMAIN fwd /\ fwd'[k] = fwd[k + 1]
    BY <2>2
  <2>4. Sent(turn') /\ \A k \in DOMAIN fwd' : Sent(fwd'[k])
    BY <1>2, <2>1, <2>2, <2>3
  <2>. QED
    BY <1>1, <1>2, <2>1, <2>4
<1>10. CASE PushUserMessage
  <2>1. phase = "submit" /\ mem' = Append(mem, UserMsg(turn)) /\ UNCHANGED <<input, fwd, turn, pending>>
    BY <1>10 DEF PushUserMessage
  <2>2. turn # None /\ turn \in Calls
    BY <2>1 DEF TypeInv, TypeOK, AgentTypeOK, TurnRuns, TurnPhases, Phases
  <2>3. FromSender(UserMsg(turn)) /\ UserMsg(turn) \in Entries
    BY <1>2, <2>2, MessageKinds DEF FromSender, UserMsg
  <2>4. \A k \in DOMAIN mem' : (k \in DOMAIN mem /\ mem'[k] = mem[k]) \/ mem'[k] = UserMsg(turn)
    BY <2>1, <2>3 DEF TypeInv, TypeOK, AgentTypeOK
  <2>5. \A k \in DOMAIN mem' : FromSender(mem'[k])
    BY <1>2, <2>3, <2>4
  <2>. QED
    BY <1>1, <1>2, <2>1, <2>5
<1>11. CASE StepBoundary \/ LastBoundary
  <2>1. UNCHANGED <<input, fwd, turn>> /\ (DeliverQueued \/ UNCHANGED <<mem, pending>>)
    BY <1>11 DEF StepBoundary, LastBoundary
  <2>2. CASE DeliverQueued
    <3>1. /\ Len(mem) \in Nat /\ Len(pending) \in Nat
          /\ DOMAIN mem = 1..Len(mem) /\ DOMAIN pending = 1..Len(pending)
          /\ DOMAIN mem' = 1..(Len(mem) + Len(pending))
          /\ \A k \in 1..Len(mem) : mem'[k] = mem[k]
          /\ \A k \in 1..Len(pending) : mem'[Len(mem) + k] = SteerMsg(pending[k])
          /\ pending' = <<>>
      BY <2>2, DeliverQueuedAdds
    <3>2. ASSUME NEW k \in DOMAIN mem' PROVE FromSender(mem'[k])
      <4>1. CASE k \in 1..Len(mem)
        BY <1>2, <3>1, <4>1
      <4>2. CASE k \notin 1..Len(mem)
        <5>1. k - Len(mem) \in 1..Len(pending) /\ Len(mem) + (k - Len(mem)) = k
          BY <3>1, <4>2
        <5>2. PICK j \in 1..Len(pending) : mem'[k] = SteerMsg(pending[j])
          BY <3>1, <5>1
        <5>3. pending[j] \in tried
          BY <1>2, <3>1
        <5>. QED
          BY <5>2, <5>3 DEF FromSender, SteerMsg
      <4>. QED
        BY <4>1, <4>2
    <3>3. \A k \in DOMAIN pending' : pending'[k] \in tried
      BY <3>1
    <3>. QED
      BY <1>1, <1>2, <2>1, <3>2, <3>3
  <2>3. CASE UNCHANGED <<mem, pending>>
    BY <1>4, <2>1, <2>3
  <2>. QED
    BY <2>1, <2>2, <2>3
<1>12. CASE CloseSteering
  <2>1. pending' = <<>> /\ UNCHANGED <<input, mem, fwd, turn>>
    BY <1>12 DEF CloseSteering
  <2>. QED
    BY <1>1, <1>2, <2>1
<1>13. CASE FinishTurn
  <2>1. turn' = None /\ UNCHANGED <<input, mem, fwd, pending>>
    BY <1>13 DEF FinishTurn, Persist, Saves
  <2>. QED
    BY <1>1, <1>2, <2>1
<1>14. CASE DemuxSteer
  <2>1. /\ input # <<>> /\ input' = Tail(input) /\ Head(input).kind = "steer"
        /\ pending' = pending \/ pending' = Append(pending, Head(input).id)
        /\ UNCHANGED <<mem, fwd, turn>>
    BY <1>14 DEF DemuxSteer, Offer
  <2>2. PICK c \in Calls : c = Head(input).id
    BY <2>1, HeadTail, MessageKinds DEF TypeInv, TypeOK, AgentTypeOK
  <2>3. c \in tried
    BY <1>3, <2>1, <2>2 DEF FromSender
  <2>4. \A k \in DOMAIN pending' : (k \in DOMAIN pending /\ pending'[k] = pending[k]) \/ pending'[k] = c
    <3>1. CASE pending' = pending
      BY <3>1
    <3>2. CASE pending' = Append(pending, c)
      BY <3>2 DEF TypeInv, TypeOK, AgentTypeOK
    <3>. QED
      BY <2>1, <2>2, <3>1, <3>2
  <2>5. \A k \in DOMAIN pending' : pending'[k] \in tried
    BY <1>2, <2>3, <2>4
  <2>. QED
    BY <1>1, <1>2, <1>3, <2>1, <2>5
<1>15. CASE DemuxCancel
  <2>1. input # <<>> /\ input' = Tail(input) /\ UNCHANGED <<mem, fwd, turn, pending>>
    BY <1>15 DEF DemuxCancel
  <2>. QED
    BY <1>1, <1>2, <1>3, <2>1
<1>16. CASE DemuxForward
  <2>1. /\ input # <<>> /\ input' = Tail(input) /\ Head(input).kind = "user"
        /\ fwd' = Append(fwd, Head(input).id) /\ UNCHANGED <<mem, turn, pending>>
    BY <1>16 DEF DemuxForward
  <2>2. PICK c \in Calls : c = Head(input).id
    BY <2>1, HeadTail, MessageKinds DEF TypeInv, TypeOK, AgentTypeOK
  <2>3. Sent(c)
    BY <1>3, <2>1, <2>2 DEF FromSender
  <2>4. \A k \in DOMAIN fwd' : (k \in DOMAIN fwd /\ fwd'[k] = fwd[k]) \/ fwd'[k] = c
    BY <2>1, <2>2 DEF TypeInv, TypeOK, AgentTypeOK
  <2>5. \A k \in DOMAIN fwd' : Sent(fwd'[k])
    BY <1>2, <2>3, <2>4
  <2>. QED
    BY <1>1, <1>2, <1>3, <2>1, <2>5
<1>17. CASE DemuxEnds
  <2>1. input' = <<>> /\ UNCHANGED <<mem, fwd, turn, pending>>
    BY <1>17 DEF DemuxEnds
  <2>2. \A k \in DOMAIN input' : FromSender(input'[k])
    BY <2>1
  <2>. QED
    BY <1>1, <1>2, <2>1, <2>2
<1>. QED
  BY <1>5, <1>6, <1>7, <1>8, <1>9, <1>10, <1>11, <1>12, <1>13, <1>14, <1>15, <1>16, <1>17
  DEF Engine, AgentLoopStep, TurnStep, Demultiplex

\* Every message in a channel, a queue or the conversation has a sender.
THEOREM SenderInvariant == Spec => []SenderInv
<1>1. Init => SenderInv
  BY DEF Init, AgentInit, SenderInv
<1>2. TypeInv /\ SenderInv /\ [Next]_vars => SenderInv'
  <2>. SUFFICES ASSUME TypeInv, SenderInv, [Next]_vars PROVE SenderInv'
    OBVIOUS
  <2>1. CASE UNCHANGED vars
    BY <2>1 DEF vars, agentVars, poolVars, callVars, SenderInv, FromSender, Sent
  <2>. QED
    BY <2>1, PoolKeepsSender, EngineKeepsSender DEF Next, AllDone
<1>. QED
  BY <1>1, <1>2, TypeCorrect, PTL DEF Spec

-----------------------------------------------------------------------------
(* A steered message has one place.                                        *)

\* What is in a sequence after an element is added at its end.
LEMMA AppendPlaces ==
  ASSUME NEW S, NEW s \in Seq(S), NEW e \in S, NEW x
  PROVE  /\ x # e /\ Absent(x, s) => Absent(x, Append(s, e))
         /\ x # e /\ Once(x, s) => Once(x, Append(s, e))
         /\ x = e /\ Absent(x, s) => Once(x, Append(s, e))
<1>. DEFINE t == Append(s, e)
<1>1. /\ Len(s) \in Nat /\ DOMAIN s = 1..Len(s) /\ DOMAIN t = 1..(Len(s) + 1)
      /\ t[Len(s) + 1] = e /\ \A k \in 1..Len(s) : t[k] = s[k]
  OBVIOUS
<1>. HIDE DEF t
<1>2. x # e /\ Absent(x, s) => Absent(x, t)
  BY <1>1 DEF Absent
<1>3. ASSUME x # e, Once(x, s) PROVE Once(x, t)
  <2>1. PICK k \in DOMAIN s : \A j \in DOMAIN s : s[j] = x <=> j = k
    BY <1>3 DEF Once
  <2>2. k \in DOMAIN t /\ \A j \in DOMAIN t : t[j] = x <=> j = k
    BY <1>1, <1>3, <2>1
  <2>. QED
    BY <2>2 DEF Once
<1>4. ASSUME x = e, Absent(x, s) PROVE Once(x, t)
  <2>1. Len(s) + 1 \in DOMAIN t /\ \A j \in DOMAIN t : t[j] = x <=> j = Len(s) + 1
    BY <1>1, <1>4 DEF Absent
  <2>. QED
    BY <2>1 DEF Once
<1>. QED
  BY <1>2, <1>3, <1>4 DEF t

\* What is in a sequence after its first element is taken.
LEMMA TailPlaces ==
  ASSUME NEW S, NEW s \in Seq(S), s # <<>>, NEW x
  PROVE  /\ Absent(x, s) => Absent(x, Tail(s)) /\ Head(s) # x
         /\ Once(x, s) /\ Head(s) = x => Absent(x, Tail(s))
         /\ Once(x, s) /\ Head(s) # x => Once(x, Tail(s))
<1>. DEFINE t == Tail(s)
<1>1. /\ Head(s) = s[1] /\ Len(s) \in Nat \ {0} /\ Len(t) = Len(s) - 1
      /\ \A k \in 1..Len(t) : t[k] = s[k + 1]
      /\ DOMAIN s = 1..Len(s) /\ DOMAIN t = 1..Len(t)
  BY HeadTail
<1>. HIDE DEF t
<1>2. 1 \in DOMAIN s /\ \A k \in DOMAIN t : k + 1 \in DOMAIN s /\ t[k] = s[k + 1] /\ k + 1 # 1
  BY <1>1
<1>3. Absent(x, s) => Absent(x, t) /\ Head(s) # x
  BY <1>1, <1>2 DEF Absent
<1>4. ASSUME Once(x, s), Head(s) = x PROVE Absent(x, t)
  <2>1. PICK k \in DOMAIN s : \A j \in DOMAIN s : s[j] = x <=> j = k
    BY <1>4 DEF Once
  <2>2. k = 1
    BY <1>1, <1>2, <1>4, <2>1
  <2>. QED
    BY <1>2, <2>1, <2>2 DEF Absent
<1>5. ASSUME Once(x, s), Head(s) # x PROVE Once(x, t)
  <2>1. PICK k \in DOMAIN s : \A j \in DOMAIN s : s[j] = x <=> j = k
    BY <1>5 DEF Once
  <2>2. k # 1
    BY <1>1, <1>5, <2>1
  <2>3. k - 1 \in DOMAIN t
    BY <1>1, <2>2
  <2>4. ASSUME NEW j \in DOMAIN t PROVE t[j] = x <=> j = k - 1
    <3>1. t[j] = x <=> j + 1 = k
      BY <1>2, <2>1
    <3>. QED
      BY <1>1, <3>1
  <2>. QED
    BY <2>3, <2>4 DEF Once
<1>. QED
  BY <1>3, <1>4, <1>5 DEF t

\* Nothing is in the empty sequence.
LEMMA EmptyPlaces == \A x : Absent(x, <<>>)
BY DEF Absent

\* Two Steers are one message only if one call sent them.
LEMMA SteersDiffer ==
  \A a, b : /\ SteerMsg(a) = SteerMsg(b) <=> a = b
            /\ SteerMsg(a) # UserMsg(b) /\ SteerMsg(a) # CancelMsg
BY DEF SteerMsg, UserMsg, CancelMsg

\* The queue joins the conversation: what was queued once is read once.
LEMMA DeliverQueuedPlaces ==
  ASSUME TypeInv, DeliverQueued, NEW c \in Calls
  PROVE  /\ Absent(c, pending) /\ Absent(SteerMsg(c), mem) => Absent(SteerMsg(c), mem')
         /\ Absent(c, pending) /\ Once(SteerMsg(c), mem) => Once(SteerMsg(c), mem')
         /\ Once(c, pending) /\ Absent(SteerMsg(c), mem) => Once(SteerMsg(c), mem')
<1>1. /\ Len(mem) \in Nat /\ Len(pending) \in Nat
      /\ DOMAIN mem = 1..Len(mem) /\ DOMAIN pending = 1..Len(pending)
      /\ DOMAIN mem' = 1..(Len(mem) + Len(pending))
      /\ \A k \in 1..Len(mem) : mem'[k] = mem[k]
      /\ \A k \in 1..Len(pending) : mem'[Len(mem) + k] = SteerMsg(pending[k])
  BY DeliverQueuedAdds
<1>2. \A k \in DOMAIN mem' : k \notin DOMAIN mem =>
        k - Len(mem) \in DOMAIN pending /\ mem'[k] = SteerMsg(pending[k - Len(mem)])
  <2>. SUFFICES ASSUME NEW k \in DOMAIN mem', k \notin DOMAIN mem
                PROVE  k - Len(mem) \in DOMAIN pending /\ mem'[k] = SteerMsg(pending[k - Len(mem)])
    OBVIOUS
  <2>1. k - Len(mem) \in 1..Len(pending)
    BY <1>1
  <2>2. PICK j \in 1..Len(pending) : j = k - Len(mem)
    BY <2>1
  <2>3. Len(mem) + j = k
    BY <1>1, <2>2
  <2>. QED
    BY <1>1, <2>2, <2>3
<1>3. PICK x : x = SteerMsg(c)
  OBVIOUS
<1>4. \A k \in DOMAIN pending : SteerMsg(pending[k]) = x <=> pending[k] = c
  BY <1>3, SteersDiffer
<1>5. Absent(c, pending) /\ Absent(x, mem) => Absent(x, mem')
  BY <1>1, <1>2, <1>4 DEF Absent
<1>6. ASSUME Absent(c, pending), Once(x, mem) PROVE Once(x, mem')
  <2>1. PICK k \in DOMAIN mem : \A j \in DOMAIN mem : mem[j] = x <=> j = k
    BY <1>6 DEF Once
  <2>2. k \in DOMAIN mem'
    BY <1>1
  <2>3. ASSUME NEW j \in DOMAIN mem' PROVE mem'[j] = x <=> j = k
    <3>1. CASE j \in DOMAIN mem
      BY <1>1, <2>1, <3>1
    <3>2. CASE j \notin DOMAIN mem
      BY <1>2, <1>4, <1>6, <3>2 DEF Absent
    <3>. QED
      BY <3>1, <3>2
  <2>. QED
    BY <2>2, <2>3 DEF Once
<1>7. ASSUME Once(c, pending), Absent(x, mem) PROVE Once(x, mem')
  <2>1. PICK k \in DOMAIN pending : \A j \in DOMAIN pending : pending[j] = c <=> j = k
    BY <1>7 DEF Once
  <2>2. PICK n : n = Len(mem) + k
    OBVIOUS
  <2>3. n \in DOMAIN mem' /\ n \notin DOMAIN mem
    BY <1>1, <2>2
  <2>4. ASSUME NEW j \in DOMAIN mem' PROVE mem'[j] = x <=> j = n
    <3>1. CASE j \in DOMAIN mem
      <4>1. mem'[j] # x
        BY <1>1, <1>7, <3>1 DEF Absent
      <4>. QED
        BY <2>3, <3>1, <4>1
    <3>2. CASE j \notin DOMAIN mem
      <4>1. j - Len(mem) \in DOMAIN pending /\ mem'[j] = SteerMsg(pending[j - Len(mem)])
        BY <1>2, <3>2
      <4>2. mem'[j] = x <=> j - Len(mem) = k
        BY <1>4, <2>1, <4>1
      <4>. QED
        BY <1>1, <2>2, <4>1, <4>2
    <3>. QED
      BY <3>1, <3>2
  <2>. QED
    BY <2>3, <2>4 DEF Once
<1>. QED
  BY <1>3, <1>5, <1>6, <1>7

\* The facts about call c, after a step, from what the step did to each place.
LEMMA KeepsPlace ==
  ASSUME NEW c \in Calls, OnePlace(c),
         UNCHANGED <<pending, mem, accepted, returned>>, c \in tried => c \in tried',
         \/ Absent(SteerMsg(c), input) /\ Absent(SteerMsg(c), input')
         \/ Once(SteerMsg(c), input) /\ (Once(SteerMsg(c), input') \/ Absent(SteerMsg(c), input'))
         \/ /\ c \notin tried /\ c \in tried'
            /\ Absent(SteerMsg(c), input') \/ Once(SteerMsg(c), input')
  PROVE  OnePlace(c)'
<1>1. PICK x : x = SteerMsg(c)
  OBVIOUS
<1>2. x = SteerMsg(c)'
  BY <1>1 DEF SteerMsg
<1>3. ~(Absent(x, input) /\ Once(x, input))
  BY DEF Absent, Once
<1>4. (Nowhere(c) => Nowhere(c)') /\ (Queued(c) => Queued(c)')
  BY DEF Nowhere, Queued
<1>5. (Read(c) => Read(c)') /\ (Returned(c) => Returned(c)')
  BY DEF Read, Returned
<1>. QED
  BY <1>1, <1>2, <1>3, <1>4, <1>5 DEF OnePlace

\* The steps of the pool keep the one place of a steering message: a call that pushes has none.
LEMMA PoolKeepsSteer ==
  ASSUME TypeInv, SteerInv,
         \/ \E c \in Calls : RunTurn(c) \/ SteerTimeout(c)
         \/ \E i \in Interrupts : InterruptRead(i) \/ InterruptSend(i)
         \/ RemoveSession
  PROVE  SteerInv'
<1>. SUFFICES ASSUME NEW c \in Calls PROVE OnePlace(c)'
  BY DEF SteerInv
<1>. OnePlace(c)
  BY DEF SteerInv
<1>1. Absent(SteerMsg(c), input) \/ Once(SteerMsg(c), input)
  BY DEF OnePlace
<1>2. ASSUME NEW m \in Messages, Deliver(m)
      PROVE  /\ m # SteerMsg(c) => /\ Absent(SteerMsg(c), input) => Absent(SteerMsg(c), input')
                                   /\ Once(SteerMsg(c), input) => Once(SteerMsg(c), input')
             /\ Absent(SteerMsg(c), input) =>
                  Absent(SteerMsg(c), input') \/ Once(SteerMsg(c), input')
  <2>1. CASE demux = "gone"
    BY <1>2, <2>1 DEF Deliver
  <2>2. CASE demux # "gone"
    <3>1. input' = Append(input, m) /\ input \in Seq(Messages)
      BY <1>2, <2>2 DEF Deliver, TypeInv, TypeOK, AgentTypeOK
    <3>. QED
      BY <3>1, AppendPlaces
  <2>. QED
    BY <2>1, <2>2
<1>3. CASE UNCHANGED <<input, pending, mem, accepted, returned, tried>>
  BY <1>1, <1>3, KeepsPlace
<1>4. ASSUME NEW b \in Calls, Steer(b) PROVE OnePlace(c)'
  <2>1. /\ b \notin tried /\ tried' = tried \cup {b} /\ Deliver(SteerMsg(b))
        /\ UNCHANGED <<pending, mem, accepted, returned>> /\ SteerMsg(b) \in Messages
    BY <1>4, MessageKinds DEF Steer
  <2>2. CASE b = c
    <3>1. Absent(SteerMsg(c), input)
      BY <2>1, <2>2 DEF OnePlace
    <3>2. Absent(SteerMsg(c), input') \/ Once(SteerMsg(c), input')
      BY <1>2, <2>1, <3>1
    <3>. QED
      BY <2>1, <2>2, <3>2, KeepsPlace
  <2>3. CASE b # c
    <3>1. SteerMsg(b) # SteerMsg(c)
      BY <2>3, SteersDiffer
    <3>. QED
      BY <1>1, <1>2, <2>1, <3>1, KeepsPlace
  <2>. QED
    BY <2>2, <2>3
<1>5. ASSUME NEW b \in Calls, Send(b) PROVE OnePlace(c)'
  <2>1. /\ Deliver(UserMsg(b)) /\ UserMsg(b) \in Messages /\ UserMsg(b) # SteerMsg(c)
        /\ UNCHANGED <<pending, mem, accepted, returned, tried>>
    BY <1>5, MessageKinds, SteersDiffer DEF Send
  <2>. QED
    BY <1>1, <1>2, <2>1, KeepsPlace
<1>6. ASSUME NEW i \in Interrupts, InterruptSend(i) PROVE OnePlace(c)'
  <2>1. /\ Deliver(CancelMsg) /\ CancelMsg \in Messages /\ CancelMsg # SteerMsg(c)
        /\ UNCHANGED <<pending, mem, accepted, returned, tried>>
    BY <1>6, MessageKinds, SteersDiffer DEF InterruptSend, callVars
  <2>. QED
    BY <1>1, <1>2, <2>1, KeepsPlace
<1>7. ASSUME NEW b \in Calls,
             \/ LookUp(b) \/ TakeSlot(b) \/ Reject(b) \/ SteerAccepted(b) \/ SteerRefused(b)
             \/ Wait(b) \/ WakeUp(b) \/ Mark(b) \/ Stream(b) \/ EngineGone(b) \/ GiveBack(b)
             \/ ClearCurrent(b) \/ SteerTimeout(b)
      PROVE  UNCHANGED <<input, pending, mem, accepted, returned, tried>>
  BY <1>7 DEF LookUp, TakeSlot, Reject, SteerAccepted, SteerRefused, Wait, WakeUp, Mark,
              Stream, EngineGone, GiveBack, ClearCurrent, SteerTimeout, agentVars
<1>8. ASSUME RemoveSession \/ \E i \in Interrupts : InterruptRead(i)
      PROVE  UNCHANGED <<input, pending, mem, accepted, returned, tried>>
  BY <1>8 DEF RemoveSession, InterruptRead, agentVars, callVars
<1>9. ASSUME NEW b \in Calls, RunTurn(b) \/ SteerTimeout(b) PROVE OnePlace(c)'
  BY <1>3, <1>4, <1>5, <1>7, <1>9 DEF RunTurn
<1>. QED
  BY <1>3, <1>6, <1>8, <1>9

\* The steps of the engine move a steering message from one place to another, or use it up.
LEMMA EngineKeepsSteer ==
  ASSUME TypeInv, SteerInv, Engine
  PROVE  SteerInv'
<1>. SUFFICES ASSUME NEW c \in Calls PROVE OnePlace(c)'
  BY DEF SteerInv
<1>. OnePlace(c)
  BY DEF SteerInv
<1>0. UNCHANGED tried
  BY DEF Engine, callVars
<1>1. Absent(SteerMsg(c), input) \/ Once(SteerMsg(c), input)
  BY DEF OnePlace
<1>2. CASE UNCHANGED <<input, pending, mem, accepted, returned>>
  BY <1>0, <1>1, <1>2, KeepsPlace
<1>3. CASE StartUp \/ ExitLoop \/ PromptBlocked \/ TopStops \/ CallModel \/ FinishTurn
  BY <1>2, <1>3 DEF StartUp, ExitLoop, PromptBlocked, TopStops, CallModel, FinishTurn
<1>4. ASSUME NEW b \in BOOLEAN, BeginTurn(b) \/ ModelFails(b) \/ ToolReply(b) PROVE OnePlace(c)'
  BY <1>2, <1>4 DEF BeginTurn, ModelFails, ToolReply
<1>5. ASSUME NEW t \in {"top", "last", "close"}, TextReply(t) PROVE OnePlace(c)'
  BY <1>2, <1>5 DEF TextReply
<1>6. CASE PushUserMessage
  <2>1. phase = "submit" /\ mem' = Append(mem, UserMsg(turn))
        /\ UNCHANGED <<input, pending, accepted, returned, turn>>
    BY <1>6 DEF PushUserMessage
  <2>2. turn \in Calls /\ mem \in Seq(Entries) /\ UserMsg(turn) \in Entries
    BY <2>1, MessageKinds DEF TypeInv, TypeOK, AgentTypeOK, TurnRuns, TurnPhases, Phases
  <2>3. SteerMsg(c) # UserMsg(turn)
    BY SteersDiffer
  <2>4. /\ Absent(SteerMsg(c), mem) => Absent(SteerMsg(c), mem')
        /\ Once(SteerMsg(c), mem) => Once(SteerMsg(c), mem')
    BY <2>1, <2>2, <2>3, AppendPlaces
  <2>. QED
    BY <1>0, <2>1, <2>4 DEF OnePlace, Nowhere, Queued, Read, Returned, SteerMsg
<1>7. CASE StepBoundary \/ LastBoundary
  <2>1. /\ UNCHANGED <<input, accepted, returned>>
        /\ DeliverQueued \/ UNCHANGED <<mem, pending>>
    BY <1>7 DEF StepBoundary, LastBoundary
  <2>2. CASE DeliverQueued
    <3>1. /\ Absent(c, pending) /\ Absent(SteerMsg(c), mem) => Absent(SteerMsg(c), mem')
          /\ Absent(c, pending) /\ Once(SteerMsg(c), mem) => Once(SteerMsg(c), mem')
          /\ Once(c, pending) /\ Absent(SteerMsg(c), mem) => Once(SteerMsg(c), mem')
      BY <2>2, DeliverQueuedPlaces
    <3>2. Absent(c, pending')
      BY <2>2, EmptyPlaces DEF DeliverQueued
    <3>. QED
      BY <1>0, <2>1, <3>1, <3>2 DEF OnePlace, Nowhere, Queued, Read, Returned, SteerMsg
  <2>. QED
    BY <1>2, <2>1, <2>2
<1>8. CASE CloseSteering
  <2>1. /\ pending' = <<>> /\ returned' = returned \cup ToSet(pending)
        /\ UNCHANGED <<input, mem, accepted>>
    BY <1>8 DEF CloseSteering
  <2>2. Absent(c, pending')
    BY <2>1, EmptyPlaces
  <2>3. (Absent(c, pending) => c \notin ToSet(pending)) /\ (Once(c, pending) => c \in ToSet(pending))
    BY DEF Absent, Once, ToSet
  <2>. QED
    BY <1>0, <2>1, <2>2, <2>3 DEF OnePlace, Nowhere, Queued, Read, Returned, SteerMsg
<1>9. CASE DemuxSteer
  <2>1. input # <<>> /\ input' = Tail(input) /\ Head(input).kind = "steer" /\ UNCHANGED <<mem, returned>>
    BY <1>9 DEF DemuxSteer
  <2>2. PICK b \in Calls : Head(input) = SteerMsg(b) /\ b = Head(input).id
    <3>1. Head(input) \in Messages
      BY <2>1, HeadTail DEF TypeInv, TypeOK, AgentTypeOK
    <3>. QED
      BY <2>1, <3>1 DEF Messages, SteerMsg, UserMsg, CancelMsg
  <2>3. \/ UNCHANGED <<pending, accepted>>
        \/ pending' = Append(pending, b) /\ accepted' = accepted \cup {b}
    BY <1>9, <2>2 DEF DemuxSteer, Offer
  <2>4. /\ Absent(SteerMsg(c), input) => Absent(SteerMsg(c), input') /\ Head(input) # SteerMsg(c)
        /\ Once(SteerMsg(c), input) /\ Head(input) = SteerMsg(c) => Absent(SteerMsg(c), input')
        /\ Once(SteerMsg(c), input) /\ Head(input) # SteerMsg(c) => Once(SteerMsg(c), input')
    BY <2>1, TailPlaces DEF TypeInv, TypeOK, AgentTypeOK
  <2>5. CASE UNCHANGED <<pending, accepted>>
    BY <1>0, <1>1, <2>1, <2>4, <2>5, KeepsPlace
  <2>6. CASE pending' = Append(pending, b) /\ accepted' = accepted \cup {b}
    <3>1. pending \in Seq(Calls)
      BY DEF TypeInv, TypeOK, AgentTypeOK
    <3>2. CASE b = c
      <4>1. Once(SteerMsg(c), input) /\ c \notin accepted /\ Absent(SteerMsg(c), input') /\ c \in tried
        BY <2>2, <2>4, <3>2 DEF OnePlace
      <4>2. Nowhere(c)
        BY <4>1 DEF OnePlace
      <4>3. Once(c, pending')
        BY <2>6, <3>1, <3>2, <4>2, AppendPlaces DEF Nowhere
      <4>4. Queued(c)'
        BY <2>1, <4>2, <4>3 DEF Nowhere, Queued, SteerMsg
      <4>. QED
        BY <1>0, <2>6, <3>2, <4>1, <4>4 DEF OnePlace, SteerMsg
    <3>3. CASE b # c
      <4>1. (Absent(c, pending) => Absent(c, pending')) /\ (Once(c, pending) => Once(c, pending'))
        BY <2>6, <3>1, <3>3, AppendPlaces
      <4>2. Head(input) # SteerMsg(c)
        BY <2>2, <3>3, SteersDiffer
      <4>3. /\ Absent(SteerMsg(c), input) => Absent(SteerMsg(c), input')
            /\ Once(SteerMsg(c), input) => Once(SteerMsg(c), input')
        BY <2>4, <4>2
      <4>4. c \in accepted' <=> c \in accepted
        BY <2>6, <3>3
      <4>. QED
        BY <1>0, <2>1, <4>1, <4>3, <4>4 DEF OnePlace, Nowhere, Queued, Read, Returned, SteerMsg
    <3>. QED
      BY <3>2, <3>3
  <2>. QED
    BY <2>3, <2>5, <2>6
<1>10. CASE DemuxCancel \/ DemuxForward
  <2>1. /\ input # <<>> /\ input' = Tail(input) /\ Head(input).kind # "steer"
        /\ UNCHANGED <<pending, mem, accepted, returned>>
    BY <1>10 DEF DemuxCancel, DemuxForward
  <2>2. Head(input) # SteerMsg(c)
    BY <2>1 DEF SteerMsg
  <2>3. /\ Absent(SteerMsg(c), input) => Absent(SteerMsg(c), input')
        /\ Once(SteerMsg(c), input) => Once(SteerMsg(c), input')
    BY <2>1, <2>2, TailPlaces DEF TypeInv, TypeOK, AgentTypeOK
  <2>. QED
    BY <1>0, <1>1, <2>1, <2>3, KeepsPlace
<1>11. CASE DemuxEnds
  <2>1. Absent(SteerMsg(c), input') /\ UNCHANGED <<pending, mem, accepted, returned>>
    BY <1>11, EmptyPlaces DEF DemuxEnds
  <2>. QED
    BY <1>0, <1>1, <2>1, KeepsPlace
<1>. QED
  BY <1>3, <1>4, <1>5, <1>6, <1>7, <1>8, <1>9, <1>10, <1>11
  DEF Engine, AgentLoopStep, TurnStep, Demultiplex

\* A steered message is in one place, however late its Steer was read.
THEOREM SteerInvariant == Spec => []SteerInv
<1>1. Init => SteerInv
  BY EmptyPlaces DEF Init, AgentInit, SteerInv, OnePlace, Nowhere
<1>2. TypeInv /\ SteerInv /\ [Next]_vars => SteerInv'
  <2>. SUFFICES ASSUME TypeInv, SteerInv, [Next]_vars PROVE SteerInv'
    OBVIOUS
  <2>1. CASE UNCHANGED vars
    BY <2>1 DEF vars, agentVars, callVars, SteerInv, OnePlace, Nowhere, Queued, Read, Returned,
                SteerMsg
  <2>. QED
    BY <2>1, PoolKeepsSteer, EngineKeepsSteer DEF Next, AllDone
<1>. QED
  BY <1>1, <1>2, TypeCorrect, PTL DEF Spec

\* How often an element occurs, from whether it is absent or there once.
LEMMA CountIs ==
  ASSUME NEW x, NEW s
  PROVE  (Absent(x, s) => Count(x, s) = 0) /\ (Once(x, s) => Count(x, s) = 1)
<1>1. ASSUME Absent(x, s) PROVE Count(x, s) = 0
  <2>1. {k \in DOMAIN s : s[k] = x} = {}
    BY <1>1 DEF Absent
  <2>. QED
    BY <2>1, FS_EmptySet DEF Count
<1>2. ASSUME Once(x, s) PROVE Count(x, s) = 1
  <2>1. PICK k \in DOMAIN s : \A j \in DOMAIN s : s[j] = x <=> j = k
    BY <1>2 DEF Once
  <2>2. {j \in DOMAIN s : s[j] = x} = {k}
    BY <2>1
  <2>. QED
    BY <2>2, FS_Singleton DEF Count
<1>. QED
  BY <1>1, <1>2

(***************************************************************************)
(* Types; a call answered SESSION_BUSY left no message anywhere; a message *)
(* a turn accepted is in one place, once; and between turns the steering   *)
(* queue is closed and empty.                                              *)
(***************************************************************************)
THEOREM TurnsInvariant == Spec => []TurnsInv
<1>1. SteerInv => SteeredOnceOrReturned
  <2>. SUFFICES ASSUME SteerInv, NEW c \in Calls
                PROVE  Count(c, pending) + Count(SteerMsg(c), mem) + One(c \in returned)
                         = One(c \in accepted)
    BY DEF SteeredOnceOrReturned
  <2>1. OnePlace(c)
    BY DEF SteerInv
  <2>2. /\ Absent(c, pending) => Count(c, pending) = 0
        /\ Once(c, pending) => Count(c, pending) = 1
        /\ Absent(SteerMsg(c), mem) => Count(SteerMsg(c), mem) = 0
        /\ Once(SteerMsg(c), mem) => Count(SteerMsg(c), mem) = 1
    BY CountIs
  <2>. QED
    BY <2>1, <2>2 DEF OnePlace, Nowhere, Queued, Read, Returned, One
<1>2. TypeInv /\ SenderInv => RejectedIsNotRead
  <2>. SUFFICES ASSUME TypeInv, SenderInv, NEW c \in Calls, answer[c] = "busy"
                PROVE  /\ \A k \in DOMAIN input : input[k].id # c
                       /\ c \notin ToSet(fwd) /\ c \notin ToSet(pending)
                       /\ \A k \in DOMAIN mem : mem[k].id # c
    BY DEF RejectedIsNotRead
  <2>1. c \notin tried /\ ~Sent(c)
    BY DEF SenderInv, Sent
  <2>2. ASSUME NEW k \in DOMAIN input PROVE input[k].id # c
    <3>1. input[k] \in Messages /\ FromSender(input[k])
      BY DEF SenderInv, TypeInv, TypeOK, AgentTypeOK
    <3>. QED
      BY <2>1, <3>1, AgentAssumption DEF FromSender, Messages, UserMsg, SteerMsg, CancelMsg
  <2>3. ASSUME NEW k \in DOMAIN mem PROVE mem[k].id # c
    <3>1. mem[k] \in Entries /\ FromSender(mem[k])
      BY DEF SenderInv, TypeInv, TypeOK, AgentTypeOK
    <3>. QED
      BY <2>1, <3>1 DEF FromSender, Entries
  <2>4. c \notin ToSet(fwd) /\ c \notin ToSet(pending)
    BY <2>1 DEF SenderInv, ToSet
  <2>. QED
    BY <2>2, <2>3, <2>4
<1>3. QueueInv => NothingStranded
  BY DEF QueueInv, NothingStranded
<1>4. TypeInv => TypeOK
  BY DEF TypeInv
<1>. QED
  BY <1>1, <1>2, <1>3, <1>4, TypeCorrect, SteerInvariant, SenderInvariant, QueueInvariant, PTL
  DEF TurnsInv
=============================================================================

----------------------------- MODULE StreamExec -----------------------------
(***************************************************************************)
(* One model reply and the tools it asks for: execute_stream, which reads  *)
(* the reply and schedules the calls, drain_batch, which runs a batch of   *)
(* concurrency-safe ones, and execute_tool_inner, what one call does,      *)
(* permission prompt included (ChannelElicitation).                        *)
(*                                                                         *)
(* A call is named by its submission index; what it calls is a key, the    *)
(* (name, input) pair calls are deduplicated by.  A key has a rule, the    *)
(* (name, match content) pair that permissions are granted for.  Text,     *)
(* thinking and the messages a tool asks to inject are data; a hook's      *)
(* continue:false reaches the turn loop, whose choice to go on it becomes. *)
(***************************************************************************)
EXTENDS Naturals, Sequences, FiniteSets

CONSTANTS
  Keys,       \* (tool name, input) pairs
  Rules,      \* (tool name, match content) pairs
  RuleOf,     \* the rule of each key
  Safe,       \* keys whose tool is_concurrency_safe
  Allowed,    \* rules Permission::check permits
  Denied,     \* rules it denies; the others prompt
  MaxTools,   \* bound: tool calls in one reply
  Timeout     \* whether permission_prompt_timeout_secs is set

ASSUME StreamAssumption ==
  /\ RuleOf \in [Keys -> Rules]
  /\ Safe \subseteq Keys
  /\ Allowed \subseteq Rules /\ Denied \subseteq Rules
  /\ MaxTools \in Nat
  /\ Timeout \in BOOLEAN

Calls == 1..MaxTools

VARIABLES
  stage,      \* where execute_stream is
  asked,      \* the tool_use blocks of the reply: the key of each call
  batch,      \* batch_futures
  abort,      \* batch_abort.is_cancelled()
  tool,       \* where each call is in execute_tool_inner
  registered, \* prompts with a one-shot in pending_permissions
  decision,   \* what the one-shot of each prompt carries
  granted,    \* rules add_persistent_allow recorded
  consented,  \* history: calls the host permitted while it was asked
  results,    \* pending_result_blocks, in the order they were buffered
  cancelled,  \* the turn's token
  broken,     \* stream_error.is_some()
  written     \* the tool_result message: the submission indices in order

vars == <<stage, asked, batch, abort, tool, registered, decision,
          granted, consented, results, cancelled, broken, written>>

promptVars == <<registered, decision, granted, consented>>

Stages == {"stream", "barrier", "sequential", "final", "written"}
ToolStages == {"new", "queued", "hook", "prompt", "call", "ended"}
Decisions == {"permit", "always", "deny"}
Kinds == {"ok", "failed", "error", "aborted", "duplicate"}

Typed ==
  /\ stage \in Stages
  /\ asked \in Seq(Keys) /\ Len(asked) <= MaxTools
  /\ batch \subseteq Calls
  /\ abort \in BOOLEAN /\ cancelled \in BOOLEAN /\ broken \in BOOLEAN
  /\ tool \in [Calls -> ToolStages]
  /\ registered \subseteq Calls
  /\ decision \in [Calls -> Decisions \cup {"none"}]
  /\ granted \subseteq Rules
  /\ consented \subseteq Calls
  /\ results \in Seq([idx : Calls, kind : Kinds])

TypeOK == Typed /\ written \in Seq(Calls)

Init ==
  /\ stage = "stream"
  /\ asked = <<>>
  /\ batch = {} /\ abort = FALSE
  /\ tool = [i \in Calls |-> "new"]
  /\ registered = {} /\ decision = [i \in Calls |-> "none"]
  /\ granted = {} /\ consented = {}
  /\ results = <<>>
  /\ cancelled = FALSE /\ broken = FALSE
  /\ written = <<>>

\* The key and the rule of call i
Key(i)  == asked[i]
Rule(i) == RuleOf[asked[i]]

\* seen_tool_calls.contains(k)
Seen(k) == \E j \in DOMAIN asked : asked[j] = k

Goto(i, s) == tool' = [tool EXCEPT ![i] = s]

\* The one tool that is not in the batch: it runs behind the barrier.
Sequential == Len(asked)

(***************************************************************************)
(* A call runs only while somebody polls it: FuturesUnordered is polled in *)
(* drain_batch, before a sequential tool and at the end of the stream, and *)
(* nowhere else.                                                           *)
(***************************************************************************)
Polled(i) ==
  \/ stage \in {"barrier", "final"} /\ i \in batch
  \/ stage = "sequential" /\ i = Sequential

-----------------------------------------------------------------------------
(* Reading the stream.                                                     *)

\* buffer_result
Buffer(i, kind) == results' = Append(results, [idx |-> i, kind |-> kind])

\* Mutant: a duplicate is skipped without an answer.
ArriveDuplicateSilently(k) ==
  /\ stage = "stream" /\ ~cancelled /\ Len(asked) < MaxTools /\ Seen(k)
  /\ asked' = Append(asked, k)
  /\ Goto(Len(asked) + 1, "ended")
  /\ UNCHANGED <<stage, batch, abort, promptVars, results, cancelled, broken, written>>

\* A ToolUse whose key was seen before: recorded, answered, not run.
ArriveDuplicate(k) ==
  /\ stage = "stream" /\ ~cancelled /\ Len(asked) < MaxTools /\ Seen(k)
  /\ asked' = Append(asked, k)
  /\ Goto(Len(asked) + 1, "ended")
  /\ Buffer(Len(asked) + 1, "duplicate")
  /\ UNCHANGED <<stage, batch, abort, promptVars, cancelled, broken, written>>

\* A concurrency-safe ToolUse joins the batch.
ArriveSafe(k) ==
  /\ stage = "stream" /\ ~cancelled /\ Len(asked) < MaxTools
  /\ ~Seen(k) /\ k \in Safe
  /\ asked' = Append(asked, k)
  /\ Goto(Len(asked) + 1, "queued")
  /\ batch' = batch \cup {Len(asked) + 1}
  /\ UNCHANGED <<stage, abort, promptVars, results, cancelled, broken, written>>

\* Mutant: the batch is not drained first.
ArriveSequentialAtOnce(k) ==
  /\ stage = "stream" /\ ~cancelled /\ Len(asked) < MaxTools
  /\ ~Seen(k) /\ k \notin Safe
  /\ asked' = Append(asked, k)
  /\ Goto(Len(asked) + 1, "queued")
  /\ stage' = "sequential"
  /\ UNCHANGED <<batch, abort, promptVars, results, cancelled, broken, written>>

\* Any other ToolUse: the batch in flight drains first.
ArriveSequential(k) ==
  /\ stage = "stream" /\ ~cancelled /\ Len(asked) < MaxTools
  /\ ~Seen(k) /\ k \notin Safe
  /\ asked' = Append(asked, k)
  /\ Goto(Len(asked) + 1, "queued")
  /\ stage' = "barrier"
  /\ UNCHANGED <<batch, abort, promptVars, results, cancelled, broken, written>>

\* The stream ends, or an event finds the turn cancelled.
StreamEnds ==
  /\ stage = "stream"
  /\ stage' = "final"
  /\ UNCHANGED <<asked, batch, abort, tool, promptVars, results, cancelled, broken, written>>

\* The stream breaks off with an error: what is in the batch is aborted.
StreamFails ==
  /\ stage = "stream" /\ ~cancelled
  /\ stage' = "final"
  /\ broken' = TRUE
  /\ abort' = TRUE
  /\ UNCHANGED <<asked, batch, tool, promptVars, results, cancelled, written>>

\* drain_batch returns: the sequential tool's turn.
BarrierDrained ==
  /\ stage = "barrier" /\ batch = {}
  /\ stage' = "sequential"
  /\ UNCHANGED <<asked, batch, abort, tool, promptVars, results, cancelled, broken, written>>

\* results.sort_by_key(idx), which is stable: a result's place is the number of those that
\* come no later.
Place(r) ==
  Cardinality({q \in 1..Len(results) :
    \/ results[q].idx < results[r].idx
    \/ results[q].idx = results[r].idx /\ q <= r})

Sorted == [k \in 1..Len(results) |-> results[CHOOSE r \in 1..Len(results) : Place(r) = k]]

\* Mutant: completion order.
WriteUnsorted ==
  /\ stage = "final" /\ batch = {}
  /\ stage' = "written"
  /\ written' = [k \in 1..Len(results) |-> results[k].idx]
  /\ UNCHANGED <<asked, batch, abort, tool, promptVars, results, cancelled, broken>>

\* write_reply: the reply, then one message with the results in submission order.
WriteReply ==
  /\ stage = "final" /\ batch = {}
  /\ stage' = "written"
  /\ written' = [k \in 1..Len(results) |-> Sorted[k].idx]
  /\ UNCHANGED <<asked, batch, abort, tool, promptVars, results, cancelled, broken>>

-----------------------------------------------------------------------------
(* One call.                                                               *)

\* Mutant: the token of the batch before the barrier stays.
EndsKeepingToken(i, kind) ==
  /\ Goto(i, "ended")
  /\ Buffer(i, kind)
  /\ IF stage = "sequential"
     THEN stage' = "stream" /\ UNCHANGED <<batch, abort>>
     ELSE /\ batch' = batch \ {i}
          /\ abort' = (abort \/ kind \in {"error", "aborted"})
          /\ UNCHANGED stage

(***************************************************************************)
(* The future of call i resolves.  In a batch, an Err cancels the others;  *)
(* after a sequential tool, reading goes on with a fresh token and batch.  *)
(***************************************************************************)
Ends(i, kind) ==
  /\ Goto(i, "ended")
  /\ Buffer(i, kind)
  /\ IF stage = "sequential"
     THEN stage' = "stream" /\ batch' = {} /\ abort' = FALSE
     ELSE /\ batch' = batch \ {i}
          /\ abort' = (abort \/ kind \in {"error", "aborted"})
          /\ UNCHANGED stage

\* First poll: the PreToolUse hooks run.
Start(i) ==
  /\ Polled(i) /\ tool[i] = "queued"
  /\ Goto(i, "hook")
  /\ UNCHANGED <<stage, asked, batch, abort, promptVars, results, cancelled, broken, written>>

\* Tool not found, blocked by a hook, or denied by the rules.
Refused(i) ==
  /\ Polled(i) /\ tool[i] = "hook"
  /\ Ends(i, "error")
  /\ UNCHANGED <<asked, promptVars, cancelled, broken, written>>

\* Permission::check permits.
Permitted(i) ==
  /\ Polled(i) /\ tool[i] = "hook"
  /\ Rule(i) \in (Allowed \cup granted) \ Denied
  /\ Goto(i, "call")
  /\ UNCHANGED <<stage, asked, batch, abort, promptVars, results, cancelled, broken, written>>

\* Permission::check prompts: register, then emit PermissionPrompt.
Prompt(i) ==
  /\ Polled(i) /\ tool[i] = "hook"
  /\ Rule(i) \notin Allowed \cup granted \cup Denied
  /\ Goto(i, "prompt")
  /\ registered' = registered \cup {i}
  /\ UNCHANGED <<stage, asked, batch, abort, decision, granted,
                 consented, results, cancelled, broken, written>>

\* Mutant: the answer goes to every prompt that waits.
RespondToAll(i, d) ==
  /\ i \in registered
  /\ decision' = [j \in Calls |-> IF j \in registered THEN d ELSE decision[j]]
  /\ registered' = {}
  /\ consented' = IF d = "deny" THEN consented ELSE consented \cup {i}
  /\ UNCHANGED <<stage, asked, batch, abort, tool, granted, results, cancelled, broken, written>>

\* resolve_permission_response: the host answers a prompt that waits.
Respond(i, d) ==
  /\ i \in registered
  /\ decision' = [decision EXCEPT ![i] = d]
  /\ registered' = registered \ {i}
  /\ consented' = IF d = "deny" THEN consented ELSE consented \cup {i}
  /\ UNCHANGED <<stage, asked, batch, abort, tool, granted, results, cancelled, broken, written>>

\* An answer that comes twice or too late finds no registration.
RespondLate(i) ==
  /\ i \notin registered /\ tool[i] \in {"prompt", "call", "ended"}
  /\ UNCHANGED vars

\* Call i leaves its prompt: the one-shot and the registration go with it.
LeavePrompt(i) ==
  /\ registered' = registered \ {i}
  /\ decision' = [decision EXCEPT ![i] = "none"]

\* The host permits: PermitAlways also records the rule.
Approved(i) ==
  /\ Polled(i) /\ tool[i] = "prompt" /\ decision[i] \in {"permit", "always"}
  /\ Goto(i, "call")
  /\ granted' = IF decision[i] = "always" THEN granted \cup {Rule(i)} ELSE granted
  /\ LeavePrompt(i)
  /\ UNCHANGED <<stage, asked, batch, abort, consented, results, cancelled, broken, written>>

\* The prompt ends without consent.
Unapproved(i) ==
  /\ Polled(i) /\ tool[i] = "prompt"
  /\ Ends(i, "error")
  /\ LeavePrompt(i)
  /\ UNCHANGED <<asked, granted, consented, cancelled, broken, written>>

DeniedByHost(i) == decision[i] = "deny" /\ Unapproved(i)

\* Mutant: an unanswered prompt is taken for consent.
TimedOutOpen(i) ==
  /\ Timeout /\ Polled(i) /\ tool[i] = "prompt"
  /\ Goto(i, "call")
  /\ LeavePrompt(i)
  /\ UNCHANGED <<stage, asked, batch, abort, granted, consented, results,
                 cancelled, broken, written>>

\* Mutant: the timer is only looked at once the host has answered.
TimedOutTooLate(i) == Timeout /\ decision[i] # "none" /\ Unapproved(i)

\* permission_prompt_timeout_secs passed: fail closed.
TimedOut(i) == Timeout /\ Unapproved(i)

\* The turn was cancelled while the prompt waited.
WaitCancelled(i) == cancelled /\ Unapproved(i)

\* The tool ran; PostToolUse hooks may turn its result into an error.
CallEnds(i, kind) ==
  /\ Polled(i) /\ tool[i] = "call"
  /\ Ends(i, kind)
  /\ UNCHANGED <<asked, promptVars, cancelled, broken, written>>

(***************************************************************************)
(* The select sees the batch's token cancelled and drops the call wherever *)
(* it is.  The select is not biased: a call that is ready may still win.   *)
(***************************************************************************)
Aborted(i) ==
  /\ abort /\ i \in batch /\ Polled(i)
  /\ Ends(i, "aborted")
  /\ LeavePrompt(i)
  /\ UNCHANGED <<asked, granted, consented, cancelled, broken, written>>

\* session.interrupt, or the session is closed.
Cancel ==
  /\ ~cancelled
  /\ cancelled' = TRUE
  /\ UNCHANGED <<stage, asked, batch, abort, tool, promptVars, results, broken, written>>

Arrive(k) == ArriveDuplicate(k) \/ ArriveSafe(k) \/ ArriveSequential(k)

Run(i) ==
  \/ Start(i) \/ Refused(i) \/ Permitted(i) \/ Prompt(i)
  \/ Approved(i) \/ DeniedByHost(i) \/ TimedOut(i) \/ WaitCancelled(i)
  \/ \E kind \in {"ok", "failed", "error"} : CallEnds(i, kind)
  \/ Aborted(i)

Executor == BarrierDrained \/ WriteReply

Next ==
  \/ \E k \in Keys : Arrive(k)
  \/ StreamEnds \/ StreamFails \/ Executor
  \/ \E i \in Calls : Run(i) \/ RespondLate(i) \/ \E d \in Decisions : Respond(i, d)
  \/ Cancel
  \/ stage = "written" /\ UNCHANGED vars

Spec == Init /\ [][Next]_vars

(***************************************************************************)
(* The task that runs the turn is polled, and so are the calls it polls;   *)
(* a tool ends.  The stream ends or fails: the model client gives up on a  *)
(* silent one.  No call need arrive, and the host need not answer.         *)
(***************************************************************************)
FairSpec ==
  /\ Spec
  /\ WF_vars(Executor) /\ WF_vars(StreamEnds \/ StreamFails)
  /\ \A i \in Calls : WF_vars(Run(i))

-----------------------------------------------------------------------------
(* Properties.                                                             *)

(***************************************************************************)
(* Every tool_use of the reply is answered by exactly one tool_result, in  *)
(* submission order, however the calls were interleaved, aborted, refused  *)
(* or cut short: a provider rejects the next request otherwise.            *)
(***************************************************************************)
Paired == stage = "written" => written = [i \in 1..Len(asked) |-> i]

(***************************************************************************)
(* A sequential tool shares its time with nothing: every earlier call has  *)
(* ended when it starts, and no later one starts before it has ended.      *)
(***************************************************************************)
BarrierAlone ==
  \A i, j \in 1..Len(asked) :
    i < j /\ (asked[i] \notin Safe \/ asked[j] \notin Safe)
      => tool[j] \in {"queued", "ended"} \/ tool[i] = "ended"

(***************************************************************************)
(* An aborted call has its cause in its own batch: an Err of a sibling, or *)
(* the stream's.  A failure on the other side of a barrier aborts nothing. *)
(***************************************************************************)
SameBatch(i, j) ==
  \A n \in 1..Len(asked) :
    (i < n /\ n < j) \/ (j < n /\ n < i) => asked[n] \in Safe \/ \E m \in 1..(n-1) : asked[m] = asked[n]

AbortIsLocal ==
  \A r \in 1..Len(results) : results[r].kind = "aborted" =>
    \/ broken /\ SameBatch(results[r].idx, Len(asked) + 1)
    \/ \E q \in 1..(r - 1) :
         results[q].kind = "error" /\ SameBatch(results[q].idx, results[r].idx)

(***************************************************************************)
(* No tool runs without consent: the rules allow it, the host permitted    *)
(* this very call while it was being asked, or permitted its rule for      *)
(* good.  A prompt that timed out, was aborted or was overtaken by the end *)
(* of the session is not consent, and a late answer revives nothing.       *)
(***************************************************************************)
Consent ==
  \A i \in 1..Len(asked) : tool[i] = "call" =>
    Rule(i) \in Allowed \cup granted \/ i \in consented

(***************************************************************************)
(* pending_permissions holds live prompts only, whichever way a call left  *)
(* its prompt, so a late answer finds nothing to wake.                     *)
(***************************************************************************)
NoStalePrompt == \A i \in registered : tool[i] = "prompt" /\ Polled(i)

(***************************************************************************)
(* The inductive invariant behind these: who can be running when.  A   *)
(* call is unfinished only in the batch or as the sequential tool;         *)
(* while the stream is read, and while the batch drains, what waits behind *)
(* has not started; a decision is one the host gave to that very call; and *)
(* a call has ended when its one result is buffered.                       *)
(***************************************************************************)
Arrived ==
  /\ \A i \in Calls : tool[i] = "new" <=> i > Len(asked)
  /\ \A i \in batch : i <= Len(asked) /\ asked[i] \in Safe /\ tool[i] # "ended"

Unfinished ==
  \A i \in 1..Len(asked) : tool[i] # "ended" =>
    \/ i \in batch
    \/ stage \in {"barrier", "sequential"} /\ i = Sequential

StageInv ==
  /\ stage = "stream" => \A i \in batch : tool[i] = "queued"
  /\ stage \in {"sequential", "written"} => batch = {}
  /\ stage \in {"barrier", "sequential"} => Sequential > 0 /\ Sequential \notin batch
  /\ stage = "barrier" => tool[Sequential] = "queued"

PromptInv ==
  /\ \A i \in registered : tool[i] = "prompt"
  /\ \A i \in Calls : decision[i] \in {"permit", "always"} => i \in consented

ResultInv ==
  /\ \A i \in Calls : tool[i] = "ended" <=> \E r \in 1..Len(results) : results[r].idx = i
  /\ \A r, q \in 1..Len(results) : results[r].idx = results[q].idx => r = q

StreamInv == Arrived /\ Unfinished /\ StageInv /\ PromptInv /\ ResultInv

(***************************************************************************)
(* The reply is written in the end, if prompts time out: no barrier waits  *)
(* for itself, no aborted call is waited for for ever.                     *)
(***************************************************************************)
EventuallyWritten == <>(stage = "written")

(***************************************************************************)
(* What execute_stream's comment says: a concurrency-safe tool starts as   *)
(* soon as its ToolUse arrives and runs while the stream goes on.  So a    *)
(* call has started when the next one arrives.                             *)
(***************************************************************************)
StartsWhileStreaming == \A i \in batch : tool[i] = "queued" => i = Len(asked)
=============================================================================

# AttaCore: a TLA+ verification of the session engine

AttaCore is an agent engine in Rust: a daemon (`daemon/`) keeps conversations
("sessions") alive, and for each of them runs an engine (`crates/runtime`) that
calls a model, executes the tools the model asks for and appends everything to
a transcript on disk (`crates/session`, `crates/history`). This directory holds
the specification of its concurrent and failure-prone core, the instances TLC
checks, and the theorems TLAPS proves.

`PROJECT.json` is the machine-readable companion: components, runs, the source
lines each definition models (`map`), the mutants of every property, hazards and
theorems. Line numbers below refer to the sources it names.

## 1. The system and its parts

| Part | State | Operations | What is hard |
|---|---|---|---|
| Session pool, `daemon/src/session_pool.rs` | `sessions` (id → `LiveSession`), `session_op_locks`, bindings, capacity | `run_turn`, `create`, `resume_session`, `resume_or_create`, `stop_live_agent`, close, delete, LRU eviction, janitor, `invalidate_bindings` | the map's lock is never held across an await, so what a call read is old when it acts |
| Turn slot, same file | `event_rx` (taken by the running call), `current_turn`, on_busy policy | `run_turn` (reject, queue, steer), `interrupt_session` | callers, the engine and removal of the session interleave; channels outlive their readers |
| Agent loop, `crates/runtime/src/agent.rs`, `turn.rs`, `steering.rs` | input and forwarding channels, turn token, `SteerQueue`, step counter | demultiplexer, `process_turn`, step boundaries, `finish_turn` | a steer racing the end of a turn; persist against announce |
| Session buffer, `crates/session/src/session.rs` | messages, `persisted_up_to`, time stamps, origin notes | push, persist, compaction, `/clear`, resume | a write failing in the middle; indices under a list that compaction rewrites |
| Transcript, `crates/history/src/store.rs`, `transcript.rs` | one `.jsonl` per session | append, load, projection | torn lines, markers as replay boundaries, crashes |
| Streaming executor, `crates/runtime/src/streaming.rs`, `turn.rs`, `elicitation.rs` | batch of futures, abort token, prompts, buffered results | `execute_stream`, `drain_batch`, `execute_tool_inner`, `ask` | completion order, sibling aborts, prompts answered, timed out or cancelled at once |
| Bindings and `WatchHub`, `daemon/src/watch_hub.rs` | reference counts, keys, watches, debounce generations | subscribe, release, events | three locks taken one after the other |
| Instance lock, `daemon/src/discovery.rs`, `main.rs`, `crates/core/src/process_identity.rs` | `daemon.lock` (pid, start time), instance file, socket | claim, reclaim, serve, shut down | two processes, reused pids, clocks |
| Connections, `daemon/src/server.rs`, `rpc.rs`, `ws.rs`, subscribers in `session_pool.rs` | bounded outbound queue and writer per connection, `subscribers`, `pending_prompts` | subscribe, broadcast, respond, drop | a watcher that arrives, stalls or leaves between any two frames |
| Teams, `crates/team` | stages, members, `state.json`, `events.jsonl`, `SCRATCHPAD.md`, mailboxes with a file each | TeamCreate, SendMessage, ReadMail, TeamDelete | a crash between memory and file, failing writes |
| Persistent members, `crates/runtime/src/agent_tool.rs` | `team_members`, their loops and channels, running tasks, the team's grant | Agent with a name, sweep, TeamDelete | find-or-create, reclaim and stop interleave with sends |
| Permission engine, `crates/permissions` | rule set, mode | check, add, clear | many rules, modes, aliases and compound lines at once |
| Tasks, `crates/task` | task files, high-water mark, snapshots | create, update, claim | no production caller |
| One-shot agents, MCP, hooks, compaction strategies, model clients, tools, plugins, telemetry, bridges | see `PROJECT.json` | | |

How they interact: a JSON-RPC request becomes one `SessionPool` call. The call
finds or builds an engine, takes its turn slot, sends the message on the
engine's input channel and reads events from the slot until a terminal one. In
the engine the demultiplexer sorts input into user messages, steers and
cancels; the loop runs turns; a turn calls the model, whose reply the streaming
executor turns into tool calls and results; the conversation is persisted at
the top of the loop, after each step and before the terminal event. Settings
changes mark bindings stale, and a stale session is rebuilt from its transcript
before its next turn.

What makes each part correct:

- pool: no engine runs that nobody can reach; no entry points to a dead engine;
  a resume does not lose the history it found; the capacity holds; every call
  is answered;
- turn slot and loop: an answer belongs to the turn that was asked for; a
  message is in one place once; what was announced is on disk;
- buffer and transcript: what a resume brings back is what the cursor says was
  written; nobody is recorded as having said what they did not;
- executor: every `tool_use` is answered once and in order, a sequential tool
  runs alone, nothing runs without consent, every reply is finished;
- connections: a watcher that joins at any moment misses neither a step nor a
  question nor the end of a turn, and holds nobody up;
- teams and members: files tell the truth after a crash, mail is read once, no
  member runs unreachable, no task is lost in silence;
- instance lock: one daemon per place, and no lock-out by a reused pid;
- permissions: refusals are final, allows cover everything that would run.

## 2. Modules

| Module | Models | Composition |
|---|---|---|
| `SessionMutex` | the promise of `with_session_lock`: one mutex per id | abstract |
| `SessionLock` | the registry of `Arc<Mutex>` with its strong-count clean-up | implements `SessionMutex` (`ImplementsMutex`) |
| `SessionPool` | map, engines, locks, disk; every visit to the map one action | uses the lock as the mutex `SessionLock` implements |
| `AgentLoop` | demultiplexer, turn loop, steering queue | |
| `SessionTurns` | one live session: callers, interrupts, removal | EXTENDS `AgentLoop` and drives its channels |
| `SessionBuffer` | `SessionManager` and the turn loop's calls on it | |
| `Transcript` | the buffer over what a store promises | EXTENDS `SessionBuffer`; abstract store |
| `JsonlTranscript` | the buffer over lines of a file and their projection | implements `Transcript` (`ImplementsStore`) |
| `StreamExec` | one reply: stream, batches, calls, prompts | |
| `Bindings` | merged settings of one pair over the watch hub's maps and debounce | |
| `TeamRun` | one TeamCreate: stages, permits, state file, event log, scratchpad | |
| `TeamMail` | mailboxes in memory and on disk | |
| `Team` | members that mail each other while the run goes on, or dies | EXTENDS both |
| `SubAgents` | persistent members: calls, pool, loops, tasks, grant | the `TeamCreate` of `TeamRun` as one step |
| `Watchers` | one session's turns as its connections see them | the relay is `run_turn` of `SessionTurns`, its frames in place of its policies |
| `InstanceLock` | daemon.lock, instance file and socket of one place | |
| `PermissionGate` | verdict of the permission engine, change of its rules and mode | gives the verdicts `StreamExec` takes as sets |
| `SessionPoolProofs`, `TranscriptProofs`, `SessionTurnsProofs`, `WatchersProofs` | theorems on the module they are named after | EXTEND it |
| `JsonlTranscriptProofs` | the file implements the store, and what follows for the file | EXTENDS `JsonlTranscript`; INSTANCE of `TranscriptProofs` for its theorems |
| `DaemonProofs` | theorems on the two locks and the bindings | EXTENDS `SessionLock`, `InstanceLock`, `Bindings` |
| `StreamExecProofs` | theorems on the executor and on the verdicts it takes | EXTENDS `StreamExec`, `PermissionGate` |
| `TeamProofs` | theorems on both kinds of teams | EXTENDS `Team`, `SubAgents` |
| `MC*` | the instances TLC checks | |

How state and actions correspond to the code:

**SessionLock.** An Arc is named by the call that created it. `Lookup` is the
visit under the registry's own mutex, `Acquire`/`Release` the inner mutex,
`DropClone` the end of the local `Arc`, `Cleanup` the second visit, guarded by
`OnlyRegistryHolds` (strong count 1).

**SessionPool.** `pc` follows a call through `run_turn`, `resume_session`,
`delete_session` or close, one stage per map visit or await. An engine is named
by the call that built it. `Insert` is the whole block under the map's lock:
eviction if the pool gains an entry and is full, replacement, cancellation of
both, spawn. `Evict` stands for the janitor; the least recently used entry is
any entry, since `last_active` is not touched while a turn runs. `Await` may end
because `AGENT_EXIT_GRACE` is over. A turn makes its engine dirty; `FinishTurn`
persists and announces.

**AgentLoop, SessionTurns.** `phase` is where the loop is between two awaits.
What hooks, budgets and recovery decide is a free choice between the outcomes
the loop distinguishes (`TopStops`, `ModelFails`, `TextReply` ...). `SessionTurns`
adds callers with their on_busy policy: `TakeSlot` is `event_rx.take()`,
`Steer` … `SteerTimeout` the acknowledgement protocol, `GiveBack` and
`ClearCurrent` the two separate steps at the end of a turn. Every `Persist` may
fail: the code warns, goes on and announces all the same, which is what
`saved = "failed"` remembers until something new is to be written.

**SessionBuffer, Transcript, JsonlTranscript.** A message is an id (the time it
was pushed), who it came from and whether its body was blanked. Each operation
is given once as an effect on the buffer and instantiated with a store.
`persist` is one action per line, so that it can fail between two; `Crash`
drops memory at any point; `Resume` and `StartEmpty` are the two ways back.
`Compact` lets a compaction keep any suffix behind up to `MaxFresh` new messages,
which covers every strategy's effect on the list.

**StreamExec.** A call is a submission index; what it calls is a key (what
duplicates are recognised by) and has a rule (what permission is granted for).
`Arrive*` are the branches of the stream loop, `BarrierDrained` and `Ends`
drain the batch, `Prompt` … `WaitCancelled` are `execute_tool_inner` with
`ChannelElicitation`. A future that is dropped unregisters its prompt
(`LeavePrompt`).

**Bindings.** `Get` … `Insert` are `binding_for`; `SubscribeCount`, `SubscribeKey`
and `SubscribeWatch` are the three locks `WatchHub::subscribe` takes one after
the other, `ReleaseKey` … `ReleaseUnwatch` those of `release`. A binding is
dropped when its last Arc goes: by its last user (`Done`), or under the lock of
`bindings`, which `guard` stands for, when it lost the race to insert or is
invalidated. `DrainEvents` schedules one checker per entry of `path_keys`;
`WakeUp` is its sleep's end. The model has one pair and one file, which exists.

**TeamRun, TeamMail, Team.** `phase` is where `orchestrate` is between two awaits.
Every file write is a step of its own that may fail (the code logs it and goes
on), and a plain `fs::write` is two, so that a crash can fall between truncating
and filling. `Snapshot` is `write_team_state_atomic`, `Record` an append to
`events.jsonl` with its truncation. `AggregateStage` takes any outcome the three
aggregation modes can have. `Send` and `Drain` change queue and file under the
store's mutex; a message is its number. `Die` drops the call, or the process
in the middle of a rewrite; `Reload` is `with_persistence` on what is left.

**SubAgents.** `Enter` takes `team_spawn_lock` and sweeps, `Evict` …`Spawn` are
the steps of `spawn_or_message_team_member` up to the next await each.
`TeamDelete` and `DeleteStop` do not take the lock. A member is a loop with a
channel: `Take`, `EndTurn`, `Exit`, `Panic`. What remains of time is
the order of `idle_seq`: how many members a sweep finds expired is free.

**Watchers.** A frame is a kind and a number. `BroadcastExcept` is the whole
loop over the subscribers with the removal of those whose queue is full or
whose writer has ended. `Insert` and `Watermark` are the two steps of
subscribing, `Remember` and `Show` those of a prompt, `RelayComplete` and `Clear`
those of a turn's end, `RelayGone` and `RemoveGone` those of an engine that is gone.
`Watermark` answers 0 if the transcript cannot be loaded. `Steer` is the other way
to become a watcher in the middle of a turn: an accepted steer enters its sender
and is answered without the prompts. A connection of `Tabs` makes one request at
a time, a subscribe or a steer. A queue is its length; what it carried is in
`watch`, which a property compares with what the engine did.

**InstanceLock.** One step per file operation of `main`, from `Read` to
`RemoveInstance`, and a `Crash` after each. `ReadFails` is a lock that cannot be
read or parsed, of a dead daemon or a live one: it is overwritten. Start times are readings of
`ps`: off by up to `Drift`, moved by `SetClock`, or 0 when they cannot be had.

**PermissionGate.** `Gate` follows the eight steps of `check`, `Hit` and
`Reported` are `RuleSet::decide`, `EvaluatePath` and `EvaluateShell` the methods of
these names. Which pattern matches what, how a line splits into commands, which
names a path has and which paths are protected are constants, left open.

## 3. Runs

| Run | Instance | States | Shows |
|---|---|---|---|
| `session_lock` | 4 calls, 2 ids | 53 K | no leaked lock, refinement of the mutex, no starvation |
| `session_pool` | 2 calls of any kind, 2 ids, room for 1 | 194 K | no leaked engine, no dead entry, resume against delete, the bound, every call ends |
| `session_turns` | 2 callers of any policy, 1 interrupt, turns of 2 steps | 2.0 M | quiet free slot, own terminal event, no trace of a rejected message, steers once |
| `turn_liveness` | 2 callers, turns of 2 steps | 286 K | every caller is answered, every accepted steer is delivered or handed back |
| `transcript` | 3 messages, 1 failing write, 1 fresh message | 1.0 M | recoverability, attribution, bodies on disk |
| `jsonl_transcript` | 2 messages, 5 lines, 1 torn write | 423 K | the file of lines is the store `Transcript` describes |
| `tool_batches` | 4 calls over 3 keys and 2 rules | 206 K | pairing, barrier, local aborts, consent, completion |
| `bindings` | 2 callers of `binding_for`, 2 changes | 90 K | one catalog per pair, no leaked watch or count, the last change is announced |
| `team` | a request of two stages, one without agents, an empty one; no spawner or one; limits 0 and 2; 2 messages, 1 failing write of each kind | 1.7 M | the team's files are true after a crash at any step, the checkpoint is there, mail is read once, the run ends |
| `agents` | 2 concurrent calls, 3 names, a pool of 1, 3 tasks, 2 faults | 1.4 M | no orphan, no task lost in silence, one grant, the cap, conversations kept |
| `watchers` | 1 connection that starts 2 turns with 1 step and 1 prompt in all, 1 that subscribes and steers; queues of 1 frame; 1 fault | 1.6 M | no gap and no missed prompt (but see `Watchers` below), every turn seen to end, nobody waits for a slow client |
| `instance_lock` | 2 daemons, 2 pids, 4 seconds, tolerance 1, drift 1, 1 setting of the clock, locks that cannot be read | 2.9 M | one daemon, its own socket, no lock-out |

Why the bounds are enough for the cases that matter. Two pool calls already
build two engines for one id, evict each other when they name two, and put a
delete between any two stages of a resume; the proofs of section 5 cover any
number. Two turn callers are the holder and the contender; two steps give a turn
a boundary in its middle and one at its end, which are the two places where
steers are read. Three messages allow a compaction to keep one, drop one and
leave one unwritten; one fault may hit any write, and the failures of one write
are independent of the next (`TranscriptProofs` has no bound). Four tool calls
are a batch of two, a barrier and a call after it; three keys are two safe ones
that share a rule and a sequential one, and a duplicate is a second call of a key.
`TornWrites`, `Grace` and `Timeout` switch an environment's behaviour on.
Two callers of `binding_for` are a release and the subscribe that overtakes it,
or two builds at once; two changes are one the debounce may drop and the one
that must get through.

A team of two stages in which one label runs twice has a stage that is over, one
that runs, and a snapshot that could call a member completed that runs again;
five log entries force two truncations; limit 0 is the one the code clamps. Two
calls in a pool of one with a third name make a sweep pick among idle members
while another call, a delete or a crash is in between. In `watchers` a queue of
one frame makes each client that does not read at once a slow one, and the second
turn is what the clean-up of the first can hurt. In `instance_lock` four seconds
let a pid be used again inside the tolerance (with drift) and outside it.

Fairness. `FairSpec` (`BindingsFairSpec`) asks only for weak fairness of tasks the runtime polls:
callers, the demultiplexer, the loop, engines, the executor, the calls of a
batch, the hub's thread, its sleeping checkers and the config watcher, and, in
`Team`, the run itself. A model call and a tool are taken to end (clients have
timeouts; a tool of a cancelled turn is dropped), a stream ends or fails, and a
member's turn, being such a turn, ends. Nobody need evict a session, send another
request, answer a prompt or interrupt; a steer need not time out. Without
`permission_prompt_timeout_secs` (`Timeout = FALSE`) a prompt may wait for ever,
which is what the code does. `SubAgents`, `Watchers` and `InstanceLock` have only
safety properties and no fairness; that a watcher holds nobody up is stated by
what the relay can do next (`NeverHeldUp`).

Deadlock is checked except in `team`, `agents` and `watchers`, whose systems stop:
a team's run is over, the tasks or turns of the bound are used up and nobody asks
for more. Elsewhere a finished system stutters explicitly, or never finishes.

### Disagreements between the code and its comments

Each of these is a formula in the module of its component that states what a
comment or a document says, and that TLC refutes. Ten have a configuration,
`Find<name>.cfg`, for the `MC` module (they are no part of the suite):

| Formula | The code | The text |
|---|---|---|
| `BusyIsHeld` | gives the slot back before it clears `current_turn`; the next caller's mark is erased and an interrupt answers `interrupted: false` | session_pool.rs:2830 "“busy” is exactly “someone holds the channel”" |
| `RebuildsOnlyIdle` | probes the slot and rebuilds several awaits later; the rebuild cancels a turn that began meanwhile | session_pool.rs:2863 "only rebuilds an idle session" |
| `ResumeReadsAll` | waits only for the engine in the map; an evicted one may still have messages to persist | session_pool.rs:5247 "whatever reads its transcript next reads all of it" |
| `ContentSurvives` | a write that stops half-way garbles the next line and `load()` fails for the file | session.rs:269 "but not the content itself" |
| `InterruptLands` | a CancelTurn sent between two turns hits the old token | agent.rs:549 |
| `SteerOrTurn` | a late acknowledgement makes a steer count twice | session_pool.rs:2975 |
| `PromptsNeverErased` | clears the prompts after the slot was given back; those of the next turn may be among them | session_pool.rs:3379 |
| `PromptsCleared` | clears them only when a turn completes, not when it fails | docs/daemon_rpc_protocol.md |
| `OneServes` | two startups that overlap both find no lock and both serve | discovery.rs:65 |
| `Listed` | removes the instance file by name at shutdown, which may be the successor's | main.rs:425 |

Thirteen more are refuted with the constants of the module's own `MC` configuration:
`DeliveredIsRead` (a steer delivered at a boundary whose turn then stops is
neither read nor returned), `AgesAreTrue` (time stamps are cut at the wrong end by
a compaction), `ClearedStaysCleared` (a `/clear` whose marker failed is undone by
a resume), `DropsOnlyItsOwn` (a caller whose engine died removes the one that
replaced it), `DeletedStaysDeleted` (a cancelled engine writes its deleted
transcript anew), `StartsWhileStreaming` (a safe call's future is first polled
when the batch is drained, although streaming.rs:43 says it starts "as soon as" it
arrives), `UnwatchedIsDropped` (a release that brought the count to 0 unwatches
the path after another call has subscribed to it anew), `ChangeInvalidates`
(settings are loaded before their file is watched, so a change in between is
never noticed), `DroppedIsForgotten` (a subscribe request that was on its way
re-enters a dropped connection), `OneServesUnlessRaced` (a wall clock that is set
makes a live daemon look like another process, and the lock of a live daemon
that cannot be read or parsed is overwritten, discovery.rs:89-103),
`AnnouncedIsOnDisk` (turn.rs:381 only warns when persist fails, and announces the
turn), `HistoryIsComplete` (a load that fails is answered with `last_seq` 0, so
that the history up to there lacks what was announced before),
`EveryWatcherIsAsked` (session_pool.rs:2977 enters the sender of an accepted steer
among the watchers without the prompts that are pending).

Where a property of a run meets one of the last cases, it excepts that case and no
more. `FreeSlotIsQuiet`:
the transcript is on disk unless the *last* persist failed. `NoGap`: a tab whose load
failed lacks only steps that were in the transcript when it was entered
(`unread`), no later one. `PromptsReach`: a watcher by steer lacks only prompts
that were pending when it was entered (`unasked`), until it subscribes.
`OneDaemon` and `Reachable`: nothing is promised once a startup failed to read the
lock *of a daemon that holds the place* (`usurped`, part of `Undisturbed`); a
lock left by a dead one may be unreadable at any time.

Read in the code while modelling, without a formula: SendMessage takes labels
that are no peers (mailbox.rs:166); `resume_coordinator` takes any line that
begins with `## ` for a finished stage; a run that was cut off is never registered,
so TeamDelete cannot remove its directory; a TeamCreate of the same name replaces
the registry entry, forgetting members and grant; a message queued at a member
that is stopped leaves its task Running for ever; TaskStop of a background task
answers success without effect; a rule whose source a client's options give as
`command` is dropped when the first turn begins (turn.rs:515); a longer glob that
also allows a line hides the exact approval of it, so the user is asked again;
`with_yolo_classifier` overwrites the auto classifier it is said not to touch; the
branch gate.rs:444 calls unreachable is reached by a tool that overrides modes on
a path that needs confirmation, and still denies.

## 4. Mutants

Every property of a run has a mutant in `PROJECT.json`, a conjunction of several
(`TeamInv`, `MailInv`, `MembersInv`, `WatchersInv`, `TurnsInv`) several: a definition
that changes one operation as a plausible bug would (the strong count ignored,
the old engine not cancelled, announce before persist, the cursor not moved by a
compaction, an abort token kept across the barrier ...), under which TLC finds
the property violated. They stand next to the definitions they change.

## 5. Proofs

All theorems are for any finite or infinite set of calls and every value of the
constants within the named assumptions; a pool's set of ids, the set of
`binding_for` calls and the names of a team's persistent members are finite.

- **DaemonProofs, the lock of a session.** `LockInv`: a clone in use is the registered Arc, an Arc
  belongs to one id, an owner is inside. Exclusion alone is not inductive: it is
  the strong count that keeps two Arcs of one id from being used at once, so the
  invariant speaks of clones. Theorems: `LockInvariant`, `MutualExclusion`,
  `RegistryIsCleaned`, `ImplementsSessionMutex` (refinement).
- **SessionPoolProofs.** `IInv` is `TypeOK` with `PoolInv`: `EngineStages` (a
  call's stage says how far its engine is), `MapIsSpawned` (only spawned engines
  are in the map or cancelled, under their own id), `LockIsHeld` (who is between
  lock and unlock holds it), and the three properties. Why the parts are needed:
  a leaked engine is excluded because an engine enters the map in the step that
  spawns it; a resume keeps its history because erasing needs the lock it holds.
  One lemma per part for the steps of calls, then engines and eviction. Theorems:
  `PoolInvariant`, `EnginesAreOwned`, `NoDeadEntry`, `ResumeAgainstDelete`,
  `PoolIsBounded` (by cardinalities, separately).
- **TranscriptProofs.** `TypeCorrect`; `ConversationRecoverable`: what is on disk
  ends with `mem[1..cursor]`, and is exactly that unless a marker was lost, for
  any number of faults and compactions; `Attributed`: notes point at user
  messages, which a compaction must keep true when it moves them.
  `BodiesAreWritten`: `BodiesWritten` speaks of the disk only, so the invariant
  adds what memory may blank: a message whose body is gone is one whose body is
  on a line, or whose write failed.
- **JsonlTranscriptProofs.** `FileIsStore` is the refinement of `Transcript` by the
  file of lines, read by the loop of `project_messages`. Three facts about a file of
  any length need induction: the recursive definition of `Reading` has a solution
  (`ReadsExists`), two files that agree up to a line give the same conversation there
  (`ReadsSame`, from which `ProjectAppend`: a line more is `ApplyEntry` once more),
  and a file that does not load has a first line that does not parse
  (`UnreadableParses`). The lemma `Induction` is about a set of numbers, which has a
  least element by the well-foundedness of `<`, so that no operator is a parameter.
  Then an append, an append that fails or tears, and the refinement step by step;
  `LogInv` (the file begins with Meta, holds lines only, and reads as what the
  store's types allow) is what the steps need of the file. A torn line makes the
  file unreadable and the store's `readable` false, a line appended to it leaves it
  so. `FileIsRecoverable`: `TranscriptProofs` is instantiated with what is read from
  the file, and with the refinement its theorems become theorems of the file.
- **StreamExecProofs, the executor.** `StreamInv` ties stage, batch, prompts and
  buffered results together. Theorems: `StreamInvariant`, `NoCallWithoutConsent`,
  `PromptsAreLive`, `SequentialAlone`, `AnsweredOnce`. `AbortsAreLocal` needs
  `AbortInv`: the calls of a batch have no barrier behind them (`OpenFrom`), and a
  token that is cancelled while a batch drains has its cause in that batch or in
  the stream. `ReplyIsPaired`: the results are one for each call (`AnsweredOnce`),
  and the sort puts result `r` at the place that counts the smaller indices;
  a set of `n` distinct indices out of `1..n` has `i - 1` below `i`, by
  cardinalities, so no induction over the sort is needed.
- **SessionTurnsProofs.** Four invariants, each used by the next. All hold with persists
  that fail at any moment. `HolderInv`:
  whoever is past taking the slot holds it, and at most one user message is under
  way, the holder's, in one of four places (`OnItsWay`: input channel,
  demultiplexer, running turn, terminal event). `FreeSlotIsQuiet` and
  `OwnTurnEnds` are not inductive without it: that the slot is given back only
  after the terminal event was read says nothing unless there is just one message
  that could have produced it. `QueueInv`: the steering queue is open only in a turn
  that has not begun to finish. `SenderInv`: what is in a channel or in the
  conversation has a sender, and a rejected call is none. `SteerInv`: a call steers
  at most once, so that its message has one place, and `SteeredOnceOrReturned`, a
  sum of counts, becomes a case of four. Theorems: `TypeCorrect`, `HolderInvariant`,
  `FreeSlotQuiet`, `OwnTurn`, `QueueInvariant`, `SenderInvariant`, `SteerInvariant`,
  `TurnsInvariant`.
- **TeamProofs, a team run and its mail.** `RunInv`: where orchestrate is tells how
  far it is in the plan (`PlaceInv`), who runs (`MemberInv`), which failures are
  counted (`ErrorInv`), what the snapshot calls the stage's members (`SnapshotInv`),
  which sections the scratchpad has (`PadInv`) and what the log dropped (`LogInv`:
  each line is the event at the same distance from the end, which truncation and
  append keep; `EventsAreTheNewest`, an equation of sequences, follows). For the
  mail `BoxInv`: while the process lives and nothing failed, a file holds what its
  queue holds. Theorems: `RunInvariant`, `TeamInvariant`, `CheckpointsAreThere`,
  `MailIsConserved`.
- **TeamProofs, persistent members.** `SubAgentsInv`: `MapInv` (an entry is a loop
  of that name nobody stopped, and every loop that runs and was not stopped has
  its entry), `CallInv` (only the call in team_spawn_lock is under way, and after
  its look-up the name leads to what it found or nowhere, since whoever does
  without the lock only takes entries away), `AuthInv` (what a call resolved is what
  the team of its epoch has on record, or will have), `TaskInv` (a task is with
  one call or in one loop, once; from it `TasksAreHeld` by cardinalities of
  singletons), `FoundInv` (the member that the sweep saw is still the one, unless
  deleted or crashed) and `PoolInv` (what the victims leave is within the cap, or
  only the name and busy members; `OldestCount`: the oldest `n` of a set are all of
  it or at least `n`). Theorems: `SubAgentsInvariant`, `MembersAreReachable`,
  `TasksHeld`, and the action properties `ConversationsAreKept` and
  `PoolIsBounded`, for any number of calls and names and every cap.
- **WatchersProofs.** `IndInv`: what may be in the channel in each state of a turn
  (`ChannelInv`: a terminal frame is the last one, frames name this turn), a
  relay that has still to clear ended a turn of its own (`ClearInv`), who is no
  subscriber knows nothing (`WatchInv`), steps are on disk unless their persist failed
  (`WrittenInv`), and a prompt that is waited for is in the channel or mirrored
  (`PromptInv`), which is why it reaches whoever subscribes between the two. For the
  steps, `EntryInv` says of a tab that was entered and not yet answered what
  `NoGap` says afterwards: it misses no step but those that were on disk when it
  was entered, which the watermark then covers, or does not if its load fails. The
  three properties are then each inductive with it. Theorems: `WatchersInvariant`,
  `StepsAreSeen`, `PromptsAreSeen`, `EndsAreSeen`, `AnnouncedAreWritten` and, from
  these, `WatchersHold` (a watcher is neither ahead of the disk nor, unless its load
  failed, short of what was announced), for any number of connections, turns, steps and prompts and queues of any depth.
- **DaemonProofs, the bindings.** `BindingsInv`: `TokenPlaces` (a call's stage says where its
  token is, and a cached or used binding still has it), `OneCatalog`, and `HubInv`
  (what is listed or watched has a token, or a release that has not come to it).
  `WatchesAreOwned` is not inductive: a release between two locks must be counted
  as the owner of what it is about to remove. Counts go by cardinalities, so the
  set of calls is finite. Theorems: `BindingsInvariant`, `OneLiveCatalog`,
  `NoLeakedWatch`.
- **DaemonProofs, the lock of a daemon.** `InstanceInv`: who runs has its pid (`Running`); as long as no
  two startups overlapped, the clock was not set and no lock of a holder was
  unreadable (`Undisturbed`), the lock names every holder,
  with a start time within the drift (`Named`), one daemon at a time is
  claiming (`Alone`), what it has read is the lock if there is a holder
  (`SeenIsLock`), nobody holds when it claims (`NoneHolds`), and who serves has the
  socket (`OwnSocket`). `OneDaemon` alone is not inductive: the reclaiming step
  acts on what was read earlier. From `Drift <= Tolerance`: a holder's lock is never
  found stale. `NotLockedOut` rests on a second invariant, that a lock carries the
  start time of who wrote it. Theorems: `InstanceTypeCorrect`, `InstanceInvariant`,
  `AtMostOne`, `ServesAtSocket`, `NotLockedOut`, for any number of daemons, pids,
  crashes and seconds.
- **StreamExecProofs, the permission engine.** For every rule set, every matching relation and every
  call. `ReportedIsStrongest`: the rule that `decide` picks is among those of the
  greatest rank, since behaviour is compared first; it needs that lengths are
  bounded (`Lengths`: they are i32). From it `BehaviorDecides` and `Refused` (what
  the three ways of evaluating answer), and with the order of the steps in `Gate`
  the theorems `DenyRulesAreFinal`, `ImmunePathsAreFinal`, `AskRulesAreAsked`,
  `ModesAreStrict` and `AllowsCover`. `RefusalsAreForGood` adds that no step removes a rule of another
  source than Command. There is no run: the claim is about all relations between
  patterns and texts, which an instance would have to fix.

Only model-checked: everything under fairness (`EveryCallRuns`, `EveryCallEnds`,
`EveryCallAnswered`, `AcceptedIsSettled`, `EventuallyWritten`, `LastEventIsSent`,
`RunEnds`) and `NeverHeldUp`, which speaks of ENABLED; both are beyond the prover.
Every other property of a run, invariant, action property or refinement, is a
theorem.

## 6. Not modelled, and the plan

`PROJECT.json` gives the reason for each component. The modules cover the parts
of the engine in which several actors, crashes or failures meet; most of the
repository's lines are something else. Left out because it is data or text:
message formats, prompts, settings layering, shell parsing and glob matching,
stream parsing, telemetry, scenes and skills. Left out because it is the outside
world: providers, MCP servers, hooks and WASM guests, tools and the files they
touch, of which only the outcomes appear. Left out because nothing calls it: the
file store of tasks and `teams/.lock`. Of what is modelled, left out: in
`SubAgents` one-shot agents in the foreground and the background, with TaskStop
and TaskOutput; in `Watchers` compaction, which makes a transcript shorter than
a watermark; in `SessionPool` setModel, fork, rename and sidechains.

Order of work from here:

1. Theorems: that `NeverHeldUp` follows from the guards of the relay, stated
   without ENABLED; refinement of a per-session specification by `SessionTurns`.
2. `SubAgents` extended by background agents and their tasks; `SessionPool` by
   setModel and fork, with the count of Meta lines.
3. `Bindings` for several pairs and tiers, lagged broadcasts and the MCP
   connections a change forgets; its composition with `SessionPool`, whose
   `Invalidate` is its effect.
4. MCP connections: retry and tool refresh on list_changed.
5. Operator modules checked against reference definitions: merge of hook
   verdicts, compaction grouping and the circuit breaker, plugin health.

# Verification project for MiniMax Code

TLA+ models of the agent backend of this repository
(`src/agent/minimax_code`, paths below are relative to it), the TLC
configurations that check them on small instances, and theorems about them
checked by TLAPS for every value of the constants.

    tlc -workers 2 -config AgentTurn.cfg MCAgentTurn      # a run
    tlapm AgentTurnProofs.tla                             # a proof module

`PROJECT.json` lists the components, the runs, the code each definition
translates, the hazards of the code and the theorems.

## 1. The system and its parts

MiniMax Code is a local coding agent.  A Python asyncio backend is driven by a
desktop or web front end over JSON-RPC (stdio or HTTP/WebSocket).  A chat
message becomes a *turn*: the model is called, the tool calls it answers with
are permission-checked and executed, their results are fed back, until the
model answers with text, the iteration budget is spent, the user cancels or a
call fails.  Almost everything runs on one event loop; "concurrency" below means
that another task may run at any `await`.  The exceptions are the scheduler's
timers, which run on worker threads with loops of their own.

| part | state it keeps | operations | hard behaviour | what makes it correct | model |
|---|---|---|---|---|---|
| Agent loop `agent/core.py`, `agent/reliability/retry.py` | message list, cancel flag, pending ask_user futures, write locks, hooks fired | `run`, `_stream_turn`, `_run_tool_batch`, `_prepare_tool_call`, `_execute_tool_call`, `_wait_for_ask_user`, `cancel` | a cancellation at any await; tools of one batch in parallel; denials, blocks, malformed calls, timeouts each on a path of their own | every call paired with its result; writes to a file in call order; at most the call in preparation let through after a cancel; every turn ends | AgentTurn |
| History compaction `agent/compaction.py` | none (a function of the list) | `compact_history` | turn boundaries, repeated compaction | pairs stay together, recent turns stay verbatim | Compaction |
| Message service `ipc/builtins.py` | `_ACTIVE_RUNS`, the recorder's row | `agent.send_message`, auto-continue, `agent.cancel`, `agent.continue_run`, `agent.answer_user` | several sends of one session; a cancel between blocks; storage errors | registries name only live sends; every send ends | SendMessage |
| Consent gater `perm_consent.py`, `ipc/handlers_permissions.py` | pending consents; the server's gater registry and legacy slot | `request_consent`, `resolve`, register, unregister | lookups by session; an answer racing the timeout | a live gater can be found; a dead one cannot | SendMessage |
| Run rows `storage/dao/runs.py`, `app.py` | status of `agent_runs` | create, complete, fail, `recover_orphans` | a crash at any point, a write that fails | a settled row stays settled; nothing stays running for ever | SendMessage |
| Run timeline `ipc/builtins.py` (`_RunRecorder`), `storage/dao/runs.py` | `agent_run_steps`, the recorder's open steps | `status`, `tool_call`, `tool_result`, `complete`, `fail` | parallel results, ordinals read and used in two sections, swallowed storage errors | steps in order, results under their calls, no step left open but for lost writes and three known kinds | RunTimeline |
| Transport breaker `resilience/`, `agent/transports/` | state, sample window, probe slots | `check`, `record` | every stream of the process shares one breaker and settles late, or never | the probe budget, a healthy CLOSED state, no wedging | TransportBreaker |
| Event stream `http_server.py`, `src/web/src/ipc/client.ts` | ring of 512, sequence numbers, client queues of 256, the client's watermark | connect with `?since=`, broadcast, drop, resume, epoch reset | replay against live events, overflow, restart of the backend | what the ring still holds is replayed to a client that comes back to the same process; what it missed comes once and in order; the newest event is never the one dropped (section 5 says what the contract promises beyond that) | EventStream |
| Scheduler `scheduler/` | job rows, timers, the system session, task rows | create, remove, enable, disable, run_now, tick | row and timer change at different awaits; fires on other threads | an enabled job has its timer and keeps running; task rows tell the truth | Scheduler |
| Write sandboxes `agent/tools/sandbox.py`, `file_ops.py`, `edit.py` | overlay trees, baselines, receipts | read, write, edit, append, collect, prune | several writers of one file; failures inside a merge | nobody's work is undone or lost but by a decision, a late baseline or the disk itself | Sandbox |
| Teams `orchestrator/team_orchestrator.py` | the run's row, `collect_state` | parallel, sequential, review | timeouts of members, the order of collection and start, crashes | a successor finds what was written or is told; the run ends, and settles its row unless it raises | TeamRun |
| Sub-agents `orchestrator/subagent.py`, `agent/tools/subagents.py` | background runs | spawn, check, cancel | cancellation through `_ACTIVE_RUNS` | no run nobody can stop | - |
| Message history `storage/dao/messages.py` | message rows | persist, read back, hydrate | a crash or failed write inside a batch; a second send reading it half written | what is read back is a history the model accepts | - |
| Per-core breakers `agent/reliability/circuit_breaker.py` | failure counts, per core | `check`, `record` | what counts as a failure | a crashing tool trips its breaker | - |
| Permission store `permissions/` | cache over the rule table | load, lookup, upsert, delete | write-through across an await | cache and table agree | - |

Interaction: a handler of the message service builds an `AgentCore`, registers
its gater (so that `permission.resolve` can find it) and the core (so that
`agent.cancel` can), calls `run()` once per block and completes the run row.
The core calls the compaction before a model call, the transport (guarded by
the breaker) for the stream, the gater for each call whose rule says `ask`, and
the tool registry for each dispatch.  Its callbacks feed the timeline of the run.
Sub-agents and team members are cores of their own, whose file tools write into
a sandbox that the team run or `collect_subagent` merges into the workspace.
Scheduled jobs start payloads from timers.  Everything a turn does is also
published on the event stream.

Beside these the repository has thin I/O (IPC dispatch, storage layer, LLM
transports, hooks), features beside the turn (memory, codebase index, MCP,
preview, pairing), ported libraries and wire types without wiring (mermaid,
dagre, hub SDK, tool protocol, sampler, ...) and the web front end.
`PROJECT.json` lists each with the reason it is not modelled.

## 2. Modules

### AgentTurn (MCAgentTurn, AgentTurnProofs): one turn

One call of `AgentCore.run()`, from the history it loads to the hook it fires.
`pc` is where `run()` is: `top` (head of the loop), `llm` (streaming),
`prepare` and `execute` (the two phases of `_run_tool_batch`), `returned`,
`raised`.  `st[i]` is where call `i` of the batch is; the actions of a call are
the branches of `_prepare_tool_call` (`RejectMalformed`, `DenyByPolicy`,
`AskConsent`, `Allow`, `ConsentGranted`, `ConsentRefused`) and of
`_execute_tool_call` (`Dispatch`, `DispatchEnds`, `StartAskUser`, `AskUserEnds`).
The cancel flag is tested where the code tests it, before a call is prepared:
`TakeUp` enters `_prepare_tool_call` (`taken`) and `SkipCall` does not, and
what comes after, the announcement, the consent, the hooks and the breaker, is
awaited and looks at the flag no more.  Arguments are an `object`, `cut` off, or
JSON that is something `other`, which nothing checks: `ConsentRaises` is
`dict(args)` failing in `request_consent()`, `LockRaises` is `_write_lock_for()`
failing inside `gather()`, whose other tasks go on after `run()` has raised
(`Executing`).  `called`, `resulted` and `audited` count the `on_tool_call`,
`on_tool_result` and audit records of a call.  `Cancel` may come between any two
steps of the turn.  What the model answers, whether a rule allows, a hook blocks, a breaker
is open, a tool fails or a timeout strikes first are free choices; when the
token budget is exceeded the history is compacted by `Compaction`.

Two points where the model follows the event loop rather than the letter of the
functions: `gather()` starts its tasks in call order, so the waiters of one
`asyncio.Lock` queue in that order (`LockFree`); and a stream is one step, since
nothing it does before its end is seen by the other variables.  The write lock
exists for tools that may suspend; `write_file` and `edit_file` happen not to
today, so the overlap `WritesSerialized` (proved) excludes needs a tool that does.

### Compaction (MCCompaction, CompactionProofs): pure history compaction

`CompactHistory` is `compact_history()` once the budget is exceeded; `Subsequence`
is its loop that picks the system messages, and the others, out of the list, a
recursive function so that it can be proved about.  MCCompaction builds every
conversation the run loop can build up to a length and compacts it at any model
call, also when it was compacted before.  CompactionProofs EXTENDS it, and
AgentTurnProofs takes the lemmas about lists from there, by an INSTANCE.

### SendMessage (MCSendMessage, SendMessageProofs): sends, registries, run rows

Every `agent.send_message` is a handler with a stage; nothing in the code stops
two of them from running in one session, and which session a send names is an
input.  `active` is `_ACTIVE_RUNS`, `gaters` and `legacy` are the server's gater
registry and single slot, `row` the status in `agent_runs`, `asked` the future
of the consent a send waits for.  Handlers interleave at their awaits:
registering the gater, creating the row and activating the core, each block,
the except clause (`FailRow`), the finally clause (`Leave`, one step: it pops
both registries before its first await) and completing the row.
`CancelSession` and `Resolve` are the handlers of the clients, `CrashAndRestart`
kills the process and runs `recover_orphans()`.  A storage error is a choice in
every action that writes a row: a run whose row could not be created goes on
without one, and a row that could not be completed stays running until
`recover_orphans()` finds it.

### Block: the contract between SendMessage and AgentTurn

SendMessage sees of a turn only a few steps; AgentTurn is the loop.  `Block` is the
abstract specification of what both mean: a block never lowers the cancel flag on
its way, has its consents answered before it ends or winds up, ends as cancelled
only when it was told so, and once its iterations are spent looks at the flag no
more.  Whether a further block (`Continue`) keeps a cancellation that came while the
one before it wound up is left open by the contract: the comments of
`_run_with_auto_continue()` say it stops the loop, `run()` clears it.
`CancelBetweenBlocksStops` asks SendMessage for what the comments say, and TLC
refutes it.  `TurnIsABlock` says that AgentTurn implements it and
`BlocksAreBlocks` that each send's blocks do, both by refinement mappings
(`INSTANCE Block WITH phase <- BlockPhase, ...`).  What SendMessage assumes of a
block is thus what AgentTurn provides.

### RunTimeline (MCRunTimeline, RunTimelineProofs): the steps of a run

A callback of `_RunRecorder` is a *job*: the list of DAO calls it makes, written
down in `StatusStep`, `CallJob`, `ResultJob`, `CompleteJob`.  `DaoCall` performs the
next one, `DaoFails` lets it raise (before or after it has written) and the rest of
the callback is lost, as the `except` of the send's callbacks has it.
`create_step()` is two calls, the read of `MAX(ordinal)` and the insert.  Process 0
is the loop, which awaits its callbacks; processes `1 .. MaxBatch` are the calls of
a batch, which report at the same time.  `pc` and `fate` drive them as
`AgentCore.run()` and `_prepare_tool_call()` call back, in their order.  `run()` may
raise at the answer (`AnswerFails`), at a consent after the call was announced
(`ConsentRaises`) and out of `gather()` (`GatherRaises`); in the last case the send
fails its row (`LeaveRun`) while siblings still run and report.
`Crash` loses the recorder, `Recover` is `recover_orphans()`.

### EventStream (MCEventStream, EventStreamProofs): broadcast and resume

`log` is what this process has stamped, the ring its last `RingSize` entries;
`queue[c]` is the send queue of a client's connection, `cursor[c]` its watermark.
`Accept` is `on_connect()` up to the await of `agent.ready`, `Replay` the rest of it,
`Broadcast` is `_on_event()`, `Fit` is `_enqueue()`.  `HandleReady` and `Deliver` are
`handleEnvelope()`, with the epoch check.  A lost connection (`Break`) is noticed by
the server later (`Cleanup`), `Restart` begins the numbers again.

### Scheduler (MCScheduler, SchedulerProofs): rows, timers and fires

The mutators are handlers that interleave at their awaits (`kind`, `about` and `on`
are what they carry across), the fires are slots: one for each timer
(`max_instances=1`) and some for `run_now()`.  A fire's steps are those of `_fire()`:
find or mint the session, create the task row, run the payload, report.  Storage
calls fail, sessions are deleted, the process restarts.

### Sandbox and TeamRun (MCTeamRun, TeamRunProofs): members on copies, one workspace

A file's content is the set of contributions in it: what was there at first, and
one for each run and each step of the user that wrote it.  That is what it takes to
say that nobody's work is undone.  A copy or a write that breaks off leaves a
`Piece`, which is nobody's contribution.  `mirror` and `base` are a run's tree and its
copy-on-write baselines, `ReadFile`, `WriteFile` (with and without
`expected_sha256`), `EditFile` and `AppendFile` the tools, `CollectFirst`,
`CollectAgain` and `CutCollect` (a crash in the walk) the collection.  A file of the
tree meets one of five `Fates` there: it goes well, fails before the copy, its
workspace version cannot be read and passes for absent (`file_sha256()` returns
None), its baseline cannot be read and differs from everything, or its copy breaks
off.  `TeamRun`
EXTENDS it by `TeamOrchestrator.run()`: who may start when (`HasTurn`: the
semaphore, the sequence, the reviewer), when each run is collected (`Due`), the
row, an exception that leaves `run()` (`RunRaises`), crashes, and `collect_subagent` called afterwards by hand.

### TransportBreaker (MCTransportBreaker, TransportBreakerProofs)

`resilience/breaker.py` and `window.py` as the two transports use them: a stream
checks, runs, and records an outcome or ends without one (`Abandon`: a
client-side status, a stall, a cancelled generator).  Time is discrete; ages and
remaining cool-down are capped where the code no longer tells them apart.  A
stream whose half-open period is over becomes `stale`, which the code does not
know: its outcome is recorded like any other.

### Conventions

Definitions that no action uses and that stand in front of the one they resemble
(`EndFiringTwice`, `LockBarging`, `PruneCareless`, ...) are mutants: plausible bugs.
`PROJECT.json` pairs every checked property with one; with the mutant in place of
the definition TLC finds the property violated.  A history variable (`history:` in
its comment) is read by properties only.

## 3. Runs

| run | bounds | what it shows |
|---|---|---|
| `turn` | 3 iterations, 2 attempts, batches of 3 writes (2 colliding), of a question and a plain call, of a plain and a malformed call, of 3 writes and of 2 plain calls one of which has arguments that are no object; an empty history and one with a tool turn | `HistoryPaired`: every request to the model, and what the turn leaves behind, pairs calls and results. `WritesInCallOrder`. `OneCallAfterCancel`: of all that a turn does after `cancel()`, at most one call is still asked about or admitted. `TurnEnds`. `TurnIsABlock`. |
| `compaction` | 11 messages, 2 calls per reply, keep 2 turns | `CompactionKeepsPairs`, `RecentTurnsKept`. |
| `send` | 2 sends in 1 or 2 sessions, 2 blocks, 1 consent each, 1 crash | `NoDeadEntry`, `AloneIsReachable`, `RowSettlesOnce`, `BlocksAreBlocks`, `SendEnds`. |
| `send_cancel` | 2 sends in 1 session, 2 blocks | **violated** `CancelBetweenBlocksStops`: a cancel while a truncated block winds up is cleared by the next block. |
| `send_gater` | 2 sends in 1 session | **violated** `LiveGaterReachable`: the second send hides the first one's gater. |
| `timeline` | 2 iterations, batches of up to 2, 1 failing DAO call, 1 crash | `TimelineInOrder`: what is stored first comes first, whatever overtakes whom. `SpinnersExplained`: a run its process closed shows no step running, up to one for each lost write and the three kinds the code never closes (section 5), also when calls report after `run()` has raised. `ObservationUnderItsCall`. |
| `events` | 2 clients, 3 events, ring and queues of 2, 1 lost connection, 1 restart | `ConnectedAreHeard`, `ResumeHasNoGap`, `NewestIsKept`, `MissedOnceInOrder`, `CursorOfThisProcess`, `StreamSettles`. |
| `scheduler` | 1 job, 2 handlers, 1 failing call, 1 restart, 1 deleted session | `EnabledHasTimer`, `GhostsNeedOverlap`, `JobsKeepRunning`. |
| `fires` | 1 timer and 1 manual fire, 4 sessions, 1 failing call, 1 restart, 1 deleted session | `TaskTellsOutcome`, `SessionsStayFew`. |
| `team` | 2 members and a reviewer, all three strategies, 1 or 2 at a time, 1 file, 3 file operations, 1 step of the user, 1 failure, piece, exception or crash | `NothingUndone`: no merge takes anything out of the workspace nobody decided to drop. `WorkKept`: what was written is in the workspace or in its tree. `SuccessorSeesWork`. `TeamSettles`. Section 5 says what they exempt. |
| `team_clobber` | the same | **violated** `NeverClobbered`: a baseline taken late makes a collection overwrite another's file as a clean merge. |
| `breaker` | 3 streams, windows and cool-downs of 2 ticks, 1 probe, 3 samples | `ProbeBudget`, `ClosedIsHealthy`, `NeverWedges`. |

`timeline` and `team` are the large ones (3.9 and 1.0 million states, two to
three minutes each with two workers).

Why the bounds are enough.  The hazards need at most two actors on one resource
and a third beside them: two colliding writes and one elsewhere, two sends of
one session or of two, a stale stream, a probe and a newcomer, two mutators of one
job, two results of one batch, two members and the user on one file.  Three
iterations let a list be compacted after it was compacted; eleven messages hold
four turns with tool calls, twice what is kept.  A ring and queues of two overflow
with three events.  Three file operations let a run create a file, another create
it too and the first write it again, which is what a late baseline takes.  Two ticks
tell "just started", "running out" and "over" apart.  One crash suffices for what
recovery finds, because what crashed never acts again.  The theorems of section 4
remove the bounds altogether for the safety properties they state.

CHECK_DEADLOCK is off where the system really stops: a turn that is over, sends
that are all closed, a stream whose events are all delivered, a scheduler or a team
that has nothing left to do.  The compaction and the breaker never stop; a timeline
that is over stutters by `Done`.

### Fairness

* `AgentTurn!FairSpec`: weak fairness of the program's steps.  Every await of the
  turn is bounded: the stall timeout and the retry budget of the stream, 300 s for
  a consent, `tool_timeout` for a dispatch (or the tool's own wall clock), 600 s for
  an answer.  `Cancel` is not fair: nobody has to cancel.
* `SendMessage!FairSpec`: weak fairness of each handler's own steps, including the
  expiry of a consent; a block ends by `AgentTurn!TurnEnds`.  Clients, storage
  errors and crashes are never assumed.
* `TransportBreaker!FairSpec`: the clock runs, a stream settles (the SDK's timeout
  and the stall watchdog bound it), and callers ask again.  That last assumption is
  about callers, and is what the property is about: it says that callers who keep
  asking keep being served.
* `EventStream!FairSpec`: a client's reconnect timer, the rest of `on_connect()`, the
  sender task and the server's noticing of a dead peer (the heartbeat) all go on.
  Events, breaks and restarts are nobody's duty.
* `Scheduler!FairSpec`: a handler that has begun goes on, a fire goes on (a payload is
  timed out), and a timer that is set goes off again and again, which is what
  APScheduler promises.  No request has to be sent.  Storage failures cost fires their
  runs; `JobsKeepRunning` assumes that there are finitely many (`MaxFaults`).
* `TeamRun!FairSpec`: `run()` is awaited to its end, the wall clock ends every member
  (it can be disabled by configuration; the property is about the default), and a
  process that crashed is started again, which runs `recover_orphans()`.  Members
  need not work.  `RunRaises` is not fair: nothing has to fail.

## 4. Theorems

All constants are arbitrary within the named assumptions of the modules
(`TurnAssumption`, `SendAssumption`, `BreakerAssumption`, `StreamAssumption`,
`SchedulerAssumption`, `TimelineAssumption`, `SandboxAssumption`,
`TeamAssumption`), which TLC evaluates on the runs.

* **AgentTurnProofs.**  `TypeCorrect` needs more than the types: `Counted` ties
  the counters of a call to its state (a call that is not settled has reported
  nothing), and `Unfired` says that no hook fired before the turn is over;
  without them `Settle` could count to two and `End` fire twice.
  `WritesSerializedHolds` and `WritesInCallOrderHolds` follow from `LockInv`:
  a running write holds the lock of its path (`Holds`), calls run only in phase 2
  (`Phased`), and no earlier write to the path is still waiting.
  `OneCallAfterCancelHolds` rests on `LateInv`: once the flag is up, the call that is in
  preparation and those that were let through late are one.  Calls are prepared in
  order, one at a time (`PrepareInOrder`), and no new one is taken up.
  `TurnImplementsBlock` maps the initial states and every
  step to Block, or to a stutter; it needs `ConsentInPrepare`, that a consent is
  pending only while the batch is prepared.
  `HistoryPairedHolds` rests on `HistoryInv`: the list is paired once the results
  still owed are appended (`Settled`), which every step of a turn keeps, and compaction
  happens only while none is owed.  `HistoryPaired` itself is not inductive, since
  inside a batch the list is unpaired.  It has a hypothesis, `PairedStore`: a stored
  conversation is paired when a turn loads it.  The run `turn` meets it.  The code does
  not ensure it after a crash, a lost write or an exception between an assistant row and
  its results, nor for a second send that reads inside a batch; those are hazards in `PROJECT.json`
  and belong to the stored history, which is not modelled yet.
* **CompactionProofs.**  For lists of any length.  `CompactedPaired`, `CompactedPrompt`
  and `CompactedRecent` are about `compact_history()` alone: a subsequence sits in its
  list in order (`Embeds`), a message and the results right behind it stay together in
  the turns (`EmbedsContiguous`), and the cut is at a user message, across which no
  result can stand from its call.  That a list with more turns than are kept has such
  a cut, and that the recursive function of `Subsequence` is defined, goes by
  induction; the library's induction theorems take an operator and cannot be used, so
  `Induction` derives the principle for a *set* of numbers from the cardinalities of
  finite sets.  `CompactionKeepsPairsHolds` and `RecentTurnsKeptHolds` are for the
  conversations of MCCompaction, by `ConversationInv`: the list is paired up to what is
  owed, with the prompt in front.  Some turn is kept (`Keep`, and `KeepRecent` of
  AgentTurn, are at least 1; the callers pass 4).
* **SendMessageProofs.**  `TypeCorrect` needs `Unstarted`: a send that has not
  begun its first block has run none, or the block counter could pass its bound.
  `NoDeadEntryHolds` rests on `Owned`: an entry belongs to a send of its session
  that has not left, and the legacy slot repeats an entry of the registry.  The
  last part is the subtle one: a handler that leaves clears the legacy slot only
  if it equals what its session's entry holds.  `AloneIsReachableHolds` rests on
  `AloneOwns`, and `RowSettlesOnceHolds` on `RowsFollow`: a row is settled only at
  a stage from which nothing writes to it.  `SendsImplementBlock` is the other half
  of the contract, by `AskedInBlock`: what a send makes of its blocks is a block.
* **RunTimelineProofs.**  `TimelineInOrderHolds`: an ordinal, once read, stays above
  every step but those of siblings (`Reserved`).  That needs that every insert comes
  right after its read (`JobsPaired`, `Fresh`), that while the batch has the floor the
  loop inserts nothing, since it waits in `gather()` or only fails the row
  (`OneAtATime`), and that all a batch's callbacks
  insert is their own observation (`SlotsObserve`).
  `ObservationUnderItsCallHolds` by `ObsInv`, while no DAO call has failed: the step of
  an announced call is known or being created (`StepsKnown`, `Announced`), a call that
  has not reported has no observation, stored or pending (`Unreported`), a pending one
  is the only one of its call (`Once`) and knows a step that is closed or closed before
  it (`Placed`).  It needs that no close leaves a step running (`JobsShut`).
  `SpinnersExplainedHolds` by counting, for any number of failures: a running step is
  looked after by the recorder, by a pending callback or by its call, which is not
  settled (`Kept`), or it is `Loose`; once the run is closed and its callbacks have
  returned, what is looked after is of one of the three known kinds.  Every failed DAO call
  makes at most one step loose, because a callback closes the old step before it
  opens a new one (`Ordered`) and nothing else forgets one (`Counted`, with `Orders`
  for who remembers what at which `pc`).
* **EventStreamProofs.**  `ResumeHasNoGapHolds` needs the promise also for a
  connection that is still being greeted, from its anchor on (`NoGap`);
  `CursorHolds` needs that anchors follow the log; `NewestIsKeptHolds` and
  `TypeCorrect` rest on lemmas about `Fit`: it keeps the end of a queue, and what it
  does not keep is counted as dropped.  `ConnectedAreHeardHolds` is inductive.
  `MissedOnceInOrderHolds` needs that an event published is never published again
  (`LogFresh`), that nothing above a client's cursor has reached it (`Unseen`), also
  for a cursor of an earlier process (`OwnCursor`), and that until the replay the queue
  of a connection holds only what came after its anchor (`Greeted`).
* **SchedulerProofs.**  `EnabledHasTimerHolds` by `Covered`: whoever works on an
  enabled job without a timer owes it one, or its disabling or removal.
  `GhostsNeedOverlapHolds` by `GhostInv`: a handler that works alone on a job finds
  the row as it left it.  `TaskTellsOutcomeHolds` by `TellInv`, the row and the
  outcome at each stage of a fire, and `SessionsStayFewHolds` by counting (`Few`):
  nothing is minted while nothing is cached, and the sessions minted together with
  the fires about to mint are no more than the slots.
* **TeamRunProofs.**  Whatever a team does to the disk is a `SandboxStep`
  (`StepsAreSandboxSteps`), so the disk is proved about once.  `NothingUndoneHolds`
  rests on `Baselines`: a baseline holds no contribution its mirror has lost without
  somebody deciding so or a write breaking off; `WorkKeptHolds` on that and on receipts; and
  `SuccessorSeesWorkHolds` on `Ordered`: who may have written, who has been collected
  when, and that what was collected was merged or reported.
* **TransportBreakerProofs.**  `TypeCorrect`, `ProbeBudgetHolds` (the fresh probes
  are among the counted ones, and a reaped lease is older than each of them) and
  `ClosedIsHealthyHolds` (evicting and pushing keep a window that was not
  breached unbreached or trip the breaker; closing empties it).

Every safety property a passing run checks is thus a theorem: the invariants, the
action properties and the two refinements.  Only model-checked are the liveness
properties, because fairness and ENABLED are out of the prover's reach: `TurnEnds`,
`SendEnds`, `NeverWedges`, `StreamSettles`, `JobsKeepRunning` and `TeamSettles`.

## 5. Divergences

Three are findings with a run that TLC refutes: `send_gater`, `send_cancel` and
`team_clobber` (`PROJECT.json` quotes the sentences of the code).  The rest were seen while
modelling; the models have the behaviour, and where a property had to be qualified
for it the line says so.

Turn and sends:

* A cancellation that cuts the stream in a text is returned as a normal final answer
  (`StreamCut`; `agent/core.py:1279`, against `docs/agent-core.md:277`).  Calls that
  had arrived by then are skipped, and the turn does end as cancelled.
* A cancellation during the awaits of a call's preparation does not stop that call: it
  is still asked about, admitted and run (`core.py:1633-1634` is the only look at the
  flag).  `OneCallAfterCancel` is the part that holds: no other call is.
* Tool arguments that are JSON but no object are not refused: `request_consent()`
  (`perm_consent.py:151`) or `_write_lock_for()` (`core.py:1678`) raises out of `run()`
  in the middle of the batch, with no terminal hook, the assistant row stored and its
  results not, and the siblings still running.
* An exception other than `LLMError` ends a turn with no terminal hook
  (`StreamCrashes`; `core.py:969`, against `core.py:1111-1113`).
* A call blocked by a hook after the user's consent is announced twice
  (`core.py:1437`, against `core.py:1396-1400`).  The timeline survives it:
  `tool_call()` reuses the step.
* A question registered after the cancel waits its full 600 s (`core.py:517-519`).
* The first thing a further block does is to clear the cancel flag, so a cancel while
  a truncated block winds up is lost (`ipc/builtins.py:1191`, against `:1166-1167` and
  `:1004-1005`; the run `send_cancel`).
* The send that leaves a session pops `_ACTIVE_RUNS` although another send of the
  session is active, which cannot be cancelled any more (`builtins.py:1023`).
* `resolve()` answers True for a consent that is already decided
  (`perm_consent.py:203`).
* A success of a stale stream closes a half-open breaker although no probe reported
  (`resilience/breaker.py:129`).

Timeline:

* A malformed call is announced but neither reported nor audited, so that its step
  is never closed (`core.py:1358`, against `core.py:112-114`); nor are the steps of the
  calls of a batch `run()` has raised in, unless they report later, and the last
  thought of a run that is cancelled or fails.  `SpinnersExplained` names the three
  (`MaySpinOn`).
* Recovery flips the run but leaves its running steps, and a crash between its two
  writes loses the recovery step.
* A storage failure in `complete()` leaves the run running until the next start.

Event stream:

* Events while nobody is connected are never stamped nor kept
  (`http_server.py:301`, against `docs/ipc-contract.md:1053-1055`).
* A replay of up to 512 goes through a queue of 256 and silently loses the older
  ones; `ResumeHasNoGap` counts them as dropped by backpressure.
* An event broadcast while `agent.ready` is being sent comes twice, and before older
  ones that are replayed; `MissedOnceInOrder` speaks of what came before the connection.
* A stale watermark that the new process's numbers pass before the client reconnects
  is taken for a valid one, and what lies below is lost.
* After the epoch check the client reconnects without a cursor, so the ring is not
  replayed (`client.ts:682`, against `docs/ipc-contract.md:1066-1068`).

Scheduler:

* Removing a job while another handler adds or enables it leaves a timer that fires a
  deleted job (`scheduler/__init__.py:218` says otherwise); `GhostsNeedOverlap` is
  the part that holds.
* A deleted system session stays cached, and no job runs until a restart (`:445`);
  `JobsKeepRunning` assumes it is there (`Healthy`).
* Fires that start together mint a session each; the list of 200 sessions may miss
  the existing one.
* A payload that returns an error is first reported completed, then failed; tasks
  running in a crash stay running.
* Timers are loaded by the first `schedule.*` request of a process, not at start; the
  shutdown hook calls a method that does not exist.

Sandboxes:

* A second collection of a run that has a receipt deletes its tree, with the files the
  first one skipped or could not read (`sandbox.py:518-523`, against `:486-488`);
  `WorkKept` exempts such a run (`again`).
* A member that creates a file and goes on writing it after someone else has created
  it takes their version as its baseline and overwrites it as a clean merge
  (`sandbox.py:178`, against `:365-366`; the run `team_clobber`).  `NothingUndone`,
  `WorkKept` and `SuccessorSeesWork` exempt files with such a late baseline (`Late`).
* A workspace file that cannot be read passes for absent and is overwritten without a
  conflict (`file_ops.py:143-163`, `sandbox.py:559-600`); a copy into the workspace
  that breaks off leaves a torn file there and only an entry under `errors`
  (`sandbox.py:605`); a write that breaks off leaves a torn file in the tree, which is
  merged like any other.  What was in the file is then in `lost`, which the three
  properties exempt.
* A receipt that was written in part counts as a receipt, so that the next collection
  deletes the tree.
* `append_file` stages the mirror before `expected_sha256` is checked, and a refused
  write still takes a baseline, so that a later corrected one meets a conflict.
* `collect_subagent` refuses only runs in flight that are background runs
  (`sandbox.py:437-444`): for a member of a team that is still running it collects.

Teams:

* An exception in `_run_body()`, such as a team or agent row that cannot be read, or a
  member's `CancelledError` handed on by `gather()` (`team_orchestrator.py:243`, `288`,
  `323`, `1019`, `486`), leaves `run()`; the handler logs it, and the row stays
  running until the next start.  `TeamSettles` exempts that row (`raised`), and one
  whose last update was lost (`unwritten`).

## 6. Not modelled, and what is next

Within the modelled parts: token estimates, ephemeral notes, tracing, the output
truncation and `queue_interjection()` (no caller) of the turn; the set-up of a
send before its core exists (prompt, tools, attachments), where an exception
leaves the gater registered; `agent.continue_run` and `agent.answer_user`;
`guard()`, the observers and `enabled = False` of the breaker; device-targeted
pushes and the HTTP half of the event server; titles, payloads and memories of the
timeline; the siblings that go on running after `run()` has raised, as far as the send
around them is concerned (AgentTurn and RunTimeline have them, SendMessage lets a
block end with its exception); directories, binary files and the advisory write claims
of the sandboxes; a team's run collected by hand while the team is still running
(`CollectByHand` waits for its end, which the code's guard does not ask for); another
process writing between the hash and the copy of one file; durations: a
cancelled turn may still take the retries and the consent wait it was in.

Most of the repository's lines are not the program's core: ports of renderers,
layout, wire types and SDK contracts that the running backend does not wire up, and
thin I/O.  The share of the lines that the models cover is therefore small, although
the parts of section 1 with a concurrent protocol are nearly all modelled.

Next, most important first:

1. **MessageHistory**: the messages a turn persists, failed writes, a crash, a
   concurrent reader, `continue_run`; what the next turn reads back.
2. **Sub-agents**: background runs, their cancellation through `_ACTIVE_RUNS`, the
   guard of `collect_subagent` against runs in flight.
3. **ToolBreaker** and **PermissionStore**: what a crashing tool records; cache
   against table when a task is cancelled between the two writes.
4. Theorems: that the histories a turn stores satisfy `PairedStore`, or exactly when
   they do not, once MessageHistory says what is stored; the safety parts of the
   liveness properties (what a step that is due can be blocked by).

# gen2 in TLA+

gen2 (`src/src`) is a Rust library for local inference. A host program opens
sessions, sends messages, reads a stream of tokens, and lets the model call
tools. This directory holds a specification of its concurrent core: the parts
where several threads, bounded channels, deadlines and failures meet, and where
a unit test sees one interleaving out of many.

Contents: the system and its parts; the modules; the runs; the proofs; what was
met on the way; what is left out; the plan.

## The system

### Threads

* Any number of **caller threads**. They send commands to the controller and
  read events from a bounded channel per generation (`api/stream.rs`,
  `controller/mod.rs` `InferenceHandle`).
* One **controller thread** (`controller/mod.rs` `run_loop_with_engine`). It
  owns every chat runtime, the residency inventory and the engine. It takes at
  most one command, then makes one scheduler pass that pulls one token for each
  generating chat; with no runtime resident it blocks in `recv`.
* One **utility worker thread** (`utilities/worker.rs`) that owns the embedder
  and the reranker; **speech**, **decision** and **diarization** workers, each a
  thread that owns a model and its memory reservation, with handles that are
  cloned freely; one thread per **image job**.
* In a `Runtime` (`api/runtime.rs`) with several models, **one controller thread
  for each**: they share one admission ledger under one lock and know nothing of
  one another.
* The **tool executor**: one tokio task per executor that receives operations,
  and one task per operation that runs concurrently (`executor.rs`).

### Components

| Component | State it keeps | Operations | Hard part | Correct when |
|---|---|---|---|---|
| Tool executor (`executor.rs`) | submit/result/done channels, two semaphores, slot buffer, cursor, in-flight count, cancel flag | submit, close, cancel, next_result, is_done | tasks, loop, callers and consumer interleave; panics | guards hold, results in order, nothing lost, it drains |
| Controller (`controller/`) | map of runtimes, run state of each, senders, hooks | start, continue, stop, pause, resume, microphone push/commit, system task, load/unload/reload, shutdown, tick | full channels, readers that leave, eviction, timeouts, partial failures | every reader gets its end, nothing outlives its runtime (but on an engine that a failed load replaced) |
| Residency (`residency.rs`, `controller/commands.rs`) | inventory slots, parked identity, engine's model and settings | load ladder, unload, reload, wake, evict for pressure or idleness, helper admission | one step of several fails; a slot read after it went stale | books = memory, within the budget |
| Memory governor (`memory/`, `residency_policy.rs`) | none: a probe at each decision | budgets, pressure, verdicts, plans | the process is measured against a ceiling that depends on the process | a load does not lower the ceiling it was measured against; what is planned is admitted |
| API runtime (`api/runtime.rs`, `api/runtime/`) | registry of models, resident flags, charges, order of use, admission lock | load, restore, preload, evict, make room, image operations, reserve for a worker | the fast path of a turn reads outside the lock; controllers unload and wake below the ledger | the ledger stays within the budget; a job keeps its context |
| Image jobs (`image/`) | context, poisoned flag, active job | start, progress, cancel, end | minutes of work without the lock | the context is there until the job ends |
| Token stream (`api/stream.rs`) | receiver, events set aside, finish | next, wait_until_accepted, drop | disconnect, late events | fused; no event lost or reordered |
| Engine facade, hook bus (`backend/facade.rs`, `engine/telemetry.rs`) | active backend, registry of sessions, listeners | load, reload, unload, start/end session, register | a backend switch, whose load may then fail | registry and hooks follow the runtimes; after a switch that failed to load they do not (see below) |
| Utility worker (`utilities/worker.rs`) | two loaded runtimes, a command queue | load, unload, embed, rerank, status, stop | answers callers while the controller moves on | every request answered, thread joins |
| Native workers (`speech/worker.rs`, `decision/worker.rs`, `diarization/`) | queue, slot, token of the job at work, stop flag, status, reservation, finish flag of a stream | submit, cancel, open a stream, push, finish, unload, shutdown, drop | each does the same things in another order | an unload reaches the job at work, memory is free before it is said to be, everyone returns |
| API session and turns (`api/session.rs`, `api/chat.rs`, `api/turn.rs`, `api/event.rs`) | event log, transcript, delivered count, digest, parked bindings | edit, delete, fork, reopen, send, chat, microphone, settle, switch engine | caller and controller disagree about what was delivered | the backend generates on the transcript; the log restores the session |
| Journal and resident agent (`journal/`) | append-only file of entries; inbox, pending poll, wake state, scratch | append, open, receive, poll, wake, remember, forget, project | crash inside an append, an append that fails half way, entries written before the memory they describe | what was acknowledged is replayed, ids increase, scratch is the fold of the file, a turn is projected whole |
| llama session, KV store (`backend/llama/session.rs`, `kv/`) | transcript, cache, position; snapshot files with a budget | start cold or resumed, pull, append, overflow, save, sweep | the transcript is extended before the cache is; a snapshot is matched by a hash of a prefix | the cache holds the transcript; the store stays within its budget |
| Truncation and compaction (`session_rt/`) | none | drop rounds, summarise | whole rounds, a floor of two messages | what was asked is kept, a round is never split |
| Text pipeline (`backend/common/`, `generation/reply_parts.rs`, `api/event.rs`) | hold-back buffers | stop matching, tool calls, splitting, assembling | token boundaries | the result does not depend on the cuts, nothing is lost |
| Agent loop and tools (`api/agent.rs`, `api/agent_spawned.rs`) | step, queue of the user's messages, calls of the round with batch and results, last three calls | run, follow up, interrupt, ask the user, run a batch, run one alone, record | messages arrive at any moment; several calls of which some are refused, fail or panic | every round is whole in the session, every message heard, nothing runs that was refused, it ends |
| MCP client (`mcp/client.rs`, `mcp/tool.rs`) | child, two pipes, next id, a lock | connect, list, call | late, foreign and missing replies; a deadline in the middle of a frame | a call hears its own reply; who waits gets away |
| Backends (`backend/llama`, `mlx`, ...) | contexts, caches | decode | numeric | out of scope here |
| Zoo, bundles, hardware, routing | tables | lookups | I/O | out of scope here |

Interactions: callers reach the controller through one command channel and hear
from it through their event channel only (stats come through a hook `Forwarder`
that holds a second sender of the same channel). The controller calls the engine
and the utility worker synchronously. The executor shares nothing with the
controller; the agent loop drives both. A resident agent owns its journal and
shares it with nobody; what it hands the rest is a projected transcript.
`PROJECT.json` lists the components with
what is modelled of each, and the hazards at their lines.

## The modules

* `ToolStream` is what the executor promises its users, with no channel, task or
  buffer in it: operations are numbered as they are accepted (`Positions` lists such
  numbers in order), one starts only
  beside operations its guard tolerates, nothing starts after a cancel, and the
  stream passes positions in order and only when they are settled.
* `Executor` models `executor.rs`. Variables are the fields of
  `StreamingToolExecutor` and the locals of `run_executor_loop`; each task of
  `spawn_concurrent` is a small state machine (`spawned`, `permit`, `armed`,
  `running`, `sent`, `gone`) whose steps are its awaits. `submit` is two steps,
  since the flag is read before the lock; `cancel` is two, since the flag is
  raised before the close. Every place of the loop that awaits is a value of
  `pc`. `Abs` instantiates `ToolStream` with the refinement mapping.
* `Controller` models `controller/`: commands are one action each, the scheduler
  pass is `Poll`, `TickBegin` (with maintenance), one `Tick*` action per runtime
  and outcome of `puller.next()`, and `PassEnd`. A generation command carries a
  channel; turn *t* stands for that channel, its reader and the session the
  command builds. `chan[t]` keeps the queue as a sequence of "is it terminal",
  which is all a reader decides on; a full channel drops, as
  `emit_must_deliver` does after its retries. `sessions` and `hooks` are the registry
  and the bus of the engine the controller reaches. `LoadModel` succeeds, fails, or fails
  after it put a new engine in the place of the old one (`Replaced`): then `bare` says that
  this engine has no model, so that nothing starts on it, and `stale` is the bus of the
  old one, which the sessions and pullers of its runtimes hold (`Arc<HookBus>`,
  `backend/llama/session.rs:176`; taken so for every backend) and no command reaches. One such bus is enough: an
  engine that never loaded has neither sessions nor listeners of its own to leave behind.
  `Abandoned` names the turns whose last sender is on it.
* `ModelResidency` models what is in memory against what the controller believes:
  `LoadModel` starts a ladder and each attempt is a step, so that its partial
  failures (refused, backend failed, deferred settings rejected, loaded) are
  separate actions with exactly the effects each leaves behind. Nothing else runs
  between the rungs (one thread), which `ladder = NoLoad` in every other guard
  says. The governor probes the machine at each decision, so pressure, the
  verdict on headroom and the plan are left open each time; the inventory's own
  arithmetic is kept.
* `JournalLog` models the data of `journal/`: the file as a sequence of lines, each a
  record or a torn one, what an append leaves behind when it is cut (`half`,
  `mangled` inside a character, `bare` without its newline, `whole`), what
  `read_all` makes of such a file, and the folds over the entries: the scratch, the
  turns (a tool call with what answers it), the projection of recent turns. It
  holds operators only.
* `Resident` models the agent over such a file (`journal/resident.rs`,
  `journal/wake.rs`): `Note` (remember, forget), `Receive`, the outcomes of `poll`,
  `Finish` with one `FinishAppend` per record, each with its append before its
  change of memory, as the code has it; `Tick` is the interval passing; `Crash`
  falls between operations or inside an append and `Open` follows it. `acked` and
  `barren` are history variables: what callers were told is on file, and how many
  heartbeats in a row changed nothing.
* `MemoryPolicy` holds the arithmetic of memory as operators on naturals, with the
  saturating subtraction and the rounding of the code: tiers, base and effective
  budgets, the desktop and the mobile ceiling, pressure, `Allows` (the check of an
  admission), `FitContext`, `Plan` (what a load is charged) and `FitVerdict`.
* `RuntimeAdmission` is a `Runtime` over it. An operation of a caller is several
  steps: wait for the lock, `EvictOldest` until there is room, decide, load. What
  the code reads without the lock is read in a step of its own (`EnterRestore` for
  the fast path of a turn). The controllers below the ledger are the actions that
  unload an idle model and wake it again; `others` is memory of other processes and
  changes at any time, since every admission probes the host.
* `NativeWorker` is the three native workers in one module, because they are one
  design in three orders: a worker is a list of steps (`Program`, `Leave`), one
  shared access each, and an unload is another list (`Unload`). `kind` is chosen at
  the start. Handles are counted, and the drop of the last one runs concurrently
  with the worker.
* `SessionLog` is the pure part of `api/session.rs`: events, records, the active
  projection, replay, and the rule that a tool round is edited whole.
* `ApiSession` runs such a session on several engines. `s` is the session, `saved` what a
  replay of its log gives, `bk` and `parked` the bookkeeping of the bound and the
  other engines, `runtime` what each controller holds, by content. A turn is decided
  (`opened`, digest, tail), sent, accepted or refused, read and settled in separate
  steps, between which a runtime is evicted, weights are swapped and counts cleared.
  Two history variables name what `ViewIsTranscript` excepts: `unsettled`, turns an engine
  took and the session never heard of, or rolled back; `edited`, turns of an engine put
  aside whose reply an edit took away meanwhile (both under "What was met on the way").
* `TextParsers` are the incremental scanners of a reply: the stop matcher, the
  tool-call parser and the splitter of reasoning. Text is a sequence of fragments,
  cut where a token boundary can fall inside a marker. `TextStream` passes tokens
  through them in the order of `output_filter.rs` and `event.rs`, and states what the whole
  text should have given (`Wanted`), read without cuts.
* `Truncation` is `session_rt/`: rounds, `DropOldestRound`, the estimates, compaction.
  `LlamaSession` is one chat on the llama backend over it. The cache is a sequence
  of blocks, each the message it came from and whether it was rendered or sampled.
  The loops of a cold start are steps (`ColdBatch`, `ColdTrim`), since they need not
  end; the rest of a start, a pull and an append with its overflow path are one
  action each, for they run on the controller thread. `disk` is the store with the
  blobs of other chats, some of which cannot be removed.
* `McpClient` is the client of an external tool server (`mcp/client.rs`) with the tools that
  share it: the handshake, the lock, which who asked first gets first, the id of the request under way, and
  the two pipes as sequences. A write may be cut by its deadline, and what is written
  next joins the torn line. The server is external: it answers in any order, late or
  never, speaks unasked and exits.
* `AgentLoop` is one run of an agent over it (`api/agent.rs` `run_with`), each place where the
  loop asks, waits or decides a value of `pc`: the boundary, the turn, the look at each
  call, the batch that runs together, the call that runs alone, the record of results.
  What the model writes is any of the `Rounds`; what a tool does is told, fatal or a
  panic; the user pushes messages and refuses. `ran`, `sent`, `allowed`, `refused` and `interrupted`
  are history variables.
* The modules `MC...` give the constants values.
* `ExecutorProofs`, `ControllerProofs`, `MemoryProofs` (residency and native workers),
  `RuntimeProofs`, `ResidentProofs`, `AgentProofs`, `LlamaProofs` and `SessionProofs` hold the theorems.

A definition whose comment says "Variant:" is a faulty form of the definition that
follows it; replacing the one by the other makes a named property fail, which is
how each property was shown to depend on the code.

## The runs

Bounds are chosen so that each interesting encounter needs no more actors than the
run has; what each bound must reach is said with it.

| Run | Bounds | Shows |
|---|---|---|
| `Executor` | 3 operations, any guards, `max_concurrent` 2, 1 submitter, panics on | exclusivity and permits (`GuardsRespected`), the exact counter, cancel, and that `Executor` implements `ToolStream` (each value once, in submission order, none withheld); when no body panics, after close, cancel or drop the loop ends and `is_done` is stored, and every value reaches a consumer that reads. Three operations are the least where one waits for a permit, one runs and one is exclusive behind them. The submitter checks the flag and sends in two steps, between which another thread cancels; more submitters only queue behind one lock, and what the proofs say is for any number of them. |
| `ControllerSafety` | 2 chats, 2 system-task keys, 2 turns, all request kinds, channel of 2, limit of 1 | sessions, hooks and channels follow their runtimes, and a waiting reader has a writer, both but for what a failed load left on a replaced engine (`bare`, `Abandoned`); no finished system task lingers; a turn is never given up silently; a chat makes room. A channel of 2 is filled by one acceptance and one token; a limit of 1 makes every second chat evict. |
| `ControllerLive` | 1 chat, 1 system task, 2 turns, text and microphone | a reader is freed, unless its turn was paused, goes on recording, lost its end to a full channel, or was passed on after a failed load had replaced the engine. Two turns are one to be paused and one to continue it, with the load between. |
| `ResidencySafety` | 2 models on 2 backends, 2 helpers, 2 chats, ladder of 3, budget 4 of which the models take 2 and 3; starts with a backend or without | the books are true of the chat model and the helpers (`BooksTrue`), budget respected, identity kept. The larger model leaves room for one helper only, so that admission really refuses. |
| `ResidentSafety` | 5 entries, 2 crashes, idle after 1 tick, projection of 2; a crash leaves half a line, a line without its newline, or all of it; a failed append leaves nothing | what was acknowledged is replayed after any crash and ids increase (`JournalKept`); the notes are the replay of the file and projected turns are whole (`RebuiltWhole`); one wake at a time and what was asked is kept (`WakesKept`). The runs a caller may hand back hold a note, a round of one call and a round of two. Five entries are a wake and the larger round, or the same round cut by a crash and what comes behind it; the second crash falls on a file that the first one tore. |
| `RuntimeSafety` | 2 callers, text models of 2000 and 1500 MB, an image model with a peak of 3000 and a worker of 2500 MB, a desktop of 16 GB whose other processes hold 2 or 10 GB, a host budget of 4000 | the ledger within the budget, a job's context, the ceiling. The budget holds both text models, the smaller of them beside the worker with nothing to spare, or the image model alone, so every kind of admission makes room; with 10 GB elsewhere the process guard refuses what the budget allows. Two callers are enough for one inside the lock and one past the unlocked test. |
| `WorkerSafety` | each of the three workers, 2 callers (one of which may open streams), queue of 1, stream queue of 1, 1 block | an unload reaches the work, memory released first, the slot exact, everyone returns. With a queue of one a second caller meets it full; the second job is taken while the first one's caller still waits. |
| `SessionSafety` | 2 engines, 4 message records, 3 turns in nine forms (ways to ask, overrides, tools, thinking, microphone), 3 steps of anything else | the view of an accepted turn is the transcript, a replay restores the session, a follow-up is warm. Three turns are one to open, one whose outcome is lost, one that continues; the steps between are edits, evictions, swaps, cleared counts. Too few to put an engine aside, edit and come back to it: what happens there is for the theorem `TurnSeesItsTranscript` alone. |
| `TextSafety` | four vocabularies whose tokens cut markers and stop strings in several places, replies of 5 tokens (6 with stop strings); the marker of a rehearsed call (`name[ARGS]`) may be cut off its name and is not cut inside | within those cuts the cuts do not matter, nothing is lost. The longest construct of each vocabulary (an open reasoning block, a call, a name before its marker) fits into five tokens with text around it. |
| `LlamaSafety` | a window of 10 with 4 reserved for a reply, a tool block of 4, messages of 1 or 5, replies of 1 or 4, compaction that keeps 1, 4 messages, 1 edit, 1 save, 2 models; a store of 4 files and 8 units with four foreign blobs, one of which cannot be removed | the cache is the transcript, the question is kept, the store keeps its budget, rounds are dropped whole. Two messages of 5 overflow the window and a tool round of two small ones does not, so both loops, compaction, the overflow error and both splits of a resume occur. |
| `AgentSafety` | turns of two calls in five combinations (two that share the client, an exclusive before and after a parallel one, two risky ones, one name called over and over), 2 steps, 1 message of the user, 4 requests, 1 line unasked | rounds are recorded whole and in order, every message is heard, the gate holds, a call hears its own reply, a run ends. Four requests are the handshake and two calls, the second of which finds the late reply of the first; two steps are one whose results the next could miss, and four equal calls, of which three are a circle; one message is a follow-up or an interruption, at any moment; the order of several is for the theorem. |
| `LlamaHang` | the same as `LlamaSafety`, with fairness of the two loops | violation: a start never returns |

Deadlock is not checked where a system may really stop: a bounded number of
operations, turns, entries, messages, requests or tokens is used up, a controller that was shut
down and a worker that was unloaded stop, and two callers of a `Runtime` may have
nothing left to load. `ModelResidency` never stops and its run checks deadlock.

The directory holds ten more configurations that are not among the runs. Each ends
in a counterexample and is described under "What was met on the way"; `tlc -config
<name>.cfg <module>` shows it.

`StampsCollide` says whether two system tasks may get the same key: the key is a
name and the time in milliseconds, so they may when both are submitted within one.
It is `FALSE` in the runs and what happens otherwise is described below.

Symmetry is used only where the actors are interchangeable (chat ids in `ControllerSafety`, callers in `RuntimeSafety`, engines in
`SessionSafety`, model identities in `LlamaSafety`) and not where a liveness property is
checked.

### Fairness

`Executor!Fairness`: tokio polls every woken task and its semaphores are FIFO, so
a task that may step does (weak fairness per task and for the loop); operation
bodies end, since `with_timeout` bounds them or the caller chose them so; a thread
inside `submit` or `cancel` leaves it; a consumer that holds the executor goes on
calling `next_result`. Nothing is assumed of callers of `submit`, `close`,
`cancel` or of the drop.

`Controller!Fairness`: the thread keeps looping, and each round takes at most one
command before its pass, so commands cannot starve a pass (weak fairness of the
loop's own steps). A generation that is ticked again and again is ticked past its
deadline in the end, because the deadline is a wall clock (strong fairness of
`TickTimeout`). Readers that hold a stream read it. Nothing is assumed of callers
or of the engine ever ending a generation.

`NativeWorker!Fairness`: the worker thread, the thread that unloads and each caller
that is inside a call run on (weak fairness of each). Nothing is assumed of work that
is under way beyond its being one step: what is shown is that nobody is left waiting
on a queue, a reply or a join. `AgentLoop!FairSpec`: the thread of the run is scheduled, its
own tools return and a turn of the model ends (the deadline of a generation, see
`Controller`), and the client's reads and writes have deadlines (weak fairness of the
loop and of the client). Nothing is assumed of the server, which may be silent for ever, or of the
user. `LlamaSession!Fairness` (for `LlamaHang` only): the two
loops of a cold start, once entered, are executed, so that what does not end there
is the loop and not the scheduler.

## The proofs

`ExecutorProofs`, for every number of submitters, operations and permits
(`ExecutorAssumption`), whatever panics:

* `CounterIsExact`: `in_flight` is the number of tasks the loop has yet to hear
  from. By itself it is not inductive: a step that spawns must know the operation
  had no task before, which is `QueueFresh` (numbers in the queue are increasing
  and below `next_seq`, and nothing at or past them was spawned); one that takes a
  report must know that the reported task was not lost to a panic
  (`ReportsFollow`); and the exclusive operation in hand has no task
  (`ExclusiveInHand`), so that its end is not counted.
* `GuardsAreRespected`, from two theorems. `ExclusiveRunsAlone`: the exclusive body starts
  at a count of zero, and a count of zero is an empty set of tasks at work.
  `PermitsBound`: `PermitsInUse` bounds the holders of permits, and who runs holds
  one; a GPU body holds the one GPU permit.
* `CancelHolds`: the action property, by cases on the steps.

`ToolStreamImplemented`, in the same module and under the same assumption: every
behaviour of `Executor` is one of `ToolStream` under the mapping of `Abs`. The invariant
`RInv` adds to that of the counter what ties the two levels: a filled slot tells how its
operation ended (`SlotsTrue`), what is queued or spawned has declared its guard
(`Declared`) and has not ended yet (`Undecided`). Each action is one lemma that says which
step of `ToolStream` it is, or that it is none. The flush of the buffer is the one that
takes work: that the walk stops somewhere is the existence of a least open slot
(`LeastNat`), and that what it passes on is what the promise lists is `FlushPasses`, over the
ascending listing of a finite set of numbers (`Ascending`).

`ControllerProofs`, for any chats, system-task keys, requests, turns, limit and
channel capacity of at least two (`ControllerAssumption`), when stamps do not collide
(with a collision `NothingOutlivesItsRuntime` is false):

* `ControllerTypes`, `NothingOutlives`, `TasksRetired`, `ReaderHasWriter`,
  `EndsAreTold`, `RoomMade`: every safety property of the run. `RoomMade` also asks
  for a limit other than zero, which the public setter gives (`api/runtime.rs:1365`).
* The invariant adds three things to the properties. `Owned`: turn and session of a
  resident runtime were asked for before, so the next turn's channel, session and
  hook are nobody's yet. `PassOK`: a pass ticks generating runtimes only (a tick of a
  runtime that is gone would bring it back), and a finished system task is on the
  list the pass retires. `Ends`: a runtime that is not at work has settled its
  channel: the reader left, saw the end, has it in the queue, or will never get it.
* `NothingOutlives` and `ReaderHasWriter` are proved with the exceptions their properties name: the
  hooks of a replaced engine, and readers whose last sender is on its bus. `LoadStep` has the
  three outcomes of a load; `SameEngine` is every other command. That a bare engine has no
  session (`BareBooks`) keeps the books of sessions and runtimes one invariant before and after
  the switch, and `HooksFollow` says that what its bus does hold is of the turn being served.
* `Heard` is what every event does to a channel: it never unsettles it. With
  `PushKeeps` and `NotifyKeeps` the argument over all commands is one line per
  command. `Retired`, `Built`, `Updated` and `Untouched` are the four things a step can
  do to the books of runtimes, sessions and hooks.
* `RoomMade` needs the set of runtimes to be finite; it is, since each holds a session
  of its own and there were only so many turns.

`MemoryProofs`, first part, for all models, backends, sizes and budgets
(`ResidencyAssumption`): `ResidencyTypes`, `BooksAreTrue`, `BudgetKept`, `IdentityIsKept`. The invariant is
`ResidencyTypeOK /\ LadderOK /\ Books`:
`LadderOK` says a load in progress has rungs left and a model it is after (without
it the last rung could step below zero), `Books` collects the three accounting
facts, which support one another: an admission is within the budget because the
slot it takes was empty.

`RuntimeProofs`, for every host, size, header and model:

* `HardAtLeastSoft`, `CeilingStable` (the statement behind `CeilingHolds`), `RoomShrinks`
  (the same question on a phone, where the ceiling is not raised by what the process
  holds), `GuardImpliesPressure` (of the two guards of an admission the second is
  implied by the first), `PlanWithinBudget`, `AdviceIsHonest` and `PlannedIsAdmitted`:
  facts about `MemoryPolicy`, where truncating division and saturation are what could
  break them.
* `JobContextKept`: while an image job generates its context is resident. The
  invariant adds `Admissions`: who makes room, decides or loads holds the lock, and a
  job that asked for no memory, having found its context there, still finds it: an
  eviction between its look and its start would need the lock.
* `BudgetIsKept`: the ledger stays within the host budget. The admission decides in one step
  and charges in another, so the property alone is not inductive. `RoomStays` carries the
  decision over: while a caller loads, the ledger and the need he was given room for are
  within the budget together, because nobody else charges without the lock. `Books`
  says why the charge is no more than that need (`PeaksCharged`, `NeedsFit`), and that
  what a restore charges is what the first load did (`RestoresKnown`). The sums of the ledger
  are over any finite set of models and workers; that such a sum exists and grows with its
  terms (`SumsExist`, `TotalIs`, `TotalGrowth`) is shown by a least counterexample.
* `CeilingIsHeld`: the property of the ceiling, in every reachable state, on a desktop
  that does not report commit. Where commit is reported (Windows), what is left of
  it bounds the ceiling, and the model leaves open what commit the load takes.

`MemoryProofs`, second part, for each of the three workers, any callers, queue length, block
queue and bound on blocks (`WorkerAssumption`). All three safety properties of the run
are proved, along one chain of invariants, each on top of the one before:

* `MemoryReleasedFirst`. `Course` says where the worker is in its list of steps: between
  two jobs, at a suffix of `Program`, at a step of a stream with such a suffix behind
  it, or at a suffix of `Leave`; and that past the release nothing is reserved, and
  that nothing is called unloaded before the third step of `Leave`. `StatusTold` ties a
  shutdown and a failed load to that status.
* `UnloadIsHeard`. `Owned`: the job in the queue or at work has an owner who still waits
  for it, or none, and nobody owns two (`Single`, `Held`); hence no caller returns and
  makes his token good again while a job goes by it, unless he leaves the job behind,
  dead as it is (`CallersKeepDead`). `Unloading` then says what an unload that
  has this or that step behind it has done (`Past`), and `Follows` that the work is only
  come to through the second look at the flag, after the publication.
* `SlotIsExact`. `Slot` names the holder: a call that claimed, the job in the queue, or
  the job that still has `"free"` before it; `FreeStep` says which step moves it from
  one to the next. `Blocks` accounts for the blocks of a stream, the one at work
  included.

`ResidentProofs`, for any entries, crashes, limits and projections:

* `PositionsGoUp`, when no failed append leaves its whole line (with one, a position is
  given to two records, as `journal/store.rs:146` allows). The next position is above
  all that are on file but for one case, which `Ahead` names: a failed write that lost
  only its newline leaves a record with that position at the torn end, where the next
  append spoils it.
* `JournalIsKept`, when also no write is cut inside a character (`journal/store.rs:168`).
  `AckedOnDisk` says an acknowledged record has a line of its own, newline and all, so that
  nothing written later can touch it; `Lines` that only the last line lacks a newline.
* `WakesAreKept`: who has been handed a run is known to the scheduler (`Scheduled`).
* `NotesAreRebuilt`, when a failed append also leaves nothing of its line (`FailsClean`): the
  notes are changed before the append and restored from the old copy when it fails, so a line
  that got through all the same would be in the file and not in the notes. `ScratchIsReplay` is
  the property, made inductive by `OnDisk` and `NewlinesKept`: where a line may be torn or joined,
  what the notes hold is still what a replay of the whole lines gives. The replay and the list of
  calls that still wait for a result (`Awaiting`) are recursive functions over the entries; that
  functions with those equations exist (`CourseExists`) and are the only ones (`CoursesAgree`)
  is shown by a least counterexample, and what they compute by the same argument.

`AgentProofs`, for any calls, rounds, budgets and messages, and for a server that also may
speak without end (`McpAssumption`, `AgentAssumption`):

* `OwnReplies`. `Known` follows a request: while it is in the server's stdin or held it is there
  once and unanswered, and what stands in the stdout with a result or an error is what the
  server answered to that id. `Pending` says that the id under way is that of the call at
  the head of the lock, and that who waits has been told nothing. That a lock has a head is
  the existence of a least number (`HolderWaits`).
* `GateIsHeld`. `Scheduled` says where each call before the loop's index is: settled, or in
  the batch, which holds parallel calls, or one call with all earlier ones settled. `Standing`
  keeps a refusal among the outcomes of the round until the run ends there, so that the record
  finds it. `Link` ties the line for the lock to the calls that run.
* `MessagesAreHeard`. `Heard` says that what the user pushed is 1 to some number in the session,
  in that order, and the rest in the queue: each boundary takes the queue whole and appends it.
* `RoundsAreWhole`. `Dated` says that while a round runs the turn that asked for it stands last
  in the session, so that its results are appended right behind it; `Listed`, that each call before the
  index of the loop is in the batch or has its result, once; `Started`, that what runs is of this
  round. The batch's results come in any order and are recorded in the order of the calls: the
  listing of a set of numbers in ascending order is shown to exist, to hold each once and to be
  the interval it must be (`AscendingLists`, `SortedLists`, `RecordTakes`).

`LlamaProofs`, for any window, reply limit, sizes, models, compaction, store, foreign blobs and
bounds (`LlamaSessionAssumption`): `CacheIsTranscript`, `RepliesAnswer`, `RoundsStayWhole`,
`StoreKeepsBudget`, which are all safety properties of the run. The invariant
(`Invariance`) is `Types /\ Conversation /\ Sessions /\ Store`:

* `CacheIsTranscript`. The cache alone is not inductive, since an append and a restore trust what
  others hold. `Sessions` says what the cache of a session holds in each phase. At rest that is the
  transcript, or the transcript and one reply behind it: the one the conversation has right
  behind what the caller believes delivered (`Transcribed`), so that the next append, which
  does not render replies, puts it in its place. A restored session is known to agree only on
  what was asked, and so is a snapshot of this chat (`Store`), for a start takes the reply of a
  snapshot on trust. `SplitsAre` and `StartedIs` cover the two splits of a resume and the cold
  start, `ExtendInv` and `OverflowInv` the append with and without room.
* `RepliesAnswer`. `Starting` and `Pulling` keep the last message of the conversation last in the
  transcript and in the cache; `DroppingFits` and `CompactionFits` say that neither a drop nor a compaction takes
  it away, nor the system prompt at the head.
* `RoundsStayWhole`. `Linked`: a call is answered by the message right behind it, and an answer
  stands right behind its call. So a pair never begins in one round and ends in another
  (`PairsAdjoin`), and `DropLinked` keeps the links in what is left.
* `StoreKeepsBudget`, for a store that is within its budget at first, as the run's is, and
  `SweepsKeepBudget`, for any: what a pass of saves leaves is within the budget however
  full the store was found. `SweptIs` walks the files newest first and bounds what is kept so far.
* The sums and filters over messages and blocks (`Tokens`, `Among`) are folds. What they compute is
  shown through recursive functions with the same equations (`CourseExists`, `CoursesAgree`) and
  a least counterexample (`LeastNat`, `UpTo`, `BySequence`).

`SessionProofs`, for any engines, requests and bounds (`BoundsAssumption`, `NoEngineAssumption`,
`RequestsAssumption`): `LogIsTheTruth`, `TypesHold`, `TurnSeesItsTranscript` and `FollowUpsAreWarm`, all safety
properties of the run, along one chain of invariants.

* `LogIsTheTruth`. The replay and the session must meet after each operation, and an operation is only right
  on a log that is well formed: an id names a record and stands once in the projection. So the inductive
  invariant (`Types`) joins `saved = s` and `Sound(s)` to the types of the books, the queues, the runtimes and
  the turn, whose staged messages must still fit into the records. One lemma for each operation of the owner
  says that its events replay to its result (`SessionKept` joins them); dispatch, commit and completion are rows
  of additions.
* `TurnSeesItsTranscript` (`ViewIsTranscript`). The owner of the session and a controller know each other only by
  commands and events, so what the runtime will hold depends on the books, on what is queued and on what the
  runtime holds now. `EnginesOK` says that of each engine, bound or parked, the turn in flight and the exceptions
  aside: turns are sent and taken in order (`Numbers`, `Took`); a command carries the whole transcript, in one
  part or two (`Commanded`); a continuation that waits has only stops and excepted turns before it, and fits the
  runtime it will find (`Awaited`); and while the books call a conversation open, nothing else is on its way and
  the runtime rests on more than the digest covers, by the reply it ended with (`Opening`, `Holds`). `CurrentOK`
  carries what the turn in flight knows between dispatch and settlement: its command is the last queued, its runtime
  works on what was asked, and when it has told its end the runtime holds the transcript and the reply (`InHand`,
  `Did`), which is what settlement makes `Holds` from. A continuation is sound because a digest that is
  still a prefix of the projection, with no reply but the engine's own in the tail, leaves out exactly that reply
  (`ContinueExact`).
* `FollowUpsAreWarm` (`FollowUpIsWarm`). `WarmOK`: since a turn settled with all it sent acknowledged, the books are
  open, of this load, and cover the first messages of the transcript, and of what is behind them only the first
  is the model's (`Covered`, `Trailing`), which the messages of the user and of tools that may be added leave so.
  `HeardOK` says that open books cover what a turn in flight relies on. That a turn which opened the books was
  acknowledged with the whole transcript is `Counted`, a part of `CurrentOK`.
* The walks of `SessionLog` are functions over a prefix (`Replay`, `Among`, `Trim`, `Edited`): `ReplayOne`, `ReplayTwo`
  and `ReplayAdded` give what one, two and a row of additions leave; `TrimSound` and `EditedKeeps` say that a trim keeps
  ids in order and that an edit adds records behind the old ones and never an id twice, by a least counterexample.

Only model-checked:

* all liveness (`ValuesArrive`, `ReaderFreed`, `EveryoneReturns`, `CloseDrains`, `RunEnds`), which is
  beyond the prover;
* `CutsDoNotMatter` and `NothingLost` of `TextStream`, which compare two runs of recursive parsers
  (`TextParsers`) over the same characters cut differently: an induction over data.

## What was met on the way

### Where the code does not do what its comments say

`LlamaHang` is a run, and its finding is in `PROJECT.json`: the batch loop of a cold
start (`session_rt/truncate.rs:86`) drops nothing when the oldest round would leave
fewer than two messages, and never ends, on the controller thread.

Each of the others has a property that fails, under a configuration of its own in this
directory or, for `ForwarderFollowsTurn`, under that of a run.

* `ExecutorPanic.cfg` (`MCExecutor`, `StreamEnds`). The drain before an exclusive operation
  (`executor.rs:411`) receives on a channel of which the loop itself holds a sender:
  an operation that panicked never reports, and the loop waits for ever. `close`
  says (`executor.rs:223-224`) "The executor will drain remaining work and then
  `next_result` will return `None`".
* `ControllerStranded.cfg` (`MCController`, `ReaderNeverStranded`). `emit_must_deliver`
  (`controller/metrics.rs:75`) gives a full channel up after its retries, and the
  runtime that stays resident keeps the sender: a reader that had fallen behind
  drains the channel and waits for ever. `controller/tests/lifecycle.rs:41-42`: "A
  caller waiting for a terminal event must not be left waiting because the model
  had nothing to say".
* `ControllerSafety.cfg` with `ForwarderFollowsTurn` in the place of its invariants
  (`MCController`). `load_model_with` replaces the engine (`backend/facade.rs:493`, `:529`) before it
  loads; when the load then fails, the runtimes are not retired
  (`controller/commands.rs:508-517` is skipped) and go on, on the engine they hold, while `hooks()`
  and the registry are those of the new one. Start, such a load, an end of the turn, continue:
  `ContinueChat` deregisters and registers on the new bus only, the session goes on telling the
  old one, and there the `Forwarder` keeps the sender of the first turn. A turn that was paused
  meanwhile and is passed on so leaves its reader with neither an end nor a disconnect.
  `controller/commands.rs:1012-1015`: "point it at this turn's, or every continuation's `FinalStats`
  lands on a receiver that is gone." `NothingOutlivesItsRuntime` excepts the hooks of an engine
  so replaced (`bare`), `WaitingReaderHasWriter` and `ReaderFreed` the readers (`Abandoned`);
  without the exceptions each of the three fails.
* `ResidencyBooks.cfg` (`MCModelResidency`, `AdmittedIsLoaded`). A successful `LoadModel`
  does not clear `idle_unloaded_llm` (`controller/commands.rs:376`): after an unload
  of one model, a load of another and an eviction, the reload brings the second back
  and admits the first. `controller/commands.rs:334-335`: "The backend retains its
  last LoadRequest across unload, and the saved residency identity re-admits the
  same runtime."
* `ResidencyBooks.cfg` again (`EvictedIsReleased`; `-continue` shows both). `unload_for_pressure` may
  evict the chat model when the last capture expired in the same pass, and
  `unload_evicted_helper` (`controller/commands.rs:255`) ignores that kind: the books
  are empty and the weights stay. `controller/commands.rs:247`: "Release whatever the
  residency policy just evicted."
* `ResidentTorn.cfg` (`MCResident`, `HistoryLoads`). `append` (`journal/store.rs:138`) writes
  on where a torn line stops, with no newline between: the acknowledged record joins
  the torn one, and once another line follows, `read_all` reports `Corrupt` and the
  journal never opens again. `journal/store.rs:174-176`: "A half-written final line is
  what a crash mid-append leaves. Everything before it is intact and is the history;
  refusing to load any of it would turn a torn write into total loss."
* `ResidentBored.cfg` (`MCResident`, `BoredomStops`). A heartbeat that falls due while the agent
  is busy becomes the pending wake (`journal/wake.rs:168`), which runs before the
  boredom test and is not counted: an agent polled during runs that last longer than
  the interval wakes for ever. `journal/wake.rs:22-23`: "An agent that wakes, finds
  nothing, and does nothing must eventually stop waking".
* `RuntimeWake.cfg` (`MCRuntimeAdmission`, `LedgerCoversLoaded`). `restore` tests residency without
  the lock (`api/runtime.rs:1078`); another caller may then evict that model, and the
  turn, still on its way, is woken by the controller, which admits it against its own
  inventory: weights in memory that the ledger does not charge. `api/runtime.rs:101-103`:
  "Serialises admission: one load, restore, or eviction decides at a time, so two
  turns racing to restore two models cannot both pass a check the other's weights
  then break."
* `WorkerDrain.cfg` (`MCNativeWorker`, `AcceptedIsConsumed`). `run_live` reads the queue first
  and `finish_requested` second (`diarization/nemo.rs:88`): a block accepted between the
  two, followed by `finish`, stays in the queue while the stream ends `Finished`.
  `diarization/nemo.rs:87`: "An empty queue plus finish means every accepted block was
  consumed."
* `SessionDoubled.cfg` (`MCApiSession`, `SeenOnce`). A continued turn that is never settled (a
  `Chat::stream`, an `EventStream` dropped after the reply was buffered, a failed
  append) leaves the conversation open and the delivered count as it was, while the
  runtime keeps the appended messages (`api/chat.rs:388`): the next turn's digest
  still matches and it sends them again. `api/chat.rs:391-394`: "The conversation
  therefore stays closed and the next turn rebuilds from the transcript: one extra
  prefill, and no chance of sending a suffix of a conversation the backend does not
  have." `ViewIsTranscript` therefore excepts histories with such a turn (`unsettled`).
* `SessionDoubled.cfg` again (`ParkedIsTranscript`; `-continue` shows both). An edit closes the bookkeeping of the
  bound engine only (`after_projection_change`, `api/session.rs:1330`); `clear()` alone also forgets the parked
  ones (`:958`: "Every engine's copy described the old history."). The digest of a parked engine covers what
  was acknowledged, not its reply to that: take the reply away while another engine is bound, come back, and the
  digest passes and the turn is appended to a runtime that still holds the reply. `api/session.rs:1094-1098`: "if the
  session comes back to it with the prefix intact (§17.2), the next turn appends instead of re-prefilling. Validity is proved
  per engine at dispatch [...] parking never asserts anything." `ViewIsTranscript` excepts such a runtime (`edited`).
  A rollback of a refused legacy `Chat` does the same to the bound engine too, since `rollback_to` does not
  close it (in `unsettled`).
* `TextSplitName.cfg` (`MCTextStream`, `SplitNameIsSeen`). A trailing run of name characters is
  held only while the buffer ends in it (`backend/common/tool_calls.rs:287`): once the
  token with `[` arrives, the name is released as text and only `[` is held, so that
  the call, when `ARGS]` completes it, has no name and stays text.
  `backend/common/tool_calls.rs:99-101` says what the hold is for. `CutsDoNotMatter`
  is therefore over vocabularies that never cut this marker inside; a cut between the name
  and the whole marker is among them.
* `AgentChatty.cfg` (`MCAgentLoop`, `RunEnds`). The deadline of a request is one for each line it
  reads (`mcp/client.rs:233`): a server that sends a line that is not the answer, a notification
  for instance, before each deadline keeps the request waiting for ever, and with it the run and
  every tool of that server. `mcp/client.rs:52`: "A request exceeded its timeout with neither a
  response nor a close"; `mcp/tests/client.rs:363`: "skipping uncorrelated frames must
  not become an unbounded wait".

### Other behaviour that the models make visible

* A value may lie behind a skipped operation through `submit` alone (a GPU
  operation is skipped at its permit after a later one completed); the comment at
  `executor.rs:852` says it cannot yet. The flush handles it.
* A finished chat that is stopped, evicted or shut down sends `Stopped` after the
  event that ended it. Readers stop at the first.
* System tasks do not make room, so the map may exceed `max_active_chats`.
* `ContinueChat` on a paused chat generates on a session whose pause flag is up,
  and the turn runs into its deadline unless it is resumed.
* `ReloadModel` keeps runtimes whose sessions the llama registry has dropped; they
  hold the old weights.
* A `LoadModel` that fails after the swap leaves `loaded_model_file_bytes`, and
  leaves no parked identity, so that `ReloadModel` then loads without admission.
* A rejected deferred settings upload leaves a model in the engine that no slot
  accounts for.
* Settings are uploaded before a load switches the backend
  (`controller/commands.rs:179`): the backend that is switched to never sees them.
* Two system tasks submitted in one millisecond share a key. The second replaces
  the first in the map without ending it, and leaves its session, its hook and its
  reader behind.
* An append whose bytes reached the file and whose `sync` failed is an error for
  the caller, but the entry is there: the next append uses the same id again. The
  run has errors that leave nothing (`Errors = {"none"}`); with `"whole"` among
  them `JournalKept` fails.
* A line cut inside a multibyte character is not text, and `read_all` fails with an
  I/O error rather than with a torn line (`"mangled"`).
* A `finish` whose append fails leaves the session busy, and a poll whose append
  fails has already taken the request off the inbox.
* A call that was never answered keeps its turn open, and every record behind it
  joins that turn, whatever the comment at `journal/turn.rs:38` says of swallowing
  the rest; the projection then keeps or drops them together.
* An idle unload leaves the charge of a model on the ledger of its `Runtime`, so that a
  model that is not in memory still keeps another one out until it is evicted.
* An image model whose context lock is poisoned keeps its reservation for ever, and
  stops the loop of `make_room` when it is the oldest.
* The embedder and the reranker are on no `Runtime`'s ledger.
* `ModelInfo::fits(None)` may say `TooLarge` of a file whose header lacks the cost of a
  token: the context is then fitted to the file, the need is computed from a file a
  fifth larger (`api/fit.rs:139-150`). `AdviceIsHonest` asks for a header that says.
* A speech or diarization job that an unload cut short is reported `Cancelled` to a
  caller who cancelled nothing; so is a decision submitted while the unload passes.
* A `ContinueChat` that rebuilds an evicted runtime acknowledges the full length on top
  of the held count: the next turn is prefilled again. `FollowUpIsWarm` excepts it.
* `rollback_to` after a refused chat with a staged tool result cuts off the call whose
  message the engine holds, and leaves the conversation open.
* Tool results without an id never count as answers in `answered_somewhere`.
* `[THINK]` is a marker for the tool parser and not for the splitter; the parser closes
  a reasoning block at its own marker, the splitter at any; a reply that ends exactly
  on a held short marker shows it.
* An append that overflows renders the transcript again without the tool block, for
  the comment at `backend/llama/session.rs:1836` has it in the cache already, which the
  same path has just cleared.
* A snapshot is matched by roles, bodies and names up to the last one or two messages.
  A last reply that was edited, a changed tool set or thinking mode, and a
  `tool_call_id` are not in it, so a resumed cache may differ from the transcript
  (`kv/types.rs:26-28` says "state is resumed exactly or not at all"). `KvIsTranscript` takes the
  replies of a resumed session on trust for that reason.
* The overflow test uses the context size of the settings, not the one the session was
  fitted to, and counts the transcript rendered without tools rather than the
  position in the cache: a decode may fail for want of room. A failed decode does not
  set the stop flag, so the chat is unusable until a new start.
* Compaction keeps the last six messages, wherever that falls: it may split a round.
* An overflow whose restart fails leaves an empty cache beside an extended transcript.
* A repeated call ends an agent's run at once (`api/agent.rs:610`): the calls of that round that
  have run are in the session without results. A call that ends the run hides the results
  of those behind it, too. `api/agent.rs:127-128` says of a tool that runs through an interruption that
  stopping it "would leave a side effect with nothing in the transcript".
* An interruption abandons the calls the loop has not yet come to; those that wait
  in the batch still run.
* A user who refuses a call ends the run with `tool_failed`: the reason he gave never
  reaches the model. Without a callback `AskOnRisky` asks nobody and runs everything.
* A message that arrives while the answer is shaped, or when a budget ends the run, is
  never delivered; a turn that uses up the tokens leaves nothing in the session.
* A JSON-RPC error ends the run, where a result with `isError` is told to the model; so does a request of
  the server's own whose id meets the one under way.
* A frame cut by its deadline spoils the next request, which joins its line.
* A tool that panics takes the thread of the run with it: the session of an `AgentRun` is
  lost, with neither `Done` nor `Failed`.
* `AgentRun::cancel`, "Stop the run outright." (`api/agent_spawned.rs:311`), stops the
  generation under way; the loop then takes that turn for an answer or runs its calls. The
  stop of an interruption may equally arrive late and cut the turn that answers it. Both are read from
  the code: in the model a turn may end at any point for any reason.
* The sweep of the store may remove the newest large blob and keep an older small one.

## Not modelled, and why

* Sampling, grammars and the contents of arguments: data that no control here
  depends on.
* Status queries, metrics, snapshots, logging: they change no state.
* The utility worker's queue: the controller waits for the reply of a load and
  hands requests over, so only what is loaded matters to residency.
* In the text pipeline: errors pushed by a backend, speech, pauses, the bound of 64
  bytes on a held name, UTF-8 inside a token, the bracket-name and `CALL_ID` forms of a
  call, its arguments. A stop string strictly inside another is assumed away.
* In `Controller`: a load that gets through on a new engine and whose deferred settings are
  then refused. It takes an engine that was none (a load for a backend not compiled in,
  below resident runtimes) and a second load with settings the backend rejects; then sessions
  could start on the new engine beside those of the old. A registration denied after the load
  does not happen: `admit` repeats the test of `can_admit` on one snapshot.
* In the llama session: media, microphone and speech, strict requests, speculative
  decoding, pause and resume (a resume pulls an idle runtime again,
  `controller/commands.rs:1175-1183`, from an empty cache when a failed overflow had left
  one, `backend/llama/session.rs:1734-1751`), templates without a system role, several calls in
  one reply. Of the store: the bytes of a blob and its manifest, their checksums, a
  crash between the two writes, and saves of other chats in the same pass.
* `full_context` turns after a switch back to a parked engine, which the engine answers
  with "unsupported"; parallel calls; builder options that change no state.
* `wait_until_accepted` of `api/stream.rs`: its side queue is private to one reader.
* In the agent loop: when exactly a stop reaches the engine, the account of tokens, what a
  search finds (it adds to the tools the model is shown), updates to an observer. Messages of the user
  that arrive while tools run are taken to arrive when the last has returned, since nobody
  looks before; what a server does while nobody waits for it is taken to happen when
  somebody next does. The payload of a reply is a result or an error.
* Size plans in `ModelResidency` are left open there; `MemoryPolicy` has them.
* `Idle` as a run state: reserved in the code, no resident runtime is left in it.
* Remote dispatch: a trait for the host; the repository has no implementation.
* `never_bored`, which only lifts the limit on heartbeats, and the in-memory
  journal, which has no file. Bytes that a failed `sync` loses later, and a file edited by
  somebody else.
* Decoding in the backends, zoo, bundles, hardware: numeric, I/O or tables. They are the larger
  part of the repository's lines.

## The plan

What would come next, in this order: the store with a crash between blob and manifest; the
engine's stop under `AgentLoop`, over `Controller`.

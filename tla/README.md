# PhyAgentOS: formal model

TLA+ modules for the parts of PhyAgentOS that decide what a robot is asked to do and what is
believed to have happened, the TLC runs that check them, and TLAPS proofs of the main results.
`PROJECT.json` lists components, runs, mutants, the line map, findings, hazards and theorems.

## 1. The system

| component | state it keeps | operations | modelled by |
|---|---|---|---|
| AgentTask coordinator and store (`forge/task.py`, tools in `agent/tools/forge_*.py`) | SQLite rows: task status, revisions, Tool records, snapshot references; the Runtime's guard sets | create, begin_revision, cancel, finalize, invoke_query, start_action, start/observe/stop session, observe_action, reconcile | `AgentTask` (contracts: `TaskSlot`, `ToolLedger`) |
| Cron (`cron/service.py`, `agent/tools/cron.py`) | jobs in memory and in `jobs.json`, one timer task | add, remove, enable, run, list, timer tick, start, stop | `CronService` |
| Agent loop (`agent/loop.py`, `bus/`, `agent/subagent.py`, tools that route) | inbound queue, `_processing_lock`, asyncio tasks of each session, routing shared by the tools | turns, /new, /stop, /restart, process_direct, spawn, announce | `AgentLoop` |
| Sessions and memory (`session/manager.py`, `agent/memory.py`) | cached and saved sessions, `MEMORY.md`, `HISTORY.md` | append, consolidate, archive, save | `Sessions`, driven by `AgentLoop` |
| Skill Runtime lifecycle (`skill_runtime/manager.py`, `state.py`, `locking.py`, `integration.py`) | one JSON state file per Skill, a file lock, the active-runtime registry | start, stop, status, switch, add/discard references | `SkillRuntime` (contract: `RuntimeLifecycle`); between Skills `RuntimeSwitch` |
| Skill installation (`skill_runtime/installer.py`, `registry.py`, `archive.py`) | download cache, bundle, backups, locked nodes | install, update, remove beside start and stop | `SkillInstallation` |
| Tool client, activation, binding (`agent/experience/activation.py`, `forge/binding.py`, `forge/client.py`) | activation of a turn, binding candidates | activate, preview, freeze, create | `Activation`; lost answers in `AgentTask` |
| Evidence (`forge/observation.py`, `evidence.py`, `verification/request_builder.py`) | snapshots and their files | capture before, capture after, judge the bundle | `Evidence` |
| Verification (`verification/service.py`, `agent/session_verifier.py`) | a llama.cpp child, a call budget | start, poll, verify, stop | `Verifier`; its verdict is an input of `AgentTask` |
| Experience (`agent/experience/`) | SQLite episodes, evolution jobs, lesson clusters, candidates; the block in SKILL.md | schedule, process, retry, observe, synthesize, promote, recover | `Experience` |
| Channels (`channels/`) | processed ids, albums, typing tasks, cursors, outbound queue | handle, buffer, dispatch, retry | `Chats`, `Mochat` |
| Gateway process, heartbeat (`cli/commands.py`, `heartbeat/service.py`, `agent/tools/mcp.py`) | connections of channels and MCP servers, timers | start, connect, tick, shut down | `Gateway` |
| Providers (`providers/`, `cli/providers.py`, `config/`) | `config.json`, the Agent's snapshot, selections of sessions | configure, use, remove, select, ask with retries | `Providers` |
| Other CLI commands; file, shell and web tools | none that two actors share | I/O | not modelled |

How they interact. A channel puts messages on the bus; the loop makes each an asyncio task that takes
`_processing_lock`. A turn (chat, cron, heartbeat, CLI) runs Tools; the Forge Tools call the
coordinator in the same process. Chat turns hold the lock, but `process_direct`
(cron, heartbeat) and `/stop` do not, so several coroutines can be inside the coordinator, each
suspended at one of its awaits. The coordinator POSTs to the Gateway of the Skill, which owns execution
facts, and keeps two sets in the Skill Runtime's state file (live invocations, task bindings) so that a stop of
the Runtime is refused. It binds a task to what `activate_skill` saw, captures evidence around its Actions, asks
the verifier, and hands the terminal task to Experience. The CLI starts, stops, switches, installs and removes
Skills and edits providers from other processes, through files and file locks. After a process start the first turn
reconciles the non-terminal task by GETs only.

What is hard: reads used after an await, answers lost or applied late, crashes between two writes,
finalization that awaits evidence and a verdict while Tools run, cancellation against finalization,
timers cancelled while they run a job, two processes on one file, a shutdown while things are being opened,
messages delivered twice by overlapping handlers, retries of what was already done.

What makes each component correct: the task slot holds one task and its records never claim an outcome
the Gateway did not reach; nothing is sent twice; nothing is forgotten after a crash; a Runtime is not
stopped under work that is tracked, nor loses the bundle it runs from; a due cron job runs, a removed one does
not; every message is answered or stopped, in its own chat; evidence is of the right moment; what Experience
learns rests on enough distinct tasks; a shutdown leaves no child and no connection.

## 2. Modules

| module | role |
|---|---|
| `TaskSlot` | the lifecycle an AgentTask promises: one slot, bounded replans, no success out of `cancelling`, terminal is final |
| `ToolLedger` | what the records promise whatever overlaps: one POST per intent, its answer stored at most once, later claims read back from an invocation with a name |
| `AgentTask`, `MCAgentTask` | the coordinator, its callers, store, guards, Gateway and crashes, which implements both; its values for TLC |
| `CronService`, `MCCronService` | the scheduler, and its values |
| `RuntimeLifecycle` | the lifecycle a Runtime file promises: references only while it runs, stopped only with its flow down and its references audited, left by a new instance only |
| `SkillRuntime` | the Runtime of one Skill between processes, which implements it |
| `Sessions` | sessions and their consolidation, as operators and state that `AgentLoop` extends |
| `AgentLoop`, `MCAgentLoop` | the composition of queue, lock, turns, subagents, tools and sessions |
| `Experience`, `SkillInstallation`, `RuntimeSwitch`, `Mochat`, `Chats`, `Providers`, `Evidence`, `Verifier`, `Activation`, `Gateway` | ten parts that share no state |
| `MCServices` | checks the ten, one at a time, in one run |
| `AgentTask_proofs` | theorems about the coordinator: for any number of coroutines, then for one at a time |
| `CronService_proofs`, `SkillRuntime_proofs`, `Conversation_proofs`, `Channels_proofs` | theorems about the scheduler, the Runtime, `AgentLoop` with `Sessions`, and `Chats` with `Mochat` |
| `SkillServices_proofs`, `Services_proofs` | theorems about the other parts: installation, switch, evidence, activation; verifier, providers, gateway, experience |
| `MCServices_proofs` | the theorems of the ten parts, lifted to the specification of `MCServices` |

### AgentTask and the code

State. `task` and `rec` are the SQLite rows (a record's identity carries its task and its Tool with
arguments). `remote` is what the Gateway did with the POST of a record. `tracked` and `bound` are
`runtime_invocation_ids`/`runtime_session_ids` and `runtime_task_binding_ids`, both persistent. `act[a]`
is one coroutine: the await it stands at and exactly the values it has read and will use.
`reconciled` is `AgentLoop._forge_reconciled`.

Steps. One action is what the code does between two awaits; `finalize_task` is
`RequestFinalize`, then `FinishFromFacts` or `StartVerification` and `ApplyVerdict` or
`VerificationError`; `start_action` is `CheckAction`, `TakeSnapshot`, `DispatchAction`, `Admitted` or
`PostFails`; `cancel_task` is `RequestCancel` and `FinishCancel`; `reconcile_nonterminal` is the
`Reconcile…` actions. Every `store.update` is one transaction. With `"torn"` the process may also die
between two writes of one synchronous block (a status and the release of the binding, an identity and
its tracking, the binding and the task row).

Environment. `Faults` switches on: `torn`; `tracker` (tracking an identity raises); `interrupt`
(an asyncio task is cancelled, and `except Exception` does not see it); `amnesia` (the Gateway answers
`unknown`). POST answers may be lost with or without an identity, GETs may fail during
reconciliation, a validation or a capture may raise. A reconciliation itself may fail half way, as often as it likes, when
`tracker` is on: `tracker.add` raises while no Runtime is active, and the next turn begins the recovery again.

Abstractions. What the Gateway does with an admitted POST is one value of `remote`, "running"; an observation of it may carry
the status `pending` (phase `dispatching`) or `running` (`accepted`, `running`, `stopping`, which no test of the code tells apart), and is stored as such.
Requests to cancel an invocation or stop a Session change nothing PAOS knows, so they are
the Gateway's own steps. An answer without a phase the code can read leaves the record as it is. Reconciliation visits records
in any order. The replan deadline may have passed at any time. Arguments, evidence content, errors
and events are data.

### CronService and the code

`mem` is `_store`, `disk` is `jobs.json`, `known` says that the file's mtime is the one of the last
save. `tick` is `_timer_task`: asleep, or running a due job with the rest of the due list; `own` says
whether the job object at hand is still in the store (a reload replaces all of them). `_arm_timer`
cancels whatever `tick` is doing, so every API action that re-arms also ends the tick. `manual` is a `run_job` in
progress. `OtherProcess` is the CLI agent's cron tool on the same file. Time is "later" or "due".

### SkillRuntime and the code

`file` is the Skill's JSON state, replaced as a whole by every save; `lock` is `SkillOperationLock`;
`op[p]` is where process `p` stands in an operation, with the state it has read and will write. `flows`
and `gateway` are Dora and the Gateway address, which change by themselves. `refs` is one of the three
reference fields: the sets are alike, and the guard of stop reads their union. `owned` is history: the
references whose `add` returned for the current instance.

One action lies between two saves, probes or commands: `start` is `Start`, perhaps a whole `status`, then
`SaveStarting`, `Launch`, `SaveRunning`, or `Rollback` and `SaveStartFailed`; `stop` is `Stop`, `SaveStopping`,
`StopFlow`, `SaveStopped`; `status` is `ReadStatus`, `ProbeLock`, `Probe`, `SaveReconciled`; `add` and `discard`
are `Track`, `LoadToReplace`, `Replace`. A process may die at each. A busy lock is an error that changes
nothing, so `Acquire` has it as a guard. `status` of a healthy Runtime saves as well: the copy has a new
`updated_at` and differs. A probe reads the flow, then the Gateway seconds later; since the Gateway is
free to change at any time, one step reads both. Error texts, `gateway_identity`, logs and the answers of
Gateway control requests are data. A `dora start` admitted only after its rollback is not modelled.

`status` and the sets take no lock. With `Serialised` the deployment keeps them from overlapping any other
operation of the Skill (one CLI user who waits while the Agent is idle); start and stop remain separated
by the lock alone. Without it they overlap everything.

### Sessions, AgentLoop and the code

A session is the sequence of turns saved in it, since consolidation cuts at user messages only;
`last_consolidated` counts the turns out of the prompt. `disk[k]` is the `.jsonl` file, `cache[k]` the object in
`SessionManager`; `history` and `memory` are the turns that `HISTORY.md` and `MEMORY.md` cover. A consolidation round
may succeed, fail or fall back to raw archiving; `/new` archives and clears, in that order, and a crash may separate the two.

`turn[t]` is a message, an announcement of a subagent or a direct turn with the asyncio task that runs it; `queue`
is who holds and who awaits `_processing_lock`; `main` is where `AgentLoop.run` stands inside `/stop`. `ctx` and `sent` are the
routing that `message`, `spawn`, `cron` and the Forge tools share: a direct turn overwrites them under a chat turn,
and `overlap` marks the turns to which that happened. Asyncio tasks are cancelled at an await and unwind later (`Unwind`,
`SubCancelled`), which is what `/stop` waits for. `robots` are the non-terminal AgentTasks in the order in which `active()` finds them. `/stop` cancels
the first one if it is of its session: at once (`StopRest`), or after it has awaited the Gateway for each invocation that runs (`main.at = "forge"`,
`StopForgeEnded`); meanwhile turns go on, and the task may end or be followed by another. `Restart` is `os.execv` after `/restart`; files and the AgentTask row survive.

### The parts in MCServices and the code

* `Experience`: `episode`, `job`, `cluster`, `support`, `cjob`, `lesson`, `candidate` are tables, `skillFile` the
  managed block of SKILL.md. A step is one transaction; the process may die between two (`RestartExperience`, which is
  `recover` with its reset of running jobs). The model's assessment is any that its contract admits.
* `SkillInstallation`: `part` and `archive` are the download cache, whose chunks a server that ignores a range or lies
  may spoil; `MoveAside`, `Place`, `Commit`, `Undo` are `install`; `MoveAway`, `Delete` are the removal. Other command lines start, stop and ask the
  status of the same Skill: `SaveStart`, `StartFlow`, `Launched` or `LaunchFails` (whose rollback may leave the flow up), `SaveStop`, `StopFlow`, `Halted` or
  `HaltFails`, and, without the lock, `ReadStatus`, `ProbeFlow`, `SaveStatus`, which may write `failed` over a live Runtime and `running` again later.
  `flowOf` is the bundle the live flow was started from, `lapsed` says that the file has since called the flow inactive. A process may die at each step.
* `RuntimeSwitch`: `switch_skill` step by step, with its rollback, while the Agent follows the state files, binds a task
  and records the reference; two of the three Skills share a Gateway address, so that the old Runtime must stop first. A dora stop may fail
  and leave the flow up (`stopFaults`), or time out with the flow down (`lostStops`); a start may fail before or after its first save, or leave its flow behind.
* `Mochat`: the socket, the polling worker and notifications hand over one session by cursor; the panel is buffered until
  a mention or a timer. `saved` is the cursor file, debounced by `saving`. `history` is what the first cold payload held, once; what a later
  process drops because it finds no cursor in the file is `skipped`.
* `Chats`: each adapter is the sequence of the steps of its handler (`FeishuSteps` and so on); memory of processed ids,
  albums, typing, mail polls, and `_dispatch_outbound` with the pieces and retries of each adapter: whether attachments go before the
  text (`Forms`), which failures end the message (`Abandons`: elsewhere send goes on), and which put a notice in its place (`Notices`).
* `Providers`: a command loads `config.json`, checks, and replaces it, without a lock; the Agent keeps the snapshot it
  started with; a turn is pinned to one selection.
* `Evidence`: two actors that capture before, send Actions and finalize; the moments of images and states are counted in
  record updates, which is all that the checks of `request_builder.py` compare.
* `Verifier`: `start`, its poll, its timeout and `stop` of the service in any order by workers, with the child of an
  earlier Agent on the port.
* `Activation`: from `activate_skill` over preview and freeze to the binding, between the awaits of which Runtimes,
  ToolSpecs and bundle change. ToolSpecs, SKILL.md and skill.yaml have contents, which is what the hashes of a binding tell apart, and an
  earlier content may come back.
* `Gateway`: `run` of the gateway command, one channel of any of nine platforms, MCP stacks connected by whoever comes
  first, Ctrl-C and failure, and the re-arming of cron, which cancels the turn of the tick while the gateway runs (`RearmCron`).

## 3. Runs

| run | instance | shows |
|---|---|---|
| `task_slot` | 1 coroutine, 2 tasks, query/Action/task Session/shared Session, 1 record, 1 crash, all modes, torn, tracker, amnesia | types, binding held, cancellation honoured, refinement of `TaskSlot` |
| `task_records` | 1 coroutine, 1 task, 2 records that may be identical, 1 crash, torn, tracker, amnesia, fairness | no blind resend, no wedge, unknown keeps the binding, every intent is resolved |
| `task_concurrent` | 2 coroutines, 1 task, query and Action, 1 crash, tracker, interrupt, amnesia | facts, guards, cancellation, complete recovery, refinement of `ToolLedger` (so no repeated POST) |
| `cron_timer` | 3 jobs (one of each kind), 4 calls, edits or crashes, fairness | timer never lost, no stale start, no repetition, due jobs run |
| `skill_lifecycle` | 2 processes, 2 profiles, 2 references, 3 starts, `Serialised` | stopped means down, a start owns the file, refinement of `RuntimeLifecycle` (so nothing comes back) |
| `conversation` | 2 chats and cron, 3 turns, 1 subagent, 1 direct turn, 1 tool round, 1 crash, fairness | nothing said is forgotten, turns do not mix, /stop leaves nothing, every message ends |
| `services` | the ten parts, bounds below | one or two properties of each part, and the types of all |
| `two_turns_two_tasks`, `fact_rewritten`, `late_before`, `one_time_twice`, `stop_with_references` | smallest that fails | the five disagreements below |

`services` is one run because its parts share no state: the first state chooses a part, the others rest in a first
state of theirs, and the reachable states are the sum of the parts', never the product. Values of different parts are the same
model values, so that one symmetry serves all; it is sound because no definition of a part distinguishes
them and no liveness is checked in the run.

Bounds. Records and tasks interact pairwise (an identical earlier Action, a task created beside
another), so two of either reach every guard; a second copy of one Request is needed only for
`NoBlindResend` and for captures. `task_records` and `task_concurrent` take the mode `recovery`, in which a task meets evidence, verdicts and
replans; the other modes leave some of that out, and `task_slot` has them all. `task_records` has no replan, which would only add revisions between its
records; `task_slot` has one, and the theorems about the records of one turn have any number. One crash separates two process lives, and each run lets
every action happen before and after it. `MaxReplans = 1` reaches both sides of the budget. Two
coroutines are enough for a stale read against any other step; properties of a single turn are checked
with one. Two processes exercise the file lock, two profiles a start over another profile's state, and three
starts a start after a stop, after a failure and after a crash. `Actor` and `TaskId` are symmetric where no liveness is checked.
Deadlock is not checked where a system may rest: a task, a scheduler, an idle loop, a command line.

* `conversation`: three turns are a turn, one that waits for the lock and a direct one or `/stop` beside them; two rounds are a
  consolidation that repeats.
* Experience: two tasks and two patterns, Lessons for two failures, a candidate for one success, two attempts and one
  fault: a job that is retried after it wrote something, a Lesson that a later job supersedes.
* Installation: two versions, two processes, four operations (an install, a start, something that overlaps, and one more), two failures or deaths; two
  chunks, since a resumption needs a first and a rest. Switch: three Skills at two addresses, two profiles, two switches and two failures: a rollback that fails too.
* Mochat: three posts against a memory of two ids and one restart; Chats: two messages of which one may be delivered twice, memory
  of one, two replies of two pieces, one fault. Providers: two providers of which one does not route a model, two processes,
  three commands.
* Evidence: one source, two actors, two Actions, two frames, one restart. Verifier: two workers, three children, two faults (a
  timeout and a restart of the Agent). Activation: two conversations, two Runtimes, two Tools,
  two contents, one change and one return to a former content, which together are A, B, A. Gateway: nine platforms, two stacks.

Fairness. `task_records`: a POST returns (the HTTP client has timeouts). Nothing is assumed of the recovery, which may fail each time;
`IntentResolved` says what holds if it gets through (`[]<>reconciled`). `cron_timer`: a sleep ends and an agent turn ends (iterations and provider calls are bounded).
`conversation`: model calls return and one of the ready tasks moves (calls have timeouts and `max_iterations` bounds them), the
loop consumes its queue, the Gateway calls of `/stop` return (`ForgeToolClient` has a timeout), and a cancelled subagent unwinds. Nothing is assumed of the Gateway, the user, the crashes or time.

## 4. Where documentation and code disagree

1. *One non-terminal task.* `cancel_task` writes `cancelling` after its awaits without reading the
   status again. Meanwhile another turn may finalize the task and open the next: two are non-terminal. With one
   coroutine at a time the slot is safe, which is proved (`OneActiveAlone`).
2. *Terminal records are final.* `observe_action` and `observe_session` store any answer that arrives
   while allowed, so a late `running` reopens a `succeeded` record. (One turn alone can also reopen an
   `unknown` one; that is how an unknown outcome is repaired.) What does hold, and is proved: a definite
   outcome on record is always the Gateway's (`FactsCorrect`).
3. *Before is before.* A failed first capture does not stop the Action; the next Action captures a
   "before" that is after.
4. *A one-time job runs once.* Any add, remove or enable while it runs cancels its turn and re-arms the
   timer; the job is still due and starts again.
5. *Normal stop is rejected.* `status`, and `stop` itself, save a state read seconds earlier and so erase a
   reference that the Agent added meanwhile; the next normal stop proceeds under a bound task.

Limits the models also show, most of which no document denies. They are where the properties have their conditions:

* an interrupted POST leaves a record that blocks finalization until the next restart (`NoWedge` is checked and proved without interrupts); with
  concurrent turns a cancellation may be overwritten by a verdict;
* a job added by another process during a tick is erased, and a reload during a run detaches its job (`~shared`);
* a start of another profile beside a flow whose Gateway is silent leaves that flow unnamed; without `Serialised` a late `status` also
  revives a stopped state or marks a new instance failed; a failing `dora list` reads as not running (`ListMayFail`);
* a direct turn overwrites the routing of a chat turn (`overlap`), and `/stop` misses subagents spawned under a thread's key; it cancels the AgentTask
  that `active()` gives, so one created behind it while the Gateway was awaited goes on;
* recovery looks at one active task: if overlapping turns had left two, the records of the other stay as they are (`OneActive` in `RecoveryComplete`);
* a `status` that finds a live Runtime not ready, a stop that fails and a rollback that leaves its flow all write `failed`; an install or a removal
  then takes the bundle from under the flow (`lapsed`);
* a consolidation whose model omits the history entry still advances (`Omits`), so nothing would say what was dropped;
* Mochat may hand a message over twice when a bounded memory or a crash no longer covers it (`excused`), and delivers the panel again after a
  restart; a crash between the first payload and the first save of the cursor makes the next payload history, so that messages posted meanwhile are
  lost (`skipped`, only with `cursorLost`);
* a mail that a failed poll had flagged as seen is lost: a mail gets one turn at most, not at least;
* Feishu messages whose downloads take different times overtake each other; a Telegram sender who is not admitted leaves "typing" on;
  a retry after a lost answer sends a piece twice (`repeated`);
* a switch whose discovery misses a Runtime, or whose old flow dora cannot stop, leaves two (`stopFaults`); one whose dora stop times out after it
  stopped the flow may leave none (`lostStops`);
* the two readings of a binding compare hashes, so a content that changes and returns between them is not seen (`calm`);
* a crash between the two moves of an installation leaves no bundle in place, though a backup of it;
* a readiness timeout closes the verification service for the life of the Agent, and the child of a dead Agent keeps the port;
* connections to MCP servers made by a cron turn after `close_mcp` are on a stack that nobody closes (`phase = "runs"`), and so are those of a
  cron turn that was cancelled while it connected: the next turn that connects overwrites its stack (`abandoned`);
* two `paos provider` commands at once lose one of the changes, though never the usability of the default.

## 5. Proofs

Every theorem is about a specification of a module (`Spec`, or the `…Spec` of a part, which the proof module defines) for every value of the
constants that satisfies the module's assumptions: bounds are naturals, tables are typed, and at least one user key exists. What a theorem assumes
besides stands in its statement. Each safety invariant, action property and refinement of the passing runs has a theorem.

**AgentTask, any number of coroutines** (`AgentTask_proofs`).

* `TypeInv` = `TypeOK` and `Known`: a record that does not exist was never posted and has no
  identity; an identity means the Gateway had admitted the POST. `Known` is needed because the phase of
  an answer is read from `remote`. From it: `TypeCorrect`, `NoResend`.
* `FactsInv` = `FactsAuthoritative` and the same claim for answers in flight: what a coroutine
  carries from the Gateway is settled only if the Gateway has settled so, and the Gateway never
  changes a settled outcome. From it: `FactsCorrect`, `CancelledCorrect`.
* `BudgetCorrect` is inductive with `TypeInv`.
* `GuardInv`: each record with an identity is tracked, or its tracking raised, or the Gateway runs it no longer. `GuardedUntorn` assumes
  that no process dies between the writes of one block, and needs it: after a death between storing an identity with the status `unknown` and
  tracking it, recovery does not read the record again, and nothing guards the Runtime once the task has released its binding.
* `LedgerInv`: who creates a record or awaits the answer to its POST is alone with it, whoever else observes or cancels; a recovery writes only records
  that exist, and is over before any turn may create one. Without the last part a recovery could give up an intent whose POST is just under
  way. With it each action is a step of `ToolLedger` or leaves the records alone: `LedgerImplemented`.
* `RecoverInv`: until the store is reconciled nothing but recovery runs, and each coroutine in it still has every stray record (`Stray`: pending, unnamed, of
  the active task) on its list, also when another one repairs it first or gives up half way. From it `RecoveryIsComplete`.
* `SlotInv` counts what `cancel_task` and `finalize_task` can still write to: the non-terminal tasks and those that a suspended call carries (`Held`)
  are at most as many as the coroutines, since only a coroutine that carries nothing creates a task, and only into an empty slot. From it
  `SlotBounded`, which assumes that the coroutines are finitely many: what remains of one slot when calls overlap (the first disagreement).

**AgentTask, one coroutine at a time** (last part of `AgentTask_proofs`, `Actor = {self}`; tasks, Tools, records, crashes and bounds are arbitrary).

* `TurnInv` ties each row to the slot and the binding, and says what a suspended coroutine knows: the task it will write to
  is still active, because nobody else could move. From it `OneActiveAlone`, `BindingHeldAlone`,
  `CancelHonouredAlone` and, action by action, `SlotImplemented`, the refinement of `TaskSlot`.
* `RecordInv` adds what it knows of the records (`Opened`): nothing of its task is pending once it captures, nothing identical is unknown once it
  may send. From it `UnknownBindsAlone` and `NoBlindResendAlone`.
* `TraceInv`: each pending intent without an identity is the one whose POST is under way or is on the list of the recovery, which comes first, and
  none is left once recovery is through (`Traced`); who observes has an identity (`Backed`), and a record has a task (`Rooted`).
  From it `NoWedgeAlone`, which also assumes that no POST is interrupted.

With two coroutines `OneActive` is refuted by a run (the first disagreement), so that these hypotheses are no convenience.

**SkillRuntime** (`SkillRuntime_proofs`). `RuntimeTyped` and `StartOwns` hold always: whatever overlaps a start, between its saves the file is
replaced by itself or by an operation that takes no lock (which are the ones that the fifth disagreement is about). The others assume `Serialised`
and `~ListMayFail`. `AloneInv` says that at most one process is busy (the lock and `Serialised` give
this), that what it has read is what the file says (`Sound`), and that a file at `stopping` holds only
audited references. Without `Sound` nothing is inductive: each save writes a copy. Each step is an
untouched file, an update of a live instance, a fresh start or a last write of a stop (`FileUntouched`,
`FileUpdated`, `FileStopped`), and the theorems `StoppedDown` and `AuditedDrops` follow. `LifecycleImplemented` maps `flows` and the contents of `file` (not which copy it is) to `RuntimeLifecycle`, action by action: `Sound`
makes each save a step from what the file still says, `FileSound` gives `FinishStop` its two conditions.

**CronService** (`CronService_proofs`). `Inv` adds to `TimerCovers` that rows are `Sane` (no next run on a row that is not
live, nor on a disabled one-shot; a one-shot is due only when its moment has come), that a service that runs alone on its file knows
it (`Owned`), and what the due list promises (`Pending`): its jobs are enabled, distinct from the running one and, if one-shot, not
finished. `Pending` is inductive only because every API call that could falsify it re-arms the timer and so ends the tick. From it `CronTyped`,
`NothingUntimed` and `NoStaleStart`.

**AgentLoop and Sessions** (`Conversation_proofs`). `ConvInv` = `LoopInv` and `StopInv`. `LoopInv` joins the types, what a row of a turn may be at each
stage (`Rows`), that a queued turn in flight heads the lock's queue (`LockInv`), that a key has one direct turn (`DirectInv`), that the inbound queue holds
each message once (`InboundInv`), that the shared routing is that of the one turn that nobody overlapped (`RoutingInv`), and that an open session
agrees with its file while plans of consolidation stay within it (`MemoryInv`). `StopInv` says what `/stop` has cancelled at each of its awaits.
The actions are cut into stages: those of turns (`TurnsMove`), those of sessions (`SessionsMove`) and those that touch neither. From it `LoopTypes`,
`TurnsDoNotMix` and `StopIsComplete`; `TurnsAreRemembered` assumes `~Omits`, since a round without a history entry forgets by itself.

**Chats** (`Channels_proofs`). `ChatInv` has three parts. What comes in: a message between "remember" and "publish", or a mail in a poll, is not
published yet and its id is in memory, at most one of its two deliveries being there (`OnceInv`). What goes out: the numbers of the queue, of the send
under way and of the pieces in the chat are in that order, and a piece equal to the one being sent is one whose answer was lost (`RepliesInv`). Typing: it is
on only while one of six things is owed, which each step hands on to the next (`TypingInv`). From it `KeepsConversation`.

**Mochat** (`Channels_proofs`). A payload is handled message by message, a recursive function of the length of the prefix; that it exists and what it does
(`PrefixExists`, `AllHandled`) is proved by a least counterexample, since the provers cannot use an induction theorem over a predicate. `SessionInv` says why
a message that was handed over and is not excused cannot come again: its id is in memory, or it was notified and lies before every cursor that the server
may still answer (`PassedOver`). From it `MochatHandsOver`. `ReadInv` adds that a session read before is cold again
only if a process ended without its cursor in the file.

**The other parts** (`SkillServices_proofs`, `Services_proofs`).

* Installation: `InstInv` says that who works on the directory or the Runtime of a Skill holds the one lock, that while the bundle is set aside no flow
  lives but one that was given up, that what is about to launch has its bundle and node, and that a flow not given up is active in the file.
  From it `BundleStays` and `OnlyRemovalLoses`. Switch: `SwitchInv` follows a switch and its rollback to the places where two Runtimes
  or none may be live, and with whose failure. From it `OneRuntimeServes`.
* Evidence: `EvidenceInv` orders the moments of a capture, of the file and of the record updates (`Comparable`), so that a picture another actor
  overwrote is later, never earlier. From it `EvidenceIsFresh`. Activation: `ActivationInv` keeps readings in the order of their moments: no
  later than now while their Runtime lives, and a creation between the readings of its candidate and those its turn validates with. From it `BoundAtOnce`.
* `NoChildLeft` needs only types. `SelectionsAlwaysHold` needs that what a command has loaded was usable when it was stored, and that overrides and turns were valid in the
  Agent's snapshot, which never changes. `NothingEscapesShutdown` needs that one caller at a time connects, and on the current stack (`OneConnects`).
* `LessonInv` counts no more than the tasks that support a cluster, in the row, in what a worker has read and in the Lesson, and `PromotionInv` lets one
  worker at a time apply candidates of successful tasks only. From them `LessonsAreEarned` and `PromotionsAreEarned`.
* Types of the parts: `OneChildListens`, `OneConfigurationTaken`, `OpenStacksWereMade`, `ExperienceTyped`, `OneHolder`, `FilesStayTyped`, `ReferenceHasFile`,
  `OneBinding`, `SeenBounded`, `MemoryBounded`. Those which bound a memory, a lock or a child rest on the invariants above; the others carry, with the
  rows, what a suspended step holds and will write.

**The composition** (`MCServices_proofs`). Each part takes its own steps or none in `Spec` of `MCServices`, and begins in a first state of its own, so that
`Spec` implies the specification of each part (`VerifierPart`, `ExperiencePart` and so on). `EveryPartTyped` and `EveryPromiseKept` then
say of the composition, for every value of its constants, what the run `services` checks for one.

Only model-checked: `IntentResolved`, `DueRuns` and `EveryMessageEnds` (liveness under fairness is beyond the prover, as is ENABLED), and the five
disagreements, which are counterexamples. Five theorems state operators that no run lists: `NoResend` (`IntentBeforePost`), `BudgetCorrect`, `OneActiveAlone`,
`SlotBounded` and `AuditedDrops`; the refinements, which the runs list, say the same or more of records and Runtimes. No
module uses RECURSIVE operators.

## 6. Not modelled

* The CLI beyond the commands named above, onboarding, printing, templates, paths: no state that two actors share.
* File, shell and web tools: single calls to the operating system or the network.
* Prompts (`context.py`, `skills.py`), token estimates, the content of images, verdicts and Lessons, message formats, media and
  rich text, adapters to model services, manifests and archive layout: data, which no property is about.
* Retention, `write_execution`, `write_verification_result` and `write_lesson` of `forge/evidence.py` have no caller in the program.
* In Experience the migration of old Lessons, the binding of unbound ones and the projections.
* Torn writes of single files (`jobs.json`, `sessions/*.jsonl` are rewritten in place) and failing disks: a write
  happens or does not.

## 7. What remains

1. Compositions: `Activation` with `AgentTask` (a Tool call that meets a replaced Runtime), `Evidence` with `AgentTask` (two finalizers), `RuntimeSwitch`
   with two switches at once.
2. Abstract specifications beside `TaskSlot`, `ToolLedger` and `RuntimeLifecycle`: a mailbox that `Mochat` and `Chats` implement, a due list for
   `CronService`.

# TLA+ verification of the harness engine

Formal models of the agent harness in `src/`: TLA+ modules translated from the Python source, TLC
configurations that model-check them on small instances, and TLAPS proofs of what matters most for every
instance. `PROJECT.json` lists components, runs, mutants (a plausible bug for every property), the source lines
behind every definition, findings, hazards and theorems.

The harness runs LLM agents that call tools. Its promise is control: a policy decides every call, a human approves
the risky ones, each session is an append-only log that can be stopped, resumed, forked and compacted, and
every run ends with a final row. The models follow that promise.

## 1. Inventory

| Component (source) | State | Operations | Hard behaviour | What makes it correct |
|---|---|---|---|---|
| Policy (`core/policy.py`, `core/primitives/policy.py`) | none | `decide`, `bump`, hook tightening in `invoke` | order of checks, taint, modes | never looser by taint, mode or hook; R4 denied, R3 asks |
| Approval broker (`core/approvals.py`; channels: terminal, Telegram, API) | `_pending` futures, `approvals` and `approval_rules` tables | `request`, `resolve`, `_remember`, `pending` | answers from several channels and from worker threads race timer and cancellation; locked database | first answer wins, stands, is from an authorised approver, "always" never at R3 |
| Tool invocation (`core/tools.py`) | `RunCtx`: mode, taint, session approvals, budget | `invoke`: validate, hook, decide, approve, run, taint | awaits between decision and effect; hooks rewriting arguments | nothing starts that policy or a human did not let through |
| Turn scheduler (`core/loop.py` `_execute_calls`) | result slots | groups of parallel reads, the rest in order | gather, exceptions | a mutating call runs alone; every call is answered |
| Agent loop (`core/loop.py`) | `RunState`, usage, limits | turn, stop hooks, loop guard, `_finish` | cancellation anywhere, shared budget | ends within its limits with an outcome |
| Plan mode (`core/modes.py`) | `ctx.mode` | `exit_plan_mode` | approval timeout, cancellation | only a human's yes leaves plan mode |
| Event log (`core/eventlog.py`, `core/transcript.py`) | `events` table, hash chain | `append_event`, `messages_with_seqs`, `drain_interrupts`, `fork_events` | a stop between any two appends, concurrent appends, forks at any event | rebuilt transcript always valid; interrupts once, in order |
| Compaction (`core/compaction.py`, `compact()`) | compaction events | prune, cut, summarise | repeated, after repair | calls stay with results, goal stays |
| Run manager (`core/runs.py`, `core/memory/store.py`) | tasks, buffers, `sessions` rows | `start`, `cancel`, `recover`, `_guarded` | several processes, cancellation at any await, crashes | one runner; final rows; success only as logged |
| Live buffer (`LiveBuffer` in `core/runs.py`) | ring, cursor, condition | `publish`, `tail` | slow and late readers | a stream that ends has delivered the final receipt |
| Subagents (`core/subagents.py`) | child rows, semaphore, shared budget | `run_subagent` | nesting, timeout, cancellation of the parent | no more rights than the parent, every child ends, budget overdrawn by a bounded amount |
| Plugins (`core/plugins/base.py`, `core/effects.py`, `core/engine.py`, `core/plugins/dynamic.py`) | records, services, effect stacks, registry | `load`, `unload`, `_reconcile`, rollback | failing commits and registrations, dependents | registry, services and effects agree with the records |
| Workflow (`core/orchestration/executor.py`) | checkpoints | `execute_plan` | crash between run and checkpoint | recorded phases are one history |
| Scheduler (`core/background/scheduler.py`) | `schedules` table, live jobs | add, pause, remove, fire, restore | two-step updates in threads | table and jobs agree |
| Memory (`plugins/memory_tool.py`, `memory/dreamer.py`) | `memory_entries` | add, replace, remove, consolidate | check-then-act, await between read and write | what a dream hides is in a live summary |
| Skills (`plugins/skills_tool.py`, `skills.py`, `memory/curator.py`, `primitives/learning.py`) | skill directories, `skill_metrics` | create, patch, delete, promote, prune | names and directories that differ, several writers | a human's skill stays |
| Secrets (`core/secrets.py`, `core/home.py`, `core/keystore.py`) | cache; `.env`, keyring | `get_secret`; `write_env`, `delete_secret` | threads and rotation; a command killed half way, an absent keyring | no stale answer; nothing lost or revived |
| Chat and channels (`cli/chat.py`, `gateway/channels.py`, `gateway/telegram.py`) | account and session; prompts, poller | turns, `/new`, resume; ask, answer | Ctrl+C, crash; one standard input for two readers | account is the log's; answers go to what was asked |
| API (`core/gateway/api.py`), webhooks | rate windows | `authenticate`, handlers | worker threads without a lock | limits hold up to a bound |
| Tools (`domains/generic`, `domains/devops`) | workspace, repository, cluster | write, edit, rewind; pull requests; pod restart | threads that outlive their call, other callers, the cluster's own pace | what was rewound stays away; the repository is restored; a restart is confirmed |
| LLM client, cost (`core/llm.py`, `core/cost.py`) | none | `complete` | retries, failover | bounded (part of the agent loop) |
| CLI, UI, settings, registry, telemetry, installation | files, text | - | - | I/O and presentation; only the commands that store secrets are modelled |

How they interact: `RunManager` starts the agent loop in a task per session. The loop appends to the event log and
hands the model's calls to `_execute_calls`, which calls `invoke`; `invoke` asks the policy, then the broker.
The API, Telegram and the terminal answer the broker; the API queues interrupts by appending to the log, cancels
tasks through `RunManager`, and forks logs. Subagents run a nested loop with the parent's budget. Several
processes may share the SQLite database.

The hazards, each at its line and with the properties that watch it, are in `PROJECT.json`.

## 2. Modules

| Module | Models | Composes |
|---|---|---|
| `RiskTier`, `Policy` | tiers and `decide()` as operators | |
| `ApprovalContract` | abstract specification of the broker | |
| `Approvals` | the broker step by step | refines `ApprovalContract` |
| `ApprovalsProofs` | inductive invariant, refinement proof | `Approvals` |
| `Invoke` | `invoke()` and `_execute_calls` for several runs | `Policy`, `ApprovalContract` (the broker as promised) |
| `InvokeProofs` | theorems about every decision; inductive invariant of calls and turns | `Policy`, `Invoke` |
| `Transcript` | projection, repair and cuts as operators | |
| `EventLog` | appends, interrupts, compaction, forks | `Transcript` |
| `Recursion` | lemmas: induction over numbers, recursive functions exist | |
| `EventLogProofs` | repair for every sequence of messages; inductive invariant of the logs | `EventLog`, `Recursion` |
| `Runs` | sessions, tasks, processes | |
| `RunsProofs` | inductive invariant of rows and tasks | `Runs` |
| `LiveBuffer` | the stream of a running session and its readers | |
| `AgentLoop` | limits, budget, model calls, stop hooks, loop guard | |
| `Subagents` | trees of runs: rights, permits, time limits, budget | |
| `Plugins` | plugin manager, effects, self-written tools | |
| `Workflow`, `Schedules` | checkpoints and commands; table and live jobs | |
| `Memory`, `Skills` | memory tool and dreams; skill tool, promotion, curator | |
| `Files`, `GitOps`, `PodRestart` | the tools that change files, repositories and pods | |
| `Channels`, `Chat` | how a human is asked; the account of `penko chat` | |
| `Secrets`, `Keystore` | the cache in front of the vault; where secrets are stored | |
| `Admission` | token, rate window and scope of a request | |
| `ToolsProofs` | inductive invariants | `GitOps`, `Secrets`, `Skills`, `Keystore`, `Files`, `Memory` |
| `GatewayProofs` | inductive invariants | `Channels`, `Chat`, `Admission` |
| `EngineProofs` | inductive invariants | `LiveBuffer`, `Workflow`, `Schedules`, `Subagents`, `Plugins` (with `Recursion`) |
| `MCApprovals`, `MCInvoke`, `MCEventLog`, `MCRuns` | instances for TLC | one module each |
| `MCHarness` | instance of the sixteen modules from `LiveBuffer` to `Admission` | all of them, side by side |

`Invoke` uses the broker's contract rather than `Approvals`: what it relies on is exactly what
`BrokerKeepsContract` proves (and what run `approvals` checks) of the detailed broker.

### Correspondence

* **Approvals.** One `request()` is a coroutine: `phase` says where it is suspended (`notifying` inside a
  channel, `waiting` in `wait_for`, `resuming` when the wait has ended and the rest runs in one step). `future`,
  `answer`, `wake` are the asyncio future and what ended the wait. `resolver[a]` holds a `resolve()` call of an API
  worker thread between its `done()` check and `set_result`; the other approvers answer on the event loop in one
  step (`ResolveOnLoop`). A failing INSERT is `StoreFails`, a failing UPDATE `RecordFails`. A timer that expires
  after the answer was set but before the task woke is `Interrupt` with an answered future: it wins from Python
  3.12 on and loses in 3.11 (`WakeAnswered`), so both are allowed.
* **Invoke.** `pc` follows a call: `queued`, `hooking` (pre_tool hooks), `asking`, `running`, `planning` (the
  handler of `exit_plan_mode` waits for its own approval), `posting` (post_tool hooks), and its end. Between two
  awaits the code is one action; `Hooked` therefore validates, tiers, decides and asks. `asked`, `decision` and
  `remembered` are the broker's. A key is a tool with its arguments, so rewriting arguments changes the key.
* **EventLog.** `log[s]` keeps the events that are messages or shape them; an event's place is its seq. `pc` is the
  place in a turn, `todo` the list `drain_interrupts` read, `open` the calls whose results are not appended yet, `fork`
  a copy under way. `Stop` ends a run anywhere (cancelled, crashed, finished); `Start` and `Say` take it up
  again as `penko run`/the API and the chat do.
* **Runs.** `at[p][s]` is the task of session `s` in process `p` (`created` before its first step, `running` in the
  loop, `finishing` in `_finish` before the outcome event, `finished` after it, `closing` while `publish(None)`
  waits); `cancel` is `Task.cancel()` called and heard at the next await; `row` the sessions table.
* **LiveBuffer.** `stream[v]` is a viewer's `tail()`: where it is suspended (yielding, at the lock, waiting), its
  cursor and what it still has to yield. `publish` and the code between two suspensions are one step.
* **AgentLoop.** `loopAt` is the place in a turn, `try` the attempt of the model call (model, attempt, forced
  compaction), `budget` tokens and priced cost, `guard` the call and count of the loop guard. The answer of a model is
  any sequence of calls of `Turnfuls`; an unpriced model adds no cost.
* **Subagents.** `place[x]` follows a run, workflow phase or child (`waiting` for the semaphore, `running`, `calling`
  the model, `delegating`); `boss`, `caps`, `runMode` are fixed when a child starts; `spent` is the one `Budget`.
* **Plugins.** `mgr` holds the records in order, state and version of each plugin, the registry, services, acquired
  resources and the disposers `_run_sync` left to a task. `Load` and `Unload` are the whole call with cascades,
  `_reconcile` and rollback; which `register()` raises is chosen per step.
* **Workflow.** `checkpoints` is the table; a command is killed wherever it is by the next `Command`. Results
  carry the number of the run that made them and of the one they were given.
* **Schedules.** `rows` and `live` are the table and APScheduler's jobs; a request holds the job it works on between
  its two steps; `RestartServer` may come between them.
* **Memory.** `entry` is the table, `call` a write a worker thread has decided on, `dream` the chunks a
  consolidation has read and the themes it has not committed, `locked` SQLite's write lock.
* **Skills.** `folder[d]` is a directory and the two lines of frontmatter the code acts upon (name, authorship), so a
  patched skill may bear another's name. Managers, promotions and the curator are suspended between their reads and
  writes.
* **Files.** A text is the set of actions whose strings are in it, so that an edit of a stale text is seen. `job` is
  the thread, which goes on after its call timed out; `logged` the pre-state of the action event, which is what
  `rewind` restores.
* **GitOps, PodRestart.** One step per git command or call of the cluster; git, `gh` and Kubernetes are modelled by what the
  code relies on.
* **Channels, Chat.** `prompt` is the task that asks on the terminal, `screen` the last prompt printed, `repl` the
  REPL's own `input()`; `poller` and `presses` are Telegram's offset and updates. `chat` is the process, `llmTokens`
  what the log of a session adds up to.
* **Secrets, Keystore, Admission.** `vault[i]` is the secret at tick `i` of the clock; `cmd` is a command between two
  writes of `.env` or keyring and `meant` what a name may hold after what was asked for; `worker[w]` is a thread inside
  `authenticate`, one step per operation on the shared deque.

## 3. Runs

Constants are model values in the `.cfg`, functions over them in the `MC` module. `CHECK_DEADLOCK FALSE` stands in
every configuration because the modelled work is finite and bounded: requests are answered, turns end, logs
reach their bound.

| Run | Shows | Instance and why it is enough |
|---|---|---|
| `approvals` | `VerdictIsAccepted`, `RememberedIsEarned`, `RecordedOnce`, `WaitingEnds`, `KeepsContract` | three requests (two share a fixed id, one is R3), one approver on a thread, one on the loop, one off the list, one channel: every pair of racing answers, id reuse and R3 occurs; the proofs cover all sizes |
| `invoke` | `HumanInTheLoop`, `PlanHolds`, `MutatingAlone`, `EveryCallAnswered` | two runs sharing the broker, three turn scripts: fetch then edit (taint), plan then edit, restart under an allow rule before and after taint; hooks that ask, deny, rewrite; default, plan and strict modes |
| `eventlog` | `TranscriptValid`, `DeliveredOnceInOrder`, `DeliveredBeforeTheModel` | a root and a fork, 6 events each, 8 together, 2 calls an answer: enough for two interrupts across a stop, a fork inside a turn, and a resumed half-answered turn |
| `compaction` | `GoalStays`, `CutsKeepCallsWhole` | one session, 9 events, one call an answer: two compactions after a repair fit |
| `runs` | `OneRunner`, `SuccessIsLogged`, `RunningIsRun`, `FinalStands`, `StreamsEnd`, `StartedIsFinalised` | a server (recovers at start) and a `penko run`, two sessions; crash and restart unbounded |
| `harness` | one or two properties of each of sixteen components, below | a behaviour is one of one component: `part` says which, the others stay as they were initially. They share no variable, so the run is sixteen runs in one |
| `approval_leak`, `said_once`, `fork_keeps_calls_whole`, `summary_stands`, `always_finalised`, `restart_is_confirmed` | the findings of section 6 | as the passing run of the same module; `restart_is_confirmed`: one StatefulSet pod, two callers, three pods |

What `harness` checks, part by part, and its instance:

| Part | Property | Instance |
|---|---|---|
| plugins | `NothingLeftBehind`, `Reconciled` | a chain of three, a failing version, one that would close a cycle, two providers of a service, a self-written tool that collides with a plugin's; three versions whose `register()` may raise |
| subagents | `NoMoreRights`, `BudgetBounded`, `SubagentsEnd` | a run in plan mode and a workflow phase, three children, one permit: nesting to the depth limit and the deadlock of permits occur |
| workflow | `BuiltOnRecorded` | three phases, three commands, five phase runs |
| loop | `RunEnds` | two models (one priced), two attempts each, four turns, token and cost limits, one stop-hook continuation, guard at three repeats |
| live | `FinalDelivered` | ring of two, four events, two viewers: overrun, late and repeated connection |
| schedules | `RowIsLive` | a cron job and a heartbeat, two threads, one firing |
| memory | `NothingForgotten` | four saved entries, six in all, two dreams in chunks of two, one caller |
| keystore | `StoredSecretsStay` | two secrets, two values, a keyring that comes and goes |
| files | `RewoundStaysAway` | two runs, two actions on one file |
| skills | `HumanSkillsStay` | a human's and an agent's name, one manager, promotion and curator (all sizes: proof) |
| chat, gitops, channels, secrets, admission | `AccountKept`, `RepositoryRestored`, `AnswersTheShown`, `SecretIsRecent`, `WindowBounded` | two sessions; three calls on two branches; two requests and a press from before; two readers; two threads on a window of one (all sizes: proofs) |
| pods | none that holds | so that every action of `PodRestart` is seen to happen |

Bounds: `MaxSeq`, `MaxEvents`, `MaxCalls` and `Compacting` (whether contexts grow enough to be compacted; split into
two runs to keep each small) bound `EventLog`; `Channels`, the number of channels, is a parameter. In the
parts of `harness` the constants marked `bound:` in each module (`MaxKids`, `MaxTokens`, `MaxRuns`, `MaxCommands`, `MaxEvents`
of the live buffer, `MaxFired`, `MaxEntries`, `Named`, `MaxActions`, `MaxUses`, `MaxChatTokens`, `MaxPresses`, `MaxUid`,
`MaxClock`, `MaxTime`, `Flaky`, `Touched`, `Turnfuls`, `FlagModes`) stop growth. A bound removes no action below it.

State types: the type invariants of `Approvals` and `Runs` are properties of their runs (and theorems); those of
every other module with a proof are conjuncts of the inductive invariants of section 4 (so of all modules but
`AgentLoop` and `PodRestart`).

### Fairness

* `Approvals`: a task that is ready runs, and the timer of `wait_for` fires (asyncio). Nothing is assumed of channels,
  approvers or cancellation. So `WaitingEnds` starts at the wait: a channel that hangs keeps `request()` for ever.
* `Invoke`: tasks that are ready run, hooks and handlers have time limits in the code, and an open approval ends
  (which is `WaitingEnds`, granted that channels return).
* `Runs`: a task that can step does; turn, time and tool limits end every loop. Processes need not restart, no one
  needs to start or cancel anything.
* `Subagents`: a child that can have the semaphore's permit gets it, and the timer of `wait_for` around a child fires
  (`subagent_timeout`). Nothing is assumed of models or tools, so `SubagentsEnd` rests on the time limit alone.
* `AgentLoop`: a run that has begun goes on; every model call ends by itself or by `llm_timeout`, every tool by its own limit.
  Which way it goes is never assumed.
* `EventLog` and the other parts of `harness`: no fairness; they have safety properties only.

## 4. Proofs

All theorems are checked by TLAPS for every value of the constants.

* **Policy** (`InvokeProofs`). `decide()` is split once, in lemma `Cases`, into what it says by verdict; each
  theorem follows by comparing cases: `DestructiveDenied`, `HighImpactAsks`, `ReadOnlyModesHold`, `TaintTightens`,
  `ModesTighten`, `HooksTighten`.
* **Approvals** (`ApprovalsProofs`), from `ApprovalsAssumption` (types of the constants; `Nobody` and `NoRequest`
  are not members). `TypeCorrect` needs that a notifying request has not sent to all channels (`TypeInv`).
  The safety properties rest on the inductive invariant `Inv`: an answered future's answer is the only accepted
  one for its request (`FuturesInv`); a thread's call in flight carries a scope R3 allows and an authorised
  approver (`CallsInv`); a wake by answer has an answered future (`WakeInv`); a request under way owns
  its row, which is pending, and alone (`LiveInv`); a returned verdict is accepted and recorded (`VerdictInv`);
  `RememberedIsEarned` is inductive with them. `VerdictIsAccepted` alone is not inductive: it does not say that
  the answer about to be recorded was accepted, nor that no other request under way owns the same row. From `Inv`:
  `FirstAnswerWins`, `RememberedCorrect`, `RecordedOnceCorrect`, and the refinement `BrokerKeepsContract`, where
  each step ends, opens or stutters one request of the contract.

* **Runs** (`RunsProofs`), from no assumption but that `Servers` are processes, which it does not use. The inductive
  invariant says that a session has one task in its life and none while it is pending (`TaskInv`: a session never
  becomes pending again, so the claim happens once); that a task past its outcome event has logged what it will
  save (`OutInv`); and that a row which is final, and not by a recovery, has no task left that could write it or
  the log (`RowInv`). `TaskStepShape` sums up every step of a task once, so that each conjunct is proved from
  that summary. None of `OneRunner`, `SuccessIsLogged`, `FinalStands` is inductive alone: a finished task
  about to save could follow another task of the same session. They are `OneRunnerCorrect`,
  `SuccessCorrect`, `FinalStandsCorrect`. `RunningIsRunCorrect` and `StreamsEndCorrect` add that a task which is closing
  its buffer has written a final row (`ClosingInv`), so a task that is done and was not cancelled leaves no running row.

* **Invocation and turns** (`InvokeProofs`), from `InvokeAssumption` (types of the constants) and `ToolAssumption` (a hook
  replaces arguments, never the tool; `exit_plan_mode` is not parallel-safe). `MutatingAlone` is not inductive: a
  group could start beside calls behind it. `ScheduleInv` adds that calls are started from the front of the turn
  (`StartedInOrder`); then a group starts when nothing of its run is under way, and `GroupShape` says that a call
  which may mutate is a group of its own: `MutatingAloneCorrect`. `HumanInTheLoop` and `PlanHolds` are about one step, the start of
  a handler, which may come long after the decision. `InvokeInv` says what a suspended call may rely on: the question it asked has its
  key, at no lower a tier than it has now, and read-only modes still allow it (`AskStands`); a plan asked about is of a
  run in plan mode (`PlanAsked`); approvals are by approvers, R3 once only (`ByApprovers`); what a run or the rule table
  remembers was granted (`KnownFromApproval`). Taint and mode change only by a call that runs alone or among read-only ones, which
  is where `MutatingAlone` is needed. `HumanInTheLoopCorrect`, `PlanHoldsCorrect`.

* **Event log** (`EventLogProofs`), from `EventLogAssumption`. `RepairedIsValid` holds for every sequence of messages: repair
  is a recursive function, so that `Recursion` (least numbers, induction with a set for the predicate, existence of a
  recursively given function) takes the place of the induction rules with operator parameters. After each
  message, every earlier head is followed by results of its calls, and by all of them with the pending ones (`Repairs`).
  `TranscriptCorrect` follows without an invariant of the log, which is the point of repairing. `DeliveredCorrect` and
  `BeforeTheModelCorrect` rest on `EventLogInv`: a copy under way is a prefix of its source (`CopiesArePrefixes`); the queued event a message
  names is there, and earlier if it is of the same log (`NamesStand`); names of one session rise (`Ordered`); what is still
  owed was queued after all that was delivered (`OldestFirst`); the list of a drain is exactly what is owed of the
  events it read (`Drains`). `DeliveredOnceInOrder` alone says nothing of the list a drain holds while other
  interrupts arrive, nor of a log that is half copied.
  `GoalStays` and `CutsKeepCallsWhole` need to know what every log looks like. `Shape` follows the calls a log owes results for
  (`Tracks`) and says of each compaction event (`Fits`) that it cut at a message that is no result, kept or pinned the first
  user message and, with a summary, was made where nothing was owed and nothing but results had come while something was.
  `ShapeInv` says it of all logs and ties what is owed to `open`; prefixes keep it, hence forks. The heart is
  `RepairFollows`: run beside what is owed, repair leaves the messages as they are, or makes them more, exactly when
  something else came while results were owed. A cut needs a message with a seq, hence a transcript of unchanged length, hence a
  log that owes nothing: `SummaryFits`. `GoalCorrect`, `CutsCorrect`.

* **Skills** (`ToolsProofs`), from `SkillsAssumption` (names are numbers, one may be a human's). `HumanSkillsStay` is
  not inductive: a thread that has read an agent's authorship writes later. `SkillsInv` adds that whoever is about
  to write, delete, promote or prune has a directory that is not a human's (`ManagersAway`, `PromotionsAway`,
  `CuratorAway`). `SkillsTypeCorrect`, `HumanSkillsCorrect`.
* **Keystore** (also `ToolsProofs`), from `KeystoreAssumption` (the token is a secret, no value is none). `KeystoreInv` says what a
  process would read now, and, of a write under way, what it will have left (`WriteStands`): each name the write has in hand
  reads as it should once the write is done, and a name whose entry is still to be deleted is no longer listed.
  `KeystoreCorrect`.
* **Files** (also `ToolsProofs`), from no assumption it uses. `FilesInv`: an action's checkpoint is older than what it
  writes (`CheckpointsOlder`), only what was logged is rewound (`RewoundHasStarted`), and no thread that may still write
  has seen what is gone (`ThreadsClean`). `FilesCorrect`.
* **Memory** (also `ToolsProofs`), from `MemoryAssumption` (a chunk has an entry; the saved entries fit). `MemoryInv`: a dream with
  themes holds the lock (`DreamsHold`), what it has read covers what its entries say unless they were replaced since
  (`ReadingsCover`), and a theme is never hidden (`ThemesLive`: the dreamer reads no summaries). `MemoryCorrect`.
* **Pull requests and secrets** (also `ToolsProofs`), from `GitOpsAssumption` (no branch has the empty name, calls are neither
  the user nor nothing) and `SecretsAssumption` (the time to live is positive). `PrInv`: a branch a call made belongs
  to a call that still goes on, a worktree holds its branch, and a user's branch a call goes on with was made in the
  middle of one; `RepositoryCorrect` follows. `SecretsInv`: the cache entry and every value a thread has read were
  the vault's at some time since their stamp; `SecretsCorrect`.
* **Channels and chat** (`GatewayProofs`), from `ChannelsAssumption` and `ChatAssumption` (types). `ChannelsInv`: at
  most one task reads the terminal, its prompt is on the screen as long as its request is pending, and a poller that
  skipped the old presses has none of them left to read; `ChannelsCorrect`. `ChatInv`: the session at work has a row and one
  without a row has spent nothing, so a new session starts from an empty log; `ChatCorrect`.
* **Admission** (also `GatewayProofs`), from `AdmissionAssumption` (finitely many threads, limits are natural numbers).
  `PassedBounded` counts a thread past the check of the limit as if it were in the window already: every thread
  passes alone or on a window shorter than the limit. `AdmissionCorrect`: the window is shorter than limit plus threads.
* **Live buffer, workflow, schedules** (`EngineProofs`), from `LiveBufferAssumption` and `WorkflowAssumption` (the ring has a
  place, there is a phase). `LiveInv`: no reader's cursor is ahead of the events, a reader that is yielding has
  something left, and only a closed buffer lets a stream end; `LiveCorrect`. `WorkflowInv`: the results
  `execute_plan` holds are those of recorded phases in order, a phase that has begun is in progress in the table, and the answer
  it waits to record was given the last of these results; `BuiltOnRecorded` alone does not say what the next
  checkpoint will hold. `WorkflowCorrect`. `SchedulesInv`: a job being added has no other request, and a difference
  between row and live job is the work of a request under way; `SchedulesCorrect`.

* **Subagents** (also `EngineProofs`), from `SubagentsAssumption` (numbers are numbers, phases, runs and children are apart,
  there are finitely many runs). `TreeInv`: a boss was there before its child and is no grandchild (`BossesFirst`), a live child has a live boss
  that waits for it alone unless it is a workflow phase (`OneChild`), rights only shrink on the way down
  (`RightsPassedDown`); `RightsCorrect`. `SpendingInv` adds that every permit is there or held by a live child
  (`PermitsCounted`); then those who can be in a turn at once are as many as `BudgetBounded` allows for, each of them
  having begun within the budget: `BudgetCorrect`.
* **Plugins** (also `EngineProofs`), from `PluginsAssumption` (types; finitely many versions and user's tool files).
  `NothingLeftBehind` is about the manager's state between calls, but a call is a cascade of unloads and passes that goes
  through many. `Sound` is what each of them keeps: records name versions of their plugin (`Recording`), an active
  plugin's resources and tools are all there (`Whole`), and whatever else is registered waits for its cleanup (`NothingElse`), which only
  versions with a failing hook do, so that a late cleanup never takes from an active one. Each step of a commit, rollback,
  unload and load is a lemma on `Sound`; cascades and passes are recursive functions, all of whose values are sound
  (`SoundSteps`, from `Recursion`). `PluginsCorrect`.
  `Tidy` adds what holds between calls: every record is in the list the passes go over (`Listed`), and unless a load has
  rolled back since, what is active and what waits is right (`Settles`). `_reconcile` brings about the second from the
  first alone (`ReconcileTidy`): a deactivation is closed over the dependents (`ReachedClosed`, by counting names), so it starves
  no plugin that stays active and the first pass leaves every active one fed; from then on a step that changes
  anything takes a record from those that wait (`ReconcileOneTakes`), no more than the list is long, so that one of the `size + 1`
  passes that are left takes none and its state is one no step changes (`PassesSettle`). `ReconciledCorrect`.

Every safety property of a passing run is stated by a theorem. Only model-checked: liveness (`WaitingEnds`,
`EveryCallAnswered`, `StartedIsFinalised`, `SubagentsEnd`, `RunEnds`), because fairness and ENABLED are beyond the prover. The runs of the findings have no proofs.

## 5. Not modelled, and why

Inside the modelled components: the hash chain and search index (no property tells them apart), the text of
messages and renderings (an approval shows the first 3500 characters of a tool's source, `dynamic.py:187`), output
limits and sanitising, the exact sizes that choose a cut (every legal cut is tried), streaming deltas, receipts.

Behaviour the code has and no property covers:

* Summaries of compactions (`loop.py:122`) and the advisor's calls are not charged to the budget; a child's usage is not in
  its parent's `usage_summary`. `BudgetBounded` and `AccountKept` speak of what is charged.
* Taint lives in `RunCtx`: resumed, forked and child runs start clean (`tools.py:147`).
* A child's row stays running when the child is cancelled or raises (`subagents.py:61`); a session created by a job
  and not started before a crash stays pending (`scheduler.py:33`).
* Unloading one of two providers of a service removes the other's entry (`base.py:143`), and a rolled back load does not
  reconcile the dependents that went down with the old plugin (`base.py:222`). A failed commit inside `_reconcile` keeps its resources.
* Two `set_paused` of one job that overlap may leave table and scheduler different (excepted in `RowIsLive`).
* The metrics of a skill survive its deletion; a promoted skill may shadow a shipped one's name.
* A command killed in the middle of a pull request leaves worktree and branch; a pushed branch stays when the pull request fails.
* An `IndexError` when two threads empty a rate window together (`api.py:82`): modelled as a 500, not forbidden.

Components: agent registry, settings, prompts and telemetry (read at start, text), shell and web tools, confinement and text
scanning (I/O and data), the MCP transport and the subprocess of dynamic tools (I/O), webhooks, UI, installation. Two
server processes over one database occur only in `Runs`.

## 6. Findings

1. **A cancelled request stays listed** (`approval_leak`, `core/approvals.py:121`). Channels are awaited before the
   `try` that pops the entry.
2. **A fork repeats interrupts** (`said_once`, `core/eventlog.py:207`). Copied events get new ids, their payloads keep
   the old ones.
3. **A fork can end inside a call** (`fork_keeps_calls_whole`, `core/eventlog.py:204`). Only trailing assistant messages
   are dropped; repair keeps the transcript valid, but without seqs, so it cannot be compacted.
4. **Pruning undoes a summary** (`summary_stands`, `core/loop.py:244`). A prune-only compaction event replaces the last
   summarising one.
5. **A run cancelled at birth stays running** (`always_finalised`, `core/runs.py:148`). A task cancelled before its
   first step does not enter `_guarded`'s `try`.
6. **A restart is confirmed on the old pod** (`restart_is_confirmed`, `domains/devops/snapshots.py:33`). The deleted pod is
   Running during its grace period and its uid is not compared with the one seen.

## 7. Plan

Done: policy, broker and its contract, invocation and scheduling, event log with compaction and forks, run manager,
and the sixteen components of `harness`; proofs of every safety property the passing runs check.

Next:

1. Taint across sessions, forks and subagents, composed of `Invoke` and `EventLog`.
2. `AgentLoop` composed with `Runs` for the outcome, and children's rows in `Subagents`.

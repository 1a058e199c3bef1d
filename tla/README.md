# A verification of smartmur-ai-core

TLA+ modules for the parts of this repository that are hard to test: schedulers,
gates, transfers and files that several threads or processes change at the same
time. TLC checks small instances; TLAPS proves every safety property they check,
and both refinements, for every value of the constants. Paths below are relative to the
repository, which `PROJECT.json` calls `src/`.

- [The system](#the-system): components, state, what is hard
- [Modules](#modules): which module stands for what, and how
- [Runs](#runs): bounds, results, fairness
- [Proofs](#proofs): invariants and arguments
- [Where the code and its documents differ](#where-the-code-and-its-documents-differ)
- [Not modelled, and the plan](#not-modelled-and-the-plan)

## The system

A command line tool (`claw`), an MCP server, a web dashboard and a Telegram
gateway work on one data directory and one host. There is no database server and
hardly a lock: each entry point builds the objects it needs, they read files, and
they rewrite them. Background programs (the cron daemon, the file watcher, the
container watchdog) and skills that cron starts (infra fixer, tunnel monitor,
sentinel, QA guardian, deployment) act on the same files and containers.

| Component | State | Operations | What is hard |
|---|---|---|---|
| DAG executor `superpowers/dag_executor.py` | status of nodes, pending, in flight, held resources | add_node, execute, workers of a pool | main thread reads what workers write; resources released at reaping; execute() again |
| Concurrency gate `msg_gateway/telegram/concurrency.py` | two levels of semaphores, counters | try_acquire, release | check, creation and wait are three steps; two semaphores held in turn |
| Telegram poller `msg_gateway/telegram/` | offset, history, slots | poll, route, worker threads | updates taken once; history shared without locks; poll thread blocks in the gate |
| Cron engine `superpowers/cron_engine.py` | `_jobs`, `jobs.json`, `scheduler.db`, pid file | add, remove, enable, disable, run, start, stop | an engine per process on the same files; crashes; stale memory |
| Workflow engine `superpowers/workflow/` | results so far, failed flag | run | what runs after a failure; rollback; exceptions half-way |
| Orchestrator `superpowers/orchestrator.py` | reports, working directory | run | changes the directory of a whole process |
| Job runner `superpowers/job_runner.py` | branches, working tree, pull request | run, create_pr, auto_merge | failure in the middle of a protocol with git; a developer in the same tree |
| Rsync engine `superpowers/rsync_engine.py` | record, row, queue, process | start, cancel, stream, clean-up | cancel races with the reader; a second start of one id |
| Template, pack manager `superpowers/template_manager.py`, `pack_manager.py` | files, manifest, registry, backups | init, reset, upgrade; install, update, uninstall | files and registry change in several steps; shared ownership |
| Vault, rotation `superpowers/vault.py`, `credential_rotation.py` | identity, encrypted file; dates | init, set, delete; mark, check | read-modify-write by several processes; written in place |
| Memory store `superpowers/memory/store.py` | rows | remember, recall, forget, decay | check and use are two statements |
| Conversations `dashboard/routers/chat.py` | history of a chat | send, stream, delete | read, append, write back in several threads |
| Skill hub, release `superpowers/skillhub.py`, `release.py` | clones; tags, changelogs | push, pull; prepare, tag, rollback | refused pushes; commits between changelog and tag |
| Container watchdog, infra fixer, tunnel monitor | cooldowns, listings | events, sweep; check, fix | containers move between looking and acting, and each acts on what another did |
| File watcher `superpowers/watcher/` | rules, events, daemon | move, copy, command | events of files that are still written; rules that feed each other |
| SSH fabric `superpowers/ssh_fabric/` | pool of clients | run, health | clients shared by threads without a lock |
| Agents `superpowers/agent_registry.py`, `agent_router.py` | cache of agent files | list, recommend, step, job | a cache shared while files are edited |
| Intake and skills `superpowers/intake.py` and others | directory of skills, session | run_intake | pools, time-outs, skills installed by a neighbour |
| LLM providers, policies | chain, list of policies | add, remove, get; load, check | services come and go; a load that raises half-way |
| Sentinel, QA guardian, network scan, benchmark, deployment | caches, findings, host | one run after another | the world moves during a run; one step of several fails |
| Rate limiter `msg_gateway/middleware.py` | buckets | dispatch | idle buckets are forgotten and made anew |
| Everything else | none to speak of | HTTP calls, formatting, queries | see the notes in `PROJECT.json` |

How they meet. The poller asks the gate before it starts a conversation and hands
the slot back when the worker ends. The orchestrator runs workflows inside the
directory it changed to. The watchdog, the fixer and the monitor see each other
only in the containers. Agents serve the command line, a workflow step and an
auto-agent job. The dashboard caches its engines (`dashboard/deps.py`) and calls
them from threads; the MCP server builds an engine for each call. Everything
else meets in files, and files are what the modules model.

What makes the parts correct is stated by the properties of the runs below:
what callers were told survives; limits are kept and units not lost; nothing is
overwritten that its owner changed; what ends is accounted for; and what must
happen in the end does.

## Modules

`X.tla` is a component, `X_proofs.tla` its theorems, `MCX.tla` an instance. The
theorems about the components of `MCStores` are in `Stores_proofs`, a section for
each component, those about `MCServices` in `Services_proofs`, those about `MCFleet`
in `Fleet_proofs`, and the gate's are with the poller's in `Telegram_proofs`.

### One module, one component

**DAGExecutor, DAGSchedule.** The main thread of `execute()` at the grain of one
node per step: `ScanSkipped`, `ScanDepFailed`, `ScanWait`, `Submit` are the four
ways the loop over `list(pending)` treats a node; `EndScan` and `Poll` follow the
loop, `Block` and `BlockTimeout` are the wait, `Reap` is one completed node.
Workers take the lock to set a status (`WorkerStart`, `WorkerFinish`), the pool
resolves the future in a step of its own (`WorkerResolve`). `DAGSchedule` is the
promise without loops and threads; `ImplementsSchedule` is the refinement.

**DAGValidate.** Kahn's algorithm, which the file has twice, step by step, with
repeated entries in `depends_on`.

**ConcurrencyGate, GateSlots.** One step per lock section and semaphore operation,
for any number of callers. `Touch` is the first access to a chat, which creates its
semaphore and resets its count of waiting jobs. `GateSlots` is what callers are
promised, without locks and counters: a job starts only within both limits, and
only a chat in which `queue_overflow` jobs really wait refuses one.
`ImplementsSlots` is the refinement; `JobState` maps the points of the code to
waiting, running and out. A chat with that many jobs waiting may admit more
(`QueueBounded` below), so `GateSlots` allows it.

**TelegramPoller** with **SessionHistory** and **ConcurrencyGate**. The poll loop
(`Fetch`, `Take`), the routing of each kind of update, the media and conversation
threads around the gate's own actions, the history in memory, a thread that
cannot be started, an exception that no handler catches (of the language model's
client, of `send_message`, of the poll loop's own commands), and the death of the
process. The composition matters: the poll thread is itself a caller of the gate and
stands still when the chat is busy.

**CronEngine.** Several engines on three shared files; an operation changes
memory and the scheduler and then saves in two steps (`BeginSave`, `Replace`),
with a `Crash` anywhere, a manifest that cannot be read and is taken for an empty one,
and a write that is cut short. `told` is what a finished operation told its caller;
`blind` are the engines' jobs unseen in a file they could not read, and `wiped` those
which a save then removed. APScheduler is external.

**WorkflowEngine, Orchestrator.** One call of `run()` with what it reads of each
step; `commands` is what was executed. The orchestrator's model keeps of the
engine only that its steps run one after the other, and has the directory of the
process, reports and several runs.

**DockerFleet, ContainerWatchdog, InfraFixer, CloudflaredMonitor.** One set of
containers with restart policies, failing and edited by their owner; the
watchdog's four kinds of thread over one table of cooldowns; the fixer's and the
monitor's cycles of listing, inspecting and acting. `MCFleet` puts the fixer and
the monitor on one host, and the watchdog on another.

**Watcher, RsyncEngine.** The observer's queue and one handler thread over files
that people and the rules themselves change, with an action that fails, which the
daemon logs (`logged`) and does not try again; the record, row, queue, thread and
process of a transfer started twice, cancelled and followed, with a thread that dies
before its `try` (`dead`) and one whose last write to the database fails (`escaped`).

**Vault, CredentialRotation, PackManager, TemplateManager, MemoryStore,
DashboardChat, SkillHub, Release.** What is kept. Each has callers that read,
change and write in separate steps, and may be killed between two of them where
the code can be: a file written in place may stay cut short, a replaced one may
not. `init` of the vault is open to any process at any time, so two of them may be
between its check and its writes. The item a pack is to copy may be gone when its
turn comes. The owner may write a template's file between any two steps of a call:
between the hash, the look, the backup and the copy. A push of the hub is `add`,
`diff`, `commit` and `push`, whose exit statuses the code reads or does not, over an
index that outlives the call, and a clone need not have a remote. `told`, `noted`,
`given_up`, `cleared`, `raced`, `missed`, `lost`, `overlapped` and the like are history
variables: what a caller was told, what the owner asked to lose, and by which way of
the code something else was lost.

**AgentRouter, SSHFabric.** The cache of agents under edits and its four callers;
the pool of clients under threads, failures and closing.

**JobRunner, RateLimiter, LLMProviders, PolicyEngine, SecuritySentinel,
SkillIntake, Benchmark, QAGuardian, NetworkScan, Deployment.** What acts on a
request. Data that is text in the code (patterns, prompts, commands, versions)
is a set or a number that the module's constants give; what matches what is a
constant, and the control around it is the code's. A request of the sentinel may
fail, be answered and not written to the cache, or come back broken; an entry of a
deployment's audit log may not be written, and nobody notices.

### Composites

`MCStores` and `MCServices` extend eleven and twelve components. They do not meet
in the code, so a behaviour is about one of them: the variable `part` is chosen in
the initial state and never changes, and `Next` is the disjunction of the parts'
next-state relations, each leaving the others' variables alone. Every property of
a part is thus checked on all the behaviours of that part, and the size of a
composite is the sum and not the product of its parts. `MCFleet` is different: the
programs on one host meet in its containers, and `Installed` says which sets of
programs a host may have.

## Runs

| Run | Shows | Bounds |
|---|---|---|
| dag_first | `ExecutorSafe` (exclusion, order, who is skipped, the result, no idle wait), `ImplementsSchedule`, `Terminates` | 3 nodes in every graph, 1 resource, 2 workers, 1 call |
| gate | `GateSafe` (units, limits, counters, nobody stuck), `ImplementsSlots`, `Served` | 3 callers, 2 chats, 2 slots each, 2 in all, queues of 2, 2 calls each |
| cron_one | `Durable` (but for what an unreadable file or a cut write lost), `FiresOnlyEnabled` | 3 engines one after the other, 2 jobs |
| telegram | `PollerSafe` (delivery, slots, answers but for escaped exceptions, texts that wait, waits for the living), `AllHandled` | 2 updates of any kind in 2 chats, one slot in all, one death, one thread that cannot be started |
| host | `HostSafe` (the programs' invariants, copies ahead, rows settled), `DownIsTold`, `Restored`, `CopiesCatchUp` (but for a copy that failed), `TransfersEnd` (but for a thread that died at its start) | 2 containers, 2 faults, 2 files in 3 folders, one failed action, 2 starts of a transfer, one broken thread |
| stores | 12 properties, below | 2 or 3 processes, 2 or 3 keys, one kill |
| services | 13 properties, below | 2 or 3 actors and items, one edit or outage |
| cron_lost | *violated* `Durable` | 2 engines at once |
| wf_continue | *violated* `ContinueProceeds` | 2 steps |
| tunnel | *violated* `Recovers` | 1 tunnel, 2 faults |
| watch_renamed | *violated* `RenamedAreCopied` | 2 files, 3 changes |
| orch | *violated* `OwnDirectory` | 2 runs in one process |

A property that is a conjunction of named parts (`ExecutorSafe`, `GateSafe`,
`WorkflowSafe`, `PollerSafe`, `PacksSound`, `MemorySafe`, `ValidationSound`,
`ChatSafe`, `VaultSafe`, `HubSafe`, `JobsSafe`, `HostSafe`) is what one
component has to keep; the module names the parts and comments each of them.

**stores**

| Property | Says |
|---|---|
| `StoresTypesOK` | types, and the inductive invariants behind the proofs |
| `VaultSafe` | the vault can be decrypted with the identity that is there, unless two inits made one each or the file was written short; a write changes its own credential only, unless it had become stale |
| `NoAlertMeansRotated` | a credential left out of the alert was rotated lately, whatever the file forgot |
| `PacksSound` | registry and disk agree, whichever pack handled an item last, but for items whose source was gone when they were to be copied |
| `EditsKept` | an owner's edit is in the file, its `.bak` or a dated backup, or it was lost in one of the ways `Causes` names: overwritten by the owner or a reset, a file the manifest does not know, written between look and copy, a backup of the same second |
| `ChatSafe` | titles, and no conversation comes back after its deletion; history only grows and answers follow their questions where no two requests met on the conversation |
| `MemorySafe` | one row per key; what was recalled is the row asked for; decay spares what is used |
| `HubSafe` | pushes neither undo each other nor, where there is a remote and git's commands did their work, claim what it refused |
| `Announced` | each commit below a tag is in a changelog, unless made between changelog and tag |
| `RankingSound` | a score belongs to the manifest shown with it; the best first, nobody better left out |
| `AnswersTrue` | a host is reported ok only when its own command ended with 0 |
| `ValidationSound` | exactly finishable graphs are accepted, and ordered |

**services**

| Property | Says |
|---|---|
| `ServicesTypesOK` | types, and the inductive invariants behind the proofs |
| `WorkflowSafe` | which steps run after a failure; rollback whole or absent; every step accounted for; a dry run executes nothing |
| `JobsSafe` | branch, edits and main of the developer are as before a job; merged means merged |
| `BudgetKept` | forgetting and making buckets gives nobody requests |
| `GetServes` | `get()` passes over no registered provider that served all along |
| `NeverWeaker` | loading, even half-way, weakens no decision; only removal may |
| `KnownIsReported` | a cached answer hides a vulnerability for the age of the cache at most, but for a request that failed or an answer the cache could not take |
| `SessionTrue` | a saved session tells what really ran |
| `OwnDirectory` | steps run in the repository asked for, when each run has its process |
| `PeakIsTrue` | reported within the memory limit means within it (one after the other) |
| `ReportTrue` | a report names what its files had all through this run and nothing of another |
| `ZeroMeansUp` | status 0 only when every critical target was up at some time of the scan |
| `SuccessRuns` | status 0 of a deployment means its commit is installed and running, and that no failure was logged |

### Bounds

Every bound is a constant of its module: `Max*` counts calls, faults, edits,
deaths, events, starts, failed actions on files (`MaxFailures`) or broken threads
(`MaxBroken`); `*Horizon` and `*Days` end the clock. They are chosen so
that the case the property is about happens: three nodes have a node with two
dependencies, a chain, and a resource conflict besides; three callers fill a
chat's queue of two and leave one to refuse, or its two slots and leave one to
wait, and with a second chat one waits for a global slot while it holds its chat's;
three engines allow a crash, a restart and a crash of the restarted one;
two writers and a kill suffice for a stale read, a lost write and a cut file; a
rate horizon of 6 is twice `IdleLimit`, so that a bucket is forgotten, made anew
and idle again; three commits of a release leave one between changelog and tag; two
commits of the hub let one host push between the pull and the push of another. One
template suffices, as a call treats templates one after the other; a host makes one
call of the hub at a time.
Two faults let the system recover from one and be hit by the next.
`CHECK_DEADLOCK FALSE` stands where the program may stop: callers with no calls
left, programs that have ended, bounds reached.

Some initial states are left out where they differ in nothing that a property sees.
Of workflows, `services` starts those that tell somebody unless the run is dry, and
those with a full rollback section only where a step asks for a rollback; `telegram`
names the chat of the first update (`PollerRunSpec`), as the chats are
interchangeable. The theorems are about all initial states.

Three constants select a use of the code, and the property is claimed for that
use only: `Parallels = {FALSE}` (with `--parallel` the scenarios share one tracer
and `PeakIsTrue` does not hold), `SeveralRunners = FALSE` (two job runners in one
working tree) and `DeployOverlap = FALSE` (two deployments at once; with TRUE
neither `SuccessRuns` nor `NeverOlder` holds). `MaxAlive = 1` of `cron_one` is the
fourth, and `cron_lost` shows why it is there.

### Fairness

- `DAGExecutor`: weak fairness of the main thread and of each worker. Runnable
  threads are scheduled and actions end; nothing is assumed of callers.
- `ConcurrencyGate`: weak fairness of each job. `threading.Semaphore` promises no
  more, and `Served` holds because an instance has finitely many calls. With
  endless traffic a waiter may be overtaken for ever.
- `TelegramPoller`: weak fairness of the threads and of the poll loop, which
  `while True` and `long polling` justify; only updates sent are to be fetched.
- `ContainerWatchdog`: the sweep and the expiry of a cooldown come (a timer and a
  clock), and the thread of the sweep goes on; *strong* fairness of its `Send`:
  Telegram refuses now and again, not for ever. Nothing is assumed of the threads
  that follow events.
- `InfraFixer`, `CloudflaredMonitor`: cron starts the skill again and again (weak);
  strong fairness of a `docker start` that succeeds: it may fail any number of
  times but not always.
- `Watcher`: the handler thread takes the next event. `RsyncEngine`: the reader
  thread proceeds, a process exits, a follower reads; nobody has to cancel.

None is assumed for people, failing containers, networks or callers. No other
component has a liveness property.

## Proofs

Theorems are about a module's specification with arbitrary constants under the
assumptions that the module names: finite sets, bounds that are naturals, names
that differ. TLC evaluates the assumptions in every run.

- **DAGExecutor_proofs.** `IInv` relates the main thread's sets, the futures and
  the held resources: a node in flight has a future and its resources are held,
  and held resources have one owner. Exclusion in every call follows; so, for
  the first call, do order, that what is skipped never ran, the result
  (`ExecutorSafety` puts them together) and the refinement of `DAGSchedule`.
  `LoopInv` says where the main thread can be with nothing in flight: it never goes
  to wait there, and a queued item has a free worker or a busy pool ahead of it, so
  it never waits for a future nobody will resolve (`NoIdleWait`).
- **Telegram_proofs**, the gate. `UnitsConserved` and `QueuedAtMost` are inductive
  with the types; the rest of `GateSafety` follows by counting. `NoDeadlock`: if no
  unit of a semaphore is free, somebody holds one; a holder of a global unit waits
  for nothing, and a holder of a chat's unit at most for a global one.
  `GateRefinement`: where the gate lets a job start, the job has its two units
  already, so the units of the others leave room for it in `GateSlots`; where it
  refuses one, `QueuedAtMost` says that so many really wait.
- **CronEngine_proofs.** `EntriesInv` for any number of engines; `DurableInv` for one
  engine and one save at a time, and `cron_lost` shows that it must be so. It ties each
  job to the file, to the engine that is about to save it, or to what was lost to an
  unreadable file, which is lost and never altered.
- **WorkflowEngine_proofs.** `WfInv` ties the results to the position of the loop
  and says how it was left; `WorkflowSafety` follows.
- **Telegram_proofs**, the poller. `GateInPoller`: every step of the poller is a step of
  the gate, or of its crash, or leaves the gate alone, so the gate's lemmas apply
  in the composition. `PollerSafe` then ties each update to the thread that has it:
  what is below the offset was taken, at most one update is on the poll thread, and
  the slots held are those of the threads between gate and release; a worker that ends
  has told the chat something, unless a reset ran beside it or an exception went past
  its handler (`PollerIsSafe`).
  `TextsWait`: a text at the gate is on the poll thread, so what fills the
  queue is media. `WaitsForTheLiving`: a unit is held by a thread that lives or by
  one that never started, so who waits at the gate waits for a living thread that
  can go on unless all units of his chat, or all there are, have leaked.

**Fleet_proofs** (`HostIsSafe`; the programs meet in the containers, so each step of
each is shown to keep the containers' types, and its own variables are its own)

- *Watchdog.* `InHand`: a busy thread has one container, only the listener's threads
  wait for a grace period, and nothing is written while `docker events` is down.
- *Fixer, monitor.* `OneCycle`: no cycle leaves work to the next, and what is to be
  stopped is among what is not to be started. `Diagnosed`: what the monitor does
  next follows from its last inspection.
- *Watcher.* `NothingInHand`: a daemon that was told to stop has neither an event nor
  half a copy, and an event is in hand as long as one of its rules is. `CopyAhead`:
  as long as the target lacks what the watched folder holds, an event of the file
  waits in the queue, its rule is still to run, or a copy of that very version failed
  and was logged; and a copy that has read an older version is followed by an event. Every write of people or of another rule has to
  keep that (`PutKeeps`), and every step of the handler (`CopyStep`).
- *Transfers.* `Settled` is not inductive: threads of several starts write one row.
  `RowAhead` adds that a row that is not final is still to be written by some thread,
  that a process is started once, and that a run is marked over exactly when its
  thread is past its last message, so that a follower whose message went to another
  can end. Threads that died at their start and last words that the database refused
  are exempt, by name, in both. `RowsAreSettled` says it of `RsyncEngine` alone.

**Stores_proofs**

- *Task graphs.* `KahnInv`: `in_degree` counts the entries whose node has not been
  taken, and the queue holds those without any. In the end every node was taken, or
  the rest is a set in which each node waits for another (`Soundness`).
- *Vault.* Readability needs `IdentityInv`: until two inits have made an identity
  each, the key a process is about to write is the identity, and only one `init` can be
  between creating the identity file and filling it. That a write changes nothing else needs `CopyInv`: what a
  process that is not stale decrypted is the file with its one change.
  `VaultIsSafe` joins both.
- *Credential rotation.* `RotInv`: a date in the file, or in the memory of any
  process that may yet write it, is no later than the last rotation, and a limit
  is one that was once set. Forgetting is then always on the side of an alert.
- *Packs.* `PackInv` is `PacksSound` with the items a call has in hand left out, and
  those it passed over kept in `missed`.
- *Templates.* `EditsKept` is inductive with `SeenSafe`: what a call last saw of the file
  it is about to overwrite is in a backup, or the manifest let the call go without one;
  so an edit that disappears did so in one of the ways `Causes` names.
- *Memories.* `MemorySafe` is inductive with the types: ids grow, so a recall cannot
  touch another key's row.
- *Conversations.* `ChatInv` says of each request under way that its copy is the row
  unless it was marked stale by somebody who wrote in between, and that a request alone
  on a conversation finds its own question last. Where two requests meet, only titles
  and deletion are claimed (`HistoryComplete` below).
- *Skill hub.* `HubInv`: a push none of whose git commands failed has its copy in the
  index, and after the commit at the head of its own history, which the remote takes
  as a whole or not.
- *Release.* `ChangelogsComplete` with `Announced`: a prepared release announces what
  is above the last tag, and what is below that tag was announced with it.
- *Agents.* A cached agent is under its own name and no two were met at the same
  place (`CacheTrue`), so each name has one place in the ranking, counted by those
  ahead of it; the places are 1 to their number without a gap, by the pigeonhole
  principle for finite sets.
- *SSH.* `FabricInv`: the hosts of a call are still to do, at hand or done, and no
  host is two of these; so one result for each, whatever happens to clients.

**Services_proofs**

- *Rate limiter.* `BudgetIsKept` rests on one inequality, that a bucket is forgotten
  only after `IdleLimit` ticks, in which it has filled up (`BucketCapacity[c] <=
  IdleLimit`, an assumption the module states because the theorem is false without
  it): forgetting it changes nobody's allowance. Then a tick adds one unit at most,
  and a request takes what it is charged.
- *Deployments.* `DeployInv` says how far the one deployment under way has brought
  checkout, environment, image and containers, and that it has logged nothing but its
  start, if that.
- *Jobs.* `JobsInv` is about the only runner: which branch is checked out at each of
  its steps, that nothing of it is committed before `stage`, and where a file that
  the developer edited last may be.
- *Orchestrations.* `DirInv`: outside a run's steps its process is at home, inside
  them where it was asked to be, and what it goes back to is home.
- *Network scans.* `ScanInv`: whatever is up or has answered since the configuration
  was read is in `lively`.
- *Sentinel.* `CacheSound`: a cached answer has all that was published before its day,
  whether or not a later one could be written; a scan that misses something of it has
  the dependency among those whose request or cache write failed.
- *QA.* `QAInv`: the findings are those of the checks that are over, of each file as
  it was at some time since the run began.
- *Providers.* `LLMInv`: who is registered is in the chain, and those a walk has
  passed did not serve all along; that a name may stand twice is what makes it
  more than a remark about loops.
- *Policies.* No invariant, a lemma about steps: a longer list keeps the first
  denial where it was, and a rule in the old list is in the new one.
- *Benchmarks.* `BenchInv`: one scenario is measured at a time, the tracer is its own
  and the peak at least what it has allocated.
- *Intakes.* `SessionInv`: what each task's status says about how often it ran.

Both end with the composite: a behaviour of `StoresSpec` or `ServicesSpec`
is one of each component (`StoresParts`, `ServicesParts`), so `StoresTypes` and
`ServicesTypes` prove `StoresTypesOK` and `ServicesTypesOK` from the theorems above.

What the theorems assume besides the modules' assumptions is written in them:
`JobsAreSafe` one runner at a time, `DirectoryIsOwn` a process for each run (`orch`
is the counterexample), `PeaksAreTrue` scenarios one after the other, `SuccessHolds`
deployments that do not overlap, `Persistence` one engine and one save at a time
(`cron_lost`), and `ServicesTypes` the first three together. They are the uses of
the code that [Bounds](#bounds) names.

Only model-checked:

- liveness (`Terminates`, `Served`, `AllHandled`, `DownIsTold`, `Restored`,
  `CopiesCatchUp`, `TransfersEnd`): the prover has no rule for fairness. What can be
  proved of it is that the way ahead stays open: `WaitsForWork` for `Terminates`,
  `NobodyStuck` for `Served`, `WaitsForTheLiving` for `AllHandled`, `CopyAhead` for
  `CopiesCatchUp` and `RowAhead` for `TransfersEnd`;
- what the folds and recursive functions of the models compute for every input,
  an induction over data that the provers cannot do; no module declares a
  RECURSIVE operator.

The differences below are counterexamples of TLC.

## Where the code and its documents differ

Five runs each show such a difference; `PROJECT.json` quotes the sentences.

1. `cron_lost`: a process rewrites `jobs.json` from what it read when it was built,
   and a job that another process added since is gone.
2. `wf_continue`: a step for the failure case is skipped behind a failed step that
   says `continue`, because its own `on_failure` is the default.
3. `tunnel`: the monitor's compose commands run in the wrong directory; a tunnel
   that is down is never started, and the action is recorded as taken.
4. `watch_renamed`: a `moved` event carries the old name, so `copy` and `move` fail.
5. `orch`: runs in the dashboard's threads share one working directory.

Others were met while modelling. Those with a definition in a module have no run
of their own:

| Definition | What does not hold |
|---|---|
| `NothingWiped` (CronEngine) | a `jobs.json` that cannot be read or parsed is loaded as empty (417-421), and the next save wipes it; `os.write` may write less than it was given (441) |
| `ReconcilesAtStart` (CronEngine) | a starting daemon registers nothing of what it loaded |
| `DaemonDetected` (CronEngine) | with two engines alive, the one that stops removes the other's pid file |
| `QueueBounded` (ConcurrencyGate) | a new chat's count is reset by `Touch`, and more jobs wait than `queue_overflow` |
| `FailureSkipsDependents` (DAGExecutor) | in a second call, a dependent that is done stays done |
| `UpgradePreserves` (TemplateManager) | a file without a manifest entry is overwritten; so is an edit written between the hash (279) and the copy (286, 290), and the dated backup of the same second (283-285) |
| `AlwaysSettled` (RsyncEngine) | a thread that dies at 202 or 207 leaves the row pending and its stream open; one that cannot write its last word leaves the row running |
| `NeverSilent` (TelegramPoller) | a worker whose model client or `send_message` raises ends without a word to the chat (288-294, 328-331) |
| `InitsSafe` (Vault) | "Safe to run multiple times" (`docs/reference/vault.md:199`): two inits that both pass the check at 68 leave a vault that cannot be decrypted; so does a short write |
| `SetsKept` (Vault) | of two processes that set credentials at the same time, one loses its own |
| `RecordedCopied` (PackManager) | an item gone between validation (233) and copy (420-430) is passed over and recorded |
| `HistoryComplete` (DashboardChat) | two requests on a conversation write back what they read (`chat.py:145`, `175`; `db.py:75-89`), and a message is lost |
| `PushedMeansPushed` (SkillHub) | "pushed" without a remote, or after a commit that failed (87, 90-96) |
| `AnsweredIsReported` (SecuritySentinel) | an answer that cannot be written to the cache is dropped (354-358), and the scan is clean |
| `SuccessLogged` (Deployment) | `_audit_log` passes over an entry it cannot write (65-72) |
| `ResetHolds` (SessionHistory) | an answer under way puts the cleared history back |
| `FailedWorkUncommitted` (JobRunner) | a failed job's files are committed by the next one |
| `UpToDateIsThere` (SkillHub) | "No changes to push" (85) after a push that was refused, or killed before it |
| `GuideComplete` (Release), `FixUpgrades` (SecuritySentinel) | removed names missing from the guide; a fix that pins an affected version |
| `ReportStays` (Orchestrator) | two reports of one second have one name |
| `StoppedStays` (InfraFixer) | `compose up` starts what the cycle stopped as a crash loop |
| `NeverOlder` (Deployment) | overlapping deployments |

Without a definition: a copy of the watcher that fails is logged and never tried
again (`watcher/engine.py:144-145`); a command that raises past its handler ends the
poll loop for good; `sentinel --offline` never uses its cache; the default
output format of `claw security scan` is refused by the skill; a critical address
that is no target is not scanned; a QA check that an error cuts short looks
passed; a watcher told to stop before it waits does not; the `workflow` action of
the watcher is documented and not implemented; an auto-agent job ignores the exit
code of its skill; the error for a circular dependency names nodes that only
depend on the cycle; a failed step that asks for an empty rollback section lets
the workflow go on.

## Not modelled, and the plan

Left out for good: pure I/O and formatting (Telegram transport, channels and
profiles, GitHub and Home Assistant clients, the browser), routes and thin
wrappers (gateway, dashboard, MCP server) whose objects are modelled where they
live, append-only logs and reports, generated unit files and prompts, shell
scripts and static pages.

Parts of modelled components that are left out: what a cron job's command does
and how schedules are parsed; a conversation's history in Redis, the webhook mode
and the access handshake of the poller; `install`, `uninstall` and telemetry of
skills; the `.md` copies of orchestration reports; two pack managers at once; queries
that only read.

Some hazards are met by a property from one side only. `GateSafe` and
`ImplementsSlots` allow the admissions beyond `queue_overflow` that `QueueBounded`
forbids; `FiresOnlyEnabled` is about the scheduler of an engine and its own jobs, and
not about entries a dead engine left behind; `AnswersTrue` sees a client that was closed
under a command as an error only; `SessionTrue` says nothing of a session that is never
saved; `WorkflowSafe` leaves open what follows a rollback step that raises, and
`JobsSafe` what a refused checkout left behind.

Next, in this order:

1. The access handshake and the Redis history as further actions of
   `TelegramPoller` and `SessionHistory`.
2. An abstract specification of a file that several processes read, change and
   replace, implemented by `Vault` and `CronEngine`, and one of a file written in
   place for `CredentialRotation` and `TemplateManager`.

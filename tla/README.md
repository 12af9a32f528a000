# Verification of MOSAIC-Omega

TLA+ models of the execution core of MOSAIC-Omega (`src/src/mosaic_omega`) and of
the services around it, the TLC runs that check them and the TLAPS proofs about
them. MOSAIC-Omega compiles a
goal into a DAG of tasks and executes it with a pool of agents, models, tools
and resources; failures are retried, replaced, rolled back, replanned or stopped
by one recovery engine, and every state change is an appended event.

`PROJECT.json` lists the components, runs, mutants, the map from definitions to
source lines, the findings, the hazards and the theorems. Paths below are
relative to `src/src/mosaic_omega/` unless they start with `src/`.

## 1. Inventory

| Part | State it keeps | Operations | Interacts with | Hard behaviour | What makes it correct |
|---|---|---|---|---|---|
| state machine, event store (`execution_scheduler/state_machine.py`, `event_store.py`) | one projection per task (state, attempt, assignment, result, evidence), append-only events, outbox, snapshots | create, transition, assign, record_result, recover_task, replan_tasks, replay | database, orchestrator, recovery, service | read-then-write of a projection; multi-append commands interrupted | strict transitions; a projection only changes with its event; replay = projection |
| orchestrator (`orchestrator.py`) | round counter, live load per agent | run_until_blocked, run_once, one worker thread per assignment, release of dependents, pause, resume | everything below | the threads of a round | DAG barrier; nothing executing is orphaned; nothing releasable is left; calls return |
| recovery (`recovery/engine.py`) | none | plan, execute: retry, replace, rollback, replan, safe stop | event store, registry, tool runtime | runs in a worker thread while other workers execute | only the impact of the failure is reset; the retry budget holds |
| service (`service.py`) | wiring | create_run, validation, resume_run | all of the above | process restarts | an interrupted task is handled once; side effects are not repeated |
| main chain (`integration/main_chain.py`) | synced event ids, topology history | run_plan, round hooks, invalidate_evidence | service, memory, topology | hooks between rounds | evidence is invalidated with everything built on it |
| scheduler, cost model (`scheduler.py`, `cost_model.py`) | round-robin offset | greedy, round-robin, CP-SAT | registry | capacity computed from a published load | capacity and mutual exclusion; hard filters always apply |
| capability registry, posterior (`capability.py`, `posterior.py`) | one profile per actor | register, update_runtime, posterior update | database; workers, recovery, bridge | whole-profile read-modify-write by several threads | no observation, load or offline mark is lost |
| tool runtime, idempotency (`tool_runtime.py`, `idempotency.py`) | injected faults; durable claims | execute, execute_once, begin, finish | database, executor | crash between effect and record | an effect happens at most once per key |
| MQTT planning (`adapters/mqtt_agent.py`, `adapters/mqtt_worker.py`) | pending correlation ids, one reply slot each | request, on_message; the planner process answers | broker, workers of a round | duplicate, late and lost replies | a request gets its own reply or a timeout |
| message topology (`message_topology/`) | edges with minimum hold, intents, digests, dedup caches, deferred queue | rebuild, prepare_context, mark_delivered, drain | main chain, on the worker threads | check and record are separate calls; unlocked queues | every dependency has an edge; a result reaches the attempt that needs it |
| memory (`memory_recovery/`) | records with verification status, Redis indexes, vector index, snapshots | ingest, verify, invalidate, snapshot, restore, retrieve, pack | main chain | records saved one by one, torn saves, crashes; invalidation against restore | valid memory rests on valid evidence; the safety core that is found is in every pack |
| live faults, jobs (`integration/live_faults.py`, `src/apps/console/backend/control.py`) | request files; one job table and its history | start, stop, refresh, restore; enqueue, next, acknowledge | main chain, child processes | crash between apply and acknowledge; stop against exit; server restarts | a status tells how the child ended; a request is applied once |
| settings (`src/apps/console/backend/settings.py`) | three JSON stores, secret files, the process environment | save, delete, clear_secret, migrate, environment of a child | console requests, children | overlapping whole-file rewrites, restarts | saves survive; a child gets no other provider's key, and a checked run its own |
| ToDAG (`todag/`) | the task graph, results, fingerprints, revisions | build, update_specification, update_node, invalidate_node, set_node_result | GoalSpec, service | local replans against a full recomputation | a result that counts is current; the plan is never stuck |
| GoalSpec (`goalspec/`) | none | extract by rules or model, normalize, validate | providers, ToDAG | retries and fallback of a model that answers anything | no stated requirement is lost on the way |
| observability, dashboard (`observability/`, `console_api/`) | run file, pointer, index | capture; follow the pointer, serve | event store; console process | captures of a moving store, readers between two writes, files overwritten in place or not written, crashes | what is shown is told by the record |
| pool of agents, providers, verdict (`main_chain.py`, `adapters/`, `providers/`, `observability/projections.py`, `scripts/verify_deepseek_run.py`) | registered adapters; signatures on calls | register, plan, call, log; judge authenticity and execution | everything a run logs | a verdict computed afterwards, from a registry that changed | a strict verdict rests on work its agents did |
| verifier (`verification.py`) | none | verdict on a task | tool runtime | partial tool failures | success only with the work done |
| agent runtime, other scripts, scenarios, front end | little or none | placement rules, tensor splitting, drivers, rendering | | | see section 7 |

## 2. Plan

1. **Core (done)**: `TaskStates`, `Orchestrator`, `RunRecovery`, `DagRun`.
2. **Placement (done)**: the scheduler's round and the capability profiles.
3. **Tools (done)**: `ToolRuntime`, `AgentRpc`.
4. **Delivery (done)**: `Topology`, `Delivery`.
5. **Memory (done)**: `Memory`.
6. **Control and what a reader sees (done)**: `Control`, `Settings`, `EventLog`,
   `Dashboard`, `Authenticity`; the two compilers `GoalSpec` and `Planner`.
7. **Proofs (done for what section 6 lists)**: `Orchestrator` implements
   `DagRun`; attempts, evidence, orphans; tools, answers, memory, replay, faults,
   verdicts, keys, statuses, crashes and resumes, the counting of placements, the
   topology and the gateway, the dashboard, requirements, saves and local replans, the
   types of every service.

Left: the heartbeat and `ResourceMonitor` writers of the
registry; telemetry and decision feedback of the topology; the conversions of
`contracts.py`.

## 3. Modules

* `TaskStates` is the projection of a task and the pure functions of
  `StateMachine` and of the event-store commands that rewrite it. Of a task's
  fields it keeps those that control branches on.
* `Orchestrator` is one run without crashes. Every database call is one atomic
  step (`SQLiteDatabase.append_bundle` commits the event and the projection in
  one transaction under a lock; the PostgreSQL adapter does the same), and
  nothing else is atomic. `EventStore.transition` is therefore a read
  (`CheckReady`) and a write (`WriteReady`) wherever two threads can reach the
  same task; where only the thread that executes the task writes it, which
  `StatesMatch` and `ReleasePending` state and the proof establishes, the pair is
  one step. The state is the stored projections (`view`), where the caller is
  (`main`, `rounds`), and the program counter and locals of each worker
  (`job`), which a worker shares its name with its task.
* `OrchestratorInv` is the inductive strengthening of the barrier.
* `DagRun` is the abstract specification: a task is enabled on finished
  dependencies, begun, and finished, failed or yielded; work is invalidated in
  sets closed under dependants. `Orchestrator!Phase` is the refinement mapping.
* `RunRecovery` adds a process crash at any step and `resume_run`. A crash
  erases every thread and keeps the projections.
* `Placement` looks into the step `Orchestrator` leaves open, which READY tasks
  a round executes and where, and into what executing them does to the registry:
  the three policies with the solver's fallbacks, and for each worker the
  reads and writes of its agent's profile row. A task's own life is reduced to
  READY, executing and gone.
* `ToolRuntime` looks into one step of `Orchestrator`, the attempt of a task: the
  calls its agent plans, the tool runtime behind injected faults, the durable
  claims and the verdict, with a crash between any two steps.
* `AgentRpc` is the planning of a remote agent: callers, the network thread, the
  planner process and a QoS 1 broker that repeats or loses messages.
* `Memory` is the long-term memory of a run, save by save: an invalidation or a restore may
  be cut off between two saves or inside one.
* `Topology` is the graph of who may talk to whom; `Delivery` EXTENDS it with the
  message gateway as the threads of a round use it.
* `Control` is the console's job table, its children and the fault mailbox;
  `Settings` its three stores.
* `Planner` is the ToDAG engine, `GoalSpec` the compiler before it.
* `EventLog` looks into the step every other module takes as atomic: the append
  of an event, its guard, snapshots and replay.
* `Dashboard` is a capture and its readers, `Authenticity` who did the work and
  what the projections and the acceptance script say of it.
* `MCOrchestrator`, `MCRunRecovery`, `MCPlacement` hold the small instances.
  `MCServices` holds those of all the others: an initial state chooses the part
  that moves while the rest stand still, so that the run explores the sum of
  their behaviours and not the product (they meet only through a run). `Delivery`
  moves together with the topology it is built on.

Correspondence of steps and code, for the parts that are not one-to-one:

| Code | Actions |
|---|---|
| `create_run` | `CreateTask`, `PlanTask`, `ReleaseEntry`, `EndCreate` |
| `run_until_blocked`, the loop of `run_plan` | `Call`, `RunOnce`, `EndRound`, `Return`, `NoProgress` |
| `_execute_assignment` | `Dequeue`, `Assign`, `Start`, `FinishTools`, `Verify`, `Succeed`, `Raise` |
| `_release_dependents` | `Snapshot`, `CheckReady`, `WriteReady`, `EndRelease` |
| `RecoveryEngine.plan/execute`, `_recover_or_fail` | `Recover` (`Retry`, `Replan`, `SafeStop`) |
| `EventStore.replan_tasks` | `Replan`, `ResetOne`, `Refresh`, `CheckReady`, `WriteReady`, `EndReplan` |
| `invalidate_evidence` as round hook | `InvalidateEvidence`, `EndInvalidate` |
| `pause_task`, `resume_task` | `PauseTask`, `ResumeTask` |
| `resume_run` | `Resume`, `ResumeOne`, `EndResume`, then the loop |
| `Scheduler.assign_tasks` | `RunOnce`, then `Solve` or `SolverFails`; `Greedy` and `RoundRobin` once per task; `EndGreedy`, `EndRotate` |
| `_set_agent_load` | `Count` (under the lock), `Get`, `Put` |
| `BetaPosteriorUpdater.update`, `update_runtime(online=False)` | `Get`, `Put` in stage `sample` or `offline` |
| live fault `agent_offline` | `Offline` |
| `ToolRuntime.execute`, `IdempotencyManager.execute_once` | `Inject`, `Pop` (the unlocked list of faults), `Claim`, `Effect`, `Finish` |
| `plan` of the adapters; `_execute_assignment` after the tools | `Begin`, `Plan`; `Verify`, `Recover` |
| `MQTTAgentAdapter._request` | `Register`, `Publish`, `Get` or `Timeout`, `Unregister` |
| `on_message` on the network thread; the planner process | `Receive`, `Put`; `Answer` |
| memory `ingest`, `verify`, `record_outcome` | `AddRecord`, `VerifyFact`, `RecordOutcome` |
| `invalidate_by_evidence`, `reject_memory` | `InvalidateByEvidence` or `RejectMemory`, then `SaveInvalid` for each root, `Spread` for each dependent, `EndInvalidation` |
| snapshots, `restore_snapshot` | `CreateSnapshot`, `Damage`; `RestoreSnapshot`, then `RestoreRecord` for each record, `EndRestore` |
| a process that dies between two saves, inside one | `Crash`, `TearSave` |
| `build_context` | `PrepareContext` |
| `prepare_agent_context` | `Look`, `RebuildFor`, `Offer`, `Mark`, `Write`, `Take`, `Clear`, `HandOver`, then the agent's call `CallAgent` |
| `ControlPlane.start`, `stop`, `refresh` | `Queue`, `Popen`, `StartedAs`; `Stop`, `Terminated`; `Refresh` |
| live fault, console side and round hook | `Choose`, `Enqueue`; `Hook`, `Apply`, `Acknowledge`, `Unlink` |
| a settings request | `StartRequest`, then the reads and writes of its kind, one action per file or environment access |
| the start of a run (`_require_strict_env`, then `_child_env`) | `ReadDocument`, `LookUpKey` and `Cache` twice: in the steps `check`, `vet`, `trust`, then `read`, `look`, `cache`; any other child only the second time |
| `EventStore.append_event` and the commands around it | the writer's steps: guard, bundle, snapshot; `StartReplay`, `EndReplay` |
| `MainChain._observe` | `ReadTasks`, `ReadEvents`, then for the run file, the pointer and the index `WriteFile`, possibly after `Overwrite`, or `SkipWrite`; `CaptureRaises` |
| the console's readers | `FollowPointer`, `OpenBody`, `ServeBody` |
| the engine of `todag` | one action per public operation (each holds the lock) |
| `add_agent`, `plan` with retries and fallbacks, `TOOL_EXECUTED` | `RegisterAgain`, `BeginPlan`, `TryAgain`, `TakeAnswer`, `PlanRaises`, `PlanWithoutProvider`, `ExecuteCall`, `VerifyChore` |

Abstractions that a reader should know:

* The scheduler may assign any non-empty set of READY tasks (`RunOnce`), or none
  if `Starved`. The worker pool runs `MaxConcurrency` of them at a time.
* The impact subgraph follows `depends_on`. `evidence_dependencies` add edges
  only between tasks that already depend on each other (the planner's graph
  check requires it), so they are left out.
* Whether a rollback is possible (a declared compensation tool that succeeds) is
  a nondeterministic choice; its ToolCall is part of the step.
* `pause_task` and `resume_task` have no caller in the repository. `Manual`
  allows an operator to use them between calls, the only time no worker is
  writing.
* `InvalidateEvidence` may run at any point between two rounds; the code calls
  it from a round hook, after a round. That only adds behaviour.
* A worker's read and write of its own task is one step, which is exact as long as
  nobody else writes an executing task. Only a crash that cuts a replan short can
  make somebody do so: a parent and its child may then execute at once, and a replan
  of the parent resets the child under its worker. The model has that reset, and the
  exception it causes (`Proceed` finds the transition illegal and goes to the
  handler, `Raised`); a reset between such a read and its write is left out.
* An exception that leaves the handler itself (`recover_task` refusing inside
  `except`) ends the worker's thread here; in the code `run_once` re-raises it after
  the pool has joined, so the call also ends with an error.
* `SideEffecting` is fixed per task; in the code it is the tool of the last
  assignment.
* `Placement` has no costs: a baseline may choose any affordable bundle where the
  code takes the cheapest, and an optimum of CP-SAT is any solution to which no
  placement can be added, which the reward (greater than any cost) guarantees
  whatever the costs are. Every behaviour of the code is among these. The
  migration cost never applies: a READY task has no assignment, since
  `recover_task` and `replan_tasks` clear it.
* A load is counted in tasks: `current_load` is `min(1, n / capacity)` and is read
  back as `round(current_load * capacity)`. The rows of models, tools and devices
  change only by posterior updates, whose numbers are data, so only agents have
  a row.
* `MutexWith` is symmetric (`PlacementAssumption`): `todag/agents.py:533-537` makes
  it so, and CP-SAT and greedy each read one direction only.
* In `ToolRuntime` a READY task may start at any time, and a failed one is retried,
  failed or paused: what `Orchestrator` says of rounds and replans is left out, so
  what holds here holds in every schedule.
* A plan or an answer of a model is any member of a small set; a document of a
  projection is named by the event that carries it, a stored row of the settings
  by the request that wrote it. Scores, costs, token counts and texts are ranks,
  kinds or left out.
* Time is only what it decides: the end of an edge's minimum hold, a request that
  times out. The TTL of a deferred message (300 s) never passes while some thread
  prepares.
* `Authenticity` keeps of an adapter its kind and where its requests go, and of a
  call who made it, what it was made of and whether it is signed.
* In `ToolRuntime` the refusals that come before the claim (denied tool, missing
  argument, timeout, key or known actor) are pairs of a tool and its error class
  (`Refusals`), since the class is all that the recovery branches on.
* In `Memory` no record expires, a query finds all that matches (the code stops at 300,
  500 or 5000) and packs are asked for without evidence ids, as the main chain does.
  The vector index is shared by the runs of a process: other runs' records take
  places among its candidates, so what resembles a query is only promised while
  `VectorLimit` suffices.
* In `Settings` the server's environment holds keys named like their providers, and
  `.env` is part of it. A child with no key of its provider may use any other one it
  inherits (the code prefers DeepSeek's). `configured` also asks for an address and a
  model, which every saved row has; the listing of providers, which caches the keys it shows,
  is left out; of an endpoint's child only the endpoint's part is followed.
* In `Dashboard` any reader may be in the way of a write, one is followed. A reader
  that overlaps an overwriting reads the old file or one that does not parse.

## 4. Runs

| Run | Instance | Shows |
|---|---|---|
| `rounds` | 4 tasks (two roots, a task under one, a task under both), 2 workers, all error classes, tool exceptions, 1 retry, 1 replan, 4 rounds | barrier, release, confinement of replans, no orphans, evidence, budget, and `Strengthening`, the inductive invariant of the proofs, type included |
| `manual` | 3 tasks (diamond half), pauses between calls, starved rounds, 2 replans | with an operator too, the run implements `DagRun` |
| `complete` | 4 tasks, no failing execution, 8 rounds, fairness | the DAG is completed |
| `resume` | 3 tasks, one under another, 1 crash anywhere, retryable and replan errors, 2 replans, fairness | interrupted work is handled, executions stay in budget across crashes (side effects once), calls and resumes return |
| `lost_release` | 4 tasks, 2 workers | **violation**: a releasable task stays PLANNED when the call returns |
| `resume_stuck` | 3 tasks, 1 crash, no errors | **violation**: a resumed run does not continue |
| `half_replan` | 4 tasks, 1 crash, 1 replan | **violation**: READY over a stale SUCCEEDED predecessor |
| `placement` | 3 tasks (two exclusive, one edge-only), an agent of 2 slots without a tier, a cloud agent of 1, one edge and one cloud slot, 1 retry, 1 agent taken offline; policies `ortools` (with both fallbacks) and `round_robin` | capacities, exclusion, offline marks, what lost updates can and cannot do, progress and end of the run |
| `wrong_tier` | the same, two tasks with one signature | **violation**: an edge-only task on the cloud |
| `stale_load` | the same, all signatures different | **violation**: an idle agent published as loaded |
| `services` | one instance per part, below | the types and twenty promises of the services |
| `known_received` | the delivery instance | **violation**: a receiver is credited with context it never got |

Why these bounds: a race needs two workers and a task that two others release;
the lost release and the half replan also need a task released by one alone. The
four-task graph is the smallest with all of them. One retry distinguishes budget
`MaxRetries` from zero and one more; two replans let one replan meet another's
leftovers. `ListOrder` and `IdOrder` differ on purpose, since the release loop
walks by priority and the reset loop by task id. The crash run needs one crash to
meet every intermediate state; more only repeat it. It needs two replans: the first,
cut short by the crash, leaves a child that runs beside its parent, and the second
resets that child while it runs.

In `placement` the agent of two slots is the smallest on which two workers can
lose each other's updates, the one of one slot the smallest a stale load could
block; tasks outnumber slots, so that rounds are partial and repeat. The greedy
policy is exercised as the fallback of the solver: its code is the same.

The parts of `services`, their distinct states, and why the instance is enough
(1,307,969 states in about three minutes with two workers):

| Part | States | Instance | Why |
|---|---|---|---|
| tools | 70,047 | a local agent with its own plans and a remote one that reuses a key, 4 tools (one pure, one denied, one refused for a reason that is retried), 1 retry, 1 crash or fault | a repeated key needs two attempts; a stolen fault needs two threads |
| rpc | 51,956 | 2 callers, 2 requests each, 1 repetition per message | a late answer needs a second request of its caller |
| memory | 193,927 | a goal, a constraint and a chain of 3 records on one evidence, 1 snapshot, 2 counted operations (additions, restores and crashes are free), recall 1, 2 candidates of 3 similar ones | a closure of depth two, cut off after each save; a restore after an invalidation; a pack cut by its limit; a core record that only the vector index or the working state brings |
| topology | 15,292 | 3 agents, 5 tasks, 2 intents, top-k 1, 3 changes | a rebuild of one hop must leave an edge two hops away |
| delivery | 184,868 | 2 receivers with 2 and 1 attempts, one with 2 parents that may share an agent, a queue of 2, one parent redone | threads overlap, defer, merge, retry |
| control | 82,568 | 2 jobs, 1 request, 2 rounds, 1 restart | stop meets exit; a child outlives its server |
| planner | 42,613 | 3 GoalSpecs with and without sub-goals, 3 replans | a removed parent, a changed reference, an invalidation between two results |
| dashboard | 209,975 | 2 tasks, 5 log entries, 2 captures, 2 overwritings or writes given up | a second capture between two reads of a reader; an overwriting that a crash or an error cuts off |
| log | 25,064 | 2 writers, 2 tasks, 4 events, a snapshot per 2 of them, 1 mishap | a snapshot saved late, a damaged one, a crash before it |
| settings | 261,505 | 5 provider, 3 endpoint and 3 agent requests, of which the checked run or the unchecked child is left out (`Absences`), 1 reboot | a save, a clear and a child of one provider beside a save of another, whose key is in the environment |
| goalspec | 24,252 | texts of 3 sentences of 6 kinds, 5 model drafts | an enumeration that runs over two sentences; every flaw of a draft |
| authenticity | 145,902 | a report and its baseline task, five kinds of adapter, 2 attempts, 1 registration, 1 HTTP retry | a retried task whose agent was replaced in between |

`CHECK_DEADLOCK FALSE` is in its cfg because every part ends: the requests are
answered, the texts compiled, the bounds reached.

The initial state of a part is the code's: empty stores; for delivery parents that
are assigned, for authenticity the pool that registration leaves (`PoolAdapter`), with
any of the configured templates. In `Settings` both legacy files
may exist or not.

`complete` still allows evidence to be invalidated once, and eight rounds are
enough for both passes over the DAG; with fewer the bound itself, not the code,
would stop the run.

### Fairness

`Fairness` gives weak fairness to every worker thread, every replan in progress
and the caller's loop: tool and model calls have timeouts
(`tool_runtime.py`, `_validate`), the thread pool runs what is submitted, and the
caller waits for nothing but its workers. Nothing outside the program is fair:
calling, pausing, resuming a task, invalidating evidence and crashing may never
happen. `Placement` is fair to the caller's
thread and to every worker in the same way; the operator who takes agents offline
is not. The properties of `services` are safety properties: it states no fairness.
`RFairness` adds that a resume, once the process is down, happens and
goes on: of `EveryCallReturns`, the part about resumes is about runs that somebody
does resume.

## 5. Findings

* **`lost_release`.** `p` and `q` succeed together. `p`'s worker reads the store
  before `q` is SUCCEEDED and intends to release `x` only; `q`'s worker reads it
  afterwards and intends to release `x`, then `y`. `p`'s worker releases `x`
  first; `q`'s transition of `x` raises, the exception handler finds `q`
  SUCCEEDED and does nothing, and `y` is never released.
* **`resume_stuck`.** A crash after the append of SUCCEEDED and before the
  release. `resume_run` finds nothing RUNNING and nothing READY and returns.
* **`half_replan`.** A crash inside the reset loop: the tasks later in id order
  keep SUCCEEDED although the replan set out to reset them.

* **`wrong_tier`.** `_ortools` caches candidates under a signature that leaves out
  `allowed_tiers` (and `execution_tier`), which the hard filters read. The greedy
  and round-robin policies evaluate every task and are not affected.
* **`stale_load`.** Two workers of one agent finish; the first counts 1 left, the
  second 0; the second stores its row first. `NeverSaturatedIdle` and
  `StopsOnlyInfeasible` bound the damage: the last row stored is some worker's
  last one, which counted itself off, so an idle agent keeps at least one slot and
  its next task corrects the load. An offline mark can be lost in the same way;
  `LoneUserExact` says that it takes two users of the agent in one round.

* **`known_received`.** `prepare_agent_context` marks a parent's result as
  delivered when the context is built; the agent's planning call then raises, the
  task is retried by the same agent, and the delta of the retry leaves the result
  out. `CriticalReaches` bounds the damage: the agent has been given the current
  evidence of every proven parent, by this call or by one before it.

`complete` shows how far the first one reaches: without failures the abandoned
tasks are found by the next release loop, because some release always comes
after it; it takes a last round that ends with a failure to strand them.

## 6. Proofs

`Orchestrator_proofs` proves `TypeCorrect`, the
`InductiveInvariant` and from it `BarrierHolds`, `ReleaseIsNeverStale` and
`ReplanIsConfined`, for any finite or infinite set of tasks, any dependency
relation, any configuration. They rest on `DagAssumption` and `ConfigAssumption`
only: no acyclicity is needed.

The barrier is not inductive. A release loop writes READY from a list it read
earlier, so the list has to stay true (`ReleaseStillDue`); it does because a
dependency that is SUCCEEDED can be taken back only by a replan, a worker's
replan touches only what depends on its own unfinished task (`WorkerReplan`, and
by the barrier nothing there is SUCCEEDED), and the caller's replan runs only
between rounds (`Quiet`), where it is the one exemption of `Barrier` while it
resets (`CallerReplan`). That nobody else writes an executing task is
`StatesMatch` with `ReleasePending`.

`Placement_proofs` proves `OfflineStays`. `OfflineExcluded` needs to know of the
rows in the hands of the workers: `Marked` says that a marked agent is offline in
its stored row and in every row a worker has read and not written, and it is kept
because the mark is set at a round boundary, where `Placed` leaves no worker
running. That proof needs of the assumptions only that capacities are numbers.
`RoundInvariant` adds the bookkeeping from which `CapacityKept`, `ExclusionsKept`,
`IdleHasSlot`, `LoneUserIsExact` and `StopsForAReason` follow. `Fitted`: no task is
placed twice and nobody beyond capacity. `Counting`: the live count of an agent is the
number of its tasks in use, and a worker writes its last row after counting itself
off, so a full row means that somebody still works there. `Lone`: nobody else writes
the row of an agent with one user. `Tried`: as long as nothing is placed, nothing
considered could be afforded, so the second fallback, which does not look at
exclusions, finds nothing.
`PoolAssumption` adds that tasks and agents are finitely many and listed in an order
without ties. TLC checked the invariant on 936,410 states, with all three policies
as the first one, before it was proved.

`Orchestrator_proofs` also proves `Refines`: `Orchestrator` implements `DagRun`, for any
DAG and any bounds, under the refinement mapping `Phase`. The initial states map
to initial states; each action maps to a step (`Start` begins a task, `Succeed`
finishes it, the recovery actions fail it, yield it or invalidate the closure
below it) or to a stutter (everything that only moves a program counter or a
reading). A task that a replan has still to reset counts as waiting already
(`Pending`), so the reset loop is one abstract invalidation followed by stutters. The
steps that begin work need the barrier, those that invalidate need `WorkerReplan`
and `CallerReplan`, and the stutters that no loop writes what still runs
(`LoopsOnWaiting`): the inductive invariant is the hypothesis of every step.

`Orchestrator_proofs` finally proves `Strengthening` and from it `NoOrphan`, `OwnEvidence` and
`AttemptBudget`. On top of the barrier's invariant it needs that loops act only on
waiting tasks (`LoopsOnWaiting`), that whoever runs has a worker at the step its
state says (`Attended`), so that no transition a worker intends is ever illegal
(`Proceed` never raises without crashes), that a record holds evidence of its own attempt
only, and none before it begins (`CleanSlate`), and that a task that may begin an
attempt has one left of retries and replans (`AttemptLeft`).

`RunRecovery_proofs` proves `RecoveryInvariant` and from it `ResumedOwnership` and
`ExecutionBudget`. The invariant of the runs without crashes is of no use here: a
crash in the middle of a replan leaves READY tasks below tasks that are reset
already, so the barrier itself is lost (the run `half_replan`). What survives is
`RInductive`. `Owning`: whatever is RUNNING or VERIFYING is a worker's, is about to
be reset by a replan under way, or is still ahead of `resume_run`. `Budgeted` counts:
the `Room` of a task is the retries, the replans that have nothing left to do to it
(`Settled`) and the crashes, if a crash can make it run again (`Reruns`). A room
never shrinks, a replan enlarges it only in the step that resets the task, and a
task that has not begun an attempt still has room for one; what a release loop or a
replan has read of a task obeys the same bound. `RInductive` was checked by TLC
before it was proved. `OrderAssumption` says that the tasks are finitely many and
that the two orders in which they are listed have no ties: priorities are tied by
task id, which is unique in the run.

`ToolRuntime_proofs` proves `EffectOnce`. Its invariant `Claiming` says that whatever
ran, or is about to, is claimed under its key, that no two threads are between claim
and result under one key, and that what is about to run has not run; a crash keeps
claims and kills threads. `Working` adds what `OneHolder` and `SucceededWasDone`
need: one row per key and a row of its own for each thread in flight (`Table`), a
thread for each RUNNING row until a crash (`Worked`), and for each thread that has no
failed result the record of every call behind it (`Progress`), which no other
thread can take back because a SUCCEEDED row is never written again. `OneStrike`
needs of the list of faults only that the ids in it are distinct and have not
struck (`Struck`): the walk may remove another fault than it meant, but it removes
the fault it reports.

`Services_proofs` is about services that share no state:

* `AnswersAreOwn`: every message carries the id of its request.
* `CoreIsNeverCut`: while no save was torn the indexes find every record (`Indexed`) and,
  until a restart, the vector index everything that can be recalled (`Offering`). A
  query forces what it finds of the core, and the pack keeps of the forced records
  the goal and the constraints, which neither limit nor budget may take. What is not
  found is not promised: the theorem says which records a query must find (`Reachable`).
* `NothingRestsOnInvalid`: in the middle of an invalidation a record that rests on
  something void is one it has still to save, or depends on one of its roots
  (`Vouched`), and the roots it has saved are void (`Propagating`); so when a pass finds
  nothing more, nothing is left. A crash in between leaves what it had not reached,
  and that is what `excused` gains, nothing else.
* `ReplayFindsProjection`: the row of a task is the last document of the log; a sound
  snapshot is a document of the log with everything after it in the log.
* `VerdictsRestOnWork`: an event of the last attempt is of the agent the task is
  assigned to; a signed call of a provider is an answer of that provider.
* `KeysStayHome`: every key is in a file, a session, an environment or the hands of a
  request of its own provider (`AtHome`). So a child can use another provider's only
  when it is handed none. For a run, which is checked, that takes a key that was
  cleared: while the document is whole its active provider has a key in reach or lost
  it (`Stands`, `Secure`, `KeyHeld`), since a save makes a provider active only after it
  has seen its key (`Assured`); a torn document reads as the default provider.
* `SavesAreKept` (`Surviving`): two busy requests of a store have mixed, two busy
  writers raced (`Apart`). While a store is not raced its file reads as the history's
  document, and the document a writer carries to its replace is that one changed
  (`Documents`, `Writing`). Secrets and history change in the same step, and until
  requests of the providers overlap a session holds the stored key, or the one its
  request is about to store (`Keys`, `Caching`). TLC checked it before it was proved.
* `DashboardTells`: what a capture has read is in the log it reads afterwards
  (`CaptureTells`), and the three files are written in an order in which none is
  newer than what it points to, unless that was overwritten or given up (`Covers`,
  `FilesTell`). Of the last capture each file has landed or was given up (`Landed`).
* `StatusTellsChild`: `Status` says of each job what its status tells of its child,
  its handle and its record in `jobs.json`, which only a restart leaves behind the
  memory (`Told`), and that one job at most is active (`OneActive`).
* `InjectedOnce`: its invariant `Mail` says that a request belongs to one job
  (`OneJobEach`), that an injected one is in the mailbox, as itself or as its answer,
  and that one that is still pending is in the hands of a hook that is past the
  injection (`PastIt`); a killed child runs no hook again, so what it left is not
  applied a second time.

`Compilers_proofs` is about the two compilers. `RulesKeepRequirements`: in the mode of
rules the draft is the rules' draft of the text and the goal its normal form
(`Ruled`); what an enumeration has opened is read off the sentences, not carried
along. `ResultsStayCurrent` and `PlanIsNeverStuck` rest on `Planned`: the graph is
finite and has neither dangling dependencies nor cycles (`Sound`), every fingerprint
gathers what is above its node, a result that counts was accepted under the present
tree, and a stale node has a parent that is not completed. The traversal and
the fingerprints are recursive functions, about which nothing is known but that they
are a solution of their equation, if there is one. So a solution is shown to exist by
writing it down (`BelowIsLeast`: the least set closed under dependents;
`SomeGathers`), and to be the only one by looking at the first place where two
would differ: a largest set (`Largest`, by cardinality), or the first node of a
finite acyclic graph (`FirstOf`). Of a local replan it is then enough that what lies
outside `AffectedIs` has nothing changed above it, so that gathering the affected
part again (`PrintsGather`, `RestsGathers`) gives what gathering all of it would. The
assumption of the module says that a GoalSpec names finitely many things.

`Delivery_proofs` proves `DependenciesAreCarried` of the topology: a dependency is
offered as a required edge, merging and standing in keep its tasks, every required
candidate is selected, and all that touches the task of a rebuild is in its scope.
Of the gateway it proves `EvidenceReaches` for any threads, and `NothingHeldBack`
while they do not overlap. Both follow from one invariant, `Handed`, which follows an
item (`Tracked`: evidence always, anything while no two threads overlap) on its way.
Each item of a parent's message is still to be offered, or in the hands of the
thread or in the queue, or `Secured`: in the box of the attempt or given to that
agent before (`Accounted`). What the digest and the hashes know is secured too
(`DigestSecured`, `HashesSecured`), so what they drop was not needed; what is
deferred is never evidence (`Deferrable`), so what other threads do to the queue
cannot lose any; and a thread that prepares alone (`Undisturbed`) finds the queue
empty, fills it with at most one message per parent and has the edges it rebuilt.
`NothingHeldBack` assumes `Roomy`, a place in the queue for each parent (32 by default):
without it the policy drops low-impact messages, which it means to. TLC checked
`Handed` on 1.5 million states before it was proved.

`Types_proofs` proves `ServicesTypes`. The types are not inductive by themselves:

* a stored row, a thread or a file has a shape before what is read from it has a
  type (`ToolTyped`, `MemoryTyped`, `SettingsTyped`, `EventLogTyped`), and a thread's position
  in a plan stays inside it because the ranks of a finite set of steps are numbered
  without gaps (`RankIsTaken`);
* the attempts of `Authenticity` stay within `MaxAttempts` because `AttemptsSoFar`
  counts pairs of a chore and an attempt, so a chore with all its attempts made uses the
  bound up alone (`AttemptsLeft`); the epoch of a node of the planner never passes the
  number of replans;
* an edge of the topology has a type only while there is one for each pair of agents
  (`OneOfPair`). Its shortest paths and its bridges are recursive functions; that every
  stage of them has its type is shown of the one step, and `Iterates` says that a step
  from a set into itself can be iterated without leaving the set.

Where the services' own proofs have such an invariant (`Told`, `Planned`, `Handed`) the
types are taken from there, so `ServicesTyped` is also the conjunction in which all
of these are seen to live together.

All theorems rest on the ASSUME of their module only, which TLC evaluates in the
runs. Those of the topology, the authenticity and the GoalSpec include that members
and chores are finitely many, which the registry and a plan are, and that a draft says
of every field whether it is an object.

Only model-checked: the liveness properties (`AllSucceed`, `EveryCallReturns`,
`RunEnds`). Liveness under fairness and ENABLED are outside the prover's reach and stay with TLC. Induction
over data is too, with theorems that take a predicate: where a proof needs it, it
argues from a minimal counterexample instead, as above.

## 7. Not modelled

The map covers about 32 % of the implementation's lines. Left out, and why:

* the agent runtime (placement rules, tensor splitting, message records) has no
  state of its own;
* the HTTP layer and the front end render and forward; requests to providers and
  their JSON are I/O, of which the models keep success, failure and retry;
* the projections other than the run status, the provenance and the two verdicts
  reshape data, as do metrics, traces and logs;
* the conversions of `contracts.py`, SQL, object files and connections;
* scripts (except the acceptance rule of `verify_deepseek_run.py`), scenarios and
  experiments are drivers and fixtures of the parts above.

Two exemptions inside models: `pause_task` and `resume_task` have no caller, so only
`manual` uses them; a solver that ends FEASIBLE with nothing placed at its time limit
is left out of `StopsOnlyInfeasible`.

A job whose log cannot be opened (`control.py:404`) stays QUEUED with no child until
the server restarts; `Control` lets the log open, and no property depends on it.

Behaviour met while modelling that no run states: nothing in the repository
promises otherwise, or the parts involved are in different modules, or a property
already names the case as its exemption. The texts that disagree are quoted:

* The safety core is written under the node "goal" only (`main_chain.py:936`), while a
  pack asks for its task and its parents (`main_chain.py:726-731`), so the semantic-core
  stage of the retriever ("Core facts must survive 1000+ steps", `retriever.py:107`)
  finds none of it. It reaches a pack through the vector index (50 candidates, lost with
  the process until a restore rebuilds it) or the working state of the task, and that
  is what `CoreReachesPack` promises. Other incompressible records are forced past the
  recall limit but then cut by the item limits and the budget.
* An invalidation that a crash cut off is not healed by repeating it: records already
  STALE start it again only if they cite the evidence, and a record missing from the
  indexes is not found.
* "Atomic read-only dashboard snapshot persistence" (`snapshots.py:1`): after five refused
  renames the file is overwritten in place or not written, while the pointer and the
  index follow. A torn index reads as empty and the next write loses the rows of other runs.
* "a DeepSeek secret can never masquerade as an OpenAI compatible secret (and vice
  versa)" (`settings.py:339-343`): a child inherits the whole environment of the server
  (`control.py:372`), and one that is handed no key falls back to a key it finds there,
  at the active provider's address. `KeyStaysHome` says when that can be: a child that
  is not checked (`start_remote_acceptance`, `start_benchmark`), a key that was cleared
  between the check and the start, or a torn document.
* A result that is reported again on a completed node replaces its evidence and makes no
  child stale (`todag/engine.py:428`): the evidence `ResultsCurrent` speaks of is what
  `invalidate_node` has left valid.

* `resume_run` classifies an interrupted task by `assignment.tool_id`; a
  `ToolPlanningAgent` may have written files under a pure tool, and its calls
  repeat with a new attempt's keys.
* Two threads in `drain_deferred` may hand messages to the wrong task or lose them
  (`pop_all` copies, then clears); digest updates can be lost. `SerialHandoff` is
  about threads that do not overlap.
* `merge_task_messages` keeps one summary per sender, receiver and task: when two
  parents of a task ran on one agent and their messages are deferred, only the later
  summary arrives (`Superseded`). A full queue drops low-impact messages.
* Invalidated evidence may come back through a snapshot or through working memory.
* Requests in the mailbox after the last round stay PENDING; a job is INTERRUPTED
  after a server restart although its child still lives; return code 1 while
  STOPPING may be a failure or a stop.
* Settings are rewritten whole without a lock through a common temporary file;
  `clear_secret` can be undone by a read that re-caches the key; a key of the
  environment hides the saved one after a restart; a crash between password and
  row, or in the migration, leaves one without the other.
* Prohibitions given as an enumeration are not among a GoalSpec's prohibitions;
  the automatic mode does not fall back when the model's draft is invalid.
* A patch by `update_node` is reverted by the next `update_specification`, and
  `set_node_result` accepts results for nodes in any state.
* A plan of a `ToolPlanningAgent` with at least one step signs only its first call,
  so such a run is never `REAL_API_VERIFIED`. An agent that was replaced by a local
  one keeps its strict verdict, `api_calls` counts calls of unassigned actors, and a
  private executor loses `only_privacy_levels` when it is registered again.

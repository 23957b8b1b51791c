# Holly Grace: models and proofs

TLA+ models of *Holly Grace* (`src/holly/`, Python 3, asyncio), the TLC instances that check
them, and proofs of what matters most for every value of the constants. Paths are relative
to `src/holly/` of the repository unless they begin otherwise; line numbers are those of the
sources the models were translated from.

## 1. The system

Holly Grace runs agents for several tenants. A goal is classified and dispatched to a
*lane*; consumers take tasks from the lanes and run them, single tools or whole *workflows*;
every crossing of a component boundary goes through a `KernelContext`, which runs the
*gates* K1 to K8 before the operation; requests that leave the system go through the
*egress gateway*, code runs in a *sandbox*; Redis, PostgreSQL and Chroma keep the state. A
second half of the repository watches over its own development: an architecture registry,
an audit of documents, phase gates, a CI gate and a safety case.

| component | state | operations | what is hard | what makes it correct |
|---|---|---|---|---|
| Workflow engine `engine/workflow_engine.py` | executions (phase, task states, results, checkpoints), a bounded dead-letter queue | `execute`, both saga phases, `enqueue`, `dequeue`, `clear_expired` | failures, timeouts and cancellation at every await, executions that share the queue | compensation in reverse order, nothing undone twice or forgotten, every failure recorded |
| Workflow DAG, same file | tasks, edges | `add_edge`, validation, `topological_sort` | sets iterated in arbitrary order, duplicate edges | the result is topological, cycles are detected |
| Lanes `engine/lanes.py` | asyncio queues by priority, idempotency cache; active executions and a counter; schedule map and a sorted list of times; the lanes of a tenant | `enqueue_task`, `dequeue_next_task`, `spawn_subagent`, `mark_complete`, `schedule_task`, `evaluate_due_tasks`, `LaneManager`'s forwarding | consumers that wait, steal, time out; repeated and stray completions; rescheduling | no task lost, duplicated or starved; counters and records agree; every schedule can come due, none early |
| `KernelContext` `kernel/context.py`, `state_machine.py` | one state per context | `__aenter__`, `__aexit__` | contexts shared and nested, failures and cancellations in gates and cleanup | one block at a time, IDLE when left, nothing runs ungated |
| Gates `kernel/k1.py` to `k8.py` | usage counters, idempotency keys, write-ahead log, approval requests | one gate each | threads and tasks that share the stores, retries, reviewers that are late | one admission per key in the event loop, budgets, log before operation, no approval by default |
| Kernel registries `kernel/*_registry.py` | dictionaries under locks; ICD models with a time to live | `register`, `get`, `resolve`, `clear` | threads that wait for a lock with an old reading of the clock | a registration stands |
| Dissimilar verification `kernel/dissimilar*.py` | none | trace and log verifiers | they see only what can be recorded | a verdict agrees with what happened |
| Kernel memory `kernel/memory.py` | three tiers, promotion queue | `store`, `retrieve`, `promote_tier`, cleanup | the queue is swapped around awaits, batches start batches and are cancelled with their caller | nothing else lost between tiers |
| Tool registry `engine/mcp_registry.py` | tools, permissions that may expire, slots in use, limits | `register_tool`, `grant_permission`, `invoke`, `set_concurrency_limit` | handlers that time out, are cancelled or outlive both; limits lowered while calls run | slots in use are running handlers, slots come back |
| Goals `goals/`, `engine/goal_dispatch.py` | none | predicates L0 to L4, evaluators, classification, decomposition, dispatch | one hierarchy restated in several places | they agree; the assembly index grows with the class |
| Topology manager `agents/` | topologies with agents, contracts, goals | `spawn`, `steer`, `dissolve`, verification | steering what is no longer active, contracts before and after | goals belong to agents that are there, verdicts agree |
| Egress `infra/egress.py` | rate and budget counters, audit log | `enforce_egress` | late stages fail after early ones charged | nothing leaves unallowed, uncharged or unlogged, and the answer says whether it may have left |
| Sandbox `sandbox/executor.py` | running count, state, watchers | `execute`, `health_check`, `Subscribe` | state shared across awaits | capacity is neither exceeded nor lost |
| Redis client `storage/redis/client.py` | breaker; queues, stream, revocations | cache calls, `enqueue`, `dequeue_ready`, ... | late answers, probes, pairs of commands | open for cause, closed for good in the end, bounded overshoot |
| Partitions `storage/partition_manager.py` | tables, S3 objects | creation, archival, restoration | cycles that overlap, failures between copy, upload and drop | no lost rows |
| PostgreSQL `storage/postgres.py`, `storage/rls_boundary.py` | pool, rows, policies | writes with deadlock retry, migrations, audits of row-level security | retries after lost answers, migrations that stop or overlap | a write takes effect once; a passed audit means isolated tables |
| Safety `safety/` | goal chain, argument graph, forbidden paths | mutators, validations, phase gate D to E | calls in any order, ids of several kinds | decisions rest on what was shown |
| Guardrails, redaction `guardrails/`, `redaction/`, `observability/secret_scanner.py` | none | rules applied in order | overlapping matches, replacements that match | one pass leaves nothing that matched |
| Architecture registry `arch/registry.py` | singleton, document, generation | `get`, `reload`, `reset` | lock-free readers | staleness can be seen |
| Audit and gates `arch/audit.py`, `gate_report.py`, `fitness.py`, `ci_gate.py`, `cli.py`, `engine/phase_f_gate.py` | none | checks over documents and imports, gate decisions | missing documents, checks that could not run, items skipped | a gate opens only on what is done |

How they interact: the dispatcher consults the predicates, the classifier and the tool
registry and names a lane; consumers of the lanes call the workflow engine; gates are
callables given to a `KernelContext`, which awaits them in their order and shares nothing
with them; the gates share stores with all other contexts of the process and read the
kernel registries; the trace collector sits in the gates and the body of a context and in
its cleanup hook; the log verifier reads what K6 wrote. The CI gate runs the fitness
functions; the gate reports read the audit's outcome. Concurrency is asyncio nearly
everywhere; the stores of the gates, the registries and the egress gateway are also used
from threads, under `threading` locks.

`PROJECT.json` lists every component with its files and how far it is modelled, and every
hazard with its line and the properties that cover it.

## 2. The modules

| module | models | uses |
|---|---|---|
| `WorkflowEngine` | engine, saga, checkpoints, dead-letter queue | |
| `Saga` | what a saga promises: commit all, or undo newest first, or stop with a recorded obstacle | |
| `MCWorkflowEngine` | instances and the refinement mapping to `Saga` | `WorkflowEngine`, `Saga` |
| `TopologicalSort` | DAG construction and Kahn's algorithm | |
| `LaneQueues` | asyncio priority queues and waiting consumers | |
| `MainLane`, `SubagentLane`, `CronLane` | the three kinds of lane | `LaneQueues` |
| `LaneManager`, `MCLanes` | creation on demand, type check, forwarding, statistics; instances, also for `main_lane_starved` | the three lanes |
| `KernelContext` | contexts, tasks, nesting | |
| `DissimilarSM`, `MCKernelContext` | trace collection and the independent trace verifier; instances | `KernelContext` |
| `KernelGates`, `MCKernelGates` | gates and their stores; instances | |
| `KernelRegistries` | four keyed registries and the expiring ICD registry | |
| `WALVerification` | the independent verifier of the write-ahead log | |
| `MemoryManager` | kernel memory | |
| `MCPRegistry` | tool registry | |
| `Goals` | predicates and evaluators; classification, decomposition, index, dispatch | |
| `TopologyManager` | topologies and the contract verifier | |
| `EgressGateway`, `CodeExecutor` | pipeline; sandbox | |
| `CircuitBreaker`, `RedisQueues` | the two halves of the Redis client | |
| `PartitionManager`, `PostgresRepos`, `TenantBoundary` | partitions; pool and writes; migrations and audits | |
| `PhaseTransition`, `SafetyCase`, `Governance` | goal chains and the phase gate; the argument; forbidden paths | |
| `TextGuards` | redaction, guardrails, secret scanner | |
| `ArchitectureRegistry` | the registry under threads | |
| `ArchGates` | audit; gates of the phases; fitness functions and CI gate | |
| `Backends` | the sixteen stateful services side by side, one per behaviour, with their assumptions | the services and stores above |
| `MCBackends` | small values for `Backends`, also for `goal_chain_hangs` | `Backends` |
| `Algorithms` | the algorithms without processes, one per behaviour, and what their inputs are | `TopologicalSort`, `TextGuards`, `Goals`, `WALVerification`, `ArchGates` |
| `MCAlgorithms` | small inputs | `Algorithms` |

The proofs are in modules of their own:

| module | proves about |
|---|---|
| `FiniteSums` | sums over finite sets and sequences: lemmas for the others |
| `WorkflowEngineProofs` | `WorkflowEngine` and its refinement of `Saga` |
| `LanesProofs` | `LaneManager` with its lanes |
| `KernelContextProofs` | `KernelContext`, `DissimilarSM` |
| `KernelGatesProofs` | `KernelGates` |
| `ServicesProofs` | breaker, sandbox, queues, governance, partitions, kernel registries, architecture registry, PostgreSQL, topologies, egress, kernel memory, safety argument |
| `BackendsProofs` | tool registry, migrations and audits, goal chains; all services together |
| `AlgorithmsProofs` | `Algorithms` |

`map` in `PROJECT.json` names the source lines of every definition.

### Workflow engine

`pc[e]` is the await the coroutine of execution `e` is suspended in; `at[e]` the loop
index; the other variables are the fields of `WorkflowExecution` and of `DeadLetterQueue`.
An action is the code from one suspension to the next: `TaskSucceeds` stores the result,
takes the checkpoint and starts the next task; `TaskFails` marks the task and runs the
reversed loop up to the first compensation that is awaited (`CompensateBelow`).
`CheckpointRaises` is the `ZeroDivisionError` of an interval of zero. `Cancel` is a
`CancelledError`, which no handler of the engine catches. `letters` is a history of all
events the queue ever held. `Saga` knows of each execution only a mode, the effects in
place and those that could not be undone; `ImplementsSaga` maps the results that are not
compensated to the effects. `TopologicalSort` builds the edge list one `add_edge` at a
time, duplicates included; a visit releases the dependents of a task in any order, because
the code iterates over a set. That its result is what `OrderAssumption` of `WorkflowEngine`
asks for is a theorem (`OrderIsTopological`), and that a DAG which is sorted has no cycle
another (`CyclesAreFound`).

### Lanes

`LaneQueues` gives the eleven queues and `asyncio.Queue`'s wakeup protocol: `put` wakes
the first waiter and leaves the item in the queue, another consumer may take it first, and
a woken consumer that is cancelled hands its wakeup on. A consumer that finds all queues
empty awaits only the queue of priority 5 (`engine/lanes.py:541`). `MainLane` adds the
idempotency cache, `SubagentLane` the counter and the record. `careless` there remembers
that an execution was spawned twice or completed by another than its consumer; invariants
that only hold for careful callers say so. In `CronLane` the loop and the filter of
`evaluate_due_tasks` are one action without a suspension, `KeyError` included, and
`lastReturn` counts how often the list it returns holds each schedule: a schedule that was
moved comes once for each of its entries. `get_next_execution_time` is the first entry of
the list, whosever it is; `NextIsNotLate` says what that is still good for. Of the two
fields that say when a schedule runs, `scheduled_time` decides and `next_execution_time` is
the one that is moved on: `TimesPartWhenDue` says how far they agree, and `NeverEarly` holds
both against what is handed out, with the one exception the code makes.
`LaneManager` creates a lane at the first request for it, also one that it then refuses,
and forwards; the lanes share nothing, so in a behaviour of `MCLanes` one of them is used.

### Kernel

`KernelContext`: tasks enter contexts in nested blocks, several tasks may share a context
object, gates and cleanups are awaits, and any await may fail or be cancelled. The state
machine's transition table is `EventTransition`. `DissimilarSM` extends it with the trace a
`TraceCollector` can record and judges every trace when its block has been left.
`KernelGates`: an attempt is one entry with one payload; `Threads` are the attempts that
run in threads, the others share one event loop. `Scheduled(x)` says what the loop allows:
K3 and K5 have no await, so K3 runs from reading to increment and K5 from looking the key up
to adding it, and K7 waits for its reviewer in a blocking call, so it keeps the loop. Threads
interleave anywhere outside a lock. K5's store in memory has no lock ("Not thread-safe",
`kernel/k5.py:79`), so for a thread the look-up (`K5New`) and the add (`K5Mark`) are two
steps, and `OneAdmissionPerKey` speaks of the attempts of the event loop alone.
`KernelRegistries`: a thread that resolves or registers an ICD model reads the clock, waits
for the lock, and acts on the old reading. `MemoryManager` keeps the coroutines that wait
for each other as a tree: `retrieve` may run a batch, which runs `promote_tier`, which
retrieves. `Cancel` takes a caller from outside away with all that runs below it, because
`gather` passes a cancellation on to the batch. `dropped` remembers the records of which a
promotion failed, was cancelled or took a copy since they were read last; the next read
queues them again. The clients are those the class is written for. The repository's own are
not: `CacheClient.get` takes no class to decode to, and `PostgresBackend` has neither
`insert` nor `query`.

### Tool registry

An invocation is new, running or done; `Start` is everything from the lookup of the tool to
the first suspension of its handler, one step of the loop, because the lock is never held
across an await. `Timeout` and `Cancel` only cancel the handler: `wait_for` (Python 3.12)
awaits the handler in the same task, so it goes on holding its slot until it ends, and it
may still return a result. `Finish` gives the slot back and chooses among the answers that
`stopping` allows. Of the list of permissions the model keeps what `_check_permission` can
tell apart: whether an agent has a grant that lasts, one that will expire, or none.

### Services and stores

Each is a module whose actions are the pieces of code between two awaits (or, for threads,
between two calls that others can observe), and each collaborator behind a protocol may
fail, with or without effect, where the code can meet that. `CircuitBreaker` has all cache
calls of a backend share one breaker and record their answers in any order. `RedisQueues`
separates LLEN from LPUSH. `PartitionManager` runs archival cycles and restores beside
inserts; `exposed` names the rows that one of three known races may take: inserted between
the copy and the drop, moved by a restore and a cycle at once, or in an object beside a
table that was created empty and will overwrite it.
`PostgresRepos` has statements that commit or not, answers that get lost, and the retry
loop over its delays. `TenantBoundary` runs migrations statement by statement, two at
a time if asked, and audits policies at any moment. `EgressGateway` has requests from
several threads in a pipeline of calls that may each raise; an `EgressError` of the rate
limiter or the budget tracker is answered with the state of the pipeline, other exceptions
with FAULTED. The gateway knows a request by the domain it extracts from the URL
(`infra/egress.py:733`), and its promises are about that: which host the HTTP client reaches,
which parses the URL itself, is outside the model. `CodeExecutor` has one
suspension per request. `TopologyManager`, `PhaseTransition`, `SafetyCase` and `Governance`
are synchronous: an action is a whole call, and what is explored is the order of calls; the
continuity walk of `PhaseTransition` goes one goal per step, since it need not end.
`ArchitectureRegistry` separates the two assignments of `reload` and the two reads of a
consumer.

### Pure algorithms

A behaviour of `Algorithms` is about one algorithm and one input, and one invariant per
algorithm compares the result with a reference definition that is stated apart from the
code's way of computing it: what matched a text from the start, the longest simple chain of
imports (`Chains`), a set of levels, a relation between two classified goals, what every
document that a check reads states.

A text of `TextGuards` is a sequence of cells and a set of matches. A match belongs to a rule,
spans some cells, may keep some of them when it is replaced (a card keeps its last digits),
and may wait for other cells to be replaced before it appears. A rule replaces the spans of
its matches that show and nothing else. A placeholder for an api key
is itself a match of the generic rule, which comes after the other two that write one:
`brackets` counts how often it has been wrapped. What is abstracted: a match of which another
rule has replaced a part is gone (the code might still match what is left of it), and
replacements other than that placeholder match nothing, which is so of the texts in
`_CANONICAL_RULES`.

Documents are the numbers a check's patterns find in them; a goal's state is what the
predicates look at; the name of a module is the sequence of its parts, and its layer is
that of a prefix of the string, as `startswith` has it, so that `holly.engines` counts as
`holly.engine` (`LONGER`). What an input may be
is stated as an assumption per algorithm (`TextInputsAreTexts` and so on), which TLC
evaluates on the inputs of `MCAlgorithms` and the theorems start from.

## 3. The runs

| run | question | distinct states |
|---|---|---|
| `workflow` | saga, checkpoints, dead letters, termination and refinement of `Saga`, for two executions of a diamond DAG, a queue of two, an interval of two or zero | 6,659 |
| `workflow_partial_success` | violation: a full queue stops a rollback | |
| `lanes` | four tasks, two with one key, two consumers, the default priority and one above the range; two subagents and any misuse of `mark_complete`; a recurring and two one-time schedules: nothing lost, doubled, early, reported too late, starved at the default priority, and priorities are passed over once at most | 77,374 |
| `main_lane_starved` | violation: a task outside priority 5 waits for ever | |
| `cron_lane_one_time` | violation: a due one-time task is lost | |
| `kernel_context` | two tasks, contexts with no, one and two gates; the trace verifier's verdict is whether the operation came to its end | 1,977 |
| `kernel_traces_rejected` | violation: the trace of a real crossing whose gate fails is rejected | |
| `kernel_gates` | a thread and two loop tasks, two with one key, two with one tenant | 55,000 |
| `kernel_gates_threads` | violation: two threads exceed a budget | |
| `backends` | sixteen instances: tool registry, breaker, queues, partitions, memory, egress, sandbox, topologies, phases, safety case, governance, PostgreSQL, kernel registries, ICD registry, row-level security, architecture registry | 264,641 |
| `goal_chain_hangs` | violation: the continuity walk of a cyclic chain never ends | |
| `algorithms` | topological sort, redaction, evaluators, index, log verifier, audit, gates, CI gate over all inputs within the bounds | 277,561 |

Four properties of `backends` are conjunctions, one part per module; the parts are stated
and commented in their modules:

| property | parts |
|---|---|
| `StoresKeepFaith` | `CircuitBreaker!OpensForCause`, `RedisQueues!DepthOvershoot`, `MemoryManager!PromotionIsSound`, `PostgresRepos!WritesAreHonest`, `TenantBoundary!BoundaryHolds`, `PartitionManager!RowsSurvive` |
| `ServicesKeepFaith` | `CodeExecutor!CapacityIsExact`, `EgressGateway!AnswersAreTrue`, `TopologyManager!TopologiesAreSound`, `KernelRegistries!RegistrationsStand`, `ArchitectureRegistry!StalenessShows` |
| `DecisionsKeepFaith` | `PhaseTransition!ReadyIsTrue`, `SafetyCase!ArgumentIsSound`, `Governance!DenialsStand` |
| `ServicesRecover` | `MCPRegistry!SlotsComeBack`, `CircuitBreaker!BreakerRecovers` |

`PROJECT.json` lists one mutant for each property of a run. Each part of a conjunction has
its own mutant in its module (the operators whose comment begins "Mutant"), and each was
seen to break its part when the run was given it: `record_success_keeping`,
`StateForEver` (breaker), `FullOffByOne` (queues), `DropFirst` (partitions), `ResumeRaised`
(memory), `WakeSilent` (PostgreSQL), `enable_rls_after_policy` (migrations), `LogBestEffort`
(egress), `ReleaseStateOnly` (sandbox), `CarriedUnchecked` (topologies), `LiveForEver` (ICD
registry), `Assign_counting_first` (architecture), `MissingFromAnywhere` (phases),
`AddClaimUnchecked` and `TraceAll` (safety case), `register_replacing` (governance),
`DueAlways` and `RemovedAll` (cron lane), `DecrementNever` (subagent lane),
`guard_input_raw` (guardrails), `c003_lenient` (audit).

### Bounds and why they are enough

Two executions are the least that compete for the dead-letter queue, and a diamond with a
task that has no compensation is the least DAG in which skipping, order and prefix of a
checkpoint differ. Two consumers are the least that can steal a wakeup; the priorities
asked for are the default and one above the range, so that clamping, the default queue and
another queue all occur. Two time units for the hour and four on the clock let a recurring
schedule come due again before and after its next execution time. Two tasks and three
contexts allow sharing and nesting at once.
Three attempts give a retry with the same key and a competitor for the same budget, with
amounts that fit alone and not together. Three tool calls, two by one agent, fill a limit
of one or two and exceed it when it is lowered. The breaker has a caller who may be
cancelled beside one who may not, and a threshold of two, so that a single late failure
differs from a cause. Three producers exceed a queue of two by more than one. Two archival
cycles and a restore over one partition with two rows are the least in which two races
meet. Three calls with two connections leave one waiting; two attempts (the code's
eight differ in nothing but the delay) give a retry that finds the row changed, and one
attempt that is the last. Two migrations over a table of each kind (tenant's, unlisted, exempt) with
tuples that forget one or name one too many give every combination of statement orders.
A chain of three goals has one in phase D whose SIL
phase E exceeds, so that chains are ready with and refused for that phase. Memory has three
coroutines, at most two of them called from outside, a promotion threshold of two and batches of two: a caller and the two promotions
of the batch it runs, both of which can be under way when it is cancelled; a batch that would
need more waits for coroutines to end. Three clients of two connections insert, update and
append; the two upserts of `PostgresRepos`, which write whatever is in the table, are left to
the proofs (`RepositoryWritesAreHonest`), which take every set of operations. A text of three cells has matches of six rules that
overlap, hold one another up and wait for one another, taken in every combination.
Two threads, a reader and two versions of a file are the least in which a reload is
overtaken. Counters that the code lets grow are bounded by constants named as bounds in
their modules (`MaxSpawns`, `MaxTime`, `MaxEntries`, `MaxCalls`, `MaxCallers`, `MaxDay`, `MaxRuns`,
`MaxClock`, `MaxTopologies`, `MaxReviewers`, `MaxVersion`, `MaxInstances`,
`MaxGeneration`); an action beyond its bound is not taken. The inputs of the algorithms
are, where the fields are many, all those that differ from a good one in two fields at
most, so that one error can hide another; where they are few, all of them.

### Fairness

`WorkflowEngine`: every await has a timeout (`timeout_ms`, ten seconds for a
compensation), so an answer, be it a timeout, comes: weak fairness of `Answer`. Lanes: the
event loop runs ready coroutines and a consumer is a loop: weak fairness of taking and
finishing, none of giving up; time passes and the evaluation cycle is called again and
again. `KernelContext`: gates and cleanups end, under weak fairness; that the body of a block
ends is strong fairness of `OperationCompletes`, since a body that enters further contexts can
end only between them, again and again. `KernelGates`: gates return,
and the approval channel answers or times out. `MCPRegistry`: timers fire, and a handler
that was cancelled ends (one that swallows its cancellation for ever keeps its slot;
nothing in the registry can prevent it). `CircuitBreaker`: the clock goes on, Redis answers
or fails a command, and one caller who is not cancelled calls again. `PhaseTransition` in
`goal_chain_hangs`: the walk goes on, so what the counterexample shows is not a walk that
stops. No other run assumes strong fairness, none assumes that a reviewer decides, and none
assumes that Redis stays up: that is the premise of `BreakerRecovers`.

Deadlock checking is off where the system may stop: executions and attempts end, lanes may
be idle for ever, the services may have no call left, an input that has been checked stays.

## 4. The proofs

Every safety invariant the passing runs check, the refinement of `Saga` and every action
property has a theorem, for all values of the constants: any finite or infinite sets of executions, tasks,
contexts, attempts, calls, rows or threads unless an assumption named in the module (and
evaluated by TLC on the instances) says otherwise, and inputs of any length.

The argument is the same everywhere: an invariant that is inductive, which needs more than
the property, because the property speaks of the end of a story and the invariant has to
say where in the story each actor is. What each adds:

| about | theorems | what the inductive invariant says beyond the property |
|---|---|---|
| saga | `DependenciesRespected`, `RollbackComplete`, `FailuresRecorded`, `QueueWithinBound` | `LocalInv(e)`: going forward, all positions before `at[e]` have succeeded, that one is running, later ones are pending; going back, positions between `at[e]` and the failed one are finished (compensated, failed with a letter, or without a compensation), those below have succeeded. `QueueInv`: the queue is within the letters and its bound |
| checkpoints | `CheckpointsCorrect` | `CheckpointInv(e)`: the results are the prefix of the order that the forward phase has passed, and the checkpoints cover it but for less than an interval |
| refinement | `SagaImplemented` | no more than the two above: each action maps to a step of `Saga` for its execution and to a stutter for the others |
| contexts | `ContextsUsedOnce`, `ContextsIdleWhenLeft`, `OnlyGatedOperations`, `NoExceptionSwallowed` | a task's stack of blocks against the states of its contexts: those below the top are ACTIVE, the top one is in the state its step implies, no context is in two stacks |
| trace verifier | `VerdictsAreRight` | `TraceInv`: of a context in a block the trace ends in the states on the way there, once each, and before them are whole cycles |
| gates | `AtMostOneAdmission`, `ApprovalNeeded`, `BudgetKept`, `LoggedFirst`, `NoChargeLost` | `PlaceInv`: where an attempt is against the gate it stands at, for any gate order; `KeyInv`: who has passed K5 has its key in the store, and in the loop nobody else has passed with that key or is about to; `ApprovalInv`; `BudgetInv`: usage at most what the one outstanding reading says (an inequality, since a thread may reset between); `LogInv`: entries counted by K6 gates passed; `ChargeInv`: usage is a sum over attempts |
| main lane | `DispatchedOnce`, `NobodySleepsOverWork`, `OvertakenAtMostOnce` | `QueueInv`: as many consumers woken as items lie in the default queue while others wait; `PlacesInv`: each accepted task in one place; `OvertakenInv`: who overtook a task still queued has not waited since |
| subagent and cron lane | `SubagentsCounted`, `EntriesAreKept`, `LanesTypes` | `SubInv`: counter, record and places of careful callers agree; `CronInv`: the list is sorted and covers the map, so that its first entry is not later than any schedule; the two times of a schedule agree until a recurring one comes due |
| tool registry | `CountsCorrect`, `AdmissionCorrect`, `TypeCorrect` | types and agreement need each other, because a count may fall to zero and no further |
| breaker, queues, sandbox | `BreakerOpensForCause`, `QueueOvershootIsBounded`, `ExecutorCapacityIsExact` | the count is the streak; payloads still to come from each producer past its check; the running are finitely many and counted, also if the calls are not |
| memory, partitions | `MemoryPromotionIsSound`, `RowsAreKept` | what a coroutine is about to do follows from what it is for, and a cancellation takes those below it and no others (`Cancels`); what a cycle, a restore or both hold of a partition, and which rows that exposes |
| PostgreSQL, row-level security | `RepositoryWritesAreHonest`, `TenantsStayApart` | how far a call has got tells what it has written; which statements of any version stand behind a policy that is found on a table (`PoliciesInv`) |
| egress, topologies, registries | `EgressAnswersAreTrue`, `ManagedTopologiesAreSound`, `RegistrationsAreKept`, `StaleCopiesShow` | the place in the pipeline and the answer tell what has been charged, logged and perhaps sent; copies, generations and the reload under way |
| decisions | `ReadinessIsEarned`, `ArgumentsAreSound`, `GovernanceDenialsStand` | what the depth-first search has seen leads on to what it has seen and an error is reported exactly for a cycle in it (`SearchInv`); where the walk stands against what it has left behind (`WalkInv`) |
| together | `StoresAreFaithful`, `ServicesAreFaithful`, `DecisionsAreFaithful`, `AllServicesTyped` | a step of `BackendsSpec` is one of the service in focus and leaves the others alone |
| sort | `OrderIsTopological`, `CyclesAreFound`, `DagsAreSorted` | `SortInv`: the in-degrees are what is left of the edges when one per visited dependency is taken off, and the list so far stands on its own. A refused DAG without double edges leaves a finite set in which everyone has a predecessor |
| other algorithms | `TextsAreRedacted`, `GoalsAreJudgedAlike`, `GoalsAreIndexedFairly`, `AcceptedLogsAreConsistent`, `GatesStayShut`, `MergesAreEarned` | nothing moves but `checked`; the work is in lemmas about the operators for every input. Of a redaction: the texts between its seven rules (`Stages`), what a rule replaces stays replaced, and a match that still shows at the end appeared only when its own rule or a later one replaced what was behind it |

How far the induction goes. A fold or a recursive function is defined by a CHOOSE over
functions, so what it computes can only be used once such a function is shown to exist.
Induction over data is out of reach as a rule with a predicate for parameter; where it is
needed the proof takes a smallest counterexample (`NatMin` over numbers, `SmallestSubset`
over finite sets) and shows a smaller one. `FoldsExist` does it once for the folds, the
lemmas of `FiniteSums` for sums, the proofs of the goal chain for paths that need not
repeat a goal (the pigeonhole principle), those of the sort for the predecessors.

The longest of these is the memoised walk that measures the depth of imports
(`arch/fitness.py`). It is a function of a module, the set of modules on the path to it and
the cache so far, and it returns a depth and a cache. `WalkFound` shows that the function
exists: calls nest on paths that grow, so a counterexample with the fewest modules off the
path has none smaller. `Starts` and `Ends` are the contract of a call: it forgets nothing
that was in the cache and remembers nothing of the modules on its path, each depth in the
cache is that of a real chain (`Backed`), and without cycles no chain is longer (`Exact`).
A cached module is not walked again, so the argument must not depend on the order in which
modules come; it uses only that the order names them all. With cycles the cache holds depths cut short by the
path they were found on, so the theorem claims no more than a bound there, and so does the
invariant the run checks.

Assumptions. Those that carry weight: `Order` lists all tasks, each behind its dependencies
(what the sort is proved to return); contexts have a number of gates each;
a producer exists and there are finitely many of them (the overshoot is bounded by their
number); the breaker's threshold, the number of attempts, the promotion threshold and the
batch size are not zero (a batch size of one is allowed: the loop it makes is no harm to safety);
archivers are not restorers; the versions of the schema list each table
once or more in some order; goals belong to one of two phases; the inputs of the algorithms
are of the form their parsers return. The theorems about single services state theirs as hypotheses,
so none depends on the constants of another.

Only model-checked, and why: everything about liveness (`EveryExecutionEnds`,
`EventuallyIdle`, `AttemptsEnd`, `ServicesRecover`, `DefaultPriorityServed`, and of
`SchedulesAreKept` the part that recurring schedules are handed out), which the prover does
not do under fairness. The theorem `SagaImplemented` covers the safety part of the
refinement, which is all that `Saga` states. The violations are counterexamples TLC finds; nothing is
proved of them.

## 5. Where code and documents differ

Shown by a run:

- A compensation that fails while the dead-letter queue is full raises
  `DeadLetterQueueFullError` out of the loop; earlier tasks keep their effects
  (`engine/workflow_engine.py:911`), against "saga pattern prevents partial success"
  (line 37).
- A task whose priority is not 5, put while all consumers wait, is not taken
  (`engine/lanes.py:541`), against "dispatched ... in priority order" (line 442).
- `evaluate_due_tasks` deletes a due one-time schedule and then looks it up
  (`engine/lanes.py:660`): `KeyError`, and the task never runs.
- `k3_check_bounds` reads and increments under the lock twice (`kernel/k3.py:227`), against
  "Usage increment is atomic (no race conditions with concurrent requests)"
  (`docs/Component_Behavior_Specs_SIL3.md:474`).
- A context whose gate fails passes through FAULTED inside one call, so the recorded trace
  has a transition the verifier's table lacks (`kernel/dissimilar_sm.py:65`),
  against "Real
  KernelContext traces pass the dissimilar state machine verifier."
  (`tests/integration/test_dissimilar_sm_verifier.py:127`).
- `validate()` walks the chain whatever the cycle check found, and does not return from a
  chain that enters a cycle (`safety/phase_transition.py:243`), against "No cycles in the
  transition graph" (line 143).

Seen while modelling, visible in the models, without a run of their own.

Engine and lanes:

- No code reads `idempotency_key` of a workflow task, against "Effectively-once semantics:
  idempotency keys + deduplication prevent duplicates" (`engine/workflow_engine.py:23`).
- An edge added twice makes an acyclic DAG look cyclic (line 362), against "If DAG contains
  a cycle." (line 520). `CycleVerdictIsRight` is exact without duplicates.
- A consumer woken by a priority-5 put takes that task although a higher one has arrived
  (`engine/lanes.py:541`), against "Dequeue next task by priority (highest first)" (line
  527); `OvertakenOnce` says how far that goes.
- `max_queue_depth` bounds each of eleven queues (line 509), against "Maximum queue depth
  per tenant" (line 290), so the reported queue depth can reach 1100 percent.
- `max_concurrency` is never read by `spawn_subagent` (line 744), against "Concurrency
  limits are enforced per tenant." (line 684); `mark_complete` lowers the counter for
  unknown executions too (line 797).
- `evaluate_due_tasks` compares `scheduled_time` with the clock and never advances it (line
  643), while line 647 sets `next_execution_time` an hour ahead. A recurring schedule stays
  due and is handed out at every evaluation, against "Timestamp of next execution." (line
  178). `NeverEarly` has it as its exception.
- `get_next_execution_time` returns the first entry of the list (line 676), which may belong
  to a one-time schedule that is gone or to the former time of one that was moved, against
  "Next scheduled time, or None if no tasks scheduled." (line 672).
- A recurring schedule that was moved while it waited is twice in the list of due tasks, once
  for each of its entries (line 641).
- A request that the manager refuses for its type has created the lane all the same.

Kernel:

- A task may enter a second context inside a first (`kernel/context.py:196`), against
  "INV-2  count(active) <= 1 per task -- no re-entrancy."
  (`tests/integration/test_k5_k6_invariants.py:8`).
- A key stays marked when a later gate refuses, so the retry is refused as a duplicate
  (`kernel/k5.py:204`), against "Duplicate keys with identical payload return original
  result." (`docs/ICD_v0.1.md:222`).
- The store of K5 looks a key up and adds it without a lock (`kernel/k5.py:103`), as its own
  "Not thread-safe" (line 79) warns, against "atomically" (line 180): a thread and the loop, or
  two threads, may be admitted with one key. `OneAdmissionPerKey` speaks of the loop.
- The log entry is written on the way in (`kernel/k6.py:489`), against "Count of WAL entries
  created = count of boundary crossings where context.state == IDLE (after exit)."
  (`docs/Component_Behavior_Specs_SIL3.md:119`); its exit code and flags are those the gate
  was built with, so the log says success of attempts that a later gate refuses.
- The trace verifier accepts a crossing whose cleanup failed as a success.
- The K8 decorator evaluates the coroutine of an async function, not its result.
- Memory: cleanup uses thirty days whatever a record asks for; `access_count_threshold` is
  not read; with a Redis client that serialises, the access count never grows, so nothing
  is promoted by `retrieve`; a batch size of one loops; a caller cancelled while it gathers a
  batch (`kernel/memory.py:619`) takes the batch with it, and its records stay in Redis until
  they are read again; the calls do not fit the repository's `CacheClient` and
  `PostgresBackend`.
- The ICD registry reads the clock before it waits for its lock, so an entry that has
  expired meanwhile may be returned.

Tool registry, goals, topologies:

- An invocation beyond the limit is answered at once, with the code and text of a timed-out
  tool (`engine/mcp_registry.py:797`, `:722`), against "Excess invocations queued with 30s
  timeout" (line 30). Slots are counted per agent and compared with the tenant's limit
  (line 794), against "default 10 per tool per tenant" (line 29): `AdmissionIsExact` speaks
  of one tool, tenant and agent.
- `K2PermissionGate` looks for an agent's name in the registry's list of `ToolPermission`
  objects (`engine/goal_dispatch.py:330`), so it permits nothing, against "True if agent has
  permission; False otherwise." (line 320); the tests use a registry that returns names.
- An empty list of predicates is compliant. A goal of codimension above four with one agent
  is classified T0. T3 with two or three agents has an assembly index of eight or nine,
  below the bound of ten its validator states (`goals/aps_validator.py:11`), which checks
  fixed sample numbers only.
- An inactive topology can be steered, which makes a fork; `reassign_goals_to` is not read;
  goals without an agent drop out silently; any contract with a duty is reported as unmet.

Services and stores:

- Egress: a request whose `send` raises has perhaps gone out, and one whose response cannot be
  redacted has; both are answered as failures (`infra/egress.py:608`), against "On any
  failure, request is not forwarded and error is logged." (line 448); `AnswersAreTrue` allows
  for both. A response that cannot be redacted is returned unredacted with REDACTION_ERROR; an
  `EgressError` of the limiter or the tracker is answered RATE_CHECKING or BUDGET_CHECKING
  (line 689); the domain is found by a regular expression of the gateway's own (line 733),
  which need not read a URL as the HTTP client does; rate and budget are not given back when a
  later stage fails; `timeout_seconds` is unused.
- Redaction: `[secret redacted]` matches the generic key pattern (`redaction/core.py:182`,
  `:143`), so a second pass makes it `[[secret redacted]]` and `detect_pii` is true of redacted
  text, against "Multiple redaction passes are idempotent."
  (`tests/integration/test_redaction_integration.py:148`), which tries an email address.
  `RedactionIsComplete` claims a second pass changes nothing only where no api key was named.
- Sandbox: FAULTED is never seen by `health_check`; one request that ends reports IDLE while
  others run; `_queue_depth` is unused.
- Redis: HALF_OPEN lets every caller through, against "HALF_OPEN allows one probe"
  (`storage/redis/client.py:223`); `dequeue_ready` removes nothing.
- PostgreSQL: `SET LOCAL` outside a transaction has no effect; the retry helper sleeps with
  the connection in hand, after the last attempt too; a late retry of an upsert can replace
  a newer checkpoint.
- Row-level security: the audit infers that a table is secured from its having a policy,
  and compares text that PostgreSQL may print otherwise; between DROP and CREATE POLICY a
  tenant sees no rows; one of two concurrent migrations can fail on CREATE POLICY; a policy
  on the exempt table only warns.
- Architecture registry: the generation starts at one again after `reset()` and `get()`, so
  a consumer that compares generations alone can be fooled; during a reload readers can see
  the new document with the old generation. `StalenessShows` compares instances as well.

Safety, audit, gates:

- The cycle check of a goal chain never decides anything; the walk comes first or hangs.
- Claims of any status count towards completeness; ids shared between goals, strategies and
  claims can make cycles.
- Governance: paths compare equal whatever their condition, so a constructor's tuple drops
  one silently; an empty tuple means the canonical paths; `governance_rules` are never
  consulted; deleting the audit log is forbidden to one role only.
- Audit check C007 passes when README and genealogy disagree if the version in
  architecture.yaml is missing.
- Gates: phase B ignores whether the audit passed; the count of tests is that of tests
  collected; two items pass whatever the status of their task. The CI gate passes when the
  scanner is unavailable, and its traceability and drift stages never block. Modules whose
  layer has rank zero are skipped by the layer check, and the dependency depth is measured
  too low on cyclic imports.

## 6. Not modelled

Payloads, wording, schemas and predicates of the kernel gates are abstracted to the choice
between passing and failing. Mutating a DAG while it runs, and the expiry of a token while
K7 waits, are not modelled: no caller does the first, and no document states a property
about the second. Reads of the repositories return rows and keep nothing. The sandbox's
isolation and container settings are data. The exporters of the safety case and the
tables behind it are text and data. Eigenspectra of topologies are numbers no decision of
the topology manager rests on.

Left out altogether: the Chroma client (passes calls through); model validation (a table of
thresholds compared one by one); scanner, traceability matrix, tracker, parsers and other
document tools of `arch/` (one pass over a file, no state between calls); the built-in
tools (fixed answers); ICD models, exceptions and fixtures (data classes); evaluation suites
and the gate of phase E (batch drivers with constant verdicts).

## 7. Plan

The plan this project was built along is done: all components listed as modelled are in a
module, each safety property has its theorem, and each liveness property its run. What
could be added without changing its form:

1. Mutation of a DAG while it runs, should a caller come to do it: `Order` becomes a
   variable, and `DependencyOrder` has to speak of the order an execution began with.
2. The expiry of a token between K2 and the end of K7, once a document says what is to
   happen then.
3. The reads of the repositories, if a property relates what two of them return.

--------------------------- MODULE WorkflowEngine ---------------------------
(***************************************************************************)
(* The durable workflow engine (holly/engine/workflow_engine.py): several  *)
(* executions of one workflow DAG run as coroutines of one event loop and  *)
(* share the engine's bounded dead-letter queue.                           *)
(*                                                                         *)
(* A coroutine gives up the loop only where it really suspends: inside the *)
(* wait_for around a task's executor or around its compensation.  The lock *)
(* of the queue guards sections without an await and the semaphore of the  *)
(* forward phase is never contended (tasks are started one after another), *)
(* so neither suspends.  Each action below is the code from one suspension *)
(* to the next.                                                            *)
(*                                                                         *)
(* The order a DAG is executed in is the constant Order; TopologicalSort   *)
(* models the computation that yields it and checks what is assumed here.  *)
(***************************************************************************)
EXTENDS Integers, Sequences, FiniteSets

CONSTANTS
    Executions,          \* calls of WorkflowEngine.execute, by execution_id
    Tasks,               \* dag.tasks
    Dependencies,        \* get_dependencies, a function of the task
    Compensable,         \* tasks with a compensation_executor
    Order,               \* dag.topological_sort()
    NoTask,              \* None, the initial failed_task
    MaxSize,             \* DeadLetterQueue.max_size
    CheckpointIntervals  \* what engines are given as checkpoint_interval

N == Len(Order)

ASSUME OrderAssumption ==
    /\ Order \in Seq(Tasks)
    /\ \A t \in Tasks : \E i \in 1..N : Order[i] = t
    /\ \A i, j \in 1..N : Order[i] = Order[j] => i = j
    /\ N > 0

ASSUME DependencyAssumption ==
    /\ Dependencies \in [Tasks -> SUBSET Tasks]
    /\ \A i, j \in 1..N : Order[i] \in Dependencies[Order[j]] => i < j

ASSUME ConstantAssumption ==
    /\ Compensable \subseteq Tasks
    /\ NoTask \notin Tasks
    /\ MaxSize \in Nat
    /\ CheckpointIntervals \subseteq Nat

VARIABLES
    pc,           \* where the coroutine of an execution stands
    at,           \* position in Order of the task it is busy with
    phase,        \* execution.phase
    state,        \* execution.state
    results,      \* tasks with an entry in execution.results
    failedTask,   \* execution.failed_task
    checkpoints,  \* execution.checkpoints
    dlq,          \* dead_letter_queue._events
    checkpoint_interval,
    letters       \* history: every event the queue has ever held

vars == <<pc, at, phase, state, results, failedTask, checkpoints, dlq, checkpoint_interval,
          letters>>

-----------------------------------------------------------------------------

WorkflowTaskState ==
    {"pending", "running", "succeeded", "failed", "compensating", "compensated"}

SagaPhase == {"forward", "compensation", "complete"}

\* A dead-letter event; execution, task and kind identify it as its uuid does.
DeadLetterEvent ==
    [exec : Executions, task : Tasks, kind : {"forward", "compensation"}]

Event(e, t, k) == [exec |-> e, task |-> t, kind |-> k]

ExecutionCheckpoint == [completed : SUBSET Tasks, results : SUBSET Tasks]

\* execute() has returned, re-raised the task's error, raised a
\* DeadLetterQueueFullError instead of it, or was cancelled by its caller.
Ended == {"returned", "raised", "aborted", "cancelled"}

Full(q) == Cardinality(q) >= MaxSize

\* Mutant: the failure is swallowed.
EnqueueNothing(q, evs) == q

\* enqueue(), once it has found room.
Enqueue(q, evs) == q \union evs

Init ==
    /\ pc = [e \in Executions |-> "idle"]
    /\ at = [e \in Executions |-> 1]
    /\ phase = [e \in Executions |-> "forward"]
    /\ state = [e \in Executions |-> [t \in Tasks |-> "pending"]]
    /\ results = [e \in Executions |-> {}]
    /\ failedTask = [e \in Executions |-> NoTask]
    /\ checkpoints = [e \in Executions |-> <<>>]
    /\ dlq = {}
    /\ checkpoint_interval \in CheckpointIntervals
    /\ letters = {}

-----------------------------------------------------------------------------
(* Forward phase.                                                          *)

\* execute() registers the execution and runs up to the first executor call.
Execute(e) ==
    /\ pc[e] = "idle"
    /\ pc' = [pc EXCEPT ![e] = "executing"]
    /\ state' = [state EXCEPT ![e][Order[1]] = "running"]
    /\ UNCHANGED <<at, phase, results, failedTask, checkpoints, dlq, letters, checkpoint_interval>>

\* Mutant: the checkpoint is taken before the task's outcome is stored.
TakeCheckpointEarly(e, i, st, rs) ==
    checkpoints' =
        IF i % checkpoint_interval = 0
        THEN [checkpoints EXCEPT ![e] =
                Append(@, [completed |-> {t \in Tasks : state[e][t] = "succeeded"},
                           results |-> results[e]])]
        ELSE checkpoints

\* The loop's checkpoint after the task at position i, with the states st and
\* the results rs of the execution at that moment.
TakeCheckpoint(e, i, st, rs) ==
    checkpoints' =
        IF i % checkpoint_interval = 0
        THEN [checkpoints EXCEPT ![e] =
                Append(@, [completed |-> {t \in Tasks : st[t] = "succeeded"},
                           results |-> rs])]
        ELSE checkpoints

\* The executor answers in time: store the result, take the checkpoint if it
\* is due, and start the next task or return.
TaskSucceeds(e) ==
    LET i == at[e]
        st == [state[e] EXCEPT ![Order[i]] = "succeeded"]
        rs == results[e] \union {Order[i]}
    IN  /\ pc[e] = "executing"
        /\ checkpoint_interval > 0
        /\ results' = [results EXCEPT ![e] = rs]
        /\ TakeCheckpoint(e, i, st, rs)
        /\ \/ /\ i < N
              /\ at' = [at EXCEPT ![e] = i + 1]
              /\ state' = [state EXCEPT ![e] = [st EXCEPT ![Order[i + 1]] = "running"]]
              /\ UNCHANGED pc
           \/ /\ i = N
              /\ state' = [state EXCEPT ![e] = st]
              /\ pc' = [pc EXCEPT ![e] = "returned"]
              /\ UNCHANGED at
        /\ UNCHANGED <<phase, failedTask, dlq, letters, checkpoint_interval>>

-----------------------------------------------------------------------------
(* Compensation phase.                                                     *)

\* Mutant: the range stops short of the first task.
ToCompensateButFirst(i, st) ==
    {j \in 2..(i - 1) : st[Order[j]] = "succeeded" /\ Order[j] \in Compensable}

\* Positions below i that the reversed loop still has to compensate; a task
\* without a compensation executor is skipped and stays "succeeded".
ToCompensate(i, st) ==
    {j \in 1..(i - 1) : st[Order[j]] = "succeeded" /\ Order[j] \in Compensable}

\* Mutant: compensations run in forward order.
NextToCompensateForwards(i, st) ==
    {j \in ToCompensate(i, st) : \A k \in ToCompensate(i, st) : j <= k}

\* The latest of them comes next.
NextToCompensate(i, st) ==
    {j \in ToCompensate(i, st) : \A k \in ToCompensate(i, st) : k <= j}

\* _execute_compensation_phase from position i down to its next suspension or
\* its end: the loop has reached the states st and the queue q, and f is the
\* execution's failed_task.
CompensateBelow(e, i, st, q, f) ==
    /\ \/ \E j \in NextToCompensate(i, st) :
            /\ at' = [at EXCEPT ![e] = j]
            /\ state' = [state EXCEPT ![e] = [st EXCEPT ![Order[j]] = "compensating"]]
            /\ pc' = [pc EXCEPT ![e] = "compensating"]
            /\ phase' = [phase EXCEPT ![e] = "compensation"]
            /\ dlq' = q
       \/ /\ ToCompensate(i, st) = {}
          /\ f = NoTask \/ ~Full(q)
          /\ state' = [state EXCEPT ![e] = st]
          /\ pc' = [pc EXCEPT ![e] = "raised"]
          /\ phase' = [phase EXCEPT ![e] = "complete"]
          /\ dlq' = Enqueue(q, {Event(e, t, "forward") : t \in {f} \ {NoTask}})
          /\ UNCHANGED at
       \/ /\ ToCompensate(i, st) = {}
          /\ f # NoTask /\ Full(q)
          /\ state' = [state EXCEPT ![e] = st]
          /\ pc' = [pc EXCEPT ![e] = "aborted"]
          /\ phase' = [phase EXCEPT ![e] = "compensation"]
          /\ dlq' = q
          /\ UNCHANGED at
    /\ letters' = letters \union dlq'

\* The executor raises, or wait_for gives up after timeout_ms.
TaskFails(e) ==
    LET t == Order[at[e]]
    IN  /\ pc[e] = "executing"
        /\ failedTask' = [failedTask EXCEPT ![e] = t]
        /\ CompensateBelow(e, at[e], [state[e] EXCEPT ![t] = "failed"], dlq, t)
        /\ UNCHANGED <<results, checkpoints, checkpoint_interval>>

\* With checkpoint_interval 0 the modulo after the first task raises
\* ZeroDivisionError: the saga is rolled back although no task failed.
CheckpointRaises(e) ==
    LET t == Order[at[e]]
    IN  /\ pc[e] = "executing"
        /\ checkpoint_interval = 0
        /\ results' = [results EXCEPT ![e] = @ \union {t}]
        /\ CompensateBelow(e, at[e] + 1, [state[e] EXCEPT ![t] = "succeeded"],
                           dlq, failedTask[e])
        /\ UNCHANGED <<failedTask, checkpoints, checkpoint_interval>>

CompensationSucceeds(e) ==
    /\ pc[e] = "compensating"
    /\ CompensateBelow(e, at[e], [state[e] EXCEPT ![Order[at[e]]] = "compensated"],
                       dlq, failedTask[e])
    /\ UNCHANGED <<results, failedTask, checkpoints, checkpoint_interval>>

\* Mutant: a failed compensation is recorded and tried again.
CompensationRetries(e) ==
    /\ pc[e] = "compensating"
    /\ ~Full(dlq)
    /\ dlq' = Enqueue(dlq, {Event(e, Order[at[e]], "compensation")})
    /\ letters' = letters \union dlq'
    /\ UNCHANGED <<pc, at, phase, state, results, failedTask, checkpoints, checkpoint_interval>>

\* The compensation raises or exceeds its 10 seconds.  If the queue refuses
\* the event, its DeadLetterQueueFullError leaves the loop and execute().
CompensationFails(e) ==
    LET t == Order[at[e]]
        st == [state[e] EXCEPT ![t] = "failed"]
    IN  /\ pc[e] = "compensating"
        /\ \/ /\ ~Full(dlq)
              /\ CompensateBelow(e, at[e], st,
                                 Enqueue(dlq, {Event(e, t, "compensation")}), failedTask[e])
           \/ /\ Full(dlq)
              /\ state' = [state EXCEPT ![e] = st]
              /\ pc' = [pc EXCEPT ![e] = "aborted"]
              /\ UNCHANGED <<at, phase, dlq, letters>>
        /\ UNCHANGED <<results, failedTask, checkpoints, checkpoint_interval>>

\* The caller cancels the coroutine.  CancelledError is not an Exception: no
\* handler of the engine runs and everything stays as it was.
Cancel(e) ==
    /\ pc[e] \in {"executing", "compensating"}
    /\ pc' = [pc EXCEPT ![e] = "cancelled"]
    /\ UNCHANGED <<at, phase, state, results, failedTask, checkpoints, dlq, letters,
                   checkpoint_interval>>

-----------------------------------------------------------------------------
(* The dead-letter queue's consumers.                                      *)

Dequeue(ev) ==
    /\ ev \in dlq
    /\ dlq' = dlq \ {ev}
    /\ UNCHANGED <<pc, at, phase, state, results, failedTask, checkpoints, letters,
                   checkpoint_interval>>

\* Which events are older than the TTL is left to time.
ClearExpired ==
    \E expired \in SUBSET dlq :
        /\ dlq' = dlq \ expired
        /\ UNCHANGED <<pc, at, phase, state, results, failedTask, checkpoints, letters,
                       checkpoint_interval>>

-----------------------------------------------------------------------------

\* What an executor, a compensation or one of their timeouts brings about.
Answer(e) ==
    \/ TaskSucceeds(e)
    \/ TaskFails(e)
    \/ CheckpointRaises(e)
    \/ CompensationSucceeds(e)
    \/ CompensationFails(e)

Next ==
    \/ \E e \in Executions : Execute(e) \/ Answer(e) \/ Cancel(e)
    \/ \E ev \in dlq : Dequeue(ev)
    \/ ClearExpired

Spec == Init /\ [][Next]_vars

\* Every await of the engine has a finite timeout, so a started execution
\* always gets an answer; nobody has to call execute(), cancel or dequeue.
FairSpec == Spec /\ \A e \in Executions : WF_vars(Answer(e))

-----------------------------------------------------------------------------
(* Properties.                                                             *)

TypeOK ==
    /\ pc \in [Executions -> {"idle", "executing", "compensating"} \union Ended]
    /\ at \in [Executions -> 1..N]
    /\ phase \in [Executions -> SagaPhase]
    /\ state \in [Executions -> [Tasks -> WorkflowTaskState]]
    /\ results \in [Executions -> SUBSET Tasks]
    /\ failedTask \in [Executions -> Tasks \union {NoTask}]
    /\ checkpoints \in [Executions -> Seq(ExecutionCheckpoint)]
    /\ dlq \in SUBSET DeadLetterEvent
    /\ checkpoint_interval \in CheckpointIntervals
    /\ letters \in SUBSET DeadLetterEvent

InFlight(e) == {t \in Tasks : state[e][t] \in {"running", "compensating"}}

\* A live execution has exactly one task in flight whatever its DAG allows,
\* and a cancelled one leaves exactly that task in flight for ever; every
\* other end leaves none behind (get_execution shows no dangling task).
OneTaskInFlight ==
    \A e \in Executions :
        IF pc[e] \in {"executing", "compensating", "cancelled"}
        THEN InFlight(e) = {Order[at[e]]}
        ELSE InFlight(e) = {}

\* A task is started only after all its dependencies succeeded, and the
\* effects of a dependency are undone only when no compensable dependent of
\* it still has its effect in place: forward order and reverse order agree.
DependencyOrder ==
    \A e \in Executions : \A t \in Tasks : \A d \in Dependencies[t] :
        /\ state[e][t] # "pending" => d \in results[e]
        /\ state[e][d] \in {"compensating", "compensated"} =>
               \/ state[e][t] \in {"pending", "failed", "compensated"}
               \/ state[e][t] = "succeeded" /\ t \notin Compensable

\* An execution whose phase is COMPLETE has no compensable task left that
\* succeeded: each was compensated or its failed compensation was recorded
\* in the dead-letter queue, as was the task that failed.
CompleteIsUndone ==
    \A e \in Executions : phase[e] = "complete" =>
        /\ \A t \in Compensable : t \in results[e] =>
               \/ state[e][t] = "compensated"
               \/ state[e][t] = "failed" /\ Event(e, t, "compensation") \in letters
        /\ failedTask[e] # NoTask => Event(e, failedTask[e], "forward") \in letters

\* Whatever end the execution came to, a failed task is never lost without a
\* trace: a task in state FAILED has a dead letter unless the queue was full
\* when it came, the saga is still busy, or it was cancelled on the way.
FailedTasksRecorded ==
    \A e \in Executions : \A t \in Tasks :
        state[e][t] = "failed" =>
            \/ \E k \in {"forward", "compensation"} : Event(e, t, k) \in letters
            \/ t = failedTask[e] /\ pc[e] \in {"compensating", "cancelled", "aborted"}
            \/ t = Order[at[e]] /\ pc[e] = "aborted"

\* The bounded queue holds at most max_size events although the executions
\* that fill it never wait for room.
QueueBounded == Cardinality(dlq) <= MaxSize

\* The checkpoints of an execution are the prefixes of its order at the
\* multiples of checkpoint_interval, each with the results of exactly its
\* completed tasks, and none that is due is missing.
CheckpointsArePrefixes ==
    \A e \in Executions :
        /\ \A c \in 1..Len(checkpoints[e]) :
              LET done == {Order[i] : i \in 1..(c * checkpoint_interval)}
              IN  checkpoints[e][c] = [completed |-> done, results |-> done]
        /\ checkpoint_interval # 0 =>
              Cardinality(results[e]) < (Len(checkpoints[e]) + 1) * checkpoint_interval

\* No task is run twice by an execution or compensated twice, none is
\* compensated that did not succeed, and no task starts once the saga has
\* left its forward phase.
TaskLifecycle ==
    [][\A e \in Executions : \A t \in Tasks :
          state'[e][t] # state[e][t] =>
              \/ state[e][t] = "pending" /\ state'[e][t] = "running" /\ phase'[e] = "forward"
              \/ state[e][t] = "running" /\ state'[e][t] \in {"succeeded", "failed"}
              \/ /\ state[e][t] \in {"running", "succeeded"}
                 /\ state'[e][t] = "compensating" /\ t \in results'[e]
              \/ /\ state[e][t] = "compensating"
                 /\ state'[e][t] \in {"compensated", "failed"}]_vars

\* Every started execution comes to an end: no failure, timeout or full queue
\* leaves the caller of execute() waiting for ever.
EveryExecutionEnds ==
    \A e \in Executions : pc[e] # "idle" ~> pc[e] \in Ended

\* "Partial failure handling: saga pattern prevents partial success" (module
\* docstring): an execution that ended with an error has no compensable task
\* whose effect is still in place with nothing recorded about it.
NoPartialSuccess ==
    \A e \in Executions : pc[e] \in {"raised", "aborted"} =>
        \A t \in Compensable : state[e][t] # "succeeded"

-----------------------------------------------------------------------------
(* Refinement: an effect is in place from the moment its task succeeds     *)
(* until its compensation has answered without an error.                   *)

ModeOf(e) ==
    CASE pc[e] \in {"idle", "executing"} -> "forward"
      [] pc[e] = "compensating" -> "undoing"
      [] pc[e] = "returned" -> "committed"
      [] pc[e] = "raised" -> "rolledBack"
      [] pc[e] \in {"aborted", "cancelled"} -> "abandoned"

StuckOf(e) ==
    {t \in results[e] : state[e][t] = "failed"}

EffectsOf(e) ==
    {t \in results[e] : state[e][t] # "compensated"}

Abstract ==
    INSTANCE Saga WITH
        mode <- [e \in Executions |-> ModeOf(e)],
        effects <- [e \in Executions |-> EffectsOf(e)],
        stuck <- [e \in Executions |-> StuckOf(e)]

\* The engine implements the abstract saga.
ImplementsSaga == Abstract!SagaSpec
=============================================================================

------------------------------ MODULE MainLane ------------------------------
(***************************************************************************)
(* MainLane of holly/engine/lanes.py, for one tenant: user tasks enter     *)
(* with a priority and an idempotency key and are dispatched to consumers. *)
(* LaneManager keeps one such lane per tenant and only routes to it.       *)
(***************************************************************************)
EXTENDS LaneQueues

CONSTANTS
    KeyOf,       \* idempotency_key of a task
    NoTask,      \* no cache entry
    Requested    \* the priorities that requests ask for

Keys == {KeyOf[t] : t \in Items}

ASSUME MainAssumption ==
    /\ Requested \subseteq Int
    /\ NoTask \notin Items

VARIABLES
    idempotency_cache,  \* key -> task that was accepted for it
    expired,            \* tasks whose deadline has passed
    finished,           \* history: tasks their consumer is done with
    overtaken           \* history: for a task queued above the default priority,
                        \* the consumers that took one of the default meanwhile

vars == <<pq, getters, woken, holding, idempotency_cache, expired, finished, overtaken>>

Init ==
    /\ QueueInit
    /\ idempotency_cache = [k \in Keys |-> NoTask]
    /\ expired = {}
    /\ finished = {}
    /\ overtaken = [t \in Items |-> {}]

\* A deadline passes.
Expire(t) ==
    /\ t \notin expired
    /\ expired' = expired \union {t}
    /\ UNCHANGED <<pq, getters, woken, holding, idempotency_cache, finished, overtaken>>

\* Mutant: the cache is not consulted.
KnownNever(t) == FALSE

\* The key was accepted before: its task_id is returned and nothing changes.
Known(t) == idempotency_cache[KeyOf[t]] # NoTask

\* enqueue_task; a request that is refused, by its deadline or by a full
\* queue, or answered from the cache, changes nothing and is not a step.
EnqueueTask(t, priority) ==
    /\ t \notin expired
    /\ ~Known(t)
    /\ ~LaneFull(Clamp(priority))
    /\ Put(t, Clamp(priority))
    /\ idempotency_cache' = [idempotency_cache EXCEPT ![KeyOf[t]] = t]
    /\ UNCHANGED <<expired, finished, overtaken>>

QueuedAbove(t) == \E p \in Priorities : p > DefaultPriority /\ t \in ToSet(pq[p])

TakesDefault(c) == pq[DefaultPriority] # <<>> /\ holding'[c] = Head(pq[DefaultPriority])

DequeueNextTask(c) ==
    /\ Dequeue(c) \/ Resume(c)
    /\ overtaken' = [t \in Items |->
          IF QueuedAbove(t) /\ TakesDefault(c) THEN overtaken[t] \union {c} ELSE overtaken[t]]
    /\ UNCHANGED <<idempotency_cache, expired, finished>>

TimeOut(c) == GiveUp(c) /\ UNCHANGED <<idempotency_cache, expired, finished, overtaken>>

\* The consumer has executed its task and is free again.
Complete(c) ==
    /\ holding[c] # NoItem
    /\ finished' = finished \union {holding[c]}
    /\ holding' = [holding EXCEPT ![c] = NoItem]
    /\ UNCHANGED <<pq, getters, woken, idempotency_cache, expired, overtaken>>

Next ==
    \/ \E t \in Items : Expire(t) \/ \E p \in Requested : EnqueueTask(t, p)
    \/ \E c \in Consumers : DequeueNextTask(c) \/ TimeOut(c) \/ Complete(c)

Spec == Init /\ [][Next]_vars

\* The event loop runs every ready coroutine, and a consumer is a loop that
\* takes a task, finishes it and asks for the next.
FairSpec ==
    Spec /\ \A c \in Consumers : WF_vars(DequeueNextTask(c)) /\ WF_vars(Complete(c))

-----------------------------------------------------------------------------

TypeOK ==
    /\ QueueTypeOK
    /\ idempotency_cache \in [Keys -> Items \union {NoTask}]
    /\ expired \in SUBSET Items
    /\ finished \in SUBSET Items
    /\ overtaken \in [Items -> SUBSET Consumers]

Accepted == {idempotency_cache[k] : k \in Keys} \ {NoTask}

Held(t) == \E c \in Consumers : holding[c] = t

\* No task has two places in the queues, and no two consumers hold one task.
OnePlaceEach ==
    /\ \A p, q \in Priorities : \A i \in 1..Len(pq[p]), j \in 1..Len(pq[q]) :
          pq[p][i] = pq[q][j] => p = q /\ i = j
    /\ \A c, d \in Consumers : holding[c] = holding[d] /\ holding[c] # NoItem => c = d

\* An accepted task is in exactly one place, a queue, a consumer's hands or
\* among the finished ones, and a task that was not accepted is in none:
\* nothing is lost, duplicated or executed twice, and of the tasks that share
\* an idempotency key one at most is ever dispatched.
ExactlyOncePerKey ==
    /\ OnePlaceEach
    /\ \A t \in Items :
          /\ t \in Accepted <=> Queued(t) \/ Held(t) \/ t \in finished
          /\ ~(Queued(t) /\ Held(t)) /\ (t \in finished => ~Queued(t) /\ ~Held(t))
    /\ \A t, u \in Accepted : KeyOf[t] = KeyOf[u] => t = u

\* A consumer that was woken for a task of the default priority takes it even
\* if a task of a higher one has come meanwhile, but it does so once: having
\* finished, it looks at the higher queues first, so a task queued there is
\* overtaken at most once by each consumer.
OvertakenOnce ==
    [][\A c \in Consumers, t \in Items :
          QueuedAbove(t) /\ holding'[c] # holding[c] /\ TakesDefault(c) => c \notin overtaken[t]]_vars

\* Every task that reaches the default queue is executed in the end.
DefaultPriorityServed ==
    \A t \in Items :
        (\E i \in 1..Len(pq[DefaultPriority]) : pq[DefaultPriority][i] = t) ~> t \in finished

\* "dispatched to the task execution engine in priority order" (MainLane):
\* an enqueued task is executed in the end.
EveryTaskServed == \A t \in Items : Queued(t) ~> t \in finished
=============================================================================

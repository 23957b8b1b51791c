----------------------------- MODULE LaneQueues -----------------------------
(***************************************************************************)
(* The priority queues that MainLane and SubagentLane share in form        *)
(* (holly/engine/lanes.py): eleven asyncio.Queues, one per priority, and   *)
(* the consumers that take from them.                                      *)
(*                                                                         *)
(* A consumer that finds every queue empty awaits the queue of priority 5. *)
(* put() wakes the first of the waiting consumers but leaves the item in   *)
(* the queue; another consumer may take it before the woken one runs.      *)
(***************************************************************************)
EXTENDS Integers, FiniteSets, SequencesExt

CONSTANTS
    Items,          \* tasks of a lane
    NoItem,         \* what an idle consumer holds
    Consumers,      \* coroutines that call dequeue_next_*
    MaxQueueDepth   \* policy.max_queue_depth

ASSUME QueueAssumption == NoItem \notin Items /\ MaxQueueDepth \in Nat

Priorities == 0..10

\* The queue an idle consumer waits for.
DefaultPriority == 5

VARIABLES
    pq,       \* priority_queue: priority -> items, oldest first
    getters,  \* consumers that wait in pq[5], first come first
    woken,    \* consumers that put() has woken and that have not run yet
    holding   \* what each consumer works on

queueVars == <<pq, getters, woken, holding>>

QueueInit ==
    /\ pq = [p \in Priorities |-> <<>>]
    /\ getters = <<>>
    /\ woken = {}
    /\ holding = [c \in Consumers |-> NoItem]

\* min(10, max(0, p))
Clamp(p) == IF p > 10 THEN 10 ELSE IF p < 0 THEN 0 ELSE p

LaneFull(p) == Len(pq[p]) >= MaxQueueDepth

\* Mutant: nobody is woken.
WakeNobody(gs, ws) == getters' = gs /\ woken' = ws

\* asyncio.Queue._wakeup_next, with gs waiting and ws already woken.
WakeNext(gs, ws) ==
    IF gs = <<>>
    THEN getters' = gs /\ woken' = ws
    ELSE getters' = Tail(gs) /\ woken' = ws \union {Head(gs)}

Put(x, p) ==
    /\ pq' = [pq EXCEPT ![p] = Append(@, x)]
    /\ IF p = DefaultPriority
       THEN WakeNext(getters, woken)
       ELSE UNCHANGED <<getters, woken>>
    /\ UNCHANGED holding

\* get_nowait() of a queue that is not empty.
Take(c, p) ==
    /\ pq[p] # <<>>
    /\ holding' = [holding EXCEPT ![c] = Head(pq[p])]
    /\ pq' = [pq EXCEPT ![p] = Tail(@)]

Waiting(c) == c \in woken \/ \E i \in 1..Len(getters) : getters[i] = c

\* Mutant: range(0, 11).
NextPriorityLowest(p) ==
    pq[p] # <<>> /\ \A h \in Priorities : h < p => pq[h] = <<>>

\* The first queue that range(10, -1, -1) finds not empty.
NextPriority(p) ==
    pq[p] # <<>> /\ \A h \in Priorities : h > p => pq[h] = <<>>

\* dequeue_next_*: take from the highest non-empty queue, or wait.
Dequeue(c) ==
    /\ holding[c] = NoItem
    /\ ~Waiting(c)
    /\ \/ \E p \in Priorities :
             NextPriority(p) /\ Take(c, p) /\ UNCHANGED <<getters, woken>>
       \/ /\ \A p \in Priorities : pq[p] = <<>>
          /\ getters' = Append(getters, c)
          /\ UNCHANGED <<pq, woken, holding>>

\* A woken consumer runs: it takes its item, or waits again if that is gone.
Resume(c) ==
    /\ c \in woken
    /\ woken' = woken \ {c}
    /\ \/ Take(c, DefaultPriority) /\ UNCHANGED getters
       \/ /\ pq[DefaultPriority] = <<>>
          /\ getters' = Append(getters, c)
          /\ UNCHANGED <<pq, holding>>

\* The consumer's own wait_for times out; a woken consumer hands its wakeup on.
GiveUp(c) ==
    /\ \/ \E i \in 1..Len(getters) :
             /\ getters[i] = c
             /\ getters' = RemoveAt(getters, i)
             /\ UNCHANGED woken
       \/ /\ c \in woken
          /\ IF pq[DefaultPriority] # <<>>
             THEN WakeNext(getters, woken \ {c})
             ELSE getters' = getters /\ woken' = woken \ {c}
    /\ UNCHANGED <<pq, holding>>

Queued(x) == \E p \in Priorities : \E i \in 1..Len(pq[p]) : pq[p][i] = x

QueueTypeOK ==
    /\ pq \in [Priorities -> Seq(Items)]
    /\ getters \in Seq(Consumers)
    /\ woken \in SUBSET Consumers
    /\ holding \in [Consumers -> Items \union {NoItem}]

\* Whenever an item of the default priority is queued while consumers wait,
\* one of them has been woken: no interleaving of puts, thefts and timeouts
\* loses a wakeup.
NoLostWakeup == pq[DefaultPriority] # <<>> /\ getters # <<>> => woken # {}
=============================================================================

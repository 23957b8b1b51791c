---------------------------- MODULE SubagentLane ----------------------------
(***************************************************************************)
(* SubagentLane of holly/engine/lanes.py, for one tenant: subagents are    *)
(* spawned into the priority queues, counted, and marked complete by their *)
(* callers.                                                                *)
(***************************************************************************)
EXTENDS LaneQueues

CONSTANTS
    Requested,        \* the priorities that requests ask for
    MaxSpawns         \* bound: spawn calls in a behaviour

VARIABLES
    active_executions,
    concurrent_count,
    expired,            \* subagents whose deadline has passed
    spawns,             \* history: the ids of the spawn calls accepted
    careless            \* history: an execution was spawned again or was
                        \* marked complete by another than its consumer

vars == <<pq, getters, woken, holding, active_executions, concurrent_count, expired,
          spawns, careless>>

Init ==
    /\ QueueInit
    /\ active_executions = {}
    /\ concurrent_count = 0
    /\ expired = {}
    /\ spawns = <<>>
    /\ careless = FALSE

Expire(x) ==
    /\ x \notin expired
    /\ expired' = expired \union {x}
    /\ UNCHANGED <<pq, getters, woken, holding, active_executions, concurrent_count, spawns, careless>>

\* Mutant: the execution is put on record by its consumer only.
SpawnUnrecorded(x, priority) ==
    /\ Len(spawns) < MaxSpawns
    /\ x \notin expired
    /\ ~LaneFull(Clamp(priority))
    /\ Put(x, Clamp(priority))
    /\ concurrent_count' = concurrent_count + 1
    /\ spawns' = Append(spawns, x)
    /\ careless' = (careless \/ \E i \in 1..Len(spawns) : spawns[i] = x)
    /\ UNCHANGED <<active_executions, expired>>

\* spawn_subagent; a refused request changes nothing.
SpawnSubagent(x, priority) ==
    /\ Len(spawns) < MaxSpawns
    /\ x \notin expired
    /\ ~LaneFull(Clamp(priority))
    /\ Put(x, Clamp(priority))
    /\ active_executions' = active_executions \union {x}
    /\ concurrent_count' = concurrent_count + 1
    /\ spawns' = Append(spawns, x)
    /\ careless' = (careless \/ \E i \in 1..Len(spawns) : spawns[i] = x)
    /\ UNCHANGED expired

DequeueNextSubagent(c) ==
    /\ Dequeue(c) \/ Resume(c)
    /\ UNCHANGED <<active_executions, concurrent_count, expired, spawns, careless>>

TimeOut(c) ==
    /\ GiveUp(c)
    /\ UNCHANGED <<active_executions, concurrent_count, expired, spawns, careless>>

\* Mutants: a completion is not counted; the count goes below zero.
DecrementNever(n) == n

DecrementBelowZero(n) == n - 1

\* max(0, n - 1)
Decrement(n) == IF n > 0 THEN n - 1 ELSE 0

\* mark_complete(x): the count goes down whether or not x is on record.
MarkComplete(x) ==
    /\ active_executions' = active_executions \ {x}
    /\ concurrent_count' = Decrement(concurrent_count)

\* The consumer that holds a subagent has run it.
Finish(c) ==
    /\ holding[c] # NoItem
    /\ MarkComplete(holding[c])
    /\ holding' = [holding EXCEPT ![c] = NoItem]
    /\ UNCHANGED <<pq, getters, woken, expired, spawns, careless>>

\* Somebody marks an execution complete again, or one that does not exist.
StrayComplete(x) ==
    /\ MarkComplete(x)
    /\ careless' = TRUE
    /\ UNCHANGED <<pq, getters, woken, holding, expired, spawns>>

Next ==
    \/ \E x \in Items :
          \/ Expire(x)
          \/ \E p \in Requested : SpawnSubagent(x, p)
          \/ StrayComplete(x)
    \/ \E c \in Consumers : DequeueNextSubagent(c) \/ TimeOut(c) \/ Finish(c)

Spec == Init /\ [][Next]_vars

-----------------------------------------------------------------------------

TypeOK ==
    /\ QueueTypeOK
    /\ active_executions \in SUBSET Items
    /\ concurrent_count \in 0..MaxSpawns
    /\ expired \in SUBSET Items
    /\ spawns \in Seq(Items)
    /\ careless \in BOOLEAN

\* "Current number of concurrent subagent tasks" (SubagentLane): as long as
\* every execution is spawned once and completed by its consumer, the counter
\* that the statistics report agrees with the executions on record.
CountIsActive == ~careless => concurrent_count = Cardinality(active_executions)

\* With such callers a subagent is on record from its spawn until it is marked
\* complete: what is queued or in a consumer's hands is never missing from it.
PendingIsActive ==
    ~careless =>
        \A x \in Items : Queued(x) \/ (\E c \in Consumers : holding[c] = x) =>
            x \in active_executions
=============================================================================

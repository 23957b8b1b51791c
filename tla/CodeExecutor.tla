----------------------------- MODULE CodeExecutor -----------------------------
(***************************************************************************)
(* CodeExecutor and its gRPC stub of holly/sandbox/executor.py.  Requests  *)
(* run as tasks of one event loop, and the sleep that stands for the       *)
(* container is the only place where one is suspended: an action is the    *)
(* code between two suspensions.                                           *)
(***************************************************************************)
EXTENDS Naturals, FiniteSets

CONSTANTS
    Calls,              \* calls of Execute
    Faulty,             \* those whose request execute() rejects
    Watchers,           \* callbacks that may subscribe
    MaxConcurrent

VARIABLES
    phase,              \* per call: "new", "asleep", "ended", "raised"
    answered,           \* per call, the error_kind of its ExecutionResult
    running,            \* _concurrent_count
    shown,              \* _state, shared by all calls
    watchers,           \* _callbacks of the stub
    notified            \* per callback, the calls whose result it has got

executorVars == <<phase, answered, running, shown, watchers, notified>>

ExecutorInit ==
    /\ phase = [c \in Calls |-> "new"]
    /\ answered = [c \in Calls |-> "nothing"]
    /\ running = 0 /\ shown = "IDLE"
    /\ watchers = {} /\ notified = [w \in Watchers |-> {}]

-----------------------------------------------------------------------------

\* ExecutionRequest.validate: the fields out of their limits, each refused
\* with one of the error kinds.
Invalid(c) == c \in Faulty

\* The stub hands the result to the callbacks in turn; if one raises, the rest
\* and the caller go without.
Deliver(c, kind) ==
    /\ answered' = [answered EXCEPT ![c] = kind]
    /\ \E told \in SUBSET watchers :
          /\ notified' = [w \in Watchers |-> notified[w] \union {x \in {c} : w \in told}]
          /\ phase' = [phase EXCEPT ![c] = IF told = watchers THEN "ended" ELSE "raised"]
    /\ UNCHANGED watchers

\* Mutant: an error path that leaves without the finally clause.
ReleaseStateOnly == UNCHANGED running /\ shown' = "IDLE"

\* The finally clause of execute.
Release ==
    /\ running' = IF running = 0 THEN 0 ELSE running - 1
    /\ shown' = "IDLE"

\* Execute up to the sleep: refused at capacity, rejected by the validation
\* (FAULTED is overwritten with IDLE at once), or started.
Execute(c) ==
    /\ phase[c] = "new"
    /\ \/ /\ running >= MaxConcurrent
          /\ Deliver(c, "SPAWN_ERROR")
          /\ UNCHANGED <<running, shown>>
       \/ /\ running < MaxConcurrent /\ Invalid(c)
          /\ Deliver(c, "INVALID")
          /\ UNCHANGED running /\ shown' = "IDLE"
       \/ /\ running < MaxConcurrent /\ ~Invalid(c)
          /\ phase' = [phase EXCEPT ![c] = "asleep"]
          /\ running' = running + 1 /\ shown' = "EXECUTING"
          /\ UNCHANGED <<answered, watchers, notified>>

\* The container has ended.
Collect(c) ==
    /\ phase[c] = "asleep"
    /\ Release
    /\ Deliver(c, "none")

\* CancelledError is no Exception: the finally clause runs and nobody gets a
\* result.
CancelExecute(c) ==
    /\ phase[c] = "asleep"
    /\ Release
    /\ phase' = [phase EXCEPT ![c] = "raised"]
    /\ UNCHANGED <<answered, watchers, notified>>

Subscribe(w) ==
    /\ w \notin watchers
    /\ watchers' = watchers \union {w}
    /\ UNCHANGED <<phase, answered, running, shown, notified>>

ExecutorNext ==
    \/ \E c \in Calls : Execute(c) \/ Collect(c) \/ CancelExecute(c)
    \/ \E w \in Watchers : Subscribe(w)

-----------------------------------------------------------------------------

ExecutorTypeOK ==
    /\ phase \in [Calls -> {"new", "asleep", "ended", "raised"}]
    /\ answered \in [Calls -> {"nothing", "none", "INVALID", "SPAWN_ERROR"}]
    /\ running \in 0 .. MaxConcurrent
    /\ shown \in {"IDLE", "EXECUTING"}
    /\ watchers \subseteq Watchers
    /\ notified \in [Watchers -> SUBSET Calls]

\* The counter that admits requests is the number of containers running,
\* through rejections, cancellations and callbacks that raise, so capacity is
\* neither exceeded nor lost; no callback hears of a call without a result.
CapacityIsExact ==
    /\ running = Cardinality({c \in Calls : phase[c] = "asleep"})
    /\ running <= MaxConcurrent
    /\ \A w \in Watchers : \A c \in notified[w] : answered[c] # "nothing"
=============================================================================

--------------------------- MODULE CircuitBreaker ---------------------------
(***************************************************************************)
(* CircuitBreaker and CacheClient of holly/storage/redis/client.py.  All   *)
(* cache calls of a backend share one breaker.  A call asks the breaker,   *)
(* awaits Redis and records what came back, so answers arrive in any       *)
(* order, also when the breaker has changed its state meanwhile.           *)
(***************************************************************************)
EXTENDS Naturals

CONSTANTS
    Callers,
    Impatient,          \* callers whose calls may be cancelled
    Keys,
    FailureThreshold,
    RecoveryTimeout     \* in ticks of the clock

VARIABLES
    state,      \* _state
    failures,   \* _failures, counted up to FailureThreshold
    openFor,    \* ticks since _opened_at, counted up to RecoveryTimeout
    call,       \* per caller, the operation it awaits or "idle"
    doomed,     \* callers whose call met an outage: it may fail
    up,         \* Redis answers
    cached,     \* keys that Redis holds
    streak      \* history: failures recorded since the last success

breakerVars == <<state, failures, openFor, call, doomed, up, cached, streak>>

Operations == {"get", "set", "delete"}

Ready(c) == call[c] = "idle"

Init ==
    /\ state = "CLOSED" /\ failures = 0 /\ openFor = 0 /\ streak = 0
    /\ call = [c \in Callers |-> "idle"]
    /\ doomed = {}
    /\ up = TRUE
    /\ cached = {}

-----------------------------------------------------------------------------

Counted(n) == IF n < FailureThreshold THEN n + 1 ELSE n

\* Mutant: an open breaker never half-opens.
StateForEver == state

\* The property state: reading it turns OPEN into HALF_OPEN.
State == IF state = "OPEN" /\ openFor = RecoveryTimeout THEN "HALF_OPEN" ELSE state

\* get, set and delete up to their await; an open breaker sends nothing.
Begin(c, op) ==
    /\ Ready(c)
    /\ State # "OPEN"
    /\ state' = State
    /\ call' = [call EXCEPT ![c] = op]
    /\ doomed' = IF up THEN doomed ELSE doomed \union {c}
    /\ UNCHANGED <<failures, openFor, up, cached, streak>>

End(c) ==
    /\ call' = [call EXCEPT ![c] = "idle"]
    /\ doomed' = doomed \ {c}

\* What the operation leaves in Redis.
Applied(c) ==
    CASE call[c] = "get" -> {cached}
      [] call[c] = "set" -> {cached \union {k} : k \in Keys}
      [] call[c] = "delete" -> {cached \ {k} : k \in Keys}

\* Mutant: a success closes the breaker and keeps the count.
record_success_keeping ==
    /\ state' = "CLOSED" /\ openFor' = 0
    /\ UNCHANGED failures

record_success ==
    /\ state' = "CLOSED" /\ openFor' = 0
    /\ failures' = 0

Succeed(c) ==
    /\ ~Ready(c) /\ up
    /\ cached' \in Applied(c)
    /\ record_success /\ streak' = 0
    /\ End(c)
    /\ UNCHANGED up

\* A probe that fails opens again without being counted; a late failure of an
\* earlier call stamps an open breaker anew.
record_failure ==
    IF state = "HALF_OPEN"
    THEN state' = "OPEN" /\ openFor' = 0 /\ UNCHANGED failures
    ELSE /\ failures' = Counted(failures)
         /\ IF failures' = FailureThreshold
            THEN state' = "OPEN" /\ openFor' = 0
            ELSE UNCHANGED <<state, openFor>>

\* The command may have been applied all the same.
Fail(c) ==
    /\ ~Ready(c) /\ c \in doomed
    /\ cached' \in Applied(c) \union {cached}
    /\ record_failure /\ streak' = Counted(streak)
    /\ End(c)
    /\ UNCHANGED up

\* CancelledError is no Exception: nothing is recorded.
Cancel(c) ==
    /\ ~Ready(c) /\ c \in Impatient
    /\ cached' \in Applied(c) \union {cached}
    /\ End(c)
    /\ UNCHANGED <<state, failures, openFor, up, streak>>

reset ==
    /\ state' = "CLOSED" /\ failures' = 0 /\ openFor' = 0 /\ streak' = 0
    /\ UNCHANGED <<call, doomed, up, cached>>

Tick ==
    /\ state = "OPEN" /\ openFor < RecoveryTimeout
    /\ openFor' = openFor + 1
    /\ UNCHANGED <<state, failures, call, doomed, up, cached, streak>>

\* Entries have a time to live.
Evict(k) ==
    /\ k \in cached
    /\ cached' = cached \ {k}
    /\ UNCHANGED <<state, failures, openFor, call, doomed, up, streak>>

Outage ==
    /\ up /\ up' = FALSE
    /\ doomed' = {c \in Callers : ~Ready(c)}
    /\ UNCHANGED <<state, failures, openFor, call, cached, streak>>

Repair ==
    /\ ~up /\ up' = TRUE
    /\ UNCHANGED <<state, failures, openFor, call, doomed, cached, streak>>

Answer(c) == Succeed(c) \/ Fail(c)

Next ==
    \/ \E c \in Callers :
          \/ \E op \in Operations : Begin(c, op)
          \/ Answer(c) \/ Cancel(c)
    \/ \E k \in Keys : Evict(k)
    \/ reset \/ Tick \/ Outage \/ Repair

Spec == Init /\ [][Next]_breakerVars

-----------------------------------------------------------------------------

TypeOK ==
    /\ state \in {"CLOSED", "OPEN", "HALF_OPEN"}
    /\ failures \in 0..FailureThreshold
    /\ openFor \in 0..RecoveryTimeout
    /\ call \in [Callers -> Operations \union {"idle"}]
    /\ doomed \subseteq Callers
    /\ up \in BOOLEAN
    /\ cached \subseteq Keys
    /\ streak \in 0..FailureThreshold

\* The breaker is closed exactly while fewer than the threshold's failures have
\* been recorded since the last success, whatever the order in which answers of
\* earlier calls and of probes arrive (record_success, record_failure).
OpensForCause == state = "CLOSED" <=> streak < FailureThreshold

\* Once Redis stays up, the breaker ends up closed for good, although late
\* failures may re-open it and prolong its recovery timeout.
BreakerRecovers == <>[]up => <>[](state = "CLOSED")
=============================================================================

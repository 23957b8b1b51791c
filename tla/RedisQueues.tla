----------------------------- MODULE RedisQueues -----------------------------
(***************************************************************************)
(* QueueClient, StreamClient and RevocationCache of                        *)
(* holly/storage/redis/client.py, for one tenant.  Of the circuit breaker  *)
(* they make no use.  A command takes effect in Redis and its caller goes  *)
(* on later; a command whose connection breaks may have taken effect.      *)
(***************************************************************************)
EXTENDS Integers, FiniteSets, SequencesExt

CONSTANTS
    Producers,      \* each enqueues payloads, one call at a time
    Jobs,           \* payloads
    Tokens,         \* jti
    DepthLimit,     \* depth_limit
    StreamMaxlen    \* maxlen

VARIABLES
    step,           \* per producer: idle, checking (llen), pushing (lpush)
    queue,          \* the Redis list, newest first
    cron,           \* members of cron_queue
    stream,         \* number of entries of the stream
    revoked         \* tokens under revoked_token:

queueVars == <<step, queue, cron, stream, revoked>>

Init ==
    /\ step = [p \in Producers |-> "idle"]
    /\ queue = <<>>
    /\ cron = {}
    /\ stream = 0
    /\ revoked = {}

-----------------------------------------------------------------------------

\* enqueue sends LLEN.
Enqueue(p) ==
    /\ step[p] = "idle"
    /\ step' = [step EXCEPT ![p] = "checking"]
    /\ UNCHANGED <<queue, cron, stream, revoked>>

\* Mutant: one more than the limit.
FullOffByOne == Len(queue) > DepthLimit

Full == Len(queue) >= DepthLimit

\* LLEN is answered: QueueFull, or LPUSH is sent.
Checked(p) ==
    /\ step[p] = "checking"
    /\ step' = [step EXCEPT ![p] = IF Full THEN "idle" ELSE "pushing"]
    /\ UNCHANGED <<queue, cron, stream, revoked>>

\* LPUSH takes effect; the producer hears of it or of a broken connection.
Pushed(p, j) ==
    /\ step[p] = "pushing"
    /\ step' = [step EXCEPT ![p] = "idle"]
    /\ queue' = <<j>> \o queue
    /\ UNCHANGED <<cron, stream, revoked>>

\* The connection breaks, or the producer is cancelled, before any effect.
Raised(p) ==
    /\ step[p] # "idle"
    /\ step' = [step EXCEPT ![p] = "idle"]
    /\ UNCHANGED <<queue, cron, stream, revoked>>

\* RPOP removes the oldest; a consumer that never hears of it has lost it.
dequeue ==
    /\ queue # <<>>
    /\ queue' = Front(queue)
    /\ UNCHANGED <<step, cron, stream, revoked>>

\* ZADD: a payload is a member once.  dequeue_ready reads and removes nothing.
enqueue_scheduled(j) ==
    /\ cron' = cron \union {j}
    /\ UNCHANGED <<step, queue, stream, revoked>>

\* XADD with MAXLEN.
append ==
    /\ stream' = IF stream < StreamMaxlen THEN stream + 1 ELSE stream
    /\ UNCHANGED <<step, queue, cron, revoked>>

revoke(t) ==
    /\ revoked' = revoked \union {t}
    /\ UNCHANGED <<step, queue, cron, stream>>

\* The entry of a token expires with its time to live.
Forget(t) ==
    /\ t \in revoked
    /\ revoked' = revoked \ {t}
    /\ UNCHANGED <<step, queue, cron, stream>>

Next ==
    \/ \E p \in Producers :
          \/ Enqueue(p) \/ Checked(p) \/ Raised(p)
          \/ \E j \in Jobs : Pushed(p, j)
    \/ dequeue
    \/ \E j \in Jobs : enqueue_scheduled(j)
    \/ append
    \/ \E t \in Tokens : revoke(t) \/ Forget(t)

Spec == Init /\ [][Next]_queueVars

-----------------------------------------------------------------------------

TypeOK ==
    /\ step \in [Producers -> {"idle", "checking", "pushing"}]
    /\ queue \in Seq(Jobs)
    /\ cron \subseteq Jobs
    /\ stream \in 0..StreamMaxlen
    /\ revoked \subseteq Tokens

Pushing == {p \in Producers : step[p] = "pushing"}

\* LLEN and LPUSH are two commands, so concurrent producers exceed the limit;
\* they do so by at most one payload for each of them but one, however long
\* they wait between the two (QueueClient.enqueue).
DepthOvershoot ==
    Len(queue) + Cardinality(Pushing) <= DepthLimit + Cardinality(Producers) - 1
=============================================================================

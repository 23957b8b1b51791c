---------------------------- MODULE MemoryManager ----------------------------
(***************************************************************************)
(* MemoryManager of holly/kernel/memory.py, for one tenant: records go to  *)
(* Redis, or to PostgreSQL when Redis fails; those that are read often are *)
(* queued and promoted to PostgreSQL in batches.  retrieve may run a       *)
(* batch, a batch runs promote_tier, and promote_tier calls retrieve: the  *)
(* coroutines that wait for each other are kept in a tree.  The clients    *)
(* are those the class is written for, and not the repository's: its       *)
(* CacheClient.get takes no class to decode to, and its PostgresBackend    *)
(* has neither insert nor query.  The Redis client gives out the record it *)
(* was given.  (One that gives out copies keeps every count at 0, and      *)
(* nothing is ever promoted by retrieve.)                                  *)
(***************************************************************************)
EXTENDS Integers, FiniteSets, SequencesExt

CONSTANTS
    Records,
    MaxCalls,       \* bound on the calls in progress
    MaxCallers,     \* bound on those of them that came from outside
    Threshold,      \* of should_promote
    BatchSize,      \* policy.batch_size
    Top             \* the parent of a call from outside

VARIABLES
    stored,         \* records that store returned
    cache,          \* records in Redis
    medium,         \* records in PostgreSQL
    long,           \* records in Chroma
    cleaned,        \* history: records that cleanup_expired deleted
    tier,           \* current_tier
    hits,           \* access_count, counted up to Threshold
    pending,        \* _promotion_queue
    co,             \* the coroutines
    dropped         \* records of which a promotion failed, was cancelled or took a
                    \* copy, since they were read last

memoryVars == <<stored, cache, medium, long, cleaned, tier, hits, pending, co, dropped>>

Tiers == <<"SHORT", "MEDIUM", "LONG">>

Rank(t) == CHOOSE i \in DOMAIN Tiers : Tiers[i] = t

Free == [pc |-> "free"]

\* A call of retrieve (goal "none") or of promote_tier.
Calling(m, goal, parent) == [pc |-> "fetching", rec |-> m, goal |-> goal, parent |-> parent]

Coroutines == 1..MaxCalls

Idle == {c \in Coroutines : co[c] = Free}

Busy == {c \in Coroutines : co[c] # Free}

Children(c) == {d \in Busy : co[d].parent = c}

\* c, the coroutines it waits for, those they wait for, and so on.
Under(c) ==
    {d \in Busy : \A S \in SUBSET Busy :
        c \in S /\ (\A e \in Busy : co[e].parent \in S => e \in S) => d \in S}

\* The records that the coroutines in C promote.
Promotions(C) == {co[c].rec : c \in {d \in C : co[d].goal # "none"}}

Init ==
    /\ stored = {} /\ cache = {} /\ medium = {} /\ long = {} /\ cleaned = {}
    /\ tier = [m \in Records |-> "SHORT"]
    /\ hits = [m \in Records |-> 0]
    /\ pending = <<>>
    /\ co = [c \in Coroutines |-> Free]
    /\ dropped = {}

-----------------------------------------------------------------------------
(* store, cleanup_expired, and time.                                       *)

StoreInRedis(m) ==
    /\ m \notin stored
    /\ stored' = stored \union {m}
    /\ cache' = cache \union {m}
    /\ UNCHANGED <<medium, long, cleaned, tier, hits, pending, co, dropped>>

\* Redis raised.  If PostgreSQL fails too, store raises and nothing is kept.
StoreInPostgres(m) ==
    /\ m \notin stored
    /\ stored' = stored \union {m}
    /\ medium' = medium \union {m}
    /\ tier' = [tier EXCEPT ![m] = "MEDIUM"]
    /\ UNCHANGED <<cache, long, cleaned, hits, pending, co, dropped>>

\* The time to live in Redis, at most half an hour.
Evict(m) ==
    /\ m \in cache
    /\ cache' = cache \ {m}
    /\ UNCHANGED <<stored, medium, long, cleaned, tier, hits, pending, co, dropped>>

\* Rows past thirty days, whatever retention_days says; none is in Redis still.
cleanup_expired(expired) ==
    /\ expired \subseteq medium \ cache
    /\ medium' = medium \ expired
    /\ cleaned' = cleaned \union expired
    /\ UNCHANGED <<stored, cache, long, tier, hits, pending, co, dropped>>

-----------------------------------------------------------------------------
(* retrieve and promote_tier, up to and from their awaits.                 *)

FromOutside == {c \in Busy : co[c].parent = Top}

\* A call from outside.
Call(c, m, goal) ==
    /\ Cardinality(FromOutside) < MaxCallers
    /\ c \in Idle /\ \A d \in Idle : c <= d
    /\ co' = [co EXCEPT ![c] = Calling(m, goal, Top)]
    /\ UNCHANGED <<stored, cache, medium, long, cleaned, tier, hits, pending, dropped>>

\* Where c goes on when retrieve has given it its record: nothing is promoted
\* to a tier that is not higher.
After(c) ==
    IF co[c].goal # "none" /\ Rank(co[c].goal) > Rank(tier[co[c].rec])
    THEN [co[c] EXCEPT !.pc = "writing"]
    ELSE Free

Rest(queue) == SubSeq(queue, BatchSize + 1, Len(queue))

\* The records of a batch that are promoted.
Promoted(queue) ==
    LET batch == SubSeq(queue, 1, BatchSize)
    IN  {i \in DOMAIN batch : tier[batch[i]] = "SHORT"}

\* Who runs promote_tier for the records of a batch.
Child(queue) ==
    CHOOSE f \in [Promoted(queue) -> Idle] : \A i, j \in Promoted(queue) : f[i] = f[j] => i = j

\* _enqueue_promotion, which has appended the record of c to the queue: a full
\* queue makes this caller run a batch, and wait.
EnqueuePromotion(c, queue) ==
    IF Len(queue) < BatchSize
    THEN pending' = queue /\ co' = [co EXCEPT ![c] = After(c)]
    ELSE /\ pending' = Rest(queue)
         /\ Cardinality(Promoted(queue)) <= Cardinality(Idle)
         /\ co' = [d \in Coroutines |->
                      IF d = c THEN [co[c] EXCEPT !.pc = "waiting"]
                      ELSE IF \E i \in Promoted(queue) : Child(queue)[i] = d
                      THEN Calling(queue[CHOOSE i \in Promoted(queue) : Child(queue)[i] = d],
                                   "MEDIUM", c)
                      ELSE co[d]]

\* The record is in Redis.
Hit(c) ==
    LET m == co[c].rec IN
    /\ co[c].pc = "fetching" /\ m \in cache
    /\ hits' = [hits EXCEPT ![m] = IF @ < Threshold THEN @ + 1 ELSE @]
    /\ IF hits'[m] >= Threshold
       THEN EnqueuePromotion(c, Append(pending, m)) /\ dropped' = dropped \ {m}
       ELSE co' = [co EXCEPT ![c] = After(c)] /\ UNCHANGED <<pending, dropped>>
    /\ UNCHANGED <<stored, cache, medium, long, cleaned, tier>>

\* Redis has it not, or fails; PostgreSQL has it, or not, or fails.  A record
\* from there is MEDIUM already.
Miss(c) ==
    LET m == co[c].rec IN
    /\ co[c].pc = "fetching"
    /\ \/ co' = [co EXCEPT ![c] = Free] /\ dropped' = dropped \union Promotions({c})
       \/ /\ m \in medium /\ co[c].goal = "LONG"
          /\ co' = [co EXCEPT ![c].pc = "copying"]
          /\ UNCHANGED dropped
    /\ UNCHANGED <<stored, cache, medium, long, cleaned, tier, hits, pending>>

\* Mutant: the tier is raised before the write.
ResumeRaised(c) ==
    /\ co[c].pc = "waiting" /\ Children(c) = {}
    /\ co' = [co EXCEPT ![c] = After(c)]
    /\ tier' = IF co[c].goal = "none" THEN tier ELSE [tier EXCEPT ![co[c].rec] = co[c].goal]
    /\ UNCHANGED <<stored, cache, medium, long, cleaned, hits, pending, dropped>>

\* The batch this caller ran is done.
Resume(c) ==
    /\ co[c].pc = "waiting" /\ Children(c) = {}
    /\ co' = [co EXCEPT ![c] = After(c)]
    /\ UNCHANGED <<stored, cache, medium, long, cleaned, tier, hits, pending, dropped>>

\* insert of a row that is not there, or upsert of a document.
Write(c) ==
    LET m == co[c].rec IN
    /\ co[c].pc = "writing"
    /\ IF co[c].goal = "MEDIUM"
       THEN m \notin medium /\ medium' = medium \union {m} /\ UNCHANGED long
       ELSE long' = long \union {m} /\ UNCHANGED medium
    /\ tier' = [tier EXCEPT ![m] = co[c].goal]
    /\ co' = [co EXCEPT ![c] = Free]
    /\ UNCHANGED <<stored, cache, cleaned, hits, pending, dropped>>

\* The upsert of a record that was read from PostgreSQL: a copy is promoted.
WriteCopy(c) ==
    /\ co[c].pc = "copying"
    /\ long' = long \union {co[c].rec}
    /\ dropped' = dropped \union {co[c].rec}
    /\ co' = [co EXCEPT ![c] = Free]
    /\ UNCHANGED <<stored, cache, medium, cleaned, tier, hits, pending>>

\* The write raises, with or without effect; promote_tier answers False.
WriteFails(c) ==
    LET m == co[c].rec IN
    /\ co[c].pc \in {"writing", "copying"}
    /\ \/ UNCHANGED <<medium, long>>
       \/ co[c].goal = "MEDIUM" /\ medium' = medium \union {m} /\ UNCHANGED long
       \/ co[c].goal = "LONG" /\ long' = long \union {m} /\ UNCHANGED medium
    /\ dropped' = dropped \union {m}
    /\ co' = [co EXCEPT ![c] = Free]
    /\ UNCHANGED <<stored, cache, cleaned, tier, hits, pending>>

\* A caller from outside is cancelled, and gather cancels the batch it waits for,
\* all the way down: no handler of theirs catches a CancelledError.  What they were
\* writing may have taken effect; a batch is in the queue no longer.
Cancel(c) ==
    /\ c \in FromOutside
    /\ \E gone \in {Under(c)} :
          LET Sent(goal) == {d \in gone : co[d].pc \in {"writing", "copying"} /\ co[d].goal = goal} IN
          /\ \E done \in SUBSET Promotions(Sent("MEDIUM")) : medium' = medium \union done
          /\ \E done \in SUBSET Promotions(Sent("LONG")) : long' = long \union done
          /\ dropped' = dropped \union Promotions(gone)
          /\ co' = [d \in Coroutines |-> IF d \in gone THEN Free ELSE co[d]]
    /\ UNCHANGED <<stored, cache, cleaned, tier, hits, pending>>

Run(c) == Hit(c) \/ Miss(c) \/ Resume(c) \/ Write(c) \/ WriteCopy(c) \/ WriteFails(c)

Next ==
    \/ \E m \in Records : StoreInRedis(m) \/ StoreInPostgres(m) \/ Evict(m)
    \/ \E expired \in SUBSET Records : cleanup_expired(expired)
    \/ \E c \in Coroutines :
          \/ \E m \in Records, goal \in {"none", "MEDIUM", "LONG"} : Call(c, m, goal)
          \/ Run(c) \/ Cancel(c)

Spec == Init /\ [][Next]_memoryVars

-----------------------------------------------------------------------------

TypeOK ==
    /\ stored \subseteq Records /\ cache \subseteq Records
    /\ medium \subseteq Records /\ long \subseteq Records /\ cleaned \subseteq Records
    /\ tier \in [Records -> ToSet(Tiers)]
    /\ hits \in [Records -> 0..Threshold]
    /\ pending \in Seq(Records) /\ Len(pending) < BatchSize
    /\ co \in [Coroutines ->
                 {Free} \union [pc : {"fetching", "waiting", "writing", "copying"},
                                rec : Records, goal : {"none", "MEDIUM", "LONG"},
                                parent : Coroutines \union {Top}]]
    /\ dropped \subseteq Records

Promoting(m) == \E c \in Busy : co[c].rec = m /\ co[c].goal # "none"

\* A record that was read often enough is queued, or on its way, or its promotion
\* has ended without it since it was read last: it failed, or took a copy from
\* PostgreSQL, or a caller was cancelled in the gather of a batch it was in.  No
\* other record gets lost between the queue, the batches taken from it and the
\* batches these start, and the next read queues one that was
\* (_enqueue_promotion, _process_promotion_batch).  And a record that says it has
\* been promoted is where it says, until it is cleaned up (promote_tier).
PromotionIsSound ==
    \A m \in Records :
       /\ m \in cache /\ hits[m] = Threshold /\ tier[m] = "SHORT" =>
             m \in ToSet(pending) \/ Promoting(m) \/ m \in dropped
       /\ tier[m] = "MEDIUM" => m \in medium \union cleaned
       /\ tier[m] = "LONG" => m \in long
=============================================================================

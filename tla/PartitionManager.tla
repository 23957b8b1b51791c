--------------------------- MODULE PartitionManager ---------------------------
(***************************************************************************)
(* holly/storage/partition_manager.py: tables for one day, created on      *)
(* demand, copied to S3 and dropped when their time is over, and restored. *)
(* Archival cycles and restores run beside each other and beside the       *)
(* application's inserts; any of their awaits may fail, or the process     *)
(* that runs them may end there.                                           *)
(***************************************************************************)
EXTENDS Integers

CONSTANTS
    Partitions,     \* names of tables; their S3 keys are as distinct
    DateOf,         \* partition_date
    Rows,
    PartitionOf,    \* the partition whose CHECK clauses a row satisfies
    Archivers,      \* callers of run_archival_cycle
    Restorers,      \* callers of restore_partition
    TTLDays,        \* ttl_days
    MaxDay          \* bound on the date

VARIABLES
    today,
    existing,       \* partitions whose table exists
    table,          \* rows of a table
    archived,       \* partitions with an object in S3
    object,         \* rows of an object
    todo,           \* per archiver, the expired partitions left to it
    stage,          \* per worker, the last of its awaits that succeeded
    target,         \* per worker, the partition it works on
    data,           \* per worker, the bytes it holds
    exposed         \* history: rows at risk by one of three known races

partitionVars ==
    <<today, existing, table, archived, object, todo, stage, target, data, exposed>>

Workers == Archivers \union Restorers

Init ==
    /\ today = 0
    /\ existing = {} /\ table = [p \in Partitions |-> {}]
    /\ archived = {} /\ object = [p \in Partitions |-> {}]
    /\ todo = [a \in Archivers |-> {}]
    /\ stage = [w \in Workers |-> "idle"]
    /\ target = [w \in Workers |-> CHOOSE p \in Partitions : TRUE]
    /\ data = [w \in Workers |-> {}]
    /\ exposed = {}

\* The rows of a partition, in PostgreSQL and in S3.
Everywhere(p) == table[p] \union object[p]

\* Somebody has copied p and may still drop it.
Copying(p) == \E a \in Archivers : stage[a] \in {"copied", "uploaded"} /\ target[a] = p

\* Somebody is about to fill p from S3.
Restoring(p) == \E r \in Restorers : stage[r] \in {"downloaded", "created"} /\ target[r] = p

-----------------------------------------------------------------------------
(* The date and the application.                                           *)

NextDay ==
    /\ today < MaxDay
    /\ today' = today + 1
    /\ UNCHANGED <<existing, table, archived, object, todo, stage, target, data, exposed>>

\* CREATE TABLE IF NOT EXISTS.  Race 1: the archival of a table that is new
\* beside an object overwrites the object.
ensure_partition(p) ==
    /\ existing' = existing \union {p}
    /\ exposed' = IF p \in existing THEN exposed ELSE exposed \union object[p]
    /\ UNCHANGED <<today, table, archived, object, todo, stage, target, data>>

\* Race 2: a row that comes between the copy and the drop of its partition.
Insert(row) ==
    LET p == PartitionOf[row] IN
    /\ p \in existing
    /\ row \notin Everywhere(p)
    /\ table' = [table EXCEPT ![p] = @ \union {row}]
    /\ exposed' = IF Copying(p) THEN exposed \union {row} ELSE exposed
    /\ UNCHANGED <<today, existing, archived, object, todo, stage, target, data>>

-----------------------------------------------------------------------------
(* run_archival_cycle, one action from await to await.                     *)

Expired(p) == DateOf[p] <= today - TTLDays

list_expired_partitions(a) ==
    /\ stage[a] = "idle" /\ todo[a] = {}
    /\ todo' = [todo EXCEPT ![a] = {p \in existing : Expired(p)}]
    /\ UNCHANGED <<today, existing, table, archived, object, stage, target, data, exposed>>

\* COPY ... TO STDOUT of the next in the list.  Race 3: somebody restores it.
CopyOut(a, p) ==
    /\ stage[a] = "idle" /\ p \in todo[a] /\ p \in existing
    /\ stage' = [stage EXCEPT ![a] = "copied"]
    /\ target' = [target EXCEPT ![a] = p]
    /\ data' = [data EXCEPT ![a] = table[p]]
    /\ exposed' = IF Restoring(p) THEN exposed \union Everywhere(p) ELSE exposed
    /\ UNCHANGED <<today, existing, table, archived, object, todo>>

UploadBytes(p, rows) ==
    /\ archived' = archived \union {p}
    /\ object' = [object EXCEPT ![p] = rows]

Upload(a) ==
    /\ stage[a] = "copied"
    /\ stage' = [stage EXCEPT ![a] = "uploaded"]
    /\ UploadBytes(target[a], data[a])
    /\ UNCHANGED <<today, existing, table, todo, target, data, exposed>>

DropTable(p) ==
    /\ existing' = existing \ {p}
    /\ table' = [table EXCEPT ![p] = {}]

\* Mutant: drop before upload.
DropFirst(a) ==
    /\ stage[a] \in {"copied", "uploaded"}
    /\ stage' = [stage EXCEPT ![a] = IF stage[a] = "copied" THEN "copied" ELSE "idle"]
    /\ DropTable(target[a])
    /\ todo' = [todo EXCEPT ![a] = @ \ {target[a]}]
    /\ UNCHANGED <<today, archived, object, target, data, exposed>>

\* DROP TABLE IF EXISTS, and on to the next in the list.
Drop(a) ==
    /\ stage[a] = "uploaded"
    /\ stage' = [stage EXCEPT ![a] = "idle"]
    /\ DropTable(target[a])
    /\ todo' = [todo EXCEPT ![a] = @ \ {target[a]}]
    /\ data' = [data EXCEPT ![a] = {}]
    /\ UNCHANGED <<today, archived, object, target, exposed>>

\* A failure, a table that is gone, or the end of the process: the rest of the
\* list is left to the next cycle.
AbortCycle(a) ==
    /\ stage[a] # "idle" \/ todo[a] # {}
    /\ stage' = [stage EXCEPT ![a] = "idle"]
    /\ todo' = [todo EXCEPT ![a] = {}]
    /\ data' = [data EXCEPT ![a] = {}]
    /\ UNCHANGED <<today, existing, table, archived, object, target, exposed>>

-----------------------------------------------------------------------------
(* restore_partition.                                                      *)

Download(r, p) ==
    /\ stage[r] = "idle" /\ p \in archived
    /\ stage' = [stage EXCEPT ![r] = "downloaded"]
    /\ target' = [target EXCEPT ![r] = p]
    /\ data' = [data EXCEPT ![r] = object[p]]
    /\ exposed' = IF Copying(p) THEN exposed \union Everywhere(p) ELSE exposed
    /\ UNCHANGED <<today, existing, table, archived, object, todo>>

CreateTable(r) ==
    /\ stage[r] = "downloaded"
    /\ stage' = [stage EXCEPT ![r] = "created"]
    /\ existing' = existing \union {target[r]}
    /\ UNCHANGED <<today, table, archived, object, todo, target, data, exposed>>

\* COPY ... FROM STDIN is all or nothing: the primary key that LIKE ...
\* INCLUDING ALL copies admits no row twice.
CopyIn(r) ==
    LET p == target[r] IN
    /\ stage[r] = "created"
    /\ p \in existing /\ table[p] \intersect data[r] = {}
    /\ stage' = [stage EXCEPT ![r] = "idle"]
    /\ table' = [table EXCEPT ![p] = @ \union data[r]]
    /\ data' = [data EXCEPT ![r] = {}]
    /\ UNCHANGED <<today, existing, archived, object, todo, target, exposed>>

\* A failure or the end of the process; a table just created stays, empty, so
\* that race 1 is open.
AbortRestore(r) ==
    /\ stage[r] # "idle"
    /\ stage' = [stage EXCEPT ![r] = "idle"]
    /\ data' = [data EXCEPT ![r] = {}]
    /\ exposed' = IF stage[r] = "created" THEN exposed \union object[target[r]] ELSE exposed
    /\ UNCHANGED <<today, existing, table, archived, object, todo, target>>

Next ==
    \/ NextDay
    \/ \E p \in Partitions : ensure_partition(p)
    \/ \E row \in Rows : Insert(row)
    \/ \E a \in Archivers :
          \/ list_expired_partitions(a)
          \/ \E p \in Partitions : CopyOut(a, p)
          \/ Upload(a) \/ Drop(a) \/ AbortCycle(a)
    \/ \E r \in Restorers :
          \/ \E p \in Partitions : Download(r, p)
          \/ CreateTable(r) \/ CopyIn(r) \/ AbortRestore(r)

Spec == Init /\ [][Next]_partitionVars

-----------------------------------------------------------------------------

TypeOK ==
    /\ today \in 0..MaxDay
    /\ existing \subseteq Partitions /\ archived \subseteq Partitions
    /\ table \in [Partitions -> SUBSET Rows]
    /\ object \in [Partitions -> SUBSET Rows]
    /\ todo \in [Archivers -> SUBSET Partitions]
    /\ stage \in [Workers -> {"idle", "copied", "uploaded", "downloaded", "created"}]
    /\ target \in [Workers -> Partitions]
    /\ data \in [Workers -> SUBSET Rows]
    /\ exposed \subseteq Rows

Kept == UNION {Everywhere(p) : p \in Partitions}

\* A row leaves both PostgreSQL and S3 only through one of the three races:
\* through failures at any await, overlapping cycles and restores every other
\* row is in its table or in its object (archive_partition, restore_partition).
RowsSurvive == [][\A row \in Kept : row \in Kept' \/ row \in exposed]_partitionVars
=============================================================================

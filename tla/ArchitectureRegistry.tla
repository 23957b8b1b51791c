------------------------- MODULE ArchitectureRegistry -------------------------
(***************************************************************************)
(* The singleton of architecture.yaml, holly/arch/registry.py, under       *)
(* threads: get() with its double check, reload() and reset() under the    *)
(* lock, and the lock-free readers that remember a generation to tell      *)
(* later whether what they copied is stale.  An instance is named by when  *)
(* it was made, a document by the version of the file it was read from.    *)
(***************************************************************************)
EXTENDS Naturals

CONSTANTS
    Threads,        \* that load, reload or reset
    Readers,        \* that copy the document
    MaxVersion,     \* bound on the versions of the file
    MaxInstances,   \* bound on the instances made
    MaxGeneration,  \* bound on reloads of one instance
    Free            \* no thread

VARIABLES
    file,           \* [version, valid]: architecture.yaml as it is
    instance,       \* _instance, 0 when there is none
    made,           \* the instances made
    document,       \* document[i]: the version that instance i holds
    generation,     \* generation[i]
    lock,           \* the thread that holds _lock, or Free
    job,            \* job[t]: [call, pc, loaded]
    copy            \* copy[r]: [of, generation, document], of = 0 when none

archVars == <<file, instance, made, document, generation, lock, job, copy>>

Instances == 1 .. MaxInstances
NoJob == [call |-> "none", pc |-> "idle", loaded |-> 0]

ArchInit ==
    /\ file = [version |-> 1, valid |-> TRUE] /\ instance = 0 /\ made = 0
    /\ document = [i \in Instances |-> 0] /\ generation = [i \in Instances |-> 0]
    /\ lock = Free /\ job = [t \in Threads |-> NoJob]
    /\ copy = [r \in Readers |-> [of |-> 0, generation |-> 0, document |-> 0]]

Edit ==
    /\ file.version < MaxVersion
    /\ \E valid \in BOOLEAN : file' = [version |-> file.version + 1, valid |-> valid]
    /\ UNCHANGED <<instance, made, document, generation, lock, job, copy>>

-----------------------------------------------------------------------------

To(t, pc) == job' = [job EXCEPT ![t].pc = pc]
Return(t) == job' = [job EXCEPT ![t] = NoJob]

\* get() without the lock: it returns what it read, or goes on to the lock.
get(t) ==
    /\ job[t].pc = "idle"
    /\ instance = 0      \* else it returns at once, and nothing changes
    /\ job' = [job EXCEPT ![t] = [NoJob EXCEPT !.call = "get", !.pc = "waiting"]]
    /\ UNCHANGED <<file, instance, made, document, generation, lock, copy>>

Begin(t, call) ==
    /\ job[t].pc = "idle"
    /\ job' = [job EXCEPT ![t] = [NoJob EXCEPT !.call = call, !.pc = "waiting"]]
    /\ UNCHANGED <<file, instance, made, document, generation, lock, copy>>

Lock(t) ==
    /\ job[t].pc = "waiting" /\ lock = Free /\ lock' = t
    /\ To(t, "locked")
    /\ UNCHANGED <<file, instance, made, document, generation, copy>>

\* The second check of get().
AlreadyLoaded(t) ==
    /\ job[t].pc = "locked" /\ job[t].call = "get" /\ instance # 0
    /\ Return(t) /\ lock' = Free
    /\ UNCHANGED <<file, instance, made, document, generation, copy>>

reset(t) ==
    /\ job[t].pc = "locked" /\ job[t].call = "reset"
    /\ instance' = 0 /\ lock' = Free /\ Return(t)
    /\ UNCHANGED <<file, made, document, generation, copy>>

MustLoad(t) == job[t].pc = "locked" /\ job[t].call # "reset" /\ (job[t].call = "get" => instance = 0)

\* _load validates before anything is touched.
Load(t) ==
    /\ MustLoad(t) /\ file.valid
    /\ job' = [job EXCEPT ![t].pc = "loaded", ![t].loaded = file.version]
    /\ UNCHANGED <<file, instance, made, document, generation, lock, copy>>

LoadFails(t) ==
    /\ MustLoad(t) /\ ~file.valid
    /\ Return(t) /\ lock' = Free
    /\ UNCHANGED <<file, instance, made, document, generation, copy>>

Install(t) ==
    /\ job[t].pc = "loaded" /\ instance = 0 /\ made < MaxInstances
    /\ made' = made + 1 /\ instance' = made + 1
    /\ document' = [document EXCEPT ![made + 1] = job[t].loaded]
    /\ generation' = [generation EXCEPT ![made + 1] = 1]
    /\ lock' = Free /\ Return(t)
    /\ UNCHANGED <<file, copy>>

\* The two assignments of reload(), in their order.
\* Mutant: it counts before it replaces the document.
Assign_counting_first(i, doc, which) ==
    IF which = 2 THEN document' = [document EXCEPT ![i] = doc] /\ UNCHANGED generation
                 ELSE generation' = [generation EXCEPT ![i] = @ + 1] /\ UNCHANGED document

Assign(i, doc, which) ==
    IF which = 1 THEN document' = [document EXCEPT ![i] = doc] /\ UNCHANGED generation
                 ELSE generation' = [generation EXCEPT ![i] = @ + 1] /\ UNCHANGED document

Swap(t) ==
    /\ job[t].pc = "loaded" /\ instance # 0 /\ generation[instance] < MaxGeneration
    /\ Assign(instance, job[t].loaded, 1) /\ To(t, "swapped")
    /\ UNCHANGED <<file, instance, made, lock, copy>>

Count(t) ==
    /\ job[t].pc = "swapped"
    /\ Assign(instance, job[t].loaded, 2) /\ lock' = Free /\ Return(t)
    /\ UNCHANGED <<file, instance, made, copy>>

-----------------------------------------------------------------------------

\* A reader copies the generation and then the document, without the lock.
CopyGeneration(r) ==
    /\ instance # 0
    /\ copy' = [copy EXCEPT ![r] = [of |-> instance, generation |-> generation[instance], document |-> 0]]
    /\ UNCHANGED <<file, instance, made, document, generation, lock, job>>

CopyDocument(r) ==
    /\ copy[r].of # 0 /\ copy[r].document = 0
    /\ copy' = [copy EXCEPT ![r].document = document[copy[r].of]]
    /\ UNCHANGED <<file, instance, made, document, generation, lock, job>>

ArchNext ==
    \/ Edit
    \/ \E t \in Threads : \/ get(t) \/ Begin(t, "reload") \/ Begin(t, "reset") \/ Lock(t)
                          \/ AlreadyLoaded(t) \/ reset(t) \/ Load(t) \/ LoadFails(t)
                          \/ Install(t) \/ Swap(t) \/ Count(t)
    \/ \E r \in Readers : CopyGeneration(r) \/ CopyDocument(r)

-----------------------------------------------------------------------------

ArchTypeOK ==
    /\ file \in [version : 1 .. MaxVersion, valid : BOOLEAN]
    /\ instance \in 0 .. made /\ made \in 0 .. MaxInstances
    /\ document \in [Instances -> 0 .. MaxVersion] /\ generation \in [Instances -> 0 .. MaxGeneration]
    /\ lock \in Threads \union {Free}
    /\ job \in [Threads -> [call : {"none", "get", "reload", "reset"}, pc : {"idle", "waiting", "locked", "loaded", "swapped"},
                            loaded : 0 .. MaxVersion]]
    /\ copy \in [Readers -> [of : 0 .. MaxInstances, generation : 0 .. MaxGeneration, document : 0 .. MaxVersion]]

\* A reader whose generation is still that of its instance holds the document
\* of that instance, unless a reload is between its two assignments; no reload
\* puts an older version of the file over a newer one, however reloads and
\* resets race (ArchitectureRegistry.reload, .get, .generation).
StalenessShows ==
    /\ [](\A r \in Readers :
             LET c == copy[r] IN
             /\ c.document # 0 /\ c.generation = generation[c.of]
             /\ ~\E t \in Threads : job[t].pc = "swapped"
             => c.document = document[c.of])
    /\ [][\A i \in Instances : document'[i] >= document[i]]_archVars
=============================================================================

---- MODULE VectorIndex ----
(***************************************************************************)
(* The vector index of one workspace.  The rows of chunk_embeddings are    *)
(* the truth; an index file and a manifest beside it are derived from      *)
(* them, and every process keeps the index it loaded or built last.  The   *)
(* API (reviews, deletions, purges) and the worker (ingestion, searches)   *)
(* share the files but not the lock, which is one RLock per process.       *)
(* Vectors, similarity and the limit of a search are left out: a search    *)
(* returns every row it can see.                                           *)
(***************************************************************************)
EXTENDS Naturals, FiniteSets

CONSTANTS
    Chunk,         \* numbers of the chunks that may appear in the workspace
    Process,
    Thread,        \* threads that use the index, besides the purge
    Purger,        \* the thread of a purge, which holds the write lock
    Home,          \* the process of each thread
    Duty,          \* what each thread does: some of "index", "search", "rebuild"
    Nobody,        \* no thread
    NoFile         \* no file, no cache

User == Thread \cup {Purger}

ASSUME IndexAssumption ==
    /\ Chunk \subseteq Nat
    /\ Purger \notin Thread
    /\ Nobody \notin User
    /\ Home \in [User -> Process]
    /\ Duty \in [Thread -> SUBSET {"index", "search", "rebuild"}]
    /\ \A C \in SUBSET Chunk : NoFile # C

VARIABLES
    chunk,       \* "new", "active" or "gone" (superseded, soft-deleted or purged)
    embedded,    \* the active chunks with a current row in chunk_embeddings
    dbLock,      \* the thread whose transaction stays open, or Nobody
    indexFile,   \* the .index file, as the chunks it holds
    manifest,    \* the .json file, as the rows its signature stands for
    cache,       \* _cache of each process, kept where it is read: by the searches
    rlock,       \* the holder of _lock in each process
    step,        \* where each thread is
    task,        \* "index", "search" or "rebuild"
    missing,     \* its missing chunks not yet embedded
    gathered,    \* the rows it rebuilds from
    due,         \* history: the rows there were when its search synchronized
    foreign,     \* history: another process replaced the index after this one set its cache
    alone,       \* history: no other process rebuilt since this thread began to
    torn         \* history: the last rebuild to end was not alone

indexFiles == <<indexFile, manifest>>
indexRows == <<chunk, embedded>>
indexLocals == <<task, missing, gathered, due, alone>>
indexLocks == <<dbLock, rlock>>
indexVars == <<indexRows, indexLocks, indexFiles, cache, step, indexLocals, foreign, torn>>

Rebuilding == {"replace", "publish", "unlink"}

Active == {c \in Chunk : chunk[c] = "active"}
\* A write transaction can begin.
RowsWritable == dbLock = Nobody

IndexInit ==
    /\ chunk = [c \in Chunk |-> "new"]
    /\ embedded = {}
    /\ dbLock = Nobody
    /\ indexFile = NoFile /\ manifest = NoFile
    /\ cache = [p \in Process |-> NoFile]
    /\ rlock = [p \in Process |-> Nobody]
    /\ step = [t \in User |-> "idle"]
    /\ task = [t \in User |-> "rebuild"]
    /\ missing = [t \in User |-> {}]
    /\ gathered = [t \in User |-> {}]
    /\ due = [t \in User |-> {}]
    /\ foreign = [p \in Process |-> FALSE]
    /\ alone = [t \in User |-> TRUE]
    /\ torn = FALSE

-----------------------------------------------------------------------------
(* The rows, as the other components change them.                          *)

SetChunks(C, status) == chunk' = [c \in Chunk |-> IF c \in C THEN status ELSE chunk[c]]

\* A parse or a correction is committed: its chunks become active.  They are
\* numbered as they come.
ActivateChunks(C) ==
    /\ C # {} /\ \A c \in C : chunk[c] = "new"
    /\ \A c \in C, d \in Chunk \ C : chunk[d] = "new" => c < d
    /\ RowsWritable
    /\ SetChunks(C, "active")
    /\ UNCHANGED <<embedded, indexLocks, indexFiles, cache, step, indexLocals, foreign, torn>>

\* A soft deletion, or another parse of the version takes their place.  A row of
\* chunk_embeddings that stays behind is joined away by every query.
RemoveChunks(C) ==
    /\ C # {} /\ C \subseteq Active
    /\ RowsWritable
    /\ SetChunks(C, "gone")
    /\ embedded' = embedded \ C
    /\ UNCHANGED <<indexLocks, indexFiles, cache, step, indexLocals, foreign, torn>>

\* Both transactions of a purge; the second stays open around the rebuild.
PurgeChunks(C) ==
    /\ step[Purger] = "idle"
    /\ C # {} /\ \A c \in C : chunk[c] # "new"
    /\ RowsWritable
    /\ SetChunks(C, "gone")
    /\ embedded' = embedded \ C
    /\ dbLock' = Purger
    /\ step' = [step EXCEPT ![Purger] = "wait"]
    /\ UNCHANGED <<rlock, indexFiles, cache, indexLocals, foreign, torn>>

-----------------------------------------------------------------------------
(* The lock of the process.                                                *)

FirstStep(what) == IF what = "rebuild" THEN "gather" ELSE "scan"

\* A thread calls index_workspace, search or rebuild_workspace.
Enter(t, what) ==
    /\ step[t] = "idle"
    /\ rlock[Home[t]] = Nobody
    /\ rlock' = [rlock EXCEPT ![Home[t]] = t]
    /\ step' = [step EXCEPT ![t] = FirstStep(what)]
    /\ task' = [task EXCEPT ![t] = what]
    /\ UNCHANGED <<indexRows, dbLock, indexFiles, cache, missing, gathered, due, alone, foreign, torn>>

\* The purge waits for the index inside its transaction.
EnterPurge ==
    /\ step[Purger] = "wait"
    /\ rlock[Home[Purger]] = Nobody
    /\ rlock' = [rlock EXCEPT ![Home[Purger]] = Purger]
    /\ step' = [step EXCEPT ![Purger] = FirstStep("rebuild")]
    /\ UNCHANGED <<indexRows, dbLock, indexFiles, cache, indexLocals, foreign, torn>>

\* The end of a call; a purge commits its second transaction then.
Leave(t) ==
    /\ step' = [step EXCEPT ![t] = "idle"]
    /\ rlock' = [rlock EXCEPT ![Home[t]] = Nobody]
    /\ dbLock' = IF dbLock = t THEN Nobody ELSE dbLock
    /\ missing' = [missing EXCEPT ![t] = {}]
    /\ gathered' = [gathered EXCEPT ![t] = {}]
    /\ due' = [due EXCEPT ![t] = {}]
    /\ alone' = [alone EXCEPT ![t] = TRUE]
    /\ task' = [task EXCEPT ![t] = "rebuild"]

\* The embedding provider, the disk or a statement fails: the caller logs it.
Raise(t) ==
    /\ step[t] \notin {"idle", "wait"}
    /\ Leave(t)
    /\ UNCHANGED <<indexRows, indexFiles, cache, foreign, torn>>

-----------------------------------------------------------------------------
(* index_workspace                                                         *)

\* _missing_chunks
Scan(t) ==
    /\ step[t] = "scan"
    /\ missing' = [missing EXCEPT ![t] = Active \ embedded]
    /\ step' = [step EXCEPT ![t] = IF Active \subseteq embedded THEN "compare" ELSE "embed"]
    /\ UNCHANGED <<indexRows, indexLocks, indexFiles, cache, task, gathered, due, alone, foreign, torn>>

\* One batch, in any order: embedded outside a transaction, written inside one.
\* A chunk that was purged meanwhile fails its foreign key (Raise), the row of one
\* that is only inactive is written and counts for nothing.
WriteBatch(t, batch) ==
    /\ step[t] = "embed"
    /\ batch # {} /\ batch \subseteq missing[t]
    /\ RowsWritable
    /\ embedded' = embedded \cup (batch \cap Active)
    /\ missing' = [missing EXCEPT ![t] = @ \ batch]
    /\ step' = [step EXCEPT ![t] = IF missing[t] = batch THEN "gather" ELSE "embed"]
    /\ UNCHANGED <<chunk, indexLocks, indexFiles, cache, task, gathered, due, alone, foreign, torn>>

BatchTimesOut_Never(t) == FALSE /\ step[t] = "embed" /\ UNCHANGED indexVars

\* The write lock is not free before busy_timeout.
BatchTimesOut(t) ==
    /\ step[t] = "embed"
    /\ ~RowsWritable
    /\ Leave(t)
    /\ UNCHANGED <<indexRows, indexFiles, cache, foreign, torn>>

ManifestIsCurrent_Exists == indexFile # NoFile /\ manifest # NoFile

\* _manifest_is_current
ManifestIsCurrent == indexFile # NoFile /\ manifest = embedded

\* Synchronized: a search goes on to read the index, the others are done.
Compare(t) ==
    /\ step[t] = "compare"
    /\ \/ ManifestIsCurrent /\ task[t] # "search" /\ Leave(t)
       \/ /\ ManifestIsCurrent => task[t] = "search"
          /\ due' = [due EXCEPT ![t] = IF task[t] = "search" THEN embedded ELSE {}]
          /\ step' = [step EXCEPT ![t] = IF ManifestIsCurrent THEN "load" ELSE "gather"]
          /\ UNCHANGED <<indexLocks, task, missing, gathered, alone>>
    /\ UNCHANGED <<indexRows, indexFiles, cache, foreign, torn>>

-----------------------------------------------------------------------------
(* rebuild_workspace                                                       *)

Others(t) == {u \in User : Home[u] # Home[t] /\ step[u] \in Rebuilding}

Gather(t) ==
    /\ step[t] = "gather"
    /\ gathered' = [gathered EXCEPT ![t] = embedded]
    /\ due' = [due EXCEPT ![t] = IF task[t] = "search" THEN embedded ELSE {}]
    /\ step' = [step EXCEPT ![t] = IF embedded = {} THEN "unlink" ELSE "replace"]
    /\ alone' = [u \in User |-> IF u = t THEN Others(t) = {} ELSE alone[u] /\ u \notin Others(t)]
    /\ UNCHANGED <<indexRows, indexLocks, indexFiles, cache, task, missing, foreign, torn>>

Searches(p) == \E t \in Thread : Home[t] = p /\ "search" \in Duty[t]

\* The other processes keep the index they have in their caches.
Overtaken(t) == [p \in Process |-> cache[p] # NoFile /\ (foreign[p] \/ p # Home[t])]

SetCache(t, index) ==
    /\ cache' = IF Searches(Home[t]) THEN [cache EXCEPT ![Home[t]] = index] ELSE cache
    /\ foreign' = [Overtaken(t) EXCEPT ![Home[t]] = FALSE]
    /\ torn' = ~alone[t]
    /\ \/ task[t] # "search" /\ Leave(t)
       \/ /\ task[t] = "search"
          /\ step' = [step EXCEPT ![t] = "load"]
          /\ gathered' = [gathered EXCEPT ![t] = {}]
          /\ alone' = [alone EXCEPT ![t] = TRUE]
          /\ UNCHANGED <<indexLocks, task, missing, due>>
    /\ UNCHANGED indexRows

\* No rows: both files and the cached index go.
Unlink(t) ==
    /\ step[t] = "unlink"
    /\ indexFile' = NoFile /\ manifest' = NoFile
    /\ SetCache(t, NoFile)

\* The index file, written under a name common to all processes and moved; when
\* another process has moved it already, os.replace raises (Raise).
ReplaceIndex(t) ==
    /\ step[t] = "replace"
    /\ indexFile' = gathered[t]
    /\ foreign' = Overtaken(t)
    /\ step' = [step EXCEPT ![t] = "publish"]
    /\ UNCHANGED <<indexRows, indexLocks, manifest, cache, indexLocals, torn>>

\* The manifest likewise, and the cache of this process.
Publish(t) ==
    /\ step[t] = "publish"
    /\ manifest' = gathered[t]
    /\ SetCache(t, gathered[t])
    /\ UNCHANGED indexFile

-----------------------------------------------------------------------------
(* search                                                                  *)

\* _load_index: the cache of the process, whatever the manifest says.
Loaded(p) == IF cache[p] # NoFile THEN cache[p] ELSE indexFile

\* The rows a query can return: SQL drops what is no longer active.
Hits(p) == IF Loaded(p) = NoFile THEN {} ELSE Loaded(p) \cap embedded

\* The index is loaded, and a later read drops the rows that are gone by then.
Query(t) ==
    /\ step[t] = "load"
    /\ cache' = [cache EXCEPT ![Home[t]] = Loaded(Home[t])]
    /\ Leave(t)
    /\ UNCHANGED <<indexRows, indexFiles, foreign, torn>>

-----------------------------------------------------------------------------

\* The process dies and is started again: its cache and its locks are gone, not its files.
RestartProcess(p) ==
    /\ step' = [t \in User |-> IF Home[t] = p THEN "idle" ELSE step[t]]
    /\ rlock' = [rlock EXCEPT ![p] = Nobody]
    /\ dbLock' = IF Home[Purger] = p THEN Nobody ELSE dbLock
    /\ cache' = [cache EXCEPT ![p] = NoFile]
    /\ foreign' = [foreign EXCEPT ![p] = FALSE]
    /\ missing' = [t \in User |-> IF Home[t] = p THEN {} ELSE missing[t]]
    /\ gathered' = [t \in User |-> IF Home[t] = p THEN {} ELSE gathered[t]]
    /\ due' = [t \in User |-> IF Home[t] = p THEN {} ELSE due[t]]
    /\ alone' = [t \in User |-> Home[t] = p \/ alone[t]]
    /\ task' = [t \in User |-> IF Home[t] = p THEN "rebuild" ELSE task[t]]
    /\ UNCHANGED <<indexRows, indexFiles, torn>>

IndexProceed(t) ==
    \/ Scan(t) \/ BatchTimesOut(t) \/ Compare(t) \/ Gather(t) \/ Unlink(t)
    \/ ReplaceIndex(t) \/ Publish(t) \/ Query(t)
    \/ \E batch \in SUBSET missing[t] : WriteBatch(t, batch)

IndexNext ==
    \/ \E C \in SUBSET Chunk : ActivateChunks(C) \/ RemoveChunks(C) \/ PurgeChunks(C)
    \/ \E t \in Thread : \E what \in Duty[t] : Enter(t, what)
    \/ EnterPurge
    \/ \E t \in User : IndexProceed(t) \/ Raise(t)
    \/ \E p \in Process : RestartProcess(p)

IndexSpec == IndexInit /\ [][IndexNext]_indexVars

-----------------------------------------------------------------------------

\* A search that synchronized finds every embedded chunk, in spite of removals,
\* crashes and failures, unless another process replaced the index after this
\* one had set its cache, or the files come from two rebuilds at the same time.
SearchFindsIndexed ==
    \A t \in User : step[t] = "load" =>
        \/ due[t] \cap embedded \subseteq Hits(Home[t])
        \/ foreign[Home[t]] \/ torn

\* The purge waits for the index lock inside a transaction, and indexing waits
\* for the write lock inside the index lock: the cycle is always broken.
IndexLockComesFree == \A p \in Process : []<>(rlock[p] = Nobody)
====

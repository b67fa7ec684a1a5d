---- MODULE DocumentPurge ----
(***************************************************************************)
(* The permanent removal of one document: its rows and the conversations   *)
(* that depend on it go in one transaction, the stored objects of its      *)
(* versions and the vector index in a second one that only holds the       *)
(* write lock, and a ledger row lets a later call go on where an earlier   *)
(* one stopped.  Ingestion workers write files while this happens, and     *)
(* answers that have read the document complete after it.                  *)
(*                                                                         *)
(* Which job a worker may claim, cancellation and leases are the subject   *)
(* of IngestionJobs: here any worker may work on any version that has a    *)
(* row, several at once, and may leave early wherever the code can.        *)
(***************************************************************************)
EXTENDS FiniteSets

CONSTANTS
    Version,       \* the versions that may be uploaded
    Call,          \* the calls of purge; a retry is another call
    NoCall,
    Worker,
    NoVersion,
    Conversation,
    Scoped         \* the conversations whose scope names the document

ASSUME PurgeAssumption ==
    /\ NoCall \notin Call
    /\ NoVersion \notin Version
    /\ Scoped \subseteq Conversation

VARIABLES
    exists,    \* the row of "documents"
    rows,      \* the rows of "document_versions", each with its job
    indexed,   \* the versions whose parsed content is in the database
    uploaded,  \* the versions uploaded so far
    objects,   \* the version directories of the object store
    ledger,    \* document_purges.status, "none" without a row
    listed,    \* document_purges.version_ids_json
    lock,      \* the call inside its second transaction
    call,      \* where each call is in purge
    todo,      \* the versions it has still to remove
    failed,    \* its list of failures is not empty
    pc,        \* where each worker is in process_job
    target,    \* the version it works on
    struck,    \* the versions hit by a crash, a failed cleanup or a rolled back upload
    conv,      \* the rows of "conversations"
    answer,    \* "evidence" while an answer holds evidence of the document
    cites      \* the conversations with a citation of the document

documents == <<exists, rows, indexed, uploaded>>
purges == <<ledger, listed, lock, call, todo, failed>>
workers == <<pc, target>>
chats == <<conv, answer, cites>>
vars == <<documents, objects, purges, workers, struck, chats>>

\* Inside the try block of process_job.
Guarded == {"parsing", "inspected", "parsed", "rendering", "rendered", "persisting", "failing"}
Early == {"claimed", "loaded", "starting", "started"}
CallEnd == {"completed", "partial", "already_purged", "not_found", "error"}

\* BEGIN IMMEDIATE succeeds.
Writable == lock = NoCall
\* is_requested
Requested == ledger # "none"

TypeOK ==
    /\ exists \in BOOLEAN
    /\ rows \subseteq Version
    /\ indexed \subseteq rows
    /\ uploaded \subseteq Version
    /\ objects \subseteq Version
    /\ ledger \in {"none", "database_deleted", "partial", "completed"}
    /\ listed \subseteq Version
    /\ lock \in Call \cup {NoCall}
    /\ call \in [Call -> {"new", "deleted", "removing", "rebuilt"} \cup CallEnd]
    /\ todo \in [Call -> SUBSET Version]
    /\ failed \in [Call -> BOOLEAN]
    /\ pc \in [Worker -> {"idle"} \cup Early \cup Guarded]
    /\ target \in [Worker -> Version \cup {NoVersion}]
    /\ struck \subseteq Version
    /\ conv \in [Conversation -> {"open", "gone"}]
    /\ answer \in [Conversation -> {"idle", "evidence"}]
    /\ cites \subseteq Conversation

Init ==
    /\ exists = FALSE
    /\ rows = {} /\ indexed = {} /\ uploaded = {} /\ objects = {}
    /\ ledger = "none" /\ listed = {} /\ lock = NoCall
    /\ call = [c \in Call |-> "new"]
    /\ todo = [c \in Call |-> {}]
    /\ failed = [c \in Call |-> FALSE]
    /\ pc = [w \in Worker |-> "idle"]
    /\ target = [w \in Worker |-> NoVersion]
    /\ struck = {}
    /\ conv = [c \in Conversation |-> "open"]
    /\ answer = [c \in Conversation |-> "idle"]
    /\ cites = {}

-----------------------------------------------------------------------------
(* import_document, one transaction: the file is moved to its final path   *)
(* inside it.  After a purge the same content becomes another document.    *)

Import(v) ==
    /\ Writable
    /\ v \notin uploaded
    /\ exists \/ ~Requested
    /\ exists' = TRUE
    /\ rows' = rows \cup {v}
    /\ uploaded' = uploaded \cup {v}
    /\ objects' = objects \cup {v}
    /\ UNCHANGED <<indexed, purges, workers, struck, chats>>

\* The transaction of a new version is rolled back after os.replace.
ImportRolledBack(v) ==
    /\ Writable
    /\ v \notin uploaded
    /\ exists
    /\ uploaded' = uploaded \cup {v}
    /\ objects' = objects \cup {v}
    /\ struck' = struck \cup {v}
    /\ UNCHANGED <<exists, rows, indexed, purges, workers, chats>>

-----------------------------------------------------------------------------
(* purge.                                                                  *)

CallTo(c, p) == call' = [call EXCEPT ![c] = p]

\* Either transaction finds the ledger completed.
AlreadyPurged(c) ==
    /\ call[c] \in {"new", "deleted"}
    /\ Writable
    /\ ledger = "completed"
    /\ CallTo(c, "already_purged")
    /\ UNCHANGED <<documents, objects, ledger, listed, lock, todo, failed, workers, struck, chats>>

NotFound(c) ==
    /\ call[c] = "new"
    /\ Writable
    /\ ~exists /\ ~Requested
    /\ CallTo(c, "not_found")
    /\ UNCHANGED <<documents, objects, ledger, listed, lock, todo, failed, workers, struck, chats>>

\* _related_conversation_ids
Related == Scoped \cup cites

\* The first transaction, with _purge_database_rows.
DeleteRows(c) ==
    /\ call[c] = "new"
    /\ Writable
    /\ ledger # "completed"
    /\ exists
    /\ ledger' = "database_deleted"
    /\ listed' = rows
    /\ exists' = FALSE
    /\ rows' = {} /\ indexed' = {}
    /\ conv' = [k \in Conversation |-> IF k \in Related THEN "gone" ELSE conv[k]]
    /\ cites' = cites \ Related
    /\ CallTo(c, "deleted")
    /\ UNCHANGED <<uploaded, objects, lock, todo, failed, workers, struck, answer>>

\* The first transaction of a call that finds a ledger row and no document.
Resume(c) ==
    /\ call[c] = "new"
    /\ Writable
    /\ ~exists
    /\ ledger \in {"database_deleted", "partial"}
    /\ CallTo(c, "deleted")
    /\ UNCHANGED <<documents, objects, ledger, listed, lock, todo, failed, workers, struck, chats>>

\* The ledger is not read again under the lock, for the mutants.
BeginCleanup_NoRecheck(c) ==
    /\ call[c] = "deleted"
    /\ Writable
    /\ lock' = c
    /\ todo' = [todo EXCEPT ![c] = listed]
    /\ CallTo(c, "removing")
    /\ UNCHANGED <<documents, objects, ledger, listed, failed, workers, struck, chats>>

\* The second transaction begins: it keeps the write lock to its end.
BeginCleanup(c) ==
    /\ call[c] = "deleted"
    /\ Writable
    /\ ledger # "completed"
    /\ lock' = c
    /\ todo' = [todo EXCEPT ![c] = listed]
    /\ CallTo(c, "removing")
    /\ UNCHANGED <<documents, objects, ledger, listed, failed, workers, struck, chats>>

\* _remove_version_objects succeeds, or raises an OSError.
RemoveObjects(c, v) ==
    /\ call[c] = "removing"
    /\ v \in todo[c]
    /\ todo' = [todo EXCEPT ![c] = @ \ {v}]
    /\ \/ /\ objects' = objects \ {v}
          /\ UNCHANGED failed
       \/ /\ v \in objects
          /\ failed' = [failed EXCEPT ![c] = TRUE]
          /\ UNCHANGED objects
    /\ UNCHANGED <<documents, ledger, listed, lock, call, workers, struck, chats>>

\* rebuild_workspace_index, which may raise.
RebuildIndex(c) ==
    /\ call[c] = "removing"
    /\ todo[c] = {}
    /\ \E broken \in BOOLEAN : failed' = [failed EXCEPT ![c] = @ \/ broken]
    /\ CallTo(c, "rebuilt")
    /\ UNCHANGED <<documents, objects, ledger, listed, lock, todo, workers, struck, chats>>

\* The ledger is written and the second transaction commits.
Finish(c) ==
    /\ call[c] = "rebuilt"
    /\ ledger' = IF failed[c] THEN "partial" ELSE "completed"
    /\ listed' = IF failed[c] THEN listed ELSE {}
    /\ lock' = NoCall
    /\ CallTo(c, ledger')
    /\ UNCHANGED <<documents, objects, todo, failed, workers, struck, chats>>

\* A call gives up after busy_timeout, or its process dies: what it did to
\* the object store stays, its transaction does not.
CallFails(c) ==
    /\ \/ call[c] \in {"new", "deleted"} /\ ~Writable
       \/ call[c] \in {"deleted", "removing", "rebuilt"}
    /\ CallTo(c, "error")
    /\ lock' = IF lock = c THEN NoCall ELSE lock
    /\ UNCHANGED <<documents, objects, ledger, listed, todo, failed, workers, struck, chats>>

-----------------------------------------------------------------------------
(* process_job.  A transaction of a worker succeeds only while the rows    *)
(* its foreign keys name exist.                                            *)

\* The same without foreign keys, for the mutants.
Commits_NoForeignKey(w) == Writable

Commits(w) == Writable /\ target[w] \in rows

GoTo(w, p) ==
    /\ pc' = [pc EXCEPT ![w] = p]
    /\ UNCHANGED target
Leave(w) ==
    /\ pc' = [pc EXCEPT ![w] = "idle"]
    /\ target' = [target EXCEPT ![w] = NoVersion]

\* discard_version_objects: an OSError is logged and forgotten.
Discard(v) ==
    \/ /\ objects' = objects \ {v}
       /\ UNCHANGED struck
    \/ /\ v \in objects
       /\ struck' = struck \cup {v}
       /\ UNCHANGED objects

Claim(w, v) ==
    /\ pc[w] = "idle"
    /\ Writable
    /\ v \in rows
    /\ pc' = [pc EXCEPT ![w] = "claimed"]
    /\ target' = [target EXCEPT ![w] = v]
    /\ UNCHANGED <<documents, objects, purges, struck, chats>>

\* _load_ingestion_job and _validate_ingestion_job
LoadJob(w) ==
    /\ pc[w] = "claimed"
    /\ IF target[w] \in rows THEN GoTo(w, "loaded") ELSE Leave(w)
    /\ UNCHANGED <<documents, objects, purges, struck, chats>>

\* _purge_requested, before the parser run and after the rendering.
CheckPurge(w) ==
    /\ pc[w] \in {"loaded", "rendered"}
    /\ IF Requested
       THEN Discard(target[w]) /\ Leave(w)
       ELSE /\ GoTo(w, IF pc[w] = "loaded" THEN "starting" ELSE "persisting")
            /\ UNCHANGED <<objects, struck>>
    /\ UNCHANGED <<documents, purges, chats>>

StartParserRun(w) ==
    /\ pc[w] = "starting"
    /\ Commits(w)
    /\ GoTo(w, "started")
    /\ UNCHANGED <<documents, objects, purges, struck, chats>>

\* Outside the try block: an invalid job, a failed transaction, a cancelled job.
LeaveEarly(w) ==
    /\ pc[w] \in {"loaded", "starting", "started"}
    /\ Leave(w)
    /\ UNCHANGED <<documents, objects, purges, struck, chats>>

EnterTry(w) ==
    /\ pc[w] = "started"
    /\ GoTo(w, "parsing")
    /\ UNCHANGED <<documents, objects, purges, struck, chats>>

\* parse_presentation reads the upload ...
Inspect(w) ==
    /\ pc[w] = "parsing"
    /\ target[w] \in objects
    /\ GoTo(w, "inspected")
    /\ UNCHANGED <<documents, objects, purges, struck, chats>>

\* ... and then makes its output directory, with the parents that are missing,
\* as render_slides does once more.
MakeDirectory(w) ==
    /\ \/ pc[w] = "inspected" /\ GoTo(w, "parsed")
       \/ pc[w] = "rendering" /\ GoTo(w, "rendered")
    /\ objects' = objects \cup {target[w]}
    /\ UNCHANGED <<documents, purges, struck, chats>>

AdvanceJob(w) ==
    /\ pc[w] = "parsed"
    /\ Commits(w)
    /\ GoTo(w, "rendering")
    /\ UNCHANGED <<documents, objects, purges, struck, chats>>

\* _finish_cancelled in the try block.
FinishCancelled(w) ==
    /\ pc[w] \in {"parsed", "rendered"}
    /\ Commits(w)
    /\ Leave(w)
    /\ UNCHANGED <<documents, objects, purges, struck, chats>>

PersistParsed(w) ==
    /\ pc[w] = "persisting"
    /\ Commits(w)
    /\ indexed' = indexed \cup {target[w]}
    /\ Leave(w)
    /\ UNCHANGED <<exists, rows, uploaded, objects, purges, struck, chats>>

\* A foreign key, the write lock, the file system, the parser.
Raise(w) ==
    /\ pc[w] \in Guarded \ {"failing"}
    /\ GoTo(w, "failing")
    /\ UNCHANGED <<documents, objects, purges, struck, chats>>

\* An except block that does not look for a purge, for the mutants.
HandleError_NoCheck(w) ==
    /\ pc[w] = "failing"
    /\ Leave(w)
    /\ UNCHANGED <<documents, objects, purges, struck, chats>>

\* The except block.  _record_ingestion_failure changes nothing seen here.
HandleError(w) ==
    /\ pc[w] = "failing"
    /\ Leave(w)
    /\ IF Requested THEN Discard(target[w]) ELSE UNCHANGED <<objects, struck>>
    /\ UNCHANGED <<documents, purges, chats>>

CrashWorker(w) ==
    /\ pc[w] # "idle"
    /\ Leave(w)
    /\ struck' = IF pc[w] \in Guarded THEN struck \cup {target[w]} ELSE struck
    /\ UNCHANGED <<documents, objects, purges, chats>>

WorkerStep(w) ==
    \/ LoadJob(w) \/ CheckPurge(w) \/ StartParserRun(w) \/ LeaveEarly(w) \/ EnterTry(w)
    \/ Inspect(w) \/ MakeDirectory(w) \/ AdvanceJob(w) \/ FinishCancelled(w)
    \/ PersistParsed(w) \/ Raise(w) \/ HandleError(w)

-----------------------------------------------------------------------------
(* An answer run of a conversation.                                        *)

\* prepare and answer: evidence is read outside any transaction.
Retrieve(k) ==
    /\ conv[k] = "open"
    /\ answer[k] = "idle"
    /\ indexed # {}
    /\ answer' = [answer EXCEPT ![k] = "evidence"]
    /\ UNCHANGED <<documents, objects, purges, workers, struck, conv, cites>>

\* No foreign key from the citation to its message, for the mutants.
CompleteAnswer_NoForeignKey(k) ==
    /\ answer[k] = "evidence"
    /\ Writable
    /\ cites' = cites \cup {k}
    /\ answer' = [answer EXCEPT ![k] = "idle"]
    /\ UNCHANGED <<documents, objects, purges, workers, struck, conv>>

\* complete: a citation names its message by a foreign key, its version does not.
CompleteAnswer(k) ==
    /\ answer[k] = "evidence"
    /\ Writable
    /\ conv[k] = "open"
    /\ cites' = cites \cup {k}
    /\ answer' = [answer EXCEPT ![k] = "idle"]
    /\ UNCHANGED <<documents, objects, purges, workers, struck, conv>>

\* The run fails, or its worker is gone.
DropAnswer(k) ==
    /\ answer[k] = "evidence"
    /\ answer' = [answer EXCEPT ![k] = "idle"]
    /\ UNCHANGED <<documents, objects, purges, workers, struck, conv, cites>>

-----------------------------------------------------------------------------
Next ==
    \/ \E v \in Version : Import(v) \/ ImportRolledBack(v)
    \/ \E c \in Call :
        \/ AlreadyPurged(c) \/ NotFound(c) \/ DeleteRows(c) \/ Resume(c) \/ BeginCleanup(c)
        \/ RebuildIndex(c) \/ Finish(c) \/ CallFails(c)
        \/ \E v \in Version : RemoveObjects(c, v)
    \/ \E w \in Worker :
        \/ WorkerStep(w) \/ CrashWorker(w)
        \/ \E v \in Version : Claim(w, v)
    \/ \E k \in Conversation : Retrieve(k) \/ CompleteAnswer(k) \/ DropAnswer(k)

Spec == Init /\ [][Next]_vars

-----------------------------------------------------------------------------
Orphan(v) ==
    /\ v \in objects
    /\ v \notin rows /\ v \notin listed
    /\ \A w \in Worker : ~(target[w] = v /\ pc[w] \in Guarded)

\* Every stored object is reachable from a version row or from the ledger of
\* an unfinished purge, or a worker is still going to discard it, unless a
\* fault struck its version: no order of purge and ingestion leaks objects.
ObjectsAreAccounted == \A v \in Version : Orphan(v) => v \in struck

\* Whatever calls race or follow each other, one does the cleanup and says
\* so; every other call that succeeds answers "already purged".
CleanupOnce ==
    /\ \A c, d \in Call : call[c] = "completed" /\ call[d] = "completed" => c = d
    /\ \A c \in Call : call[c] \in {"completed", "already_purged"} => ledger = "completed" /\ ~exists

\* Once a purge has begun no conversation about the document cites it, also
\* when its answer was under way.
ScopedConversationsForget == Requested => cites \cap Scoped = {}

\* A purge "removes relational data ... together": once it has begun, no
\* citation of the document is left.
NoCitationOfPurged == Requested => cites = {}
====

---- MODULE IngestionJobs ----
(***************************************************************************)
(* The ingestion queue: each uploaded version of a document has a job,     *)
(* which a worker claims under a lease and drives through parsing,         *)
(* rendering and persistence, while the user may cancel it, retry it or    *)
(* delete the document.  Every action is one SQLite transaction or one     *)
(* read of the worker between two of them.  Leases and time are as in      *)
(* AnswerRuns; purge is not part of this module.                           *)
(***************************************************************************)
EXTENDS Naturals, Sequences, FiniteSets

CONSTANTS
    Job,             \* the rows of "ingestion_jobs", one per version; ordered by created_at
    Document,
    DocOf,           \* the document whose version the job ingests
    Worker, OwnerId, WorkerId, NoOwner,
    MaxAttempts,     \* workers.job_max_attempts
    LeaseTicks, HeartbeatTicks, LockWait, MaxSilence,
    MaxRetries,      \* bound on the calls of retry_job, per job
    MaxFaults        \* bound on the crashes and unrecorded exceptions of workers

ASSUME JobsAssumption ==
    /\ Job \subseteq Nat \ {0}
    /\ DocOf \in [Job -> Document]
    /\ WorkerId \in [Worker -> OwnerId]
    /\ NoOwner \notin OwnerId
    /\ MaxAttempts \in Nat \ {0}
    /\ LeaseTicks \in Nat /\ HeartbeatTicks \in Nat
    /\ 0 < HeartbeatTicks /\ HeartbeatTicks < LeaseTicks
    /\ LockWait \in Nat
    /\ MaxSilence \in Nat /\ HeartbeatTicks <= MaxSilence
    /\ MaxRetries \in Nat /\ MaxFaults \in Nat

VARIABLES
    job,      \* ingestion_jobs.status, "absent" before the upload
    stage,    \* ingestion_jobs.current_stage
    attempts, \* ingestion_jobs.attempts
    cancel,   \* ingestion_jobs.cancel_requested
    owner,    \* ingestion_jobs.lease_owner
    ttl,      \* ticks left before ingestion_jobs.lease_expires_at
    parser,   \* the statuses of the version's parser_runs, oldest first
    active,   \* document_versions.active_parser_run_id: a position in parser, or 0
    doc,      \* documents.status
    deleted,  \* documents.deleted_at is set
    retries,  \* calls of retry_job
    pc,       \* where each worker is in process_job
    held,     \* the job it executes
    mine,     \* the parser run it started
    silence,  \* ticks since its heartbeat last refreshed the lease
    faults    \* crashes and unrecorded exceptions so far

lease == <<owner, ttl>>
documents == <<parser, active, doc, deleted>>
procs == <<pc, held, mine, silence, faults>>
vars == <<job, stage, attempts, cancel, lease, documents, retries, procs>>

NoJob == 0
Outcome == {"ready", "partial"}
Terminal == Outcome \cup {"failed", "cancelled"}
JobStatus == {"absent", "pending", "running"} \cup Terminal
Busy == {"claimed", "loaded", "started", "parsing", "parsed", "rendering", "rendered",
         "enriched", "cancelling", "aborting"}
\* Inside the try block of process_job.
Guarded == {"parsing", "parsed", "rendering", "rendered", "enriched", "aborting"}
Executing(w) == pc[w] \in Busy
Attempt == 0..(MaxAttempts + MaxRetries + MaxFaults)

TypeOK ==
    /\ job \in [Job -> JobStatus]
    /\ stage \in [Job -> {"none", "queued", "validating", "native_parsing", "rendering",
                          "visual_enrichment", "completed", "retry_wait", "failed", "cancelled"}]
    /\ attempts \in [Job -> Attempt]
    /\ cancel \in [Job -> BOOLEAN]
    /\ owner \in [Job -> OwnerId \cup {NoOwner}]
    /\ ttl \in [Job -> 0..LeaseTicks]
    /\ parser \in [Job -> Seq({"running", "ready", "partial", "failed", "cancelled"})]
    /\ active \in [Job -> Nat]
    /\ doc \in [Document -> {"absent", "processing", "deleted"} \cup Terminal]
    /\ deleted \in [Document -> BOOLEAN]
    /\ retries \in [Job -> 0..MaxRetries]
    /\ pc \in [Worker -> {"idle", "down"} \cup Busy]
    /\ held \in [Worker -> Job \cup {NoJob}]
    /\ mine \in [Worker -> Nat]
    /\ silence \in [Worker -> 0..MaxSilence]
    /\ faults \in 0..MaxFaults

Init ==
    /\ job = [j \in Job |-> "absent"]
    /\ stage = [j \in Job |-> "none"]
    /\ attempts = [j \in Job |-> 0]
    /\ cancel = [j \in Job |-> FALSE]
    /\ owner = [j \in Job |-> NoOwner]
    /\ ttl = [j \in Job |-> 0]
    /\ parser = [j \in Job |-> <<>>]
    /\ active = [j \in Job |-> 0]
    /\ doc = [d \in Document |-> "absent"]
    /\ deleted = [d \in Document |-> FALSE]
    /\ retries = [j \in Job |-> 0]
    /\ pc = [w \in Worker |-> "idle"]
    /\ held = [w \in Worker |-> NoJob]
    /\ mine = [w \in Worker |-> 0]
    /\ silence = [w \in Worker |-> 0]
    /\ faults = 0

-----------------------------------------------------------------------------
(* The API process.                                                        *)

\* import_document: a new document, or a new version of one not deleted.
Import(j) ==
    /\ job[j] = "absent"
    /\ ~deleted[DocOf[j]]
    /\ job' = [job EXCEPT ![j] = "pending"]
    /\ stage' = [stage EXCEPT ![j] = "queued"]
    /\ doc' = [doc EXCEPT ![DocOf[j]] = "processing"]
    /\ UNCHANGED <<attempts, cancel, lease, parser, active, deleted, retries, procs>>

\* cancel_job of a pending job takes effect at once, of a running job when
\* its worker looks.
CancelPending(j) ==
    /\ job[j] = "pending"
    /\ job' = [job EXCEPT ![j] = "cancelled"]
    /\ stage' = [stage EXCEPT ![j] = "cancelled"]
    /\ cancel' = [cancel EXCEPT ![j] = TRUE]
    /\ doc' = [doc EXCEPT ![DocOf[j]] = "cancelled"]
    /\ UNCHANGED <<attempts, lease, parser, active, deleted, retries, procs>>

CancelRunning(j) ==
    /\ job[j] = "running"
    /\ cancel' = [cancel EXCEPT ![j] = TRUE]
    /\ UNCHANGED <<job, stage, attempts, lease, documents, retries, procs>>

\* retry_job.  The attempts are kept, and the document is not looked at.
RetryJob(j) ==
    /\ job[j] \in {"failed", "partial", "cancelled"}
    /\ retries[j] < MaxRetries
    /\ retries' = [retries EXCEPT ![j] = @ + 1]
    /\ job' = [job EXCEPT ![j] = "pending"]
    /\ stage' = [stage EXCEPT ![j] = "queued"]
    /\ cancel' = [cancel EXCEPT ![j] = FALSE]
    /\ owner' = [owner EXCEPT ![j] = NoOwner]
    /\ ttl' = [ttl EXCEPT ![j] = 0]
    /\ doc' = [doc EXCEPT ![DocOf[j]] = "processing"]
    /\ UNCHANGED <<attempts, parser, active, deleted, procs>>

\* delete_document: a soft deletion; the jobs of the document go on.
DeleteDocument(d) ==
    /\ doc[d] # "absent"
    /\ ~deleted[d]
    /\ deleted' = [deleted EXCEPT ![d] = TRUE]
    /\ doc' = [doc EXCEPT ![d] = "deleted"]
    /\ UNCHANGED <<job, stage, attempts, cancel, lease, parser, active, retries, procs>>

-----------------------------------------------------------------------------
(* A worker process.                                                       *)

\* Variants of the WHERE clause of process_next_job, for the mutants: the
\* lease is not looked at; expired leases are not; their status is not.
Eligible_IgnoresLease(j) == job[j] \in {"pending", "running"}
Eligible_NeverReclaims(j) == job[j] = "pending"
Eligible_LeaseOnly(j) == job[j] = "pending" \/ (job[j] # "absent" /\ ttl[j] = 0)

\* The WHERE clause of process_next_job: the attempts are not bounded here.
Eligible(j) == job[j] = "pending" \/ (job[j] = "running" /\ ttl[j] = 0)

Claim(w, j) ==
    /\ pc[w] = "idle"
    /\ Eligible(j)
    /\ \A k \in Job : Eligible(k) => j <= k
    /\ job' = [job EXCEPT ![j] = "running"]
    /\ stage' = [stage EXCEPT ![j] = "validating"]
    /\ attempts' = [attempts EXCEPT ![j] = @ + 1]
    /\ owner' = [owner EXCEPT ![j] = WorkerId[w]]
    /\ \E delay \in 0..LockWait :
          ttl' = [ttl EXCEPT ![j] = IF delay < LeaseTicks THEN LeaseTicks - delay ELSE 0]
    /\ pc' = [pc EXCEPT ![w] = "claimed"]
    /\ held' = [held EXCEPT ![w] = j]
    /\ mine' = [mine EXCEPT ![w] = 0]
    /\ silence' = [silence EXCEPT ![w] = 0]
    /\ UNCHANGED <<cancel, documents, retries, faults>>

\* The worker leaves process_next_job.
Release(w) ==
    /\ pc' = [pc EXCEPT ![w] = "idle"]
    /\ held' = [held EXCEPT ![w] = NoJob]
    /\ mine' = [mine EXCEPT ![w] = 0]
    /\ silence' = [silence EXCEPT ![w] = 0]

\* _load_ingestion_job and _validate_ingestion_job; a job that is over makes
\* it raise, and nothing is recorded.
Load(w) ==
    /\ pc[w] = "claimed"
    /\ job[held[w]] \in {"running", "pending"}
    /\ pc' = [pc EXCEPT ![w] = "loaded"]
    /\ UNCHANGED <<job, stage, attempts, cancel, lease, documents, retries, held, mine, silence, faults>>

Refuse(w) ==
    /\ pc[w] = "claimed"
    /\ job[held[w]] \notin {"running", "pending"}
    /\ Release(w)
    /\ UNCHANGED <<job, stage, attempts, cancel, lease, documents, retries, faults>>

\* _start_parser_run
StartParserRun(w) ==
    LET j == held[w] IN
    /\ pc[w] = "loaded"
    /\ parser' = [parser EXCEPT ![j] = Append(@, "running")]
    /\ mine' = [mine EXCEPT ![w] = Len(parser[j]) + 1]
    /\ stage' = [stage EXCEPT ![j] = "native_parsing"]
    /\ pc' = [pc EXCEPT ![w] = "started"]
    /\ UNCHANGED <<job, attempts, cancel, lease, active, doc, deleted, retries, held, silence, faults>>

\* The reads of cancel_requested before parsing, after it and after
\* rendering, the first outside the try block; what a worker that sees no
\* request does next.
AfterCheck == [started |-> "parsing", parsing |-> "parsed", rendering |-> "rendered"]

\* A check for the mutants that never sees the request.
CancelSeen_Never(w) == FALSE
\* _cancel_requested
CancelSeen(w) == cancel[held[w]]

CheckCancel(w) ==
    /\ pc[w] \in DOMAIN AfterCheck
    /\ pc' = [pc EXCEPT ![w] = IF ~CancelSeen(w) THEN AfterCheck[@]
                               ELSE IF @ = "started" THEN "cancelling" ELSE "aborting"]
    /\ UNCHANGED <<job, stage, attempts, cancel, lease, documents, retries, held, mine, silence, faults>>

\* _finish_cancelled, a transaction of its own after the check.
FinishCancelled(w) ==
    LET j == held[w] IN
    /\ pc[w] \in {"cancelling", "aborting"}
    /\ parser' = [parser EXCEPT ![j][mine[w]] = "cancelled"]
    /\ job' = [job EXCEPT ![j] = "cancelled"]
    /\ stage' = [stage EXCEPT ![j] = "cancelled"]
    /\ owner' = [owner EXCEPT ![j] = NoOwner]
    /\ ttl' = [ttl EXCEPT ![j] = 0]
    /\ doc' = [doc EXCEPT ![DocOf[j]] = "cancelled"]
    /\ Release(w)
    /\ UNCHANGED <<attempts, cancel, active, deleted, retries, faults>>

\* _advance_job before rendering, and before the optional visual enrichment.
Advance(w) ==
    \E step \in {<<"parsed", "rendering", "rendering">>,
                 <<"rendered", "enriched", "visual_enrichment">>} :
        /\ pc[w] = step[1]
        /\ pc' = [pc EXCEPT ![w] = step[2]]
        /\ stage' = [stage EXCEPT ![held[w]] = step[3]]
        /\ UNCHANGED <<job, attempts, cancel, lease, documents, retries, held, mine, silence, faults>>

\* The parser run persist_parsed activates, mutated: the version's first.
Activated_First(w) == 1
\* The parser run persist_parsed activates.
Activated(w) == mine[w]

\* persist_parsed.  It looks at neither status, owner nor cancel_requested.
Persist(w, outcome) ==
    LET j == held[w] IN
    /\ pc[w] \in {"rendered", "enriched"}
    /\ parser' = [parser EXCEPT ![j][mine[w]] = outcome]
    /\ active' = [active EXCEPT ![j] = Activated(w)]
    /\ doc' = [doc EXCEPT ![DocOf[j]] = outcome]
    /\ job' = [job EXCEPT ![j] = outcome]
    /\ stage' = [stage EXCEPT ![j] = "completed"]
    /\ owner' = [owner EXCEPT ![j] = NoOwner]
    /\ ttl' = [ttl EXCEPT ![j] = 0]
    /\ Release(w)
    /\ UNCHANGED <<attempts, cancel, deleted, retries, faults>>

\* The document status _record_ingestion_failure writes, mutated: as if the
\* job were always over; as if it never were.
FailedDocStatus_NoRetry(retrying) == "failed"
FailedDocStatus_Unchanged(retrying) == "processing"
\* The document status _record_ingestion_failure writes.
FailedDocStatus(retrying) == IF retrying THEN "processing" ELSE "failed"

\* _record_ingestion_failure after an exception inside the try block.
Fail(w) ==
    LET j == held[w]
        retrying == attempts[j] < MaxAttempts IN
    /\ pc[w] \in Guarded
    /\ parser' = [parser EXCEPT ![j][mine[w]] = "failed"]
    /\ job' = [job EXCEPT ![j] = IF retrying THEN "pending" ELSE "failed"]
    /\ stage' = [stage EXCEPT ![j] = IF retrying THEN "retry_wait" ELSE "failed"]
    /\ owner' = [owner EXCEPT ![j] = NoOwner]
    /\ ttl' = [ttl EXCEPT ![j] = 0]
    /\ doc' = [doc EXCEPT ![DocOf[j]] = FailedDocStatus(retrying)]
    /\ Release(w)
    /\ UNCHANGED <<attempts, cancel, active, deleted, retries, faults>>

\* An exception outside the try block, or while the failure is recorded.
Abandon(w) ==
    /\ Executing(w)
    /\ faults < MaxFaults
    /\ faults' = faults + 1
    /\ Release(w)
    /\ UNCHANGED <<job, stage, attempts, cancel, lease, documents, retries>>

Beat(w) ==
    /\ Executing(w)
    /\ silence[w] >= HeartbeatTicks
    /\ ttl' = [ttl EXCEPT ![held[w]] =
                  IF job[held[w]] = "running" /\ owner[held[w]] = WorkerId[w]
                  THEN LeaseTicks ELSE @]
    /\ silence' = [silence EXCEPT ![w] = 0]
    /\ UNCHANGED <<job, stage, attempts, cancel, owner, documents, retries, pc, held, mine, faults>>

Crash(w) ==
    /\ Executing(w)
    /\ faults < MaxFaults
    /\ faults' = faults + 1
    /\ pc' = [pc EXCEPT ![w] = "down"]
    /\ held' = [held EXCEPT ![w] = NoJob]
    /\ mine' = [mine EXCEPT ![w] = 0]
    /\ silence' = [silence EXCEPT ![w] = 0]
    /\ UNCHANGED <<job, stage, attempts, cancel, lease, documents, retries>>

Restart(w) ==
    /\ pc[w] = "down"
    /\ pc' = [pc EXCEPT ![w] = "idle"]
    /\ UNCHANGED <<job, stage, attempts, cancel, lease, documents, retries, held, mine, silence, faults>>

Tick ==
    /\ \A w \in Worker : Executing(w) => silence[w] < MaxSilence
    /\ ttl' = [j \in Job |-> IF ttl[j] > 0 THEN ttl[j] - 1 ELSE 0]
    /\ silence' = [w \in Worker |-> IF Executing(w) THEN silence[w] + 1 ELSE silence[w]]
    /\ UNCHANGED <<job, stage, attempts, cancel, owner, documents, retries, pc, held, mine, faults>>

-----------------------------------------------------------------------------
\* One step of process_job.
Proceed(w) ==
    \/ Load(w) \/ Refuse(w) \/ StartParserRun(w) \/ CheckCancel(w) \/ FinishCancelled(w)
    \/ Advance(w) \/ Fail(w)
    \/ \E outcome \in Outcome : Persist(w, outcome)

Next ==
    \/ \E j \in Job : Import(j) \/ CancelPending(j) \/ CancelRunning(j) \/ RetryJob(j)
    \/ \E d \in Document : DeleteDocument(d)
    \/ \E w \in Worker :
          \/ \E j \in Job : Claim(w, j)
          \/ Proceed(w)
          \/ Abandon(w)
          \/ Beat(w)
          \/ Crash(w)
          \/ Restart(w)
    \/ Tick

Spec == Init /\ [][Next]_vars

\* As for the answer runs; the worker loop comes to the jobs whenever no
\* answer run is waiting.
Fairness ==
    /\ \A w \in Worker :
          /\ WF_vars(\E j \in Job : Claim(w, j))
          /\ WF_vars(Proceed(w))
          /\ WF_vars(Beat(w))
          /\ WF_vars(Restart(w))
    /\ WF_vars(Tick)

FairSpec == Spec /\ Fairness

-----------------------------------------------------------------------------
(* Correctness.                                                            *)

\* The lease outlives the longest silence of a live worker's heartbeat, and
\* what the wait for the write lock took from it at the claim.
LeaseSlack == MaxSilence + LockWait < LeaseTicks

\* At most one live worker executes a job (process_next_job, leases.py).
SingleExecutor ==
    \A v, w \in Worker :
        Executing(v) /\ Executing(w) /\ held[v] = held[w] => v = w

\* Status and stage of a job agree, so the progress shown to the user never
\* contradicts the outcome (_advance_job writes the stage unconditionally).
StageAgrees ==
    \A j \in Job :
        /\ job[j] \in Outcome <=> stage[j] = "completed"
        /\ job[j] = "pending" <=> stage[j] \in {"queued", "retry_wait"}
        /\ \A s \in {"failed", "cancelled"} : job[j] = s <=> stage[j] = s

\* The version a finished job leaves active is the parse it reported: a
\* parser run that ended with the status of the job, and no other attempt's.
ActiveParseIsReported ==
    \A j \in Job :
        /\ active[j] \in 0..Len(parser[j])
        /\ active[j] # 0 => parser[j][active[j]] \in Outcome
        /\ job[j] \in Outcome => active[j] # 0 /\ parser[j][active[j]] = job[j]

\* A document that has one version and is not deleted shows what became of
\* that version's job (documents.status is written by six transactions).
DocumentShowsJob ==
    \A j \in Job :
        /\ job[j] # "absent"
        /\ ~deleted[DocOf[j]]
        /\ \A k \in Job : DocOf[k] = DocOf[j] => k = j
        => doc[DocOf[j]] = IF job[j] \in Terminal THEN job[j] ELSE "processing"

\* The three records of an attempt, in three tables and from a dozen
\* transactions, agree at any moment: status and stage of the job, the active
\* parser run, and the document the user sees.
RecordsAgree == StageAgrees /\ ActiveParseIsReported /\ DocumentShowsJob

\* A document none of whose versions is still being worked on never stays
\* "processing": it shows the end of one of their jobs, whichever of them was
\* written last.
DocumentSettles ==
    \A d \in Document :
        LET uploads == {j \in Job : DocOf[j] = d /\ job[j] # "absent"} IN
        /\ uploads # {}
        /\ \A j \in uploads : job[j] \in Terminal
        /\ ~deleted[d]
        => \E j \in uploads : doc[d] = job[j]

Transition ==
    {<<"absent", "pending">>, <<"pending", "running">>, <<"pending", "cancelled">>}
        \cup {<<"running", s>> : s \in Terminal \cup {"pending"}}
        \cup {<<s, "pending">> : s \in {"failed", "partial", "cancelled"}}
        \cup {<<s, s>> : s \in JobStatus}

\* A step moves a job only along its state machine: a finished parse is never
\* reopened, an ended job goes on only by retry_job.
LegalTransitions ==
    [][\A j \in Job :
          /\ <<job[j], job'[j]>> \in Transition
          /\ job[j] \in Terminal /\ job'[j] # job[j] => retries'[j] = retries[j] + 1]_vars

\* A cancellation that was requested before an attempt began ends the job as
\* cancelled, whatever fails in between (cancel_requested survives fail).
CancelWins == \A j \in Job : (job[j] = "pending" /\ cancel[j]) ~> job[j] = "cancelled"

\* Every job ends, even when workers crash in it: expired leases are claimed
\* again whatever the number of attempts.
JobsEnd == \A j \in Job : job[j] = "pending" ~> job[j] \in Terminal

\* "leases, heartbeats, and bounded retries" (README.md:40): without retries
\* by the user a job is attempted at most MaxAttempts times.
AttemptsBounded == \A j \in Job : attempts[j] <= MaxAttempts

====

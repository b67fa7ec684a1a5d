---- MODULE AnswerRuns ----
(***************************************************************************)
(* The answer-run queue: questions become rows of the table "runs", and    *)
(* worker processes claim them under a lease, execute them and record the  *)
(* outcome.  Every action is one SQLite transaction (BEGIN IMMEDIATE, so   *)
(* writers are serialized) or one step of a worker process between two     *)
(* transactions.                                                           *)
(*                                                                         *)
(* Time is counted in ticks.  A lease is kept as the ticks it still has,   *)
(* ttl[r]; the row's lease_expires_at lies in the past exactly when        *)
(* ttl[r] = 0.  A worker's heartbeat thread refreshes the lease of the run *)
(* it holds; silence[w] counts the ticks since its last refresh.           *)
(***************************************************************************)
EXTENDS Naturals, Sequences, FiniteSets

CONSTANTS
    Run,             \* the rows of "runs"; the order on numbers is (created_at, rowid)
    Worker,          \* processes that call process_next_run (worker containers, the inline worker)
    OwnerId,         \* the strings written to lease_owner
    WorkerId,        \* the owner string of each worker: "worker-{pid}", not always distinct
    NoOwner,         \* lease_owner IS NULL
    Conversation,
    ConvOf,          \* the conversation each run belongs to
    MaxAttempts,     \* workers.max_attempts
    LeaseTicks,      \* LeasePolicy.lease_seconds
    HeartbeatTicks,  \* LeasePolicy.heartbeat_seconds
    LockWait,        \* longest wait for the write lock (busy_timeout)
    MaxSilence,      \* longest time a live worker goes without refreshing its lease
    DbErrors,        \* whether prepare and fail may themselves raise
    MaxCrashes       \* bound on the number of worker crashes

\* What Settings.validate and LeasePolicy.__post_init__ enforce, and how the
\* bounds of the model relate: a refresh comes no sooner than the heartbeat period.
ASSUME RunsAssumption ==
    /\ Run \subseteq Nat \ {0}
    /\ WorkerId \in [Worker -> OwnerId]
    /\ NoOwner \notin OwnerId
    /\ ConvOf \in [Run -> Conversation]
    /\ MaxAttempts \in Nat \ {0}
    /\ LeaseTicks \in Nat /\ HeartbeatTicks \in Nat
    /\ 0 < HeartbeatTicks /\ HeartbeatTicks < LeaseTicks
    /\ LockWait \in Nat
    /\ MaxSilence \in Nat /\ HeartbeatTicks <= MaxSilence
    /\ DbErrors \in BOOLEAN
    /\ MaxCrashes \in Nat

VARIABLES
    conv,       \* conversations.id exists: "open" or "deleted"
    run,        \* runs.status; "absent" before the INSERT, "deleted" after the DELETE
    attempts,   \* runs.attempts
    owner,      \* runs.lease_owner
    ttl,        \* ticks left before runs.lease_expires_at
    message,    \* status of the assistant message; "none" when there is no row
    citations,  \* how many times the citations of an answer were inserted
    log,        \* run_events of the run, in the order of their ids
    pc,         \* where each worker process is
    held,       \* the run a worker executes
    silence,    \* ticks since the worker's heartbeat last refreshed
    crashes     \* crashes so far

rows == <<attempts, owner, ttl, message, citations, log>>
procs == <<pc, held, silence, crashes>>
vars == <<conv, run, rows, procs>>

NoRun == 0
RunStatus == {"absent", "pending", "running", "completed", "failed", "deleted"}
Terminal == {"completed", "failed"}
MessageStatus == {"none", "running", "completed", "failed"}
EventType == {"queued", "run_started", "warning", "answer_delta", "completed", "error"}
TerminalEvent == {"completed", "error"}

Executing(w) == pc[w] \in {"claimed", "working"}
Exists(r) == run[r] \notin {"absent", "deleted"}

TypeOK ==
    /\ conv \in [Conversation -> {"open", "deleted"}]
    /\ run \in [Run -> RunStatus]
    /\ attempts \in [Run -> 0..MaxAttempts]
    /\ owner \in [Run -> OwnerId \cup {NoOwner}]
    /\ ttl \in [Run -> 0..LeaseTicks]
    /\ message \in [Run -> MessageStatus]
    /\ citations \in [Run -> Nat]
    /\ log \in [Run -> Seq(EventType)]
    /\ pc \in [Worker -> {"idle", "claimed", "working", "down"}]
    /\ held \in [Worker -> Run \cup {NoRun}]
    /\ silence \in [Worker -> 0..MaxSilence]
    /\ crashes \in 0..MaxCrashes

Init ==
    /\ conv = [c \in Conversation |-> "open"]
    /\ run = [r \in Run |-> "absent"]
    /\ attempts = [r \in Run |-> 0]
    /\ owner = [r \in Run |-> NoOwner]
    /\ ttl = [r \in Run |-> 0]
    /\ message = [r \in Run |-> "none"]
    /\ citations = [r \in Run |-> 0]
    /\ log = [r \in Run |-> <<>>]
    /\ pc = [w \in Worker |-> "idle"]
    /\ held = [w \in Worker |-> NoRun]
    /\ silence = [w \in Worker |-> 0]
    /\ crashes = 0

-----------------------------------------------------------------------------
(* The API process.                                                        *)

\* QAService.ask: the user and assistant messages, the run and its "queued"
\* event are written in one transaction.  When the conversation is gone the
\* INSERT breaks its foreign key and nothing is written.
Ask(r) ==
    /\ conv[ConvOf[r]] = "open"
    /\ run[r] = "absent"
    /\ run' = [run EXCEPT ![r] = "pending"]
    /\ message' = [message EXCEPT ![r] = "running"]
    /\ log' = [log EXCEPT ![r] = <<"queued">>]
    /\ UNCHANGED <<conv, attempts, owner, ttl, citations, procs>>

\* DELETE of the runs, messages, citations and events of conversation c.
RemoveConversation(c) ==
    LET gone == {r \in Run : ConvOf[r] = c /\ run[r] # "absent"} IN
    /\ conv' = [conv EXCEPT ![c] = "deleted"]
    /\ run' = [r \in Run |-> IF r \in gone THEN "deleted" ELSE run[r]]
    /\ attempts' = [r \in Run |-> IF r \in gone THEN 0 ELSE attempts[r]]
    /\ owner' = [r \in Run |-> IF r \in gone THEN NoOwner ELSE owner[r]]
    /\ ttl' = [r \in Run |-> IF r \in gone THEN 0 ELSE ttl[r]]
    /\ message' = [r \in Run |-> IF r \in gone THEN "none" ELSE message[r]]
    /\ citations' = [r \in Run |-> IF r \in gone THEN 0 ELSE citations[r]]
    /\ log' = [r \in Run |-> IF r \in gone THEN <<>> ELSE log[r]]
    /\ UNCHANGED procs

\* delete_conversation refuses while a run of the conversation is active.
DeleteConversation(c) ==
    /\ conv[c] = "open"
    /\ \A r \in Run : ConvOf[r] = c => run[r] \notin {"pending", "running"}
    /\ RemoveConversation(c)

\* A document purge removes the conversations related to the document,
\* whatever the state of their runs.
PurgeConversation(c) ==
    /\ conv[c] = "open"
    /\ RemoveConversation(c)

-----------------------------------------------------------------------------
(* A worker process.                                                       *)

\* Variants of the WHERE clause of claim_next, for the mutants: the lease is
\* not looked at; an expired lease is not; the status of an expired row is not;
\* the attempts are not.
Eligible_IgnoresLease(r) ==
    attempts[r] < MaxAttempts /\ run[r] \in {"pending", "running"}
Eligible_NeverReclaims(r) ==
    attempts[r] < MaxAttempts /\ run[r] = "pending"
Eligible_LeaseOnly(r) ==
    attempts[r] < MaxAttempts /\ (run[r] = "pending" \/ (Exists(r) /\ ttl[r] = 0))
Eligible_Unbounded(r) ==
    run[r] = "pending" \/ (run[r] = "running" /\ ttl[r] = 0)

\* The WHERE clause of claim_next.
Eligible(r) ==
    /\ attempts[r] < MaxAttempts
    /\ run[r] = "pending" \/ (run[r] = "running" /\ ttl[r] = 0)

\* claim_next takes the oldest eligible run.  The expiry was computed up to
\* LockWait ticks before the transaction got the write lock.
Claim(w, r) ==
    /\ pc[w] = "idle"
    /\ Eligible(r)
    /\ \A s \in Run : Eligible(s) => r <= s
    /\ run' = [run EXCEPT ![r] = "running"]
    /\ attempts' = [attempts EXCEPT ![r] = @ + 1]
    /\ owner' = [owner EXCEPT ![r] = WorkerId[w]]
    /\ \E delay \in 0..LockWait :
          ttl' = [ttl EXCEPT ![r] = IF delay < LeaseTicks THEN LeaseTicks - delay ELSE 0]
    /\ log' = [log EXCEPT ![r] = Append(@, "run_started")]
    /\ pc' = [pc EXCEPT ![w] = "claimed"]
    /\ held' = [held EXCEPT ![w] = r]
    /\ silence' = [silence EXCEPT ![w] = 0]
    /\ UNCHANGED <<conv, message, citations, crashes>>

\* RunRepository.prepare finds the run and its question.
Prepare(w) ==
    /\ pc[w] = "claimed"
    /\ Exists(held[w])
    /\ pc' = [pc EXCEPT ![w] = "working"]
    /\ UNCHANGED <<conv, run, rows, held, silence, crashes>>

\* The worker leaves process_next_run: the heartbeat ends with it.
Release(w) ==
    /\ pc' = [pc EXCEPT ![w] = "idle"]
    /\ held' = [held EXCEPT ![w] = NoRun]
    /\ silence' = [silence EXCEPT ![w] = 0]
    /\ UNCHANGED crashes

\* The same without the foreign key, for the mutants: an event is written.
WriteToRemoved_Leaks(w) ==
    /\ log' = [log EXCEPT ![held[w]] = Append(@, "warning")]
    /\ UNCHANGED <<conv, run, attempts, owner, ttl, message, citations>>

\* Nothing is written for a run that was removed meanwhile: prepare raises
\* ResourceNotFound, and every write of execute, complete and fail appends
\* an event, whose foreign key fails and rolls the transaction back.
WriteToRemoved(w) == UNCHANGED <<conv, run, rows>>

Vanished(w) ==
    /\ Executing(w)
    /\ run[held[w]] = "deleted"
    /\ WriteToRemoved(w)
    /\ Release(w)

\* The events of complete in the wrong order, for the mutants.
CompletionEvents_Swapped(l) == Append(Append(l, "completed"), "answer_delta")

\* The events of complete: citations, deltas and the model, in one event
\* here, then "completed".
CompletionEvents(l) == Append(Append(l, "answer_delta"), "completed")

\* RunRepository.complete.  It looks neither at the status nor at the owner.
Complete(w) ==
    LET r == held[w] IN
    /\ pc[w] = "working"
    /\ Exists(r)
    /\ message' = [message EXCEPT ![r] = "completed"]
    /\ citations' = [citations EXCEPT ![r] = @ + 1]
    /\ log' = [log EXCEPT ![r] = CompletionEvents(@)]
    /\ run' = [run EXCEPT ![r] = "completed"]
    /\ owner' = [owner EXCEPT ![r] = NoOwner]
    /\ ttl' = [ttl EXCEPT ![r] = 0]
    /\ Release(w)
    /\ UNCHANGED <<conv, attempts>>

\* Variants of the test of fail, for the mutants: one retry less, no end.
Retrying_TooFew(r) == attempts[r] + 1 < MaxAttempts
Retrying_Always(r) == TRUE

\* Whether fail puts the run back into the queue.
Retrying(r) == attempts[r] < MaxAttempts

\* RunRepository.fail after an exception of the pipeline, with attempts left:
\* the run goes back to the queue.
Retry(w) ==
    LET r == held[w] IN
    /\ pc[w] = "working"
    /\ Exists(r)
    /\ Retrying(r)
    /\ run' = [run EXCEPT ![r] = "pending"]
    /\ owner' = [owner EXCEPT ![r] = NoOwner]
    /\ ttl' = [ttl EXCEPT ![r] = 0]
    /\ log' = [log EXCEPT ![r] = Append(@, "warning")]
    /\ Release(w)
    /\ UNCHANGED <<conv, attempts, message, citations>>

\* RunRepository.fail on the last attempt.
GiveUp(w) ==
    LET r == held[w] IN
    /\ pc[w] = "working"
    /\ Exists(r)
    /\ ~Retrying(r)
    /\ run' = [run EXCEPT ![r] = "failed"]
    /\ message' = [message EXCEPT ![r] = "failed"]
    /\ owner' = [owner EXCEPT ![r] = NoOwner]
    /\ ttl' = [ttl EXCEPT ![r] = 0]
    /\ log' = [log EXCEPT ![r] = Append(@, "error")]
    /\ Release(w)
    /\ UNCHANGED <<conv, attempts, citations>>

\* prepare is outside the try block of execute, and fail may raise as well
\* ("database is locked"): the worker drops the run, whose row stays running.
Abandon(w) ==
    /\ DbErrors
    /\ Executing(w)
    /\ Release(w)
    /\ UNCHANGED <<conv, run, rows>>

\* One pass of the heartbeat thread: the UPDATE matches only a running row
\* that carries the worker's owner string.
Beat(w) ==
    /\ Executing(w)
    /\ silence[w] >= HeartbeatTicks
    /\ ttl' = [ttl EXCEPT ![held[w]] =
                  IF run[held[w]] = "running" /\ owner[held[w]] = WorkerId[w]
                  THEN LeaseTicks ELSE @]
    /\ silence' = [silence EXCEPT ![w] = 0]
    /\ UNCHANGED <<conv, run, attempts, owner, message, citations, log, pc, held, crashes>>

\* The process is killed; nothing of it survives but the committed rows.
Crash(w) ==
    /\ Executing(w)
    /\ crashes < MaxCrashes
    /\ crashes' = crashes + 1
    /\ pc' = [pc EXCEPT ![w] = "down"]
    /\ held' = [held EXCEPT ![w] = NoRun]
    /\ silence' = [silence EXCEPT ![w] = 0]
    /\ UNCHANGED <<conv, run, rows>>

Restart(w) ==
    /\ pc[w] = "down"
    /\ pc' = [pc EXCEPT ![w] = "idle"]
    /\ UNCHANGED <<conv, run, rows, held, silence, crashes>>

\* Time passes.  No live worker is silent for longer than MaxSilence.
Tick ==
    /\ \A w \in Worker : Executing(w) => silence[w] < MaxSilence
    /\ ttl' = [r \in Run |-> IF ttl[r] > 0 THEN ttl[r] - 1 ELSE 0]
    /\ silence' = [w \in Worker |-> IF Executing(w) THEN silence[w] + 1 ELSE silence[w]]
    /\ UNCHANGED <<conv, run, attempts, owner, message, citations, log, pc, held, crashes>>

-----------------------------------------------------------------------------
\* The worker leaves the run it executes, one way or another.
Finish(w) == Complete(w) \/ Retry(w) \/ GiveUp(w) \/ Vanished(w)

Next ==
    \/ \E r \in Run : Ask(r)
    \/ \E c \in Conversation : DeleteConversation(c) \/ PurgeConversation(c)
    \/ \E w \in Worker :
          \/ \E r \in Run : Claim(w, r)
          \/ Prepare(w)
          \/ Finish(w)
          \/ Abandon(w)
          \/ Beat(w)
          \/ Crash(w)
          \/ Restart(w)
    \/ Tick

Spec == Init /\ [][Next]_vars

\* The worker loop polls for ever (apps/worker/main.py), the pipeline returns
\* or raises (every model call has a timeout), the heartbeat thread runs, the
\* container is restarted (restart: unless-stopped), and time passes.
Fairness ==
    /\ \A w \in Worker :
          /\ WF_vars(\E r \in Run : Claim(w, r))
          /\ WF_vars(Prepare(w))
          /\ WF_vars(Finish(w))
          /\ WF_vars(Beat(w))
          /\ WF_vars(Restart(w))
    /\ WF_vars(Tick)

FairSpec == Spec /\ Fairness

-----------------------------------------------------------------------------
(* Correctness.                                                            *)

\* The lease outlives the longest silence of a live worker's heartbeat, and
\* what the wait for the write lock took from it at the claim.
LeaseSlack == MaxSilence + LockWait < LeaseTicks

\* At most one live worker executes a run (run_store.py claim_next with
\* leases.py heartbeat): a reclaim never overtakes a worker that is alive.
SingleExecutor ==
    \A v, w \in Worker :
        Executing(v) /\ Executing(w) /\ held[v] = held[w] => v = w

\* The outcome of a run is recorded once and everywhere the same: run,
\* message, citations (complete and fail, each one transaction).
OutcomeAgrees ==
    \A r \in Run : Exists(r) =>
        /\ run[r] = "completed" <=> message[r] = "completed"
        /\ run[r] = "failed" <=> message[r] = "failed"
        /\ citations[r] = IF run[r] = "completed" THEN 1 ELSE 0

\* The last event of a run's stream is "completed" or "error" exactly when
\* the run has ended that way, and no earlier event is terminal: a client
\* that stops at the first terminal event (run_event_stream) misses nothing.
TerminalEventIsLast ==
    \A r \in Run : Exists(r) =>
        /\ log[r] # <<>>
        /\ \A i \in 1..(Len(log[r]) - 1) : log[r][i] \notin TerminalEvent
        /\ log[r][Len(log[r])] = "completed" <=> run[r] = "completed"
        /\ log[r][Len(log[r])] = "error" <=> run[r] = "failed"

\* A run is announced as started once per attempt, is tried at most
\* MaxAttempts times, and fails only when the attempts are used up.
Starts(r) == {i \in 1..Len(log[r]) : log[r][i] = "run_started"}
AttemptsAccounted ==
    \A r \in Run : Exists(r) =>
        /\ Cardinality(Starts(r)) = attempts[r]
        /\ attempts[r] <= MaxAttempts
        /\ run[r] = "failed" => attempts[r] = MaxAttempts

\* A worker that still executes a run when its conversation is removed
\* leaves nothing behind (the foreign keys of run_events and citations).
NothingAfterRemoval ==
    \A r \in Run : run[r] = "deleted" =>
        message[r] = "none" /\ citations[r] = 0 /\ log[r] = <<>> /\ owner[r] = NoOwner

\* The persisted state transitions of a run.
Transition ==
    {<<"absent", "pending">>, <<"pending", "running">>, <<"running", "pending">>,
     <<"running", "completed">>, <<"running", "failed">>}
        \cup {<<s, "deleted">> : s \in RunStatus \ {"absent"}}
        \cup {<<s, s>> : s \in RunStatus}

\* RunRepository "enforces persisted state transitions" (run_store.py:67): a
\* step of any process moves a run along one of them, so an ended run never
\* leaves its outcome, nor a removed one its grave.
LegalTransitions == [][\A r \in Run : <<run[r], run'[r]>> \in Transition]_vars

\* No worker will ever look at the run again: its attempts are used up, its
\* status is still "running" and nobody executes it.
Stranded(r) ==
    /\ run[r] = "running"
    /\ attempts[r] = MaxAttempts
    /\ \A w \in Worker : ~(Executing(w) /\ held[w] = r)

Ended(r) == run[r] \in Terminal \cup {"deleted"}

\* Every question that was asked is answered, fails or is removed with its
\* conversation, unless the worker of its last attempt vanished.
EventuallySettled == \A r \in Run : run[r] = "pending" ~> (Ended(r) \/ Stranded(r))

\* "If a worker stops, the task is reclaimed after its lease expires"
\* (07-security-operations-evolution.md:87): a running run whose lease has
\* expired does not stay in that state.
ExpiredIsReclaimed == \A r \in Run : (run[r] = "running" /\ ttl[r] = 0) ~> ~(run[r] = "running" /\ ttl[r] = 0)

-----------------------------------------------------------------------------
(* The queue implements the lifecycle the user sees, when leases are kept. *)

Announced(r) ==
    IF Exists(r) /\ log[r] # <<>> /\ log[r][Len(log[r])] \in TerminalEvent
    THEN log[r][Len(log[r])] ELSE "none"

Lifecycle == INSTANCE RunLifecycle WITH
    phase <- run, tries <- attempts, shown <- message,
    announced <- [r \in Run |-> Announced(r)]

\* Workers, leases, heartbeats, crashes and time only ever move a run along
\* its lifecycle.
ImplementsLifecycle == Lifecycle!Spec

====

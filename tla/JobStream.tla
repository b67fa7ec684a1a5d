---- MODULE JobStream ----
(***************************************************************************)
(* The event log of the ingestion jobs and a client that follows one job.  *)
(* Every transaction of IngestionJobs that shows progress or an outcome    *)
(* appends to job_events; the stream polls them from a cursor and knows    *)
(* nothing of the status of the job.                                       *)
(***************************************************************************)
EXTENDS IngestionJobs, SequencesExt

VARIABLES
    jobLog,      \* the event types of job_events, per job; of a run of "progress"
                 \* and "warning" events only the first
    jobReader,   \* "away" or "reading"
    jobCursor    \* the events the client has received

streamVars == <<jobReader, jobCursor>>
jobStreamVars == <<vars, jobLog, streamVars>>

JobStreamInit ==
    /\ Init
    /\ jobLog = [j \in Job |-> <<>>]
    /\ jobReader = "away"
    /\ jobCursor = [j \in Job |-> 0]

----------------------------------------------------------------------------
(* What each transaction reports.                                          *)

JobStreamEnd_Completed == {"completed"}
JobStreamEnd == {"completed", "error"}

EndsLog(event) == event \in {"completed", "error"}

\* A log with one more event.
Reported(log, event) ==
    IF log # <<>> /\ ~EndsLog(event) /\ ~EndsLog(Last(log)) THEN log ELSE Append(log, event)

SetLog(j, log) ==
    /\ jobLog' = [jobLog EXCEPT ![j] = log]
    /\ UNCHANGED streamVars

Emit(j, event) == SetLog(j, Reported(jobLog[j], event))

FailureEvent_AlwaysError(j) == "error"
\* An attempt that is retried only warns.
FailureEvent(j) == IF attempts[j] < MaxAttempts THEN "warning" ELSE "error"

\* persist_parsed reports each warning before the end.
EmitPersisted(j, outcome) ==
    LET stored == Reported(jobLog[j], "progress")
        warned == IF outcome = "partial" THEN Reported(stored, "warning") ELSE stored
    IN SetLog(j, Reported(warned, "completed"))

Silent == UNCHANGED <<jobLog, streamVars>>

\* The worker goes on.
JobWork ==
    \E w \in Worker :
       \/ \E j \in Job : Claim(w, j) /\ Emit(j, "progress")
       \/ (StartParserRun(w) \/ Advance(w)) /\ Emit(held[w], "progress")
       \/ FinishCancelled(w) /\ Emit(held[w], "completed")
       \/ Fail(w) /\ Emit(held[w], FailureEvent(held[w]))
       \/ \E outcome \in Outcome : Persist(w, outcome) /\ EmitPersisted(held[w], outcome)
       \/ (Load(w) \/ Refuse(w) \/ CheckCancel(w) \/ Restart(w)) /\ Silent

JobTick == Tick /\ Silent

\* The rest; a deletion of the document, which neither reports nor stops a job, is left out.
JobRest ==
    \/ \E j \in Job :
         \/ (Import(j) \/ RetryJob(j)) /\ Emit(j, "progress")
         \/ CancelPending(j) /\ Emit(j, "completed")
         \/ CancelRunning(j) /\ Silent
    \/ \E w \in Worker : (Abandon(w) \/ Beat(w) \/ Crash(w)) /\ Silent

----------------------------------------------------------------------------
(* job_event_stream                                                        *)

\* A client opens the stream, from the start or where it left off.
OpenJobStream(j) ==
    /\ job[j] # "absent"
    /\ jobReader = "away"
    /\ jobReader' = "reading"
    /\ \E cursor \in {0, jobCursor[j]} : jobCursor' = [jobCursor EXCEPT ![j] = cursor]
    /\ UNCHANGED <<vars, jobLog>>

\* The events after the cursor, up to one that ends the stream.
PollJobEvents(j) ==
    LET news == SubSeq(jobLog[j], jobCursor[j] + 1, Len(jobLog[j]))
        ending == SelectInSeq(news, LAMBDA event : event \in JobStreamEnd)
    IN /\ jobReader = "reading"
       /\ news # <<>>
       /\ jobCursor' = [jobCursor EXCEPT ![j] = @ + IF ending = 0 THEN Len(news) ELSE ending]
       /\ jobReader' = IF ending = 0 THEN "reading" ELSE "away"
       /\ UNCHANGED <<vars, jobLog>>

LeaveJobStream ==
    /\ jobReader = "reading"
    /\ jobReader' = "away"
    /\ UNCHANGED <<vars, jobLog, jobCursor>>

JobStreamNext ==
    \/ JobWork \/ JobTick \/ JobRest
    \/ \E j \in Job : OpenJobStream(j) \/ PollJobEvents(j)
    \/ LeaveJobStream

JobStreamSpec == JobStreamInit /\ [][JobStreamNext]_jobStreamVars

----------------------------------------------------------------------------

\* The log tells how the job stands: its last event ends a stream exactly when
\* the job is over, as an error exactly when it failed, over cancellations,
\* retries, reclaims and restarts.
JobEventsTellOutcome ==
    \A j \in Job : job[j] # "absent" =>
        /\ Last(jobLog[j]) \in {"completed", "error"} <=> job[j] \in Terminal
        /\ Last(jobLog[j]) = "error" <=> job[j] = "failed"

\* A client that resumes with the last event of a finished job polls for ever;
\* any other stream closes.
Exhausted(j) == job[j] \in Terminal /\ jobCursor[j] = Len(jobLog[j])
JobStreamCloses ==
    \A j \in Job : (jobReader = "reading" /\ ~Exhausted(j)) ~> jobReader = "away"
====

---- MODULE IngestionJobsProofs ----
(***************************************************************************)
(* Theorems about IngestionJobs for every number of jobs, documents,       *)
(* workers, attempts and ticks, and about the logs JobStream adds to it.   *)
(***************************************************************************)
EXTENDS JobStream, SequenceTheorems, TLAPS

ParserStatus == {"running", "ready", "partial", "failed", "cancelled"}
Stage == {"none", "queued", "validating", "native_parsing", "rendering",
          "visual_enrichment", "completed", "retry_wait", "failed", "cancelled"}

\* After _start_parser_run a worker has a parser run of its own.
Begun == Busy \ {"claimed", "loaded"}

\* TypeOK but for the bound on the attempts, which holds only when no lease
\* is lost; an executing worker has a job, and a parser run once it began one.
TypedRows ==
    /\ job \in [Job -> JobStatus] /\ stage \in [Job -> Stage]
    /\ attempts \in [Job -> Nat] /\ cancel \in [Job -> BOOLEAN]
    /\ owner \in [Job -> OwnerId \cup {NoOwner}] /\ ttl \in [Job -> 0..LeaseTicks]
    /\ parser \in [Job -> Seq(ParserStatus)] /\ active \in [Job -> Nat]
    /\ doc \in [Document -> {"absent", "processing", "deleted"} \cup Terminal]
    /\ deleted \in [Document -> BOOLEAN]
    /\ retries \in [Job -> 0..MaxRetries]

TypedProcs ==
    /\ pc \in [Worker -> {"idle", "down"} \cup Busy]
    /\ held \in [Worker -> Job \cup {NoJob}] /\ mine \in [Worker -> Nat]
    /\ silence \in [Worker -> 0..MaxSilence] /\ faults \in 0..MaxFaults
    /\ \A w \in Worker : Executing(w) => held[w] \in Job
    /\ \A w \in Worker : pc[w] \in Begun => mine[w] \in 1..Len(parser[held[w]])

RowsTyped == TypedRows /\ TypedProcs

\* A worker that writes to a parser run changes this run and no other.
LEMMA ParserRunUpdate ==
    ASSUME parser \in [Job -> Seq(ParserStatus)], NEW j \in Job, NEW i \in 1..Len(parser[j]),
           NEW v \in ParserStatus, parser' = [parser EXCEPT ![j][i] = v]
    PROVE  /\ parser' \in [Job -> Seq(ParserStatus)]
           /\ \A k \in Job : /\ Len(parser'[k]) = Len(parser[k])
                             /\ \A n \in 1..Len(parser[k]) :
                                  parser'[k][n] = IF k = j /\ n = i THEN v ELSE parser[k][n]
<1> DEFINE s == parser[j]
           t == [s EXCEPT ![i] = v]
<1>1. s \in Seq(ParserStatus)
  OBVIOUS
<1>2. t \in Seq(ParserStatus) /\ Len(t) = Len(s)
  BY <1>1, ExceptSeq
<1>3. \A n \in 1..Len(s) : t[n] = IF n = i THEN v ELSE s[n]
  BY <1>1
<1>4. parser' = [parser EXCEPT ![j] = t]
  OBVIOUS
<1> HIDE DEF t
<1> QED
  BY <1>2, <1>3, <1>4

LEMMA ParserRunAppend ==
    ASSUME parser \in [Job -> Seq(ParserStatus)], NEW j \in Job, NEW v \in ParserStatus,
           parser' = [parser EXCEPT ![j] = Append(@, v)]
    PROVE  /\ parser' \in [Job -> Seq(ParserStatus)]
           /\ \A k \in Job : /\ Len(parser'[k]) = IF k = j THEN Len(parser[k]) + 1 ELSE Len(parser[k])
                             /\ \A n \in 1..Len(parser[k]) : parser'[k][n] = parser[k][n]
<1> DEFINE s == parser[j]
           t == Append(s, v)
<1>1. s \in Seq(ParserStatus)
  OBVIOUS
<1>2. t \in Seq(ParserStatus) /\ Len(t) = Len(s) + 1 /\ \A n \in 1..Len(s) : t[n] = s[n]
  BY <1>1
<1>3. parser' = [parser EXCEPT ![j] = t]
  OBVIOUS
<1> HIDE DEF t
<1> QED
  BY <1>2, <1>3

\* A worker that leaves its job, in whatever way.
Leaves(w) ==
    /\ Executing(w)
    /\ \/ pc' = [pc EXCEPT ![w] = "idle"]
       \/ pc' = [pc EXCEPT ![w] = "down"]
    /\ held' = [held EXCEPT ![w] = NoJob]
    /\ mine' = [mine EXCEPT ![w] = 0]
    /\ silence' = [silence EXCEPT ![w] = 0]

LEMMA LeavingTyped ==
    ASSUME RowsTyped, NEW w \in Worker, Leaves(w), faults' \in 0..MaxFaults,
           \A k \in Job : Len(parser'[k]) = Len(parser[k])
    PROVE  /\ TypedProcs'
           /\ \A v \in Worker : Executing(v)' => v # w /\ Executing(v) /\ held'[v] = held[v]
<1> USE DEF RowsTyped, TypedProcs
<1>1. \A v \in Worker \ {w} : pc'[v] = pc[v] /\ held'[v] = held[v] /\ mine'[v] = mine[v]
  BY DEF Leaves
<1>2. pc'[w] \in {"idle", "down"}
  BY DEF Leaves
<1>3. ASSUME NEW v \in Worker, Executing(v)'
      PROVE  v # w /\ Executing(v) /\ held'[v] = held[v] /\ held[v] \in Job
  BY <1>1, <1>2, <1>3 DEF Executing, Busy
<1>4. ASSUME NEW v \in Worker, pc'[v] \in Begun PROVE mine'[v] \in 1..Len(parser'[held'[v]])
  BY <1>1, <1>3, <1>4 DEF Executing, Begun
<1>5. pc' \in [Worker -> {"idle", "down"} \cup Busy]
  BY DEF Leaves
<1>6. held' \in [Worker -> Job \cup {NoJob}]
  BY DEF Leaves
<1>7. mine' \in [Worker -> Nat]
  BY DEF Leaves
<1>8. silence' \in [Worker -> 0..MaxSilence]
  BY JobsAssumption DEF Leaves
<1> QED
  BY <1>3, <1>4, <1>5, <1>6, <1>7, <1>8

\* A step of a worker within its job.
LEMMA MovingTyped ==
    ASSUME RowsTyped, NEW w \in Worker, NEW to \in Busy, Executing(w), pc' = [pc EXCEPT ![w] = to],
           UNCHANGED <<held, mine, silence, faults, parser>>, to \in Begun => pc[w] \in Begun
    PROVE  TypedProcs'
BY DEF RowsTyped, TypedProcs, Executing

LEMMA RestingTyped ==
    ASSUME RowsTyped, UNCHANGED <<procs, parser>> PROVE TypedProcs'
BY DEF RowsTyped, TypedProcs, procs, Executing

LEMMA RowsStep == RowsTyped /\ [Next]_vars => RowsTyped'
<1> SUFFICES ASSUME RowsTyped, [Next]_vars PROVE RowsTyped'
  OBVIOUS
<1> USE JobsAssumption DEF RowsTyped
<1>1. ASSUME NEW j \in Job, Import(j) \/ CancelPending(j) \/ CancelRunning(j) \/ RetryJob(j)
      PROVE  RowsTyped'
  <2>1. UNCHANGED <<procs, parser>>
    BY <1>1 DEF Import, CancelPending, CancelRunning, RetryJob, documents
  <2>2. CASE Import(j)
    BY <2>2, <2>1, RestingTyped DEF Import, TypedRows, JobStatus, Stage, lease
  <2>3. CASE CancelPending(j)
    BY <2>3, <2>1, RestingTyped DEF CancelPending, TypedRows, JobStatus, Stage, Terminal, lease
  <2>4. CASE CancelRunning(j)
    BY <2>4, <2>1, RestingTyped DEF CancelRunning, TypedRows, lease, documents
  <2>5. CASE RetryJob(j)
    <3>1. retries' \in [Job -> 0..MaxRetries]
      BY <2>5 DEF RetryJob, TypedRows
    <3>2. job' \in [Job -> JobStatus] /\ stage' \in [Job -> Stage]
      BY <2>5 DEF RetryJob, TypedRows, JobStatus, Stage
    <3>3. TypedProcs'
      BY <2>1, RestingTyped
    <3>4. /\ UNCHANGED <<attempts, parser, active, deleted>>
          /\ cancel' \in [Job -> BOOLEAN] /\ ttl' \in [Job -> 0..LeaseTicks]
          /\ owner' \in [Job -> OwnerId \cup {NoOwner}]
      BY <2>5 DEF RetryJob, TypedRows
    <3>5. doc' \in [Document -> {"absent", "processing", "deleted"} \cup Terminal]
      BY <2>5 DEF RetryJob, TypedRows
    <3> QED
      BY <3>1, <3>2, <3>3, <3>4, <3>5 DEF TypedRows
  <2> QED
    BY <1>1, <2>2, <2>3, <2>4, <2>5
<1>2. ASSUME NEW d \in Document, DeleteDocument(d) PROVE RowsTyped'
  BY <1>2, RestingTyped DEF DeleteDocument, TypedRows, lease
<1>3. ASSUME NEW w \in Worker, NEW j \in Job, Claim(w, j) PROVE RowsTyped'
  <2>1. /\ pc' = [pc EXCEPT ![w] = "claimed"] /\ held' = [held EXCEPT ![w] = j]
        /\ mine' = [mine EXCEPT ![w] = 0] /\ silence' = [silence EXCEPT ![w] = 0]
        /\ UNCHANGED <<faults, documents, cancel, retries>>
    BY <1>3 DEF Claim
  <2>2. TypedProcs'
    BY <2>1 DEF TypedProcs, Executing, Busy, Begun, documents
  <2>3. ttl' \in [Job -> 0..LeaseTicks]
    BY <1>3 DEF Claim, TypedRows
  <2>4. attempts' \in [Job -> Nat]
    BY <1>3 DEF Claim, TypedRows
  <2> QED
    BY <1>3, <2>1, <2>2, <2>3, <2>4 DEF Claim, TypedRows, JobStatus, Stage, documents
<1>4. ASSUME NEW w \in Worker, Load(w) \/ CheckCancel(w) PROVE RowsTyped'
  <2>1. UNCHANGED <<job, stage, attempts, cancel, lease, documents, retries>>
    BY <1>4 DEF Load, CheckCancel
  <2>2. PICK to \in Busy : /\ pc' = [pc EXCEPT ![w] = to]
                           /\ to \in Begun => pc[w] \in Begun
    BY <1>4 DEF Load, CheckCancel, AfterCheck, Busy, Begun
  <2>3. Executing(w) /\ UNCHANGED <<held, mine, silence, faults>>
    BY <1>4 DEF Load, CheckCancel, AfterCheck, Executing, Busy
  <2> QED
    BY <2>1, <2>2, <2>3, MovingTyped DEF TypedRows, lease, documents
<1>5. ASSUME NEW w \in Worker, Advance(w) PROVE RowsTyped'
  <2>1. UNCHANGED <<job, attempts, cancel, lease, documents, retries, held, mine, silence, faults>>
    BY <1>5 DEF Advance
  <2>2. ASSUME NEW to \in Busy \cap Begun, NEW s \in Stage, pc[w] \in Begun,
               pc' = [pc EXCEPT ![w] = to], stage' = [stage EXCEPT ![held[w]] = s]
        PROVE  RowsTyped'
    BY <2>1, <2>2, MovingTyped DEF TypedRows, lease, documents, Executing, Begun
  <2>3. PICK to \in {<<"parsed", "rendering", "rendering">>,
                    <<"rendered", "enriched", "visual_enrichment">>} :
           /\ pc[w] = to[1] /\ pc' = [pc EXCEPT ![w] = to[2]]
           /\ stage' = [stage EXCEPT ![held[w]] = to[3]]
    BY <1>5 DEF Advance
  <2>4. CASE to = <<"parsed", "rendering", "rendering">>
    <3>1. pc[w] = "parsed" /\ pc' = [pc EXCEPT ![w] = "rendering"] /\ stage' = [stage EXCEPT ![held[w]] = "rendering"]
      BY <2>3, <2>4
    <3>2. "parsed" \in Begun /\ "rendering" \in Busy \cap Begun /\ "rendering" \in Stage
      BY DEF Busy, Begun, Stage
    <3> QED
      BY <2>2, <3>1, <3>2
  <2>5. CASE to = <<"rendered", "enriched", "visual_enrichment">>
    <3>1. pc[w] = "rendered" /\ pc' = [pc EXCEPT ![w] = "enriched"] /\ stage' = [stage EXCEPT ![held[w]] = "visual_enrichment"]
      BY <2>3, <2>5
    <3>2. "rendered" \in Begun /\ "enriched" \in Busy \cap Begun /\ "visual_enrichment" \in Stage
      BY DEF Busy, Begun, Stage
    <3> QED
      BY <2>2, <3>1, <3>2
  <2> QED
    BY <2>3, <2>4, <2>5
<1>6. ASSUME NEW w \in Worker, StartParserRun(w) PROVE RowsTyped'
  <2> DEFINE j == held[w]
  <2>1. j \in Job /\ Len(parser[j]) \in Nat
    BY <1>6 DEF StartParserRun, TypedProcs, TypedRows, Executing, Busy
  <2>2. /\ parser' \in [Job -> Seq(ParserStatus)]
        /\ \A k \in Job : Len(parser'[k]) = IF k = j THEN Len(parser[k]) + 1 ELSE Len(parser[k])
    BY <1>6, <2>1, ParserRunAppend DEF StartParserRun, TypedRows, ParserStatus
  <2>3. TypedRows'
    BY <1>6, <2>1, <2>2 DEF StartParserRun, TypedRows, Stage, lease
  <2>4. ASSUME NEW v \in Worker PROVE /\ Executing(v)' => held'[v] \in Job
                                      /\ pc'[v] \in Begun => mine'[v] \in 1..Len(parser'[held'[v]])
    <3>1. CASE v = w
      BY <1>6, <2>1, <2>2, <3>1 DEF StartParserRun, TypedProcs
    <3>2. CASE v # w
      <4>1. pc'[v] = pc[v] /\ held'[v] = held[v] /\ mine'[v] = mine[v] /\ mine[v] \in Nat
        BY <1>6, <3>2 DEF StartParserRun, TypedProcs
      <4>2. ASSUME Executing(v) PROVE held[v] \in Job /\ Len(parser[held[v]]) \in Nat
        BY <4>2 DEF TypedProcs, TypedRows
      <4>3. Executing(v)' => Executing(v)
        BY <4>1 DEF Executing
      <4>4. ASSUME pc'[v] \in Begun PROVE mine'[v] \in 1..Len(parser'[held'[v]])
        <5>1. pc[v] \in Begun /\ Executing(v)
          BY <4>1, <4>4 DEF Executing, Begun
        <5>2. mine[v] \in 1..Len(parser[held[v]])
          BY <5>1 DEF TypedProcs
        <5>3. Len(parser'[held[v]]) \in {Len(parser[held[v]]), Len(parser[held[v]]) + 1}
          BY <2>2, <4>2, <5>1
        <5> QED
          BY <4>1, <4>2, <5>1, <5>2, <5>3
      <4> QED
        BY <4>1, <4>2, <4>3, <4>4
    <3> QED
      BY <3>1, <3>2
  <2>5. mine' \in [Worker -> Nat] /\ pc' \in [Worker -> {"idle", "down"} \cup Busy]
    BY <1>6, <2>1 DEF StartParserRun, TypedProcs, Busy
  <2> QED
    BY <1>6, <2>3, <2>4, <2>5 DEF StartParserRun, TypedProcs
<1>7. ASSUME NEW w \in Worker, FinishCancelled(w) \/ (\E o \in Outcome : Persist(w, o)) \/ Fail(w)
      PROVE  RowsTyped'
  <2> DEFINE j == held[w]
  <2>1. j \in Job /\ mine[w] \in 1..Len(parser[j]) /\ Executing(w)
    BY <1>7 DEF FinishCancelled, Persist, Fail, Guarded, TypedProcs, Executing, Begun, Busy
  <2>2. PICK v \in ParserStatus : parser' = [parser EXCEPT ![j][mine[w]] = v]
    BY <1>7 DEF FinishCancelled, Persist, Fail, ParserStatus, Outcome
  <2>3. /\ parser' \in [Job -> Seq(ParserStatus)]
        /\ \A k \in Job : Len(parser'[k]) = Len(parser[k])
    BY <2>1, <2>2, ParserRunUpdate DEF TypedRows
  <2>4. Leaves(w) /\ faults' = faults
    BY <1>7, <2>1 DEF FinishCancelled, Persist, Fail, Release, Leaves
  <2>5. TypedProcs'
    BY <2>3, <2>4, LeavingTyped DEF TypedProcs
  <2>6. /\ job' \in [Job -> JobStatus] /\ stage' \in [Job -> Stage]
        /\ doc' \in [Document -> {"absent", "processing", "deleted"} \cup Terminal]
    <3>1. CASE FinishCancelled(w)
      BY <2>1, <3>1 DEF FinishCancelled, TypedRows, JobStatus, Stage, Terminal
    <3>2. ASSUME NEW o \in Outcome, Persist(w, o) PROVE <2>6!1 /\ <2>6!2
      BY <2>1, <3>2 DEF Persist, TypedRows, JobStatus, Stage, Terminal
    <3>3. CASE Fail(w)
      BY <2>1, <3>3 DEF Fail, FailedDocStatus, TypedRows, JobStatus, Stage, Terminal
    <3> QED
      BY <1>7, <3>1, <3>2, <3>3
  <2>7. /\ owner' = [owner EXCEPT ![j] = NoOwner] /\ ttl' = [ttl EXCEPT ![j] = 0]
        /\ active' = active \/ active' = [active EXCEPT ![j] = mine[w]]
        /\ UNCHANGED <<attempts, cancel, deleted, retries>>
    BY <1>7 DEF FinishCancelled, Persist, Fail, Activated
  <2>8. active' \in [Job -> Nat]
    BY <2>1, <2>7 DEF TypedRows, TypedProcs
  <2>9. owner' \in [Job -> OwnerId \cup {NoOwner}] /\ ttl' \in [Job -> 0..LeaseTicks]
    BY <2>1, <2>7 DEF TypedRows
  <2> QED
    BY <2>3, <2>5, <2>7, <2>6, <2>8, <2>9 DEF TypedRows
<1>8. ASSUME NEW w \in Worker, Refuse(w) \/ Abandon(w) \/ Crash(w) PROVE RowsTyped'
  <2>1. Leaves(w) /\ UNCHANGED <<job, stage, attempts, cancel, lease, documents, retries>>
    BY <1>8 DEF Refuse, Abandon, Crash, Release, Leaves, Executing, Busy
  <2>2. faults' \in 0..MaxFaults
    BY <1>8 DEF Refuse, Abandon, Crash, TypedProcs
  <2>3. TypedProcs'
    BY <2>1, <2>2, LeavingTyped DEF documents
  <2> QED
    BY <2>1, <2>3 DEF TypedRows, lease, documents
<1>9. ASSUME NEW w \in Worker, Beat(w) PROVE RowsTyped'
  <2>1. ttl' \in [Job -> 0..LeaseTicks]
    <3>1. held[w] \in Job
      BY <1>9 DEF Beat, TypedProcs
    <3>2. ttl' = [ttl EXCEPT ![held[w]] = LeaseTicks] \/ ttl' = [ttl EXCEPT ![held[w]] = ttl[held[w]]]
      BY <1>9 DEF Beat
    <3> QED
      BY <3>1, <3>2 DEF TypedRows
  <2>2. TypedProcs'
    BY <1>9 DEF Beat, TypedProcs, Executing, documents
  <2> QED
    BY <1>9, <2>1, <2>2 DEF Beat, TypedRows, documents
<1>10. ASSUME NEW w \in Worker, Restart(w) PROVE RowsTyped'
  <2>1. TypedProcs'
    BY <1>10 DEF Restart, TypedProcs, Executing, Busy, Begun, documents
  <2> QED
    BY <1>10, <2>1 DEF Restart, TypedRows, lease, documents
<1>11. ASSUME Tick PROVE RowsTyped'
  <2>1. ttl' \in [Job -> 0..LeaseTicks]
    BY <1>11 DEF Tick, TypedRows
  <2>2. silence' \in [Worker -> 0..MaxSilence]
    BY <1>11 DEF Tick, TypedProcs
  <2>3. TypedProcs'
    BY <1>11, <2>2 DEF Tick, TypedProcs, Executing, documents
  <2> QED
    BY <1>11, <2>1, <2>3 DEF Tick, TypedRows, documents
<1>12. ASSUME UNCHANGED vars PROVE RowsTyped'
  BY <1>12, RestingTyped DEF vars, TypedRows, lease, documents
<1> QED
  BY <1>1, <1>2, <1>3, <1>4, <1>5, <1>6, <1>7, <1>8, <1>9, <1>10, <1>11, <1>12
  DEF Next, Proceed

LEMMA RowsInit == Init => RowsTyped
BY JobsAssumption DEF Init, RowsTyped, TypedRows, TypedProcs, JobStatus, Stage, Executing, Busy, Begun

LEMMA RowsKept == Spec => []RowsTyped
BY RowsInit, RowsStep, PTL DEF Spec

-----------------------------------------------------------------------------
(* What holds even when leases are lost and several workers parse the same *)
(* version at once.                                                        *)

\* Workers of one job write to parser runs of their own, which are not active
\* before they are through.
OwnRuns ==
    /\ \A w \in Worker : pc[w] \in Begun => active[held[w]] # mine[w]
    /\ \A v, w \in Worker :
          pc[v] \in Begun /\ pc[w] \in Begun /\ held[v] = held[w] /\ v # w => mine[v] # mine[w]

ParseInv == OwnRuns /\ ActiveParseIsReported

LEMMA ParseStep == RowsTyped /\ ParseInv /\ [Next]_vars => ParseInv'
<1> SUFFICES ASSUME RowsTyped, ParseInv, [Next]_vars PROVE ParseInv'
  OBVIOUS
<1> USE JobsAssumption
\* Steps that leave the parser runs and who writes to them alone.
<1>0. ASSUME UNCHANGED <<parser, active>>,
             \A j \in Job : job'[j] \in Outcome => job'[j] = job[j],
             \A w \in Worker : pc'[w] \in Begun =>
                pc[w] \in Begun /\ held'[w] = held[w] /\ mine'[w] = mine[w]
      PROVE  ParseInv'
  <2>1. OwnRuns'
    BY <1>0 DEF ParseInv, OwnRuns
  <2>2. ActiveParseIsReported'
    BY <1>0 DEF ParseInv, ActiveParseIsReported
  <2> QED
    BY <2>1, <2>2 DEF ParseInv
<1>1. ASSUME NEW j \in Job, Import(j) \/ CancelPending(j) \/ CancelRunning(j) \/ RetryJob(j)
      PROVE  ParseInv'
  <2>1. UNCHANGED <<parser, active, procs>>
    BY <1>1 DEF Import, CancelPending, CancelRunning, RetryJob, documents
  <2>2. \A k \in Job : job'[k] \in Outcome => job'[k] = job[k]
    BY <1>1 DEF Import, CancelPending, CancelRunning, RetryJob, Outcome, RowsTyped, TypedRows
  <2> QED
    BY <1>0, <2>1, <2>2 DEF procs
<1>2. ASSUME NEW d \in Document, DeleteDocument(d) PROVE ParseInv'
  BY <1>0, <1>2 DEF DeleteDocument, procs
<1>3. ASSUME NEW w \in Worker, NEW j \in Job, Claim(w, j) PROVE ParseInv'
  <2>1. \A v \in Worker : pc'[v] \in Begun =>
           pc[v] \in Begun /\ held'[v] = held[v] /\ mine'[v] = mine[v]
    BY <1>3 DEF Claim, RowsTyped, TypedProcs, Begun, Busy
  <2>2. \A k \in Job : job'[k] \in Outcome => job'[k] = job[k]
    BY <1>3 DEF Claim, Outcome, RowsTyped, TypedRows
  <2> QED
    BY <1>0, <1>3, <2>1, <2>2 DEF Claim, documents
<1>4. ASSUME NEW w \in Worker, Load(w) \/ CheckCancel(w) \/ Advance(w) \/ Restart(w) \/ Beat(w)
      PROVE  ParseInv'
  <2>1. UNCHANGED <<parser, active, job, held, mine>>
    BY <1>4 DEF Load, CheckCancel, Advance, Restart, Beat, documents
  <2>2. \A v \in Worker : pc'[v] \in Begun => pc[v] \in Begun
    BY <1>4 DEF Load, CheckCancel, AfterCheck, Advance, Restart, Beat, RowsTyped, TypedProcs, Begun, Busy
  <2> QED
    BY <1>0, <2>1, <2>2
<1>5. ASSUME NEW w \in Worker, StartParserRun(w) PROVE ParseInv'
  <2> DEFINE j == held[w]
  <2>1. j \in Job /\ Len(parser[j]) \in Nat
    BY <1>5 DEF StartParserRun, RowsTyped, TypedProcs, TypedRows, Executing, Busy
  <2>2. \A k \in Job : /\ Len(parser'[k]) = IF k = j THEN Len(parser[k]) + 1 ELSE Len(parser[k])
                       /\ \A n \in 1..Len(parser[k]) : parser'[k][n] = parser[k][n]
    BY <1>5, <2>1, ParserRunAppend DEF StartParserRun, RowsTyped, TypedRows, ParserStatus
  <2>3. mine'[w] = Len(parser[j]) + 1 /\ held' = held /\ UNCHANGED <<active, job>>
    BY <1>5 DEF StartParserRun, RowsTyped, TypedProcs
  <2>4. \A v \in Worker \ {w} : pc'[v] = pc[v] /\ mine'[v] = mine[v]
    BY <1>5 DEF StartParserRun, RowsTyped, TypedProcs
  <2>5. \A k \in Job : active[k] \in 0..Len(parser[k]) /\ Len(parser[k]) \in Nat
    BY DEF ParseInv, ActiveParseIsReported, RowsTyped, TypedRows
  <2>6. \A v \in Worker : pc[v] \in Begun => held[v] \in Job /\ mine[v] \in 1..Len(parser[held[v]])
    BY DEF RowsTyped, TypedProcs, Executing, Begun
  <2>7. OwnRuns'
    <3>1. ASSUME NEW v \in Worker, pc'[v] \in Begun PROVE active'[held'[v]] # mine'[v]
      <4>1. CASE v = w
        <5> DEFINE length == Len(parser[j])
        <5>1. active'[held'[v]] = active[j] /\ mine'[v] = length + 1
          BY <2>3, <4>1
        <5>2. active[j] \in 0..length /\ length \in Nat
          BY <2>1, <2>5
        <5> HIDE DEF length, j
        <5> QED
          BY <5>1, <5>2
      <4>2. CASE v # w
        BY <2>3, <2>4, <3>1, <4>2 DEF ParseInv, OwnRuns
      <4> QED
        BY <4>1, <4>2
    <3>2. ASSUME NEW u \in Worker, NEW v \in Worker, u # v,
                 pc'[u] \in Begun, pc'[v] \in Begun, held'[u] = held'[v]
          PROVE  mine'[u] # mine'[v]
      <4>1. CASE u # w /\ v # w
        BY <2>3, <2>4, <3>2, <4>1 DEF ParseInv, OwnRuns
      <4>2. CASE u = w \/ v = w
        BY <2>1, <2>3, <2>4, <2>6, <3>2, <4>2
      <4> QED
        BY <4>1, <4>2
    <3> QED
      BY <3>1, <3>2 DEF OwnRuns
  <2>8. ActiveParseIsReported'
    <3> SUFFICES ASSUME NEW k \in Job
                 PROVE  /\ active[k] \in 0..Len(parser'[k])
                        /\ active[k] # 0 => parser'[k][active[k]] \in Outcome
                        /\ job[k] \in Outcome => active[k] # 0 /\ parser'[k][active[k]] = job[k]
      BY <2>3 DEF ActiveParseIsReported
    <3>1. Len(parser'[k]) \in {Len(parser[k]), Len(parser[k]) + 1}
      BY <2>2
    <3>2. active[k] \in 0..Len(parser'[k])
      BY <2>5, <3>1
    <3>3. active[k] # 0 => parser'[k][active[k]] = parser[k][active[k]]
      BY <2>2, <2>5
    <3> QED
      BY <3>2, <3>3 DEF ParseInv, ActiveParseIsReported
  <2> QED
    BY <2>7, <2>8 DEF ParseInv
<1>6. ASSUME NEW w \in Worker, FinishCancelled(w) \/ (\E o \in Outcome : Persist(w, o)) \/ Fail(w)
      PROVE  ParseInv'
  <2> DEFINE j == held[w]
  <2>1. j \in Job /\ mine[w] \in 1..Len(parser[j]) /\ Executing(w) /\ pc[w] \in Begun
    BY <1>6 DEF FinishCancelled, Persist, Fail, Guarded, RowsTyped, TypedProcs, Executing, Begun, Busy
  <2>2. Leaves(w) /\ faults' = faults
    BY <1>6, <2>1 DEF FinishCancelled, Persist, Fail, Release, Leaves
  <2>3. \A v \in Worker : pc'[v] \in Begun =>
           v # w /\ pc[v] \in Begun /\ held'[v] = held[v] /\ mine'[v] = mine[v]
    BY <2>2 DEF Leaves, RowsTyped, TypedProcs, Begun, Busy
  <2>4. \A k \in Job : active[k] \in 0..Len(parser[k]) /\ Len(parser[k]) \in Nat
    BY DEF ParseInv, ActiveParseIsReported, RowsTyped, TypedRows
  <2>5. ASSUME NEW o \in Outcome, Persist(w, o) PROVE ParseInv'
    <3>1. /\ parser' = [parser EXCEPT ![j][mine[w]] = o]
          /\ active' = [active EXCEPT ![j] = mine[w]] /\ job' = [job EXCEPT ![j] = o]
      BY <2>5 DEF Persist, Activated
    <3>2. \A k \in Job : /\ Len(parser'[k]) = Len(parser[k])
                         /\ \A n \in 1..Len(parser[k]) :
                              parser'[k][n] = IF k = j /\ n = mine[w] THEN o ELSE parser[k][n]
      <4>1. parser \in [Job -> Seq(ParserStatus)]
        BY DEF RowsTyped, TypedRows
      <4>2. o \in ParserStatus
        BY DEF ParserStatus, Outcome
      <4>3. j \in Job /\ mine[w] \in 1..Len(parser[j])
        BY <2>1
      <4> HIDE DEF j
      <4> QED
        BY <3>1, <4>1, <4>2, <4>3, ParserRunUpdate
    <3>3. OwnRuns'
      BY <2>1, <2>3, <3>1 DEF ParseInv, OwnRuns, RowsTyped, TypedRows
    <3>4. ActiveParseIsReported'
      <4> SUFFICES ASSUME NEW k \in Job
                   PROVE  /\ active'[k] \in 0..Len(parser'[k])
                          /\ active'[k] # 0 => parser'[k][active'[k]] \in Outcome
                          /\ job'[k] \in Outcome => active'[k] # 0 /\ parser'[k][active'[k]] = job'[k]
        BY DEF ActiveParseIsReported
      <4>1. CASE k = j
        <5>1. active'[k] = mine[w] /\ job'[k] = o
          BY <3>1, <4>1 DEF RowsTyped, TypedRows
        <5>2. active'[k] \in 1..Len(parser'[k]) /\ parser'[k][active'[k]] = o
          BY <2>1, <3>2, <4>1, <5>1
        <5> QED
          BY <5>1, <5>2
      <4>2. CASE k # j
        <5>1. active'[k] = active[k] /\ job'[k] = job[k]
          BY <3>1, <4>2 DEF RowsTyped, TypedRows
        <5>2. parser'[k] = parser[k]
          BY <3>1, <4>2 DEF RowsTyped, TypedRows
        <5> QED
          BY <5>1, <5>2 DEF ParseInv, ActiveParseIsReported
      <4> QED
        BY <4>1, <4>2
    <3> QED
      BY <3>3, <3>4 DEF ParseInv
  <2>6. ASSUME FinishCancelled(w) \/ Fail(w) PROVE ParseInv'
    <3>1. PICK s \in {"cancelled", "failed"} : parser' = [parser EXCEPT ![j][mine[w]] = s]
      BY <2>6 DEF FinishCancelled, Fail
    <3>2. \A k \in Job : /\ Len(parser'[k]) = Len(parser[k])
                         /\ \A n \in 1..Len(parser[k]) :
                              parser'[k][n] = IF k = j /\ n = mine[w] THEN s ELSE parser[k][n]
      BY <2>1, <3>1, ParserRunUpdate DEF RowsTyped, TypedRows, ParserStatus
    <3>3. active' = active /\ \A k \in Job : job'[k] \in Outcome => job'[k] = job[k]
      BY <2>1, <2>6 DEF FinishCancelled, Fail, RowsTyped, TypedRows, Outcome
    <3>4. active[j] # mine[w]
      BY <2>1 DEF ParseInv, OwnRuns
    <3>5. OwnRuns'
      BY <2>3, <3>3 DEF ParseInv, OwnRuns
    <3>6. ActiveParseIsReported'
      BY <2>1, <2>4, <3>2, <3>3, <3>4 DEF ParseInv, ActiveParseIsReported
    <3> QED
      BY <3>5, <3>6 DEF ParseInv
  <2> QED
    BY <1>6, <2>5, <2>6
<1>7. ASSUME NEW w \in Worker, Refuse(w) \/ Abandon(w) \/ Crash(w) PROVE ParseInv'
  <2>1. Leaves(w) /\ UNCHANGED <<job, parser, active>>
    BY <1>7 DEF Refuse, Abandon, Crash, Release, Leaves, Executing, Busy, documents
  <2>2. \A v \in Worker : pc'[v] \in Begun =>
           pc[v] \in Begun /\ held'[v] = held[v] /\ mine'[v] = mine[v]
    BY <2>1 DEF Leaves, RowsTyped, TypedProcs, Begun, Busy
  <2> QED
    BY <1>0, <2>1, <2>2
<1>8. ASSUME Tick \/ UNCHANGED vars PROVE ParseInv'
  BY <1>0, <1>8 DEF Tick, vars, documents, procs
<1> QED
  BY <1>1, <1>2, <1>3, <1>4, <1>5, <1>6, <1>7, <1>8 DEF Next, Proceed

LEMMA ParsesKept == Spec => [](RowsTyped /\ ParseInv)
<1>1. Init => ParseInv
  BY DEF Init, ParseInv, OwnRuns, ActiveParseIsReported, Begun, Busy, Outcome
<1> QED
  BY <1>1, RowsKept, ParseStep, PTL DEF Spec

\* However many workers parse a version at once, whoever of them overtakes
\* whom: the parse that is active is a finished one, and the one that the
\* job reports.
THEOREM ActiveParseReported == Spec => []ActiveParseIsReported
BY ParsesKept, PTL DEF ParseInv
-----------------------------------------------------------------------------
(* What the leases give: at most one live worker per job.                  *)

\* A worker that executes a job owns it, the job is running, and its lease
\* has what the silence of its heartbeat and the wait at the claim left.
Leased(w) ==
    /\ held[w] \in Job
    /\ job[held[w]] = "running" /\ owner[held[w]] = WorkerId[w]
    /\ ttl[held[w]] + silence[w] + LockWait >= LeaseTicks

LeaseInv ==
    /\ \A w \in Worker : Executing(w) => Leased(w)
    /\ SingleExecutor

\* The heart of the argument: a job that may be claimed has no executor.
LEMMA EligibleIsFree ==
    ASSUME LeaseSlack, RowsTyped, LeaseInv, NEW j \in Job, Eligible(j),
           NEW w \in Worker, Executing(w)
    PROVE  held[w] # j
<1> SUFFICES ASSUME held[w] = j PROVE FALSE
  OBVIOUS
<1>1. Leased(w) /\ ttl[j] = 0
  BY DEF LeaseInv, Leased, Eligible
<1>2. silence[w] + LockWait >= LeaseTicks
  BY <1>1, JobsAssumption DEF Leased, RowsTyped, TypedProcs
<1>3. silence[w] <= MaxSilence /\ silence[w] \in Nat
  BY JobsAssumption DEF RowsTyped, TypedProcs
<1> QED
  BY <1>2, <1>3, JobsAssumption DEF LeaseSlack

\* A step that leaves alone the lease of every job that is executed after
\* it, and lets nobody begin.
LEMMA LeasesUntouched ==
    ASSUME LeaseInv,
           \A v \in Worker : Executing(v)' =>
              /\ Executing(v) /\ held'[v] = held[v] /\ silence'[v] = silence[v]
              /\ \A j \in Job : held[v] = j =>
                    job'[j] = job[j] /\ owner'[j] = owner[j] /\ ttl'[j] = ttl[j]
    PROVE  LeaseInv'
<1>1. ASSUME NEW v \in Worker, Executing(v)' PROVE Leased(v)'
  BY <1>1 DEF LeaseInv, Leased
<1>2. SingleExecutor'
  BY DEF LeaseInv, SingleExecutor
<1> QED
  BY <1>1, <1>2 DEF LeaseInv

LEMMA LeaseStep == LeaseSlack /\ RowsTyped /\ LeaseInv /\ [Next]_vars => LeaseInv'
<1> SUFFICES ASSUME LeaseSlack, RowsTyped, LeaseInv, [Next]_vars PROVE LeaseInv'
  OBVIOUS
<1> USE JobsAssumption
<1>0. \A v \in Worker : Executing(v) => held[v] \in Job /\ job[held[v]] = "running"
  BY DEF LeaseInv, Leased
<1>1. ASSUME NEW j \in Job, Import(j) \/ CancelPending(j) \/ CancelRunning(j) \/ RetryJob(j)
      PROVE  LeaseInv'
  <2>1. UNCHANGED procs /\ \A v \in Worker : Executing(v)' <=> Executing(v)
    BY <1>1 DEF Import, CancelPending, CancelRunning, RetryJob, procs, Executing
  <2>2. job[j] = "running" => UNCHANGED <<job, lease>>
    BY <1>1 DEF Import, CancelPending, CancelRunning, RetryJob
  <2>3. \A k \in Job \ {j} : job'[k] = job[k] /\ owner'[k] = owner[k] /\ ttl'[k] = ttl[k]
    BY <1>1 DEF Import, CancelPending, CancelRunning, RetryJob, lease, RowsTyped, TypedRows
  <2> QED
    BY <1>0, <2>1, <2>2, <2>3, LeasesUntouched DEF procs, lease
<1>2. ASSUME NEW d \in Document, DeleteDocument(d) PROVE LeaseInv'
  BY <1>2, LeasesUntouched DEF DeleteDocument, procs, lease, Executing
<1>3. ASSUME NEW w \in Worker, NEW j \in Job, Claim(w, j) PROVE LeaseInv'
  <2>1. Eligible(j) /\ ~Executing(w)
    BY <1>3 DEF Claim, Executing, Busy
  <2>2. \A v \in Worker : Executing(v) => held[v] # j
    BY <2>1, EligibleIsFree
  <2>3. /\ pc'[w] = "claimed" /\ held'[w] = j /\ silence'[w] = 0
        /\ \A v \in Worker \ {w} :
              pc'[v] = pc[v] /\ held'[v] = held[v] /\ silence'[v] = silence[v]
    BY <1>3 DEF Claim, RowsTyped, TypedProcs
  <2>4. /\ job'[j] = "running" /\ owner'[j] = WorkerId[w]
        /\ \A k \in Job \ {j} : job'[k] = job[k] /\ owner'[k] = owner[k] /\ ttl'[k] = ttl[k]
    BY <1>3 DEF Claim, RowsTyped, TypedRows
  <2>5. ttl'[j] + LockWait >= LeaseTicks /\ ttl'[j] \in Nat
    <3>1. PICK delay \in 0..LockWait :
             ttl' = [ttl EXCEPT ![j] = IF delay < LeaseTicks THEN LeaseTicks - delay ELSE 0]
      BY <1>3 DEF Claim
    <3>2. ttl'[j] = IF delay < LeaseTicks THEN LeaseTicks - delay ELSE 0
      BY <3>1 DEF RowsTyped, TypedRows
    <3> QED
      BY <3>2
  <2>6. Leased(w)'
    BY <2>3, <2>4, <2>5 DEF Leased
  <2>7. ASSUME NEW v \in Worker \ {w}, Executing(v)' PROVE Leased(v)'
    <3>1. Executing(v) /\ held'[v] = held[v] /\ silence'[v] = silence[v]
      BY <2>3, <2>7 DEF Executing
    <3>2. Leased(v) /\ held[v] \in Job \ {j}
      BY <3>1, <2>2 DEF LeaseInv, Leased
    <3>3. job'[held[v]] = job[held[v]] /\ owner'[held[v]] = owner[held[v]] /\ ttl'[held[v]] = ttl[held[v]]
      BY <3>2, <2>4
    <3> QED
      BY <3>1, <3>2, <3>3 DEF Leased
  <2>8. SingleExecutor'
    BY <2>2, <2>3 DEF SingleExecutor, LeaseInv, Executing
  <2> QED
    BY <2>6, <2>7, <2>8 DEF LeaseInv
<1>4. ASSUME NEW w \in Worker, Load(w) \/ StartParserRun(w) \/ CheckCancel(w) \/ Advance(w) \/ Restart(w)
      PROVE  LeaseInv'
  <2>1. UNCHANGED <<job, lease, held, silence>>
    BY <1>4 DEF Load, StartParserRun, CheckCancel, Advance, Restart
  <2>2. \A v \in Worker : Executing(v)' => Executing(v)
    BY <1>4 DEF Load, StartParserRun, CheckCancel, AfterCheck, Advance, Restart, Executing, Busy,
                RowsTyped, TypedProcs
  <2> QED
    BY <2>1, <2>2, LeasesUntouched DEF lease
<1>5. ASSUME NEW w \in Worker, \/ FinishCancelled(w) \/ (\E o \in Outcome : Persist(w, o)) \/ Fail(w)
                               \/ Refuse(w) \/ Abandon(w) \/ Crash(w)
      PROVE  LeaseInv'
  <2>1. Leaves(w)
    BY <1>5 DEF FinishCancelled, Persist, Fail, Guarded, Refuse, Abandon, Crash, Release, Leaves,
                Executing, Busy
  <2>2. \A v \in Worker : Executing(v)' =>
           v # w /\ Executing(v) /\ held'[v] = held[v] /\ silence'[v] = silence[v]
    BY <2>1 DEF Leaves, Executing, Busy, RowsTyped, TypedProcs
  <2>3. \A v \in Worker : Executing(v)' => held[v] # held[w]
    BY <2>1, <2>2 DEF LeaseInv, SingleExecutor, Leaves
  <2>4. \A k \in Job : k # held[w] =>
           job'[k] = job[k] /\ owner'[k] = owner[k] /\ ttl'[k] = ttl[k]
    <3>1. CASE Refuse(w) \/ Abandon(w) \/ Crash(w)
      BY <3>1 DEF Refuse, Abandon, Crash, lease
    <3>2. CASE FinishCancelled(w)
      BY <3>2 DEF FinishCancelled, RowsTyped, TypedRows
    <3>3. CASE \E o \in Outcome : Persist(w, o)
      BY <3>3 DEF Persist, RowsTyped, TypedRows
    <3>4. CASE Fail(w)
      BY <3>4 DEF Fail, RowsTyped, TypedRows
    <3> QED
      BY <1>5, <3>1, <3>2, <3>3, <3>4
  <2> QED
    BY <2>2, <2>3, <2>4, LeasesUntouched
<1>6. ASSUME NEW w \in Worker, Beat(w) PROVE LeaseInv'
  <2>1. \A v \in Worker : Executing(v)' <=> Executing(v)
    BY <1>6 DEF Beat, Executing
  <2>2. \A v \in Worker : Executing(v) /\ v # w => held[v] # held[w]
    BY <1>6 DEF Beat, LeaseInv, SingleExecutor
  <2>3. Leased(w)
    BY <1>6 DEF Beat, LeaseInv
  <2>4. /\ ttl'[held[w]] = LeaseTicks /\ silence'[w] = 0 /\ UNCHANGED <<job, owner, held>>
        /\ \A v \in Worker \ {w} : silence'[v] = silence[v]
        /\ \A k \in Job \ {held[w]} : ttl'[k] = ttl[k]
    BY <1>6, <2>3 DEF Beat, Leased, RowsTyped, TypedRows, TypedProcs
  <2>5. Leased(w)'
    BY <2>3, <2>4 DEF Leased
  <2>6. ASSUME NEW v \in Worker, Executing(v), v # w PROVE Leased(v)'
    BY <2>2, <2>4, <2>6 DEF LeaseInv, Leased
  <2> QED
    BY <2>1, <2>4, <2>5, <2>6 DEF LeaseInv, SingleExecutor
<1>7. ASSUME Tick PROVE LeaseInv'
  <2>1. UNCHANGED <<job, owner, pc, held>> /\ \A v \in Worker : Executing(v)' <=> Executing(v)
    BY <1>7 DEF Tick, Executing
  <2>2. ASSUME NEW v \in Worker, Executing(v) PROVE Leased(v)'
    <3>1. Leased(v) /\ silence'[v] = silence[v] + 1 /\ silence[v] \in Nat
      BY <1>7, <2>2 DEF Tick, LeaseInv, RowsTyped, TypedProcs
    <3>2. ttl'[held[v]] + 1 >= ttl[held[v]] /\ ttl[held[v]] \in Nat /\ ttl'[held[v]] \in Nat
      <4>1. ttl[held[v]] \in 0..LeaseTicks
        BY <3>1 DEF Leased, RowsTyped, TypedRows
      <4>2. ttl'[held[v]] = IF ttl[held[v]] > 0 THEN ttl[held[v]] - 1 ELSE 0
        BY <1>7, <3>1 DEF Tick, Leased
      <4> QED
        BY <4>1, <4>2
    <3> QED
      BY <2>1, <3>1, <3>2 DEF Leased
  <2> QED
    BY <2>1, <2>2 DEF LeaseInv, SingleExecutor
<1>8. ASSUME UNCHANGED vars PROVE LeaseInv'
  BY <1>8, LeasesUntouched DEF vars, lease, procs, Executing
<1> QED
  BY <1>1, <1>2, <1>3, <1>4, <1>5, <1>6, <1>7, <1>8 DEF Next, Proceed

LEMMA LeasesKept == LeaseSlack => (Spec => [](RowsTyped /\ LeaseInv))
<1> SUFFICES ASSUME LeaseSlack PROVE Spec => [](RowsTyped /\ LeaseInv)
  OBVIOUS
<1>1. Init => LeaseInv
  BY DEF Init, LeaseInv, SingleExecutor, Executing, Busy
<1>2. RowsTyped /\ LeaseInv /\ [Next]_vars => LeaseInv'
  BY LeaseStep
<1> QED
  BY <1>1, <1>2, RowsKept, PTL DEF Spec

\* When a lease outlives the longest silence of a heartbeat and the wait for
\* the write lock, no job ever has two live executors.
THEOREM OneExecutor == LeaseSlack => (Spec => []SingleExecutor)
<1> SUFFICES ASSUME LeaseSlack PROVE Spec => []SingleExecutor
  OBVIOUS
<1>1. RowsTyped /\ LeaseInv => SingleExecutor
  BY DEF LeaseInv
<1> QED
  BY <1>1, LeasesKept, PTL

-----------------------------------------------------------------------------
(* The state machine of a job.                                             *)

\* What a worker writes at the end of its attempt, it writes to a running job.
LEMMA WriterFindsRunning ==
    ASSUME RowsTyped, LeaseInv, NEW w \in Worker,
           FinishCancelled(w) \/ (\E o \in Outcome : Persist(w, o)) \/ Fail(w)
    PROVE  /\ held[w] \in Job /\ job[held[w]] = "running" /\ Leaves(w)
           /\ job'[held[w]] \in Terminal \cup {"pending"}
           /\ \A k \in Job \ {held[w]} : job'[k] = job[k]
<1>1. Leaves(w)
  BY DEF FinishCancelled, Persist, Fail, Guarded, Release, Leaves, Executing, Busy
<1>2. held[w] \in Job /\ job[held[w]] = "running"
  BY <1>1 DEF LeaseInv, Leased, Leaves
<1> QED
  BY <1>1, <1>2 DEF FinishCancelled, Persist, Fail, Terminal, RowsTyped, TypedRows

LEMMA TransitionStep ==
    ASSUME RowsTyped, LeaseInv, [Next]_vars, NEW j \in Job
    PROVE  /\ <<job[j], job'[j]>> \in Transition
           /\ job[j] \in Terminal /\ job'[j] # job[j] => retries'[j] = retries[j] + 1
<1> DEFINE Legal == /\ <<job[j], job'[j]>> \in Transition
                    /\ job[j] \in Terminal /\ job'[j] # job[j] => retries'[j] = retries[j] + 1
<1>0. ASSUME job'[j] = job[j] PROVE Legal
  BY <1>0 DEF Transition, RowsTyped, TypedRows
<1>1. ASSUME NEW k \in Job, Import(k) \/ CancelPending(k) \/ CancelRunning(k) \/ RetryJob(k)
      PROVE  Legal
  <2>1. CASE k # j
    BY <1>0, <1>1, <2>1 DEF Import, CancelPending, CancelRunning, RetryJob, RowsTyped, TypedRows
  <2>2. CASE k = j
    <3>1. CASE Import(j)
      BY <3>1 DEF Import, Transition, Terminal, Outcome, RowsTyped, TypedRows
    <3>2. CASE CancelPending(j)
      BY <3>2 DEF CancelPending, Transition, Terminal, Outcome, RowsTyped, TypedRows
    <3>3. CASE CancelRunning(j)
      BY <1>0, <3>3 DEF CancelRunning
    <3>4. CASE RetryJob(j)
      BY <3>4 DEF RetryJob, Transition, RowsTyped, TypedRows
    <3> QED
      BY <1>1, <2>2, <3>1, <3>2, <3>3, <3>4
  <2> QED
    BY <2>1, <2>2
<1>2. ASSUME NEW w \in Worker, NEW k \in Job, Claim(w, k) PROVE Legal
  <2>1. job[k] \in {"pending", "running"} /\ job' = [job EXCEPT ![k] = "running"]
    BY <1>2 DEF Claim, Eligible
  <2> QED
    BY <1>0, <2>1 DEF Transition, Terminal, Outcome, RowsTyped, TypedRows
<1>3. ASSUME NEW w \in Worker,
             FinishCancelled(w) \/ (\E o \in Outcome : Persist(w, o)) \/ Fail(w)
      PROVE  Legal
  <2>1. CASE held[w] = j
    <3>1. job[j] = "running" /\ job'[j] \in Terminal \cup {"pending"}
      BY <1>3, <2>1, WriterFindsRunning
    <3> QED
      BY <3>1 DEF Transition, Terminal, Outcome
  <2>2. CASE held[w] # j
    BY <1>0, <1>3, <2>2, WriterFindsRunning
  <2> QED
    BY <2>1, <2>2
<1> QED
  BY <1>0, <1>1, <1>2, <1>3
  DEF Next, Proceed, DeleteDocument, Load, Refuse, StartParserRun, CheckCancel, Advance, Abandon,
      Beat, Crash, Restart, Tick, vars

\* When leases outlive silences, every step moves a job along its state
\* machine: a finished parse is never reopened, and only retry_job takes a
\* job out of its end.
THEOREM TransitionsAreLegal == LeaseSlack => (Spec => LegalTransitions)
<1> SUFFICES ASSUME LeaseSlack PROVE Spec => LegalTransitions
  OBVIOUS
<1>1. RowsTyped /\ LeaseInv /\ [Next]_vars
        => [\A j \in Job :
              /\ <<job[j], job'[j]>> \in Transition
              /\ job[j] \in Terminal /\ job'[j] # job[j] => retries'[j] = retries[j] + 1]_vars
  BY TransitionStep
<1> QED
  BY <1>1, LeasesKept, PTL DEF Spec, LegalTransitions

-----------------------------------------------------------------------------
(* How often a job is attempted.                                           *)

\* Each attempt beyond the configured ones was paid for by a retry of the
\* user or by a fault of a worker; a job that may be claimed has one to spare.
Spare(j) ==
    \/ job[j] \in {"absent", "pending"}
    \/ job[j] = "running" /\ \A w \in Worker : Executing(w) => held[w] # j
Credit(j) ==
    /\ attempts[j] <= MaxAttempts + retries[j] + faults
    /\ Spare(j) => attempts[j] < MaxAttempts + retries[j] + faults
CreditInv == \A j \in Job : (job[j] = "absent" => attempts[j] = 0) /\ Credit(j)

LEMMA CreditStep ==
    RowsTyped /\ LeaseInv /\ CreditInv /\ LeaseSlack /\ [Next]_vars => CreditInv'
<1> SUFFICES ASSUME RowsTyped, LeaseInv, CreditInv, LeaseSlack, [Next]_vars PROVE CreditInv'
  OBVIOUS
<1> USE JobsAssumption
<1>0. /\ \A j \in Job : attempts[j] \in Nat /\ retries[j] \in Nat
      /\ faults \in Nat /\ MaxAttempts \in Nat \ {0}
  BY DEF RowsTyped, TypedRows, TypedProcs
\* A step that gives no job an attempt, nor one to spare.
<1>1. ASSUME UNCHANGED <<attempts, retries, faults>>,
             \A j \in Job : job'[j] = "absent" => job[j] = "absent",
             \A j \in Job : Spare(j)' => Spare(j)
      PROVE  CreditInv'
  BY <1>1 DEF CreditInv, Credit
<1>2. ASSUME NEW j \in Job, Import(j) \/ CancelPending(j) \/ CancelRunning(j) PROVE CreditInv'
  <2>1. UNCHANGED <<attempts, retries, procs>>
    BY <1>2 DEF Import, CancelPending, CancelRunning
  <2>2. \A k \in Job \ {j} : job'[k] = job[k]
    BY <1>2 DEF Import, CancelPending, CancelRunning, RowsTyped, TypedRows
  <2>3. Spare(j)' => Spare(j)
    BY <1>2, <2>1 DEF Import, CancelPending, CancelRunning, Spare, procs, Executing, RowsTyped, TypedRows
  <2>4. job'[j] # "absent"
    BY <1>2 DEF Import, CancelPending, CancelRunning, RowsTyped, TypedRows
  <2> QED
    BY <1>1, <2>1, <2>2, <2>3, <2>4 DEF Spare, procs, Executing
<1>3. ASSUME NEW j \in Job, RetryJob(j) PROVE CreditInv'
  <2>1. UNCHANGED <<attempts, procs>>
    BY <1>3 DEF RetryJob
  <2>2. retries'[j] = retries[j] + 1 /\ job'[j] = "pending"
    BY <1>3 DEF RetryJob, RowsTyped, TypedRows
  <2>3. \A k \in Job \ {j} : job'[k] = job[k] /\ retries'[k] = retries[k]
    BY <1>3 DEF RetryJob, RowsTyped, TypedRows
  <2>4. Credit(j)' /\ job'[j] # "absent"
    BY <1>0, <2>1, <2>2 DEF CreditInv, Credit, procs
  <2>5. ASSUME NEW k \in Job \ {j} PROVE Credit(k)' /\ (job'[k] = "absent" => attempts'[k] = 0)
    BY <2>1, <2>3 DEF CreditInv, Credit, Spare, procs, Executing
  <2> QED
    BY <2>4, <2>5 DEF CreditInv
<1>4. ASSUME NEW w \in Worker, NEW j \in Job, Claim(w, j) PROVE CreditInv'
  <2>1. Eligible(j) /\ \A v \in Worker : Executing(v) => held[v] # j
    BY <1>4, EligibleIsFree DEF Claim
  <2>2. Spare(j)
    BY <2>1 DEF Spare, Eligible
  <2>3. /\ attempts'[j] = attempts[j] + 1 /\ job'[j] = "running"
        /\ \A k \in Job \ {j} : attempts'[k] = attempts[k] /\ job'[k] = job[k]
        /\ UNCHANGED <<retries, faults>>
    BY <1>4 DEF Claim, RowsTyped, TypedRows
  <2>4. /\ pc'[w] = "claimed" /\ held'[w] = j
        /\ \A v \in Worker \ {w} : pc'[v] = pc[v] /\ held'[v] = held[v]
    BY <1>4 DEF Claim, RowsTyped, TypedProcs
  <2>5. ~Spare(j)'
    BY <2>3, <2>4 DEF Spare, Executing, Busy
  <2>6. ~Executing(w)
    BY <1>4 DEF Claim, Executing, Busy
  <2>7. \A k \in Job \ {j} : Spare(k)' => Spare(k)
    BY <2>3, <2>4, <2>6 DEF Spare, Executing
  <2>8. Credit(j)'
    BY <1>0, <2>2, <2>3, <2>5 DEF CreditInv, Credit
  <2> QED
    BY <2>3, <2>7, <2>8 DEF CreditInv, Credit
<1>5. ASSUME NEW w \in Worker, FinishCancelled(w) \/ (\E o \in Outcome : Persist(w, o)) \/ Fail(w)
      PROVE  CreditInv'
  <2>0. PICK j \in Job : j = held[w]
    BY <1>5, WriterFindsRunning
  <2>1. /\ job[j] = "running" /\ Leaves(w) /\ job'[j] \in Terminal \cup {"pending"}
        /\ \A k \in Job \ {j} : job'[k] = job[k]
    BY <1>5, <2>0, WriterFindsRunning
  <2>2. UNCHANGED <<attempts, retries, faults>>
    BY <1>5 DEF FinishCancelled, Persist, Fail
  <2>3. job'[j] = "pending" => attempts[j] < MaxAttempts
    BY <1>5, <2>0, <2>1 DEF FinishCancelled, Persist, Fail, Outcome, RowsTyped, TypedRows
  <2>4. \A v \in Worker \ {w} : pc'[v] = pc[v] /\ held'[v] = held[v]
    BY <2>1 DEF Leaves, RowsTyped, TypedProcs
  <2>5. \A k \in Job \ {j} : Spare(k)' => Spare(k)
    BY <2>0, <2>1, <2>4 DEF Spare, Executing
  <2>6. Credit(j)' /\ job'[j] # "absent"
    <3>1. Spare(j)' => job'[j] = "pending"
      BY <2>1 DEF Spare, Terminal, Outcome
    <3> QED
      BY <1>0, <2>1, <2>2, <2>3, <3>1 DEF CreditInv, Credit, Terminal, Outcome
  <2> QED
    BY <2>1, <2>2, <2>5, <2>6 DEF CreditInv, Credit
<1>6. ASSUME NEW w \in Worker, Abandon(w) \/ Crash(w) PROVE CreditInv'
  <2>1. UNCHANGED <<job, attempts, retries>> /\ faults' = faults + 1
    BY <1>6 DEF Abandon, Crash
  <2> QED
    BY <1>0, <2>1 DEF CreditInv, Credit
<1>7. ASSUME NEW w \in Worker, Refuse(w) PROVE FALSE
  BY <1>7 DEF Refuse, LeaseInv, Leased, Executing, Busy
<1>8. ASSUME UNCHANGED <<job, attempts, retries, faults, held>>,
             \A w \in Worker : Executing(w) => Executing(w)'
      PROVE  CreditInv'
  BY <1>1, <1>8 DEF Spare
<1>9. ASSUME NEW d \in Document, DeleteDocument(d) PROVE CreditInv'
  BY <1>8, <1>9 DEF DeleteDocument, procs, Executing
<1>10. ASSUME NEW w \in Worker, Load(w) \/ StartParserRun(w) \/ CheckCancel(w) \/ Advance(w) \/ Restart(w)
       PROVE  CreditInv'
  <2>1. \A v \in Worker : Executing(v) => Executing(v)'
    BY <1>10 DEF Load, StartParserRun, CheckCancel, AfterCheck, Advance, Restart, Executing, Busy,
                 RowsTyped, TypedProcs
  <2> QED
    BY <1>8, <1>10, <2>1 DEF Load, StartParserRun, CheckCancel, Advance, Restart
<1>11. ASSUME NEW w \in Worker, Beat(w) PROVE CreditInv'
  BY <1>8, <1>11 DEF Beat, Executing
<1>12. ASSUME Tick \/ UNCHANGED vars PROVE CreditInv'
  BY <1>8, <1>12 DEF Tick, vars, procs, Executing
<1> QED
  BY <1>2, <1>3, <1>4, <1>5, <1>6, <1>7, <1>9, <1>10, <1>11, <1>12 DEF Next, Proceed

LEMMA CreditKept == LeaseSlack => (Spec => [](RowsTyped /\ LeaseInv /\ CreditInv))
<1> SUFFICES ASSUME LeaseSlack PROVE Spec => [](RowsTyped /\ LeaseInv /\ CreditInv)
  OBVIOUS
<1>1. Init => CreditInv
  BY JobsAssumption DEF Init, CreditInv, Credit
<1>2. RowsTyped /\ LeaseInv /\ CreditInv /\ [Next]_vars => CreditInv'
  BY CreditStep
<1> QED
  BY <1>1, <1>2, LeasesKept, PTL DEF Spec

\* With leases kept, an attempt beyond the configured number is always one
\* the user asked for or one a worker was lost in: the queue itself never
\* exceeds its bound, and all its values are of their types.
THEOREM TypeCorrect == LeaseSlack => (Spec => []TypeOK)
<1> SUFFICES ASSUME LeaseSlack PROVE Spec => []TypeOK
  OBVIOUS
<1>1. RowsTyped /\ CreditInv => TypeOK
  <2> SUFFICES ASSUME RowsTyped, CreditInv PROVE TypeOK
    OBVIOUS
  <2>1. ASSUME NEW j \in Job PROVE attempts[j] \in Attempt
    <3>1. attempts[j] \in Nat /\ retries[j] \in 0..MaxRetries /\ faults \in 0..MaxFaults
      BY DEF RowsTyped, TypedRows, TypedProcs
    <3>2. attempts[j] <= MaxAttempts + retries[j] + faults
      BY DEF CreditInv, Credit
    <3> QED
      BY <3>1, <3>2, JobsAssumption DEF Attempt
  <2> QED
    BY <2>1 DEF RowsTyped, TypedRows, TypedProcs, TypeOK, Stage, ParserStatus
<1> QED
  BY <1>1, CreditKept, PTL

-----------------------------------------------------------------------------
(* The records of a job: its stage, and the document the user sees.        *)

\* The row of a job that is at stage s has the status that goes with it.
Agrees(j) ==
    /\ job[j] \in Outcome <=> stage[j] = "completed"
    /\ job[j] = "pending" <=> stage[j] \in {"queued", "retry_wait"}
    /\ \A s \in {"failed", "cancelled"} : job[j] = s <=> stage[j] = s

LEMMA StageStep == RowsTyped /\ LeaseInv /\ StageAgrees /\ [Next]_vars => StageAgrees'
<1> SUFFICES ASSUME RowsTyped, LeaseInv, \A j \in Job : Agrees(j), [Next]_vars, NEW j \in Job
             PROVE  Agrees(j)'
  BY DEF StageAgrees, Agrees
<1>0. ASSUME job'[j] = job[j], stage'[j] = stage[j] PROVE Agrees(j)'
  BY <1>0 DEF Agrees
<1>1. ASSUME NEW k \in Job, \/ Import(k) \/ CancelPending(k) \/ CancelRunning(k) \/ RetryJob(k)
                            \/ \E w \in Worker : Claim(w, k)
      PROVE  Agrees(j)'
  <2>1. CASE k # j
    BY <1>0, <1>1, <2>1 DEF Import, CancelPending, CancelRunning, RetryJob, Claim, RowsTyped, TypedRows
  <2>2. CASE k = j
    BY <1>0, <1>1, <2>2
    DEF Import, CancelPending, CancelRunning, RetryJob, Claim, RowsTyped, TypedRows, Agrees, Outcome
  <2> QED
    BY <2>1, <2>2
\* A worker in the middle of a job finds it running, and leaves it so.
<1>2. ASSUME NEW w \in Worker, StartParserRun(w) \/ Advance(w) PROVE Agrees(j)'
  <2>1. job[held[w]] = "running" /\ held[w] \in Job
    BY <1>2 DEF StartParserRun, Advance, LeaseInv, Leased, Executing, Busy
  <2>2. job' = job
    BY <1>2 DEF StartParserRun, Advance
  <2>3. ASSUME NEW s \in {"native_parsing", "rendering", "visual_enrichment"},
               stage' = [stage EXCEPT ![held[w]] = s]
        PROVE  Agrees(j)'
    BY <2>1, <2>2, <2>3 DEF Agrees, Outcome, RowsTyped, TypedRows
  <2>4. CASE StartParserRun(w)
    BY <2>3, <2>4 DEF StartParserRun
  <2>5. CASE Advance(w)
    <3>1. PICK to \in {<<"parsed", "rendering", "rendering">>,
                      <<"rendered", "enriched", "visual_enrichment">>} :
             stage' = [stage EXCEPT ![held[w]] = to[3]]
      BY <2>5 DEF Advance
    <3>2. CASE to = <<"parsed", "rendering", "rendering">>
      BY <2>3, <3>1, <3>2
    <3>3. CASE to = <<"rendered", "enriched", "visual_enrichment">>
      BY <2>3, <3>1, <3>3
    <3> QED
      BY <3>1, <3>2, <3>3
  <2> QED
    BY <1>2, <2>4, <2>5
<1>3. ASSUME NEW w \in Worker, FinishCancelled(w) \/ (\E o \in Outcome : Persist(w, o)) \/ Fail(w)
      PROVE  Agrees(j)'
  <2>1. CASE held[w] = j
    BY <1>3, <2>1 DEF FinishCancelled, Persist, Fail, Agrees, Outcome, RowsTyped, TypedRows
  <2>2. CASE held[w] # j
    BY <1>0, <1>3, <2>2 DEF FinishCancelled, Persist, Fail, RowsTyped, TypedRows
  <2> QED
    BY <2>1, <2>2
<1>4. CASE UNCHANGED <<job, stage>>
  BY <1>0, <1>4
<1> QED
  BY <1>1, <1>2, <1>3, <1>4
  DEF Next, Proceed, DeleteDocument, Load, Refuse, CheckCancel, Abandon, Beat, Crash, Restart, Tick, vars

\* What a step does to a document, and to the jobs that are its versions: the
\* six transactions that write documents.status.
LEMMA DocumentStep ==
    ASSUME RowsTyped, [Next]_vars
    PROVE  \/ UNCHANGED <<doc, deleted>> /\ \A j \in Job :
                 job'[j] = job[j] \/ (job[j] \in {"pending", "running"} /\ job'[j] = "running")
           \/ \E d \in Document : /\ doc' = [doc EXCEPT ![d] = "deleted"]
                                  /\ deleted' = [deleted EXCEPT ![d] = TRUE] /\ job' = job
           \/ \E j \in Job : /\ \A k \in Job \ {j} : job'[k] = job[k]
                             /\ job'[j] \in Terminal \cup {"pending"}
                             /\ doc' = [doc EXCEPT ![DocOf[j]] =
                                           IF job'[j] \in Terminal THEN job'[j] ELSE "processing"]
                             /\ deleted' = deleted
<1> DEFINE Writes(j) ==
        /\ \A k \in Job \ {j} : job'[k] = job[k]
        /\ job'[j] \in Terminal \cup {"pending"}
        /\ doc' = [doc EXCEPT ![DocOf[j]] = IF job'[j] \in Terminal THEN job'[j] ELSE "processing"]
        /\ deleted' = deleted
<1>1. ASSUME NEW j \in Job, Import(j) \/ CancelPending(j) \/ RetryJob(j) PROVE Writes(j)
  BY <1>1 DEF Import, CancelPending, RetryJob, Terminal, Outcome, RowsTyped, TypedRows
<1>2. ASSUME NEW w \in Worker, FinishCancelled(w) \/ (\E o \in Outcome : Persist(w, o)) \/ Fail(w)
      PROVE  held[w] \in Job /\ Writes(held[w])
  <2>1. held[w] \in Job
    BY <1>2 DEF FinishCancelled, Persist, Fail, Guarded, RowsTyped, TypedProcs, Executing, Busy
  <2>2. CASE FinishCancelled(w)
    BY <2>1, <2>2 DEF FinishCancelled, Terminal, Outcome, RowsTyped, TypedRows
  <2>3. ASSUME NEW o \in Outcome, Persist(w, o) PROVE Writes(held[w])
    BY <2>1, <2>3 DEF Persist, Terminal, RowsTyped, TypedRows
  <2>4. CASE Fail(w)
    BY <2>1, <2>4 DEF Fail, FailedDocStatus, Terminal, Outcome, RowsTyped, TypedRows
  <2> QED
    BY <1>2, <2>1, <2>2, <2>3, <2>4
<1>3. ASSUME NEW d \in Document, DeleteDocument(d)
      PROVE  /\ doc' = [doc EXCEPT ![d] = "deleted"]
             /\ deleted' = [deleted EXCEPT ![d] = TRUE] /\ job' = job
  BY <1>3 DEF DeleteDocument
<1> DEFINE Quiet == UNCHANGED <<doc, deleted>> /\ \A j \in Job :
                 job'[j] = job[j] \/ (job[j] \in {"pending", "running"} /\ job'[j] = "running")
<1>4. ASSUME NEW w \in Worker, NEW j \in Job, Claim(w, j) PROVE Quiet
  BY <1>4 DEF Claim, Eligible, documents, RowsTyped, TypedRows
<1>5. ASSUME UNCHANGED <<doc, deleted, job>> PROVE Quiet
  BY <1>5
<1>6. CASE \E j \in Job : Import(j) \/ CancelPending(j) \/ RetryJob(j)
  <2>1. PICK j \in Job : Writes(j)
    BY <1>1, <1>6
  <2> QED
    BY <2>1
<1>7. CASE \E w \in Worker : FinishCancelled(w) \/ (\E o \in Outcome : Persist(w, o)) \/ Fail(w)
  <2>1. PICK j \in Job : Writes(j)
    BY <1>2, <1>7
  <2> QED
    BY <2>1
<1>8. CASE \E d \in Document : DeleteDocument(d)
  BY <1>3, <1>8
<1>9. CASE \E w \in Worker, j \in Job : Claim(w, j)
  BY <1>4, <1>9
<1> HIDE DEF Writes, Quiet
<1>10. CASE \/ \E j \in Job : CancelRunning(j)
            \/ \E w \in Worker : \/ Load(w) \/ Refuse(w) \/ StartParserRun(w) \/ CheckCancel(w)
                                 \/ Advance(w) \/ Abandon(w) \/ Beat(w) \/ Crash(w) \/ Restart(w)
            \/ Tick \/ UNCHANGED vars
  <2>1. UNCHANGED <<doc, deleted, job>>
    BY <1>10 DEF CancelRunning, Load, Refuse, StartParserRun, CheckCancel, Advance, Abandon, Beat, Crash,
                 Restart, Tick, vars, documents
  <2> QED
    BY <2>1, <1>5 DEF Quiet
<1> QED
  BY <1>6, <1>7, <1>8, <1>9, <1>10 DEF Next, Proceed

LEMMA ShownStep == RowsTyped /\ DocumentShowsJob /\ [Next]_vars => DocumentShowsJob'
<1> SUFFICES ASSUME RowsTyped, DocumentShowsJob, [Next]_vars, NEW j \in Job,
                    job'[j] # "absent", ~deleted'[DocOf[j]],
                    \A k \in Job : DocOf[k] = DocOf[j] => k = j
             PROVE  doc'[DocOf[j]] = IF job'[j] \in Terminal THEN job'[j] ELSE "processing"
  BY DEF DocumentShowsJob
<1> USE JobsAssumption
<1>0. DocOf[j] \in Document /\ DOMAIN doc = Document /\ DOMAIN deleted = Document
  BY DEF RowsTyped, TypedRows
<1>1. job[j] # "absent" /\ ~deleted[DocOf[j]]
         => doc[DocOf[j]] = IF job[j] \in Terminal THEN job[j] ELSE "processing"
  BY DEF DocumentShowsJob
<1>2. CASE UNCHANGED <<doc, deleted>> /\ \A k \in Job :
              job'[k] = job[k] \/ (job[k] \in {"pending", "running"} /\ job'[k] = "running")
  BY <1>1, <1>2 DEF Terminal, Outcome
<1>3. ASSUME NEW d \in Document, doc' = [doc EXCEPT ![d] = "deleted"],
             deleted' = [deleted EXCEPT ![d] = TRUE], job' = job
      PROVE  doc'[DocOf[j]] = IF job'[j] \in Terminal THEN job'[j] ELSE "processing"
  BY <1>0, <1>1, <1>3
<1>4. ASSUME NEW k \in Job, \A i \in Job \ {k} : job'[i] = job[i],
             doc' = [doc EXCEPT ![DocOf[k]] = IF job'[k] \in Terminal THEN job'[k] ELSE "processing"],
             deleted' = deleted
      PROVE  doc'[DocOf[j]] = IF job'[j] \in Terminal THEN job'[j] ELSE "processing"
  BY <1>0, <1>1, <1>4
<1> QED
  BY <1>2, <1>3, <1>4, DocumentStep

LEMMA SettledStep == RowsTyped /\ DocumentSettles /\ [Next]_vars => DocumentSettles'
<1> SUFFICES ASSUME RowsTyped, DocumentSettles, [Next]_vars, NEW d \in Document,
                    \E j \in Job : DocOf[j] = d /\ job'[j] # "absent",
                    \A j \in Job : DocOf[j] = d /\ job'[j] # "absent" => job'[j] \in Terminal,
                    ~deleted'[d]
             PROVE  \E j \in Job : DocOf[j] = d /\ job'[j] # "absent" /\ doc'[d] = job'[j]
  BY DEF DocumentSettles
<1> USE JobsAssumption
<1>0. DOMAIN doc = Document /\ DOMAIN deleted = Document
  BY DEF RowsTyped, TypedRows
<1>1. ASSUME \E j \in Job : DocOf[j] = d /\ job[j] # "absent",
             \A j \in Job : DocOf[j] = d /\ job[j] # "absent" => job[j] \in Terminal, ~deleted[d]
      PROVE  \E j \in Job : DocOf[j] = d /\ job[j] # "absent" /\ doc[d] = job[j]
  BY <1>1 DEF DocumentSettles
<1>2. CASE UNCHANGED <<doc, deleted>> /\ \A k \in Job :
              job'[k] = job[k] \/ (job[k] \in {"pending", "running"} /\ job'[k] = "running")
  <2>1. \A k \in Job : DocOf[k] = d => job'[k] = job[k]
    BY <1>2 DEF Terminal, Outcome
  <2> QED
    BY <1>1, <1>2, <2>1
<1>3. ASSUME NEW e \in Document, doc' = [doc EXCEPT ![e] = "deleted"],
             deleted' = [deleted EXCEPT ![e] = TRUE], job' = job
      PROVE  \E j \in Job : DocOf[j] = d /\ job'[j] # "absent" /\ doc'[d] = job'[j]
  BY <1>0, <1>1, <1>3
<1>4. ASSUME NEW k \in Job, \A i \in Job \ {k} : job'[i] = job[i], job'[k] \in Terminal \cup {"pending"},
             doc' = [doc EXCEPT ![DocOf[k]] = IF job'[k] \in Terminal THEN job'[k] ELSE "processing"],
             deleted' = deleted
      PROVE  \E j \in Job : DocOf[j] = d /\ job'[j] # "absent" /\ doc'[d] = job'[j]
  <2>1. job'[k] # "absent"
    BY <1>4 DEF Terminal, Outcome
  <2>2. CASE DocOf[k] = d
    BY <1>0, <1>4, <2>1, <2>2
  <2>3. CASE DocOf[k] # d
    <3>1. doc'[d] = doc[d] /\ \A j \in Job : DocOf[j] = d => job'[j] = job[j]
      BY <1>0, <1>4, <2>3
    <3> QED
      BY <1>1, <1>4, <3>1
  <2> QED
    BY <2>2, <2>3
<1> QED
  BY <1>2, <1>3, <1>4, DocumentStep

\* When leases outlive silences, the job's row, the parser run that is active
\* and the document agree after every transaction of every process.
THEOREM RecordsAlwaysAgree == LeaseSlack => (Spec => []RecordsAgree)
<1> SUFFICES ASSUME LeaseSlack PROVE Spec => []RecordsAgree
  OBVIOUS
<1>1. Init => StageAgrees /\ DocumentShowsJob
  BY DEF Init, StageAgrees, DocumentShowsJob, Outcome
<1> QED
  BY <1>1, StageStep, ShownStep, LeasesKept, ParsesKept, PTL DEF Spec, RecordsAgree, ParseInv

\* Whatever happens to leases, a document whose versions are all done shows
\* the end of one of them.
THEOREM DocumentsSettle == Spec => []DocumentSettles
<1>1. Init => DocumentSettles
  BY DEF Init, DocumentSettles
<1> QED
  BY <1>1, SettledStep, RowsKept, PTL DEF Spec

-----------------------------------------------------------------------------
(* JobStream: the event log of a job tells how the job stands.             *)

JobEvent == {"progress", "warning", "completed", "error"}

LogTyped == jobLog \in [Job -> Seq(JobEvent)]

\* The last event fits the status.
Tells(log, status) ==
    /\ log # <<>>
    /\ EndsLog(Last(log)) <=> status \in Terminal
    /\ Last(log) = "error" <=> status = "failed"
LogInv == \A j \in Job : job[j] # "absent" => Tells(jobLog[j], job[j])

\* The last event after a report: an end is always appended, and anything else
\* leaves a log that does not end.
LEMMA LastReported ==
    ASSUME NEW log \in Seq(JobEvent), NEW event \in JobEvent
    PROVE  /\ Reported(log, event) \in Seq(JobEvent) /\ Reported(log, event) # <<>>
           /\ EndsLog(event) => Last(Reported(log, event)) = event
           /\ ~EndsLog(event) => ~EndsLog(Last(Reported(log, event)))
<1>1. Append(log, event) \in Seq(JobEvent) /\ Append(log, event) # <<>> /\ Last(Append(log, event)) = event
  BY DEF Last
<1> QED
  BY <1>1 DEF Reported

\* The job that an event is about changes, and no other.
LEMMA LogStep ==
    ASSUME RowsTyped, LogTyped, LogInv, NEW j \in Job, NEW log \in Seq(JobEvent), SetLog(j, log),
           \A k \in Job \ {j} : job'[k] = job[k], Tells(log, job'[j])
    PROVE  LogTyped' /\ LogInv'
BY DEF LogTyped, LogInv, SetLog

LEMMA SilentStep == LogTyped /\ LogInv /\ jobLog' = jobLog /\ job' = job => LogTyped' /\ LogInv'
BY DEF LogTyped, LogInv

\* Progress is told of a job that is not over.
LEMMA ProgressTold ==
    ASSUME RowsTyped, LogTyped, LogInv, NEW j \in Job, Emit(j, "progress"),
           \A k \in Job \ {j} : job'[k] = job[k], job'[j] \in {"pending", "running"}
    PROVE  LogTyped' /\ LogInv'
<1>1. /\ Reported(jobLog[j], "progress") \in Seq(JobEvent)
      /\ Tells(Reported(jobLog[j], "progress"), job'[j])
  BY LastReported DEF LogTyped, JobEvent, Tells, EndsLog, Terminal, Outcome
<1> QED
  BY <1>1, LogStep DEF Emit

LEMMA TellingStep ==
    ASSUME RowsTyped, LeaseInv, LogTyped, LogInv, [JobStreamNext]_jobStreamVars
    PROVE  LogTyped' /\ LogInv'
<1> DEFINE Kept == LogTyped' /\ LogInv'
<1> USE JobsAssumption
<1>0. \A j \in Job : jobLog[j] \in Seq(JobEvent)
  BY DEF LogTyped
<1>1. ASSUME NEW w \in Worker, NEW j \in Job, Claim(w, j), Emit(j, "progress") PROVE Kept
  BY <1>1, ProgressTold DEF Claim, RowsTyped, TypedRows
<1>2. ASSUME NEW w \in Worker, StartParserRun(w) \/ Advance(w), Emit(held[w], "progress") PROVE Kept
  <2>1. held[w] \in Job /\ job[held[w]] = "running" /\ job' = job
    BY <1>2 DEF StartParserRun, Advance, LeaseInv, Leased, Executing, Busy
  <2> QED
    BY <1>2, <2>1, ProgressTold
<1>3. ASSUME NEW w \in Worker, FinishCancelled(w), Emit(held[w], "completed") PROVE Kept
  <2>1. held[w] \in Job /\ \A k \in Job \ {held[w]} : job'[k] = job[k]
    BY <1>3, WriterFindsRunning
  <2>2. job'[held[w]] = "cancelled"
    BY <1>3, <2>1 DEF FinishCancelled, RowsTyped, TypedRows
  <2>3. /\ Reported(jobLog[held[w]], "completed") \in Seq(JobEvent)
        /\ Tells(Reported(jobLog[held[w]], "completed"), job'[held[w]])
    BY <1>0, <2>1, <2>2, LastReported DEF JobEvent, Tells, EndsLog, Terminal, Outcome
  <2> QED
    BY <1>3, <2>1, <2>3, LogStep DEF Emit
<1>4. ASSUME NEW w \in Worker, Fail(w), Emit(held[w], FailureEvent(held[w])) PROVE Kept
  <2> DEFINE j == held[w]
  <2>1. j \in Job /\ \A k \in Job \ {j} : job'[k] = job[k]
    BY <1>4, WriterFindsRunning
  <2>2. job'[j] = IF attempts[j] < MaxAttempts THEN "pending" ELSE "failed"
    BY <1>4, <2>1 DEF Fail, RowsTyped, TypedRows
  <2>3. /\ Reported(jobLog[j], FailureEvent(j)) \in Seq(JobEvent)
        /\ Tells(Reported(jobLog[j], FailureEvent(j)), job'[j])
    BY <1>0, <2>1, <2>2, LastReported DEF JobEvent, FailureEvent, Tells, EndsLog, Terminal, Outcome
  <2> QED
    BY <1>4, <2>1, <2>3, LogStep DEF Emit
<1>5. ASSUME NEW w \in Worker, NEW outcome \in Outcome, Persist(w, outcome), EmitPersisted(held[w], outcome)
      PROVE  Kept
  <2> DEFINE j == held[w]
             stored == Reported(jobLog[j], "progress")
             warned == IF outcome = "partial" THEN Reported(stored, "warning") ELSE stored
  <2>1. j \in Job /\ \A k \in Job \ {j} : job'[k] = job[k]
    BY <1>5, WriterFindsRunning
  <2>2. job'[j] = outcome
    BY <1>5, <2>1 DEF Persist, RowsTyped, TypedRows
  <2>3. stored \in Seq(JobEvent)
    BY <1>0, <2>1, LastReported DEF JobEvent
  <2>4. warned \in Seq(JobEvent)
    BY <2>3, LastReported DEF JobEvent
  <2>5. SetLog(j, Reported(warned, "completed"))
    BY <1>5 DEF EmitPersisted
  <2> HIDE DEF warned
  <2>6. /\ Reported(warned, "completed") \in Seq(JobEvent)
        /\ Tells(Reported(warned, "completed"), job'[j])
    BY <2>2, <2>4, LastReported DEF JobEvent, Tells, EndsLog, Terminal, Outcome
  <2> QED
    BY <2>1, <2>5, <2>6, LogStep
<1>6. ASSUME NEW j \in Job, Import(j) \/ RetryJob(j), Emit(j, "progress") PROVE Kept
  <2>1. job \in [Job -> JobStatus]
    BY DEF RowsTyped, TypedRows
  <2>2. job' = [job EXCEPT ![j] = "pending"]
    <3>1. CASE Import(j)
      BY <3>1 DEF Import
    <3>2. CASE RetryJob(j)
      BY <3>2 DEF RetryJob
    <3> QED
      BY <1>6, <3>1, <3>2
  <2>3. job'[j] = "pending"
    BY <2>1, <2>2
  <2>4. \A k \in Job \ {j} : job'[k] = job[k]
    BY <2>1, <2>2
  <2>5. Emit(j, "progress")
    BY <1>6
  <2> QED
    BY <2>3, <2>4, <2>5, ProgressTold
<1>7. ASSUME NEW j \in Job, CancelPending(j), Emit(j, "completed") PROVE Kept
  <2>1. job'[j] = "cancelled" /\ \A k \in Job \ {j} : job'[k] = job[k]
    BY <1>7 DEF CancelPending, RowsTyped, TypedRows
  <2>2. /\ Reported(jobLog[j], "completed") \in Seq(JobEvent)
        /\ Tells(Reported(jobLog[j], "completed"), job'[j])
    BY <1>0, <2>1, LastReported DEF JobEvent, Tells, EndsLog, Terminal, Outcome
  <2> QED
    BY <1>7, <2>1, <2>2, LogStep DEF Emit
<1>8. ASSUME \/ \E w \in Worker : Load(w) \/ Refuse(w) \/ CheckCancel(w) \/ Restart(w)
                                 \/ Abandon(w) \/ Beat(w) \/ Crash(w)
             \/ Tick
             \/ \E j \in Job : CancelRunning(j),
             Silent
      PROVE  Kept
  <2>1. job' = job
    BY <1>8 DEF Load, Refuse, CheckCancel, Restart, Abandon, Beat, Crash, Tick, CancelRunning
  <2> QED
    BY <1>8, <2>1, SilentStep DEF Silent
<1>9. ASSUME \/ \E j \in Job : OpenJobStream(j) \/ PollJobEvents(j)
             \/ LeaveJobStream
             \/ UNCHANGED jobStreamVars
      PROVE  Kept
  <2>1. job' = job /\ jobLog' = jobLog
    BY <1>9 DEF OpenJobStream, PollJobEvents, LeaveJobStream, jobStreamVars, vars
  <2> QED
    BY <2>1, SilentStep
<1> HIDE DEF Kept
<1>10. ASSUME JobWork PROVE Kept
  BY <1>1, <1>2, <1>3, <1>4, <1>5, <1>8, <1>10 DEF JobWork
<1>11. ASSUME JobTick \/ JobRest PROVE Kept
  BY <1>6, <1>7, <1>8, <1>11 DEF JobTick, JobRest
<1> QED
  BY <1>9, <1>10, <1>11 DEF JobStreamNext, Kept

\* The jobs of this module behave as those of IngestionJobs.
LEMMA JobsOfStream ==
    /\ JobStreamInit => Init
    /\ [JobStreamNext]_jobStreamVars => [Next]_vars
<1>1. JobWork => Next
  BY DEF JobWork, Next, Proceed
<1>2. JobTick \/ JobRest => Next
  BY DEF JobTick, JobRest, Next
<1>3. (\E j \in Job : OpenJobStream(j) \/ PollJobEvents(j)) \/ LeaveJobStream \/ UNCHANGED jobStreamVars
        => UNCHANGED vars
  BY DEF OpenJobStream, PollJobEvents, LeaveJobStream, jobStreamVars
<1> QED
  BY <1>1, <1>2, <1>3 DEF JobStreamInit, JobStreamNext

\* When leases outlive silences, the last event of a job's log ends a stream
\* exactly when the job is over, as an error exactly when it failed, over
\* cancellations, retries, reclaims and restarts (_job_event, job_event_stream).
THEOREM JobLogsTellOutcome == LeaseSlack => (JobStreamSpec => []JobEventsTellOutcome)
<1> SUFFICES ASSUME LeaseSlack PROVE JobStreamSpec => []JobEventsTellOutcome
  OBVIOUS
<1> DEFINE Inv == RowsTyped /\ LeaseInv /\ LogTyped /\ LogInv
<1>1. JobStreamInit => Inv
  <2>1. Init => RowsTyped /\ LeaseInv
    BY RowsInit DEF Init, LeaseInv, SingleExecutor, Executing, Busy
  <2>2. JobStreamInit => LogTyped /\ LogInv
    BY DEF JobStreamInit, Init, LogTyped, LogInv
  <2> QED
    BY <2>1, <2>2, JobsOfStream
<1>2. Inv /\ [JobStreamNext]_jobStreamVars => Inv'
  BY JobsOfStream, RowsStep, LeaseStep, TellingStep
<1>3. Inv => JobEventsTellOutcome
  BY DEF LogInv, Tells, EndsLog, JobEventsTellOutcome
<1> QED
  BY <1>1, <1>2, <1>3, PTL DEF JobStreamSpec
====

---- MODULE AnswerRunsProofs ----
(***************************************************************************)
(* Theorems about AnswerRuns and RunStream for every number of runs,       *)
(* workers, clients, attempts and ticks: the queue keeps its promises, and *)
(* what it never does to the events and to the outcome of a run makes a    *)
(* cursor and an ended stream trustworthy.                                 *)
(***************************************************************************)
EXTENDS RunStream, FiniteSetTheorems, WellFoundedInduction, TLAPS

\* Updating a function at a point, which may lie outside its domain, keeps
\* its type when the new value has it.
LEMMA UpdateType ==
    ASSUME NEW S, NEW T, NEW f \in [S -> T], NEW x, NEW v, x \in S => v \in T
    PROVE  [f EXCEPT ![x] = v] \in [S -> T]
<1>1. CASE x \in S
  BY <1>1
<1>2. CASE x \notin S
  BY <1>2
<1> QED
  BY <1>1, <1>2

\* Appending events keeps a log a sequence of events.
LEMMA LogType ==
    ASSUME NEW f \in [Run -> Seq(EventType)], NEW r,
           NEW d \in EventType, NEW e \in EventType
    PROVE  /\ [f EXCEPT ![r] = Append(@, e)] \in [Run -> Seq(EventType)]
           /\ [f EXCEPT ![r] = Append(Append(@, d), e)] \in [Run -> Seq(EventType)]
<1>1. CASE r \in Run
  <2>1. f[r] \in Seq(EventType)
    BY <1>1
  <2>2. Append(f[r], d) \in Seq(EventType) /\ Append(f[r], e) \in Seq(EventType)
    BY <2>1
  <2>3. Append(Append(f[r], d), e) \in Seq(EventType)
    BY <2>2
  <2> HIDE DEF EventType
  <2> QED
    BY <2>2, <2>3
<1>2. CASE r \notin Run
  BY <1>2
<1> QED
  BY <1>1, <1>2

LEMMA ReleaseType ==
    ASSUME TypeOK, NEW w \in Worker, Release(w)
    PROVE  /\ pc' \in [Worker -> {"idle", "claimed", "working", "down"}]
           /\ held' \in [Worker -> Run \cup {NoRun}]
           /\ silence' \in [Worker -> 0..MaxSilence]
           /\ crashes' \in 0..MaxCrashes
BY RunsAssumption DEF TypeOK, Release, NoRun

LEMMA TypeStep == TypeOK /\ [Next]_vars => TypeOK'
<1> SUFFICES ASSUME TypeOK, [Next]_vars PROVE TypeOK'
  OBVIOUS
<1> USE RunsAssumption
<1>1. ASSUME NEW r \in Run, Ask(r) PROVE TypeOK'
  <2>1. run' \in [Run -> RunStatus]
    BY <1>1 DEF TypeOK, Ask, RunStatus
  <2>2. message' \in [Run -> MessageStatus]
    BY <1>1 DEF TypeOK, Ask, MessageStatus
  <2>3. log' \in [Run -> Seq(EventType)]
    <3>1. <<"queued">> \in Seq(EventType)
      BY DEF EventType
    <3> QED
      BY <1>1, <3>1 DEF TypeOK, Ask
  <2> QED
    BY <1>1, <2>1, <2>2, <2>3 DEF TypeOK, Ask, procs
<1>2. ASSUME NEW c \in Conversation, RemoveConversation(c) PROVE TypeOK'
  BY <1>2 DEF TypeOK, RemoveConversation, procs, RunStatus, MessageStatus
<1>3. ASSUME NEW w \in Worker, NEW r \in Run, Claim(w, r) PROVE TypeOK'
  <2>1. attempts' \in [Run -> 0..MaxAttempts]
    BY <1>3 DEF TypeOK, Claim, Eligible
  <2>2. ttl' \in [Run -> 0..LeaseTicks]
    BY <1>3 DEF TypeOK, Claim
  <2>3. log' \in [Run -> Seq(EventType)]
    BY <1>3, LogType DEF TypeOK, Claim, EventType
  <2>4. /\ run' \in [Run -> RunStatus]
        /\ owner' \in [Run -> OwnerId \cup {NoOwner}]
    BY <1>3 DEF TypeOK, Claim, RunStatus
  <2>5. /\ pc' \in [Worker -> {"idle", "claimed", "working", "down"}]
        /\ held' \in [Worker -> Run \cup {NoRun}]
        /\ silence' \in [Worker -> 0..MaxSilence]
    BY <1>3 DEF TypeOK, Claim
  <2> QED
    BY <1>3, <2>1, <2>2, <2>3, <2>4, <2>5 DEF TypeOK, Claim
<1>4. ASSUME NEW w \in Worker, Prepare(w) PROVE TypeOK'
  BY <1>4 DEF TypeOK, Prepare, rows
<1>5. ASSUME NEW w \in Worker, Complete(w) PROVE TypeOK'
  <2>1. pc[w] = "working" /\ held[w] \in Run \cup {NoRun}
    BY <1>5 DEF TypeOK, Complete
  <2>2. log' \in [Run -> Seq(EventType)]
    BY <1>5, LogType DEF TypeOK, Complete, CompletionEvents, EventType
  <2>3. run' \in [Run -> RunStatus]
    BY <1>5 DEF TypeOK, Complete, RunStatus
  <2>4. message' \in [Run -> MessageStatus]
    BY <1>5 DEF TypeOK, Complete, MessageStatus
  <2>5. citations' \in [Run -> Nat]
    <3>1. citations \in [Run -> Nat]
      BY DEF TypeOK
    <3>2. citations' = [citations EXCEPT ![held[w]] = citations[held[w]] + 1]
      BY <1>5 DEF Complete
    <3>3. \A r \in Run : citations[r] + 1 \in Nat
      BY ONLY <3>1
    <3> QED
      BY <3>1, <3>2, <3>3, UpdateType
  <2>6. owner' \in [Run -> OwnerId \cup {NoOwner}]
    BY <1>5 DEF TypeOK, Complete
  <2>7. ttl' \in [Run -> 0..LeaseTicks]
    <3>1. ttl \in [Run -> 0..LeaseTicks] /\ 0 \in 0..LeaseTicks
      BY DEF TypeOK
    <3>2. ttl' = [ttl EXCEPT ![held[w]] = 0]
      BY <1>5 DEF Complete
    <3> QED
      BY <3>1, <3>2, UpdateType
  <2> QED
    BY <1>5, <2>2, <2>3, <2>4, <2>5, <2>6, <2>7, ReleaseType DEF TypeOK, Complete
<1>6. ASSUME NEW w \in Worker, Retry(w) PROVE TypeOK'
  <2>1. log' \in [Run -> Seq(EventType)]
    BY <1>6, LogType DEF TypeOK, Retry, EventType
  <2>2. run' \in [Run -> RunStatus]
    BY <1>6 DEF TypeOK, Retry, RunStatus
  <2>3. owner' \in [Run -> OwnerId \cup {NoOwner}]
    BY <1>6 DEF TypeOK, Retry
  <2>4. ttl' \in [Run -> 0..LeaseTicks]
    <3>1. ttl \in [Run -> 0..LeaseTicks] /\ 0 \in 0..LeaseTicks
      BY DEF TypeOK
    <3>2. ttl' = [ttl EXCEPT ![held[w]] = 0]
      BY <1>6 DEF Retry
    <3> QED
      BY <3>1, <3>2, UpdateType
  <2> QED
    BY <1>6, <2>1, <2>2, <2>3, <2>4, ReleaseType DEF TypeOK, Retry
<1>7. ASSUME NEW w \in Worker, GiveUp(w) PROVE TypeOK'
  <2>1. log' \in [Run -> Seq(EventType)]
    BY <1>7, LogType DEF TypeOK, GiveUp, EventType
  <2>2. run' \in [Run -> RunStatus]
    BY <1>7 DEF TypeOK, GiveUp, RunStatus
  <2>3. message' \in [Run -> MessageStatus]
    BY <1>7 DEF TypeOK, GiveUp, MessageStatus
  <2>4. owner' \in [Run -> OwnerId \cup {NoOwner}]
    BY <1>7 DEF TypeOK, GiveUp
  <2>5. ttl' \in [Run -> 0..LeaseTicks]
    <3>1. ttl \in [Run -> 0..LeaseTicks] /\ 0 \in 0..LeaseTicks
      BY DEF TypeOK
    <3>2. ttl' = [ttl EXCEPT ![held[w]] = 0]
      BY <1>7 DEF GiveUp
    <3> QED
      BY <3>1, <3>2, UpdateType
  <2> QED
    BY <1>7, <2>1, <2>2, <2>3, <2>4, <2>5, ReleaseType DEF TypeOK, GiveUp
<1>8. ASSUME NEW w \in Worker, Vanished(w) \/ Abandon(w) PROVE TypeOK'
  <2>1. Release(w) /\ UNCHANGED <<conv, run, rows>>
    BY <1>8 DEF Vanished, WriteToRemoved, Abandon
  <2> QED
    BY <2>1, ReleaseType DEF TypeOK, rows
<1>9. ASSUME NEW w \in Worker, Beat(w) PROVE TypeOK'
  <2>1. ttl' \in [Run -> 0..LeaseTicks]
    <3>1. ttl \in [Run -> 0..LeaseTicks] /\ LeaseTicks \in 0..LeaseTicks
      BY DEF TypeOK
    <3>2. PICK v : /\ ttl' = [ttl EXCEPT ![held[w]] = v]
                   /\ held[w] \in Run => v \in 0..LeaseTicks
      BY <1>9, <3>1 DEF Beat
    <3> QED
      BY <3>1, <3>2, UpdateType
  <2>2. silence' \in [Worker -> 0..MaxSilence]
    BY <1>9 DEF TypeOK, Beat
  <2> QED
    BY <1>9, <2>1, <2>2 DEF TypeOK, Beat
<1>10. ASSUME NEW w \in Worker, Crash(w) PROVE TypeOK'
  BY <1>10 DEF TypeOK, Crash, rows, NoRun
<1>11. ASSUME NEW w \in Worker, Restart(w) PROVE TypeOK'
  BY <1>11 DEF TypeOK, Restart, rows
<1>12. ASSUME Tick PROVE TypeOK'
  <2>1. ttl' \in [Run -> 0..LeaseTicks]
    BY <1>12 DEF TypeOK, Tick
  <2>2. silence' \in [Worker -> 0..MaxSilence]
    BY <1>12 DEF TypeOK, Tick
  <2> QED
    BY <1>12, <2>1, <2>2 DEF TypeOK, Tick
<1>13. ASSUME UNCHANGED vars PROVE TypeOK'
  BY <1>13 DEF TypeOK, vars, rows, procs
<1> QED
  BY <1>1, <1>2, <1>3, <1>4, <1>5, <1>6, <1>7, <1>8, <1>9, <1>10, <1>11, <1>12, <1>13
  DEF Next, Finish, DeleteConversation, PurgeConversation

\* Every variable keeps its type in every behaviour of the queue.
THEOREM TypeCorrect == Spec => []TypeOK
<1>1. Init => TypeOK
  BY RunsAssumption DEF Init, TypeOK, RunStatus, MessageStatus, EventType
<1> QED
  BY <1>1, TypeStep, PTL DEF Spec

-----------------------------------------------------------------------------
(* Counting: what holds even when leases are lost.                         *)

StartsIn(l) == {i \in 1..Len(l) : l[i] = "run_started"}

\* Appending an event counts as a start when it is one.
LEMMA AppendStarts ==
    ASSUME NEW l \in Seq(EventType), NEW e \in EventType
    PROVE  /\ IsFiniteSet(StartsIn(l)) /\ Cardinality(StartsIn(l)) \in Nat
           /\ Cardinality(StartsIn(Append(l, e))) =
                 Cardinality(StartsIn(l)) + IF e = "run_started" THEN 1 ELSE 0
<1> DEFINE m == Append(l, e)
<1>1. Len(l) \in Nat /\ Len(m) = Len(l) + 1 /\ m[Len(m)] = e
  OBVIOUS
<1>2. \A i \in 1..Len(l) : m[i] = l[i]
  OBVIOUS
<1>3. IsFiniteSet(StartsIn(l))
  <2>1. IsFiniteSet(1..Len(l))
    BY <1>1, FS_Interval
  <2>2. StartsIn(l) \subseteq 1..Len(l)
    BY DEF StartsIn
  <2> QED
    BY <2>1, <2>2, FS_Subset
<1>4. Cardinality(StartsIn(l)) \in Nat
  BY <1>3, FS_CardinalityType
<1> HIDE DEF m
<1>5. CASE e = "run_started"
  <2>1. StartsIn(m) = StartsIn(l) \cup {Len(l) + 1} /\ Len(l) + 1 \notin StartsIn(l)
    BY <1>1, <1>2, <1>5 DEF StartsIn
  <2>2. Cardinality(StartsIn(m)) = Cardinality(StartsIn(l)) + 1
    BY <2>1, <1>3, FS_AddElement
  <2> QED
    BY <1>3, <1>4, <1>5, <2>2 DEF m
<1>6. CASE e # "run_started"
  <2>1. StartsIn(m) = StartsIn(l)
    BY <1>1, <1>2, <1>6 DEF StartsIn
  <2> QED
    BY <1>3, <1>4, <1>6, <2>1 DEF m
<1> QED
  BY <1>5, <1>6

\* The events count the attempts of a run while its row exists; no row, no
\* records.
CountOf(r) ==
    /\ Exists(r) =>
          /\ Cardinality(StartsIn(log[r])) = attempts[r]
          /\ run[r] = "failed" => attempts[r] = MaxAttempts
    /\ ~Exists(r) =>
          /\ message[r] = "none" /\ citations[r] = 0 /\ log[r] = <<>>
          /\ attempts[r] = 0 /\ owner[r] = NoOwner

CountInv ==
    /\ \A w \in Worker : Executing(w) => held[w] \in Run
    /\ \A r \in Run : CountOf(r)

Untouched(r) ==
    /\ run'[r] = run[r] /\ message'[r] = message[r] /\ citations'[r] = citations[r]
    /\ log'[r] = log[r] /\ attempts'[r] = attempts[r] /\ owner'[r] = owner[r]

LEMMA UntouchedCount ==
    ASSUME NEW r \in Run, CountOf(r), Untouched(r) PROVE CountOf(r)'
BY DEF CountOf, Untouched, Exists, StartsIn

\* A run whose row stays while an event that is no start is appended.
LEMMA EventCount ==
    ASSUME TypeOK, CountInv, NEW r \in Run, Exists(r), Exists(r)',
           NEW e \in EventType \ {"run_started"}, NEW d \in EventType \ {"run_started"},
           \/ log'[r] = Append(log[r], e)
           \/ log'[r] = Append(Append(log[r], d), e),
           attempts'[r] = attempts[r],
           run'[r] = "failed" => attempts[r] = MaxAttempts
    PROVE  CountOf(r)'
<1> DEFINE l == log[r]
<1>1. l \in Seq(EventType)
  BY DEF TypeOK
<1>2. Append(l, d) \in Seq(EventType)
  BY <1>1
<1> HIDE DEF l
<1>3. /\ Cardinality(StartsIn(l)) \in Nat /\ Cardinality(StartsIn(Append(l, d))) \in Nat
      /\ Cardinality(StartsIn(Append(l, e))) = Cardinality(StartsIn(l)) + 0
      /\ Cardinality(StartsIn(Append(l, d))) = Cardinality(StartsIn(l)) + 0
      /\ Cardinality(StartsIn(Append(Append(l, d), e))) = Cardinality(StartsIn(Append(l, d))) + 0
  BY <1>1, <1>2, AppendStarts
<1>4. Cardinality(StartsIn(log'[r])) = Cardinality(StartsIn(log[r]))
  <2>1. CASE log'[r] = Append(l, e)
    BY <1>3, <2>1 DEF l
  <2>2. CASE log'[r] = Append(Append(l, d), e)
    BY <1>3, <2>2 DEF l
  <2> QED
    BY <2>1, <2>2 DEF l
<1>5. Cardinality(StartsIn(log[r])) = attempts[r]
  BY DEF CountInv, CountOf
<1> QED
  BY <1>4, <1>5 DEF CountOf, StartsIn

LEMMA CountStep == TypeOK /\ CountInv /\ [Next]_vars => CountInv'
<1> SUFFICES ASSUME TypeOK, CountInv, [Next]_vars PROVE CountInv'
  OBVIOUS
<1>0. ASSUME \A r \in Run : Untouched(r) PROVE \A r \in Run : CountOf(r)'
  BY <1>0, UntouchedCount DEF CountInv
<1>1. ASSUME NEW r \in Run, Ask(r) PROVE CountInv'
  <2>1. \A s \in Run \ {r} : Untouched(s)
    BY <1>1 DEF Ask, procs, Untouched, TypeOK
  <2>2. attempts'[r] = 0 /\ run'[r] = "pending" /\ log'[r] = <<"queued">>
    BY <1>1 DEF Ask, procs, TypeOK, CountInv, CountOf, Exists
  <2>3. StartsIn(<<"queued">>) = {}
    BY DEF StartsIn
  <2>4. CountOf(r)'
    BY <2>2, <2>3, FS_EmptySet DEF CountOf, Exists, StartsIn
  <2> QED
    BY <1>1, <2>1, <2>4, UntouchedCount DEF CountInv, Ask, procs, Executing
<1>2. ASSUME NEW c \in Conversation, RemoveConversation(c) PROVE CountInv'
  <2>1. ASSUME NEW r \in Run PROVE CountOf(r)'
    <3>1. CASE ConvOf[r] = c /\ run[r] # "absent"
      BY <1>2, <3>1 DEF RemoveConversation, CountOf, Exists
    <3>2. CASE ~(ConvOf[r] = c /\ run[r] # "absent")
      <4>1. Untouched(r)
        BY <1>2, <3>2 DEF RemoveConversation, Untouched
      <4> QED
        BY <4>1, UntouchedCount DEF CountInv
    <3> QED
      BY <3>1, <3>2
  <2> QED
    BY <1>2, <2>1 DEF CountInv, RemoveConversation, procs, Executing
<1>3. ASSUME NEW w \in Worker, NEW r \in Run, Claim(w, r) PROVE CountInv'
  <2>1. \A s \in Run \ {r} : Untouched(s)
    BY <1>3 DEF Claim, Untouched, TypeOK
  <2>2. /\ run[r] \in {"pending", "running"} /\ run'[r] = "running"
        /\ attempts'[r] = attempts[r] + 1 /\ log'[r] = Append(log[r], "run_started")
    BY <1>3 DEF Claim, Eligible, TypeOK
  <2>3. log[r] \in Seq(EventType) /\ "run_started" \in EventType
    BY DEF TypeOK, EventType
  <2>4. Cardinality(StartsIn(log'[r])) = Cardinality(StartsIn(log[r])) + 1
    BY <2>2, <2>3, AppendStarts
  <2>5. CountOf(r)'
    BY <2>2, <2>4 DEF CountInv, CountOf, Exists, StartsIn
  <2>6. \A v \in Worker : Executing(v)' => held'[v] \in Run
    BY <1>3 DEF Claim, CountInv, Executing, TypeOK
  <2> QED
    BY <2>1, <2>5, <2>6, UntouchedCount DEF CountInv
<1>4. ASSUME NEW w \in Worker, Complete(w) \/ Retry(w) \/ GiveUp(w) PROVE CountInv'
  <2>1. PICK r \in Run : r = held[w] /\ Exists(r)
    BY <1>4 DEF Complete, Retry, GiveUp, Executing, CountInv
  <2>2. \A s \in Run \ {r} : Untouched(s)
    BY <1>4, <2>1 DEF Complete, Retry, GiveUp, Untouched, TypeOK
  <2>3. attempts'[r] = attempts[r] /\ attempts[r] \in 0..MaxAttempts
    BY <1>4 DEF Complete, Retry, GiveUp, TypeOK
  <2>4. /\ log' \in [Run -> Seq(EventType)]
        /\ run'[r] \in {"completed", "pending", "failed"}
        /\ run'[r] = "failed" => GiveUp(w)
        /\ \/ log'[r] = Append(log[r], "warning")
           \/ log'[r] = Append(log[r], "error")
           \/ log'[r] = Append(Append(log[r], "answer_delta"), "completed")
    BY <1>4, <2>1, TypeStep DEF Complete, CompletionEvents, Retry, GiveUp, Retrying, TypeOK
  <2>5. run'[r] = "failed" => attempts[r] = MaxAttempts
    BY <2>1, <2>3, <2>4, RunsAssumption DEF GiveUp, Retrying
  <2>6. {"warning", "error", "answer_delta", "completed"} \subseteq EventType \ {"run_started"}
    BY DEF EventType
  <2>7. Exists(r)'
    BY <2>4 DEF Exists
  <2>8. CountOf(r)'
    BY <2>1, <2>3, <2>4, <2>5, <2>6, <2>7, EventCount
  <2>9. \A v \in Worker : Executing(v)' => held'[v] \in Run
    <3>1. pc' = [pc EXCEPT ![w] = "idle"] /\ held' = [held EXCEPT ![w] = NoRun]
      BY <1>4 DEF Complete, Retry, GiveUp, Release
    <3> QED
      BY <3>1 DEF CountInv, Executing, TypeOK
  <2> QED
    BY <2>2, <2>8, <2>9, UntouchedCount DEF CountInv
<1>5. ASSUME NEW w \in Worker,
             Prepare(w) \/ Vanished(w) \/ Abandon(w) \/ Beat(w) \/ Crash(w) \/ Restart(w)
      PROVE CountInv'
  <2>1. \A r \in Run : Untouched(r)
    BY <1>5 DEF Prepare, Vanished, WriteToRemoved, Abandon, Beat, Crash, Restart, rows, Untouched
  <2>2. \A v \in Worker : Executing(v)' => held'[v] \in Run
    BY <1>5 DEF Prepare, Vanished, Abandon, Beat, Crash, Restart, Release, CountInv, Executing, TypeOK
  <2> QED
    BY <1>0, <2>1, <2>2 DEF CountInv
<1>6. ASSUME Tick \/ UNCHANGED vars PROVE CountInv'
  <2>1. \A r \in Run : Untouched(r)
    BY <1>6 DEF Tick, vars, rows, Untouched
  <2> QED
    BY <1>0, <1>6, <2>1 DEF Tick, vars, procs, CountInv, Executing
<1> QED
  BY <1>1, <1>2, <1>3, <1>4, <1>5, <1>6
  DEF Next, Finish, DeleteConversation, PurgeConversation

LEMMA CountsKept == Spec => [](TypeOK /\ CountInv)
<1>1. Init => CountInv
  BY DEF Init, CountInv, CountOf, Exists, Executing
<1> QED
  BY <1>1, CountStep, TypeCorrect, PTL DEF Spec

\* Whatever happens to leases, a run is announced as started once per
\* attempt, never more than MaxAttempts times, and fails only on the last.
THEOREM AttemptsAreBounded == Spec => []AttemptsAccounted
<1>1. TypeOK /\ CountInv => AttemptsAccounted
  <2> SUFFICES ASSUME TypeOK, CountInv, NEW r \in Run, Exists(r)
               PROVE /\ Cardinality(Starts(r)) = attempts[r]
                     /\ attempts[r] <= MaxAttempts
                     /\ run[r] = "failed" => attempts[r] = MaxAttempts
    BY DEF AttemptsAccounted
  <2>1. Starts(r) = StartsIn(log[r])
    BY DEF Starts, StartsIn
  <2>2. attempts[r] \in 0..MaxAttempts
    BY DEF TypeOK
  <2> QED
    BY <2>1, <2>2, RunsAssumption DEF CountInv, CountOf
<1> QED
  BY <1>1, CountsKept, PTL

\* Whatever happens to leases, a worker that still executes a removed run
\* leaves nothing behind.
THEOREM RemovalIsFinal == Spec => []NothingAfterRemoval
<1>1. CountInv => NothingAfterRemoval
  BY DEF CountInv, CountOf, NothingAfterRemoval, Exists
<1> QED
  BY <1>1, CountsKept, PTL

-----------------------------------------------------------------------------
(* Leases: why at most one live worker executes a run.                     *)

\* A worker that executes a run owns it, and the lease still has whatever
\* the silence of its heartbeat and the wait at the claim have not used up.
Leased(w) ==
    /\ held[w] \in Run
    /\ run[held[w]] \in {"running", "deleted"}
    /\ run[held[w]] = "running" =>
          /\ owner[held[w]] = WorkerId[w]
          /\ ttl[held[w]] + silence[w] + LockWait >= LeaseTicks

LeaseInv ==
    /\ \A w \in Worker : Executing(w) => Leased(w)
    /\ SingleExecutor

\* The heart of the argument: an eligible run has no executor.
LEMMA EligibleIsFree ==
    ASSUME LeaseSlack, TypeOK, LeaseInv, NEW r \in Run, Eligible(r),
           NEW w \in Worker, Executing(w)
    PROVE  held[w] # r
<1> SUFFICES ASSUME held[w] = r PROVE FALSE
  OBVIOUS
<1>1. Leased(w) /\ run[r] = "running" /\ ttl[r] = 0
  BY DEF LeaseInv, Leased, Eligible
<1>2. silence[w] + LockWait >= LeaseTicks
  BY <1>1, RunsAssumption DEF Leased, TypeOK
<1>3. silence[w] <= MaxSilence /\ silence[w] \in Nat
  BY RunsAssumption DEF TypeOK
<1> QED
  BY <1>2, <1>3, RunsAssumption DEF LeaseSlack

\* What a worker that leaves its run does to the leases of the others.
LEMMA LeaveKeepsLeases ==
    ASSUME TypeOK, LeaseInv, NEW w \in Worker, Executing(w), ~Executing(w)',
           \A v \in Worker \ {w} :
              pc'[v] = pc[v] /\ held'[v] = held[v] /\ silence'[v] = silence[v],
           \A r \in Run \ {held[w]} :
              run'[r] = run[r] /\ owner'[r] = owner[r] /\ ttl'[r] = ttl[r]
    PROVE  LeaseInv'
<1>1. ASSUME NEW v \in Worker, Executing(v)' PROVE Leased(v)'
  <2>1. v # w /\ Executing(v)
    BY <1>1 DEF Executing
  <2>2. held'[v] = held[v] /\ held[v] # held[w] /\ held[v] \in Run
    BY <2>1 DEF LeaseInv, SingleExecutor, Leased
  <2> QED
    BY <2>1, <2>2 DEF LeaseInv, Leased
<1>2. SingleExecutor'
  BY DEF LeaseInv, SingleExecutor, Executing
<1> QED
  BY <1>1, <1>2 DEF LeaseInv

LEMMA LeaseStep == LeaseSlack /\ TypeOK /\ LeaseInv /\ [Next]_vars => LeaseInv'
<1> SUFFICES ASSUME LeaseSlack, TypeOK, LeaseInv, [Next]_vars PROVE LeaseInv'
  OBVIOUS
<1>1. ASSUME NEW r \in Run, Ask(r) PROVE LeaseInv'
  <2>1. \A w \in Worker : Executing(w) => held[w] # r
    BY <1>1 DEF LeaseInv, Leased, Ask
  <2> QED
    BY <1>1, <2>1 DEF LeaseInv, Leased, SingleExecutor, Executing, Ask, procs, TypeOK
<1>2. ASSUME NEW c \in Conversation, RemoveConversation(c) PROVE LeaseInv'
  BY <1>2 DEF LeaseInv, Leased, SingleExecutor, Executing, RemoveConversation, procs
<1>3. ASSUME NEW w \in Worker, NEW r \in Run, Claim(w, r) PROVE LeaseInv'
  <2>1. Eligible(r) /\ ~Executing(w)
    BY <1>3 DEF Claim, Executing
  <2>2. \A v \in Worker : Executing(v) => held[v] # r
    BY <2>1, EligibleIsFree
  <2>3. /\ pc'[w] = "claimed" /\ held'[w] = r /\ silence'[w] = 0
        /\ \A v \in Worker \ {w} :
              pc'[v] = pc[v] /\ held'[v] = held[v] /\ silence'[v] = silence[v]
    BY <1>3 DEF Claim, TypeOK
  <2>4. /\ run'[r] = "running" /\ owner'[r] = WorkerId[w]
        /\ \A s \in Run \ {r} : run'[s] = run[s] /\ owner'[s] = owner[s] /\ ttl'[s] = ttl[s]
    BY <1>3 DEF Claim, TypeOK
  <2>5. ttl'[r] + LockWait >= LeaseTicks
    <3>1. PICK delay \in 0..LockWait :
             ttl' = [ttl EXCEPT ![r] = IF delay < LeaseTicks THEN LeaseTicks - delay ELSE 0]
      BY <1>3 DEF Claim
    <3>2. ttl'[r] = IF delay < LeaseTicks THEN LeaseTicks - delay ELSE 0
      BY <3>1 DEF TypeOK
    <3> QED
      BY <3>2, RunsAssumption
  <2>6. ttl'[r] \in Nat
    <3>1. TypeOK'
      BY TypeStep
    <3>2. ttl'[r] \in 0..LeaseTicks
      BY <3>1 DEF TypeOK
    <3> QED
      BY <3>2, RunsAssumption
  <2>7. Leased(w)'
    BY <2>3, <2>4, <2>5, <2>6, RunsAssumption DEF Leased
  <2>8. ASSUME NEW v \in Worker \ {w}, Executing(v)' PROVE Leased(v)'
    <3>1. Executing(v) /\ held'[v] = held[v] /\ silence'[v] = silence[v]
      BY <2>3, <2>8 DEF Executing
    <3>2. Leased(v) /\ held[v] \in Run \ {r}
      BY <3>1, <2>2 DEF LeaseInv, Leased
    <3> QED
      BY <3>1, <3>2, <2>4 DEF Leased
  <2>9. SingleExecutor'
    BY <2>2, <2>3 DEF SingleExecutor, LeaseInv, Executing
  <2> QED
    BY <2>7, <2>8, <2>9 DEF LeaseInv
<1>4. ASSUME NEW w \in Worker, Prepare(w) PROVE LeaseInv'
  <2>1. \A v \in Worker : Executing(v)' <=> Executing(v)
    BY <1>4 DEF Prepare, Executing, TypeOK
  <2> QED
    BY <1>4, <2>1 DEF Prepare, LeaseInv, Leased, SingleExecutor, rows
<1>5. ASSUME NEW w \in Worker,
             Complete(w) \/ Retry(w) \/ GiveUp(w) \/ Vanished(w) \/ Abandon(w) \/ Crash(w)
      PROVE LeaseInv'
  <2>1. Executing(w) /\ ~Executing(w)'
    BY <1>5 DEF Complete, Retry, GiveUp, Vanished, Abandon, Crash, Release, Executing, TypeOK
  <2>2. \A v \in Worker \ {w} :
           pc'[v] = pc[v] /\ held'[v] = held[v] /\ silence'[v] = silence[v]
    BY <1>5 DEF Complete, Retry, GiveUp, Vanished, Abandon, Crash, Release, TypeOK
  <2>3. \A r \in Run \ {held[w]} :
           run'[r] = run[r] /\ owner'[r] = owner[r] /\ ttl'[r] = ttl[r]
    BY <1>5 DEF Complete, Retry, GiveUp, Vanished, WriteToRemoved, Abandon, Crash, rows, TypeOK
  <2> QED
    BY <2>1, <2>2, <2>3, LeaveKeepsLeases
<1>6. ASSUME NEW w \in Worker, Beat(w) PROVE LeaseInv'
  <2>1. \A v \in Worker : Executing(v) => Leased(v)
    BY DEF LeaseInv
  <2>2. \A v \in Worker : Executing(v)' <=> Executing(v)
    BY <1>6 DEF Beat, Executing
  <2>3. \A v \in Worker : Executing(v) /\ v # w => held[v] # held[w]
    BY <1>6 DEF Beat, LeaseInv, SingleExecutor
  <2>4. ASSUME NEW v \in Worker, Executing(v), v # w PROVE Leased(v)'
    BY <1>6, <2>1, <2>3, <2>4 DEF Beat, Leased, TypeOK
  <2>5. Leased(w)'
    BY <1>6, <2>1, RunsAssumption DEF Beat, Leased, TypeOK
  <2> QED
    BY <1>6, <2>2, <2>4, <2>5 DEF Beat, LeaseInv, SingleExecutor
<1>7. ASSUME NEW w \in Worker, Restart(w) PROVE LeaseInv'
  BY <1>7 DEF Restart, LeaseInv, Leased, SingleExecutor, Executing, rows, TypeOK
<1>8. ASSUME Tick PROVE LeaseInv'
  <2>1. \A v \in Worker : Executing(v)' <=> Executing(v)
    BY <1>8 DEF Tick, Executing
  <2>2. ASSUME NEW v \in Worker, Executing(v) PROVE Leased(v)'
    <3>1. Leased(v) /\ silence'[v] = silence[v] + 1 /\ silence[v] \in Nat
      BY <1>8, <2>2, RunsAssumption DEF Tick, LeaseInv, TypeOK
    <3>2. ttl'[held[v]] + 1 >= ttl[held[v]] /\ ttl[held[v]] \in Nat /\ ttl'[held[v]] \in Nat
      <4>1. held[v] \in Run
        BY <3>1 DEF Leased
      <4>2. ttl[held[v]] \in 0..LeaseTicks
        BY <4>1 DEF TypeOK
      <4>3. ttl'[held[v]] = IF ttl[held[v]] > 0 THEN ttl[held[v]] - 1 ELSE 0
        BY <1>8, <4>1 DEF Tick
      <4> QED
        BY <4>2, <4>3, RunsAssumption
    <3>3. run' = run /\ owner' = owner /\ held' = held
      BY <1>8 DEF Tick
    <3> QED
      BY <3>1, <3>2, <3>3, RunsAssumption DEF Leased
  <2> QED
    BY <1>8, <2>1, <2>2 DEF Tick, LeaseInv, SingleExecutor
<1>9. ASSUME UNCHANGED vars PROVE LeaseInv'
  BY <1>9 DEF vars, rows, procs, LeaseInv, Leased, SingleExecutor, Executing
<1> QED
  BY <1>1, <1>2, <1>3, <1>4, <1>5, <1>6, <1>7, <1>8, <1>9
  DEF Next, Finish, DeleteConversation, PurgeConversation

LEMMA LeaseInit == Init => LeaseInv
BY DEF Init, LeaseInv, SingleExecutor, Executing

LEMMA LeasesKept == LeaseSlack => (Spec => [](TypeOK /\ LeaseInv))
<1> SUFFICES ASSUME LeaseSlack PROVE Spec => [](TypeOK /\ LeaseInv)
  OBVIOUS
<1>1. TypeOK /\ LeaseInv /\ [Next]_vars => LeaseInv'
  BY LeaseStep
<1> QED
  BY <1>1, LeaseInit, TypeCorrect, PTL DEF Spec

\* When a lease outlives the longest silence of a heartbeat and the wait for
\* the write lock, no run ever has two live executors.
THEOREM OneExecutor == LeaseSlack => (Spec => []SingleExecutor)
<1> SUFFICES ASSUME LeaseSlack PROVE Spec => []SingleExecutor
  OBVIOUS
<1>1. TypeOK /\ LeaseInv => SingleExecutor
  BY DEF LeaseInv
<1> QED
  BY <1>1, LeasesKept, PTL

-----------------------------------------------------------------------------
(* Transitions: why an ended run keeps its outcome.                        *)

\* The worker that writes the end of a run finds it running.
LEMMA WriterFindsRunning ==
    ASSUME TypeOK, LeaseInv, NEW w \in Worker, Executing(w), Exists(held[w])
    PROVE  held[w] \in Run /\ run[held[w]] = "running"
BY DEF LeaseInv, Leased, Exists

LEMMA TransitionStep ==
    ASSUME TypeOK, LeaseInv, [Next]_vars, NEW r \in Run
    PROVE  <<run[r], run'[r]>> \in Transition
<1> DEFINE Goal == <<run[r], run'[r]>> \in Transition
<1>0. /\ run[r] \in RunStatus
      /\ \A s \in RunStatus : <<s, s>> \in Transition
      /\ \A s \in RunStatus \ {"absent"} : <<s, "deleted">> \in Transition
  BY DEF TypeOK, Transition
<1>1. ASSUME NEW q \in Run, Ask(q) PROVE Goal
  BY <1>0, <1>1 DEF Ask, TypeOK, Transition
<1>2. ASSUME NEW c \in Conversation, RemoveConversation(c) PROVE Goal
  BY <1>0, <1>2 DEF RemoveConversation
<1>3. ASSUME NEW w \in Worker, NEW q \in Run, Claim(w, q) PROVE Goal
  <2>1. run[q] \in {"pending", "running"} /\ run' = [run EXCEPT ![q] = "running"]
    BY <1>3 DEF Claim, Eligible
  <2> QED
    BY <1>0, <2>1 DEF TypeOK, Transition, RunStatus
<1>4. ASSUME NEW w \in Worker, Complete(w) \/ Retry(w) \/ GiveUp(w) PROVE Goal
  <2>1. held[w] \in Run /\ run[held[w]] = "running"
    BY <1>4, WriterFindsRunning DEF Complete, Retry, GiveUp, Executing
  <2>2. \/ run' = [run EXCEPT ![held[w]] = "completed"]
        \/ run' = [run EXCEPT ![held[w]] = "pending"]
        \/ run' = [run EXCEPT ![held[w]] = "failed"]
    BY <1>4 DEF Complete, Retry, GiveUp
  <2> QED
    BY <1>0, <2>1, <2>2 DEF TypeOK, Transition
<1>5. ASSUME run' = run PROVE Goal
  BY <1>0, <1>5
<1> QED
  BY <1>1, <1>2, <1>3, <1>4, <1>5
  DEF Next, Finish, DeleteConversation, PurgeConversation, Prepare, Vanished, WriteToRemoved,
      Abandon, Beat, Crash, Restart, Tick, vars

\* When leases outlive silences, every step moves a run along one of the
\* persisted state transitions: an ended run never changes its outcome.
THEOREM TransitionsAreLegal == LeaseSlack => (Spec => LegalTransitions)
<1> SUFFICES ASSUME LeaseSlack PROVE Spec => LegalTransitions
  OBVIOUS
<1>1. TypeOK /\ LeaseInv /\ [Next]_vars
        => [\A r \in Run : <<run[r], run'[r]>> \in Transition]_vars
  BY TransitionStep
<1> QED
  BY <1>1, LeasesKept, PTL DEF Spec, LegalTransitions

-----------------------------------------------------------------------------
(* Records: message, citations and events agree with the run.              *)

\* The log l of a run in status s ends with the terminal event of s, if s
\* has one, and has no other.
EndsAs(l, s) ==
    /\ l # <<>>
    /\ \A i \in 1..(Len(l) - 1) : l[i] \notin TerminalEvent
    /\ l[Len(l)] = "completed" <=> s = "completed"
    /\ l[Len(l)] = "error" <=> s = "failed"

\* Appending an event to a log that has not ended.
LEMMA AppendEnds ==
    ASSUME NEW l \in Seq(EventType), NEW s, EndsAs(l, s), s \notin Terminal,
           NEW e \in EventType, NEW t,
           e = "completed" <=> t = "completed", e = "error" <=> t = "failed"
    PROVE  EndsAs(Append(l, e), t)
<1> DEFINE m == Append(l, e)
<1>1. Len(l) \in Nat /\ Len(m) = Len(l) + 1 /\ m[Len(m)] = e
  OBVIOUS
<1>0. m # <<>>
  BY <1>1
<1>2. \A i \in 1..Len(l) : m[i] = l[i]
  OBVIOUS
<1>3. Len(l) # 0
  BY DEF EndsAs
<1>4. l[Len(l)] \notin TerminalEvent
  BY DEF EndsAs, TerminalEvent, Terminal
<1>5. \A i \in 1..Len(l) : l[i] \notin TerminalEvent
  <2> SUFFICES ASSUME NEW i \in 1..Len(l) PROVE l[i] \notin TerminalEvent
    OBVIOUS
  <2>1. i = Len(l) \/ i \in 1..(Len(l) - 1)
    BY <1>1
  <2> QED
    BY <2>1, <1>4 DEF EndsAs
<1>6. \A i \in 1..(Len(m) - 1) : m[i] \notin TerminalEvent
  BY <1>1, <1>2, <1>5
<1> HIDE DEF m
<1> QED
  BY <1>0, <1>1, <1>6 DEF EndsAs, m

\* The outcome of run r, in its message, citations and events.
RecordOf(r) ==
    Exists(r) =>
        /\ run[r] = "completed" <=> message[r] = "completed"
        /\ run[r] = "failed" <=> message[r] = "failed"
        /\ citations[r] = IF run[r] = "completed" THEN 1 ELSE 0
        /\ EndsAs(log[r], run[r])

RecordInv == \A r \in Run : RecordOf(r)

LEMMA UntouchedRecord ==
    ASSUME NEW r \in Run, RecordOf(r), Untouched(r) PROVE RecordOf(r)'
BY DEF RecordOf, Untouched, Exists, EndsAs

LEMMA AskRecord ==
    ASSUME TypeOK, CountInv, RecordInv, NEW r \in Run, Ask(r) PROVE RecordInv'
<1>1. \A s \in Run \ {r} : Untouched(s)
  BY DEF Ask, procs, Untouched, TypeOK
<1>2. /\ run'[r] = "pending" /\ message'[r] = "running" /\ log'[r] = <<"queued">>
      /\ citations'[r] = 0
  BY DEF Ask, procs, TypeOK, CountInv, CountOf, Exists
<1>3. EndsAs(<<"queued">>, "pending")
  BY DEF EndsAs
<1>4. RecordOf(r)'
  BY <1>2, <1>3 DEF RecordOf, EndsAs
<1> QED
  BY <1>1, <1>4, UntouchedRecord DEF RecordInv

LEMMA RemoveRecord ==
    ASSUME TypeOK, RecordInv, NEW c \in Conversation, RemoveConversation(c) PROVE RecordInv'
<1> SUFFICES ASSUME NEW r \in Run PROVE RecordOf(r)'
  BY DEF RecordInv
<1>1. CASE ConvOf[r] = c /\ run[r] # "absent"
  BY <1>1 DEF RemoveConversation, RecordOf, Exists
<1>2. CASE ~(ConvOf[r] = c /\ run[r] # "absent")
  <2>1. Untouched(r)
    BY <1>2 DEF RemoveConversation, Untouched
  <2> QED
    BY <2>1, UntouchedRecord DEF RecordInv
<1> QED
  BY <1>1, <1>2

LEMMA ClaimRecord ==
    ASSUME TypeOK, RecordInv, NEW w \in Worker, NEW r \in Run, Claim(w, r) PROVE RecordInv'
<1>1. \A s \in Run \ {r} : Untouched(s)
  BY DEF Claim, Untouched, TypeOK
<1>2. /\ run[r] \in {"pending", "running"} /\ run'[r] = "running"
      /\ message'[r] = message[r] /\ citations'[r] = citations[r]
      /\ log'[r] = Append(log[r], "run_started")
  BY DEF Claim, Eligible, TypeOK
<1>3. log[r] \in Seq(EventType) /\ "run_started" \in EventType
  BY DEF TypeOK, EventType
<1>4. RecordOf(r) /\ Exists(r)
  BY <1>2 DEF RecordInv, Exists
<1>5. EndsAs(log'[r], "running")
  BY <1>2, <1>3, <1>4, AppendEnds DEF RecordOf, Terminal
<1>6. RecordOf(r)'
  BY <1>2, <1>4, <1>5 DEF RecordOf, EndsAs
<1> QED
  BY <1>1, <1>6, UntouchedRecord DEF RecordInv

LEMMA CompleteRecord ==
    ASSUME TypeOK, LeaseInv, RecordInv, NEW w \in Worker, Complete(w) PROVE RecordInv'
<1>1. PICK r \in Run : r = held[w] /\ run[r] = "running"
  BY WriterFindsRunning DEF Complete, Executing
<1>2. \A s \in Run \ {r} : Untouched(s)
  BY <1>1 DEF Complete, Untouched, TypeOK
<1> DEFINE l == Append(log[r], "answer_delta")
<1>3. /\ run'[r] = "completed" /\ message'[r] = "completed"
      /\ citations'[r] = citations[r] + 1
      /\ log'[r] = Append(l, "completed")
  BY <1>1 DEF Complete, CompletionEvents, TypeOK
<1>4. log[r] \in Seq(EventType) /\ "answer_delta" \in EventType /\ "completed" \in EventType
  BY <1>1 DEF TypeOK, EventType
<1>5. RecordOf(r) /\ Exists(r)
  BY <1>1 DEF RecordInv, Exists
<1>6. l \in Seq(EventType)
  BY <1>4
<1>7. EndsAs(l, "running")
  BY <1>1, <1>4, <1>5, AppendEnds DEF RecordOf, Terminal
<1> HIDE DEF l
<1>8. EndsAs(log'[r], "completed")
  BY <1>3, <1>4, <1>6, <1>7, AppendEnds DEF Terminal
<1>9. citations'[r] = 1
  BY <1>1, <1>3, <1>5 DEF RecordOf
<1>10. RecordOf(r)'
  BY <1>3, <1>8, <1>9 DEF RecordOf, EndsAs
<1> QED
  BY <1>2, <1>10, UntouchedRecord DEF RecordInv

LEMMA FailRecord ==
    ASSUME TypeOK, LeaseInv, RecordInv, NEW w \in Worker, Retry(w) \/ GiveUp(w) PROVE RecordInv'
<1>1. PICK r \in Run : r = held[w] /\ run[r] = "running"
  BY WriterFindsRunning DEF Retry, GiveUp, Executing
<1>2. \A s \in Run \ {r} : Untouched(s)
  BY <1>1 DEF Retry, GiveUp, Untouched, TypeOK
<1>3. log[r] \in Seq(EventType) /\ "warning" \in EventType /\ "error" \in EventType
  BY <1>1 DEF TypeOK, EventType
<1>4. RecordOf(r) /\ Exists(r)
  BY <1>1 DEF RecordInv, Exists
<1>5. CASE Retry(w)
  <2>1. /\ run'[r] = "pending" /\ message'[r] = message[r] /\ citations'[r] = citations[r]
        /\ log'[r] = Append(log[r], "warning")
    BY <1>1, <1>5 DEF Retry, TypeOK
  <2>2. EndsAs(log'[r], "pending")
    <3>1. EndsAs(log[r], "running")
      BY <1>1, <1>4 DEF RecordOf
    <3> QED
      BY <1>3, <3>1, <2>1, AppendEnds DEF Terminal
  <2>3. RecordOf(r)'
    BY <1>1, <1>4, <2>1, <2>2 DEF RecordOf, EndsAs
  <2> QED
    BY <1>2, <2>3, UntouchedRecord DEF RecordInv
<1>6. CASE GiveUp(w)
  <2>1. /\ run'[r] = "failed" /\ message'[r] = "failed" /\ citations'[r] = citations[r]
        /\ log'[r] = Append(log[r], "error")
    BY <1>1, <1>6 DEF GiveUp, TypeOK
  <2>2. EndsAs(log'[r], "failed")
    BY <1>1, <1>3, <1>4, <2>1, AppendEnds DEF RecordOf, Terminal
  <2>3. RecordOf(r)'
    BY <1>1, <1>4, <2>1, <2>2 DEF RecordOf, EndsAs
  <2> QED
    BY <1>2, <2>3, UntouchedRecord DEF RecordInv
<1> QED
  BY <1>5, <1>6

LEMMA RecordStep ==
    TypeOK /\ CountInv /\ LeaseInv /\ RecordInv /\ [Next]_vars => RecordInv'
<1> SUFFICES ASSUME TypeOK, CountInv, LeaseInv, RecordInv, [Next]_vars PROVE RecordInv'
  OBVIOUS
<1>1. ASSUME \A r \in Run : Untouched(r) PROVE RecordInv'
  BY <1>1, UntouchedRecord DEF RecordInv
<1>2. ASSUME NEW w \in Worker,
             Prepare(w) \/ Vanished(w) \/ Abandon(w) \/ Beat(w) \/ Crash(w) \/ Restart(w)
      PROVE \A r \in Run : Untouched(r)
  BY <1>2 DEF Prepare, Vanished, WriteToRemoved, Abandon, Beat, Crash, Restart, rows, Untouched
<1>3. Tick \/ UNCHANGED vars => \A r \in Run : Untouched(r)
  BY DEF Tick, vars, rows, Untouched
<1> QED
  BY <1>1, <1>2, <1>3, AskRecord, RemoveRecord, ClaimRecord, CompleteRecord, FailRecord
  DEF Next, Finish, DeleteConversation, PurgeConversation

LEMMA RecordsKept == LeaseSlack => (Spec => [](TypeOK /\ CountInv /\ LeaseInv /\ RecordInv))
<1> SUFFICES ASSUME LeaseSlack PROVE Spec => [](TypeOK /\ CountInv /\ LeaseInv /\ RecordInv)
  OBVIOUS
<1>1. Init => RecordInv
  BY DEF Init, RecordInv, RecordOf, Exists
<1> QED
  BY <1>1, RecordStep, CountsKept, LeasesKept, PTL DEF Spec

\* When leases outlive silences, run, message and citations of a question
\* record the same outcome, once.
THEOREM OutcomesAgree == LeaseSlack => (Spec => []OutcomeAgrees)
<1> SUFFICES ASSUME LeaseSlack PROVE Spec => []OutcomeAgrees
  OBVIOUS
<1>1. RecordInv => OutcomeAgrees
  BY DEF RecordInv, RecordOf, OutcomeAgrees
<1> QED
  BY <1>1, RecordsKept, PTL

\* When leases outlive silences, the event stream of a run ends with the
\* one terminal event that matches its outcome.
THEOREM StreamsEndOnce == LeaseSlack => (Spec => []TerminalEventIsLast)
<1> SUFFICES ASSUME LeaseSlack PROVE Spec => []TerminalEventIsLast
  OBVIOUS
<1>1. RecordInv => TerminalEventIsLast
  BY DEF RecordInv, RecordOf, TerminalEventIsLast, EndsAs
<1> QED
  BY <1>1, RecordsKept, PTL

-----------------------------------------------------------------------------
(* Refinement: the queue implements the lifecycle the user sees.           *)

\* The terminal event of a run in status s.
EventOf(s) == IF s = "completed" THEN "completed" ELSE IF s = "failed" THEN "error" ELSE "none"

AnnouncedInv == [r \in Run |-> Announced(r)] = [r \in Run |-> EventOf(run[r])]

LEMMA AnnouncedRight == CountInv /\ RecordInv => AnnouncedInv
<1> SUFFICES ASSUME CountInv, RecordInv, NEW r \in Run PROVE Announced(r) = EventOf(run[r])
  BY DEF AnnouncedInv
<1>1. CASE Exists(r)
  BY <1>1 DEF RecordInv, RecordOf, EndsAs, Announced, TerminalEvent, EventOf
<1>2. CASE ~Exists(r)
  BY <1>2 DEF CountInv, CountOf, Announced, Exists, EventOf
<1> QED
  BY <1>1, <1>2

LEMMA LifecycleInit == Init => Lifecycle!Init
BY DEF Init, Lifecycle!Init, Announced, Exists

LEMMA LifecycleStep ==
    TypeOK /\ LeaseInv /\ AnnouncedInv /\ AnnouncedInv' /\ [Next]_vars
        => [Lifecycle!Next]_(Lifecycle!avars)
<1> SUFFICES ASSUME TypeOK, LeaseInv, AnnouncedInv, AnnouncedInv', [Next]_vars
             PROVE  [Lifecycle!Next]_(Lifecycle!avars)
  OBVIOUS
<1> DEFINE ann == [r \in Run |-> Announced(r)]
<1>0. ann = [r \in Run |-> EventOf(run[r])] /\ ann' = [r \in Run |-> EventOf(run'[r])]
  BY DEF AnnouncedInv
<1> HIDE DEF ann
<1>1. ASSUME NEW r \in Run, Ask(r) PROVE Lifecycle!Ask(r)
  <2>1. ann' = ann
    BY <1>0, <1>1 DEF Ask, TypeOK, EventOf
  <2> QED
    BY <1>1, <2>1 DEF Ask, Lifecycle!Ask, ann
<1>2. ASSUME NEW c \in Conversation, RemoveConversation(c)
      PROVE \E S \in SUBSET Run : Lifecycle!Remove(S)
  <2> DEFINE S == {r \in Run : ConvOf[r] = c /\ run[r] # "absent"}
  <2>1. ann' = [r \in Run |-> IF r \in S THEN "none" ELSE ann[r]]
    BY <1>0, <1>2 DEF RemoveConversation, EventOf
  <2>2. Lifecycle!Remove(S)
    BY <1>2, <2>1 DEF RemoveConversation, Lifecycle!Remove, ann
  <2> QED
    BY <2>2
<1>3. ASSUME NEW w \in Worker, NEW r \in Run, Claim(w, r) PROVE Lifecycle!Try(r)
  <2>1. run[r] \in {"pending", "running"} /\ attempts[r] < MaxAttempts
        /\ run' = [run EXCEPT ![r] = "running"]
    BY <1>3 DEF Claim, Eligible
  <2>2. ann' = ann
    BY <1>0, <2>1 DEF TypeOK, EventOf
  <2> QED
    BY <1>3, <2>1, <2>2 DEF Claim, Lifecycle!Try, ann
<1>4. ASSUME NEW w \in Worker, Complete(w) PROVE \E r \in Run : Lifecycle!Answer(r)
  <2>1. PICK r \in Run : r = held[w] /\ run[r] = "running"
    BY <1>4, WriterFindsRunning DEF Complete, Executing
  <2>2. ann' = [ann EXCEPT ![r] = "completed"]
    BY <1>0, <1>4, <2>1 DEF Complete, TypeOK, EventOf
  <2>3. Lifecycle!Answer(r)
    BY <1>4, <2>1, <2>2 DEF Complete, Lifecycle!Answer, ann
  <2> QED
    BY <2>3
<1>5. ASSUME NEW w \in Worker, Retry(w) PROVE \E r \in Run : Lifecycle!Requeue(r)
  <2>1. PICK r \in Run : r = held[w] /\ run[r] = "running"
    BY <1>5, WriterFindsRunning DEF Retry, Retrying, Executing
  <2>2. ann' = ann
    BY <1>0, <1>5, <2>1 DEF Retry, Retrying, TypeOK, EventOf
  <2>3. Lifecycle!Requeue(r)
    BY <1>5, <2>1, <2>2 DEF Retry, Retrying, Lifecycle!Requeue, ann
  <2> QED
    BY <2>3
<1>6. ASSUME NEW w \in Worker, GiveUp(w) PROVE \E r \in Run : Lifecycle!GiveUp(r)
  <2>1. PICK r \in Run : r = held[w] /\ run[r] = "running"
    BY <1>6, WriterFindsRunning DEF GiveUp, Executing
  <2>2. ann' = [ann EXCEPT ![r] = "error"]
    BY <1>0, <1>6, <2>1 DEF GiveUp, TypeOK, EventOf
  <2>3. attempts[r] \in 0..MaxAttempts /\ ~(attempts[r] < MaxAttempts)
    BY <1>6, <2>1 DEF GiveUp, Retrying, TypeOK
  <2>4. attempts[r] = MaxAttempts
    BY <2>3, RunsAssumption
  <2>5. Lifecycle!GiveUp(r)
    BY <1>6, <2>1, <2>2, <2>4 DEF GiveUp, Lifecycle!GiveUp, ann
  <2> QED
    BY <2>5
<1>7. ASSUME UNCHANGED <<run, attempts, message>> PROVE UNCHANGED Lifecycle!avars
  <2>1. ann' = ann
    BY <1>0, <1>7
  <2> QED
    BY <1>7, <2>1 DEF Lifecycle!avars, ann
<1>8. ASSUME NEW w \in Worker,
             Prepare(w) \/ Vanished(w) \/ Abandon(w) \/ Beat(w) \/ Crash(w) \/ Restart(w)
      PROVE UNCHANGED <<run, attempts, message>>
  BY <1>8 DEF Prepare, Vanished, WriteToRemoved, Abandon, Beat, Crash, Restart, rows
<1>9. Tick \/ UNCHANGED vars => UNCHANGED <<run, attempts, message>>
  BY DEF Tick, vars, rows
<1> QED
  BY <1>1, <1>2, <1>3, <1>4, <1>5, <1>6, <1>7, <1>8, <1>9
  DEF Next, Finish, DeleteConversation, PurgeConversation, Lifecycle!Next

\* When leases outlive silences, workers, crashes and time only move a run
\* along the lifecycle the user sees.
THEOREM QueueImplementsLifecycle == LeaseSlack => (Spec => ImplementsLifecycle)
<1> SUFFICES ASSUME LeaseSlack PROVE Spec => ImplementsLifecycle
  OBVIOUS
<1> QED
  BY RecordsKept, AnnouncedRight, LifecycleInit, LifecycleStep, PTL
  DEF Spec, ImplementsLifecycle, Lifecycle!Spec

-----------------------------------------------------------------------------
(* Event streams.                                                          *)

\* A set of numbers that is not empty has a least one.
LEMMA LeastExists ==
    ASSUME NEW T, T \subseteq Nat, T # {} PROVE \E i \in T : \A j \in T : i <= j
<1> DEFINE Below == OpToRel(<, Nat)
<1>1. PICK i \in T : \A j \in T : <<j, i>> \notin Below
  <2>1. IsWellFoundedOn(Below, Nat)
    BY NatLessThanWellFounded
  <2> HIDE DEF Below
  <2> QED
    BY <2>1, WFMin
<1>2. \A j \in T : ~(j < i)
  BY <1>1 DEF OpToRel
<1> QED
  BY <1>2

\* The queue appends to the events of a run as long as the run exists, and a
\* removed run does not come back.
LEMMA EventsGrow ==
    ASSUME TypeOK, CountInv, [Next]_vars, NEW r \in Run, run[r] # "absent"
    PROVE  /\ run'[r] # "absent"
           /\ Exists(r)' => Exists(r) /\ Len(log[r]) <= Len(log'[r])
<1> DEFINE Grown == /\ run'[r] # "absent"
                    /\ Exists(r)' => Exists(r) /\ Len(log[r]) <= Len(log'[r])
           l == log[r]
<1>0. l \in Seq(EventType) /\ Len(l) \in Nat
  BY DEF TypeOK
<1>1. ASSUME Untouched(r) PROVE Grown
  BY <1>0, <1>1 DEF Untouched, Exists
<1>2. ASSUME NEW q \in Run, Ask(q) PROVE Grown
  <2>1. q # r
    BY <1>2 DEF Ask
  <2> QED
    BY <1>1, <1>2, <2>1 DEF Ask, procs, Untouched, TypeOK
<1>3. ASSUME NEW c \in Conversation, RemoveConversation(c) PROVE Grown
  <2>1. CASE ConvOf[r] = c
    BY <1>3, <2>1 DEF RemoveConversation, Exists
  <2>2. CASE ConvOf[r] # c
    BY <1>1, <1>3, <2>2 DEF RemoveConversation, Untouched
  <2> QED
    BY <2>1, <2>2
\* The steps that append to the events of a run.
<1>4. ASSUME NEW q \in Run, Exists(q), NEW d \in EventType, NEW e \in EventType,
             \/ log' = [log EXCEPT ![q] = Append(@, e)]
             \/ log' = [log EXCEPT ![q] = Append(Append(@, d), e)],
             NEW s \in RunStatus \ {"absent", "deleted"}, run' = [run EXCEPT ![q] = s]
      PROVE  Grown
  <2>1. CASE q = r
    <3>1. run'[r] = s
      BY <1>4, <2>1 DEF TypeOK
    <3>2. Append(l, d) \in Seq(EventType) /\ Len(Append(l, d)) = Len(l) + 1
      BY <1>0, <1>4
    <3>3. Len(Append(l, e)) = Len(l) + 1 /\ Len(Append(Append(l, d), e)) = Len(l) + 2
      BY <1>0, <1>4, <3>2
    <3>4. log'[r] \in {Append(l, e), Append(Append(l, d), e)}
      BY <1>4, <2>1 DEF TypeOK
    <3> HIDE DEF l
    <3>5. Len(l) <= Len(log'[r])
      BY <1>0, <3>3, <3>4
    <3> QED
      BY <1>4, <2>1, <3>1, <3>5 DEF Exists, l
  <2>2. CASE q # r
    <3>1. run'[r] = run[r] /\ log'[r] = log[r]
      BY <1>4, <2>2 DEF TypeOK
    <3> QED
      BY <1>0, <3>1 DEF Exists
  <2> QED
    BY <2>1, <2>2
<1>5. /\ "run_started" \in EventType /\ "answer_delta" \in EventType /\ "completed" \in EventType
      /\ "warning" \in EventType /\ "error" \in EventType
      /\ "running" \in RunStatus \ {"absent", "deleted"} /\ "pending" \in RunStatus \ {"absent", "deleted"}
      /\ "completed" \in RunStatus \ {"absent", "deleted"} /\ "failed" \in RunStatus \ {"absent", "deleted"}
  BY DEF EventType, RunStatus
<1> HIDE DEF Grown, l
<1>6. ASSUME NEW w \in Worker, NEW q \in Run, Claim(w, q) PROVE Grown
  <2>1. Exists(q)
    BY <1>6 DEF Claim, Eligible, Exists
  <2>2. run' = [run EXCEPT ![q] = "running"] /\ log' = [log EXCEPT ![q] = Append(@, "run_started")]
    BY <1>6 DEF Claim
  <2> QED
    BY <1>4, <1>5, <2>1, <2>2
<1>7. ASSUME NEW w \in Worker, Complete(w) \/ Retry(w) \/ GiveUp(w) PROVE Grown
  <2>1. held[w] \in Run /\ Exists(held[w])
    BY <1>7 DEF Complete, Retry, GiveUp, Executing, CountInv
  <2>2. CASE Complete(w)
    <3>1. /\ run' = [run EXCEPT ![held[w]] = "completed"]
          /\ log' = [log EXCEPT ![held[w]] = Append(Append(@, "answer_delta"), "completed")]
      BY <2>2 DEF Complete, CompletionEvents
    <3> QED
      BY <1>4, <1>5, <2>1, <3>1
  <2>3. CASE Retry(w)
    <3>1. /\ run' = [run EXCEPT ![held[w]] = "pending"]
          /\ log' = [log EXCEPT ![held[w]] = Append(@, "warning")]
      BY <2>3 DEF Retry
    <3> QED
      BY <1>4, <1>5, <2>1, <3>1
  <2>4. CASE GiveUp(w)
    <3>1. /\ run' = [run EXCEPT ![held[w]] = "failed"]
          /\ log' = [log EXCEPT ![held[w]] = Append(@, "error")]
      BY <2>4 DEF GiveUp
    <3> QED
      BY <1>4, <1>5, <2>1, <3>1
  <2> QED
    BY <1>7, <2>2, <2>3, <2>4
<1>8. ASSUME \/ \E w \in Worker : \/ Prepare(w) \/ Vanished(w) \/ Abandon(w) \/ Beat(w) \/ Crash(w)
                                  \/ Restart(w)
             \/ Tick \/ UNCHANGED vars
      PROVE  Grown
  <2>1. Untouched(r)
    BY <1>8 DEF Prepare, Vanished, WriteToRemoved, Abandon, Beat, Crash, Restart, Tick, vars, rows, Untouched
  <2> QED
    BY <1>1, <2>1
<1>9. Grown
  BY <1>2, <1>3, <1>6, <1>7, <1>8 DEF Next, Finish, DeleteConversation, PurgeConversation
<1> QED
  BY <1>9 DEF Grown, l

-----------------------------------------------------------------------------
(* The cursor of a client.                                                 *)

\* A stream is about a run that was asked, and before its first run a client
\* has read nothing: why a cursor never comes to stand ahead of its run.
StreamInv ==
    /\ StreamTypeOK
    /\ \A u \in Client : IF watched[u] = NoRun THEN stream[u] = "off" /\ cursor[u] = 0
                         ELSE run[watched[u]] # "absent"

\* What a read leaves as the cursor.
LEMMA SentWithinLog ==
    ASSUME TypeOK, StreamInv, NEW u \in Client, watched[u] \in Run, Exists(watched[u])
    PROVE  /\ Sent(u) \in 0..Len(log[watched[u]])
           /\ Ends(u) # {} => Sent(u) \in Ends(u)
           /\ Len(log[watched[u]]) \in Nat
<1> DEFINE length == Len(log[watched[u]])
<1>1. length \in Nat /\ cursor[u] \in Nat
  BY DEF TypeOK, StreamInv, StreamTypeOK
<1>2. Ends(u) \subseteq (cursor[u] + 1)..length
  BY DEF Ends
<1> HIDE DEF length
<1>3. Ends(u) \subseteq Nat /\ \A i \in Ends(u) : i \in 0..length
  BY <1>1, <1>2
<1>4. CASE Ends(u) = {}
  BY <1>1, <1>4 DEF Sent, length
<1>5. CASE Ends(u) # {}
  <2>1. \E i \in Ends(u) : \A j \in Ends(u) : i <= j
    BY <1>3, <1>5, LeastExists
  <2>2. Sent(u) \in Ends(u)
    BY <1>5, <2>1 DEF Sent
  <2> QED
    BY <1>1, <1>3, <2>2 DEF length
<1> QED
  BY <1>4, <1>5

LEMMA StreamStep == TypeOK /\ CountInv /\ StreamInv /\ [StreamNext]_svars => StreamInv'
<1> SUFFICES ASSUME TypeOK, CountInv, StreamInv, [StreamNext]_svars PROVE StreamInv'
  OBVIOUS
<1>0. \A u \in Client : watched[u] # NoRun => watched[u] \in Run /\ run[watched[u]] # "absent"
  BY DEF StreamInv, StreamTypeOK
<1>1. CASE [Next]_vars /\ UNCHANGED client
  <2>1. UNCHANGED <<stream, watched, cursor, idle, seen>>
    BY <1>1 DEF client
  <2>2. ASSUME NEW u \in Client, watched[u] # NoRun
        PROVE  /\ run'[watched[u]] # "absent"
               /\ Exists(watched[u])' => cursor[u] <= Len(log'[watched[u]])
    <3>1. /\ run'[watched[u]] # "absent"
          /\ Exists(watched[u])' => Exists(watched[u]) /\ Len(log[watched[u]]) <= Len(log'[watched[u]])
      <4>1. PICK r \in Run : r = watched[u] /\ run[r] # "absent"
        BY <1>0, <2>2
      <4>2. run'[r] # "absent" /\ (Exists(r)' => Exists(r) /\ Len(log[r]) <= Len(log'[r]))
        BY <1>1, <4>1, EventsGrow
      <4> QED
        BY <2>1, <4>1, <4>2 DEF Exists
    <3>2. log[watched[u]] \in Seq(EventType) /\ cursor[u] \in Nat
      BY <1>0, <2>2 DEF TypeOK, StreamInv, StreamTypeOK
    <3>3. ASSUME Exists(watched[u])' PROVE cursor[u] <= Len(log'[watched[u]])
      <4>1. cursor[u] <= Len(log[watched[u]])
        BY <2>2, <3>1, <3>3 DEF StreamInv, StreamTypeOK
      <4>2. log' \in [Run -> Seq(EventType)]
        BY <1>1, TypeStep DEF TypeOK
      <4>3. Len(log[watched[u]]) \in Nat /\ Len(log'[watched[u]]) \in Nat
        BY <1>0, <2>2, <3>2, <4>2
      <4> QED
        BY <3>1, <3>2, <3>3, <4>1, <4>3
    <3> QED
      BY <3>1, <3>3
  <2> QED
    BY <2>1, <2>2 DEF StreamInv, StreamTypeOK, Exists
<1>2. ASSUME NEW u \in Client, NEW r \in Run, Open(u, r) PROVE StreamInv'
  <2>1. cursor[u] = 0 /\ Len(log[r]) \in Nat
    BY <1>2 DEF Open, StreamInv, TypeOK
  <2> QED
    BY <1>2, <2>1, RunsAssumption DEF Open, StreamInv, StreamTypeOK, vars, rows, Exists, NoRun
<1>3. ASSUME NEW u \in Client, Resume(u) \/ CheckStatus(u) \/ Disconnect(u) PROVE StreamInv'
  <2>1. UNCHANGED <<run, log, watched, cursor, idle, seen>>
    BY <1>3 DEF Resume, CheckStatus, Disconnect, vars, rows
  <2>2. stream' \in [Client -> {"off", "reading", "checking", "ended", "broken"}]
    BY <1>3 DEF Resume, CheckStatus, Disconnect, StreamInv, StreamTypeOK
  <2> QED
    BY <1>3, <2>1, <2>2 DEF StreamInv, StreamTypeOK, Exists, Resume, CheckStatus, Disconnect
<1>4. ASSUME NEW u \in Client, ReadEvents(u) PROVE StreamInv'
  <2>0. watched[u] # NoRun
    BY <1>4 DEF ReadEvents, StreamInv
  <2>1. UNCHANGED <<run, log, watched>>
    BY <1>4 DEF ReadEvents, vars, rows
  <2>2. /\ stream' \in [Client -> {"off", "reading", "checking", "ended", "broken"}]
        /\ idle' \in [Client -> BOOLEAN] /\ seen' \in [Client -> BOOLEAN]
    BY <1>4 DEF ReadEvents, StreamInv, StreamTypeOK
  <2>3. cursor' = cursor \/ (Exists(watched[u]) /\ cursor' = [cursor EXCEPT ![u] = Sent(u)])
    BY <1>4 DEF ReadEvents
  <2>6. \A v \in Client : watched[v] = NoRun => stream'[v] = stream[v]
    BY <1>4, <2>0 DEF ReadEvents, StreamInv, StreamTypeOK
  <2>4. CASE cursor' = cursor
    BY <2>1, <2>2, <2>4, <2>6 DEF StreamInv, StreamTypeOK, Exists
  <2>5. CASE Exists(watched[u]) /\ cursor' = [cursor EXCEPT ![u] = Sent(u)]
    <3>1. Sent(u) \in Nat /\ Sent(u) <= Len(log[watched[u]])
      BY <1>0, <2>0, <2>5, SentWithinLog
    <3>2. cursor' \in [Client -> Nat] /\ cursor'[u] = Sent(u) /\ \A v \in Client \ {u} : cursor'[v] = cursor[v]
      BY <2>5, <3>1 DEF StreamInv, StreamTypeOK
    <3> QED
      BY <2>0, <2>1, <2>2, <2>6, <3>1, <3>2 DEF StreamInv, StreamTypeOK, Exists
  <2> QED
    BY <2>3, <2>4, <2>5
<1> QED
  BY <1>1, <1>2, <1>3, <1>4 DEF StreamNext, svars, vars

LEMMA StreamStarts == StreamInit => StreamInv
BY DEF StreamInit, StreamInv, StreamTypeOK, NoRun

\* The queue under a stream is the queue: a client only reads.
LEMMA QueueSteps == [StreamNext]_svars => [Next]_vars
BY DEF StreamNext, svars, Open, Resume, ReadEvents, CheckStatus, Disconnect

LEMMA QueueOfStream == StreamSpec => Spec
<1>1. StreamInit => Init
  BY DEF StreamInit
<1> QED
  BY <1>1, QueueSteps, PTL DEF StreamSpec, Spec

LEMMA StreamsKept == StreamSpec => [](TypeOK /\ CountInv /\ StreamInv)
BY StreamStarts, StreamStep, QueueOfStream, CountsKept, PTL DEF StreamSpec

\* Whatever happens to the queue, to leases and to connections, a cursor
\* never stands ahead of the events of its run: no event is skipped.
THEOREM CursorsAreSound == StreamSpec => []StreamTypeOK
<1>1. StreamInv => StreamTypeOK
  BY DEF StreamInv
<1> QED
  BY <1>1, StreamsKept, PTL

-----------------------------------------------------------------------------
(* Streams that the server ended.                                          *)

\* A stream ends on a run that is over.
EndedOver == \A u \in Client : stream[u] = "ended" /\ Exists(watched[u]) => run[watched[u]] \in Terminal

\* A terminal event among those a read finds is the last one, and the run is
\* over: the worker wrote both in one transaction.
LEMMA EventsEndWithRun ==
    ASSUME TypeOK, StreamInv, RecordInv, NEW u \in Client, watched[u] \in Run, Exists(watched[u]), Ends(u) # {}
    PROVE  run[watched[u]] \in Terminal
<1> DEFINE l == log[watched[u]]
<1>1. EndsAs(l, run[watched[u]]) /\ l \in Seq(EventType) /\ cursor[u] \in Nat
  BY DEF RecordInv, RecordOf, TypeOK, StreamInv, StreamTypeOK
<1>2. PICK i \in (cursor[u] + 1)..Len(l) : l[i] \in TerminalEvent
  BY DEF Ends
<1>3. Len(l) \in Nat
  BY <1>1
<1> HIDE DEF l
<1>4. i \notin 1..(Len(l) - 1)
  BY <1>1, <1>2 DEF EndsAs
<1>5. i = Len(l)
  BY <1>1, <1>2, <1>3, <1>4
<1> QED
  BY <1>1, <1>2, <1>5 DEF EndsAs, TerminalEvent, Terminal

LEMMA EndedStep ==
    /\ TypeOK /\ CountInv /\ LeaseInv /\ RecordInv /\ StreamInv /\ EndedOver
    /\ [StreamNext]_svars
    => EndedOver'
<1> SUFFICES ASSUME TypeOK, CountInv, LeaseInv, RecordInv, StreamInv, EndedOver, [StreamNext]_svars,
                    NEW u \in Client, stream'[u] = "ended", Exists(watched[u])'
             PROVE  run'[watched'[u]] \in Terminal
  BY DEF EndedOver
<1>0. watched[u] # NoRun => watched[u] \in Run /\ run[watched[u]] # "absent"
  BY DEF StreamInv, StreamTypeOK
<1>1. CASE [Next]_vars /\ UNCHANGED client
  <2>1. stream[u] = "ended" /\ watched' = watched
    BY <1>1 DEF client
  <2>2. PICK r \in Run : r = watched[u] /\ run[r] # "absent"
    BY <1>0, <2>1 DEF StreamInv
  <2>3. Exists(r)' => Exists(r)
    BY <1>1, <2>2, EventsGrow
  <2>4. run[r] \in Terminal
    BY <2>1, <2>2, <2>3 DEF EndedOver, Exists
  <2>5. <<run[r], run'[r]>> \in Transition
    BY <1>1, TransitionStep
  <2> QED
    BY <2>1, <2>2, <2>4, <2>5 DEF Transition, Terminal, Exists
<1>2. ASSUME NEW v \in Client, \/ \E r \in Run : Open(v, r)
                               \/ Resume(v) \/ ReadEvents(v) \/ CheckStatus(v) \/ Disconnect(v)
      PROVE  run'[watched'[u]] \in Terminal
  <2>1. UNCHANGED run
    BY <1>2 DEF Open, Resume, ReadEvents, CheckStatus, Disconnect, vars
  <2>2. CASE stream[u] = "ended" /\ watched'[u] = watched[u]
    BY <2>1, <2>2 DEF EndedOver, Exists
  <2>3. CASE ~(stream[u] = "ended" /\ watched'[u] = watched[u])
    <3>1. v = u /\ (ReadEvents(u) \/ CheckStatus(u))
      BY <1>2, <2>3 DEF Open, Resume, ReadEvents, CheckStatus, Disconnect, StreamInv, StreamTypeOK
    <3>2. watched' = watched /\ stream[u] # "off"
      BY <3>1 DEF ReadEvents, CheckStatus
    <3>3. watched[u] \in Run /\ Exists(watched[u])
      BY <1>0, <2>1, <3>2 DEF StreamInv, Exists
    <3>4. CASE ReadEvents(u)
      BY <2>1, <3>2, <3>3, <3>4, EventsEndWithRun DEF ReadEvents, StreamInv, StreamTypeOK
    <3>5. CASE CheckStatus(u)
      BY <2>1, <3>2, <3>3, <3>5 DEF CheckStatus, Over, StreamInv, StreamTypeOK
    <3> QED
      BY <3>1, <3>4, <3>5
  <2> QED
    BY <2>2, <2>3
<1> QED
  BY <1>1, <1>2 DEF StreamNext, svars

\* When leases outlive silences, a stream that the server has ended is about
\* a run whose outcome and message are in the database: the page that reloads
\* the conversation then never shows "Preparing answer".
THEOREM EndedStreamsHaveOutcomes == LeaseSlack => (StreamSpec => []EndedStreamHasOutcome)
<1> SUFFICES ASSUME LeaseSlack PROVE StreamSpec => []EndedStreamHasOutcome
  OBVIOUS
<1>1. StreamInit => EndedOver
  BY DEF StreamInit, EndedOver
<1>2. TypeOK /\ RecordInv /\ StreamInv /\ EndedOver => EndedStreamHasOutcome
  <2> SUFFICES ASSUME RecordInv, StreamInv, EndedOver, NEW u \in Client,
                      stream[u] = "ended", Exists(watched[u])
               PROVE  run[watched[u]] \in Terminal /\ message[watched[u]] \in {"completed", "failed"}
    BY DEF EndedStreamHasOutcome
  <2>1. watched[u] \in Run
    BY DEF StreamInv, StreamTypeOK
  <2> QED
    BY <2>1 DEF EndedOver, RecordInv, RecordOf, Terminal
<1> QED
  BY <1>1, <1>2, EndedStep, StreamsKept, QueueOfStream, RecordsKept, PTL DEF StreamSpec
====

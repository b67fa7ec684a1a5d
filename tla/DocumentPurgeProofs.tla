---- MODULE DocumentPurgeProofs ----
(***************************************************************************)
(* Theorems about DocumentPurge for any number of versions, workers, calls *)
(* and conversations.                                                      *)
(***************************************************************************)
EXTENDS DocumentPurge, TLAPS

\* The steps of each kind of process.
ImportStep(v) == Import(v) \/ ImportRolledBack(v)
CallStep(c) ==
    \/ AlreadyPurged(c) \/ NotFound(c) \/ DeleteRows(c) \/ Resume(c) \/ BeginCleanup(c)
    \/ RebuildIndex(c) \/ Finish(c) \/ CallFails(c)
    \/ \E v \in Version : RemoveObjects(c, v)
Work(w) == WorkerStep(w) \/ CrashWorker(w) \/ \E v \in Version : Claim(w, v)
AnswerStep(k) == Retrieve(k) \/ CompleteAnswer(k) \/ DropAnswer(k)

\* A worker that is not idle works on a version.
WorkersHaveTargets == \A w \in Worker : pc[w] # "idle" => target[w] \in Version

\* The rows go when the ledger row comes, and until then all work is on
\* versions that have rows.
LedgerReplacesRows ==
    /\ exists => ~Requested
    /\ ~exists => rows = {}
    /\ ~Requested => listed = {}
    /\ \A w \in Worker : ~Requested /\ pc[w] # "idle" => target[w] \in rows

\* A call in its second transaction holds the lock over an unfinished ledger.
CleanupIsLocked ==
    \A c \in Call :
        /\ call[c] = "deleted" => Requested
        /\ call[c] \in {"removing", "rebuilt"} =>
            /\ lock = c
            /\ ledger \in {"database_deleted", "partial"}
        /\ call[c] = "rebuilt" => todo[c] = {}

\* The objects of a version are gone, or will be discarded, or were struck.
Settled(v) == v \in objects =>
    \/ v \in struck
    \/ \E w \in Worker : target[w] = v /\ pc[w] \in Guarded

\* While nothing has failed, what a cleanup is through with is settled.
CleanupProgress ==
    \A c \in Call : call[c] \in {"removing", "rebuilt"} /\ ~failed[c] =>
        \A v \in Version : v \in listed => v \in todo[c] \/ Settled(v)

\* An object without a row and not listed is settled.
ObjectsSettled == \A v \in Version : v \in rows \/ v \in listed \/ Settled(v)

\* The conversations about the document go with its rows.
ScopedGone == Requested => \A k \in Scoped : conv[k] = "gone" /\ k \notin cites

PurgeInv ==
    /\ TypeOK
    /\ WorkersHaveTargets
    /\ LedgerReplacesRows
    /\ CleanupIsLocked
    /\ CleanupProgress
    /\ ObjectsSettled
    /\ CleanupOnce
    /\ ScopedGone

-----------------------------------------------------------------------------
\* Every step is a step of one process.
LEMMA StepCases ==
    ASSUME Next
    PROVE  \/ \E v \in Version : ImportStep(v)
           \/ \E c \in Call : CallStep(c)
           \/ \E w \in Worker : Work(w)
           \/ \E k \in Conversation : AnswerStep(k)
  BY DEF Next, ImportStep, CallStep, Work, AnswerStep

\* What each kind of process never touches.
LEMMA ImportFrame ==
    ASSUME NEW v \in Version, ImportStep(v)
    PROVE  UNCHANGED <<indexed, purges, workers, chats>>
  BY DEF ImportStep, Import, ImportRolledBack

LEMMA CallFrame ==
    ASSUME NEW c \in Call, CallStep(c)
    PROVE  UNCHANGED <<uploaded, workers, struck, answer>>
  BY DEF CallStep, documents, chats, AlreadyPurged, NotFound, DeleteRows, Resume,
     BeginCleanup, RebuildIndex, Finish, CallFails, RemoveObjects

LEMMA WorkerFrame ==
    ASSUME NEW w \in Worker, Work(w)
    PROVE  UNCHANGED <<exists, rows, uploaded, purges, chats>>
  BY DEF Work, WorkerStep, Claim, documents, LoadJob, CheckPurge, StartParserRun,
     LeaveEarly, EnterTry, Inspect, MakeDirectory, AdvanceJob, FinishCancelled,
     PersistParsed, Raise, HandleError, CrashWorker

LEMMA AnswerFrame ==
    ASSUME NEW k \in Conversation, AnswerStep(k)
    PROVE  UNCHANGED <<documents, objects, purges, workers, struck>>
  BY DEF AnswerStep, Retrieve, CompleteAnswer, DropAnswer

\* A worker step claims a version that has a row, goes on with its own, or leaves.
LEMMA WorkerMoves ==
    ASSUME NEW w \in Worker, Work(w)
    PROVE  \/ /\ pc' = [pc EXCEPT ![w] = "claimed"]
              /\ \E v \in rows : target' = [target EXCEPT ![w] = v]
           \/ /\ pc[w] # "idle"
              /\ \E p \in Early \cup Guarded : pc' = [pc EXCEPT ![w] = p]
              /\ target' = target
           \/ Leave(w)
<1>1. ASSUME NEW u \in Version, Claim(w, u)
      PROVE  \E v \in rows : target' = [target EXCEPT ![w] = v]
  BY <1>1 DEF Claim
<1>2. CASE WorkerStep(w) \/ CrashWorker(w)
  BY <1>2
     DEF WorkerStep, Early, Guarded, GoTo, LoadJob, CheckPurge, StartParserRun,
     LeaveEarly, EnterTry, Inspect, MakeDirectory, AdvanceJob, FinishCancelled,
     PersistParsed, Raise, HandleError, CrashWorker
<1> QED
  BY <1>1, <1>2 DEF Work, Claim

\* Every step keeps the types.
LEMMA TypeStep ==
    ASSUME TypeOK, WorkersHaveTargets, [Next]_vars
    PROVE  TypeOK'
<1>1. ASSUME NEW v \in Version, ImportStep(v) PROVE TypeOK'
  BY <1>1 DEF ImportStep, Import, ImportRolledBack, TypeOK, purges, workers, chats
<1>2. ASSUME NEW c \in Call, CallStep(c) PROVE TypeOK'
  <2>1. CASE AlreadyPurged(c)
    BY <2>1 DEF AlreadyPurged, CallTo, TypeOK, CallEnd, documents, workers, chats
  <2>2. CASE NotFound(c)
    BY <2>2 DEF NotFound, CallTo, TypeOK, CallEnd, documents, workers, chats
  <2>3. CASE DeleteRows(c)
    BY <2>3 DEF DeleteRows, CallTo, TypeOK, workers
  <2>4. CASE Resume(c)
    BY <2>4 DEF Resume, CallTo, TypeOK, documents, workers, chats
  <2>5. CASE BeginCleanup(c)
    BY <2>5 DEF BeginCleanup, CallTo, TypeOK, documents, workers, chats
  <2>6. CASE RebuildIndex(c)
    BY <2>6 DEF RebuildIndex, CallTo, TypeOK, documents, workers, chats
  <2>7. CASE Finish(c)
    BY <2>7 DEF Finish, CallTo, TypeOK, CallEnd, documents, workers, chats
  <2>8. CASE CallFails(c)
    BY <2>8 DEF CallFails, CallTo, TypeOK, CallEnd, documents, workers, chats
  <2>9. ASSUME NEW u \in Version, RemoveObjects(c, u) PROVE TypeOK'
    BY <2>9 DEF RemoveObjects, TypeOK, documents, workers, chats
  <2> QED
    BY <2>1, <2>2, <2>3, <2>4, <2>5, <2>6, <2>7, <2>8, <2>9, <1>2 DEF CallStep
<1>3. ASSUME NEW w \in Worker, Work(w) PROVE TypeOK'
  <2>1. CASE LoadJob(w)
    BY <2>1 DEF LoadJob, GoTo, Leave, TypeOK, Early, documents, purges, chats
  <2>2. CASE CheckPurge(w)
    BY <2>2
       DEF CheckPurge, GoTo, Leave, Discard, TypeOK, Early, Guarded, documents, purges,
       chats
  <2>3. CASE StartParserRun(w)
    BY <2>3 DEF StartParserRun, GoTo, TypeOK, Early, documents, purges, chats
  <2>4. CASE LeaveEarly(w)
    BY <2>4 DEF LeaveEarly, Leave, TypeOK, documents, purges, chats
  <2>5. CASE EnterTry(w)
    BY <2>5 DEF EnterTry, GoTo, TypeOK, Guarded, documents, purges, chats
  <2>6. CASE Inspect(w)
    BY <2>6 DEF Inspect, GoTo, TypeOK, Guarded, documents, purges, chats
  <2>7. CASE MakeDirectory(w)
    BY <2>7
       DEF MakeDirectory, GoTo, TypeOK, WorkersHaveTargets, Guarded, documents, purges,
       chats
  <2>8. CASE AdvanceJob(w)
    BY <2>8 DEF AdvanceJob, GoTo, TypeOK, Guarded, documents, purges, chats
  <2>9. CASE FinishCancelled(w)
    BY <2>9 DEF FinishCancelled, Leave, TypeOK, documents, purges, chats
  <2>10. CASE PersistParsed(w)
    BY <2>10 DEF PersistParsed, Leave, Commits, TypeOK, purges, chats
  <2>11. CASE Raise(w)
    BY <2>11 DEF Raise, GoTo, TypeOK, Guarded, documents, purges, chats
  <2>12. CASE HandleError(w)
    BY <2>12 DEF HandleError, Leave, Discard, TypeOK, documents, purges, chats
  <2>13. CASE CrashWorker(w)
    BY <2>13
       DEF CrashWorker, Leave, TypeOK, WorkersHaveTargets, documents, purges, chats
  <2>14. ASSUME NEW u \in Version, Claim(w, u) PROVE TypeOK'
    BY <2>14 DEF Claim, TypeOK, Early, documents, purges, chats
  <2> QED
    BY <2>1, <2>2, <2>3, <2>4, <2>5, <2>6, <2>7, <2>8, <2>9, <2>10, <2>11, <2>12, <2>13,
       <2>14, <1>3
       DEF Work, WorkerStep
<1>4. ASSUME NEW k \in Conversation, AnswerStep(k) PROVE TypeOK'
  BY <1>4
     DEF AnswerStep, Retrieve, CompleteAnswer, DropAnswer, TypeOK, documents, purges,
     workers
<1>5. CASE UNCHANGED vars
  BY <1>5 DEF vars, documents, purges, workers, chats, TypeOK
<1> QED
  BY <1>1, <1>2, <1>3, <1>4, <1>5, StepCases

\* A worker takes its target with the claim and keeps it while it works.
LEMMA TargetsStep ==
    ASSUME TypeOK, WorkersHaveTargets, [Next]_vars
    PROVE  WorkersHaveTargets'
<1>1. ASSUME NEW v \in Version, ImportStep(v) PROVE WorkersHaveTargets'
  BY <1>1, ImportFrame DEF WorkersHaveTargets, workers
<1>2. ASSUME NEW c \in Call, CallStep(c) PROVE WorkersHaveTargets'
  BY <1>2, CallFrame DEF WorkersHaveTargets, workers
<1>3. ASSUME NEW w \in Worker, Work(w) PROVE WorkersHaveTargets'
  BY <1>3, WorkerMoves DEF WorkersHaveTargets, TypeOK, Leave
<1>4. ASSUME NEW k \in Conversation, AnswerStep(k) PROVE WorkersHaveTargets'
  BY <1>4, AnswerFrame DEF WorkersHaveTargets, workers
<1>5. CASE UNCHANGED vars
  BY <1>5 DEF vars, workers, WorkersHaveTargets
<1> QED
  BY <1>1, <1>2, <1>3, <1>4, <1>5, StepCases

\* The ledger row replaces the rows, and no worker claims after that.
LEMMA LedgerStep ==
    ASSUME TypeOK, LedgerReplacesRows, CleanupIsLocked, [Next]_vars
    PROVE  LedgerReplacesRows'
<1>1. ASSUME NEW v \in Version, ImportStep(v) PROVE LedgerReplacesRows'
  BY <1>1
     DEF LedgerReplacesRows, Requested, purges, workers, ImportStep, Import,
     ImportRolledBack
<1>2. ASSUME NEW c \in Call, CallStep(c) PROVE LedgerReplacesRows'
  <2>1. CASE AlreadyPurged(c)
    BY <2>1 DEF AlreadyPurged, LedgerReplacesRows, Requested, documents
  <2>2. CASE NotFound(c)
    BY <2>2 DEF NotFound, LedgerReplacesRows, documents, workers
  <2>3. CASE DeleteRows(c)
    BY <2>3 DEF DeleteRows, LedgerReplacesRows, Requested
  <2>4. CASE Resume(c)
    BY <2>4 DEF Resume, LedgerReplacesRows, Requested, documents
  <2>5. CASE BeginCleanup(c)
    BY <2>5 DEF BeginCleanup, LedgerReplacesRows, Requested, documents, workers
  <2>6. CASE RebuildIndex(c)
    BY <2>6, CallFrame
       DEF RebuildIndex, LedgerReplacesRows, Requested, documents, workers
  <2>7. CASE Finish(c)
    BY <2>7 DEF Finish, LedgerReplacesRows, CleanupIsLocked, Requested, documents
  <2>8. CASE CallFails(c)
    BY <2>8 DEF CallFails, LedgerReplacesRows, Requested, documents, workers
  <2>9. ASSUME NEW u \in Version, RemoveObjects(c, u) PROVE LedgerReplacesRows'
    BY <2>9 DEF RemoveObjects, LedgerReplacesRows, Requested, documents, workers
  <2> QED
    BY <2>1, <2>2, <2>3, <2>4, <2>5, <2>6, <2>7, <2>8, <2>9, <1>2 DEF CallStep
<1>3. ASSUME NEW w \in Worker, Work(w) PROVE LedgerReplacesRows'
  BY <1>3, WorkerFrame, WorkerMoves
     DEF LedgerReplacesRows, TypeOK, Requested, purges, Leave
<1>4. ASSUME NEW k \in Conversation, AnswerStep(k) PROVE LedgerReplacesRows'
  BY <1>4, AnswerFrame DEF LedgerReplacesRows, Requested, documents, purges, workers
<1>5. CASE UNCHANGED vars
  BY <1>5 DEF vars, documents, purges, workers, LedgerReplacesRows, Requested
<1> QED
  BY <1>1, <1>2, <1>3, <1>4, <1>5, StepCases

\* The second transaction of one call excludes every other transaction.
LEMMA LockStep ==
    ASSUME TypeOK, LedgerReplacesRows, CleanupIsLocked, [Next]_vars
    PROVE  CleanupIsLocked'
<1>1. ASSUME NEW v \in Version, ImportStep(v) PROVE CleanupIsLocked'
  BY <1>1, ImportFrame DEF CleanupIsLocked, Requested, purges
<1>2. ASSUME NEW c \in Call, CallStep(c) PROVE CleanupIsLocked'
  <2>1. CASE AlreadyPurged(c)
    BY <2>1 DEF AlreadyPurged, CallTo, CleanupIsLocked, Requested
  <2>2. CASE NotFound(c)
    BY <2>2 DEF NotFound, CallTo, CleanupIsLocked
  <2>3. CASE DeleteRows(c)
    BY <2>3 DEF DeleteRows, CallTo, LedgerReplacesRows, CleanupIsLocked, Requested
  <2>4. CASE Resume(c)
    BY <2>4 DEF Resume, CallTo, CleanupIsLocked, Requested
  <2>5. CASE BeginCleanup(c)
    BY <2>5, PurgeAssumption
       DEF BeginCleanup, CallTo, TypeOK, CleanupIsLocked, Requested, Writable
  <2>6. CASE RebuildIndex(c)
    BY <2>6 DEF RebuildIndex, CallTo, CleanupIsLocked, Requested
  <2>7. CASE Finish(c)
    BY <2>7 DEF Finish, CallTo, TypeOK, CleanupIsLocked, Requested
  <2>8. CASE CallFails(c)
    BY <2>8 DEF CallFails, CallTo, TypeOK, CleanupIsLocked, Requested
  <2>9. ASSUME NEW u \in Version, RemoveObjects(c, u) PROVE CleanupIsLocked'
    BY <2>9 DEF RemoveObjects, CleanupIsLocked, Requested
  <2> QED
    BY <2>1, <2>2, <2>3, <2>4, <2>5, <2>6, <2>7, <2>8, <2>9, <1>2 DEF CallStep
<1>3. ASSUME NEW w \in Worker, Work(w) PROVE CleanupIsLocked'
  BY <1>3, WorkerFrame DEF CleanupIsLocked, Requested, purges
<1>4. ASSUME NEW k \in Conversation, AnswerStep(k) PROVE CleanupIsLocked'
  BY <1>4, AnswerFrame DEF CleanupIsLocked, Requested, purges
<1>5. CASE UNCHANGED vars
  BY <1>5 DEF vars, purges, CleanupIsLocked, Requested
<1> QED
  BY <1>1, <1>2, <1>3, <1>4, <1>5, StepCases

\* A completed ledger stays completed, so no second call completes it.
LEMMA OnceStep ==
    ASSUME TypeOK, LedgerReplacesRows, CleanupIsLocked, CleanupOnce, [Next]_vars
    PROVE  CleanupOnce'
<1>1. ASSUME NEW v \in Version, ImportStep(v) PROVE CleanupOnce'
  BY <1>1 DEF CleanupOnce, Requested, purges, ImportStep, Import, ImportRolledBack
<1>2. ASSUME NEW c \in Call, CallStep(c) PROVE CleanupOnce'
  <2>1. CASE AlreadyPurged(c)
    BY <2>1
       DEF AlreadyPurged, CallTo, LedgerReplacesRows, CleanupOnce, Requested, documents
  <2>2. CASE NotFound(c)
    BY <2>2 DEF NotFound, CallTo, CleanupOnce, documents
  <2>3. CASE DeleteRows(c)
    BY <2>3 DEF DeleteRows, Related, CallTo, CleanupOnce
  <2>4. CASE Resume(c)
    BY <2>4 DEF Resume, CallTo, TypeOK, CleanupOnce
  <2>5. CASE BeginCleanup(c)
    BY <2>5 DEF BeginCleanup, CallTo, CleanupOnce
  <2>6. CASE RebuildIndex(c)
    BY <2>6 DEF RebuildIndex, CallTo, LedgerReplacesRows, CleanupOnce, documents
  <2>7. CASE Finish(c)
    BY <2>7
       DEF Finish, CallTo, TypeOK, LedgerReplacesRows, CleanupIsLocked, CleanupOnce,
       Requested, documents
  <2>8. CASE CallFails(c)
    BY <2>8 DEF CallFails, CallTo, CleanupOnce, documents
  <2>9. ASSUME NEW u \in Version, RemoveObjects(c, u) PROVE CleanupOnce'
    BY <2>9 DEF RemoveObjects, CleanupOnce, documents
  <2> QED
    BY <2>1, <2>2, <2>3, <2>4, <2>5, <2>6, <2>7, <2>8, <2>9, <1>2 DEF CallStep
<1>3. ASSUME NEW w \in Worker, Work(w) PROVE CleanupOnce'
  BY <1>3, WorkerFrame DEF CleanupOnce, purges
<1>4. ASSUME NEW k \in Conversation, AnswerStep(k) PROVE CleanupOnce'
  BY <1>4, AnswerFrame DEF CleanupOnce, documents, purges
<1>5. CASE UNCHANGED vars
  BY <1>5 DEF vars, documents, purges, CleanupOnce
<1> QED
  BY <1>1, <1>2, <1>3, <1>4, <1>5, StepCases

\* Gone conversations stay gone, and no answer cites in one that is gone.
LEMMA ScopedStep ==
    ASSUME TypeOK, LedgerReplacesRows, CleanupIsLocked, ScopedGone, [Next]_vars
    PROVE  ScopedGone'
<1>1. ASSUME NEW v \in Version, ImportStep(v) PROVE ScopedGone'
  BY <1>1, ImportFrame DEF ScopedGone, Requested, purges, chats
<1>2. ASSUME NEW c \in Call, CallStep(c) PROVE ScopedGone'
  <2>1. CASE AlreadyPurged(c)
    BY <2>1 DEF AlreadyPurged, ScopedGone, Requested, chats
  <2>2. CASE NotFound(c)
    BY <2>2 DEF NotFound, ScopedGone, Requested
  <2>3. CASE DeleteRows(c)
    BY <2>3, PurgeAssumption DEF DeleteRows, Related, ScopedGone
  <2>4. CASE Resume(c)
    BY <2>4 DEF Resume, ScopedGone, Requested, chats
  <2>5. CASE BeginCleanup(c)
    BY <2>5 DEF BeginCleanup, CleanupIsLocked, ScopedGone, chats
  <2>6. CASE RebuildIndex(c)
    BY <2>6 DEF RebuildIndex, ScopedGone, Requested, chats
  <2>7. CASE Finish(c)
    BY <2>7 DEF Finish, CleanupIsLocked, ScopedGone, Requested, chats
  <2>8. CASE CallFails(c)
    BY <2>8 DEF CallFails, ScopedGone, Requested, chats
  <2>9. ASSUME NEW u \in Version, RemoveObjects(c, u) PROVE ScopedGone'
    BY <2>9 DEF RemoveObjects, ScopedGone, Requested, chats
  <2> QED
    BY <2>1, <2>2, <2>3, <2>4, <2>5, <2>6, <2>7, <2>8, <2>9, <1>2 DEF CallStep
<1>3. ASSUME NEW w \in Worker, Work(w) PROVE ScopedGone'
  BY <1>3, WorkerFrame DEF ScopedGone, Requested, purges, chats
<1>4. ASSUME NEW k \in Conversation, AnswerStep(k) PROVE ScopedGone'
  BY <1>4
     DEF AnswerStep, Retrieve, CompleteAnswer, DropAnswer, ScopedGone, Requested,
     purges
<1>5. CASE UNCHANGED vars
  BY <1>5 DEF vars, purges, chats, ScopedGone, Requested
<1> QED
  BY <1>1, <1>2, <1>3, <1>4, <1>5, StepCases

\* Of a version without a row, no worker step unsettles the objects: its
\* transactions fail, and the purge that took the row has been requested.
LEMMA StaysSettled ==
    ASSUME TypeOK, WorkersHaveTargets, LedgerReplacesRows,
           NEW w \in Worker, Work(w),
           NEW v \in Version, v \notin rows, Settled(v)
    PROVE  Settled(v)'
<1>1. CASE LoadJob(w)
  BY <1>1 DEF LoadJob, Leave, TypeOK, LedgerReplacesRows, Settled, Guarded
<1>2. CASE CheckPurge(w)
  BY <1>2 DEF CheckPurge, Leave, Discard, TypeOK, LedgerReplacesRows, Settled, Guarded
<1>3. CASE StartParserRun(w)
  BY <1>3 DEF StartParserRun, Commits, LedgerReplacesRows, Settled, Guarded
<1>4. CASE LeaveEarly(w)
  BY <1>4 DEF LeaveEarly, Leave, Settled, Guarded
<1>5. CASE EnterTry(w)
  BY <1>5 DEF EnterTry, GoTo, Settled, Guarded
<1>6. CASE Inspect(w)
  BY <1>6 DEF Inspect, GoTo, Settled, Guarded
<1>7. CASE MakeDirectory(w)
  BY <1>7 DEF MakeDirectory, GoTo, TypeOK, Settled, Guarded
<1>8. CASE AdvanceJob(w)
  BY <1>8 DEF AdvanceJob, Commits, LedgerReplacesRows, Settled, Guarded
<1>9. CASE FinishCancelled(w)
  BY <1>9 DEF FinishCancelled, Commits, LedgerReplacesRows, Settled, Guarded
<1>10. CASE PersistParsed(w)
  BY <1>10 DEF PersistParsed, Commits, LedgerReplacesRows, Settled, Guarded
<1>11. CASE Raise(w)
  BY <1>11 DEF Raise, GoTo, Settled, Guarded
<1>12. CASE HandleError(w)
  BY <1>12 DEF HandleError, Leave, Discard, LedgerReplacesRows, Settled
<1>13. CASE CrashWorker(w)
  BY <1>13 DEF CrashWorker, Leave, Settled
<1>14. ASSUME NEW u \in Version, Claim(w, u) PROVE Settled(v)'
  BY <1>14 DEF Claim, Settled, Guarded
<1> QED
  BY <1>1, <1>2, <1>3, <1>4, <1>5, <1>6, <1>7, <1>8, <1>9, <1>10, <1>11, <1>12, <1>13, <1>14
     DEF Work, WorkerStep

\* What a cleanup is through with stays settled.
LEMMA ProgressStep ==
    ASSUME TypeOK, WorkersHaveTargets, LedgerReplacesRows,
           CleanupIsLocked, CleanupProgress, [Next]_vars
    PROVE  CleanupProgress'
<1>1. ASSUME NEW v \in Version, ImportStep(v) PROVE CleanupProgress'
  BY <1>1, PurgeAssumption
     DEF CleanupProgress, CleanupIsLocked, Writable, purges, ImportStep, Import,
     ImportRolledBack
<1>2. ASSUME NEW c \in Call, CallStep(c) PROVE CleanupProgress'
  <2>1. CASE AlreadyPurged(c)
    BY <2>1 DEF AlreadyPurged, CallTo, CleanupProgress, Settled, workers
  <2>2. CASE NotFound(c)
    BY <2>2 DEF NotFound, CallTo, CleanupProgress, Settled, workers
  <2>3. CASE DeleteRows(c)
    BY <2>3, PurgeAssumption
       DEF DeleteRows, CallTo, CleanupProgress, CleanupIsLocked, Writable
  <2>4. CASE Resume(c)
    BY <2>4 DEF Resume, CallTo, CleanupProgress, Settled, workers
  <2>5. CASE BeginCleanup(c)
    BY <2>5 DEF BeginCleanup, CallTo, TypeOK, CleanupProgress, Settled, workers
  <2>6. CASE RebuildIndex(c)
    BY <2>6 DEF RebuildIndex, CallTo, TypeOK, CleanupProgress, Settled, workers
  <2>7. CASE Finish(c)
    BY <2>7 DEF Finish, CallTo, CleanupProgress, Settled, workers
  <2>8. CASE CallFails(c)
    BY <2>8 DEF CallFails, CallTo, CleanupProgress, Settled, workers
  <2>9. ASSUME NEW u \in Version, RemoveObjects(c, u) PROVE CleanupProgress'
    BY <2>9 DEF RemoveObjects, TypeOK, CleanupProgress, Settled, workers
  <2> QED
    BY <2>1, <2>2, <2>3, <2>4, <2>5, <2>6, <2>7, <2>8, <2>9, <1>2 DEF CallStep
<1>3. ASSUME NEW w \in Worker, Work(w) PROVE CleanupProgress'
  BY <1>3, WorkerFrame, StaysSettled DEF CleanupProgress, LedgerReplacesRows, purges
<1>4. ASSUME NEW k \in Conversation, AnswerStep(k) PROVE CleanupProgress'
  BY <1>4, AnswerFrame DEF CleanupProgress, Settled, purges, workers
<1>5. CASE UNCHANGED vars
  BY <1>5 DEF vars, purges, workers, CleanupProgress, Settled
<1> QED
  BY <1>1, <1>2, <1>3, <1>4, <1>5, StepCases

\* No step leaves an object behind.
LEMMA SettledStep ==
    ASSUME TypeOK, WorkersHaveTargets, LedgerReplacesRows,
           CleanupIsLocked, CleanupProgress, ObjectsSettled, [Next]_vars
    PROVE  ObjectsSettled'
<1>1. ASSUME NEW v \in Version, ImportStep(v) PROVE ObjectsSettled'
  BY <1>1
     DEF ObjectsSettled, Settled, purges, workers, ImportStep, Import, ImportRolledBack
<1>2. ASSUME NEW c \in Call, CallStep(c) PROVE ObjectsSettled'
  <2>1. CASE AlreadyPurged(c)
    BY <2>1 DEF AlreadyPurged, ObjectsSettled, Settled, documents, workers
  <2>2. CASE NotFound(c)
    BY <2>2 DEF NotFound, ObjectsSettled, Settled, documents, workers
  <2>3. CASE DeleteRows(c)
    BY <2>3 DEF DeleteRows, LedgerReplacesRows, ObjectsSettled, Settled, workers
  <2>4. CASE Resume(c)
    BY <2>4 DEF Resume, ObjectsSettled, Settled, documents, workers
  <2>5. CASE BeginCleanup(c)
    BY <2>5 DEF BeginCleanup, ObjectsSettled, Settled, documents, workers
  <2>6. CASE RebuildIndex(c)
    BY <2>6 DEF RebuildIndex, ObjectsSettled, Settled, documents, workers
  <2>7. CASE Finish(c)
    BY <2>7
       DEF Finish, CleanupProgress, CleanupIsLocked, ObjectsSettled, Settled,
       documents, workers
  <2>8. CASE CallFails(c)
    BY <2>8 DEF CallFails, ObjectsSettled, Settled, documents, workers
  <2>9. ASSUME NEW u \in Version, RemoveObjects(c, u) PROVE ObjectsSettled'
    BY <2>9 DEF RemoveObjects, ObjectsSettled, Settled, documents, workers
  <2> QED
    BY <2>1, <2>2, <2>3, <2>4, <2>5, <2>6, <2>7, <2>8, <2>9, <1>2 DEF CallStep
<1>3. ASSUME NEW w \in Worker, Work(w) PROVE ObjectsSettled'
  BY <1>3, WorkerFrame, StaysSettled DEF ObjectsSettled, purges
<1>4. ASSUME NEW k \in Conversation, AnswerStep(k) PROVE ObjectsSettled'
  BY <1>4, AnswerFrame DEF ObjectsSettled, Settled, documents, purges, workers
<1>5. CASE UNCHANGED vars
  BY <1>5 DEF vars, documents, purges, workers, ObjectsSettled, Settled
<1> QED
  BY <1>1, <1>2, <1>3, <1>4, <1>5, StepCases

-----------------------------------------------------------------------------
LEMMA InvInit == Init => PurgeInv
<1> SUFFICES ASSUME Init PROVE PurgeInv
  OBVIOUS
<1>1. TypeOK /\ WorkersHaveTargets
  BY DEF Init, TypeOK, WorkersHaveTargets
<1>2. LedgerReplacesRows /\ ScopedGone
  BY DEF Init, LedgerReplacesRows, ScopedGone, Requested
<1>3. CleanupIsLocked /\ CleanupProgress /\ CleanupOnce
  BY DEF Init, CleanupIsLocked, CleanupProgress, CleanupOnce
<1>4. ObjectsSettled
  BY DEF Init, ObjectsSettled, Settled
<1> QED
  BY <1>1, <1>2, <1>3, <1>4 DEF PurgeInv

LEMMA InvNext == PurgeInv /\ [Next]_vars => PurgeInv'
  BY TypeStep, TargetsStep, LedgerStep, LockStep, ProgressStep, SettledStep, OnceStep,
     ScopedStep DEF PurgeInv

\* The strengthening holds in every reachable state.
THEOREM PurgeInvariance == Spec => []PurgeInv
  BY InvInit, InvNext, PTL DEF Spec

\* The state of purge, ingestion and answers stays well formed; in particular
\* content is only ever indexed for versions that have a row.
THEOREM PurgeTypeCorrect == Spec => []TypeOK
<1>1. PurgeInv => TypeOK
  BY DEF PurgeInv
<1> QED
  BY <1>1, PurgeInvariance, PTL

\* No order of uploads, purges, ingestion steps and failures leaks the stored
\* objects of a version that no fault struck.
THEOREM NoObjectLeaks == Spec => []ObjectsAreAccounted
<1>1. PurgeInv => ObjectsAreAccounted
  BY DEF PurgeInv, ObjectsSettled, Settled, ObjectsAreAccounted, Orphan
<1> QED
  BY <1>1, PurgeInvariance, PTL

\* One call reports the cleanup, whatever number of calls race or retry.
THEOREM CleanupIsDoneOnce == Spec => []CleanupOnce
<1>1. PurgeInv => CleanupOnce
  BY DEF PurgeInv
<1> QED
  BY <1>1, PurgeInvariance, PTL

\* A conversation about the document keeps no citation of it, and gets none.
THEOREM PurgeReachesConversations == Spec => []ScopedConversationsForget
<1>1. PurgeInv => ScopedConversationsForget
  BY DEF PurgeInv, ScopedGone, ScopedConversationsForget
<1> QED
  BY <1>1, PurgeInvariance, PTL
====

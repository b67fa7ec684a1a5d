# TLA+ models of the QBR insight agent

The repository is a question-answering service over PowerPoint presentations.
One API process and one or more workers share a SQLite database and a directory
of objects. Its hard behaviour is in two places. The processes hand work to each
other through rows of the database: leases, heartbeats, retries, cancellations,
deletions, and streams that poll for events. And an answer is made by a pipeline
whose model calls may fail or say anything, between deterministic calculations
that must not be wrong. This directory models both, checks them with TLC on
small instances, and proves most of the invariants that the runs check with TLAPS,
for every value of the constants.

Paths below are relative to `packages/qbr_core/` unless they start at the root.

## 1. Inventory

| Component | State | Operations | Interacts with | Hard parts | What makes it correct |
|---|---|---|---|---|---|
| Leases (`foundation/leases.py`) | `lease_owner`, `lease_expires_at` of a queue row | expiry, heartbeat thread | both queues | missed beats, waits for the write lock, equal owner strings | a live worker is never overtaken |
| Answer-run queue (`application/run_store.py`, `answer_runs.py`, `qa_service.py`) | `runs`, `run_events`, `messages`, `citations` | ask, claim, prepare, complete, fail, delete | API, workers, purge | reclaim, crash in the last attempt, removal under a running worker | one outcome, recorded once and everywhere the same |
| Answer stream (`apps/api/routes/conversations.py`, `results.py`) | cursor of the client | poll, resume | reads the queue's rows | two reads, a commit between them | it ends, and only when the run is over |
| Ingestion queue (`application/ingestion.py`, `persistence.py`) | `ingestion_jobs`, `parser_runs`, `documents.status`, active parser run | import, claim, parse steps, persist, fail, cancel | API, workers | cancellation and retries at any point, unfenced updates | the active parse is the reported one, status and stage agree |
| Job control (`application/resources.py`) | the same rows | cancel, retry, soft delete | ingestion | races with the worker | a job moves along its state machine |
| Job stream (`apps/api/routes/jobs.py`) | cursor | poll | job events | no status test, old terminal events after a retry | it ends |
| Purge (`application/purge.py`) | `document_purges`, files | two-phase removal, resume | workers, index, conversations | crash between phases, files written meanwhile | nothing of the document stays |
| Conversations (`conversations/`) | snapshots, summaries | snapshot at ask, refresh after an answer | queue | refresh races with asks and removals | a run sees the history it was asked with |
| Vector index (`retrieval/vector_store.py`) | embeddings, index file, manifest, cache per process | index, rebuild, search | ingestion, purge | two processes, stale cache, lock order | a search never uses a chunk that was removed |
| Planning (`planning/`) | none | plan of a question, merge with a model's plan | pipeline | a model that fails or misleads | the question itself is always searched for |
| Retrieval (`retrieval/engine.py`, `ranking.py`, `reranking.py`) | none | lanes, fusion, filter, reranker, diversity | index, providers | any remote call fails, limits at each stage | degrades, repeats nothing, starves no document |
| Evidence (`retrieval/evidence.py`, `coverage.py`) | none | quotes within budgets, coverage of the contract | engine | budgets of characters, atoms and atoms per slide | a quote supports what it is cited for |
| Analysis (`analysis/`) | none | chart and table calculations, chart analyzer, reconciliation, verification | engine, pipeline | direction of a comparison, totals among members, tolerances, layouts | a stated figure is right, a wrong claim is caught |
| Answer pipeline (`application/answer_runs.py`) | none until `complete` | plan, evidence, draft, polish, verify, adequacy, one retry | everything above | every call fails or lies, two passes mix | what is persisted is grounded in what is persisted with it |
| Library content (`application/persistence.py`, `resources.py`) | documents, versions, elements, chunks, review tasks | upload, parse, correct, dismiss, delete | search, reviewers | reviews of superseded parses | search shows the reviewed active parse |
| Login (`security/authentication.py`, `apps/api/routes/auth.py`) | failures per key | check, compare, record | requests in parallel | check and count are apart | failures are bounded |
| Providers, parsing, skills, archive checks | none | remote calls, reading of files | pipeline, upload | failures | modelled where they are called |
| Foundation (`foundation/`) | configuration, the database file | transactions | everything | write lock and `busy_timeout` | transactions are atomic |
| API routes, worker loop (`apps/`) | none | dispatch | everything | starvation of jobs by runs | the loop survives every exception |
| Web front end (`apps/web`) | page state | reads streams, reloads | API | stream ends early | shows what the database holds |
| Scripts, benchmarks, deployment | none | offline | - | - | - |

`PROJECT.json` lists the same components with their status, and the hazards of
the code, each at its line, with the properties that would catch it.

## 2. Modules

| Module | Models | Notes |
|---|---|---|
| `AnswerRuns` | answer-run queue, its workers, leases, removals | state and actions below |
| `RunLifecycle` | what the queue promises, without workers, leases or time | abstract specification of `AnswerRuns` |
| `AnswerRunsProofs` | theorems about `AnswerRuns` and `RunStream` | TLAPS |
| `RunStream` | the event stream of a run, composed with `AnswerRuns` | extends it: all of the queue's steps plus the client's |
| `IngestionJobs` | ingestion queue, job control, soft deletion | |
| `DocumentPurge` | purge of one document: ledger, rows, stored objects, the workers and answers it meets | |
| `IngestionJobsProofs` | theorems about `IngestionJobs` and `JobStream` | TLAPS |
| `DocumentPurgeProofs` | theorems about `DocumentPurge` | TLAPS |
| `JobStream` | the events of an ingestion job and their reader | extends `IngestionJobs` |
| `VectorIndex` | index file, manifest, caches and locks of two processes, the purge | |
| `DialogueContext` | snapshots of the conversation and the refresh of its summary | |
| `DialogueContextProofs` | theorems about `DialogueContext` | TLAPS |
| `DocumentContent` | versions, elements, chunks, search rows, review tasks | |
| `LoginLimiter` | the login route and its limiter | |
| `ComponentProofs` | theorems about `LoginLimiter`, `DocumentContent`, `Retrieval` and `VectorIndex` | TLAPS |
| `SequenceParts` | lists, what is kept of one, sorting, sums | recursive functions, for proofs |
| `SequencePartsProofs` | induction, recursion, lemmas about lists | TLAPS |
| `QueryPlanning` | deterministic plan and its merge with a model's | operators only |
| `Retrieval` | `search_plan` | |
| `EvidencePack` | quotes, budgets, coverage | operators only |
| `AnswerEngine` | the deterministic answer engine | extends `EvidencePack` |
| `ChartCalculations` | cubes of chart points and the calculator of charts | |
| `ChartAnalysis` | the chart analyzer, its fallback text, its demands on an answer | extends `ChartCalculations` and `Verification` |
| `TableReasoning` | the calculator of tables | |
| `Reconciliation` | the scope reconciler | extends `ChartCalculations` and `TableReasoning` |
| `Verification` | the verifier of generated answers, the repair of rejected ones | operators only |
| `AnswerPipeline` | the answer of one claimed run | extends `Verification` and `QueryPlanning` |
| `AnswerPipelineProofs` | theorems about `AnswerPipeline` and `AnswerEngine` | TLAPS |
| `CalculationProofs` | theorems about `TableReasoning`, `ChartCalculations`, `Reconciliation` and `ChartAnalysis` | TLAPS |
| `MCAnswerRuns`, `MCRunStream`, `MCIngestionJobs`, `MCDocumentPurge`, `MCAnswerPipeline`, `MCComponents` | instances for TLC | |

One action is one SQLite transaction, or what a process does between two
transactions. Transactions are `BEGIN IMMEDIATE`, so writers are serialized and
a transaction is one step. A read that the code makes in a separate transaction
is a step of its own (`ReadEvents`, `CheckStatus`, `Load`, `CheckCancel`).

**AnswerRuns.** `run`, `attempts`, `owner`, `ttl` are the columns of `runs`
(`absent` and `deleted` stand for a missing row); `message` and `citations` are
the assistant message and its citations; `log` is `run_events`; `conv` the
conversation. A worker has `pc`, `held` and `silence`.
`Ask` is `QAApplicationService.ask`; `Claim` is `claim_next`; `Prepare` is
`prepare`; `Complete` is `complete`; `Retry` and `GiveUp` are the two branches
of `fail`; `Vanished` is any write for a run that was removed, which a foreign
key or a missing row turns into an exception; `Abandon` is an error in `prepare`
or in `fail`, which records nothing; `Beat` is one pass of the heartbeat thread;
`DeleteConversation` and `PurgeConversation` remove a conversation with and
without the test for active runs. The pipeline between `prepare` and `complete`
is one step that returns or raises (`AnswerPipeline` opens it up); its progress events are left out, and the
citation, delta, warning and model events of `complete` are one event. The
repetition of `ask` with a known `client_message_id` changes nothing and is left
out. The summary refresh after `complete` is in `DialogueContext`.

**RunStream.** A client is `reading` the events, `checking` the status, or its
stream has `ended` (by the server), is `broken` (the run is gone) or `off`.

**IngestionJobs.** `job`, `stage`, `attempts`, `cancel`, `owner`, `ttl` are the
columns of `ingestion_jobs`; `parser` holds the statuses of the version's parser
runs, `active` the active one; `doc` and `deleted` are the document. The steps of
`process_job` are `Load`/`Refuse`, `StartParserRun`, three `CheckCancel`, two
`Advance`, `FinishCancelled`, `Persist` and `Fail`. The first check is outside
the `try` block, the others inside, so an error while finishing a cancellation is
recorded as a failure only there (`cancelling`, `aborting`). Purge requests
are the subject of `DocumentPurge`, job events of `JobStream`, deduplication and the
rows of a parse of `DocumentContent`; progress numbers are not modelled.

**DocumentPurge.** One document with its versions. `exists` and `rows` are the rows
of `documents` and `document_versions`, `indexed` the versions with parsed
content; `objects` are the version directories of the object store; `ledger` and
`listed` are `document_purges.status` and `version_ids_json`. A call of `purge`
runs `DeleteRows` or `Resume` (first transaction), then `BeginCleanup`,
`RemoveObjects` for each version, `RebuildIndex` and `Finish` (second transaction,
which holds the write lock, `lock`, all along); `AlreadyPurged` is the early return
of either, `CallFails` a lock timeout or the death of the process. The worker's
steps are those of `process_job` that touch files or look at purge requests; a
transaction of a worker commits only while its foreign keys hold (`Commits`), and
anything else raises. Which job may be claimed, and when it is cancelled, is left
open here: the module allows every claim of a version that has a row, also by two
workers at once, and so contains what `IngestionJobs` can do. `Retrieve` and
`CompleteAnswer` are an answer run that reads the document and cites it later.
`struck` is a history variable: the versions whose worker died in the `try` block,
whose `discard_version_objects` failed, or whose upload was rolled back after the
file was moved. Soft deletion and the contents of the index are not in the module.

**JobStream.** `jobLog` is `job_events`, `jobCursor` what the client has received.
Every transaction of `IngestionJobs` is taken together with the events it appends;
A client opens a stream at the start or where it left off, and the server
ends it by the type of the last event it sent, never by the status of the job.

**VectorIndex.** The rows of `chunk_embeddings` are the truth, the index file and the
manifest are derived, each process has a cache and one `RLock`. A call is a sequence
of steps: it takes the lock, compares rows, manifest and cache, loads or rebuilds,
writes file and manifest (a crash may come in between), and searches. The purge
rebuilds inside its write transaction, so it waits for the index lock while it holds
the write lock; an indexing batch waits the other way round, and its busy timeout
ends the wait.

**DialogueContext.** `AskTurn` stores the snapshot with the question (the latest
summary and the newest completed turns that fit the budget), attempts load it,
and a refresh is two transactions, `ReadRefresh` and the write, other steps in between.

**DocumentContent.** Uploads are deduplicated by digest; a parse writes elements,
chunks and full-text rows and opens review tasks for doubtful charts; reviewers
claim, correct and dismiss; a soft deletion hides a document. Each action is one
transaction.

**LoginLimiter.** A request is checked, its password compared, its failure recorded,
in three steps, among others of the same key; the window slides.

**Answer pipeline.** `AnswerPipeline` is `AnswerRunExecutor.execute` between `prepare`
and `complete`, in the steps `FindEvidence`, `Generate`, `Polish`, `VerifyDraft`,
`AssessAdequacy` and `CompleteAnswer`; what a model, a planner or the engine says is
any member of a small set, or an error. `QueryPlanning` is the plan it begins with,
`Verification` the tests every text must pass: citations, figures and their units and
scales, chart scope, causes, absolute negatives, layout, and the removal of rejected
claims. A text is a sequence of claims with what the tests look at.

**Engine, evidence, retrieval.** `AnswerEngine` searches, builds the pack of
`EvidencePack`, searches once more for what is missing, lets one calculator answer
and lists the evidence. What counts for coverage is the text of `_evidence_text`: the
quote with the titles (the facet of a tool's piece, the chart's, the slide's) and the
summary of its slide, while budgets and repetition look at the quote alone. A subject
has its names and its terms: one name, or half of the terms, makes a piece related.
`Retrieval` runs the lanes of every query, fuses, filters, reranks and spreads over
documents and slides, after a row of each provenance class when the question asks for
them. Texts are sets of words, or units with the marks the code's patterns give them.

**Calculations.** `ChartCalculations`, `TableReasoning`, `ChartAnalysis` and
`Reconciliation` translate the arithmetic and the choice of operation, scope, rows
and columns; a question is the cues it has and the labels it names. The code looks for
a label in several ways, and the models keep them apart: the place in the normalized
question and the place where it is spelt as the chart has it (`mentions` and `raw`, for
`_ordered_mentions` and `_comparison_order`), the place where a row's label is written
out and its span with or without conjunctions (`at` and `span`, for `question.find`
and `_label_span`), the place of a column's name and that of its aliases (`at` and
`near`), -1 or nothing where there is none. It also has several tests for a total row:
a row has the `marks` of its label, and each operation names the words it looks for
(`AnyTotal`, `ChineseTotal`, `SumTotal`).
Numbers are integers (percentages are pairs), so formats and rounding of the text
are left out. `ChartAnalysis` composes the analyzer with the verifier: the analyzer
says which series an answer may and must name, and the verifier's test runs on it.

**Time.** A lease is the number of ticks it still has. Three constants matter:
`LeaseTicks` (the lease), `LockWait` (how long a claim may wait for the write
lock after its expiry was computed) and `MaxSilence` (how long a live worker can
go without a successful refresh; it bounds `Tick`). Both queues are safe when
`MaxSilence + LockWait < LeaseTicks`, the assumption `LeaseSlack`. The code
enforces only that the heartbeat is shorter than the lease. With the defaults
(lease 120 s, heartbeat 30 s, lock wait 5 s) two failed beats in a row are
tolerated and the third is not: `(k + 1) * 35 + 5 < 120` for `k = 2`.

## 3. Runs

| Run | Question | Result |
|---|---|---|
| `AnswerRuns` | Do two workers, two questions, a crash, database errors and removals keep the outcome consistent, with leases kept? | passes; also checks the refinement of `RunLifecycle` |
| `AnswerRuns_stale_worker` | Does the repository validate every transition when a heartbeat is late? | violated: failed becomes completed |
| `AnswerRuns_lost_worker` | Is the task of a stopped worker always reclaimed? | violated in the last attempt |
| `RunStream` | Is the outcome in the database when a stream ends, is no stream polled for ever, is every question settled, even if workers share an owner string? | passes, liveness except for runs whose last worker vanished |
| `RunStream_race` | Has an ended stream sent its terminal event? | violated by a commit between the two reads |
| `Components` | One behaviour per component (next table): do the parts that do not interact keep their promises? | passes |
| `AnswerPipeline_unfinished_lines` | Is every unsupported universal negative rejected? | violated on a line without a full stop |
| `IngestionJobs` | Do cancellation, retry and deletion at any point keep job, stage, parse and document consistent, do jobs end, do cancellations survive failed attempts? | passes |
| `IngestionJobs_lapsed` | Do two versions of a document, with leases that run out under live workers, keep the active parse and the document's status right? | passes |
| `IngestionJobs_crash_loop` | Are the retries of ingestion bounded? | violated by crashes |
| `DocumentPurge` | Do racing and repeated purges, workers that write meanwhile, answers under way, crashes and failed removals lose objects, clean up twice or leave citations in a conversation about the document? | passes |
| `DocumentPurge_in_flight_answer` | Are the citations of a purged document gone from every conversation? | violated by an answer under way |

`Components` puts twelve components side by side: the variable `focus`, chosen at
the start, says which one moves. One run thus answers twelve questions at the cost
of the sum of their states, not of the product.

| Focus | Property | What it says |
|---|---|---|
| index | `SearchFindsIndexed` | a search that synchronized finds every embedded chunk, unless the other process replaced the index after this one had set its cache, or the files come from two rebuilds at the same time |
| index | `IndexLockComesFree` | the cycle of write lock and index lock is always broken |
| dialogue | `AttemptsShareContext` | every attempt works with the context frozen when the question was asked |
| dialogue | `SummariesAreFaithful` | a summary has no gap, no unfinished turn and every failure; a context tells each turn once, in order |
| dialogue | `NothingForgotten` | after a refresh, summary and history tell every completed turn, unless the tokens do not suffice |
| jobs | `JobEventsTellOutcome` | the last event ends a stream exactly when the job is over, as an error exactly when it failed |
| jobs | `JobStreamCloses` | every stream closes but one that resumes after the last event |
| content | `SearchShowsReviewedParse` | a search finds each element of the active parse once, with its correction |
| login | `LoginsBounded` | failures in the window and passwords under comparison exceed the limit at most by the other requests |
| charts | `CalculationsAreRight` | members add up to the net change, steps to the path, part and complement to the total; a change goes to the label before "than" where both are spelt as the chart has them, otherwise from the first one mentioned |
| tables | `TableAnswersAreRight` | for one of the tables, the sums, leaders, tests, shares, multiples and changes stated are those of the rows and years the question names, totals by the operation's own test aside, in the order in which the question spells them |
| analysis | `ChartAnalysesAreRight` | facts, fallback text and verifier demands, derived in three files, agree |
| reconciliation | `ReconciliationsAreProven` | "not contradictory" is said only when the sources differ, over the first value of each label they have, in nothing but the label that is explained |
| evidence | `EvidenceSupportsAnswer` | a supported facet has what it asks for in the quotes, titles and summaries it cites, every citation number names evidence the answer was made from, and no document of the plan loses its place to repetitions |
| retrieval | `RetrievalDegradesSafely` | failures of remote calls neither lose nor repeat results, and documents, slides and provenance classes get the places `_select_diverse` has for them |
| answers | `AnswersAreGrounded` | what is persisted of a model's answer is supported by the evidence persisted with it, in the chart scope and in the draft; degradations are warned of |

**What the other properties say.** `SingleExecutor`: at most one live worker executes
an item. `OutcomeAgrees`: run, message and citations tell the same outcome, and
citations are inserted once. `TerminalEventIsLast`: the log of a run has at most
one terminal event, and it is the last. `AttemptsAccounted`: starts, attempts and
failures agree. `NothingAfterRemoval`: a worker leaves nothing of a removed run.
`LegalTransitions`: no step leaves the state machine. `EndedStreamHasOutcome`:
the page that reloads after the stream never shows an unfinished answer.
`RecordsAgree`: status and stage of a job, the active parser run and the document
agree at any moment, though three tables and a dozen transactions write them.
`DocumentSettles`: a document does not stay processing. `ActiveParseIsReported`: the active parser
run is complete and is the one the job ended with. `CancelWins`: a cancellation
requested in a failed attempt is honoured in the next. `ObjectsAreAccounted`: a
stored object belongs to a version row, or to the ledger of an unfinished purge, or
to a worker that will discard it, or a fault struck its version. `CleanupOnce`: one
call reports a completed cleanup, and what the others answer is true.
`ScopedConversationsForget`: a conversation about the document does not cite it.

**Bounds.** Two workers are enough for every race between two holders of a row;
a third adds an executor only if two already coexist. Two runs make the order of
claims matter. `MaxAttempts = 2` has a retry and a last attempt. Leases of three
or four ticks with a silence of two are the tightest that leave room for one
missed beat; the runs `stale_worker` and `lapsed` break that relation on purpose.
`MaxCrashes`, `MaxFaults` and `MaxRetries` bound the environment, not the code;
`MaxFaults = 3` gives a job with two attempts room to exceed them by crashes alone.
In `IngestionJobs_lapsed` a single attempt keeps the space small: every second
executor comes from an expired lease, not from a retry. Its workers share an
owner string and are interchangeable, which is why symmetry is sound there; the
other runs of the queues have few workers and mostly check temporal properties, and
use none. `DocumentPurge` has two versions (one removal can fail while the other
succeeds), two workers (both can write in one version directory), two calls (a
second races the first or resumes it; a third meets the same ledger states) and two
conversations, one scoped; it checks invariants only, and versions, workers and
calls are interchangeable. Failures and crashes need no bound there: a call is used
once and the rest of the state is finite.

The bounds of `Components` are in the head of `MCComponents`. The stateful ones are
the smallest in which the hazard exists: an index older than another and not empty,
a turn too large for the budget, a stream over a failed and a retried attempt, a parse
that supersedes another with its review open, two logins that pass the check
together. The calculations get inputs that reach every operation and every way out,
each with the rows that a mistake would confuse: a total, a row of another group, a
repeated label, an empty one, a year more, a row of each kind of total. Labels are
spelt, nearly spelt or only matched; chart questions combine every list of up to three
labels with every cue in one wording, and the two operations that compare with the
other wordings: "than" at either place, a label that only the normalized text
has, labels spelt in the other order. Slides have titles and summaries with a number
or a period that their quotes lack. The pipeline's texts hold one defect each and the two
together that need it; the code's single retry needs no bound.

**Fairness.** Weak fairness of the worker loop (it polls for ever and survives
every exception, `apps/worker/main.py`), of the steps of an execution (every
model call has a timeout, so the pipeline returns or raises), of the heartbeat
thread, of the restart of a container (`restart: unless-stopped`), of the polling
loop of a stream, and of time. No fairness is assumed for users, for crashes, or
between `Complete` and `Retry`: a pipeline may raise every time. Ingestion assumes
that the worker comes to the jobs, that is, that answer runs do not arrive
without pause.

In `Components`, the calls of the index go on (the provider and the waits have
timeouts, files are local), and the job stream has the fairness of its queue. Both
ask nothing of a component that is not in focus.

**Deadlock** is checked in every run with time: `Tick` is always possible unless a
worker is due to beat. It is not in the purge runs, where everything may be done
when all calls are used and no row is left, nor in `Components` and
`AnswerPipeline_unfinished_lines`, whose computations end.

## 4. Proofs

`AnswerRunsProofs` proves, for any number of runs, workers, conversations and
any limits that satisfy `RunsAssumption`:

- without any condition on the leases: `TypeCorrect`, `AttemptsAreBounded`,
  `RemovalIsFinal`;
- under `LeaseSlack`: `OneExecutor`, `TransitionsAreLegal`, `OutcomesAgree`,
  `StreamsEndOnce`, and `QueueImplementsLifecycle` (the safety part of the
  refinement).

None of the properties is inductive by itself. The argument has four layers:

1. `CountInv`: starts in the log are counted by `attempts`; a removed run has no
   rows; a worker that holds a run holds one that was asked.
2. `LeaseInv`: if a live worker executes a run that is running, the lease covers
   what the worker may still stay silent: `ttl + silence + LockWait >= LeaseTicks`.
   With `LeaseSlack` and `silence <= MaxSilence` the lease has not expired, so
   `Claim` cannot take the run. This is where the unfenced `complete` and `fail`
   become harmless: the worker that calls them is the only one.
3. `RecordInv`: what message and citations say for each status.
4. `AnnouncedInv`: what the log ends with for each status.

`DocumentPurgeProofs` proves for any number of versions, workers, calls and
conversations, from `PurgeAssumption` (distinct null values) alone:
`PurgeTypeCorrect`, `NoObjectLeaks`, `CleanupIsDoneOnce` and
`PurgeReachesConversations`. The strengthening `PurgeInv` has these parts:

1. `LedgerReplacesRows`: the rows are gone once there is a ledger row, and
   until then every worker works on a version that has a row. So a worker that
   fails to commit finds the purge requested, and discards.
2. `CleanupIsLocked`: a call in its second transaction holds the lock over an
   unfinished ledger, so it is alone and the ledger is still as it read it.
3. `CleanupProgress`: while nothing failed, what the call is through with is
   settled: gone, or in the hands of a guarded worker, or struck. This is what lets
   `Finish` forget the versions. The lemma `StaysSettled` says that no worker step
   unsettles a version without a row: inside the `try` block every way out leads
   through a commit, which fails, or through a discard.
4. `ObjectsSettled`: the same for everything that is neither a row nor listed.

`AnswerRunsProofs` goes on to `RunStream`, which extends the queue by its readers:
`CursorsAreSound` without a condition, `EndedStreamsHaveOutcomes` under `LeaseSlack`.
The invariant `StreamInv` relates what a reader holds to the log: the log of a run
only grows while the run exists, so a cursor stays inside it (`EventsGrow`); and a
status that a reader saw as final stays final, because a terminal row is not claimed
and its executor is gone (`EndedStep`).

`IngestionJobsProofs`, for any number of jobs, documents, workers, retries and faults:

- without a condition on the leases: `ActiveParseReported` and `DocumentsSettle`.
  `ParseInv` says that a worker's parser run is its own, never the active one, and
  never that of another worker on the same job; so a worker that was overtaken can
  spoil its own run only. For the document it suffices that every step that ends a
  job writes the document's status in the same transaction.
- under `LeaseSlack`: `TypeCorrect`, `OneExecutor`, `TransitionsAreLegal`,
  `RecordsAlwaysAgree` and, for the events, `JobLogsTellOutcome`. `LeaseInv` is the
  argument of the answer queue. `CreditInv` bounds the attempts: a job that may be
  claimed, or runs without an executor, has one attempt to spare, which it was given
  when it was imported or retried, or by the fault that killed its worker. This is
  why the number of attempts is bounded by the faults and not by `MaxAttempts`.
  `LogInv` says that the last event of a job always tells its status, and every step
  that changes the status appends the event that tells it.

`ComponentProofs`, for any number of chunks, processes and threads:
`SearchesFindTheirRows`. `FrameInv` has types, locks and rows (`LockInv`: inside a
process one thread is past the lock; `PastInv`: a chunk that had a row has it or is
gone for good; `AloneInv`: of two rebuilds at once each knows it). `AgreeInv` is the
argument: file, manifest, caches, the results of a load and every rebuild under way
hold the rows they promise, or carry the mark of the two cases that the property
excepts. None of its four parts is inductive without the others.

`DialogueContextProofs`, for any number of turns, any budgets, token counts and list
limits: `AttemptsKeepTheirContext`, `SummariesStayFaithful` and `NothingIsForgotten`.
`SummaryInv` says of every row, and of every row a refresh has computed and not yet
written, that it covers the finished turns it goes through. Finished turns do not
change, so it does not matter how late a row is written. `ForgetInv` adds how far the
rows reach: `Settles` says of the turns a refresh saw that all but `MaxRecent` of them
are covered by a row, or by the one it is about to write. A refresh that finds itself
late writes nothing and has nothing to add. From it follows the property by counting:
the turns after the latest row are at most as many as a context takes along. Three
lemmas say what the code's loops do: `FirstOfEachHolds` and `KeepLastHolds` (a list
that is not full lost nothing), `SelectionHolds` (a selection that ended neither full
nor truncated has every turn it looked at).

`AnswerPipelineProofs`, for any questions, plans, evidence and answers of the models:
`AnswersStayGrounded`. `PipelineAssumption` says what the inputs are (lists and sets
of the right kind, a question that is not blank: `qa_service` strips and refuses
it), and nothing about what a model says. `PipelineInv` keeps, for each pass of the
pipeline, the relation of its plan to the question, of its evidence to the plan, and
of its source to the verdict: a pass has the source of a model only after the
verifier accepted its text as it is. The lemmas before it say what the plan, the
repair and the polisher do: the merged plan begins with the question (`QueryPlanFor`),
the repair cites and states nothing new, and a polished text whose figures are not
those of the draft is refused.
The proof also corrected the model: a fact is now a value with its unit, as
`_fact_markers_preserved` compares them; bare values let a polished text give a
percentage for an amount.

The same module proves `EvidenceSupports`, for any questions, searches and budgets:
`EvidenceSupportsAnswer`. `EngineAssumption` says that documents, clauses, rows, their
units and the rows of a calculation come in lists, and that limits and lengths are
natural numbers.
`EngineInv` is the property with `EngineTyped` and `PackHolds`, and the argument
follows the code: the selection of quotes gives every document of the plan its turn
before a second one of any; ranking and the contract choose among what was selected,
with its number; the second search hands the fairness on to its own, fewer rows; and
the text cites numbers of the pack only. That citations are a prefix of the pack
holds where a calculator names no piece twice, and the property says so.

`CalculationProofs`, for any tables and questions: `TablesAnswerRight`.
`TableAssumption` says that the places of a question are integers, the columns and
rows of a table lists, and numeric cells integers. The reasoner takes
the first operation that answers, so there is one lemma per operation (`GroupsHold`,
`ThresholdsHold`, `ExtremesHold`, `FiltersHold`, `RatiosHold`, `DifferencesHold`,
`LookupsHold`), which says that whatever it states is right for the table it was
given, and `OperationsHold` and `ReasonHolds` collect them. They rest on what
`SequencePartsProofs` says about lists: a kept part has what it keeps and its order,
a sorted list is a permutation in order, a sum over rows in another order is the same.
Writing the property as the theorem needs it showed that it had spoken of the
union of all tables, which lets a row of one stand for a row of another; it now asks
for one table in which all of the answer holds.

`SpannedHold` says that the rows of a grouped sum are the ones with a span, once each
and in their order: a row that is only matched is in neither sum, as in the code.

`CalculationsRight` says the same of the calculator of charts, for any questions and
charts, from `ChartAssumption`: years are natural numbers, no label is named twice in a
question, and a series is a list of integer points, not empty (`series_groups` drops
the others). Again one lemma for each operation of `ChartCalculator.analyze`
(`GroupChangesHold`, `CrossDimensionHolds`, `SharesHold`, `PathsHold`, `PeriodsHold`,
`ComparisonsHold`, `LookupPointHolds`), over what they share: `OrderHolds` (the
direction that `_comparison_order` takes from the raw question, between two labels
that it ordered by the normalized one), `PairsTotal` (the rows of
both years, with their signs, add up to the net change), `LeadingHolds` and
`LeadersHold` (the contributors named lead it), `YearOverYearHolds`, and
`StepsTotal` of `SequencePartsProofs` (steps add up to the way). `AnalyzeHolds` carries it
through the choice among the charts: a part of the answer is a part that one of them
gave. The proof made the model exact in two places. A dictionary by category has the
last point of a category, in the shares and in the attribution of a change. And a
complement is asked for a category of the whole chart, while shares are those of its
first ring; of a category that only another ring has, the code raises (`Raises`).

`ReconciliationsHold`, for any questions, tables and charts, from `ReconcileAssumption`
(the shapes of `TableAssumption` and `ChartAssumption`). `ColumnProjectionHolds`
and `SeriesProjectionHolds`, `CategoryProjectionHolds` trace every number of a
projection to the cell or the point it stands for, and show that no labelled member with
a number is passed over but the repetitions of a table label. `MatchesHold` says what one folding match accounts for, and
`BothWaysHold` that it may be either source that folds; `CloseEither` is why the
difference is told the same both ways. `ReconcileHolds` takes the best candidate.

`ChartAnalysesRight`, for any charts, requests and evidence, from `AnalysisAssumption`.
The analyzer derives three things from the same points, in three files, and the proof
follows each: `SameLinesHold` (a series that is not by time never counts as declining, so
the facts and the fallback text speak of the same lines), `TotalExplainedHolds` (over
`SharesAre`: when all bars have names of their own no share displaces another, and over
`TotalRises`: a sum that grew has a summand that did), and `ScopeEnforcedHolds` (the text
names every family, and a name of another chart is outside the scope).
`FallsHold` says that a run of falls begins no earlier than the peak. The proof found a
hypothesis missing: `_bar_total` keeps the last value of a period that occurs twice,
while the summary of a bar goes from its first point to its last, so that with a repeated
period a total may be told to rise where every bar is told to fall. The property now asks
for periods that occur once; the code does not check it.

Also in `ComponentProofs`: `LoginsStayBounded` for any finite set of requests and any limit
(the property with its types is inductive), and `SearchesShowReviewedParses` for any
number of uploads, parses and reviewers. There `ChunkInv` ties the full-text rows to
the chunks, `CorrectedInv` their content to the review tasks, and `PlacedInv` says
that whatever has rows belongs to a parse that exists, which is why a new parse meets
no rows of its own. And `RetrievalsDegradeSafely`, for any library, queries, scores and
limits (`RetrievalAssumption`: lists, and a search is for one row at least): `LanesInv`
says that a lane has something whenever the full-text search of its query had, whatever
the vector store did. The rest follows at the end: `RerankHolds` (any answer of the
reranker is a change of order), `RankedHolds` (an id names one candidate) and
`DiverseHolds`, which says of each pass of `_select_diverse` that it ends full without
a class twice or with every class there is (`TakeDistinct`, `TakeCovers`), after up to
three rows of the provenance classes, of which two may be more than a pass would have
taken (`BestHolds`, `ProvenanceHolds`).

**Induction over data.** The induction theorems of the library take an operator,
which the provers here cannot instantiate. `SequencePartsProofs` replaces them by two
lemmas about sets: `Induction` (a set that has 0 and, with each number, the next one,
has all up to n) and `Recursion` (steps on a set determine a function, so a recursive
function has a value). Everything the proofs say about a loop of the code goes
through them; the modules the proofs use write their loops as recursive functions, and
choose the kept places of a list by a set (`KeepAt`) and not by an operator.

**Assumptions.** `LeaseSlack` is the only one about the deployment, and the theorems
that need it name it. The others (`RunsAssumption`, `JobsAssumption`,
`PurgeAssumption`, `IndexAssumption`, `DialogueAssumption`, `ContentAssumption`,
`LoginAssumption`, `RetrievalAssumption`, `PipelineAssumption`, `EngineAssumption`,
`TableAssumption`, `ChartAssumption`, `ReconcileAssumption`, `AnalysisAssumption`) give the constants their types; TLC evaluates each of them on the
instances.

**Only model-checked.** The liveness properties (`StreamsClose`, `EventuallySettled`,
`CancelWins`, `JobsEnd`, `IndexLockComesFree`, `JobStreamCloses`), which need fairness
and ENABLED. Every invariant and every action property that a passing run
checks, and the refinement, is the property of a theorem.

## 5. Where code and documents differ

Six runs end in a violation; `PROJECT.json` quotes the sentence and the code.

1. A worker that was overtaken can overwrite a terminal outcome
   (`AnswerRuns_stale_worker`).
2. A run whose worker stops in the last attempt is never reclaimed
   (`AnswerRuns_lost_worker`). It stays "running", refuses the deletion of its
   conversation and keeps its stream open.
3. A stream can end without the terminal event (`RunStream_race`). The page
   reloads the conversation afterwards, and `EndedStreamHasOutcome` shows that it
   then finds the outcome.
4. Ingestion attempts are bounded only if the worker survives them
   (`IngestionJobs_crash_loop`).
5. An answer under way while a document is purged leaves citations of it in a
   conversation that is not scoped to the document
   (`DocumentPurge_in_flight_answer`).

6. A denial that nothing supports passes the verifier when it stands on a line
   without a full stop that is not the last one (`AnswerPipeline_unfinished_lines`).

The purge has one more limit, which `struck` marks: a worker that dies after a
purge completed leaves the files it wrote, and later purges do not look for them.

While modelling, more was seen that no document contradicts; the models say what the
code does.

- Pipeline: a repaired answer is not tested for absolute negatives again; slide
  numbers and titles count as allowed figures; the warnings of chart validation and
  of absolute negatives are not in the catalogue. A question of more than 300
  characters has no query of its own, and if it has no bridge either, a plan by a
  model raises.
- Library: a review of a superseded parse stays open, a new parse drops corrections,
  and two versions of one document are both searchable.
- Charts: a question for the complement of a category that only the second ring of a
  share chart has raises a KeyError, and the run fails; a composite answer keeps "[1]" in each part though its evidence is
  concatenated; a series with one point in the chosen chart counts as excluded; bars
  of one name collapse in the shares; a line of fewer than thirteen points that fell
  may be listed as improving; the largest decline is named even when no step
  declines; "A than B" is read as "from A to B" when one label is written with other
  characters than the chart has, as its place in the raw question is then -1.
- Tables: "lower by" and "higher by" are stated in the direction asked for, whatever
  the sign; a threshold skips rows it cannot parse and still says "all"; a row named
  "Total" may be the highest, or be counted by a filter, as the operations look for
  different words; a grouped sum leaves out rows that are named in other words; of two
  rows, the one named in other words counts as the first.
- Reconciliation: its tolerance of a half lets small values explain a difference,
  and the later values of a repeated table label, and rows and points without a label,
  are not compared.
- Evidence and retrieval: a number or a year in the title or the summary of a slide
  satisfies a requirement that its quote does not; up to three rows of the provenance
  classes may be of one document or slide; a confidence of zero counts as one; rows of a role that is
  rejected later use up candidate slots; after the second search the calculators see
  its rows only.
- Streams: a job stream resumed after its last event is polled for ever.

## 6. Not modelled

- Reading of files: PowerPoint parsing, vision, the chart extraction skill, archive
  checks. They turn data TLC cannot enumerate into other data; for the rest of the
  system they return or raise.
- The regular expressions and term tables that read a text (`planning/language.py`,
  `terminology.py`): what they find is an input of the models.
- Wording, number formats, prompts, token counts of providers.
- Configuration, identifiers, serialization, observability, the facade: stateless.
- The pages of the front end, beyond the reader of a stream.
- Scripts, benchmarks, deployment.

## 7. Plan

1. The state of the chat page, then the selection of skills.

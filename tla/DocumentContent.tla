---- MODULE DocumentContent ----
(***************************************************************************)
(* What the library holds: uploads become versions, a parse writes their   *)
(* elements, chunks and full-text rows and opens review tasks for doubtful *)
(* charts, and reviewers correct them.  Every action is one transaction;   *)
(* how a parse comes about is the business of IngestionJobs.  A slide is   *)
(* its parts with text, the blank ones, and its charts.                    *)
(***************************************************************************)
EXTENDS Naturals, Sequences, FiniteSets

CONSTANTS
    Digest,        \* contents of files
    ParsedSlide,   \* [parts, blank, charts, partial], charts a sequence of [sure, warned]
    Reviewer, NoReviewer,
    MaxVersions, MaxParses

ASSUME ContentAssumption ==
    /\ MaxVersions \in Nat /\ MaxParses \in Nat
    /\ NoReviewer \notin Reviewer

VARIABLES
    versions,   \* the uploads: [document, digest]; a document is the place of its first
    purgedDocs, hiddenDocs,
    parses,     \* the parses of each version; the last one persisted is active
    chunks,     \* [element, content, active]
    ftsRows,    \* chunk_fts: [element, content]
    reviews     \* per element with a task: [status, by, revisions]
contentVars == <<versions, purgedDocs, hiddenDocs, parses, chunks, ftsRows, reviews>>

ContentInit ==
    /\ versions = <<>> /\ purgedDocs = {} /\ hiddenDocs = {}
    /\ parses = [v \in 1 .. MaxVersions |-> <<>>]
    /\ chunks = {} /\ ftsRows = {}
    /\ reviews = <<>>

DocumentOf(v) == versions[v].document
Kept(v) == v \in DOMAIN versions /\ DocumentOf(v) \notin purgedDocs
Live(v) == Kept(v) /\ DocumentOf(v) \notin hiddenDocs
VersionOf(element) == element[1]
IsActive(element) == element[2] = Len(parses[VersionOf(element)])

ChunkRow(element, content, active) == [element |-> element, content |-> content, active |-> active]
FtsRow(element, content) == [element |-> element, content |-> content]

----------------------------------------------------------------------------

\* import_document with deduplication "new_version", or of new content; "reuse"
\* and "reject" change nothing when the content is there.
ImportFile(digest) ==
    LET same == {v \in DOMAIN versions : Live(v) /\ versions[v].digest = digest}
    IN /\ Len(versions) < MaxVersions
       /\ versions' = Append(versions,
             [digest |-> digest,
              document |-> IF same = {} THEN Len(versions) + 1
                           ELSE DocumentOf(CHOOSE v \in same : \A w \in same : w <= v)])
       /\ UNCHANGED <<purgedDocs, hiddenDocs, parses, chunks, ftsRows, reviews>>

\* The names of what a slide becomes: its parts and its charts in their order.
ChartName(i) == <<"chart", i>>
Charts(slide) == {ChartName(i) : i \in DOMAIN slide.charts}

\* A chart below 0.85, or with a warning, is for a reviewer.
Doubtful(chart) == ~chart.sure \/ chart.warned

\* persist_parsed: a first parse, or the retry of a partial one; blank elements
\* have no chunk, a chart always has one.
PersistParse(v, slide) ==
    LET run == Len(parses[v]) + 1
        Id(name) == <<v, run, name>>
        searchable == {Id(p) : p \in {<<part, 0>> : part \in slide.parts \ slide.blank} \cup Charts(slide)}
        tasks == {Id(ChartName(i)) : i \in {k \in DOMAIN slide.charts : Doubtful(slide.charts[k])}}
    IN /\ Kept(v)
       /\ run <= MaxParses
       /\ run > 1 => parses[v][run - 1].partial
       /\ parses' = [parses EXCEPT ![v] = Append(@, slide)]
       /\ chunks' = chunks \cup {ChunkRow(e, "parsed", TRUE) : e \in searchable}
       /\ ftsRows' = ftsRows \cup {FtsRow(e, "parsed") : e \in searchable}
       /\ reviews' = [e \in DOMAIN reviews \cup tasks |->
                        IF e \in tasks THEN [status |-> "pending", by |-> NoReviewer, revisions |-> 0]
                        ELSE reviews[e]]
       /\ UNCHANGED <<versions, purgedDocs, hiddenDocs>>

RowsOf(rows, doc) == {r \in rows : DocumentOf(VersionOf(r.element)) = doc}

HideDocument(doc) ==
    /\ \E v \in DOMAIN versions : DocumentOf(v) = doc /\ Live(v)
    /\ hiddenDocs' = hiddenDocs \cup {doc}
    /\ chunks' = (chunks \ RowsOf(chunks, doc))
                   \cup {ChunkRow(c.element, c.content, FALSE) : c \in RowsOf(chunks, doc)}
    /\ ftsRows' = ftsRows \ RowsOf(ftsRows, doc)
    /\ UNCHANGED <<versions, purgedDocs, parses, reviews>>

\* The rows go with the document.
PurgeRows(doc) ==
    /\ \E v \in DOMAIN versions : DocumentOf(v) = doc /\ Kept(v)
    /\ purgedDocs' = purgedDocs \cup {doc}
    /\ chunks' = chunks \ RowsOf(chunks, doc)
    /\ ftsRows' = ftsRows \ RowsOf(ftsRows, doc)
    /\ reviews' = [e \in {x \in DOMAIN reviews : DocumentOf(VersionOf(x)) # doc} |-> reviews[e]]
    /\ parses' = [v \in DOMAIN parses |-> IF v \in DOMAIN versions /\ DocumentOf(v) = doc THEN <<>> ELSE parses[v]]
    /\ UNCHANGED <<versions, hiddenDocs>>

----------------------------------------------------------------------------
(* Reviews.                                                                *)

\* A task that is not closed and nobody else's.
Open(element, user) ==
    /\ reviews[element].status \in {"pending", "in_review"}
    /\ reviews[element].by \in {NoReviewer, user}

\* claim_review looks at neither the document nor the active parse.
ClaimReview(element, user) ==
    /\ Open(element, user)
    /\ reviews' = [reviews EXCEPT ![element].status = "in_review", ![element].by = user]
    /\ UNCHANGED <<versions, purgedDocs, hiddenDocs, parses, chunks, ftsRows>>

Superseded_KeepsText(element) == {r \in ftsRows : r.element = element /\ r.content = "corrected"}
\* The full-text rows a correction takes away.
Superseded(element) == {r \in ftsRows : r.element = element}

ResolveReview(element, user) ==
    /\ Open(element, user)
    /\ Live(VersionOf(element))
    /\ reviews' = [reviews EXCEPT ![element] = [status |-> "resolved", by |-> user, revisions |-> @.revisions + 1]]
    /\ chunks' = {c \in chunks : c.element # element} \cup {ChunkRow(element, "corrected", TRUE)}
    /\ ftsRows' = (ftsRows \ Superseded(element)) \cup {FtsRow(element, "corrected")}
    /\ UNCHANGED <<versions, purgedDocs, hiddenDocs, parses>>

DismissReview(element, user) ==
    /\ Open(element, user)
    /\ Live(VersionOf(element))
    /\ reviews' = [reviews EXCEPT ![element].status = "dismissed", ![element].by = user]
    /\ UNCHANGED <<versions, purgedDocs, hiddenDocs, parses, chunks, ftsRows>>

ContentNext ==
    \/ \E digest \in Digest : ImportFile(digest)
    \/ \E v \in DOMAIN parses, slide \in ParsedSlide : PersistParse(v, slide)
    \/ \E doc \in DOMAIN versions : HideDocument(doc) \/ PurgeRows(doc)
    \/ \E element \in DOMAIN reviews, user \in Reviewer :
         ClaimReview(element, user) \/ ResolveReview(element, user) \/ DismissReview(element, user)

ContentSpec == ContentInit /\ [][ContentNext]_contentVars

----------------------------------------------------------------------------

\* The query of the full-text search: matching rows joined to active chunks of
\* the active parse of documents that are not deleted.
Found ==
    {r \in ftsRows :
        /\ \E c \in chunks : c.element = r.element /\ c.active
        /\ Live(VersionOf(r.element)) /\ IsActive(r.element)}

\* What a search finds of a document is the parse that is active, each element
\* once, with the correction of the reviewer who closed its task: whatever
\* uploads, retries, deletions and reviews came in between, and though reviews
\* of superseded parses stay open.
SearchShowsReviewedParse ==
    /\ \A r \in Found, q \in Found : r.element = q.element => r = q
    /\ \A r \in Found : r.content = "corrected" <=>
         r.element \in DOMAIN reviews /\ reviews[r.element].status = "resolved"
    /\ \A c \in chunks : c.active <=> FtsRow(c.element, c.content) \in ftsRows
    /\ \A e \in DOMAIN reviews : reviews[e].status \in {"resolved", "dismissed"} =>
         reviews[e].by # NoReviewer /\ reviews[e].revisions = IF reviews[e].status = "resolved" THEN 1 ELSE 0
====

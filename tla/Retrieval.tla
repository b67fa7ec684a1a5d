---- MODULE Retrieval ----
(***************************************************************************)
(* Retrieval of a plan: every query of the plan searches the full-text and *)
(* the vector lane, the results are fused, filtered by role, perhaps       *)
(* reranked by a remote model, and spread over documents and slides.  Any  *)
(* remote call may fail.  A chunk is [id, doc, slide, role, tokens, text,  *)
(* title, tells, bm25, similarity]: the terms that match it as tokens, as  *)
(* substrings and in the title of its document, the provenance classes it  *)
(* is of, and its scores; a query is [terms, weight, provenance]: whether  *)
(* its text asks what is disclosed and what is only simulated, tested or a *)
(* boundary, as that of the question may.  Scores are in ten-thousandths.  The limits of the two *)
(* SQL statements, 12 and 48 rows at least, are left out.                  *)
(***************************************************************************)
EXTENDS Integers, Sequences, SequencesExt, SequenceParts, FiniteSets, FiniteSetsExt

CONSTANTS
    Request,      \* [library, queries, scope, mode, topK, roles, excluded, numeric, provenance, reranker]
    LexicalK, VectorK, MinSimilarity, RrfK, LexicalWeight, VectorWeight,
    RerankK,
    NoRetrieval

\* Nothing is asked of scores, roles or limits; a search is for one row at least.
ASSUME RetrievalAssumption ==
    /\ LexicalK \in Nat /\ VectorK \in Nat /\ RerankK \in Nat
    /\ \A req \in Request :
         /\ IsList(req.library) /\ IsList(req.queries) /\ req.topK \in Nat \ {0}
         /\ req.provenance \in BOOLEAN /\ \A i \in DOMAIN req.queries : req.queries[i].provenance \in BOOLEAN

VARIABLES request, lanes, retrieved
retrievalVars == <<request, lanes, retrieved>>

Upto(rows, n) == SubSeq(rows, 1, Min({n, Len(rows)}))
Scoped(req) ==
    KeepAt(req.library, {i \in DOMAIN req.library : req.scope = {} \/ req.library[i].doc \in req.scope})

\* A list in the order of its scores, and of slides where they are the same.
Above(rows, score) ==
    {p \in ToSet(rows) \X ToSet(rows) :
        \/ score[p[1]] > score[p[2]]
        \/ score[p[1]] = score[p[2]] /\ p[1].slide < p[2].slide}
AboveById(rows, score) ==
    Above(rows, score) \cup {p \in ToSet(rows) \X ToSet(rows) :
        score[p[1]] = score[p[2]] /\ p[1].slide = p[2].slide /\ p[1].id < p[2].id}

----------------------------------------------------------------------------
(* The lanes of one query.                                                 *)

\* Token matches carry their bm25 score, substring matches a rank of 100.
LexicalScore(query, c) ==
    (IF query.terms \cap c.tokens # {} THEN c.bm25 ELSE -100)
      + 2 * Cardinality(query.terms \cap c.text) + Cardinality(query.terms \cap c.title)

LexicalSearch(req, query, limit) ==
    LET rows == Scoped(req)
        matches == KeepAt(rows, {i \in DOMAIN rows : query.terms \cap rows[i].text # {}})
        score == [c \in ToSet(matches) |-> LexicalScore(query, c)]
    IN Upto(Sorted(matches, Above(matches, score)), limit)

Nearer(rows) == {p \in ToSet(rows) \X ToSet(rows) : p[1].similarity > p[2].similarity}
VectorSearch(req, limit) ==
    LET rows == Scoped(req)
        near == KeepAt(rows, {i \in DOMAIN rows : rows[i].similarity >= MinSimilarity})
    IN Upto(Sorted(near, Nearer(near)), limit)

\* What a place in a list is worth.
Contribution(rows, weight, offset, c) ==
    LET at == {i \in DOMAIN rows : rows[i].id = c.id}
    IN IF at = {} THEN 0 ELSE weight \div (offset + Min(at))

Fuse(lexical, vector, limit) ==
    LET rows == lexical \o KeepAt(vector, {i \in DOMAIN vector : \A k \in DOMAIN lexical : lexical[k].id # vector[i].id})
        score == [c \in ToSet(rows) |-> Contribution(lexical, LexicalWeight, RrfK, c)
                                          + Contribution(vector, VectorWeight, RrfK, c)]
    IN Upto(Sorted(rows, AboveById(rows, score)), limit)

SelectLanes_VectorOnly(mode, lexical, vector, limit) ==
    CASE mode = "fts" -> lexical
      [] mode = "vector" -> vector
      [] mode = "hybrid" /\ (lexical = <<>> \/ vector = <<>>) -> vector
      [] OTHER -> Fuse(lexical, vector, limit)
\* The strategies: an empty vector lane leaves the lexical one.
SelectLanes(mode, lexical, vector, limit) ==
    CASE mode = "fts" \/ vector = <<>> -> lexical
      [] mode # "fts" /\ vector # <<>> /\ (mode = "vector" \/ lexical = <<>>) -> vector
      [] OTHER -> Fuse(lexical, vector, limit)

----------------------------------------------------------------------------
(* A row of each provenance class that is asked for, one row per document, *)
(* one per slide, the rest.                                                *)

ProvenanceClass == {"official", "monthly", "tables"}
PreferredSlides(class) ==
    CASE class = "official" -> {2, 6} [] class = "monthly" -> {3} [] class = "tables" -> {4}
\* take_best: the first row of a class, on a preferred slide when there is one.
TakeBest(taken, rows, topK, class) ==
    LET left == KeepAt(rows, {i \in DOMAIN rows : class \in rows[i].tells /\ \A k \in DOMAIN taken : taken[k].id # rows[i].id})
        best == KeepAt(left, {i \in DOMAIN left : left[i].slide \in PreferredSlides(class)}) \o left
    IN IF left = <<>> \/ Len(taken) >= topK THEN taken ELSE Append(taken, best[1])
ProvenanceRows(rows, topK) ==
    TakeBest(TakeBest(TakeBest(<<>>, rows, topK, "official"), rows, topK, "monthly"), rows, topK, "tables")

\* What no two rows of a pass may share.
ClassOf(c, pass) ==
    CASE pass = "document" -> c.doc
      [] pass = "slide" -> <<c.doc, c.slide>>
      [] pass = "rest" -> c.id
TakeRow(taken, c, topK, pass) ==
    IF /\ Len(taken) < topK
       /\ \A i \in DOMAIN taken : taken[i].id # c.id /\ ClassOf(taken[i], pass) # ClassOf(c, pass)
    THEN Append(taken, c) ELSE taken
Take(first, rows, topK, pass) ==
    LET taken[n \in 0 .. Len(rows)] ==
          IF n = 0 THEN first ELSE TakeRow(taken[n - 1], rows[n], topK, pass)
    IN taken[Len(rows)]

SelectDiverse(rows, topK, documents, provenance) ==
    LET chosen == IF provenance THEN ProvenanceRows(rows, topK) ELSE <<>>
        perDocument == IF documents > 1 THEN Take(chosen, rows, topK, "document") ELSE chosen
        perSlide == Take(perDocument, rows, topK, "slide")
    IN Take(perSlide, rows, topK, "rest")

----------------------------------------------------------------------------
(* search_plan.                                                            *)

RetrievalInit ==
    /\ request \in Request
    /\ lanes = <<>>
    /\ retrieved = NoRetrieval

CandidateK == Max({request.topK, Min({Max({LexicalK, VectorK}), 32})})

\* search for the next query; the vector store may raise.
SearchQuery ==
    LET query == request.queries[Len(lanes) + 1]
        lexical == LexicalSearch(request, query, Max({CandidateK, LexicalK}))
    IN /\ Len(lanes) < Len(request.queries)
       /\ \E vector \in {<<>>, IF request.mode = "fts" THEN <<>> ELSE VectorSearch(request, Max({CandidateK, VectorK}))} :
            lanes' = Append(lanes, SelectDiverse(
                       SelectLanes(request.mode, lexical, vector, Max({CandidateK, LexicalK})),
                       CandidateK, Cardinality(request.scope), query.provenance))
       /\ UNCHANGED <<request, retrieved>>

RoleBonus(role) ==
    CASE role = "business_fact" -> 4000 [] role = "management_insight" -> 8000
      [] role = "risk_signal" -> 10000 [] role \in {"table", "chart"} -> 6000
      [] role = "provenance" -> 3000 [] role = "methodology" -> -8000
      [] role = "boilerplate" -> -15000 [] OTHER -> 0

\* The terms of all queries that the chunk holds, up to 3 points.
TaskCompatibility(req, c) ==
    LET terms == UNION {req.queries[i].terms : i \in DOMAIN req.queries}
    IN RoleBonus(c.role) + Min({30000, 4500 * Cardinality(terms \cap c.text)})
         + IF req.numeric /\ c.role \in {"chart", "table"} THEN 15000 ELSE 0

Admissible(req, c) == c.role \notin req.excluded /\ (req.roles = {} \/ c.role \in req.roles)

\* The candidates of all queries, once each.
Candidates(found) ==
    LET rows == FlattenSeq(found)
    IN KeepAt(rows, {i \in DOMAIN rows : \A k \in 1 .. i - 1 : rows[k].id # rows[i].id})

TaskScore(req, found, c) ==
    TaskCompatibility(req, c)
      + FoldLeft(+, 0, [i \in DOMAIN found |-> Contribution(found[i], req.queries[i].weight, 1, c)])

TaskRanked(req, found) ==
    LET rows == Candidates(found)
        eligible == KeepAt(rows, {i \in DOMAIN rows : Admissible(req, rows[i])})
        score == [c \in ToSet(eligible) |-> TaskScore(req, found, c)]
    IN Sorted(eligible, AboveById(eligible, score))

\* What the reranker may answer: places and scores, not all, a place twice.
RerankAnswers(rows) ==
    UNION {[1 .. n -> [index : DOMAIN Upto(rows, RerankK), score : 1 .. 2]] : n \in 0 .. 2}

ByScore(scores) ==
    {p \in ToSet(scores) \X ToSet(scores) :
        p[1].score > p[2].score \/ (p[1].score = p[2].score /\ p[1].index < p[2].index)}

\* SemanticRerankPolicy.apply: an answer without scores raises, and the order stays.
Rerank(rows, scores) ==
    LET candidates == Upto(rows, RerankK)
        byScore == Sorted(scores, ByScore(scores))
        named == [i \in DOMAIN byScore |-> candidates[byScore[i].index]]
        unnamed == KeepAt(candidates, DOMAIN candidates \ {s.index : s \in ToSet(scores)})
    IN IF scores = <<>> THEN rows
       ELSE named \o unnamed \o SubSeq(rows, Len(candidates) + 1, Len(rows))

SelectEvidence ==
    /\ Len(lanes) = Len(request.queries)
    /\ retrieved = NoRetrieval
    /\ LET rows == TaskRanked(request, lanes)
       IN \E scores \in IF request.reranker /\ Len(rows) >= 2 THEN RerankAnswers(rows) ELSE {<<>>} :
            retrieved' = SelectDiverse(Rerank(rows, scores), request.topK, Cardinality(request.scope), request.provenance)
    /\ UNCHANGED <<request, lanes>>

RetrievalNext == SearchQuery \/ SelectEvidence
RetrievalSpec == RetrievalInit /\ [][RetrievalNext]_retrievalVars

----------------------------------------------------------------------------

\* The provenance classes, the documents and the slides of some chunks.
Told(cs) == ProvenanceClass \cap UNION {c.tells : c \in cs}
Documents(cs) == {c.doc : c \in cs}
Slides(cs) == {<<c.doc, c.slide>> : c \in cs}
FoundByText == UNION {ToSet(LexicalSearch(request, request.queries[i], LexicalK)) : i \in DOMAIN request.queries}
EligibleRows == ToSet(TaskRanked(request, lanes))
\* The places that the rows of the classes may take from the spreading.
Doubled == IF request.provenance THEN 2 ELSE 0

\* Retrieval degrades and never starves: whatever remote call fails, what the
\* full-text lane found leaves candidates; the result has as many of the eligible
\* ones as there is room for, once each, though a reranker may name a place twice;
\* of several documents in scope each one with a candidate is there, and no slide
\* is shown twice while another one is not shown at all - but for two places, when
\* the question asks for provenance: then a row of each class comes first, of
\* whatever document and slide, and no class that has a candidate is missing.
RetrievalDegradesSafely ==
    retrieved # NoRetrieval =>
        LET rows == ToSet(retrieved)
        IN /\ FoundByText # {} => Candidates(lanes) # <<>>
           /\ rows \subseteq EligibleRows
           /\ Cardinality(rows) = Len(retrieved)
           /\ Len(retrieved) = Min({request.topK, Cardinality(EligibleRows)})
           /\ Cardinality(request.scope) > 1 =>
                Cardinality(Documents(rows)) >= Min({request.topK - Doubled, Cardinality(Documents(EligibleRows))})
           /\ Slides(rows) # Slides(EligibleRows) => Cardinality(Slides(rows)) >= Cardinality(rows) - Doubled
           /\ request.provenance /\ request.topK >= 3 => Told(rows) = Told(EligibleRows)
====

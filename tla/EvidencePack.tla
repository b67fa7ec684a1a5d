---- MODULE EvidencePack ----
(***************************************************************************)
(* The evidence of an answer: retrieved rows become short quotes, at most  *)
(* MaxAtoms of them, and what the question asks for is a contract of       *)
(* facets that the quotes support or do not.  A text is a sequence of      *)
(* units, lines or sentences, [terms, marks, length]: its words, and which *)
(* marker lists or patterns of the code it matches ("digit", "risk",       *)
(* "source", "comparison", or "bare" for nothing but a number).  Scores    *)
(* are in tenths; infer_facet, which only labels a quote, is left out.  A  *)
(* row is [id, doc, slide, persisted, type, visual, score, confidence,     *)
(* units, titles, summary, heading], where the titles are those of its     *)
(* slide and chart and the label of a tool, a task [clauses, visual,       *)
(* documents, allowed, excluded, exact, profile, bridge], a subject        *)
(* [names, terms]: its aliases and parts, and its terms.                   *)
(***************************************************************************)
EXTENDS Integers, Sequences, SequencesExt, FiniteSets, FiniteSetsExt, SequenceParts

CONSTANTS MaxAtoms, MaxChars, PerSlide

MarksOf(units) == UNION {units[i].marks : i \in DOMAIN units}
TermsOf(units) == UNION {units[i].terms : i \in DOMAIN units}
LengthOf(units) == ListTotal([i \in DOMAIN units |-> units[i].length])

----------------------------------------------------------------------------
(* Roles and quotes.                                                       *)

ContentRole(row) ==
    LET marks == MarksOf(row.units)
    IN IF row.persisted # "" THEN row.persisted
       ELSE IF row.units = <<>> \/ "boilerplate" \in marks THEN "boilerplate"
       ELSE IF row.type = "notes" \/ "source" \in marks
            THEN IF "method" \in marks THEN "methodology" ELSE "provenance"
       ELSE IF row.type \in {"table", "chart"} THEN row.type
       ELSE IF "risk" \in marks THEN "risk_signal"
       ELSE IF "action" \in marks THEN "management_insight" ELSE "business_fact"

ContextRole == {"provenance", "methodology"}
TaskTerms(task) == UNION {task.clauses[i].terms : i \in DOMAIN task.clauses}
TaskMarks(task) == UNION {task.clauses[i].marks : i \in DOMAIN task.clauses}
Requests(task, role) == (IF role = "provenance" THEN "source" ELSE "method") \in TaskMarks(task)

UnitScore(unit, terms) ==
    10 * Cardinality(unit.terms \cap terms) + (IF "risk" \in unit.marks THEN 8 ELSE 0)
      + (IF "digit" \in unit.marks THEN 5 ELSE 0)
QuoteScore(quote, terms) == UnitScore([terms |-> TermsOf(quote), marks |-> MarksOf(quote)], terms)

\* The n best places of those given, when they score at all; else the first ones.
BestPlaces(units, places, terms, n, otherwise) ==
    LET ranked == SortSeq(SetToSortSeq(places, <), LAMBDA i, j : UnitScore(units[i], terms) > UnitScore(units[j], terms))
        best == {i \in ToSet(SubSeq(ranked, 1, Min({n, Len(ranked)}))) : UnitScore(units[i], terms) > 0}
    IN IF best # {} THEN best ELSE {i \in places : Cardinality({j \in places : j <= i}) <= otherwise}

\* A table keeps its header; a sentence the one before it, when that is short.
RelevantPlaces(row, terms) ==
    LET units == row.units
    IN IF row.type = "table" THEN {1} \cup BestPlaces(units, 2 .. Len(units), terms, 4, 3)
       ELSE LET best == BestPlaces(units, DOMAIN units, terms, 3, 2)
            IN best \cup {i \in DOMAIN units : i + 1 \in best /\ units[i].length <= 240}
Quote(row, terms) == KeepAt(row.units, RelevantPlaces(row, terms))

\* A row as it is ranked, with its quote and role.
Judge(task, row, quote, role) ==
    [row |-> row, quote |-> quote, role |-> role,
     score |-> row.score + QuoteScore(quote, TaskTerms(task))
                 + IF role \in {"risk_signal", "management_insight", "table", "chart"} THEN 10 ELSE 0]

\* What the builder rejects before it ranks.
Acceptable(task, e) ==
    /\ e.role \notin task.excluded /\ (task.allowed # {} => e.role \in task.allowed)
    /\ e.role \in ContextRole => Requests(task, e.role) /\ QuoteScore(e.quote, TaskTerms(task)) > 0
    /\ ~(e.row.visual /\ task.exact /\ "digit" \in MarksOf(e.row.units))
    /\ e.quote # <<>>
    /\ ~(e.role \in {"business_fact", "risk_signal", "management_insight"} /\ e.row.heading)

JudgedRows(task, rows) ==
    [i \in DOMAIN rows |-> Judge(task, rows[i], Quote(rows[i], TaskTerms(task)), ContentRole(rows[i]))]
RanksBefore(a, b) ==
    \/ a.score > b.score
    \/ a.score = b.score /\ (a.row.slide < b.row.slide \/ (a.row.slide = b.row.slide /\ a.row.id < b.row.id))
RankedRows(task, rows) ==
    LET judged == JudgedRows(task, rows)
        accepted == KeepAt(judged, {i \in DOMAIN judged : Acceptable(task, judged[i])})
    IN Sorted(accepted, {p \in ToSet(accepted) \X ToSet(accepted) : RanksBefore(p[1], p[2])})

----------------------------------------------------------------------------
(* Selection.                                                              *)

NearDuplicate(left, right) ==
    LET a == TermsOf(left) b == TermsOf(right)
    IN \/ left = right
       \/ /\ a # {} /\ b # {}
          /\ 100 * Cardinality(a \cap b) >= 88 * Max({Cardinality(a), Cardinality(b)})

PackChars(atoms) == ListTotal([i \in DOMAIN atoms |-> LengthOf(atoms[i].quote)])
OnSlide(atoms, row) == {i \in DOMAIN atoms : atoms[i].row.doc = row.doc /\ atoms[i].row.slide = row.slide}
Redundant(atoms, e) == \E i \in DOMAIN atoms : NearDuplicate(e.quote, atoms[i].quote)
Fits(atoms, e) == atoms = <<>> \/ PackChars(atoms) + LengthOf(e.quote) <= MaxChars

Addable(atoms, e) ==
    ~Redundant(atoms, e) /\ Cardinality(OnSlide(atoms, e.row)) < PerSlide /\ Fits(atoms, e)
AddAtom(atoms, e) == IF Len(atoms) < MaxAtoms /\ Addable(atoms, e) THEN Append(atoms, e) ELSE atoms

\* The first row of a document that can be added.
AddFirstOf(ranked, atoms, doc) ==
    LET fitting == {i \in DOMAIN ranked : ranked[i].row.doc = doc /\ Addable(atoms, ranked[i])}
    IN IF fitting = {} THEN atoms ELSE AddAtom(atoms, ranked[Min(fitting)])

\* One row of each document, then whatever fits.
AddFirsts(documents, ranked) ==
    LET added[n \in 0 .. Len(documents)] ==
          IF n = 0 THEN <<>> ELSE AddFirstOf(ranked, added[n - 1], documents[n])
    IN added[Len(documents)]
AddAtoms(atoms, ranked) ==
    LET added[n \in 0 .. Len(ranked)] == IF n = 0 THEN atoms ELSE AddAtom(added[n - 1], ranked[n])
    IN added[Len(ranked)]

SelectAtoms_RankedOnly(documents, ranked) == AddAtoms(<<>>, ranked)
SelectAtoms(documents, ranked) ==
    AddAtoms(IF Len(documents) > 1 THEN AddFirsts(documents, ranked) ELSE <<>>, ranked)

----------------------------------------------------------------------------
(* The contract: facets with validators.                                   *)

Validator == {"provenance", "attribution", "action", "definition", "comparison", "numeric", "visual_analysis"}
\* A clause matches the marker lists of its validators; a decision also asks for a number.
ValidatorsFor(task, marks) ==
    {"direct_support"} \cup (marks \cap Validator)
      \cup (IF "source" \in marks THEN {"provenance"} ELSE {})
      \cup (IF "decision" \in marks THEN {"numeric", "decision_criterion"} ELSE {})
      \cup (IF task.visual THEN {"visual_analysis"} ELSE {})

\* The clause that shares most terms with the requirement, the first of several:
\* an earlier clause that says all of it lends it its markers and its subjects.
ClosestClause(task, i) ==
    LET Shared(k) == Cardinality(task.clauses[i].terms \cap task.clauses[k].terms)
    IN Min({k \in DOMAIN task.clauses : \A j \in DOMAIN task.clauses : Shared(j) <= Shared(k)})

MinimumEvidence(task, validators) ==
    IF /\ validators = {"direct_support"} /\ Len(task.clauses) = 1
       /\ task.profile \in {"analytical", "deep"} \/ task.bridge
    THEN 2 ELSE 1

NoSubject == [names |-> {}, terms |-> {}]
Facet(task, clause, closest, validators, subject) ==
    [validators |-> validators, subject |-> subject, terms |-> clause.terms,
     periods |-> clause.periods \cup closest.periods, minimum |-> MinimumEvidence(task, validators),
     semantic |-> Len(task.clauses) > 1 /\ validators = {"direct_support"}]
FacetsBy(task, clause, closest, validators) ==
    LET subjects == IF validators \cap {"numeric", "decision_criterion"} # {} /\ closest.subjects # <<>> THEN closest.subjects
                    ELSE IF "attribution" \in validators THEN closest.segments ELSE <<>>
    IN IF subjects = <<>> THEN <<Facet(task, clause, closest, validators, NoSubject)>>
       ELSE [k \in DOMAIN subjects |-> Facet(task, clause, closest, validators, subjects[k])]
FacetsOf(task, clause, closest) ==
    FacetsBy(task, clause, closest, ValidatorsFor(task, clause.marks \cup closest.marks))

\* Facets of the same validators and subject are one; without a subject the
\* label tells them apart.
SameFacet(a, b) == a.validators = b.validators /\ a.subject = b.subject /\ (a.subject = NoSubject => a.terms = b.terms)
Contract(task) ==
    LET asked == FlattenSeq([i \in DOMAIN task.clauses |->
                     FacetsOf(task, task.clauses[i], task.clauses[ClosestClause(task, i)])])
    IN KeepAt(asked, {i \in DOMAIN asked : \A k \in 1 .. i - 1 : ~SameFacet(asked[k], asked[i])})

----------------------------------------------------------------------------
(* Coverage.  Evidence is a sequence of [row, quote].                      *)

\* _evidence_text: a quote is judged with the titles and the summary of its slide.
TextOf(e) == e.quote \o e.row.titles \o e.row.summary
TextTerms(evidence) == UNION {TermsOf(TextOf(e)) : e \in evidence}

\* One of the names of a subject, or half of its terms.
OnSubject(subject, terms) ==
    \/ subject.names \cap terms # {}
    \/ subject.terms # {} /\ 2 * Cardinality(subject.terms \cap terms) >= Cardinality(subject.terms)
Related(facet, e) ==
    IF facet.subject = NoSubject THEN facet.semantic => facet.terms \cap TermsOf(TextOf(e)) # {}
    ELSE \/ OnSubject(facet.subject, TermsOf(TextOf(e)))
         \/ "attribution" \in facet.validators /\ MarksOf(TextOf(e)) \cap {"segment", "comparison"} # {}

\* float(confidence or 1.0): a confidence of zero counts as full confidence.
Confidence(row) == IF row.confidence = 0 THEN 100 ELSE row.confidence
Reliable(facet, e) == Confidence(e.row) >= 65 /\ ~(e.row.visual /\ "numeric" \in facet.validators)

Satisfied(validator, evidence) ==
    LET marks == UNION {MarksOf(TextOf(e)) : e \in evidence}
        roles == {ContentRole(e.row) : e \in evidence}
        types == {e.row.type : e \in evidence}
    IN CASE validator = "direct_support" -> \E e \in evidence : TextOf(e) # <<>>
         [] validator = "numeric" -> "digit" \in marks
         [] validator = "comparison" -> types \cap {"calculation", "bundle"} # {} \/ marks \cap {"period", "comparison"} # {}
         [] validator = "attribution" -> "attribution" \in marks
         [] validator = "provenance" -> roles \cap ContextRole # {} \/ "source" \in marks
         [] validator = "action" -> "management_insight" \in roles \/ "action" \in marks
         [] validator = "definition" -> \E e \in evidence : \E i \in DOMAIN TextOf(e) : "bare" \notin TextOf(e)[i].marks
         [] validator = "decision_criterion" -> {"decision", "bound"} \subseteq marks
         [] validator = "visual_analysis" -> "bundle" \in types

ContextOf(e) == <<e.row.doc, e.row.slide>>
Missing_Uncounted(facet, evidence) ==
    {v \in facet.validators : ~Satisfied(v, evidence)}
      \cup (IF facet.periods \subseteq TextTerms(evidence) THEN {} ELSE {"explicit_constraints"})
Missing(facet, evidence) ==
    Missing_Uncounted(facet, evidence)
      \cup (IF Cardinality(evidence) < facet.minimum THEN {"evidence_breadth"} ELSE {})
      \cup (IF Cardinality({ContextOf(e) : e \in evidence}) < facet.minimum THEN {"context_breadth"} ELSE {})

Status(related, reliable, missing) ==
    CASE reliable # {} /\ missing = {} -> "supported"
      [] related # {} /\ reliable = {} -> "unreliable"
      [] reliable # {} /\ missing # {} -> "partial"
      [] related = {} -> "unsupported"
\* Places of the evidence: those on the subject, the reliable ones among them.
Item(facet, evidence, related, reliable) ==
    [facet |-> facet, status |-> Status(related, reliable, Missing(facet, {evidence[i] : i \in reliable})),
     cited |-> IF reliable # {} THEN reliable ELSE related]
FacetCoverage(facet, evidence) ==
    LET related == {i \in DOMAIN evidence : Related(facet, evidence[i])}
    IN Item(facet, evidence, related, {i \in related : Reliable(facet, evidence[i])})

Coverage(contract, evidence) == [i \in DOMAIN contract |-> FacetCoverage(contract[i], evidence)]
HasGaps(coverage) == \E i \in DOMAIN coverage : coverage[i].status # "supported"

\* tool_evidence_fully_answers: whether a calculation may be the whole answer.
\* The subject of the only facet may be said in other words.
SaidOtherwise(contract, evidence) ==
    LET found == contract[1].terms \cap TextTerms(ToSet(evidence))
    IN /\ Len(contract) = 1 /\ contract[1].subject # NoSubject
       /\ ~HasGaps(Coverage(<<[contract[1] EXCEPT !.subject = NoSubject]>>, evidence))
       /\ Cardinality(found) >= Min({2, Cardinality(contract[1].terms)})
ContractMet(contract, evidence) ==
    /\ \A i \in DOMAIN contract : contract[i].validators # {"direct_support"}
    /\ ~HasGaps(Coverage(contract, evidence)) \/ SaidOtherwise(contract, evidence)
ToolFullyAnswers(task, evidence, kind) == kind = "scope_reconciliation" \/ ContractMet(Contract(task), evidence)

----------------------------------------------------------------------------

AsEvidence(rows) == [i \in DOMAIN rows |-> [row |-> rows[i], quote |-> rows[i].units]]
DocumentsOf(evidence) == {evidence[i].row.doc : i \in DOMAIN evidence}

\* EvidencePackBuilder.build.
PackOf(task, atoms) ==
    [atoms |-> atoms, coverage |-> Coverage(Contract(task), atoms), missing |-> ToSet(task.documents) \ DocumentsOf(atoms),
     answerable |-> Len(atoms) >= IF task.profile = "deep" THEN 2 ELSE 1]
BuildPack(task, rows) == PackOf(task, SelectAtoms(task.documents, RankedRows(task, rows)))

\* with_additional_evidence: the same contract over the quotes and the result of a tool.
WithAdditionalEvidence(task, pack, evidence) ==
    [pack EXCEPT !.coverage = Coverage(Contract(task), pack.atoms \o evidence),
                 !.missing = @ \ DocumentsOf(evidence),
                 !.answerable = @ \/ evidence # <<>>]
====

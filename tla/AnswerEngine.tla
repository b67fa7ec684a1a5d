---- MODULE AnswerEngine ----
(***************************************************************************)
(* The deterministic answer engine (analysis/answering.py): it searches    *)
(* all documents and each one, builds the pack, searches again for what is *)
(* missing, lets one of the calculators answer, and lists the evidence,    *)
(* whose places are the citation numbers of the answer.                    *)
(***************************************************************************)
EXTENDS EvidencePack

CONSTANTS
    EngineTask,   \* tasks, with reconciles, visuals, provenance
    SearchResult, \* sequences of rows, what a search may find
    ToolResult,   \* [kind, slide, rows, fallback]: what a chart tool may say, slide <<>> or its place
    NoTool

\* Rows, units, clauses and documents come as lists, a clause has finitely many
\* terms, a text a length, and a slide room for a quote.
ASSUME EngineAssumption ==
    /\ MaxAtoms \in Nat /\ MaxChars \in Nat /\ PerSlide \in Nat \ {0}
    /\ \A task \in EngineTask :
         /\ IsList(task.documents) /\ IsList(task.clauses)
         /\ \A i \in DOMAIN task.clauses : /\ IsFiniteSet(task.clauses[i].terms)
                                         /\ IsList(task.clauses[i].subjects) /\ IsList(task.clauses[i].segments)
    /\ \A rows \in SearchResult :
         /\ IsList(rows)
         /\ \A i \in DOMAIN rows : /\ IsList(rows[i].units)
                                 /\ \A k \in DOMAIN rows[i].units : rows[i].units[k].length \in Nat
    /\ \A tool \in ToolResult : IsList(tool.rows)

VARIABLES engineTask, engine \* [at, rows, pack, tool, evidence, warnings, fallback]
engineVars == <<engineTask, engine>>

EngineInit ==
    /\ engineTask \in EngineTask
    /\ engine = [at |-> "search", rows |-> <<>>, pack |-> PackOf(engineTask, <<>>), tool |-> NoTool,
                 evidence |-> <<>>, warnings |-> {}, fallback |-> <<>>]

\* Of a row that both have, the one of the first.
Has(rows, row) == \E i \in DOMAIN rows : rows[i].id = row.id
MergeRows(rows, more) == rows \o KeepAt(more, {i \in DOMAIN more : ~Has(rows, more[i])})
InScope(rows, documents) == KeepAt(rows, {i \in DOMAIN rows : rows[i].doc \in ToSet(documents)})

\* search_plan for the scope, then a lane and the anchors of each document.
Search ==
    /\ engine.at = "search"
    /\ \E found \in SearchResult, lanes \in SearchResult :
         engine' = [engine EXCEPT !.at = "build",
                      !.rows = IF engineTask.documents = <<>> THEN found
                               ELSE MergeRows(found, InScope(lanes, engineTask.documents))]
    /\ UNCHANGED engineTask

Supported(coverage) == {i \in DOMAIN coverage : coverage[i].status = "supported"}
ShouldRetry(pack) ==
    /\ engineTask.profile = "deep"
    /\ \/ HasGaps(pack.coverage) /\ Cardinality(Supported(pack.coverage)) < 2
       \/ pack.missing # {}

BuildEvidence ==
    /\ engine.at = "build"
    /\ \E pack \in {BuildPack(engineTask, engine.rows)} :
         engine' = [engine EXCEPT !.pack = pack, !.at = IF ShouldRetry(pack) THEN "retry" ELSE "calculate"]
    /\ UNCHANGED engineTask

\* More documents, then more supported facets, then more quotes.
Better(a, b) ==
    LET Documents(p) == Cardinality(DocumentsOf(p.atoms))
        Facets(p) == Cardinality(Supported(p.coverage))
    IN \/ Documents(a) > Documents(b)
       \/ /\ Documents(a) = Documents(b)
          /\ Facets(a) > Facets(b) \/ (Facets(a) = Facets(b) /\ Len(a.atoms) > Len(b.atoms))

\* _retry_missing_evidence: a pack of both searches, where a row found again
\* has its new score; when it is better, the calculators get the rows of the
\* second search only.
RetryMissingEvidence ==
    /\ engine.at = "retry"
    /\ \E again \in SearchResult : \E pack \in {BuildPack(engineTask, MergeRows(again, engine.rows))} :
         engine' = [engine EXCEPT !.at = "calculate",
                         !.rows = IF Better(pack, engine.pack) THEN again ELSE @,
                         !.pack = IF Better(pack, engine.pack) THEN pack ELSE @]
    /\ UNCHANGED engineTask

\* A table of the retrieved rows, cited whole and without its slide's summary.
TableLabel == [terms |-> {"verified", "table", "calculation"}, marks |-> {}, length |-> 0]
TableResult(row) ==
    [kind |-> "table_calculation", slide |-> <<row.doc, row.slide>>, fallback |-> TRUE,
     rows |-> <<[row EXCEPT !.type = "calculation", !.titles = <<TableLabel>> \o @, !.summary = <<>>]>>]

\* Scope reconciliation when it is asked for, a table unless visuals are, a chart.
RunTools ==
    /\ engine.at = "calculate"
    /\ \E tool \in {NoTool} \cup ToolResult \cup
                   {TableResult(engine.rows[i]) : i \in {k \in DOMAIN engine.rows : engine.rows[k].type = "table"}} :
         /\ tool # NoTool => /\ tool.kind = "scope_reconciliation" => engineTask.reconciles
                             /\ tool.kind = "table_calculation" => ~engineTask.visuals
         /\ engine' = [engine EXCEPT !.at = "render", !.tool = tool,
                         !.pack = IF tool = NoTool THEN @
                                  ELSE WithAdditionalEvidence(engineTask, @, AsEvidence(tool.rows))]
    /\ UNCHANGED engineTask

\* _merge_evidence: the evidence of the calculation first; of the quotes, those
\* of its slide when it may be the whole answer.  Equal pieces are one.
Pieces(tool) == IF tool = NoTool THEN <<>> ELSE AsEvidence(tool.rows)
Repeats(evidence, i) ==
    \E k \in 1 .. i - 1 : evidence[k].row.id = evidence[i].row.id /\ evidence[k].quote = evidence[i].quote
Unrepeated(evidence) == KeepAt(evidence, {i \in DOMAIN evidence : ~Repeats(evidence, i)})
MergeEvidence_QuotesFirst(tool, pack, alone) == Unrepeated(pack.atoms \o Pieces(tool))
MergeEvidence(tool, pack, alone) ==
    Unrepeated(Pieces(tool) \o IF alone /\ tool.slide # <<>>
                               THEN KeepAt(pack.atoms, {i \in DOMAIN pack.atoms : ContextOf(pack.atoms[i]) = tool.slide})
                               ELSE pack.atoms)

\* _render_safe_fallback: [tool, cites, limits], the calculation's text or not,
\* the evidence quoted after it, five lines in all, and the gaps.
SafeFallback(tool, evidence, alone) ==
    LET quotable == KeepAt([i \in DOMAIN evidence |-> i],
                           {i \in DOMAIN evidence :
                              /\ i > Len(Pieces(tool)) /\ evidence[i].quote # <<>>
                              /\ ContentRole(evidence[i].row) \in ContextRole => engineTask.provenance})
        cited == SubSeq(quotable, 1, Min({IF tool = NoTool THEN 5 ELSE 4, Len(quotable)}))
    IN [tool |-> tool # NoTool, limits |-> evidence # <<>> /\ HasGaps(engine.pack.coverage),
        cites |-> IF evidence = <<>> \/ (alone /\ tool.fallback) THEN <<>>
                  ELSE IF tool = NoTool /\ cited = <<>> THEN <<1>> ELSE cited]

Render ==
    /\ engine.at = "render"
    /\ \E alone \in {engine.tool # NoTool /\ ToolFullyAnswers(engineTask, Pieces(engine.tool), engine.tool.kind)} :
       \E evidence \in {MergeEvidence(engine.tool, engine.pack, alone)} :
         engine' = [engine EXCEPT !.at = "done", !.evidence = evidence,
                      !.fallback = SafeFallback(engine.tool, evidence, alone),
                      !.warnings = IF ~engine.pack.answerable /\ engine.tool = NoTool THEN {"insufficient"}
                                   ELSE IF HasGaps(engine.pack.coverage) \/ engine.pack.missing # {}
                                   THEN {"partial"} ELSE {}]
    /\ UNCHANGED engineTask

EngineNext == Search \/ BuildEvidence \/ RetryMissingEvidence \/ RunTools \/ Render
EngineSpec == EngineInit /\ [][EngineNext]_engineVars

----------------------------------------------------------------------------

\* The pack is fair to the documents of the plan and fills its room: one that
\* has no quote has only rows that repeat a quote or do not fit (as long as there
\* is room for all documents), and a row is left out only when it repeats, when
\* its slide has its share, or when there is no room.
FairPack(documents, ranked, atoms) ==
    LET quoted == {atoms[i].row.id : i \in DOMAIN atoms}
        Unfit(e) == Redundant(atoms, e) \/ ~Fits(atoms, e)
    IN /\ Len(atoms) <= MaxAtoms
       /\ \A i \in DOMAIN ranked :
            \/ ranked[i].row.id \in quoted \/ Unfit(ranked[i])
            \/ Len(atoms) = MaxAtoms \/ Cardinality(OnSlide(atoms, ranked[i].row)) = PerSlide
       /\ Len(documents) \in 2 .. MaxAtoms =>
            \A doc \in ToSet(documents) :
              doc \in DocumentsOf(atoms) \/ \A i \in DOMAIN ranked : ranked[i].row.doc = doc => Unfit(ranked[i])

\* The evidence supports what the answer may claim: the pack is fair, a facet is
\* supported by what it cites, reliable pieces from enough slides and a number
\* in the quote, the titles or the slide's summary of one that is no vision
\* model's; the citations of a calculation, which count from [1], name its
\* evidence (if that does not repeat a piece), those of the fallback exist, and
\* what is missing is said, in the fallback as in the warnings.
EvidenceSupportsAnswer ==
    LET pack == engine.pack
        pieces == pack.atoms \o Pieces(engine.tool)
    IN engine.at = "done" =>
         /\ FairPack(engineTask.documents, RankedRows(engineTask, engine.rows), pack.atoms)
         /\ \A i \in Supported(pack.coverage) :
              LET item == pack.coverage[i]
              IN /\ \A k \in item.cited : Reliable(item.facet, pieces[k])
                 /\ Cardinality({ContextOf(pieces[k]) : k \in item.cited}) >= item.facet.minimum
                 /\ "numeric" \in item.facet.validators =>
                      \E k \in item.cited : ~pieces[k].row.visual /\ "digit" \in MarksOf(TextOf(pieces[k]))
         /\ (\A i \in DOMAIN Pieces(engine.tool) : ~Repeats(Pieces(engine.tool), i)) =>
              Pieces(engine.tool) = SubSeq(engine.evidence, 1, Len(Pieces(engine.tool)))
         /\ ToSet(engine.fallback.cites) \subseteq DOMAIN engine.evidence
         /\ engine.evidence # <<>> => engine.fallback.tool \/ engine.fallback.cites # <<>>
         /\ HasGaps(pack.coverage) =>
              engine.warnings # {} /\ (engine.evidence # <<>> => engine.fallback.limits)
====

---- MODULE MCComponents ----
(***************************************************************************)
(* The components that do not interact, side by side: a behaviour is one   *)
(* of the component "focus", the others stay as they are.  Their bounds:   *)
(*   index      two chunks, so that an index can be older than another and *)
(*              not empty; an API process whose reviews index and whose    *)
(*              purges rebuild, and a worker process that searches (its    *)
(*              indexing after a parse is a prefix of a search);           *)
(*   dialogue   three turns, one of them too large for the budget, lists   *)
(*              that overflow, a summary that hardly fits;                 *)
(*   jobs       one job, one worker, two attempts, a crash, a retry;       *)
(*   content    two uploads of one file, two parses, two reviewers;        *)
(*   login      three requests at once and a limit of two failures;        *)
(*   the rest   inputs that reach every operation and every way out.       *)
(***************************************************************************)
EXTENDS MCAnswerPipeline, VectorIndex, DialogueContext, JobStream, LoginLimiter, DocumentContent,
        ChartAnalysis, Reconciliation, AnswerEngine, Retrieval

----------------------------------------------------------------------------
(* Vector index.                                                           *)

CONSTANTS api, worker, review, answer, purge
IndexThreads == {review, answer}
HomeOf == [t \in {review, answer, purge} |-> IF t = answer THEN worker ELSE api]
DutyOf == [t \in IndexThreads |-> IF t = answer THEN {"search"} ELSE {"index"}]

(* Conversation.                                                           *)

CONSTANTS q1, q2, m1
TokensAsked == <<1, 1, 1>>
TokensAnswered == <<2, 5, 1>>
TurnTexts == <<q1, q2, q1>>
PlannedTexts == <<q1, q1, q1>>
ListLimits == [goals |-> 2, pending |-> 2, sources |-> 4]
ModelGoals == {[goals |-> <<>>, pending |-> <<>>], [goals |-> <<m1>>, pending |-> <<m1>>]}

(* Ingestion job.                                                          *)

CONSTANTS w1, o1, d1
JobDoc == [j \in Job |-> d1]
JobOwner == [w \in Worker |-> o1]

(* Library.                                                                *)

ParsedSlides ==
    {[parts |-> {"text", "notes"}, blank |-> {"notes"}, charts |-> <<[sure |-> TRUE, warned |-> TRUE]>>, partial |-> TRUE],
     [parts |-> {}, blank |-> {}, partial |-> FALSE,
      charts |-> <<[sure |-> FALSE, warned |-> FALSE], [sure |-> TRUE, warned |-> FALSE]>>]}

----------------------------------------------------------------------------
(* Charts: a table of years by market, and a line, a pie or a path.        *)

Months == <<"t1", "t2", "t3", "t4", "t5", "t6", "t7", "t8", "t9", "t10", "t11", "t12", "t13">>
LabelYear == [l \in {"2023", "2024", "n", "s", "w", "m", "o", "r", ""} \cup ToSet(Months) |->
                CASE l = "2023" -> 2023 [] l = "2024" -> 2024 [] l \in ToSet(Months) -> 2025 [] OTHER -> 0]
Point(c, y) == [cat |-> c, y |-> y]
Group(n, f, u, ps) == [name |-> n, family |-> f, unit |-> u, points |-> ps]
YearsChart == [slide |-> 1, boxed |-> TRUE, title |-> 0, titleYear |-> 0,
          series |-> <<Group("2023", "bar", "m", <<Point("n", 4), Point("s", 3)>>), Group("2024", "bar", "", <<Point("n", 9), Point("s", 1)>>)>>]
LineChart == [slide |-> 2, boxed |-> TRUE, title |-> 2, titleYear |-> 2024,
         series |-> <<Group("m", "line", "", <<Point("2023", 0), Point("2024", 5)>>)>>]
PieChart == [slide |-> 2, boxed |-> TRUE, title |-> 0, titleYear |-> 0, series |-> <<Group("w", "share", "", <<Point("n", 60), Point("s", 40)>>)>>]
RingChart == [slide |-> 3, boxed |-> FALSE, title |-> 0, titleYear |-> 0,
         series |-> <<Group("w", "share", "", <<Point("n", 5), Point("s", 3), Point("n", 4)>>), Group("s", "share", "", <<Point("m", 7)>>)>>]
PathChart == [slide |-> 1, boxed |-> FALSE, title |-> 0, titleYear |-> 0,
         series |-> <<Group("w", "bar", "", <<Point("n", 5), Point("m", 2), Point("s", 6)>>)>>]
ChartInputs == {<<YearsChart>>, <<LineChart>>, <<PieChart>>, <<PathChart>>, <<YearsChart, LineChart>>, <<LineChart, PieChart>>, <<YearsChart, PathChart, PieChart>>, <<RingChart>>}
NoOverlap == {}
ChartLabels == {"2023", "2024", "n", "s", "w", "m"}
\* The n-th label of the normalized question stands at 10 n of the raw one, or at
\* 40 - 10 n when it has an earlier spelling of its own, or only normalized at all.
AsIs == [raw |-> <<10, 20, 30>>, than |-> {}]
Wordings == {AsIs, [raw |-> <<10, 20, 30>>, than |-> {15}],
             [raw |-> <<10, 20, 30>>, than |-> {25}], [raw |-> <<-1, 20, 30>>, than |-> {15}],
             [raw |-> <<30, 20, 10>>, than |-> {25}]}
Mentions(counts) ==
    {s \in UNION {[1 .. n -> ChartLabels] : n \in counts} : \A i, j \in DOMAIN s : s[i] = s[j] => i = j}
ChartAsked(cues, mentions, wording) ==
    [cues |-> cues, mentions |-> mentions, than |-> wording.than,
     raw |-> [l \in ToSet(mentions) |-> wording.raw[CHOOSE i \in DOMAIN mentions : mentions[i] = l]]]
ChartQuestions ==
    {ChartAsked(c, m, AsIs) :
       c \in {{"change"}, {"driver"}, {"compare", "value"}, {"share", "complement", "pie"}, {"step"},
              {"change", "yoy"}, {"extreme", "adverse"}},
       m \in Mentions(0 .. 3)}
    \cup {ChartAsked(c, m, w) : c \in {{"change"}, {"compare", "value"}}, m \in Mentions(2 .. 3), w \in Wordings}

----------------------------------------------------------------------------
(* Chart analyses: bars that grow under a falling line, over six and over  *)
(* thirteen periods and with a gap, two lines, a pie and a path.           *)

Monthly(values) == [i \in DOMAIN values |-> Point(Months[i], values[i])]
AnalyzedChart(page, words, stacked, series) ==
    [slide |-> page, boxed |-> FALSE, title |-> 0, titleYear |-> 0, words |-> words, stacked |-> stacked, series |-> series]
OutputBars == AnalyzedChart(1, {"output"}, TRUE,
    <<Group("a", "bar", "", Monthly(<<3, 4, 4, 5, 6, 7>>)), Group("b", "bar", "", Monthly(<<2, 2, 2, 2, 2, 1>>))>>)
QualityLine == AnalyzedChart(1, {"quality"}, FALSE,
    <<Group("q", "line", "", Monthly(<<90, 95, 96, 96, 93, 90>>)), Group("p", "line", "", Monthly(<<1, 2, 2, 3, 4, 3>>))>>)
GappedBars == AnalyzedChart(2, {"output", "year"}, TRUE,
    <<Group("a", "bar", "", Monthly(<<5, 6, 7>>)), Group("c", "bar", "", <<Point("t2", 9), Point("t3", 4), Point("t4", 8)>>)>>)
YearLines == AnalyzedChart(3, {"year"}, FALSE,
    <<Group("q", "line", "", Monthly(<<9, 8, 8, 8, 9, 9, 9, 8, 9, 9, 9, 9, 7>>)), Group("u", "line", "", Monthly(<<4>>)),
      Group("v", "line", "", Monthly(<<0, 9, 9, 8, 8, 8>>))>>)
SharePie == AnalyzedChart(4, {"mix"}, FALSE, <<Group("w", "share", "", <<Point("n", 60), Point("s", 40)>>)>>)
CostPath == AnalyzedChart(5, {"path"}, FALSE, <<Group("w", "bar", "", <<Point("n", 5), Point("m", 2), Point("s", 6)>>)>>)
SingleBar == AnalyzedChart(6, {"output"}, FALSE, <<Group("a", "bar", "", Monthly(<<1, 2>>))>>)
AnalyzedCharts == {<<OutputBars, QualityLine>>, <<OutputBars, QualityLine, GappedBars>>, <<GappedBars, YearLines, SharePie>>,
                   <<SharePie, CostPath>>, <<CostPath, YearLines>>, <<SingleBar>>}
Said(counts, points, families) == [counts |-> counts, points |-> points, families |-> families]
ChartPlans ==
    [visuals : BOOLEAN, tokens : {{"output"}, {"quality", "q"}, {"year", "mix", "path"}, {"other"}},
     counts : {<<>>, <<2>>}, points : {<<>>, <<6>>, <<2>>}, families : {<<>>, <<"bar">>},
     said : {Said(<<>>, <<>>, <<>>), Said(<<1, 3, 60>>, <<3, 3, 130>>, <<"bar", "line">>)}]
PreferredPlaces == {[elements |-> {}, slides |-> {}], [elements |-> {2}, slides |-> {3}]}

----------------------------------------------------------------------------
(* Tables: sales with a total row, and limits to be judged.                *)

Column(name, year, role) == [name |-> name, year |-> year, role |-> role]
Cell(n) == <<[n |-> n, test |-> ""]>>
LimitCell(n, t) == <<[n |-> n, test |-> t]>>
TableRow(l, words, cells) == [label |-> l, marks |-> words, cells |-> cells]
\* A row of each kind of total: 合计, 总计 and total.
Sales == [score |-> 0,
          columns |-> <<Column("item", FALSE, ""), Column("y1", TRUE, ""), Column("y2", TRUE, ""), Column("kind", FALSE, "")>>,
          rows |-> <<TableRow("a", {}, <<<<>>, Cell(4), Cell(6), Cell(1)>>), TableRow("b", {}, <<<<>>, Cell(0), Cell(3), Cell(1)>>),
                     TableRow("c", {}, <<<<>>, Cell(9), <<>>, Cell(2)>>), TableRow("total", {"total"}, <<<<>>, Cell(13), Cell(9), Cell(1)>>),
                     TableRow("sum", {"heji"}, <<<<>>, Cell(13), Cell(9), <<>>>>)>>]
Gates == [score |-> 2, columns |-> <<Column("item", FALSE, ""), Column("now", FALSE, "current"), Column("gate", FALSE, "limit"), Column("u", FALSE, "unit")>>,
          rows |-> <<TableRow("a", {}, <<<<>>, Cell(5), LimitCell(4, ">="), <<>>>>), TableRow("d", {}, <<<<>>, Cell(5), LimitCell(4, "<"), <<>>>>),
                     TableRow("e", {}, <<<<>>, Cell(5), <<>>, <<>>>>), TableRow("", {}, <<<<>>, Cell(5), LimitCell(6, ">="), <<>>>>)>>]
Mix == [score |-> 0, columns |-> <<Column("item", FALSE, ""), Column("y1", TRUE, ""), Column("part", FALSE, "share")>>,
        rows |-> <<TableRow("zong", {"zongji"}, <<<<>>, Cell(9), Cell(100)>>), TableRow("a", {}, <<<<>>, Cell(6), Cell(60)>>),
                   TableRow("b", {}, <<<<>>, Cell(2), Cell(25)>>), TableRow("c", {}, <<<<>>, Cell(1), Cell(15)>>)>>]
TableSources == {<<Sales>>, <<Gates>>, <<Gates, Sales>>, <<Mix>>}
\* A label as it is written, with a conjunction of its own, or in other words.
Written(at) == [at |-> at, span |-> <<at>>]
Nearly(at) == [at |-> -1, span |-> <<at>>]
Otherwise == [at |-> -1, span |-> <<>>]
Labelled(places) == [l \in {p[1] : p \in places} |-> (CHOOSE p \in places : p[1] = l)[2]]
ColumnsAt(places) == [n \in {p[1] : p \in places} |-> LET p == CHOOSE q \in places : q[1] = n IN [at |-> p[2], near |-> p[3]]]
TableQuestions ==
    [cues : {{}, {"ofSum", "sum"}, {"two", "sum"}, {"sum", "ofWhole"}, {"ofWhole", "ratio"}, {"of"}, {"shareOf"},
             {"shareOf", "ratioAbout", "ratio"}, {"altogether", "percent"}, {"highest"}, {"lowest", "two"}}
            \cup {{c} : c \in {"sum", "jointly", "evaluates", "times", "change", "lower"}},
     labels : {Labelled(p) : p \in {{}, {<<"a", Written(5)>>}, {<<"b", Written(3)>>, <<"a", Written(5)>>},
                                   {<<"c", Otherwise>>, <<"b", Written(3)>>}, {<<"a", Written(3)>>, <<"sum", Written(5)>>},
                                   {<<"a", Written(3)>>, <<"b", Written(5)>>, <<"c", Otherwise>>},
                                   {<<"c", Nearly(1)>>, <<"a", Written(3)>>, <<"b", Written(5)>>, <<"total", Written(9)>>}}},
     columns : {ColumnsAt(p) : p \in {{}, {<<"y1", 7, 7>>}, {<<"y2", 7, 7>>, <<"y1", 9, 9>>}, {<<"y2", 7, 7>>, <<"y1", -1, 9>>},
                                     {<<"kind", 7, 7>>, <<"y1", -1, -1>>, <<"part", 9, 9>>}, {<<"now", 7, 7>>}, {<<"u", 7, 7>>, <<"gate", 9, 9>>}}},
     word : {8}, filter : {<<>>, <<[column |-> 4, value |-> 1]>>}, boundary : {0, 1}]

----------------------------------------------------------------------------
(* Reconciliations: a table whose small members the chart puts together,   *)
(* rounded and with a total row; the other way round; with a second        *)
(* difference; with few labels and no name in common; with other units.    *)

SaidRow(label, words, n) == TableRow(label, words, <<<<>>, IF n = 0 THEN <<>> ELSE Cell(n)>>)
Detailed(titles, unit, rows) ==
    [titles |-> titles, columns |-> <<[name |-> "item", unit |-> ""], [name |-> "sales", unit |-> unit]>>, rows |-> rows]
MarketRows == <<SaidRow("n", {}, 40020), SaidRow("s", {}, 3000), SaidRow("w", {}, 700), SaidRow("o", {}, 300),
             SaidRow("o", {}, 9), SaidRow("x", {}, 0), SaidRow("", {}, 5), SaidRow("sum", {"heji"}, 44020)>>
ReconcileTables == {
    <<Detailed({"market"}, "currency", MarketRows)>>,
    <<Detailed({}, "", SubSeq(MarketRows, 1, 3)), Detailed({"market"}, "percent", MarketRows)>>,
    <<Detailed({}, "", <<SaidRow("n", {}, 40000), SaidRow("s", {}, 3000), SaidRow("r", {}, 1000)>>)>> }
Drawn(titles, series) == [slide |-> 1, boxed |-> FALSE, title |-> 0, titleYear |-> 0, titles |-> titles, series |-> series]
ReconcileCharts == {
    <<Drawn({"market"}, <<Group("sales", "bar", "currency", <<Point("n", 40000), Point("s", 3000), Point("o", 1000), Point("", 7)>>)>>)>>,
    <<Drawn({}, <<Group("turnover", "bar", "currency", <<Point("n", 40000), Point("s", 3700), Point("o", 300)>>)>>)>>,
    <<Drawn({"by market"}, <<Group("n", "bar", "", <<Point("2023", 39000), Point("2024", 40000)>>),
                             Group("s", "bar", "", <<Point("2023", 3000), Point("2024", 4000)>>),
                             Group("", "bar", "", <<Point("2024", 8)>>)>>)>>,
    <<Drawn({"market"}, <<Group("sales", "bar", "currency", <<Point("n", 40000), Point("s", 3007), Point("o", 1000)>>)>>)>>,
    <<Drawn({}, <<Group("profit", "bar", "", <<Point("n", 40000), Point("s", 3000), Point("w", 700), Point("o", 200), Point("r", 100)>>)>>)>> }
ReconcileAsked == [asks : BOOLEAN, mentions : {{}, {"sales"}, {"market", "o"}, {"turnover", "sales"}}]
NamesWithin == {<<"market", "by market">>}

----------------------------------------------------------------------------
(* Evidence.                                                               *)

Sentence(terms, marks, n) == [terms |-> terms, marks |-> marks, length |-> n]
SourceRow(id, from, slide, type, visual, score, conf, units) ==
    [id |-> id, doc |-> from, slide |-> slide, persisted |-> "", type |-> type, visual |-> visual,
     score |-> score, confidence |-> conf, units |-> units, titles |-> <<>>, summary |-> <<>>, heading |-> FALSE]
\* The summary of slide 1 of b has a number, that of slide 3 of a a period.
OnTitled(row, titles, summary) == [row EXCEPT !.titles = titles, !.summary = summary]
LibraryRows == {
    SourceRow(1, "a", 1, "text", FALSE, 40, 90, <<Sentence({"rev", "grew"}, {"digit", "comparison"}, 4), Sentence({"note"}, {}, 3)>>),
    SourceRow(2, "a", 1, "table", FALSE, 30, 50, <<Sentence({"head"}, {}, 1), Sentence({"rev", "cost"}, {"digit"}, 2), Sentence({"cost"}, {}, 2)>>),
    SourceRow(3, "a", 2, "text", TRUE, 20, 90, <<Sentence({"cost"}, {"digit", "risk"}, 3)>>),
    OnTitled(SourceRow(4, "b", 1, "text", FALSE, 10, 0, <<Sentence({"cost", "fell"}, {"action"}, 3)>>),
             <<Sentence({"costs"}, {}, 1)>>, <<Sentence({"net"}, {"digit", "period"}, 2)>>),
    SourceRow(5, "b", 2, "notes", FALSE, 10, 90, <<Sentence({"rev"}, {"source"}, 2)>>),
    [SourceRow(6, "b", 2, "text", FALSE, 50, 90, <<Sentence({"title"}, {}, 2)>>) EXCEPT !.heading = TRUE],
    OnTitled(SourceRow(7, "a", 3, "text", FALSE, 40, 90, <<Sentence({"rev", "grew"}, {"digit"}, 9)>>),
             <<>>, <<Sentence({"y1"}, {"digit", "period"}, 2)>>) }
EvidenceRow(id) == CHOOSE r \in LibraryRows : r.id = id
EvidenceRows == {<<>>, <<EvidenceRow(1), EvidenceRow(3), EvidenceRow(7)>>, <<EvidenceRow(2), EvidenceRow(5)>>, <<EvidenceRow(4), EvidenceRow(6)>>, <<EvidenceRow(3), EvidenceRow(2)>>, <<EvidenceRow(7), EvidenceRow(4)>>}
TaskClause(terms, marks, subjects) ==
    [terms |-> terms, marks |-> marks, subjects |-> subjects, segments |-> <<>>, periods |-> {}]
Subject(names, terms) == [names |-> names, terms |-> terms]
PlainTask == [clauses |-> <<TaskClause({"rev", "cost"}, {}, <<>>)>>, visual |-> FALSE, documents |-> <<"a", "b">>,
          allowed |-> {}, excluded |-> {"boilerplate"}, exact |-> FALSE, profile |-> "deep", bridge |-> FALSE,
          reconciles |-> FALSE, visuals |-> FALSE, provenance |-> FALSE]
EvidenceTasks == {PlainTask,
    [PlainTask EXCEPT !.clauses = <<TaskClause({"rev", "grew"}, {"numeric", "comparison"}, <<Subject({"rev"}, {"rev"}), Subject({"costs"}, {"net", "cost"})>>)>>,
                  !.exact = TRUE, !.profile = "focused", !.documents = <<>>],
    [PlainTask EXCEPT !.clauses = <<TaskClause({"rev", "cost"}, {"decision"}, <<Subject({"rev"}, {"rev"})>>), TaskClause({"cost"}, {}, <<>>),
                                [TaskClause({"grew"}, {"definition"}, <<>>) EXCEPT !.periods = {"y1"}]>>],
    [PlainTask EXCEPT !.clauses = <<TaskClause({"rev"}, {"source", "attribution"}, <<>>)>>, !.visual = TRUE,
                  !.profile = "focused", !.documents = <<"b">>, !.provenance = TRUE],
    [PlainTask EXCEPT !.reconciles = TRUE, !.visuals = TRUE, !.bridge = TRUE, !.profile = "focused"] }
ToolResults == {
    [kind |-> "chart_calculation", slide |-> <<"a", 1>>, fallback |-> TRUE,
     rows |-> <<SourceRow(9, "a", 1, "calculation", FALSE, 0, 95, <<Sentence({"rev", "grew"}, {"digit", "comparison"}, 2)>>),
                SourceRow(9, "a", 1, "calculation", FALSE, 0, 95, <<Sentence({"rev", "fell"}, {"digit"}, 2)>>)>>],
    [kind |-> "chart_analysis", slide |-> <<>>, fallback |-> FALSE,
     rows |-> <<SourceRow(9, "a", 1, "bundle", FALSE, 0, 95, <<Sentence({"rev"}, {"digit", "attribution", "decision", "bound"}, 2)>>)>>],
    [kind |-> "scope_reconciliation", slide |-> <<>>, fallback |-> TRUE,
     rows |-> <<SourceRow(9, "b", 2, "reconciliation", FALSE, 0, 95, <<Sentence({"cost"}, {"digit"}, 2)>>)>>]}

----------------------------------------------------------------------------
(* Retrieval: two documents, an irrelevant role, a substring match.        *)

LibraryChunk(i, d, s, r, t, b, v) ==
    [id |-> i, doc |-> d, slide |-> s, role |-> r, tokens |-> t \ {"sub"}, text |-> t, title |-> {}, tells |-> {}, bm25 |-> b, similarity |-> v]
RetrievalLibrary == <<[LibraryChunk(1, "A", 1, "table", {"growth"}, 5, 7) EXCEPT !.tells = {"tables"}],
         [LibraryChunk(2, "A", 1, "business_fact", {"growth", "sub"}, 4, 6) EXCEPT !.tells = {"official", "monthly"}],
         [LibraryChunk(3, "A", 2, "boilerplate", {"growth"}, 3, 2) EXCEPT !.tells = {"official"}],
         LibraryChunk(4, "B", 1, "risk_signal", {"sub"}, 0, 9),
         [LibraryChunk(5, "B", 2, "methodology", {"other"}, 2, 8) EXCEPT !.tells = {"tables"}]>>
RetrievalQuery0(terms, weight, provenance) == [terms |-> terms, weight |-> weight, provenance |-> provenance]
RetrievalRequests == [library : {RetrievalLibrary},
       queries : {<<RetrievalQuery0({"growth"}, 10000, TRUE)>>,
                  <<RetrievalQuery0({"sub"}, 10000, FALSE), RetrievalQuery0({"growth", "other"}, 8000, FALSE)>>},
       scope : {{}, {"A"}, {"A", "B"}}, mode : {"fts", "vector", "hybrid"}, topK : {1, 3, 4},
       roles : {{}, {"table", "risk_signal", "boilerplate"}}, excluded : {{}, {"boilerplate"}}, numeric : BOOLEAN,
       provenance : BOOLEAN, reranker : BOOLEAN]

----------------------------------------------------------------------------
(* The sum.                                                                *)

CONSTANT Unused  \* the input of a component that is not in focus
VARIABLE focus

SumInit ==
    /\ focus \in {"index", "dialogue", "jobs", "content", "login", "charts", "tables", "analysis", "reconciliation",
                "engine", "retrieval", "pipeline"}
    /\ IndexInit /\ DialogueInit /\ JobStreamInit /\ ContentInit /\ LoginInit
    /\ IF focus = "charts" THEN CalculationInit ELSE chartInput = Unused /\ calculation = NoCalculation
    /\ IF focus = "tables" THEN TableInit ELSE tableInput = Unused /\ tableAnswer = Unanswered
    /\ IF focus = "analysis" THEN AnalysisInit ELSE analysisInput = Unused /\ analysis = NoAnalysis
    /\ IF focus = "reconciliation" THEN ReconcileInit ELSE reconcileInput = Unused /\ reconciled = NotReconciled
    /\ IF focus = "engine" THEN EngineInit ELSE engineTask = Unused /\ engine = [at |-> "unused"]
    /\ IF focus = "retrieval" THEN RetrievalInit ELSE request = Unused /\ lanes = <<>> /\ retrieved = NoRetrieval
    /\ IF focus = "pipeline" THEN PipelineInit
       ELSE asked = Unused /\ passes = <<>> /\ pipelineStep = "unused" /\ runResult = NoRunResult

storeVars == <<indexVars, dialogueVars, jobStreamVars, contentVars, loginVars>>
calculatorVars == <<calculationVars, tableVars, analysisVars, reconcileVars>>
answerVars == <<calculatorVars, engineVars, retrievalVars, pipelineVars>>
sumVars == <<focus, storeVars, answerVars>>

InIndex ==
    /\ focus = "index" /\ IndexNext
    /\ UNCHANGED <<focus, dialogueVars, jobStreamVars, contentVars, loginVars, answerVars>>
InDialogue ==
    /\ focus = "dialogue" /\ DialogueNext
    /\ UNCHANGED <<focus, indexVars, jobStreamVars, contentVars, loginVars, answerVars>>
InJobs ==
    /\ focus = "jobs" /\ JobStreamNext
    /\ UNCHANGED <<focus, indexVars, dialogueVars, contentVars, loginVars, answerVars>>
InContent ==
    /\ focus = "content" /\ ContentNext
    /\ UNCHANGED <<focus, indexVars, dialogueVars, jobStreamVars, loginVars, answerVars>>
InLogin ==
    /\ focus = "login" /\ LoginNext
    /\ UNCHANGED <<focus, indexVars, dialogueVars, jobStreamVars, contentVars, answerVars>>
InCharts ==
    /\ focus = "charts" /\ Calculate
    /\ UNCHANGED <<focus, tableVars, analysisVars, reconcileVars, engineVars, retrievalVars, pipelineVars, storeVars>>
InTables ==
    /\ focus = "tables" /\ AnswerFromTables
    /\ UNCHANGED <<focus, calculationVars, analysisVars, reconcileVars, engineVars, retrievalVars, pipelineVars, storeVars>>
InAnalysis ==
    /\ focus = "analysis" /\ AnalyzeCharts
    /\ UNCHANGED <<focus, calculationVars, tableVars, reconcileVars, engineVars, retrievalVars, pipelineVars, storeVars>>
InReconciliation ==
    /\ focus = "reconciliation" /\ ReconcileSources
    /\ UNCHANGED <<focus, calculationVars, tableVars, analysisVars, engineVars, retrievalVars, pipelineVars, storeVars>>
InEngine ==
    /\ focus = "engine" /\ EngineNext
    /\ UNCHANGED <<focus, calculatorVars, retrievalVars, pipelineVars, storeVars>>
InRetrieval ==
    /\ focus = "retrieval" /\ RetrievalNext
    /\ UNCHANGED <<focus, calculatorVars, engineVars, pipelineVars, storeVars>>
InPipeline ==
    /\ focus = "pipeline" /\ PipelineNext
    /\ UNCHANGED <<focus, calculatorVars, engineVars, retrievalVars, storeVars>>

SumNext ==
    \/ InIndex \/ InDialogue \/ InJobs \/ InContent \/ InLogin
    \/ InCharts \/ InTables \/ InAnalysis \/ InReconciliation \/ InEngine \/ InRetrieval \/ InPipeline

\* Every call of the index goes on: the provider has a timeout, a lock wait has
\* one, files are local; nothing makes a thread call, or a process restart.  In the
\* job queue an idle worker claims, a working one goes on and a stopped one is
\* restarted, and the route polls as long as its client reads.
SumFairness ==
    /\ \A t \in User : WF_indexVars(focus = "index" /\ IndexProceed(t))
    /\ WF_jobStreamVars(focus = "jobs" /\ JobWork) /\ WF_jobStreamVars(focus = "jobs" /\ JobTick)
    /\ WF_jobStreamVars(focus = "jobs" /\ \E j \in Job : PollJobEvents(j))
SumSpec == SumInit /\ [][SumNext]_sumVars /\ SumFairness
====

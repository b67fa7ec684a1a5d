---- MODULE QueryPlanning ----
(***************************************************************************)
(* The retrieval plan of a question: the question itself, its terms, the   *)
(* tokens of the vocabulary bridges it calls for, and the queries a        *)
(* planning model adds.  A text is [say, chars, creates], say <<>> when    *)
(* blank and creates when it asks to make a chart; weights and confidence  *)
(* are in hundredths.  A question is [text, focus, bridges, term,          *)
(* analyses, visual], its bridges [primary, secondary], the tokens in its  *)
(* own language and in the other one.                                      *)
(***************************************************************************)
EXTENDS SequenceParts, SequencesExt, FiniteSets, FiniteSetsExt

CONSTANTS NoModel, ProviderError, InvalidOutput, NoPlan, Unsaid

RetrievalQuery(text, kind, weight) == [text |-> text, kind |-> kind, weight |-> weight]
QueryLimit == 14
LongestQuery == 300

\* _dedupe_queries: nothing blank, long, or said before.
AddQuery(queries, q) ==
    IF \/ Len(queries) = QueryLimit \/ q.text.say = <<>> \/ q.text.chars > LongestQuery
       \/ \E i \in DOMAIN queries : queries[i].text.say = q.text.say
    THEN queries ELSE Append(queries, q)
DedupeQueries(items) ==
    LET queries[n \in 0 .. Len(items)] == IF n = 0 THEN <<>> ELSE AddQuery(queries[n - 1], items[n])
    IN queries[Len(items)]

\* round(): a half goes to the even number.
RoundedQuotient(a, b) ==
    LET whole == a \div b twice == 2 * (a % b)
    IN IF twice > b \/ (twice = b /\ whole % 2 = 1) THEN whole + 1 ELSE whole
\* count of the values, spread from the first to the last.
SampleTokens(values, count) ==
    IF Len(values) <= count THEN values
    ELSE [i \in 1 .. count |-> values[1 + RoundedQuotient((i - 1) * (Len(values) - 1), count - 1)]]

\* The tokens of a bridge, a query each, in turn with those of the others.
BridgeTokens(bridge) == SampleTokens(bridge.primary, 7) \o SampleTokens(bridge.secondary, 3)
InTurn(groups) ==
    FlattenSeq([k \in 1 .. Max({0} \cup {Len(groups[i]) : i \in DOMAIN groups}) |->
        FlattenSeq([i \in DOMAIN groups |-> SubSeq(groups[i], k, Min({k, Len(groups[i])}))])])
BridgeQueries(bridges) ==
    InTurn([i \in DOMAIN bridges |->
        LET tokens == BridgeTokens(bridges[i])
        IN [k \in DOMAIN tokens |-> RetrievalQuery(tokens[k], bridges[i].kind, bridges[i].weight)]])

LinguisticExpansions(question) ==
    (IF question.focus.say \in {<<>>, question.text.say} THEN <<>>
     ELSE <<RetrievalQuery(question.focus, "language_focus", 110)>>)
      \o BridgeQueries(question.bridges)
      \o [i \in DOMAIN question.term |-> RetrievalQuery(question.term[i], "document_terminology", 110)]

LinguisticPlan(question) ==
    [queries |-> DedupeQueries(<<RetrievalQuery(question.text, "literal", 135)>> \o LinguisticExpansions(question)),
     profile |-> "focused", visuals |-> question.visual, structure |-> <<>>, confidence |-> 35,
     planner |-> "linguistic_fallback", warnings |-> {}]

----------------------------------------------------------------------------
(* What a model adds.  Its answer is [queries, frameCreates, profile,      *)
(* visuals, counts, confidence]: texts with weights, or Unsaid.            *)

Clamp(value, low, high, default) == IF value = Unsaid THEN default ELSE Min({high, Max({low, value})})
FirstOf(seq, n) == SubSeq(seq, 1, Min({n, Len(seq)}))

\* An analysis that the model turned into making a chart loses those queries.
Realigned(question, payload) == question.analyses /\ payload.frameCreates
ModelQueries(question, payload) ==
    LET first == FirstOf(payload.queries, 5)
        items == KeepAt(first, {i \in DOMAIN first : first[i].text.say # <<>>
                                  /\ ~(Realigned(question, payload) /\ first[i].text.creates)})
    IN [i \in DOMAIN items |->
          RetrievalQuery([items[i].text EXCEPT !.chars = Min({@, LongestQuery})], "semantic_hypothesis",
                         Clamp(items[i].weight, 50, 150, 100))]

CleanCounts(counts, most) == SelectSeq(FirstOf(counts, 8), LAMBDA n : 1 < n /\ n <= most)

SemanticPlan(question, baseline, payload) ==
    [baseline EXCEPT
       !.queries = DedupeQueries(<<@[1]>> \o ModelQueries(question, payload) \o Tail(@)),
       !.profile = IF payload.profile \in {"focused", "analytical", "deep"} THEN payload.profile ELSE "focused",
       !.visuals = IF payload.visuals = Unsaid THEN @ ELSE payload.visuals,
       !.structure = CleanCounts(payload.counts, 50),
       !.confidence = Clamp(payload.confidence, 0, 100, 75),
       !.planner = "llm_retrieval"]

\* plan: NoPlan stands for the IndexError of a baseline without queries, as a
\* question has that is too long for a query and calls for no bridge.
PlanWith(question, baseline, answer) ==
    CASE answer = NoModel -> baseline
      [] answer = ProviderError -> [baseline EXCEPT !.warnings = {"planner_provider"}]
      [] answer = InvalidOutput -> [baseline EXCEPT !.warnings = {"planner_output"}]
      [] OTHER -> IF baseline.queries = <<>> THEN NoPlan ELSE SemanticPlan(question, baseline, answer)
QueryPlanOf(question, answer) == PlanWith(question, LinguisticPlan(question), answer)
====

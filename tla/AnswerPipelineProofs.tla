---- MODULE AnswerPipelineProofs ----
(***************************************************************************)
(* Theorems about how an answer is made.  AnswerPipeline: for every        *)
(* question, plan, evidence and whatever the models say, what is persisted *)
(* is grounded; its lemmas follow the pipeline: the plan, the verifier,    *)
(* the polisher, and then the invariant with one lemma per step.           *)
(* AnswerEngine: for every task, whatever the searches and the chart tools *)
(* return, the evidence supports what the answer may claim; its lemmas     *)
(* follow the selection of the pack, the ranking, the contract and the     *)
(* fallback.                                                               *)
(***************************************************************************)
EXTENDS AnswerPipeline, AnswerEngine, SequencePartsProofs, FiniteSetTheorems

-----------------------------------------------------------------------------
(* The expansions of a question are a list.                                *)

\* A part of a sequence has no other elements.
LEMMA SubSeqWithin ==
    ASSUME NEW S, NEW s \in Seq(S), NEW m \in Nat \ {0}, NEW n \in 0 .. Len(s)
    PROVE  SubSeq(s, m, n) \in Seq(S)
  OBVIOUS

\* Sampling gives at most as many tokens as asked for.
LEMMA SampleIsList ==
    ASSUME NEW values, IsList(values), NEW count \in Nat
    PROVE  IsList(SampleTokens(values, count)) /\ Len(SampleTokens(values, count)) <= count
<1> DEFINE sample == [i \in 1 .. count |-> values[1 + RoundedQuotient((i - 1) * (Len(values) - 1), count - 1)]]
<1>1. IsList(sample) /\ Len(sample) = count
  <2>1. DOMAIN sample = 1 .. count /\ sample = [i \in 1 .. count |-> sample[i]]
    OBVIOUS
  <2> HIDE DEF sample
  <2> QED
    BY <2>1, ListByPlace
<1>2. SampleTokens(values, count) = IF Len(values) <= count THEN values ELSE sample
  BY Zenon DEF SampleTokens
<1> HIDE DEF sample
<1> QED
  BY <1>1, <1>2

\* Groups taken in turn make one list.
LEMMA InTurnIsList ==
    ASSUME NEW groups, IsList(groups), NEW bound \in Nat,
           \A i \in DOMAIN groups : IsList(groups[i]) /\ Len(groups[i]) <= bound
    PROVE  IsList(InTurn(groups))
<1> DEFINE lens == {0} \cup {Len(groups[i]) : i \in DOMAIN groups}
           most == Max(lens)
           S == UNION {{groups[i][k] : k \in DOMAIN groups[i]} : i \in DOMAIN groups}
           row == [k \in 1 .. most |-> [i \in DOMAIN groups |-> SubSeq(groups[i], k, Min({k, Len(groups[i])}))]]
           rows == [k \in 1 .. most |-> FlattenSeq(row[k])]
<1>1. DOMAIN groups = 1 .. Len(groups) /\ Len(groups) \in Nat
  BY ListShape
<1>2. \A i \in DOMAIN groups : groups[i] \in Seq(S) /\ Len(groups[i]) \in Nat
  <2>1. ASSUME NEW i \in DOMAIN groups PROVE groups[i] \in Seq(S) /\ Len(groups[i]) \in Nat
    <3>1. IsList(groups[i]) /\ {groups[i][k] : k \in DOMAIN groups[i]} \subseteq S
      OBVIOUS
    <3> QED
      BY <3>1, ListShape, SeqMonotonic DEF IsList
  <2> QED
    BY <2>1
<1> HIDE DEF S
<1>3. most \in Nat
  <2>1. lens \subseteq Nat /\ lens # {} /\ \A i \in lens : i <= bound
    BY <1>2
  <2> HIDE DEF lens
  <2> QED
    BY <2>1, BoundedMax
<1>4. ASSUME NEW k \in 1 .. most PROVE rows[k] \in Seq(S)
  <2>1. ASSUME NEW i \in DOMAIN groups PROVE row[k][i] \in Seq(S)
    <3> DEFINE end == Min({k, Len(groups[i])})
    <3>1. groups[i] \in Seq(S) /\ Len(groups[i]) \in Nat /\ k \in Nat \ {0}
      BY <1>2, <1>3
    <3>2. end \in 0 .. Len(groups[i])
      <4>1. end \in {k, Len(groups[i])} /\ end <= Len(groups[i])
        <5>1. k \in Int /\ Len(groups[i]) \in Int
          BY <3>1
        <5> QED
          BY <5>1, MinOfTwo
      <4> HIDE DEF end
      <4> QED
        BY <3>1, <4>1
    <3>3. row[k][i] = SubSeq(groups[i], k, end)
      OBVIOUS
    <3> HIDE DEF end, row
    <3> QED
      BY <3>1, <3>2, <3>3, SubSeqWithin
  <2>2. row[k] = [i \in 1 .. Len(groups) |-> row[k][i]]
    BY <1>1
  <2>3. rows[k] = FlattenSeq(row[k])
    OBVIOUS
  <2> HIDE DEF row, rows
  <2>4. row[k] \in Seq(Seq(S))
    BY <1>1, <2>1, <2>2
  <2> QED
    BY <2>3, <2>4, FlattenSeqSeq
<1>5. InTurn(groups) = FlattenSeq(rows)
  BY Zenon DEF InTurn
<1>6. rows = [k \in 1 .. most |-> rows[k]]
  OBVIOUS
<1> HIDE DEF rows, most
<1>7. rows \in Seq(Seq(S))
  BY <1>3, <1>4, <1>6
<1> QED
  BY <1>5, <1>7, FlattenSeqSeq, ListOf

\* A question of any vocabulary expands to a list of queries.
LEMMA ExpansionsAreList ==
    ASSUME NEW question \in Question PROVE IsList(LinguisticExpansions(question))
<1> DEFINE bridges == question.bridges
           groups == [i \in DOMAIN bridges |->
                        LET tokens == BridgeTokens(bridges[i])
                        IN [k \in DOMAIN tokens |-> RetrievalQuery(tokens[k], bridges[i].kind, bridges[i].weight)]]
           focus == IF question.focus.say \in {<<>>, question.text.say} THEN <<>>
                    ELSE <<RetrievalQuery(question.focus, "language_focus", 110)>>
           terms == [i \in DOMAIN question.term |-> RetrievalQuery(question.term[i], "document_terminology", 110)]
<1>1. IsList(bridges) /\ Len(bridges) \in Nat /\ DOMAIN bridges = 1 .. Len(bridges)
  BY PipelineAssumption, ListShape
<1>2. ASSUME NEW i \in DOMAIN bridges PROVE IsList(groups[i]) /\ Len(groups[i]) <= 10
  <2> DEFINE primary == SampleTokens(bridges[i].primary, 7)
             secondary == SampleTokens(bridges[i].secondary, 3)
             tokens == primary \o secondary
             size == Len(tokens)
             group == [k \in DOMAIN tokens |-> RetrievalQuery(tokens[k], bridges[i].kind, bridges[i].weight)]
  <2>1. IsList(primary) /\ Len(primary) <= 7 /\ IsList(secondary) /\ Len(secondary) <= 3
    <3>1. IsList(bridges[i].primary) /\ IsList(bridges[i].secondary)
      BY PipelineAssumption
    <3> QED
      BY <3>1, SampleIsList
  <2>2. groups[i] = group
    BY Zenon DEF BridgeTokens
  <2> HIDE DEF primary, secondary
  <2>3. IsList(tokens) /\ size = Len(primary) + Len(secondary) /\ Len(primary) \in Nat /\ Len(secondary) \in Nat
    BY <2>1, ListJoin, ListShape
  <2> HIDE DEF tokens
  <2>4. DOMAIN tokens = 1 .. size /\ size \in Nat
    BY <2>3, ListShape
  <2> HIDE DEF size
  <2>5. size <= 10
    BY <2>1, <2>3
  <2>6. DOMAIN group = 1 .. size /\ group = [k \in 1 .. size |-> group[k]]
    BY <2>4
  <2> HIDE DEF group
  <2>7. IsList(group) /\ Len(group) = size
    BY <2>4, <2>6, ListByPlace
  <2> QED
    BY <2>2, <2>5, <2>7
<1>3. IsList(groups)
  <2>1. DOMAIN groups = 1 .. Len(bridges) /\ groups = [i \in 1 .. Len(bridges) |-> groups[i]]
    BY <1>1
  <2> HIDE DEF groups
  <2> QED
    BY <1>1, <2>1, ListByPlace
<1>4. IsList(BridgeQueries(bridges))
  <2>1. BridgeQueries(bridges) = InTurn(groups)
    BY Zenon DEF BridgeQueries
  <2>2. DOMAIN groups = DOMAIN bridges
    OBVIOUS
  <2> HIDE DEF groups
  <2> QED
    BY <1>2, <1>3, <2>1, <2>2, InTurnIsList
<1>5. IsList(focus)
  <2>1. \A x : IsList(<<x>>) /\ IsList(<<>>)
    BY DEF IsList
  <2> QED
    BY <2>1
<1>6. IsList(terms)
  <2>1. Len(question.term) \in Nat /\ DOMAIN question.term = 1 .. Len(question.term)
    BY PipelineAssumption, ListShape
  <2>2. DOMAIN terms = 1 .. Len(question.term) /\ terms = [i \in 1 .. Len(question.term) |-> terms[i]]
    BY <2>1
  <2> HIDE DEF terms
  <2> QED
    BY <2>1, <2>2, ListByPlace
<1>7. LinguisticExpansions(question) = focus \o BridgeQueries(bridges) \o terms
  BY Zenon DEF LinguisticExpansions
<1> HIDE DEF focus, terms, groups, bridges
<1> QED
  BY <1>4, <1>5, <1>6, <1>7, ListJoin

-----------------------------------------------------------------------------
(* The plan: the question stays its first query.                           *)

Usable(q) == q.text.say # <<>> /\ ~(q.text.chars > LongestQuery)

\* A query is added below the limit only, and never before the others.
LEMMA AddQuerySeq ==
    ASSUME NEW S, NEW queries \in Seq(S), Len(queries) <= QueryLimit, NEW q \in S
    PROVE  /\ AddQuery(queries, q) \in Seq(S) /\ Len(AddQuery(queries, q)) <= QueryLimit
           /\ queries = <<>> /\ Usable(q) => AddQuery(queries, q) = <<q>>
           /\ queries # <<>> => AddQuery(queries, q) # <<>> /\ AddQuery(queries, q)[1] = queries[1]
<1> DEFINE longer == Append(queries, q)
<1>1. longer \in Seq(S) /\ Len(longer) = Len(queries) + 1 /\ Len(queries) \in Nat
  OBVIOUS
<1>2. queries # <<>> => longer # <<>> /\ longer[1] = queries[1]
  <2>1. queries # <<>> => 1 \in 1 .. Len(queries)
    OBVIOUS
  <2> QED
    BY <1>1, <2>1
<1>3. queries = <<>> => longer = <<q>> /\ Len(queries) = 0 /\ DOMAIN queries = {}
  OBVIOUS
<1> HIDE DEF longer
<1> DEFINE refused == \/ Len(queries) = QueryLimit \/ q.text.say = <<>> \/ q.text.chars > LongestQuery
                      \/ \E i \in DOMAIN queries : queries[i].text.say = q.text.say
<1>4. AddQuery(queries, q) = IF refused THEN queries ELSE longer
  BY Zenon DEF AddQuery, longer
<1>5. queries = <<>> /\ Usable(q) => ~refused
  BY <1>3 DEF QueryLimit, Usable
<1>6. Len(queries) = QueryLimit => refused
  OBVIOUS
<1> HIDE DEF refused
<1> DEFINE added == AddQuery(queries, q)
<1>7. added = queries \/ (added = longer /\ Len(longer) <= QueryLimit)
  <2>1. CASE refused
    BY <1>4, <2>1
  <2>2. CASE ~refused
    <3>1. Len(longer) <= QueryLimit
      <4>1. Len(queries) # QueryLimit
        BY <1>6, <2>2
      <4> DEFINE n == Len(queries)
                 m == Len(longer)
      <4>2. n \in Nat /\ m = n + 1 /\ n <= 14 /\ n # 14
        BY <1>1, <4>1 DEF QueryLimit
      <4> HIDE DEF n, m
      <4>3. m <= 14
        BY <4>2
      <4> QED
        BY <4>3 DEF m, QueryLimit
    <3> QED
      BY <1>4, <2>2, <3>1
  <2> QED
    BY <2>1, <2>2
<1>8. queries = <<>> /\ Usable(q) => added = <<q>>
  BY <1>3, <1>4, <1>5
<1> HIDE DEF added
<1>9. added \in Seq(S) /\ Len(added) <= QueryLimit
  BY <1>1, <1>7
<1>10. queries # <<>> => added # <<>> /\ added[1] = queries[1]
  BY <1>2, <1>7
<1> QED
  BY <1>8, <1>9, <1>10 DEF added

\* Whatever is dropped, a first query that can be used stays first.
LEMMA DedupeKeepsFirst ==
    ASSUME NEW items, IsList(items)
    PROVE  LET queries == DedupeQueries(items) IN
           /\ IsList(queries) /\ Len(queries) <= QueryLimit
           /\ items # <<>> /\ Usable(items[1]) => queries # <<>> /\ queries[1] = items[1]
<1> DEFINE N == Len(items)
           S == {items[i] : i \in DOMAIN items}
           X == {s \in Seq(S) : Len(s) <= QueryLimit}
           Dedupes(f) == f = [n \in 0 .. N |-> IF n = 0 THEN <<>> ELSE AddQuery(f[n - 1], items[n])]
           queries == CHOOSE f : Dedupes(f)
<1>1. N \in Nat /\ DOMAIN items = 1 .. N /\ \A i \in 1 .. N : items[i] \in S
  BY ListShape
<1>2. items # <<>> => N # 0
  BY DEF IsList
<1>3. DedupeQueries(items) = queries[N]
  BY DEF DedupeQueries
<1> HIDE DEF N, S
<1>4. <<>> \in X /\ \A i \in 1 .. N : \A s \in X : AddQuery(s, items[i]) \in X
  <2>1. <<>> \in X
    BY DEF QueryLimit
  <2>2. ASSUME NEW i \in 1 .. N, NEW s \in X PROVE AddQuery(s, items[i]) \in X
    <3>1. items[i] \in S
      BY <1>1
    <3> QED
      BY <3>1, AddQuerySeq
  <2> QED
    BY <2>1, <2>2
<1>5. \E f : Dedupes(f)
  <2> DEFINE next == [i \in 1 .. N |-> [s \in X |-> AddQuery(s, items[i])]]
  <2> HIDE DEF X
  <2>1. next \in StepsOn(X, N)
    BY <1>4 DEF StepsOn
  <2>2. \A i \in 1 .. N : \A s \in X : next[i][s] = AddQuery(s, items[i])
    OBVIOUS
  <2> HIDE DEF next
  <2>3. PICK f : Follows(f, X, N, <<>>, next)
    BY <1>1, <1>4, <2>1, Recursion
  <2>4. \A i \in 1 .. N : f[i] = AddQuery(f[i - 1], items[i])
    <3>1. \A i \in 1 .. N : f[i - 1] \in X
      BY <1>1, <2>3 DEF Follows
    <3> QED
      BY <2>2, <2>3, <3>1 DEF Follows
  <2>5. ASSUME NEW n \in 0 .. N PROVE f[n] = IF n = 0 THEN <<>> ELSE AddQuery(f[n - 1], items[n])
    <3>1. n = 0 \/ n \in 1 .. N
      BY <1>1
    <3>2. CASE n = 0
      BY <2>3, <3>2 DEF Follows
    <3>3. CASE n # 0
      BY <2>4, <3>1, <3>3
    <3> QED
      BY <3>2, <3>3
  <2>6. Dedupes(f)
    BY <2>3, <2>5 DEF Follows
  <2> QED
    BY <2>6
<1>6. Dedupes(queries)
  BY <1>5
<1> HIDE DEF queries
<1>7. queries[0] = <<>> /\ \A i \in 1 .. N : queries[i] = AddQuery(queries[i - 1], items[i])
  <2>1. \A i \in 1 .. N : i \in 0 .. N /\ i # 0
    BY <1>1
  <2> QED
    BY <1>1, <1>6, <2>1
<1> DEFINE First(s) == s # <<>> /\ s[1] = items[1]
           T == {i \in 0 .. N : queries[i] \in X /\ (i # 0 /\ Usable(items[1]) => First(queries[i]))}
<1>8. 0 \in T
  <2>1. 0 \in 0 .. N /\ queries[0] \in X
    BY <1>1, <1>4, <1>7
  <2> HIDE DEF X, First
  <2> QED
    BY <2>1
<1>9. ASSUME NEW i \in 1 .. N, i - 1 \in T PROVE i \in T
  <2> DEFINE before == queries[i - 1]
  <2>1. queries[i] = AddQuery(before, items[i]) /\ items[i] \in S /\ before \in X
    BY <1>1, <1>7, <1>9
  <2>2. i # 1 /\ Usable(items[1]) => First(before)
    BY <1>1, <1>9
  <2>3. i = 1 => before = <<>>
    BY <1>7
  <2> HIDE DEF before
  <2>4. queries[i] \in X
    BY <1>4, <2>1
  <2>5. /\ before = <<>> /\ Usable(items[i]) => queries[i] = <<items[i]>>
        /\ before # <<>> => queries[i] # <<>> /\ queries[i][1] = before[1]
    <3>1. before \in Seq(S) /\ Len(before) <= QueryLimit
      BY <2>1
    <3> HIDE DEF X, T, First
    <3>2. /\ before = <<>> /\ Usable(items[i]) => AddQuery(before, items[i]) = <<items[i]>>
          /\ before # <<>> => AddQuery(before, items[i]) # <<>> /\ AddQuery(before, items[i])[1] = before[1]
      BY <2>1, <3>1, AddQuerySeq
    <3> QED
      BY <2>1, <3>2
  <2>6. Usable(items[1]) => First(queries[i])
    BY <2>2, <2>3, <2>5
  <2> HIDE DEF X, First
  <2> QED
    BY <1>1, <2>4, <2>6
<1>10. N \in T
  <2> HIDE DEF T
  <2>1. \A i \in 1 .. N : i - 1 \in T => i \in T
    BY <1>9
  <2>2. \A i \in 0 .. N : i \in T
    BY <1>1, <1>8, <2>1, Induction
  <2> QED
    BY <1>1, <2>2
<1>11. IsList(queries[N])
  BY <1>10, ListOf
<1> QED
  BY <1>2, <1>3, <1>10, <1>11

\* A plan for a question: a list within the limit that begins with the question,
\* when that fits a query.
PlanFor(question, plan) ==
    /\ IsList(plan.queries) /\ Len(plan.queries) <= QueryLimit
    /\ question.text.chars <= LongestQuery => plan.queries # <<>> /\ plan.queries[1].text = question.text

\* So a plan that puts the question first keeps it there.
LEMMA DedupedFor ==
    ASSUME NEW question \in Question, NEW first, NEW rest, IsList(rest),
           question.text.chars <= LongestQuery => first.text = question.text
    PROVE  LET queries == DedupeQueries(<<first>> \o rest) IN
           /\ IsList(queries) /\ Len(queries) <= QueryLimit
           /\ question.text.chars <= LongestQuery => queries # <<>> /\ queries[1].text = question.text
<1> DEFINE items == <<first>> \o rest
           queries == DedupeQueries(items)
<1>1. IsList(items) /\ items # <<>> /\ items[1] = first
  <2>1. IsList(<<first>>) /\ <<first>> # <<>> /\ <<first>>[1] = first
    BY DEF IsList
  <2> QED
    BY <2>1, ListJoin
<1>2. question.text.say # <<>> /\ question.text.chars \in Nat
  BY PipelineAssumption
<1>3. question.text.chars <= LongestQuery => Usable(first)
  <2>1. question.text.chars <= LongestQuery => ~(question.text.chars > LongestQuery)
    BY <1>2 DEF LongestQuery
  <2> QED
    BY <1>2, <2>1 DEF Usable
<1> HIDE DEF items
<1>4. /\ IsList(queries) /\ Len(queries) <= QueryLimit
      /\ items # <<>> /\ Usable(items[1]) => queries # <<>> /\ queries[1] = items[1]
  BY <1>1, DedupeKeepsFirst
<1> HIDE DEF queries
<1> QED
  BY <1>1, <1>3, <1>4 DEF queries, items

\* The plan without a model begins with the question.
LEMMA LinguisticPlanFor ==
    ASSUME NEW question \in Question PROVE PlanFor(question, LinguisticPlan(question))
<1> DEFINE first == RetrievalQuery(question.text, "literal", 135)
           queries == DedupeQueries(<<first>> \o LinguisticExpansions(question))
<1>1. first.text = question.text
  BY DEF RetrievalQuery
<1>2. LinguisticPlan(question).queries = queries
  BY DEF LinguisticPlan
<1> HIDE DEF first
<1>3. /\ IsList(queries) /\ Len(queries) <= QueryLimit
      /\ question.text.chars <= LongestQuery => queries # <<>> /\ queries[1].text = question.text
  BY <1>1, ExpansionsAreList, DedupedFor
<1> HIDE DEF queries
<1> QED
  BY <1>2, <1>3 DEF PlanFor

\* The first n of a list.
LEMMA FirstOfIsList ==
    ASSUME NEW seq, IsList(seq), NEW n \in Nat PROVE IsList(FirstOf(seq, n))
<1> DEFINE S == {seq[i] : i \in DOMAIN seq}
           end == Min({n, Len(seq)})
<1>1. seq \in Seq(S) /\ Len(seq) \in Nat
  BY ListShape DEF IsList
<1>2. end \in 0 .. Len(seq)
  <2>1. n \in Int /\ Len(seq) \in Int
    BY <1>1
  <2>2. end \in {n, Len(seq)} /\ end <= Len(seq)
    BY <2>1, MinOfTwo
  <2> HIDE DEF end
  <2> QED
    BY <1>1, <2>2
<1> HIDE DEF S, end
<1>3. SubSeq(seq, 1, end) \in Seq(S)
  BY <1>1, <1>2, SubSeqWithin
<1>4. FirstOf(seq, n) = SubSeq(seq, 1, end)
  BY DEF FirstOf, end
<1> QED
  BY <1>3, <1>4, ListOf

\* What the planning model asks for, as queries.
LEMMA ModelQueriesAreList ==
    ASSUME NEW question, NEW payload, IsList(payload.queries) PROVE IsList(ModelQueries(question, payload))
<1> DEFINE first == FirstOf(payload.queries, 5)
           items == KeepAt(first, {i \in DOMAIN first : first[i].text.say # <<>>
                                     /\ ~(Realigned(question, payload) /\ first[i].text.creates)})
           queries == [i \in DOMAIN items |->
             RetrievalQuery([items[i].text EXCEPT !.chars = Min({@, LongestQuery})], "semantic_hypothesis",
                            Clamp(items[i].weight, 50, 150, 100))]
<1>1. ModelQueries(question, payload) = queries
  BY Zenon DEF ModelQueries
<1>2. IsList(first)
  BY FirstOfIsList
<1> HIDE DEF first
<1>3. IsList(items)
  BY <1>2, KeepAtList
<1> HIDE DEF items
<1>4. Len(items) \in Nat /\ DOMAIN items = 1 .. Len(items)
  BY <1>3, ListShape
<1>5. DOMAIN queries = 1 .. Len(items) /\ queries = [i \in 1 .. Len(items) |-> queries[i]]
  BY <1>4
<1> HIDE DEF queries
<1> QED
  BY <1>1, <1>4, <1>5, ListByPlace

\* The queries of the model come after the question.
LEMMA SemanticPlanFor ==
    ASSUME NEW question \in Question, NEW payload, IsList(payload.queries),
           LinguisticPlan(question).queries # <<>>
    PROVE  PlanFor(question, SemanticPlan(question, LinguisticPlan(question), payload))
<1> DEFINE baseline == LinguisticPlan(question)
           before == baseline.queries
           rest == ModelQueries(question, payload) \o Tail(before)
           queries == DedupeQueries(<<before[1]>> \o rest)
<1>1. /\ IsList(before) /\ before # <<>>
      /\ question.text.chars <= LongestQuery => before[1].text = question.text
  BY LinguisticPlanFor DEF PlanFor
<1>2. SemanticPlan(question, baseline, payload).queries = DedupeQueries(<<before[1]>> \o ModelQueries(question, payload) \o Tail(before))
  <2>1. baseline = [queries |-> before, profile |-> baseline.profile, visuals |-> baseline.visuals,
                    structure |-> baseline.structure, confidence |-> baseline.confidence,
                    planner |-> baseline.planner, warnings |-> baseline.warnings]
    BY DEF LinguisticPlan
  <2> HIDE DEF baseline
  <2> QED
    BY <2>1 DEF SemanticPlan
<1> HIDE DEF before
<1>3. IsList(Tail(before))
  <2> DEFINE S == {before[i] : i \in DOMAIN before}
  <2>1. before \in Seq(S) /\ before # <<>>
    BY <1>1 DEF IsList
  <2> HIDE DEF S
  <2>2. Tail(before) \in Seq(S)
    BY <2>1
  <2> QED
    BY <2>2, ListOf
<1>4. IsList(ModelQueries(question, payload))
  BY ModelQueriesAreList
<1>5. IsList(rest)
  BY <1>3, <1>4, ListJoin
<1>6. <<before[1]>> \o ModelQueries(question, payload) \o Tail(before) = <<before[1]>> \o rest
  <2> DEFINE a == <<before[1]>>
             b == ModelQueries(question, payload)
             c == Tail(before)
             S == {a[i] : i \in DOMAIN a} \cup {b[i] : i \in DOMAIN b} \cup {c[i] : i \in DOMAIN c}
  <2>1. IsList(a)
    BY DEF IsList
  <2>2. a \in Seq(S) /\ b \in Seq(S) /\ c \in Seq(S)
    <3> HIDE DEF a, b, c
    <3> QED
      BY <1>3, <1>4, <2>1, SeqMonotonic DEF IsList, b, c
  <2> HIDE DEF a, b, c, S
  <2>3. a \o b \o c = a \o (b \o c)
    BY <2>2
  <2> QED
    BY <2>3 DEF a, b, c
<1> HIDE DEF rest
<1>7. /\ IsList(queries) /\ Len(queries) <= QueryLimit
      /\ question.text.chars <= LongestQuery => queries # <<>> /\ queries[1].text = question.text
  BY <1>1, <1>5, DedupedFor
<1> HIDE DEF queries
<1>8. SemanticPlan(question, baseline, payload).queries = queries
  BY <1>2, <1>6 DEF queries
<1> HIDE DEF baseline
<1> QED
  BY <1>7, <1>8 DEF PlanFor, baseline

\* Whatever the planning model answers, a plan begins with the question.
LEMMA QueryPlanFor ==
    ASSUME NEW question \in Question, NEW answer \in PlannerAnswer \cup {NoModel},
           QueryPlanOf(question, answer) # NoPlan
    PROVE  PlanFor(question, QueryPlanOf(question, answer))
<1> DEFINE baseline == LinguisticPlan(question)
           plan == QueryPlanOf(question, answer)
<1>1. PlanFor(question, baseline)
  BY LinguisticPlanFor
<1>2. CASE answer \in {NoModel, ProviderError, InvalidOutput}
  <2>1. plan.queries = baseline.queries
    <3>1. baseline = [queries |-> baseline.queries, profile |-> baseline.profile, visuals |-> baseline.visuals,
                      structure |-> baseline.structure, confidence |-> baseline.confidence,
                      planner |-> baseline.planner, warnings |-> baseline.warnings]
      BY DEF LinguisticPlan
    <3> HIDE DEF baseline
    <3> QED
      BY <1>2, <3>1 DEF QueryPlanOf, PlanWith, baseline
  <2> HIDE DEF plan, baseline
  <2> QED
    BY <1>1, <2>1 DEF PlanFor, plan
<1>3. CASE answer \notin {NoModel, ProviderError, InvalidOutput}
  <2>1. baseline.queries # <<>> /\ plan = SemanticPlan(question, baseline, answer)
    <3> HIDE DEF baseline
    <3>1. plan = IF baseline.queries = <<>> THEN NoPlan ELSE SemanticPlan(question, baseline, answer)
      BY <1>3 DEF QueryPlanOf, PlanWith, baseline
    <3> HIDE DEF plan
    <3> QED
      BY <3>1 DEF plan
  <2>2. IsList(answer.queries)
    BY <1>3, PipelineAssumption
  <2> QED
    BY <2>1, <2>2, SemanticPlanFor
<1> QED
  BY <1>2, <1>3

-----------------------------------------------------------------------------
(* The verifier lets nothing through that is not grounded.                 *)

\* Every claim of a text is one of the other.
DrawnFrom(text, other) == \A i \in DOMAIN text : \E k \in DOMAIN other : text[i] = other[k]

\* Deleting claims adds none.
LEMMA KeptIsDrawn ==
    ASSUME NEW text, IsList(text), NEW places
    PROVE  IsList(KeepAt(text, places)) /\ DrawnFrom(KeepAt(text, places), text)
BY KeepAtList DEF DrawnFrom

LEMMA DrawnTwice ==
    ASSUME NEW a, NEW b, NEW c, DrawnFrom(a, b), DrawnFrom(b, c) PROVE DrawnFrom(a, c)
BY DEF DrawnFrom

\* A repaired answer has only claims of the generated one.
LEMMA RepairIsDrawn ==
    ASSUME NEW answer, IsList(answer), NEW rejected, NEW corpus, NEW valid
    PROVE  DrawnFrom(KeepGrounded(RemoveClaims(answer, rejected), corpus, valid), answer)
<1>1. ASSUME NEW text, IsList(text)
      PROVE  IsList(RemoveOrphanHeadings(text)) /\ DrawnFrom(RemoveOrphanHeadings(text), text)
  BY <1>1, KeptIsDrawn, Zenon DEF RemoveOrphanHeadings
<1>2. ASSUME NEW text, IsList(text), NEW places
      PROVE  /\ IsList(RemoveOrphanHeadings(KeepAt(text, places)))
             /\ DrawnFrom(RemoveOrphanHeadings(KeepAt(text, places)), text)
  <2>1. IsList(KeepAt(text, places)) /\ DrawnFrom(KeepAt(text, places), text)
    BY <1>2, KeptIsDrawn
  <2> DEFINE kept == KeepAt(text, places)
  <2> HIDE DEF kept
  <2>2. IsList(RemoveOrphanHeadings(kept)) /\ DrawnFrom(RemoveOrphanHeadings(kept), kept)
    BY <1>1, <2>1 DEF kept
  <2> QED
    BY <2>1, <2>2, DrawnTwice DEF kept
<1> DEFINE claims == RemoveClaims(answer, rejected)
<1>3. IsList(claims) /\ DrawnFrom(claims, answer)
  BY <1>2 DEF RemoveClaims
<1> HIDE DEF claims
<1>4. DrawnFrom(KeepGrounded(claims, corpus, valid), claims)
  BY <1>2, <1>3 DEF KeepGrounded
<1> QED
  BY <1>3, <1>4, DrawnTwice DEF claims

\* What the verifier lets through.
GroundedIn(answer, evidence, corpus, scope) ==
    /\ CitationsValid(answer, DOMAIN evidence)
    /\ UnsupportedFacts(answer, corpus) = {}
    /\ OutsideScope(answer, scope) = {}
    /\ UnsupportedInferences(answer, scope) = {}

\* An answer the verifier does not refuse is grounded and has only claims of the
\* one it was given; one it refuses is warned of.
LEMMA VerdictIsGrounded ==
    ASSUME NEW answer, IsList(answer), NEW evidence, IsList(evidence), NEW corpus, NEW scope
    PROVE  LET verdict == Verify(answer, evidence, corpus, scope) IN
           /\ verdict.disposition \in {"accepted", "repaired", "fallback"}
           /\ verdict.disposition # "fallback" =>
                GroundedIn(verdict.answer, evidence, corpus, scope) /\ DrawnFrom(verdict.answer, answer)
           /\ verdict.disposition = "fallback" => verdict.warnings # {}
           /\ "truncated" \notin verdict.warnings
<1> DEFINE valid == 1 .. Len(evidence)
           inferences == UnsupportedInferences(answer, scope)
           negatives == UnsupportedNegatives(answer, corpus)
           warnings == {w \in {"citation", "numeric", "scope", "coverage", "inference", "negative"} :
                       \/ w = "citation" /\ ~CitationsValid(answer, valid)
                       \/ w = "numeric" /\ UnsupportedFacts(answer, corpus) # {}
                       \/ w = "scope" /\ OutsideScope(answer, scope) # {}
                       \/ w = "coverage" /\ MissingFamilies(answer, scope) # {}
                       \/ w = "inference" /\ inferences # {}
                       \/ w = "negative" /\ negatives # {}}
           repaired == KeepGrounded(RemoveClaims(answer, inferences \cup negatives), corpus, valid)
           sound == /\ repaired # answer /\ Substantive(repaired) /\ FormatIntact(repaired)
                    /\ CitationsValid(repaired, valid) /\ UnsupportedFacts(repaired, corpus) = {}
                    /\ OutsideScope(repaired, scope) = {} /\ MissingFamilies(repaired, scope) = {}
                    /\ UnsupportedInferences(repaired, scope) = {}
           verdict == Verify(answer, evidence, corpus, scope)
<1>1. valid = DOMAIN evidence
  BY ListShape
<1>2. verdict = [warnings |-> warnings,
                 disposition |-> IF warnings = {} THEN "accepted" ELSE IF sound THEN "repaired" ELSE "fallback",
                 answer |-> IF warnings = {} THEN answer ELSE repaired]
  BY Zenon DEF Verify
<1>3. warnings = {} => GroundedIn(answer, evidence, corpus, scope)
  <2>1. ASSUME warnings = {}
        PROVE  /\ CitationsValid(answer, valid) /\ UnsupportedFacts(answer, corpus) = {}
               /\ OutsideScope(answer, scope) = {} /\ inferences = {}
    <3> HIDE DEF inferences, negatives, valid
    <3>1. "citation" \notin warnings /\ "numeric" \notin warnings /\ "scope" \notin warnings /\ "inference" \notin warnings
      BY <2>1
    <3> QED
      BY <3>1
  <2> QED
    BY <1>1, <2>1 DEF GroundedIn
<1>4. sound => GroundedIn(repaired, evidence, corpus, scope)
  <2> HIDE DEF repaired, valid
  <2> QED
    BY <1>1 DEF GroundedIn
<1>5. DrawnFrom(answer, answer) /\ DrawnFrom(repaired, answer)
  <2>1. DrawnFrom(answer, answer)
    BY DEF DrawnFrom
  <2> DEFINE rejected == inferences \cup negatives
  <2> HIDE DEF rejected, valid
  <2>2. DrawnFrom(KeepGrounded(RemoveClaims(answer, rejected), corpus, valid), answer)
    BY RepairIsDrawn
  <2> QED
    BY <2>1, <2>2 DEF rejected
<1>6. "truncated" \notin warnings
  <2> HIDE DEF inferences, negatives, valid
  <2> QED
    OBVIOUS
<1> HIDE DEF warnings, sound, repaired, verdict
<1>7. CASE warnings = {}
  BY <1>2, <1>3, <1>5, <1>6, <1>7 DEF verdict
<1>8. CASE warnings # {} /\ sound
  BY <1>2, <1>4, <1>5, <1>6, <1>8 DEF verdict
<1>9. CASE warnings # {} /\ ~sound
  BY <1>2, <1>6, <1>9 DEF verdict
<1> QED
  BY <1>7, <1>8, <1>9

\* Nor has it other figures.
LEMMA DrawnValues ==
    ASSUME NEW text, NEW other, DrawnFrom(text, other) PROVE ValuesIn(text) \subseteq ValuesIn(other)
BY DEF ValuesIn, DrawnFrom

\* A polished text that states each fact as often states no new one.
LEMMA ValuesKept ==
    ASSUME NEW draft, IsList(draft), NEW polished, IsList(polished), FactMarkersPreserved(draft, polished)
    PROVE  ValuesIn(polished) \subseteq ValuesIn(draft)
<1> SUFFICES ASSUME NEW fact \in ValuesIn(polished), fact \notin ValuesIn(draft) PROVE FALSE
  OBVIOUS
<1> DEFINE Stating(text) == {i \in DOMAIN text : fact \in ValuesOf(text[i])}
<1>1. Cardinality(Stating(draft)) = Cardinality(Stating(polished))
  BY Zenon DEF FactMarkersPreserved
<1>2. Stating(draft) = {}
  BY DEF ValuesIn
<1>3. Stating(polished) # {}
  BY DEF ValuesIn
<1>4. IsFiniteSet(Stating(polished))
  <2>1. Len(polished) \in Nat /\ DOMAIN polished = 1 .. Len(polished)
    BY ListShape
  <2>2. IsFiniteSet(1 .. Len(polished))
    BY <2>1, FS_Interval
  <2> QED
    BY <2>1, <2>2, FS_Subset
<1> HIDE DEF Stating
<1>5. Cardinality(Stating(polished)) # 0
  BY <1>3, <1>4, FS_EmptySet
<1> QED
  BY <1>1, <1>2, <1>5, FS_EmptySet

-----------------------------------------------------------------------------
(* The invariant.                                                          *)

\* A plan and a pass, whatever is in them.
IsPlan(plan) ==
    plan = [queries |-> plan.queries, profile |-> plan.profile, visuals |-> plan.visuals,
            structure |-> plan.structure, confidence |-> plan.confidence, planner |-> plan.planner,
            warnings |-> plan.warnings]
IsPass(pass) ==
    pass = [plan |-> pass.plan, found |-> pass.found, candidate |-> pass.candidate, draft |-> pass.draft,
            warnings |-> pass.warnings, answer |-> pass.answer, source |-> pass.source]

\* The evidence of a pass and the plan that it was searched with.
EvidenceOf(found, plan) ==
    IsList(found.evidence) /\ "truncated" \notin found.warnings /\ plan.warnings \subseteq found.warnings
PlanOf(question, plan, limit) ==
    /\ IsPlan(plan) /\ "truncated" \notin plan.warnings
    /\ IsList(plan.queries) /\ Len(plan.queries) <= limit
    /\ question.text.chars <= LongestQuery => plan.queries # <<>> /\ plan.queries[1].text = question.text

\* What a pass says when it answers with the model.
Grounded(pass) ==
    /\ GroundedIn(pass.answer, pass.found.evidence, pass.found.corpus, pass.found.scope)
    /\ ValuesIn(pass.answer) \subseteq ValuesIn(pass.draft)
    /\ "truncated" \notin pass.warnings

AskedInv == asked \in [question : Question, models : BOOLEAN, polishing : BOOLEAN]
HistoryInv ==
    /\ pipelineStep \in {"plan", "generate", "polish", "verify", "assess", "complete", "done", "failed"}
    /\ passes = <<>> => pipelineStep \in {"plan", "failed"}
    /\ passes # <<>> => IsList(passes) /\ Len(passes) \in {1, 2} /\ pipelineStep # "plan"
    /\ pipelineStep = "assess" => Len(passes) = 1
CurrentInv ==
    passes # <<>> =>
      /\ IsPass(Current)
      /\ EvidenceOf(Current.found, Current.plan)
      /\ PlanOf(asked.question, Current.plan, QueryLimit + Len(passes) - 1)
StepInv ==
    /\ pipelineStep \in {"generate", "polish", "verify"} => asked.models /\ Current.source = "safe_fallback"
    /\ pipelineStep = "polish" => IsList(Current.draft) /\ Current.candidate = Current.draft
    /\ pipelineStep = "verify" => IsList(Current.candidate) /\ ValuesIn(Current.candidate) \subseteq ValuesIn(Current.draft)
    /\ pipelineStep = "assess" => asked.models
    /\ pipelineStep \in {"assess", "complete", "done"} =>
         /\ ByModel(Current) => Grounded(Current)
         /\ ~ByModel(Current) /\ asked.models => Current.warnings # {}
ResultInv == runResult # NoRunResult => pipelineStep = "done" /\ passes # <<>> /\ runResult = ResultOf(passes)
PipelineInv == AskedInv /\ HistoryInv /\ CurrentInv /\ StepInv /\ ResultInv

-----------------------------------------------------------------------------
(* Its steps.                                                              *)

\* Every plan is one that a pass can start with.
LEMMA PlansArePlans ==
    ASSUME NEW question \in Question, NEW answer \in PlannerAnswer \cup {NoModel},
           QueryPlanOf(question, answer) # NoPlan
    PROVE  PlanOf(question, QueryPlanOf(question, answer), QueryLimit)
<1> DEFINE baseline == LinguisticPlan(question)
           plan == QueryPlanOf(question, answer)
<1>1. IsPlan(baseline) /\ baseline.warnings = {}
  BY DEF LinguisticPlan, IsPlan
<1>2. PlanFor(question, plan)
  BY QueryPlanFor
<1>3. IsPlan(plan) /\ "truncated" \notin plan.warnings
  <2>1. \/ plan = baseline \/ plan = [baseline EXCEPT !.warnings = {"planner_provider"}]
        \/ plan = [baseline EXCEPT !.warnings = {"planner_output"}]
        \/ plan = SemanticPlan(question, baseline, answer)
    <3> HIDE DEF baseline
    <3> QED
      BY DEF QueryPlanOf, PlanWith, baseline
  <2>2. IsPlan(SemanticPlan(question, baseline, answer)) /\ SemanticPlan(question, baseline, answer).warnings = {}
    <3> HIDE DEF baseline
    <3> DEFINE queries == DedupeQueries(<<baseline.queries[1]>> \o ModelQueries(question, answer) \o Tail(baseline.queries))
               profile == IF answer.profile \in {"focused", "analytical", "deep"} THEN answer.profile ELSE "focused"
               visuals == IF answer.visuals = Unsaid THEN baseline.visuals ELSE answer.visuals
               structure == CleanCounts(answer.counts, 50)
               confidence == Clamp(answer.confidence, 0, 100, 75)
    <3>1. SemanticPlan(question, baseline, answer) =
            [baseline EXCEPT !.queries = queries, !.profile = profile, !.visuals = visuals,
                             !.structure = structure, !.confidence = confidence, !.planner = "llm_retrieval"]
      BY Zenon DEF SemanticPlan
    <3> HIDE DEF queries, profile, visuals, structure, confidence
    <3> QED
      BY <1>1, <3>1 DEF IsPlan
  <2> HIDE DEF baseline, plan
  <2> QED
    BY <1>1, <2>1, <2>2 DEF IsPlan
<1> HIDE DEF plan
<1> QED
  BY <1>2, <1>3 DEF PlanFor, PlanOf, plan

\* A new pass falls back until the verifier accepts an answer.
LEMMA FreshPass ==
    ASSUME NEW question, NEW limit, NEW plan, PlanOf(question, plan, limit), NEW found \in EngineResult
    PROVE  LET seen == [found EXCEPT !.warnings = @ \cup plan.warnings]
               pass == NewPass(plan, seen)
           IN /\ IsPass(pass) /\ pass.plan = plan /\ EvidenceOf(pass.found, plan)
              /\ pass.source = "safe_fallback"
<1> DEFINE seen == [found EXCEPT !.warnings = @ \cup plan.warnings]
           pass == NewPass(plan, seen)
<1>1. seen.evidence = found.evidence /\ seen.warnings = found.warnings \cup plan.warnings
  <2>1. found = [evidence |-> found.evidence, corpus |-> found.corpus, scope |-> found.scope,
                 warnings |-> found.warnings, fallback |-> found.fallback]
    BY PipelineAssumption
  <2> QED
    BY <2>1
<1>2. IsList(found.evidence) /\ "truncated" \notin found.warnings /\ "truncated" \notin plan.warnings
  BY PipelineAssumption DEF PlanOf
<1> HIDE DEF seen
<1>3. EvidenceOf(seen, plan)
  BY <1>1, <1>2 DEF EvidenceOf
<1>4. IsPass(pass) /\ pass.plan = plan /\ pass.found = seen /\ pass.source = "safe_fallback"
  BY DEF NewPass, IsPass
<1> QED
  BY <1>3, <1>4 DEF seen

\* A pass in place of the last one.
LEMMA CurrentIsSet ==
    ASSUME IsList(passes), Len(passes) \in {1, 2}, NEW pass, SetCurrent(pass)
    PROVE  IsList(passes') /\ Len(passes') = Len(passes) /\ Current' = pass
<1> DEFINE S == {passes[i] : i \in DOMAIN passes} \cup {pass}
           n == Len(passes)
<1>1. passes \in Seq(S) /\ n \in 1 .. n
  BY SeqMonotonic DEF IsList
<1> HIDE DEF S
<1>2. passes' = [passes EXCEPT ![n] = pass]
  BY DEF SetCurrent
<1>3. pass \in S
  BY DEF S
<1>4. passes' \in Seq(S) /\ Len(passes') = n /\ passes'[n] = pass
  BY <1>1, <1>2, <1>3
<1>5. IsList(passes')
  BY <1>4, ListOf
<1> QED
  BY <1>4, <1>5 DEF Current

\* What generating and verifying write in a pass.
WithDraft(pass, text, warned) == [pass EXCEPT !.candidate = text, !.draft = text, !.warnings = warned]
WithAnswer(pass, warned, answer, source) ==
    [pass EXCEPT !.warnings = warned, !.answer = answer, !.source = source]

\* Only these fields change.
LEMMA DraftWritten ==
    ASSUME NEW pass, IsPass(pass), NEW text, NEW warned
    PROVE  LET new == WithDraft(pass, text, warned) IN
           /\ IsPass(new) /\ new.plan = pass.plan /\ new.found = pass.found
           /\ new.candidate = text /\ new.draft = text /\ new.source = pass.source
<1> DEFINE a == [pass EXCEPT !.candidate = text]
           b == [a EXCEPT !.draft = text]
           c == [b EXCEPT !.warnings = warned]
           new == WithDraft(pass, text, warned)
<1>1. a = [plan |-> pass.plan, found |-> pass.found, candidate |-> text, draft |-> pass.draft,
                warnings |-> pass.warnings, answer |-> pass.answer, source |-> pass.source]
  BY DEF IsPass
<1>4. new = c
  BY DEF WithDraft
<1> HIDE DEF a, new
<1>2. b = [plan |-> pass.plan, found |-> pass.found, candidate |-> text, draft |-> text,
                warnings |-> pass.warnings, answer |-> pass.answer, source |-> pass.source]
  BY <1>1
<1> HIDE DEF b
<1>3. c = [plan |-> pass.plan, found |-> pass.found, candidate |-> text, draft |-> text,
                warnings |-> warned, answer |-> pass.answer, source |-> pass.source]
  BY <1>2
<1> HIDE DEF c
<1> QED
  BY <1>3, <1>4 DEF IsPass, new

\* The first pass begins with its plan and its evidence.
LEMMA FindEvidenceStep == PipelineInv /\ FindEvidence => PipelineInv'
<1> SUFFICES ASSUME PipelineInv, FindEvidence PROVE PipelineInv'
  OBVIOUS
<1>1. pipelineStep = "plan" /\ passes = <<>> /\ asked' = asked /\ runResult' = runResult /\ runResult = NoRunResult
  <2>1. pipelineStep = "plan" /\ asked' = asked /\ runResult' = runResult
    BY DEF FindEvidence
  <2> QED
    BY <2>1 DEF PipelineInv, HistoryInv, ResultInv
<1>2. AskedInv' /\ asked.question \in Question /\ asked.models \in BOOLEAN
  BY <1>1 DEF PipelineInv, AskedInv
<1>3. PICK answer \in PlannerAnswer \cup {NoModel}, found \in EngineResult :
        LET plan == QueryPlanOf(asked.question, answer) IN
        IF plan = NoPlan THEN Goto("failed") /\ UNCHANGED passes
        ELSE /\ passes' = <<NewPass(plan, [found EXCEPT !.warnings = @ \cup plan.warnings])>>
             /\ Goto(IF asked.models THEN "generate" ELSE "complete")
  BY Zenon DEF FindEvidence
<1> DEFINE plan == QueryPlanOf(asked.question, answer)
           pass == NewPass(plan, [found EXCEPT !.warnings = @ \cup plan.warnings])
<1>4. CASE plan = NoPlan
  <2>1. pipelineStep' = "failed" /\ passes' = <<>>
    BY <1>1, <1>3, <1>4 DEF Goto
  <2> QED
    BY <1>1, <1>2, <2>1 DEF PipelineInv, HistoryInv, CurrentInv, StepInv, ResultInv
<1>5. CASE plan # NoPlan
  <2>1. PlanOf(asked.question, plan, QueryLimit)
    BY <1>2, <1>5, PlansArePlans
  <2>2. IsPass(pass) /\ pass.plan = plan /\ EvidenceOf(pass.found, plan) /\ pass.source = "safe_fallback"
    <3> HIDE DEF plan
    <3> QED
      BY <2>1, FreshPass
  <2>3. passes' = <<pass>> /\ pipelineStep' = IF asked.models THEN "generate" ELSE "complete"
    BY <1>3, <1>5, Zenon DEF Goto
  <2>4. /\ asked.models => pipelineStep' = "generate"
        /\ ~asked.models => pipelineStep' = "complete"
    BY <2>3
  <2> HIDE DEF pass, plan
  <2>5. passes' # <<>> /\ IsList(passes') /\ Len(passes') = 1 /\ Current' = pass
    BY <2>3 DEF IsList, Current
  <2>6. HistoryInv' /\ ResultInv'
    BY <1>1, <2>4, <2>5 DEF HistoryInv, ResultInv
  <2>7. CurrentInv'
    BY <1>1, <2>1, <2>2, <2>5 DEF CurrentInv, QueryLimit
  <2>8. StepInv'
    BY <1>1, <2>2, <2>4, <2>5 DEF StepInv, ByModel
  <2> QED
    BY <1>2, <2>6, <2>7, <2>8 DEF PipelineInv
<1> QED
  BY <1>4, <1>5

\* What a step knows that goes on with the last pass.
LEMMA OnCurrent ==
    ASSUME PipelineInv, pipelineStep \in {"generate", "polish", "verify", "assess", "complete"}
    PROVE  /\ passes # <<>> /\ IsList(passes) /\ Len(passes) \in {1, 2} /\ runResult = NoRunResult
           /\ IsPass(Current) /\ EvidenceOf(Current.found, Current.plan)
           /\ PlanOf(asked.question, Current.plan, QueryLimit + Len(passes) - 1)
BY DEF PipelineInv, HistoryInv, CurrentInv, ResultInv

\* A step of a model call writes one pass and keeps its plan and evidence.
LEMMA PassWritten ==
    ASSUME PipelineInv, pipelineStep \in {"generate", "polish", "verify"}, asked' = asked, runResult' = runResult,
           NEW pass, SetCurrent(pass), IsPass(pass), pass.plan = Current.plan, pass.found = Current.found,
           pipelineStep' \in {"polish", "verify", "assess", "complete"},
           pipelineStep' = "assess" => Len(passes) = 1
    PROVE  AskedInv' /\ HistoryInv' /\ CurrentInv' /\ ResultInv' /\ Current' = pass /\ asked.models
<1>1. /\ passes # <<>> /\ IsList(passes) /\ Len(passes) \in {1, 2} /\ runResult = NoRunResult
      /\ EvidenceOf(Current.found, Current.plan)
      /\ PlanOf(asked.question, Current.plan, QueryLimit + Len(passes) - 1)
  BY OnCurrent
<1>2. IsList(passes') /\ Len(passes') = Len(passes) /\ Current' = pass
  BY <1>1, CurrentIsSet
<1>3. passes' # <<>>
  <2>1. Len(passes') # 0
    BY <1>1, <1>2
  <2> QED
    BY <2>1
<1>4. AskedInv' /\ asked.models
  BY DEF PipelineInv, AskedInv, StepInv
<1>5. HistoryInv' /\ ResultInv'
  BY <1>1, <1>2, <1>3 DEF HistoryInv, ResultInv
<1>6. CurrentInv'
  BY <1>1, <1>2, <1>3 DEF CurrentInv
<1> QED
  BY <1>2, <1>4, <1>5, <1>6

\* A draft is the candidate until it is polished.
LEMMA GenerateStep == PipelineInv /\ Generate => PipelineInv'
<1> SUFFICES ASSUME PipelineInv, Generate PROVE PipelineInv'
  OBVIOUS
<1>1. pipelineStep = "generate" /\ pipelineStep' = "polish" /\ asked' = asked /\ runResult' = runResult
  BY DEF Generate, Goto
<1>2. PICK said \in Generation \cup {ProviderError} :
        SetCurrent([Current EXCEPT
          !.candidate = IF said = ProviderError THEN <<>> ELSE said.text,
          !.draft = IF said = ProviderError THEN <<>> ELSE said.text,
          !.warnings = CASE said = ProviderError -> {"provider"}
                         [] said # ProviderError /\ said.cut -> {"truncated"}
                         [] OTHER -> {}])
  BY Zenon DEF Generate
<1> DEFINE text == IF said = ProviderError THEN <<>> ELSE said.text
           warned == CASE said = ProviderError -> {"provider"}
                       [] said # ProviderError /\ said.cut -> {"truncated"}
                       [] OTHER -> {}
           pass == WithDraft(Current, text, warned)
<1>3. IsList(text)
  <2>1. IsList(<<>>)
    BY DEF IsList
  <2> QED
    BY <2>1, PipelineAssumption
<1> HIDE DEF text, warned
<1>4. IsPass(Current)
  BY <1>1, OnCurrent
<1>5. /\ IsPass(pass) /\ pass.plan = Current.plan /\ pass.found = Current.found
      /\ pass.candidate = text /\ pass.draft = text /\ pass.source = Current.source
  BY <1>4, DraftWritten
<1>6. SetCurrent(pass)
  BY <1>2 DEF text, warned, WithDraft
<1> HIDE DEF pass
<1>7. AskedInv' /\ HistoryInv' /\ CurrentInv' /\ ResultInv' /\ Current' = pass /\ asked.models
  BY <1>1, <1>5, <1>6, PassWritten
<1>8. StepInv'
  <2>1. pass.source = "safe_fallback"
    BY <1>1, <1>5 DEF PipelineInv, StepInv
  <2> QED
    BY <1>1, <1>3, <1>5, <1>7, <2>1 DEF StepInv
<1> QED
  BY <1>7, <1>8 DEF PipelineInv

\* The polisher leaves a candidate without figures of its own.
LEMMA PolishStep == PipelineInv /\ Polish => PipelineInv'
<1> SUFFICES ASSUME PipelineInv, Polish PROVE PipelineInv'
  OBVIOUS
<1>1. pipelineStep = "polish" /\ pipelineStep' = "verify" /\ asked' = asked /\ runResult' = runResult
  BY DEF Polish, Goto
<1>2. /\ passes # <<>> /\ IsList(passes) /\ Len(passes) \in {1, 2} /\ IsPass(Current)
      /\ IsList(Current.draft) /\ Current.candidate = Current.draft /\ Current.source = "safe_fallback"
  BY <1>1, OnCurrent DEF PipelineInv, StepInv
<1> DEFINE Polished(pass) ==
             /\ IsPass(pass) /\ pass.plan = Current.plan /\ pass.found = Current.found
             /\ pass.source = "safe_fallback"
             /\ IsList(pass.candidate) /\ ValuesIn(pass.candidate) \subseteq ValuesIn(pass.draft)
<1>3. CASE UNCHANGED passes
  <2>1. Current' = Current
    BY <1>3 DEF Current
  <2>2. AskedInv' /\ HistoryInv' /\ CurrentInv' /\ ResultInv'
    BY <1>1, <1>2, <1>3, <2>1 DEF PipelineInv, AskedInv, HistoryInv, CurrentInv, ResultInv
  <2>3. StepInv'
    BY <1>1, <1>2, <2>1 DEF PipelineInv, StepInv
  <2> QED
    BY <2>2, <2>3 DEF PipelineInv
<1>4. ASSUME NEW pass, SetCurrent(pass), Polished(pass) PROVE PipelineInv'
  <2>1. AskedInv' /\ HistoryInv' /\ CurrentInv' /\ ResultInv' /\ Current' = pass /\ asked.models
    BY <1>1, <1>4, PassWritten
  <2>2. StepInv'
    BY <1>1, <1>4, <2>1 DEF StepInv
  <2> QED
    BY <2>1, <2>2 DEF PipelineInv
<1>5. ASSUME NEW warned PROVE Polished([Current EXCEPT !.warnings = warned])
  <2> DEFINE pass == [Current EXCEPT !.warnings = warned]
  <2>1. /\ IsPass(pass) /\ pass.plan = Current.plan /\ pass.found = Current.found
        /\ pass.source = Current.source /\ pass.candidate = Current.candidate /\ pass.draft = Current.draft
    BY <1>2 DEF IsPass
  <2> HIDE DEF pass
  <2> QED
    BY <1>2, <2>1 DEF pass
<1>6. ASSUME NEW text, IsList(text), FactMarkersPreserved(Current.draft, text)
      PROVE  Polished([Current EXCEPT !.candidate = text])
  <2> DEFINE pass == [Current EXCEPT !.candidate = text]
  <2>1. /\ IsPass(pass) /\ pass.plan = Current.plan /\ pass.found = Current.found
        /\ pass.source = Current.source /\ pass.candidate = text /\ pass.draft = Current.draft
    BY <1>2 DEF IsPass
  <2>2. ValuesIn(text) \subseteq ValuesIn(Current.draft)
    BY <1>2, <1>6, ValuesKept
  <2> HIDE DEF pass
  <2> QED
    BY <1>2, <1>6, <2>1, <2>2 DEF pass
<1>7. CASE ~ UNCHANGED passes
  <2> HIDE DEF Polished
  <2>1. PICK said \in Generation \cup {ProviderError} :
          SetCurrent(
            CASE said = ProviderError -> [Current EXCEPT !.warnings = {"polish_provider"}]
              [] said # ProviderError /\ (said.cut \/ said.text = <<>> \/ Oversized(said.text)) ->
                   [Current EXCEPT !.warnings = {"polish_invalid"}]
              [] said # ProviderError /\ ~(said.cut \/ said.text = <<>> \/ Oversized(said.text)) ->
                   IF FactMarkersPreserved(Current.draft, said.text)
                   THEN [Current EXCEPT !.candidate = said.text]
                   ELSE [Current EXCEPT !.warnings = {"polish_contract"}])
    BY <1>7, Zenon DEF Polish
  <2>2. \/ SetCurrent([Current EXCEPT !.warnings = {"polish_provider"}])
        \/ SetCurrent([Current EXCEPT !.warnings = {"polish_invalid"}])
        \/ SetCurrent([Current EXCEPT !.warnings = {"polish_contract"}])
        \/ /\ said # ProviderError /\ FactMarkersPreserved(Current.draft, said.text)
           /\ SetCurrent([Current EXCEPT !.candidate = said.text])
    BY <2>1
  <2>3. said # ProviderError => IsList(said.text)
    BY PipelineAssumption
  <2> QED
    BY <1>4, <1>5, <1>6, <2>2, <2>3
<1> QED
  BY <1>3, <1>7

\* Only these fields change.
LEMMA VerdictWritten ==
    ASSUME NEW pass, IsPass(pass), NEW warned, NEW answer, NEW source
    PROVE  LET new == WithAnswer(pass, warned, answer, source) IN
           /\ IsPass(new) /\ new.plan = pass.plan /\ new.found = pass.found /\ new.draft = pass.draft
           /\ new.warnings = warned /\ new.answer = answer /\ new.source = source
<1> DEFINE a == [pass EXCEPT !.warnings = warned]
           b == [a EXCEPT !.answer = answer]
           c == [b EXCEPT !.source = source]
           new == WithAnswer(pass, warned, answer, source)
<1>1. a = [plan |-> pass.plan, found |-> pass.found, candidate |-> pass.candidate, draft |-> pass.draft,
           warnings |-> warned, answer |-> pass.answer, source |-> pass.source]
  BY DEF IsPass
<1>2. new = c
  BY DEF WithAnswer
<1> HIDE DEF a, new
<1>3. b = [plan |-> pass.plan, found |-> pass.found, candidate |-> pass.candidate, draft |-> pass.draft,
           warnings |-> warned, answer |-> answer, source |-> pass.source]
  BY <1>1
<1> HIDE DEF b
<1>4. c = [plan |-> pass.plan, found |-> pass.found, candidate |-> pass.candidate, draft |-> pass.draft,
           warnings |-> warned, answer |-> answer, source |-> source]
  BY <1>3
<1> HIDE DEF c
<1> QED
  BY <1>2, <1>4 DEF IsPass, new

\* The answer becomes the model's when the verifier lets it through.
LEMMA VerifyDraftStep == PipelineInv /\ VerifyDraft => PipelineInv'
<1> SUFFICES ASSUME PipelineInv, VerifyDraft PROVE PipelineInv'
  OBVIOUS
<1>1. pipelineStep = "verify" /\ asked' = asked /\ runResult' = runResult
  BY DEF VerifyDraft
<1>2. pipelineStep' = IF Len(passes) = 1 THEN "assess" ELSE "complete"
  BY DEF VerifyDraft, Goto
<1>3. /\ IsPass(Current) /\ Current.source = "safe_fallback" /\ IsList(Current.found.evidence)
      /\ IsList(Current.candidate) /\ ValuesIn(Current.candidate) \subseteq ValuesIn(Current.draft)
  BY <1>1, OnCurrent DEF PipelineInv, StepInv, EvidenceOf
<1> DEFINE Answers(pass) ==
             /\ IsPass(pass) /\ pass.plan = Current.plan /\ pass.found = Current.found
             /\ ByModel(pass) => Grounded(pass)
             /\ ~ByModel(pass) => pass.warnings # {}
<1>4. ASSUME NEW pass, SetCurrent(pass), Answers(pass) PROVE PipelineInv'
  <2>1. pipelineStep' \in {"assess", "complete"} /\ (pipelineStep' = "assess" => Len(passes) = 1)
    BY <1>2
  <2>2. AskedInv' /\ HistoryInv' /\ CurrentInv' /\ ResultInv' /\ Current' = pass /\ asked.models
    BY <1>1, <1>4, <2>1, PassWritten
  <2>3. ByModel(Current)' = ByModel(pass) /\ Grounded(Current)' = Grounded(pass)
    BY <2>2 DEF ByModel, Grounded
  <2>4. StepInv'
    BY <1>1, <1>4, <2>1, <2>2, <2>3 DEF StepInv
  <2> QED
    BY <2>2, <2>4 DEF PipelineInv
<1> DEFINE verdict == Verify(Current.candidate, Current.found.evidence, Current.found.corpus, Current.found.scope)
           dropped == [Current EXCEPT !.warnings = @ \cup IF "provider" \in @ THEN {} ELSE {"empty_or_oversized"}]
<1>5. \/ SetCurrent(Current) /\ "truncated" \in Current.warnings
      \/ SetCurrent(dropped)
      \/ SetCurrent(Verified(verdict)) /\ "truncated" \notin Current.warnings
  BY Zenon DEF VerifyDraft
<1>6. CASE SetCurrent(Current) /\ "truncated" \in Current.warnings
  <2>1. Answers(Current)
    BY <1>3, <1>6 DEF ByModel
  <2> HIDE DEF Answers
  <2> QED
    BY <1>4, <1>6, <2>1
<1>7. CASE SetCurrent(dropped)
  <2>1. /\ IsPass(dropped) /\ dropped.plan = Current.plan /\ dropped.found = Current.found
        /\ dropped.source = Current.source
    BY <1>3 DEF IsPass
  <2>2. dropped.warnings = Current.warnings \cup IF "provider" \in Current.warnings THEN {} ELSE {"empty_or_oversized"}
    BY <1>3 DEF IsPass
  <2> HIDE DEF dropped
  <2>3. Answers(dropped)
    BY <1>3, <2>1, <2>2 DEF ByModel
  <2> HIDE DEF Answers
  <2> QED
    BY <1>4, <1>7, <2>3
<1>8. CASE SetCurrent(Verified(verdict)) /\ "truncated" \notin Current.warnings
  <2> DEFINE warned == Current.warnings \cup verdict.warnings
             answer == IF verdict.disposition = "fallback" THEN Current.answer ELSE verdict.answer
             source == CASE verdict.disposition = "accepted" -> "model"
                         [] verdict.disposition = "repaired" -> "model_repaired"
                         [] OTHER -> Current.source
             pass == WithAnswer(Current, warned, answer, source)
  <2>1. /\ verdict.disposition \in {"accepted", "repaired", "fallback"}
        /\ verdict.disposition # "fallback" =>
             /\ GroundedIn(verdict.answer, Current.found.evidence, Current.found.corpus, Current.found.scope)
             /\ DrawnFrom(verdict.answer, Current.candidate)
        /\ verdict.disposition = "fallback" => verdict.warnings # {}
        /\ "truncated" \notin verdict.warnings
    BY <1>3, VerdictIsGrounded
  <2>2. Verified(verdict) = pass
    BY Zenon DEF Verified, WithAnswer
  <2> HIDE DEF verdict
  <2>3. CASE verdict.disposition = "fallback"
    <3>1. source = "safe_fallback" /\ warned # {}
      BY <1>3, <2>1, <2>3
    <3> HIDE DEF warned, answer, source
    <3>2. /\ IsPass(pass) /\ pass.plan = Current.plan /\ pass.found = Current.found
          /\ pass.warnings = warned /\ pass.source = source
      BY <1>3, VerdictWritten
    <3> HIDE DEF pass
    <3>3. Answers(pass)
      BY <3>1, <3>2 DEF ByModel
    <3> HIDE DEF Answers
    <3> QED
      BY <1>4, <1>8, <2>2, <3>3
  <2>4. CASE verdict.disposition # "fallback"
    <3>1. /\ GroundedIn(answer, Current.found.evidence, Current.found.corpus, Current.found.scope)
          /\ ValuesIn(answer) \subseteq ValuesIn(Current.draft)
      BY <1>3, <2>1, <2>4, DrawnValues
    <3>2. source \in {"model", "model_repaired"} /\ "truncated" \notin warned
      BY <1>8, <2>1, <2>4
    <3> HIDE DEF warned, answer, source
    <3>3. /\ IsPass(pass) /\ pass.plan = Current.plan /\ pass.found = Current.found /\ pass.draft = Current.draft
          /\ pass.warnings = warned /\ pass.answer = answer /\ pass.source = source
      BY <1>3, VerdictWritten
    <3> HIDE DEF pass
    <3>4. Answers(pass)
      BY <3>1, <3>2, <3>3 DEF ByModel, Grounded
    <3> HIDE DEF Answers
    <3> QED
      BY <1>4, <1>8, <2>2, <3>4
  <2> QED
    BY <2>3, <2>4
<1> QED
  BY <1>5, <1>6, <1>7, <1>8

\* The second pass starts like the first, with one query more.
LEMMA AssessStep == PipelineInv /\ AssessAdequacy => PipelineInv'
<1> SUFFICES ASSUME PipelineInv, AssessAdequacy PROVE PipelineInv'
  OBVIOUS
<1>1. pipelineStep = "assess" /\ asked' = asked /\ runResult' = runResult
  BY DEF AssessAdequacy
<1>2. /\ passes # <<>> /\ IsList(passes) /\ Len(passes) = 1 /\ runResult = NoRunResult
      /\ PlanOf(asked.question, Current.plan, QueryLimit) /\ asked.models
  <2>1. Len(passes) = 1 /\ asked.models
    BY <1>1 DEF PipelineInv, HistoryInv, StepInv
  <2> QED
    BY <1>1, <2>1, OnCurrent DEF QueryLimit
<1>3. CASE pipelineStep' = "complete" /\ UNCHANGED passes
  <2>1. Current' = Current
    BY <1>3 DEF Current
  <2>2. ByModel(Current)' = ByModel(Current) /\ Grounded(Current)' = Grounded(Current)
    BY <2>1 DEF ByModel, Grounded
  <2>3. AskedInv' /\ HistoryInv' /\ CurrentInv' /\ ResultInv'
    BY <1>1, <1>2, <1>3, <2>1 DEF PipelineInv, AskedInv, HistoryInv, CurrentInv, ResultInv
  <2>4. StepInv'
    BY <1>1, <1>2, <1>3, <2>1, <2>2 DEF PipelineInv, StepInv
  <2> QED
    BY <2>3, <2>4 DEF PipelineInv
<1>4. ASSUME NEW gap \in GapQuery, NEW found \in EngineResult, pipelineStep' = "generate",
             passes' = <<NewPass(Current.plan, Current.found),
                         NewPass([Current.plan EXCEPT !.queries = Append(@, RetrievalQuery(gap, "answer_gap", 115))],
                                 [found EXCEPT !.warnings = @ \cup Current.plan.warnings])>>
      PROVE  PipelineInv'
  <2> DEFINE first == NewPass(Current.plan, Current.found)
             query == RetrievalQuery(gap, "answer_gap", 115)
             queries == Append(Current.plan.queries, query)
             plan == [Current.plan EXCEPT !.queries = Append(@, query)]
             pass == NewPass(plan, [found EXCEPT !.warnings = @ \cup plan.warnings])
  <2>1. IsPlan(plan) /\ plan.queries = queries /\ plan.warnings = Current.plan.warnings
    <3>1. IsPlan(Current.plan)
      BY <1>2 DEF PlanOf
    <3> HIDE DEF query
    <3> QED
      BY <3>1 DEF IsPlan
  <2>2. /\ IsList(queries) /\ Len(queries) = Len(Current.plan.queries) + 1
        /\ Current.plan.queries # <<>> => queries # <<>> /\ queries[1] = Current.plan.queries[1]
    <3> DEFINE before == Current.plan.queries
    <3>1. IsList(before)
      BY <1>2 DEF PlanOf
    <3>2. IsList(<<query>>) /\ Len(<<query>>) = 1
      BY DEF IsList
    <3> HIDE DEF before, query
    <3>3. queries = before \o <<query>>
      <4>1. \A S : \A s \in Seq(S) : \A e \in S : Append(s, e) = s \o <<e>>
        OBVIOUS
      <4> DEFINE S == {before[i] : i \in DOMAIN before} \cup {query}
      <4>2. before \in Seq(S) /\ query \in S
        BY <3>1, SeqMonotonic DEF IsList
      <4> HIDE DEF S
      <4> QED
        BY <4>1, <4>2 DEF before
    <3> HIDE DEF queries
    <3> QED
      BY <3>1, <3>2, <3>3, ListJoin DEF before
  <2> HIDE DEF query, queries, plan
  <2>3. PlanOf(asked.question, plan, QueryLimit + 1)
    <3>1. Len(queries) <= QueryLimit + 1
      <4> DEFINE n == Len(Current.plan.queries)
      <4>1. n \in Nat /\ n <= QueryLimit
        BY <1>2, ListShape DEF PlanOf
      <4> HIDE DEF n
      <4> QED
        BY <2>2, <4>1 DEF n, QueryLimit
    <3>2. /\ "truncated" \notin plan.warnings
          /\ asked.question.text.chars <= LongestQuery => queries # <<>> /\ queries[1].text = asked.question.text
      BY <1>2, <2>1, <2>2 DEF PlanOf
    <3> QED
      BY <2>1, <2>2, <3>1, <3>2 DEF PlanOf
  <2>4. IsPass(pass) /\ pass.plan = plan /\ EvidenceOf(pass.found, plan) /\ pass.source = "safe_fallback"
    BY <2>3, FreshPass
  <2>5. passes' = <<first, pass>>
    BY <1>4, <2>1 DEF plan, query
  <2> HIDE DEF first, pass
  <2>6. passes' # <<>> /\ IsList(passes') /\ Len(passes') = 2 /\ Current' = pass
    BY <2>5 DEF IsList, Current
  <2>7. AskedInv' /\ HistoryInv' /\ ResultInv'
    BY <1>1, <1>2, <1>4, <2>6 DEF PipelineInv, AskedInv, HistoryInv, ResultInv
  <2>8. CurrentInv'
    <3>1. QueryLimit + 2 - 1 = QueryLimit + 1
      BY DEF QueryLimit
    <3> QED
      BY <1>1, <2>3, <2>4, <2>6, <3>1 DEF CurrentInv
  <2>9. StepInv'
    BY <1>1, <1>2, <1>4, <2>4, <2>6 DEF StepInv
  <2> QED
    BY <2>7, <2>8, <2>9 DEF PipelineInv
<1> QED
  BY <1>3, <1>4 DEF AssessAdequacy, Goto

\* What is persisted is the last pass.
LEMMA CompleteStep == PipelineInv /\ CompleteAnswer => PipelineInv'
<1> SUFFICES ASSUME PipelineInv, CompleteAnswer PROVE PipelineInv'
  OBVIOUS
<1>1. pipelineStep = "complete" /\ asked' = asked /\ passes' = passes /\ Current' = Current
  BY DEF CompleteAnswer, Current
<1>2. \/ runResult' = ResultOf(passes) /\ pipelineStep' = "done"
      \/ runResult' = runResult /\ pipelineStep' = "failed"
  BY DEF CompleteAnswer, Goto
<1>3. ByModel(Current)' = ByModel(Current) /\ Grounded(Current)' = Grounded(Current)
  BY <1>1 DEF ByModel, Grounded
<1>4. passes # <<>> /\ runResult = NoRunResult
  BY <1>1, OnCurrent
<1>5. AskedInv' /\ HistoryInv' /\ CurrentInv'
  BY <1>1, <1>2, <1>4 DEF PipelineInv, AskedInv, HistoryInv, CurrentInv
<1>6. ResultInv'
  BY <1>1, <1>2, <1>4 DEF ResultInv, ResultOf
<1>7. StepInv'
  BY <1>1, <1>2, <1>3 DEF PipelineInv, StepInv
<1> QED
  BY <1>5, <1>6, <1>7 DEF PipelineInv

\* The invariant holds in every reachable state.
LEMMA PipelineInvIsInvariant == PipelineSpec => []PipelineInv
<1>1. PipelineInit => PipelineInv
  BY DEF PipelineInit, PipelineInv, AskedInv, HistoryInv, CurrentInv, StepInv, ResultInv
<1>2. PipelineInv /\ [PipelineNext]_pipelineVars => PipelineInv'
  <2> SUFFICES ASSUME PipelineInv, [PipelineNext]_pipelineVars PROVE PipelineInv'
    OBVIOUS
  <2>1. CASE UNCHANGED pipelineVars
    <3>1. Current' = Current /\ asked' = asked /\ passes' = passes /\ pipelineStep' = pipelineStep /\ runResult' = runResult
      BY <2>1 DEF pipelineVars, Current
    <3>2. ByModel(Current)' = ByModel(Current) /\ Grounded(Current)' = Grounded(Current)
      BY <3>1 DEF ByModel, Grounded
    <3> QED
      BY <3>1, <3>2 DEF PipelineInv, AskedInv, HistoryInv, CurrentInv, StepInv, ResultInv, ResultOf
  <2> QED
    BY <2>1, FindEvidenceStep, GenerateStep, PolishStep, VerifyDraftStep, AssessStep, CompleteStep DEF PipelineNext
<1> QED
  BY <1>1, <1>2, PTL DEF PipelineSpec

\* Whatever the models say and whichever of their calls fail, what a run persists
\* (_complete of answer_runs) is grounded in what it persists with it.
THEOREM AnswersStayGrounded == PipelineSpec => []AnswersAreGrounded
<1>1. PipelineInv => AnswersAreGrounded
  <2> SUFFICES ASSUME PipelineInv, runResult # NoRunResult PROVE AnswersAreGrounded
    BY DEF AnswersAreGrounded
  <2>1. pipelineStep = "done" /\ passes # <<>> /\ runResult = ResultOf(passes)
    BY DEF PipelineInv, ResultInv
  <2>2. /\ Len(passes) \in {1, 2} /\ EvidenceOf(Current.found, Current.plan)
        /\ PlanOf(asked.question, Current.plan, QueryLimit + Len(passes) - 1)
    BY <2>1 DEF PipelineInv, HistoryInv, CurrentInv
  <2>3. /\ ByModel(Current) => Grounded(Current)
        /\ ~ByModel(Current) /\ asked.models => Current.warnings # {}
    BY <2>1 DEF PipelineInv, StepInv
  <2>4. /\ runResult.answer = Current.answer /\ runResult.source = Current.source
        /\ runResult.warnings = Current.warnings \cup Current.found.warnings
        /\ runResult.evidence = Current.found.evidence /\ runResult.plan = Current.plan
    BY <2>1 DEF ResultOf, Current
  <2>5. ByModel(runResult) = ByModel(Current)
    BY <2>4 DEF ByModel
  <2>6. ByModel(runResult) =>
          /\ CitationsValid(runResult.answer, DOMAIN runResult.evidence)
          /\ UnsupportedFacts(runResult.answer, Current.found.corpus) = {}
          /\ OutsideScope(runResult.answer, Current.found.scope) = {}
          /\ UnsupportedInferences(runResult.answer, Current.found.scope) = {}
          /\ ValuesIn(runResult.answer) \subseteq ValuesIn(Current.draft)
          /\ "truncated" \notin runResult.warnings
    BY <2>2, <2>3, <2>4, <2>5 DEF Grounded, GroundedIn, EvidenceOf
  <2>7. ~ByModel(runResult) /\ asked.models => runResult.warnings # {}
    BY <2>3, <2>4, <2>5
  <2>8. /\ runResult.plan.warnings \subseteq runResult.warnings
        /\ asked.question.text.chars <= LongestQuery => runResult.plan.queries[1].text = asked.question.text
    BY <2>2, <2>4 DEF EvidenceOf, PlanOf
  <2>9. Len(runResult.plan.queries) <= QueryLimit + 1
    <3> DEFINE n == Len(Current.plan.queries)
               many == Len(passes)
    <3>1. n \in Nat /\ n <= QueryLimit + many - 1 /\ many \in {1, 2}
      BY <2>2, ListShape DEF PlanOf
    <3> HIDE DEF n, many
    <3>2. n <= QueryLimit + 1
      BY <3>1 DEF QueryLimit
    <3> QED
      BY <2>4, <3>2 DEF n
  <2> QED
    BY <2>6, <2>7, <2>8, <2>9 DEF AnswersAreGrounded
<1> QED
  BY <1>1, PipelineInvIsInvariant, PTL

-----------------------------------------------------------------------------
(* The pack: what a step of its selection keeps.                           *)

\* Every entry has a quote of some length.
Measured(E) == \A e \in E : LengthOf(e.quote) \in Nat

Unfit(atoms, e) == Redundant(atoms, e) \/ ~Fits(atoms, e)
SlideShare(atoms, e) == Cardinality(OnSlide(atoms, e.row))
Quoted(atoms) == {atoms[i].row.id : i \in DOMAIN atoms}
\* Why an entry need not be looked at again.
Decided(atoms, e) ==
    e.row.id \in Quoted(atoms) \/ Unfit(atoms, e) \/ Len(atoms) = MaxAtoms \/ SlideShare(atoms, e) = PerSlide
SoundPack(atoms, E) ==
    /\ atoms \in Seq(E) /\ Len(atoms) <= MaxAtoms
    /\ \A e \in E : SlideShare(atoms, e) <= PerSlide
\* More quotes say as much.
StillDecided(atoms, more, E) ==
    /\ \A e \in E : (Decided(atoms, e) => Decided(more, e)) /\ (Unfit(atoms, e) => Unfit(more, e))
    /\ DocumentsOf(atoms) \subseteq DocumentsOf(more)

\* The characters of a pack with a quote more.
LEMMA CharsGrow ==
    ASSUME NEW E, Measured(E), NEW atoms \in Seq(E), NEW e \in E
    PROVE  PackChars(atoms) \in Nat /\ PackChars(Append(atoms, e)) = PackChars(atoms) + LengthOf(e.quote)
<1> DEFINE more == Append(atoms, e)
           lengths == [i \in DOMAIN atoms |-> LengthOf(atoms[i].quote)]
           longer == [i \in DOMAIN more |-> LengthOf(more[i].quote)]
           n == LengthOf(e.quote)
<1>1. /\ Len(atoms) \in Nat /\ DOMAIN atoms = 1 .. Len(atoms) /\ DOMAIN more = 1 .. Len(atoms) + 1
      /\ more[Len(atoms) + 1] = e /\ \A i \in DOMAIN atoms : more[i] = atoms[i] /\ atoms[i] \in E
  OBVIOUS
<1> HIDE DEF more
<1>2. lengths \in Seq(Nat) /\ Len(lengths) = Len(atoms) /\ n \in Nat
  BY <1>1 DEF Measured
<1>3. /\ longer \in Seq(Nat) /\ Len(longer) = Len(lengths) + 1 /\ longer[Len(longer)] = n
      /\ \A i \in 1 .. Len(lengths) : longer[i] = lengths[i]
  <2>1. \A i \in 1 .. Len(atoms) + 1 : more[i] \in E /\ LengthOf(more[i].quote) \in Nat
    <3>1. \A i \in 1 .. Len(atoms) + 1 : i \in DOMAIN atoms \/ i = Len(atoms) + 1
      BY <1>1
    <3> QED
      BY <1>1, <3>1 DEF Measured
  <2>2. longer \in Seq(Nat) /\ Len(longer) = Len(atoms) + 1
    BY <1>1, <2>1
  <2>3. longer[Len(atoms) + 1] = n
    BY <1>1
  <2>4. \A i \in 1 .. Len(atoms) : longer[i] = lengths[i]
    BY <1>1
  <2> QED
    BY <1>2, <2>2, <2>3, <2>4
<1>4. PackChars(atoms) = ListTotal(lengths) /\ PackChars(more) = ListTotal(longer)
  BY DEF PackChars
<1> HIDE DEF lengths, longer, n
<1> QED
  BY <1>2, <1>3, <1>4, TotalGrows DEF n, more

\* The quotes on a slide, counted.
LEMMA ShareGrows ==
    ASSUME NEW E, NEW atoms \in Seq(E), NEW e \in E, NEW f \in E
    PROVE  /\ SlideShare(atoms, f) \in Nat
           /\ (f.row.doc = e.row.doc /\ f.row.slide = e.row.slide) =>
                SlideShare(atoms, f) = SlideShare(atoms, e) /\ SlideShare(Append(atoms, e), f) = SlideShare(atoms, f) + 1
           /\ ~(f.row.doc = e.row.doc /\ f.row.slide = e.row.slide) =>
                SlideShare(Append(atoms, e), f) = SlideShare(atoms, f)
<1> DEFINE more == Append(atoms, e)
           n == Len(atoms) + 1
           here == OnSlide(atoms, f.row)
<1>1. /\ Len(atoms) \in Nat /\ DOMAIN atoms = 1 .. Len(atoms) /\ DOMAIN more = 1 .. n
      /\ more[n] = e /\ \A i \in DOMAIN atoms : more[i] = atoms[i]
  OBVIOUS
<1>2. n \notin DOMAIN atoms /\ DOMAIN more = DOMAIN atoms \cup {n}
  BY <1>1
<1>3. here \subseteq DOMAIN atoms /\ IsFiniteSet(here)
  <2>0. 1 \in Int /\ Len(atoms) \in Int
    OBVIOUS
  <2>1. IsFiniteSet(1 .. Len(atoms))
    BY <2>0, FS_Interval
  <2>2. here \subseteq DOMAIN atoms
    BY DEF OnSlide
  <2> QED
    BY <1>1, <2>1, <2>2, FS_Subset
<1> HIDE DEF more, n
<1>4. CASE f.row.doc = e.row.doc /\ f.row.slide = e.row.slide
  <2>1. here = OnSlide(atoms, e.row) /\ OnSlide(more, f.row) = here \cup {n}
    BY <1>1, <1>2, <1>4 DEF OnSlide
  <2> HIDE DEF here
  <2> QED
    BY <1>2, <1>3, <1>4, <2>1, FS_AddElement, FS_CardinalityType DEF SlideShare, more, here
<1>5. CASE ~(f.row.doc = e.row.doc /\ f.row.slide = e.row.slide)
  <2>1. OnSlide(more, f.row) = here
    BY <1>1, <1>2, <1>5 DEF OnSlide
  <2> HIDE DEF here
  <2>2. SlideShare(more, f) = SlideShare(atoms, f) /\ SlideShare(atoms, f) \in Nat
    BY <1>3, <2>1, FS_CardinalityType DEF SlideShare, here
  <2> QED
    BY <1>5, <2>2 DEF more
<1> QED
  BY <1>4, <1>5

\* A quote is added where there is room, and nothing that was decided changes.
LEMMA AppendHolds ==
    ASSUME NEW E, Measured(E), NEW atoms, SoundPack(atoms, E), NEW e \in E, MaxAtoms \in Nat, PerSlide \in Nat,
           MaxChars \in Nat, Len(atoms) < MaxAtoms, SlideShare(atoms, e) < PerSlide
    PROVE  LET more == Append(atoms, e)
           IN SoundPack(more, E) /\ StillDecided(atoms, more, E) /\ Decided(more, e)
              /\ e.row.doc \in DocumentsOf(more) /\ Len(more) = Len(atoms) + 1
<1> DEFINE more == Append(atoms, e)
           n == Len(atoms) + 1
<1>1. /\ Len(atoms) \in Nat /\ DOMAIN atoms = 1 .. Len(atoms) /\ DOMAIN more = 1 .. n /\ Len(more) = n
      /\ more \in Seq(E) /\ more # <<>> /\ atoms \in Seq(E)
      /\ more[n] = e /\ \A i \in DOMAIN atoms : more[i] = atoms[i]
  BY DEF SoundPack
<1>2. n \in DOMAIN more /\ \A i \in DOMAIN atoms : i \in DOMAIN more
  BY <1>1
<1>3. PackChars(atoms) \in Nat /\ PackChars(more) = PackChars(atoms) + LengthOf(e.quote)
  BY <1>1, CharsGrow
<1>4. ASSUME NEW f \in E
      PROVE  /\ SlideShare(atoms, f) \in Nat
             /\ (f.row.doc = e.row.doc /\ f.row.slide = e.row.slide) =>
                  SlideShare(atoms, f) = SlideShare(atoms, e) /\ SlideShare(more, f) = SlideShare(atoms, f) + 1
             /\ ~(f.row.doc = e.row.doc /\ f.row.slide = e.row.slide) => SlideShare(more, f) = SlideShare(atoms, f)
  BY <1>1, ShareGrows
<1> HIDE DEF more, n
<1>5. SoundPack(more, E)
  <2>1. ASSUME NEW f \in E PROVE SlideShare(more, f) <= PerSlide
    BY <1>4 DEF SoundPack
  <2>2. Len(more) <= MaxAtoms
    BY <1>1 DEF n
  <2> QED
    BY <1>1, <2>1, <2>2 DEF SoundPack
<1>6. ASSUME NEW f \in E, Unfit(atoms, f) PROVE Unfit(more, f)
  <2>1. CASE Redundant(atoms, f)
    BY <1>1, <1>2, <2>1 DEF Redundant, Unfit
  <2>2. CASE ~Fits(atoms, f)
    <3>1. LengthOf(e.quote) \in Nat /\ LengthOf(f.quote) \in Nat
      BY DEF Measured
    <3>2. ~(PackChars(atoms) + LengthOf(f.quote) <= MaxChars)
      BY <2>2 DEF Fits
    <3>3. ~(PackChars(more) + LengthOf(f.quote) <= MaxChars)
      BY <1>3, <3>1, <3>2
    <3> QED
      BY <1>1, <3>3 DEF Fits, Unfit
  <2> QED
    BY <1>6, <2>1, <2>2 DEF Unfit
<1>7. ASSUME NEW f \in E, Decided(atoms, f) PROVE Decided(more, f)
  <2>1. CASE f.row.id \in Quoted(atoms)
    BY <1>1, <1>2, <2>1 DEF Decided, Quoted
  <2>2. CASE Unfit(atoms, f)
    BY <1>6, <2>2 DEF Decided
  <2>3. CASE SlideShare(atoms, f) = PerSlide
    <3>1. SlideShare(more, f) = PerSlide
      BY <1>4, <2>3
    <3> QED
      BY <3>1 DEF Decided
  <2>4. Len(atoms) # MaxAtoms
    <3> DEFINE length == Len(atoms)
    <3>1. length \in Nat /\ length < MaxAtoms
      BY <1>1
    <3> HIDE DEF length
    <3>2. length # MaxAtoms
      BY <3>1
    <3> QED
      BY <3>2 DEF length
  <2> QED
    BY <1>7, <2>1, <2>2, <2>3, <2>4 DEF Decided
<1>8. DocumentsOf(atoms) \subseteq DocumentsOf(more) /\ e.row.doc \in DocumentsOf(more)
  BY <1>1, <1>2 DEF DocumentsOf
<1>9. Decided(more, e)
  BY <1>1, <1>2 DEF Decided, Quoted
<1>10. StillDecided(atoms, more, E)
  BY <1>6, <1>7, <1>8 DEF StillDecided
<1> QED
  BY <1>1, <1>5, <1>8, <1>9, <1>10 DEF more, n

LEMMA AddAtomHolds ==
    ASSUME NEW E, Measured(E), NEW atoms, SoundPack(atoms, E), NEW e \in E, MaxAtoms \in Nat, PerSlide \in Nat,
           MaxChars \in Nat
    PROVE  /\ SoundPack(AddAtom(atoms, e), E) /\ StillDecided(atoms, AddAtom(atoms, e), E)
           /\ Decided(AddAtom(atoms, e), e)
           /\ Len(AddAtom(atoms, e)) \in Nat /\ Len(AddAtom(atoms, e)) <= Len(atoms) + 1
           /\ Len(atoms) < MaxAtoms /\ Addable(atoms, e) => e.row.doc \in DocumentsOf(AddAtom(atoms, e))
<1>1. Len(atoms) \in Nat /\ SlideShare(atoms, e) \in Nat /\ SlideShare(atoms, e) <= PerSlide /\ Len(atoms) <= MaxAtoms
  BY ShareGrows DEF SoundPack
<1>2. CASE Len(atoms) < MaxAtoms /\ Addable(atoms, e)
  <2>1. SlideShare(atoms, e) < PerSlide /\ AddAtom(atoms, e) = Append(atoms, e)
    BY <1>2 DEF Addable, AddAtom, SlideShare
  <2> QED
    BY <1>1, <1>2, <2>1, AppendHolds
<1>3. CASE ~(Len(atoms) < MaxAtoms /\ Addable(atoms, e))
  <2>1. AddAtom(atoms, e) = atoms
    BY <1>3 DEF AddAtom
  <2>2. Decided(atoms, e)
    BY <1>1, <1>3 DEF Addable, Decided, Unfit, SlideShare
  <2>3. StillDecided(atoms, atoms, E)
    BY DEF StillDecided
  <2> QED
    BY <1>1, <1>3, <2>1, <2>2, <2>3
<1> QED
  BY <1>2, <1>3

-----------------------------------------------------------------------------
(* The pack: its selection.                                                *)

\* The steps of AddAtoms.
Adds(added, atoms, ranked) ==
    added[0] = atoms /\ \A i \in 1 .. Len(ranked) : added[i] = AddAtom(added[i - 1], ranked[i])

LEMMA AddSteps ==
    ASSUME NEW E, NEW atoms \in Seq(E), NEW ranked \in Seq(E)
    PROVE  \E added : Adds(added, atoms, ranked) /\ AddAtoms(atoms, ranked) = added[Len(ranked)]
<1> DEFINE N == Len(ranked)
           X == Seq(E)
           Step(i, s) == AddAtom(s, ranked[i])
           Takes(f) == f = [n \in 0 .. N |-> IF n = 0 THEN atoms ELSE Step(n, f[n - 1])]
           added == CHOOSE f : Takes(f)
<1>1. N \in Nat /\ atoms \in X /\ \A i \in 1 .. N : \A s \in X : Step(i, s) \in X
  BY DEF AddAtom
<1>2. AddAtoms(atoms, ranked) = added[N]
  BY DEF AddAtoms
<1> HIDE DEF N, X, Step
<1>3. \E f : Takes(f)
  <2> DEFINE next == [i \in 1 .. N |-> [s \in X |-> Step(i, s)]]
  <2>1. next \in StepsOn(X, N)
    BY <1>1 DEF StepsOn
  <2>2. \A i \in 1 .. N : \A s \in X : next[i][s] = Step(i, s)
    OBVIOUS
  <2> HIDE DEF next
  <2>3. PICK f : Follows(f, X, N, atoms, next)
    BY <1>1, <2>1, Recursion
  <2>4. \A i \in 1 .. N : f[i] = Step(i, f[i - 1])
    <3>1. \A i \in 1 .. N : f[i - 1] \in X
      BY <1>1, <2>3 DEF Follows
    <3> QED
      BY <2>2, <2>3, <3>1 DEF Follows
  <2>5. ASSUME NEW n \in 0 .. N PROVE f[n] = IF n = 0 THEN atoms ELSE Step(n, f[n - 1])
    <3>1. n = 0 \/ n \in 1 .. N
      BY <1>1
    <3> QED
      BY <2>3, <2>4, <3>1 DEF Follows
  <2>6. Takes(f)
    BY <2>3, <2>5 DEF Follows
  <2> QED
    BY <2>6
<1>4. Takes(added)
  BY <1>3
<1> HIDE DEF added
<1>5. added[0] = atoms /\ \A i \in 1 .. N : added[i] = Step(i, added[i - 1])
  <2>1. 0 \in 0 .. N /\ \A i \in 1 .. N : i \in 0 .. N /\ i # 0
    BY <1>1
  <2> QED
    BY <1>4, <2>1
<1> QED
  BY <1>2, <1>5 DEF Adds, N, Step

\* After all rows each of them is decided.
LEMMA AddAtomsHolds ==
    ASSUME NEW E, Measured(E), NEW atoms, SoundPack(atoms, E), NEW ranked \in Seq(E),
           MaxAtoms \in Nat, PerSlide \in Nat, MaxChars \in Nat
    PROVE  /\ SoundPack(AddAtoms(atoms, ranked), E) /\ StillDecided(atoms, AddAtoms(atoms, ranked), E)
           /\ \A i \in DOMAIN ranked : Decided(AddAtoms(atoms, ranked), ranked[i])
<1> DEFINE N == Len(ranked)
           Through(s, n) == /\ SoundPack(s, E) /\ StillDecided(atoms, s, E)
                            /\ \A i \in 1 .. n : Decided(s, ranked[i])
<1>1. N \in Nat /\ DOMAIN ranked = 1 .. N /\ \A i \in 1 .. N : ranked[i] \in E
  OBVIOUS
<1>2. PICK added : Adds(added, atoms, ranked) /\ AddAtoms(atoms, ranked) = added[N]
  BY AddSteps DEF SoundPack
<1> DEFINE T == {n \in 0 .. N : Through(added[n], n)}
<1>3. 0 \in T
  BY <1>1, <1>2 DEF Adds, StillDecided
<1>4. ASSUME NEW n \in 1 .. N, n - 1 \in T PROVE n \in T
  <2> DEFINE before == added[n - 1]
             after == added[n]
  <2>1. after = AddAtom(before, ranked[n]) /\ ranked[n] \in E /\ Through(before, n - 1)
    BY <1>1, <1>2, <1>4 DEF Adds
  <2> HIDE DEF before, after
  <2>2. SoundPack(after, E) /\ StillDecided(before, after, E) /\ Decided(after, ranked[n])
    BY <2>1, AddAtomHolds
  <2>3. StillDecided(atoms, after, E)
    BY <2>1, <2>2 DEF StillDecided
  <2>4. ASSUME NEW i \in 1 .. n PROVE Decided(after, ranked[i])
    <3>1. CASE i = n
      BY <2>2, <3>1
    <3>2. CASE i \in 1 .. n - 1
      <4>1. ranked[i] \in E /\ Decided(before, ranked[i])
        BY <1>1, <2>1, <3>2
      <4> QED
        BY <2>2, <4>1 DEF StillDecided
    <3> QED
      BY <1>1, <3>1, <3>2
  <2>5. Through(after, n) /\ n \in 0 .. N
    BY <1>1, <2>2, <2>3, <2>4
  <2> HIDE DEF Through
  <2> QED
    BY <2>5 DEF after
<1> HIDE DEF T
<1>5. \A i \in 1 .. N : i - 1 \in T => i \in T
  BY <1>4
<1>6. N \in T
  <2>1. \A i \in 0 .. N : i \in T
    BY <1>1, <1>3, <1>5, Induction
  <2> QED
    BY <1>1, <2>1
<1> QED
  BY <1>1, <1>2, <1>6 DEF T

\* A document has a quote, or none of its rows can have one.
Served(atoms, ranked, doc) ==
    doc \in DocumentsOf(atoms) \/ \A i \in DOMAIN ranked : ranked[i].row.doc = doc => Unfit(atoms, ranked[i])

LEMMA AddFirstHolds ==
    ASSUME NEW E, Measured(E), NEW atoms, SoundPack(atoms, E), NEW ranked \in Seq(E), NEW doc,
           MaxAtoms \in Nat, PerSlide \in Nat \ {0}, MaxChars \in Nat
    PROVE  LET more == AddFirstOf(ranked, atoms, doc)
           IN /\ SoundPack(more, E) /\ StillDecided(atoms, more, E)
              /\ Len(more) \in Nat /\ Len(more) <= Len(atoms) + 1
              /\ Len(atoms) < MaxAtoms => Served(more, ranked, doc)
<1> DEFINE fitting == {i \in DOMAIN ranked : ranked[i].row.doc = doc /\ Addable(atoms, ranked[i])}
           more == AddFirstOf(ranked, atoms, doc)
<1>1. Len(atoms) \in Nat /\ DOMAIN ranked \subseteq Nat /\ \A i \in DOMAIN ranked : ranked[i] \in E
  BY DEF SoundPack
<1>2. more = IF fitting = {} THEN atoms ELSE AddAtom(atoms, ranked[Min(fitting)])
  BY Zenon DEF AddFirstOf
<1> HIDE DEF more
<1>3. CASE fitting = {}
  <2>1. more = atoms
    BY <1>2, <1>3
  <2>2. ASSUME doc \notin DocumentsOf(atoms), NEW i \in DOMAIN ranked, ranked[i].row.doc = doc
        PROVE  Unfit(atoms, ranked[i])
    <3>1. ~Addable(atoms, ranked[i]) /\ ranked[i] \in E
      BY <1>1, <1>3, <2>2
    <3>2. OnSlide(atoms, ranked[i].row) = {}
      BY <2>2 DEF OnSlide, DocumentsOf
    <3>3. SlideShare(atoms, ranked[i]) = 0
      BY <3>2, FS_EmptySet DEF SlideShare
    <3> QED
      BY <3>1, <3>3 DEF Addable, Unfit, SlideShare
  <2>3. Served(atoms, ranked, doc)
    BY <2>2 DEF Served
  <2>4. StillDecided(atoms, atoms, E)
    BY DEF StillDecided
  <2> QED
    BY <1>1, <2>1, <2>3, <2>4 DEF more
<1>4. CASE fitting # {}
  <2> DEFINE e == ranked[Min(fitting)]
  <2>1. Min(fitting) \in fitting
    BY <1>1, <1>4, FirstOfNumbers
  <2>2. e \in E /\ e.row.doc = doc /\ Addable(atoms, e)
    BY <1>1, <2>1
  <2>3. more = AddAtom(atoms, e)
    BY <1>2, <1>4
  <2> HIDE DEF e, fitting
  <2>4. /\ SoundPack(more, E) /\ StillDecided(atoms, more, E)
        /\ Len(more) \in Nat /\ Len(more) <= Len(atoms) + 1
        /\ Len(atoms) < MaxAtoms => doc \in DocumentsOf(more)
    BY <2>2, <2>3, AddAtomHolds
  <2> QED
    BY <2>4 DEF Served, more
<1> QED
  BY <1>3, <1>4

LEMMA EmptyPack ==
    ASSUME NEW E, MaxAtoms \in Nat, PerSlide \in Nat
    PROVE  SoundPack(<<>>, E)
<1>1. ASSUME NEW e \in E PROVE SlideShare(<<>>, e) = 0
  <2>1. OnSlide(<<>>, e.row) = {}
    BY DEF OnSlide
  <2> QED
    BY <2>1, FS_EmptySet DEF SlideShare
<1> QED
  BY <1>1 DEF SoundPack

\* What a document has it keeps.
LEMMA StillServed ==
    ASSUME NEW E, NEW ranked \in Seq(E), NEW atoms, NEW more, StillDecided(atoms, more, E), NEW doc,
           Served(atoms, ranked, doc)
    PROVE  Served(more, ranked, doc)
BY DEF Served, StillDecided

\* The steps of AddFirsts.
AddsFirsts(added, documents, ranked) ==
    added[0] = <<>> /\ \A i \in 1 .. Len(documents) : added[i] = AddFirstOf(ranked, added[i - 1], documents[i])

LEMMA AddFirstSteps ==
    ASSUME NEW E, Measured(E), NEW ranked \in Seq(E), NEW documents, IsList(documents),
           MaxAtoms \in Nat, PerSlide \in Nat \ {0}, MaxChars \in Nat
    PROVE  \E added : AddsFirsts(added, documents, ranked) /\ AddFirsts(documents, ranked) = added[Len(documents)]
<1> DEFINE N == Len(documents)
           X == {s \in Seq(E) : SoundPack(s, E)}
           Step(i, s) == AddFirstOf(ranked, s, documents[i])
           Takes(f) == f = [n \in 0 .. N |-> IF n = 0 THEN <<>> ELSE Step(n, f[n - 1])]
           added == CHOOSE f : Takes(f)
<1>1. N \in Nat /\ <<>> \in X /\ \A i \in 1 .. N : \A s \in X : Step(i, s) \in X
  <2>1. ASSUME NEW i, NEW s \in X PROVE Step(i, s) \in X
    <3>1. SoundPack(Step(i, s), E)
      BY AddFirstHolds
    <3> QED
      BY <3>1 DEF SoundPack
  <2> QED
    BY <2>1, EmptyPack, ListShape
<1>2. AddFirsts(documents, ranked) = added[N]
  BY DEF AddFirsts
<1> HIDE DEF N, X, Step
<1>3. \E f : Takes(f)
  <2> DEFINE next == [i \in 1 .. N |-> [s \in X |-> Step(i, s)]]
  <2>1. next \in StepsOn(X, N)
    BY <1>1 DEF StepsOn
  <2>2. \A i \in 1 .. N : \A s \in X : next[i][s] = Step(i, s)
    OBVIOUS
  <2> HIDE DEF next
  <2>3. PICK f : Follows(f, X, N, <<>>, next)
    BY <1>1, <2>1, Recursion
  <2>4. \A i \in 1 .. N : f[i] = Step(i, f[i - 1])
    <3>1. \A i \in 1 .. N : f[i - 1] \in X
      BY <1>1, <2>3 DEF Follows
    <3> QED
      BY <2>2, <2>3, <3>1 DEF Follows
  <2>5. ASSUME NEW n \in 0 .. N PROVE f[n] = IF n = 0 THEN <<>> ELSE Step(n, f[n - 1])
    <3>1. n = 0 \/ n \in 1 .. N
      BY <1>1
    <3> QED
      BY <2>3, <2>4, <3>1 DEF Follows
  <2>6. Takes(f)
    BY <2>3, <2>5 DEF Follows
  <2> QED
    BY <2>6
<1>4. Takes(added)
  BY <1>3
<1> HIDE DEF added
<1>5. added[0] = <<>> /\ \A i \in 1 .. N : added[i] = Step(i, added[i - 1])
  <2>1. 0 \in 0 .. N /\ \A i \in 1 .. N : i \in 0 .. N /\ i # 0
    BY <1>1
  <2> QED
    BY <1>4, <2>1
<1> QED
  BY <1>2, <1>5 DEF AddsFirsts, N, Step

\* When there is room for all documents, each is served.
LEMMA AddFirstsHolds ==
    ASSUME NEW E, Measured(E), NEW ranked \in Seq(E), NEW documents, IsList(documents),
           MaxAtoms \in Nat, PerSlide \in Nat \ {0}, MaxChars \in Nat
    PROVE  /\ SoundPack(AddFirsts(documents, ranked), E)
           /\ Len(documents) <= MaxAtoms =>
                \A i \in DOMAIN documents : Served(AddFirsts(documents, ranked), ranked, documents[i])
<1> DEFINE N == Len(documents)
           Through(s, n) == /\ SoundPack(s, E) /\ Len(s) \in Nat /\ Len(s) <= n
                            /\ N <= MaxAtoms => \A i \in 1 .. n : Served(s, ranked, documents[i])
<1>1. N \in Nat /\ DOMAIN documents = 1 .. N
  BY ListShape
<1>2. PICK added : AddsFirsts(added, documents, ranked) /\ AddFirsts(documents, ranked) = added[N]
  BY AddFirstSteps
<1> DEFINE T == {n \in 0 .. N : Through(added[n], n)}
<1>3. 0 \in T
  <2>1. added[0] = <<>> /\ SoundPack(added[0], E)
    BY <1>2, EmptyPack DEF AddsFirsts
  <2> QED
    BY <1>1, <2>1
<1>4. ASSUME NEW n \in 1 .. N, n - 1 \in T PROVE n \in T
  <2> DEFINE before == added[n - 1]
             after == added[n]
  <2>1. after = AddFirstOf(ranked, before, documents[n]) /\ Through(before, n - 1)
    BY <1>1, <1>2, <1>4 DEF AddsFirsts
  <2> HIDE DEF before, after
  <2>2. /\ SoundPack(after, E) /\ StillDecided(before, after, E)
        /\ Len(after) \in Nat /\ Len(after) <= Len(before) + 1
        /\ Len(before) < MaxAtoms => Served(after, ranked, documents[n])
    BY <2>1, AddFirstHolds
  <2>3. ASSUME N <= MaxAtoms, NEW i \in 1 .. n PROVE Served(after, ranked, documents[i])
    <3>1. CASE i = n
      <4>1. Len(before) < MaxAtoms
        BY <1>1, <2>1, <2>3
      <4> QED
        BY <2>2, <3>1, <4>1
    <3>2. CASE i \in 1 .. n - 1
      <4>1. Served(before, ranked, documents[i])
        BY <2>1, <2>3, <3>2
      <4> QED
        BY <2>2, <4>1, StillServed
    <3> QED
      BY <1>1, <3>1, <3>2
  <2>4. Len(after) <= n /\ n \in 0 .. N
    BY <1>1, <2>1, <2>2
  <2>5. Through(after, n)
    BY <2>2, <2>3, <2>4
  <2> HIDE DEF Through
  <2> QED
    BY <2>4, <2>5 DEF after
<1> HIDE DEF T
<1>5. \A i \in 1 .. N : i - 1 \in T => i \in T
  BY <1>4
<1>6. N \in T
  <2>1. \A i \in 0 .. N : i \in T
    BY <1>1, <1>3, <1>5, Induction
  <2> QED
    BY <1>1, <2>1
<1> QED
  BY <1>1, <1>2, <1>6 DEF T

\* The selected pack is fair.
LEMMA SelectionIsFair ==
    ASSUME NEW E, Measured(E), NEW ranked \in Seq(E), NEW documents, IsList(documents),
           MaxAtoms \in Nat, PerSlide \in Nat \ {0}, MaxChars \in Nat
    PROVE  SelectAtoms(documents, ranked) \in Seq(E) /\ FairPack(documents, ranked, SelectAtoms(documents, ranked))
<1> DEFINE first == IF Len(documents) > 1 THEN AddFirsts(documents, ranked) ELSE <<>>
           atoms == SelectAtoms(documents, ranked)
<1>1. /\ SoundPack(first, E)
      /\ Len(documents) \in 2 .. MaxAtoms => \A i \in DOMAIN documents : Served(first, ranked, documents[i])
  <2>1. CASE Len(documents) > 1
    BY <2>1, AddFirstsHolds
  <2>2. CASE ~(Len(documents) > 1)
    <3>1. Len(documents) \notin 2 .. MaxAtoms
      BY <2>2, ListShape
    <3> QED
      BY <2>2, <3>1, EmptyPack
  <2> QED
    BY <2>1, <2>2
<1>2. atoms = AddAtoms(first, ranked)
  BY DEF SelectAtoms
<1> HIDE DEF first, atoms
<1>3. /\ SoundPack(atoms, E) /\ StillDecided(first, atoms, E)
      /\ \A i \in DOMAIN ranked : Decided(atoms, ranked[i])
  BY <1>1, <1>2, AddAtomsHolds
<1>4. Len(documents) \in 2 .. MaxAtoms =>
        \A doc \in ToSet(documents) :
          doc \in DocumentsOf(atoms) \/ \A i \in DOMAIN ranked : ranked[i].row.doc = doc => Unfit(atoms, ranked[i])
  <2>1. Len(documents) \in 2 .. MaxAtoms => \A i \in DOMAIN documents : Served(atoms, ranked, documents[i])
    BY <1>1, <1>3, StillServed
  <2> QED
    BY <2>1 DEF ToSet, Served
<1> QED
  BY <1>3, <1>4 DEF FairPack, SoundPack, Decided, Quoted, SlideShare, Unfit, atoms


-----------------------------------------------------------------------------
(* Rows, their quotes and their ranking.                                   *)

\* A list of rows, whose units have a length.
MeasuredRow(row) == IsList(row.units) /\ \A k \in DOMAIN row.units : row.units[k].length \in Nat
RowList(rows) == IsList(rows) /\ \A i \in DOMAIN rows : MeasuredRow(rows[i])

\* What a row is in the ranking.
Entry(task, row) == Judge(task, row, Quote(row, TaskTerms(task)), ContentRole(row))
Entries(task, rows) == {Entry(task, rows[i]) : i \in DOMAIN rows}

LEMMA QuoteMeasured ==
    ASSUME NEW row, MeasuredRow(row), NEW terms PROVE LengthOf(Quote(row, terms)) \in Nat
<1> DEFINE quote == Quote(row, terms)
           lengths == [i \in DOMAIN quote |-> quote[i].length]
<1>1. IsList(quote) /\ \A i \in DOMAIN quote : \E k \in DOMAIN row.units : quote[i] = row.units[k]
  BY KeepAtList DEF MeasuredRow, Quote
<1> HIDE DEF quote
<1>2. \A i \in DOMAIN quote : quote[i].length \in Nat
  BY <1>1 DEF MeasuredRow
<1>3. Len(quote) \in Nat /\ DOMAIN quote = 1 .. Len(quote)
  BY <1>1, ListShape
<1>4. lengths \in Seq(Nat)
  BY <1>2, <1>3
<1>5. LengthOf(quote) = ListTotal(lengths)
  BY DEF LengthOf
<1> HIDE DEF lengths
<1>6. PICK total : Sums(total, lengths, Nat) /\ ListTotal(lengths) = total[Len(lengths)]
  BY <1>4, TotalSteps
<1>7. Len(lengths) \in 0 .. Len(lengths)
  BY <1>4
<1> QED
  BY <1>5, <1>6, <1>7 DEF Sums, quote

LEMMA EntriesMeasured ==
    ASSUME NEW task, NEW rows, RowList(rows) PROVE Measured(Entries(task, rows))
<1> SUFFICES ASSUME NEW i \in DOMAIN rows PROVE LengthOf(Entry(task, rows[i]).quote) \in Nat
  BY DEF Measured, Entries
<1>1. Entry(task, rows[i]).quote = Quote(rows[i], TaskTerms(task))
  BY DEF Entry, Judge
<1> QED
  BY <1>1, QuoteMeasured DEF RowList

\* The ranking has what the builder accepts, each of it.
LEMMA RankedHolds ==
    ASSUME NEW task, NEW rows, RowList(rows)
    PROVE  /\ RankedRows(task, rows) \in Seq(Entries(task, rows))
           /\ ToSet(RankedRows(task, rows)) = {e \in Entries(task, rows) : Acceptable(task, e)}
<1> DEFINE E == Entries(task, rows)
           judged == JudgedRows(task, rows)
           places == {i \in DOMAIN judged : Acceptable(task, judged[i])}
           accepted == KeepAt(judged, places)
           before == {p \in ToSet(accepted) \X ToSet(accepted) : RanksBefore(p[1], p[2])}
           ranked == Sorted(accepted, before)
<1>1. RankedRows(task, rows) = ranked
  BY Zenon DEF RankedRows
<1>2. judged = [i \in DOMAIN rows |-> Entry(task, rows[i])]
  BY Zenon DEF JudgedRows, Entry
<1>3. Len(rows) \in Nat /\ DOMAIN rows = 1 .. Len(rows)
  BY ListShape DEF RowList
<1>4. judged \in Seq(E) /\ DOMAIN judged = DOMAIN rows /\ E = {judged[i] : i \in DOMAIN judged}
  <2>1. \A i \in 1 .. Len(rows) : Entry(task, rows[i]) \in E
    BY <1>3 DEF Entries
  <2>2. DOMAIN judged = DOMAIN rows /\ \A i \in DOMAIN rows : judged[i] = Entry(task, rows[i])
    BY <1>2
  <2>3. E = {judged[i] : i \in DOMAIN judged}
    BY <2>2 DEF Entries
  <2> HIDE DEF E
  <2> QED
    BY <1>2, <1>3, <2>1, <2>2, <2>3
<1> HIDE DEF judged, E
<1> DEFINE T == {judged[i] : i \in places \cap DOMAIN judged}
<1>5. accepted \in Seq(T) /\ accepted \in Seq(E)
  BY <1>4, KeepAtSeq, KeptHolds
<1>6. T = {e \in E : Acceptable(task, e)}
  BY <1>4
<1>7. \A k \in places : \E i \in DOMAIN accepted : accepted[i] = judged[k]
  <2>1. \A k \in places : k \in DOMAIN judged
    OBVIOUS
  <2> QED
    BY <1>4, <2>1, KeepAtAll
<1> HIDE DEF accepted
<1>8. ToSet(accepted) = T
  <2>1. T \subseteq ToSet(accepted)
    BY <1>7 DEF ToSet
  <2>2. ToSet(accepted) \subseteq T
    <3> HIDE DEF T
    <3> QED
      BY <1>5, ToSetHolds
  <2> QED
    BY <2>1, <2>2
<1> HIDE DEF T
<1>9. ranked \in Seq(E) /\ ToSet(ranked) = ToSet(accepted)
  BY <1>5, SortedHolds
<1> QED
  BY <1>1, <1>6, <1>8, <1>9 DEF E

\* A pack that is fair to many rows is fair to some of them.
LEMMA FairToFewer ==
    ASSUME NEW documents, NEW ranked, NEW few, NEW atoms, FairPack(documents, ranked, atoms),
           ToSet(few) \subseteq ToSet(ranked)
    PROVE  FairPack(documents, few, atoms)
<1>1. \A i \in DOMAIN few : \E k \in DOMAIN ranked : few[i] = ranked[k]
  BY DEF ToSet
<1>2. ASSUME NEW i \in DOMAIN few
      PROVE  \/ few[i].row.id \in {atoms[k].row.id : k \in DOMAIN atoms}
             \/ Redundant(atoms, few[i]) \/ ~Fits(atoms, few[i])
             \/ Len(atoms) = MaxAtoms \/ Cardinality(OnSlide(atoms, few[i].row)) = PerSlide
  <2>1. PICK k \in DOMAIN ranked : few[i] = ranked[k]
    BY <1>1
  <2> QED
    BY <2>1 DEF FairPack
<1>3. ASSUME Len(documents) \in 2 .. MaxAtoms, NEW doc \in ToSet(documents), doc \notin DocumentsOf(atoms),
             NEW i \in DOMAIN few, few[i].row.doc = doc
      PROVE  Redundant(atoms, few[i]) \/ ~Fits(atoms, few[i])
  <2>1. PICK k \in DOMAIN ranked : few[i] = ranked[k]
    BY <1>1
  <2> QED
    BY <1>3, <2>1 DEF FairPack
<1> QED
  BY <1>2, <1>3 DEF FairPack

\* The pack of rows is fair to them.
LEMMA PackIsFair ==
    ASSUME NEW task, IsList(task.documents), NEW rows, RowList(rows), EngineAssumption
    PROVE  /\ IsList(BuildPack(task, rows).atoms)
           /\ FairPack(task.documents, RankedRows(task, rows), BuildPack(task, rows).atoms)
<1> DEFINE E == Entries(task, rows)
           ranked == RankedRows(task, rows)
           atoms == SelectAtoms(task.documents, ranked)
<1>1. Measured(E) /\ ranked \in Seq(E)
  BY EntriesMeasured, RankedHolds
<1>2. MaxAtoms \in Nat /\ PerSlide \in Nat \ {0} /\ MaxChars \in Nat
  BY DEF EngineAssumption
<1>3. BuildPack(task, rows).atoms = atoms
  BY DEF BuildPack, PackOf
<1> HIDE DEF E, ranked, atoms
<1>4. atoms \in Seq(E) /\ FairPack(task.documents, ranked, atoms)
  BY <1>1, <1>2, SelectionIsFair DEF atoms
<1>5. IsList(atoms)
  BY <1>4, ListOf
<1> QED
  BY <1>3, <1>4, <1>5 DEF ranked

\* Rows kept, and rows of two searches.
LEMMA KeptRows ==
    ASSUME NEW rows, RowList(rows), NEW places PROVE RowList(KeepAt(rows, places))
BY KeepAtList DEF RowList

LEMMA MergedRows ==
    ASSUME NEW rows, RowList(rows), NEW more, RowList(more)
    PROVE  /\ RowList(MergeRows(rows, more))
           /\ \A i \in DOMAIN rows : \E k \in DOMAIN MergeRows(rows, more) : MergeRows(rows, more)[k] = rows[i]
<1> DEFINE new == KeepAt(more, {i \in DOMAIN more : ~Has(rows, more[i])})
           S == ToSet(rows) \cup ToSet(new)
           all == rows \o new
<1>1. MergeRows(rows, more) = all /\ RowList(new)
  BY KeptRows DEF MergeRows
<1> HIDE DEF new
<1>2. rows \in Seq(S) /\ new \in Seq(S)
  BY <1>1, SeqMonotonic DEF RowList, IsList, ToSet
<1>3. \A row \in S : MeasuredRow(row)
  BY <1>1 DEF RowList, ToSet
<1> HIDE DEF S
<1>4. all \in Seq(S) /\ ToSet(all) = ToSet(rows) \cup ToSet(new)
  BY <1>2, JoinHolds
<1> HIDE DEF all
<1>5. RowList(all)
  BY <1>3, <1>4, ListOf DEF RowList
<1>6. \A i \in DOMAIN rows : rows[i] \in ToSet(all)
  BY <1>4 DEF ToSet
<1> QED
  BY <1>1, <1>5, <1>6 DEF ToSet

\* What is fair to both searches is fair to the second.
LEMMA MergedIsFair ==
    ASSUME NEW task, NEW again, RowList(again), NEW rows, RowList(rows), NEW atoms,
           FairPack(task.documents, RankedRows(task, MergeRows(again, rows)), atoms)
    PROVE  FairPack(task.documents, RankedRows(task, again), atoms)
<1> DEFINE all == MergeRows(again, rows)
<1>1. RowList(all) /\ \A i \in DOMAIN again : \E k \in DOMAIN all : all[k] = again[i]
  BY MergedRows
<1> HIDE DEF all
<1>2. Entries(task, again) \subseteq Entries(task, all)
  BY <1>1 DEF Entries
<1>3. ToSet(RankedRows(task, again)) \subseteq ToSet(RankedRows(task, all))
  BY <1>1, <1>2, RankedHolds
<1> QED
  BY <1>3, FairToFewer DEF all


-----------------------------------------------------------------------------
(* The contract and what supports its facets.                              *)

\* The tasks of the assumption.
SoundTask(task) ==
    /\ IsList(task.documents) /\ IsList(task.clauses)
    /\ \A i \in DOMAIN task.clauses : /\ IsFiniteSet(task.clauses[i].terms)
                                    /\ IsList(task.clauses[i].subjects) /\ IsList(task.clauses[i].segments)

\* A list of facets that ask for one or two pieces of evidence.
FacetList(facets) == IsList(facets) /\ \A i \in DOMAIN facets : facets[i].minimum \in {1, 2}

LEMMA ClosestIsClause ==
    ASSUME NEW task, SoundTask(task), NEW i \in DOMAIN task.clauses
    PROVE  ClosestClause(task, i) \in DOMAIN task.clauses
<1> DEFINE places == DOMAIN task.clauses
           terms == task.clauses[i].terms
           Shared(k) == Cardinality(terms \cap task.clauses[k].terms)
           counts == {Shared(k) : k \in places}
           best == {k \in places : \A j \in places : Shared(j) <= Shared(k)}
<1>1. ClosestClause(task, i) = Min(best)
  BY Zenon DEF ClosestClause
<1>2. IsFiniteSet(terms) /\ Cardinality(terms) \in Nat
  BY FS_CardinalityType DEF SoundTask
<1>3. \A k \in places : Shared(k) \in Nat /\ Shared(k) <= Cardinality(terms)
  <2> SUFFICES ASSUME NEW k \in places PROVE Shared(k) \in Nat /\ Shared(k) <= Cardinality(terms)
    OBVIOUS
  <2> DEFINE both == terms \cap task.clauses[k].terms
  <2>1. both \subseteq terms
    OBVIOUS
  <2> HIDE DEF both, terms
  <2>2. IsFiniteSet(both) /\ Cardinality(both) <= Cardinality(terms) /\ Cardinality(both) \in Nat
    BY <1>2, <2>1, FS_Subset, FS_CardinalityType
  <2> QED
    BY <2>2 DEF both
<1>4. places \subseteq Nat /\ i \in places
  BY ListShape DEF SoundTask
<1> HIDE DEF Shared, places
<1>5. counts \subseteq Nat /\ counts # {} /\ \A n \in counts : n <= Cardinality(terms)
  BY <1>3, <1>4
<1>6. Max(counts) \in counts /\ \A n \in counts : n <= Max(counts)
  <2> HIDE DEF counts, terms
  <2> QED
    BY <1>2, <1>5, BoundedMax
<1>7. best # {}
  <2>1. PICK k \in places : Shared(k) = Max(counts)
    BY <1>6
  <2>2. \A j \in places : Shared(j) <= Shared(k)
    BY <1>6, <2>1
  <2> QED
    BY <2>2
<1>8. Min(best) \in best
  <2>1. best \subseteq Nat
    BY <1>4
  <2> HIDE DEF best
  <2> QED
    BY <1>7, <2>1, FirstOfNumbers
<1> QED
  BY <1>1, <1>8 DEF places

LEMMA FacetsAreList ==
    ASSUME NEW task, NEW clause, NEW closest, NEW validators,
           IsList(closest.subjects), IsList(closest.segments)
    PROVE  FacetList(FacetsBy(task, clause, closest, validators))
<1> DEFINE F(subject) == Facet(task, clause, closest, validators, subject)
           subjects == IF validators \cap {"numeric", "decision_criterion"} # {} /\ closest.subjects # <<>> THEN closest.subjects
                       ELSE IF "attribution" \in validators THEN closest.segments ELSE <<>>
           facets == IF subjects = <<>> THEN <<F(NoSubject)>> ELSE [k \in DOMAIN subjects |-> F(subjects[k])]
<1>1. FacetsBy(task, clause, closest, validators) = facets
  BY Zenon DEF FacetsBy
<1>2. \A subject : F(subject).minimum \in {1, 2}
  BY DEF Facet, MinimumEvidence
<1>3. IsList(subjects)
  <2>1. <<>> \in Seq({})
    OBVIOUS
  <2>2. IsList(<<>>)
    BY <2>1, ListOf
  <2> QED
    BY <2>2
<1> HIDE DEF F, subjects
<1>4. CASE subjects = <<>>
  <2>1. facets = <<F(NoSubject)>> /\ <<F(NoSubject)>> \in Seq({F(NoSubject)})
    BY <1>4
  <2>2. IsList(facets)
    BY <2>1, ListOf
  <2>3. DOMAIN facets = {1} /\ facets[1] = F(NoSubject)
    BY <2>1
  <2> QED
    BY <1>1, <1>2, <2>2, <2>3 DEF FacetList
<1>5. CASE subjects # <<>>
  <2>1. Len(subjects) \in Nat /\ DOMAIN subjects = 1 .. Len(subjects)
    BY <1>3, ListShape
  <2>2. DOMAIN facets = 1 .. Len(subjects) /\ facets = [k \in 1 .. Len(subjects) |-> F(subjects[k])]
    BY <1>5, <2>1
  <2>3. \A k \in DOMAIN facets : facets[k] = F(subjects[k])
    BY <2>2
  <2> HIDE DEF facets
  <2>4. IsList(facets)
    BY <2>1, <2>2, ListByPlace
  <2> QED
    BY <1>1, <1>2, <2>3, <2>4 DEF FacetList
<1> QED
  BY <1>4, <1>5

LEMMA ContractHolds ==
    ASSUME NEW task, SoundTask(task) PROVE FacetList(Contract(task))
<1> DEFINE F(i) == FacetsOf(task, task.clauses[i], task.clauses[ClosestClause(task, i)])
           lists == [i \in DOMAIN task.clauses |-> F(i)]
           facets == FlattenSeq(lists)
           places == {i \in DOMAIN facets : \A k \in 1 .. i - 1 : ~SameFacet(facets[k], facets[i])}
           S == {f \in UNION {ToSet(F(i)) : i \in DOMAIN task.clauses} : f.minimum \in {1, 2}}
<1>1. Contract(task) = KeepAt(facets, places)
  BY Zenon DEF Contract
<1>2. \A i \in DOMAIN task.clauses : FacetList(F(i))
  <2> SUFFICES ASSUME NEW i \in DOMAIN task.clauses PROVE FacetList(F(i))
    OBVIOUS
  <2> DEFINE closest == task.clauses[ClosestClause(task, i)]
  <2>1. IsList(closest.subjects) /\ IsList(closest.segments)
    BY ClosestIsClause DEF SoundTask
  <2> HIDE DEF closest
  <2>2. F(i) = FacetsBy(task, task.clauses[i], closest, ValidatorsFor(task, task.clauses[i].marks \cup closest.marks))
    BY Zenon DEF FacetsOf, closest
  <2> HIDE DEF F
  <2> QED
    BY <2>1, <2>2, FacetsAreList
<1>3. Len(task.clauses) \in Nat /\ DOMAIN task.clauses = 1 .. Len(task.clauses)
  BY ListShape DEF SoundTask
<1> HIDE DEF F
<1>4. \A i \in DOMAIN task.clauses : F(i) \in Seq(S)
  <2> SUFFICES ASSUME NEW i \in DOMAIN task.clauses PROVE F(i) \in Seq(S)
    OBVIOUS
  <2>1. F(i) \in Seq(ToSet(F(i)))
    BY <1>2 DEF FacetList, IsList, ToSet
  <2>2. ToSet(F(i)) \subseteq S
    BY <1>2 DEF FacetList, ToSet
  <2> HIDE DEF S
  <2> QED
    BY <2>1, <2>2, SeqMonotonic
<1>5. \A f \in S : f.minimum \in {1, 2}
  OBVIOUS
<1> HIDE DEF S
<1>6. lists \in Seq(Seq(S))
  BY <1>3, <1>4
<1> HIDE DEF lists
<1>7. facets \in Seq(S)
  BY <1>6, FlattenSeqSeq
<1> HIDE DEF facets, places
<1>8. KeepAt(facets, places) \in Seq(S)
  BY <1>7, KeptHolds
<1>9. FacetList(KeepAt(facets, places))
  BY <1>5, <1>8, ListOf DEF FacetList
<1> QED
  BY <1>1, <1>9

\* The contexts of some places of a list are finitely many.
LEMMA ContextsFinite ==
    ASSUME NEW evidence, IsList(evidence), NEW places, places \subseteq DOMAIN evidence
    PROVE  Cardinality({ContextOf(evidence[k]) : k \in places}) \in Nat
<1> DEFINE C == {ContextOf(evidence[k]) : k \in places}
           at == [k \in places |-> ContextOf(evidence[k])]
<1>1. IsFiniteSet(places)
  <2>1. Len(evidence) \in Nat /\ DOMAIN evidence = 1 .. Len(evidence)
    BY ListShape
  <2>2. 1 \in Int /\ Len(evidence) \in Int
    BY <2>1
  <2>3. IsFiniteSet(1 .. Len(evidence))
    BY <2>2, FS_Interval
  <2> QED
    BY <2>1, <2>3, FS_Subset
<1>2. at \in Surjection(places, C)
  BY DEF Surjection
<1> HIDE DEF at, C
<1>3. IsFiniteSet(C)
  BY <1>1, <1>2, FS_Surjection
<1> QED
  BY <1>3, FS_CardinalityType DEF C

\* A facet is supported by reliable pieces from enough places, and a number is
\* not a vision model's.
SupportedBy(item, evidence) ==
    /\ \A k \in item.cited : Reliable(item.facet, evidence[k])
    /\ Cardinality({ContextOf(evidence[k]) : k \in item.cited}) >= item.facet.minimum
    /\ "numeric" \in item.facet.validators =>
         \E k \in item.cited : ~evidence[k].row.visual /\ "digit" \in MarksOf(TextOf(evidence[k]))

LEMMA SupportHolds ==
    ASSUME NEW facet, facet.minimum \in {1, 2}, NEW evidence, IsList(evidence),
           FacetCoverage(facet, evidence).status = "supported"
    PROVE  SupportedBy(FacetCoverage(facet, evidence), evidence)
<1> DEFINE related == {i \in DOMAIN evidence : Related(facet, evidence[i])}
           reliable == {i \in related : Reliable(facet, evidence[i])}
           found == {evidence[i] : i \in reliable}
           missing == Missing(facet, found)
           item == Item(facet, evidence, related, reliable)
<1>1. FacetCoverage(facet, evidence) = item
  BY Zenon DEF FacetCoverage
<1>2. /\ item.facet = facet /\ item.status = Status(related, reliable, missing)
      /\ item.cited = IF reliable # {} THEN reliable ELSE related
  BY DEF Item
<1>3. reliable \subseteq related /\ reliable \subseteq DOMAIN evidence /\ \A k \in reliable : Reliable(facet, evidence[k])
  OBVIOUS
<1> HIDE DEF item, missing, reliable, related
<1>4. reliable # {} /\ missing = {}
  BY <1>1, <1>2, <1>3 DEF Status
<1>5. item.cited = reliable
  BY <1>2, <1>4
<1>6. Cardinality({ContextOf(evidence[k]) : k \in reliable}) >= facet.minimum
  <2> DEFINE C == {ContextOf(evidence[k]) : k \in reliable}
             n == Cardinality(C)
  <2>1. C = {ContextOf(e) : e \in found}
    OBVIOUS
  <2>2. ~(Cardinality({ContextOf(e) : e \in found}) < facet.minimum)
    <3> HIDE DEF found
    <3> QED
      BY <1>4 DEF missing, Missing
  <2>3. n \in Nat
    BY <1>3, ContextsFinite
  <2>4. ~(n < facet.minimum)
    <3> HIDE DEF C, found
    <3> QED
      BY <2>1, <2>2
  <2> HIDE DEF n
  <2>5. n >= facet.minimum
    BY <2>3, <2>4
  <2> QED
    BY <2>5 DEF n
<1>7. ASSUME "numeric" \in facet.validators
      PROVE  \E k \in reliable : ~evidence[k].row.visual /\ "digit" \in MarksOf(TextOf(evidence[k]))
  <2>1. Satisfied("numeric", found)
    <3> HIDE DEF found
    <3> QED
      BY <1>4, <1>7 DEF missing, Missing, Missing_Uncounted
  <2>2. "digit" \in UNION {MarksOf(TextOf(e)) : e \in found}
    <3> HIDE DEF found
    <3> QED
      BY <2>1 DEF Satisfied
  <2>3. PICK k \in reliable : "digit" \in MarksOf(TextOf(evidence[k]))
    BY <2>2
  <2>4. ~evidence[k].row.visual
    BY <1>3, <1>7 DEF Reliable
  <2> QED
    BY <2>3, <2>4
<1> QED
  BY <1>1, <1>2, <1>3, <1>5, <1>6, <1>7 DEF SupportedBy

LEMMA CoverageHolds ==
    ASSUME NEW facets, FacetList(facets), NEW evidence, IsList(evidence),
           NEW i \in Supported(Coverage(facets, evidence))
    PROVE  SupportedBy(Coverage(facets, evidence)[i], evidence)
<1>1. i \in DOMAIN facets /\ Coverage(facets, evidence)[i] = FacetCoverage(facets[i], evidence)
  BY DEF Coverage, Supported
<1>2. FacetCoverage(facets[i], evidence).status = "supported"
  BY <1>1 DEF Supported
<1> QED
  BY <1>1, <1>2, SupportHolds DEF FacetList

-----------------------------------------------------------------------------
(* The answer: its evidence and its fallback.                              *)

\* The pieces of a calculation stay in front, when none of them repeats another.
LEMMA PiecesStayInFront ==
    ASSUME NEW pieces, IsList(pieces), NEW rest, IsList(rest), \A i \in DOMAIN pieces : ~Repeats(pieces, i)
    PROVE  /\ IsList(Unrepeated(pieces \o rest))
           /\ pieces = SubSeq(Unrepeated(pieces \o rest), 1, Len(pieces))
<1> DEFINE all == pieces \o rest
           m == Len(pieces)
           places == {i \in DOMAIN all : ~Repeats(all, i)}
           kept == KeepAt(all, places)
           S == ToSet(all)
<1>1. /\ m \in Nat /\ DOMAIN pieces = 1 .. m /\ m <= Len(all) /\ Len(all) \in Nat /\ DOMAIN all = 1 .. Len(all)
      /\ \A i \in 1 .. m : all[i] = pieces[i]
  <2> DEFINE T == ToSet(pieces) \cup ToSet(rest)
  <2>1. pieces \in Seq(T) /\ rest \in Seq(T)
    BY SeqMonotonic DEF IsList, ToSet
  <2> HIDE DEF T
  <2> QED
    BY <2>1
<1>2. all \in Seq(S)
  BY ListJoin DEF IsList, ToSet
<1> HIDE DEF all, m, S
<1>3. ASSUME NEW i \in 1 .. m PROVE i \in places
  <2>1. i \in DOMAIN all /\ ~Repeats(pieces, i) /\ \A k \in 1 .. i - 1 : k \in 1 .. m
    BY <1>1
  <2>2. ~Repeats(all, i)
    BY <1>1, <2>1 DEF Repeats
  <2> QED
    BY <2>1, <2>2
<1> HIDE DEF places
<1>4. Len(kept) >= m /\ \A i \in 1 .. m : kept[i] = all[i]
  <2>1. m \in 0 .. Len(all)
    BY <1>1
  <2> QED
    BY <1>2, <1>3, <2>1, KeepAtStart
<1>5. kept \in Seq(S)
  BY <1>2, KeptHolds
<1>6. Unrepeated(all) = kept
  BY DEF Unrepeated, places
<1> HIDE DEF kept
<1>7. SubSeq(kept, 1, m) = pieces
  <2> DEFINE part == SubSeq(kept, 1, m)
  <2>1. part = [i \in 1 .. m |-> kept[i]]
    <3> DEFINE length == Len(kept)
    <3>1. 1 \in Int /\ m \in Int /\ length \in Nat /\ length >= m /\ DOMAIN kept = 1 .. length
      BY <1>1, <1>4, <1>5
    <3> HIDE DEF length
    <3>2. \A i \in 1 .. m : kept[i] \in S
      BY <1>5, <3>1
    <3>3. /\ part \in Seq(S) /\ Len(part) = IF 1 <= m THEN m - 1 + 1 ELSE 0
          /\ \A i \in 1 .. m - 1 + 1 : part[i] = kept[1 + i - 1]
      BY <3>1, <3>2, SubSeqProperties
    <3>4. (IF 1 <= m THEN m - 1 + 1 ELSE 0) = m /\ m - 1 + 1 = m /\ \A i \in 1 .. m : 1 + i - 1 = i
      BY <1>1
    <3> HIDE DEF part
    <3> QED
      BY <3>3, <3>4
  <2>2. pieces = [i \in 1 .. m |-> pieces[i]]
    <3>1. pieces \in Seq(ToSet(pieces))
      BY DEF IsList, ToSet
    <3> QED
      BY <3>1 DEF m
  <2> HIDE DEF part
  <2> QED
    BY <1>1, <1>4, <2>1, <2>2
<1> QED
  BY <1>5, <1>6, <1>7, ListOf DEF all, m


\* The evidence is a list, whichever quotes go with the calculation.
LEMMA EvidenceHolds ==
    ASSUME NEW tool, IsList(Pieces(tool)), NEW pack, IsList(pack.atoms), NEW alone
    PROVE  LET evidence == MergeEvidence(tool, pack, alone)
           IN /\ IsList(evidence)
              /\ (\A i \in DOMAIN Pieces(tool) : ~Repeats(Pieces(tool), i)) =>
                    Pieces(tool) = SubSeq(evidence, 1, Len(Pieces(tool)))
<1> DEFINE rest == IF alone /\ tool.slide # <<>>
                   THEN KeepAt(pack.atoms, {i \in DOMAIN pack.atoms : ContextOf(pack.atoms[i]) = tool.slide})
                   ELSE pack.atoms
           pieces == Pieces(tool)
           all == pieces \o rest
<1>1. MergeEvidence(tool, pack, alone) = Unrepeated(all)
  BY Zenon DEF MergeEvidence
<1>2. IsList(rest)
  BY KeepAtList
<1> HIDE DEF rest, pieces
<1>3. IsList(all)
  BY <1>2, ListJoin DEF pieces
<1>4. IsList(Unrepeated(all))
  BY <1>3, KeepAtList DEF Unrepeated
<1>5. (\A i \in DOMAIN pieces : ~Repeats(pieces, i)) => pieces = SubSeq(Unrepeated(all), 1, Len(pieces))
  BY <1>2, PiecesStayInFront DEF pieces
<1> QED
  BY <1>1, <1>4, <1>5 DEF pieces

\* What the fallback cites exists, and it says something.
LEMMA FallbackHolds ==
    ASSUME NEW tool, NEW evidence, IsList(evidence), NEW alone, alone => tool # NoTool
    PROVE  LET fallback == SafeFallback(tool, evidence, alone)
           IN /\ ToSet(fallback.cites) \subseteq DOMAIN evidence
              /\ evidence # <<>> => fallback.tool \/ fallback.cites # <<>>
              /\ HasGaps(engine.pack.coverage) /\ evidence # <<>> => fallback.limits
<1> DEFINE places == {i \in DOMAIN evidence :
                        /\ i > Len(Pieces(tool)) /\ evidence[i].quote # <<>>
                        /\ ContentRole(evidence[i].row) \in ContextRole => engineTask.provenance}
           all == [i \in DOMAIN evidence |-> i]
           quotable == KeepAt(all, places)
           lines == IF tool = NoTool THEN 5 ELSE 4
           cited == SubSeq(quotable, 1, Min({lines, Len(quotable)}))
           D == DOMAIN evidence
           cites == IF evidence = <<>> \/ (alone /\ tool.fallback) THEN <<>>
                    ELSE IF tool = NoTool /\ cited = <<>> THEN <<1>> ELSE cited
           fallback == SafeFallback(tool, evidence, alone)
<1>1. fallback = [tool |-> tool # NoTool, limits |-> evidence # <<>> /\ HasGaps(engine.pack.coverage), cites |-> cites]
  BY Zenon DEF SafeFallback
<1>2. Len(evidence) \in Nat /\ D = 1 .. Len(evidence) /\ (evidence # <<>> => 1 \in D)
  <2>1. evidence \in Seq(ToSet(evidence))
    BY DEF IsList, ToSet
  <2> QED
    BY <2>1
<1>3. all \in Seq(D)
  BY <1>2
<1> HIDE DEF places, all, D
<1>4. quotable \in Seq(D)
  BY <1>3, KeptHolds
<1> HIDE DEF quotable
<1>5. cited \in Seq(D)
  <2>1. lines \in Nat
    OBVIOUS
  <2> HIDE DEF lines
  <2> QED
    BY <1>4, <2>1, FirstFew
<1> HIDE DEF cited
<1>6. ToSet(cites) \subseteq D
  <2>1. evidence # <<>> => <<1>> \in Seq(D)
    BY <1>2
  <2>2. <<>> \in Seq(D)
    OBVIOUS
  <2>3. cites \in Seq(D)
    BY <1>5, <2>1, <2>2
  <2> HIDE DEF cites
  <2> QED
    BY <2>3, ToSetHolds
<1>7. fallback.tool = (tool # NoTool) /\ fallback.cites = cites
      /\ fallback.limits = (evidence # <<>> /\ HasGaps(engine.pack.coverage))
  BY <1>1
<1> HIDE DEF fallback
<1>8. evidence # <<>> => tool # NoTool \/ cites # <<>>
  <2>1. <<1>> # <<>>
    OBVIOUS
  <2> QED
    BY <2>1
<1> HIDE DEF cites
<1> QED
  BY <1>6, <1>7, <1>8 DEF fallback, D

-----------------------------------------------------------------------------
(* The engine.                                                             *)

EngineFields == {"at", "rows", "pack", "tool", "evidence", "warnings", "fallback"}
PackFields == {"atoms", "coverage", "missing", "answerable"}

\* A pack whose coverage is that of its quotes and the pieces of a calculation.
CoveredPack(task, pack, pieces) ==
    /\ DOMAIN pack = PackFields /\ IsList(pack.atoms) /\ IsList(pieces)
    /\ pack.coverage = Coverage(Contract(task), pack.atoms \o pieces)

EngineTyped ==
    /\ engineTask \in EngineTask
    /\ DOMAIN engine = EngineFields
    /\ engine.at \in {"search", "build", "retry", "calculate", "render", "done"}
    /\ RowList(engine.rows)
\* The pack is fair from the moment it is built, and covers what it and the
\* calculation say.
PackHolds ==
    /\ CoveredPack(engineTask, engine.pack, Pieces(engine.tool))
    /\ engine.at \in {"search", "build", "retry", "calculate"} => engine.tool = NoTool
    /\ engine.at \in {"retry", "calculate", "render", "done"} =>
         FairPack(engineTask.documents, RankedRows(engineTask, engine.rows), engine.pack.atoms)
EngineInv == EngineTyped /\ PackHolds /\ EvidenceSupportsAnswer

LEMMA TaskIsSound ==
    ASSUME NEW task \in EngineTask PROVE SoundTask(task)
BY EngineAssumption DEF EngineAssumption, SoundTask

LEMMA SearchFindsRows ==
    ASSUME NEW rows \in SearchResult PROVE RowList(rows)
BY EngineAssumption DEF EngineAssumption, RowList, MeasuredRow

\* The evidence of no calculation.
LEMMA NoPieces ==
    ASSUME NEW atoms, IsList(atoms)
    PROVE  Pieces(NoTool) = <<>> /\ IsList(Pieces(NoTool)) /\ atoms \o Pieces(NoTool) = atoms
<1>1. Pieces(NoTool) = <<>>
  BY DEF Pieces
<1>2. <<>> \in Seq({})
  OBVIOUS
<1>3. IsList(<<>>)
  BY <1>2, ListOf
<1>4. atoms \in Seq(ToSet(atoms))
  BY DEF IsList, ToSet
<1>5. atoms \o <<>> = atoms
  BY <1>4
<1> QED
  BY <1>1, <1>3, <1>5

\* A pack of quotes covers them.
LEMMA PackCovers ==
    ASSUME NEW task, NEW atoms, IsList(atoms) PROVE CoveredPack(task, PackOf(task, atoms), Pieces(NoTool))
<1> DEFINE pack == PackOf(task, atoms)
<1>1. DOMAIN pack = PackFields /\ pack.atoms = atoms /\ pack.coverage = Coverage(Contract(task), atoms)
  BY DEF PackOf, PackFields
<1> HIDE DEF pack
<1> QED
  BY <1>1, NoPieces DEF CoveredPack, pack

LEMMA EngineBegins == EngineInit => EngineInv
<1> SUFFICES ASSUME EngineInit PROVE EngineInv
  OBVIOUS
<1>1. IsList(<<>>) /\ RowList(<<>>)
  <2>1. <<>> \in Seq({})
    OBVIOUS
  <2>2. IsList(<<>>)
    BY <2>1, ListOf
  <2> QED
    BY <2>2 DEF RowList
<1>2. /\ engineTask \in EngineTask /\ DOMAIN engine = EngineFields /\ engine.at = "search" /\ engine.rows = <<>>
      /\ engine.pack = PackOf(engineTask, <<>>) /\ engine.tool = NoTool
  BY DEF EngineInit, EngineFields
<1>3. EngineTyped
  BY <1>1, <1>2 DEF EngineTyped
<1>4. PackHolds
  BY <1>1, <1>2, PackCovers DEF PackHolds
<1>5. EvidenceSupportsAnswer
  BY <1>2 DEF EvidenceSupportsAnswer
<1> QED
  BY <1>3, <1>4, <1>5 DEF EngineInv

LEMMA SearchHolds == EngineInv /\ Search => EngineInv'
<1> SUFFICES ASSUME EngineInv, Search PROVE EngineInv'
  OBVIOUS
<1>0. DOMAIN engine = EngineFields /\ engine.at = "search" /\ engineTask' = engineTask
  BY DEF EngineInv, EngineTyped, Search
<1>1. PICK found \in SearchResult, lanes \in SearchResult :
        engine' = [engine EXCEPT !.at = "build",
                     !.rows = IF engineTask.documents = <<>> THEN found
                              ELSE MergeRows(found, InScope(lanes, engineTask.documents))]
  BY DEF Search
<1> DEFINE rows == IF engineTask.documents = <<>> THEN found ELSE MergeRows(found, InScope(lanes, engineTask.documents))
<1>2. RowList(rows)
  BY SearchFindsRows, KeptRows, MergedRows DEF InScope
<1> HIDE DEF rows
<1>3. DOMAIN engine' = EngineFields /\ engine'.at = "build" /\ engine'.rows = rows
      /\ engine'.pack = engine.pack /\ engine'.tool = engine.tool
  BY <1>0, <1>1 DEF rows, EngineFields
<1>4. EngineTyped'
  BY <1>0, <1>2, <1>3 DEF EngineInv, EngineTyped
<1>5. PackHolds'
  BY <1>0, <1>3 DEF EngineInv, PackHolds
<1>6. EvidenceSupportsAnswer'
  BY <1>3 DEF EvidenceSupportsAnswer
<1> QED
  BY <1>4, <1>5, <1>6 DEF EngineInv

LEMMA BuildHolds == EngineInv /\ BuildEvidence => EngineInv'
<1> SUFFICES ASSUME EngineInv, BuildEvidence PROVE EngineInv'
  OBVIOUS
<1> DEFINE pack == BuildPack(engineTask, engine.rows)
           at == IF ShouldRetry(pack) THEN "retry" ELSE "calculate"
<1>0. /\ DOMAIN engine = EngineFields /\ engine.at = "build" /\ engineTask' = engineTask /\ engineTask \in EngineTask
      /\ RowList(engine.rows) /\ engine.tool = NoTool
  BY DEF EngineInv, EngineTyped, PackHolds, BuildEvidence
<1>1. engine' = [engine EXCEPT !.pack = pack, !.at = at]
  BY DEF BuildEvidence
<1>2. IsList(pack.atoms) /\ FairPack(engineTask.documents, RankedRows(engineTask, engine.rows), pack.atoms)
  <2>1. IsList(engineTask.documents)
    BY <1>0, TaskIsSound DEF SoundTask
  <2> QED
    BY <1>0, <2>1, EngineAssumption, PackIsFair
<1>3. CoveredPack(engineTask, pack, Pieces(NoTool))
  <2> DEFINE atoms == SelectAtoms(engineTask.documents, RankedRows(engineTask, engine.rows))
  <2>1. pack = PackOf(engineTask, atoms)
    BY DEF BuildPack
  <2> HIDE DEF pack, atoms
  <2>2. pack.atoms = atoms
    BY <2>1 DEF PackOf
  <2> QED
    BY <1>2, <2>1, <2>2, PackCovers
<1>4. at \in {"retry", "calculate"}
  OBVIOUS
<1> HIDE DEF pack, at
<1>5. DOMAIN engine' = EngineFields /\ engine'.at = at /\ engine'.rows = engine.rows
      /\ engine'.pack = pack /\ engine'.tool = NoTool
  BY <1>0, <1>1 DEF EngineFields
<1>6. EngineTyped'
  BY <1>0, <1>4, <1>5 DEF EngineTyped
<1>7. PackHolds'
  BY <1>0, <1>2, <1>3, <1>5 DEF PackHolds
<1>8. EvidenceSupportsAnswer'
  BY <1>4, <1>5 DEF EvidenceSupportsAnswer
<1> QED
  BY <1>6, <1>7, <1>8 DEF EngineInv

LEMMA RetryHolds == EngineInv /\ RetryMissingEvidence => EngineInv'
<1> SUFFICES ASSUME EngineInv, RetryMissingEvidence PROVE EngineInv'
  OBVIOUS
<1>0. /\ DOMAIN engine = EngineFields /\ engine.at = "retry" /\ engineTask' = engineTask /\ engineTask \in EngineTask
      /\ RowList(engine.rows) /\ engine.tool = NoTool /\ CoveredPack(engineTask, engine.pack, Pieces(NoTool))
      /\ FairPack(engineTask.documents, RankedRows(engineTask, engine.rows), engine.pack.atoms)
  BY DEF EngineInv, EngineTyped, PackHolds, RetryMissingEvidence
<1>1. PICK again \in SearchResult :
        \E pack \in {BuildPack(engineTask, MergeRows(again, engine.rows))} :
          engine' = [engine EXCEPT !.at = "calculate",
                          !.rows = IF Better(pack, engine.pack) THEN again ELSE @,
                          !.pack = IF Better(pack, engine.pack) THEN pack ELSE @]
  BY DEF RetryMissingEvidence
<1> DEFINE all == MergeRows(again, engine.rows)
           pack == BuildPack(engineTask, all)
           better == Better(pack, engine.pack)
           rows == IF better THEN again ELSE engine.rows
           chosen == IF better THEN pack ELSE engine.pack
<1>2. engine' = [engine EXCEPT !.at = "calculate", !.rows = rows, !.pack = chosen]
  BY <1>1
<1>3. RowList(again) /\ RowList(all)
  BY <1>0, SearchFindsRows, MergedRows
<1> HIDE DEF all
<1>4. IsList(pack.atoms) /\ FairPack(engineTask.documents, RankedRows(engineTask, all), pack.atoms)
  <2>1. IsList(engineTask.documents)
    BY <1>0, TaskIsSound DEF SoundTask
  <2> QED
    BY <1>3, <2>1, EngineAssumption, PackIsFair
<1>5. CoveredPack(engineTask, pack, Pieces(NoTool))
  <2> DEFINE atoms == SelectAtoms(engineTask.documents, RankedRows(engineTask, all))
  <2>1. pack = PackOf(engineTask, atoms)
    BY DEF BuildPack
  <2> HIDE DEF pack, atoms
  <2>2. pack.atoms = atoms
    BY <2>1 DEF PackOf
  <2> QED
    BY <1>4, <2>1, <2>2, PackCovers
<1> HIDE DEF pack, better
<1>6. FairPack(engineTask.documents, RankedRows(engineTask, again), pack.atoms)
  BY <1>0, <1>3, <1>4, MergedIsFair DEF all
<1>7. /\ RowList(rows) /\ CoveredPack(engineTask, chosen, Pieces(NoTool))
      /\ FairPack(engineTask.documents, RankedRows(engineTask, rows), chosen.atoms)
  <2>1. CASE better
    BY <1>3, <1>5, <1>6, <2>1
  <2>2. CASE ~better
    BY <1>0, <2>2
  <2> QED
    BY <2>1, <2>2
<1> HIDE DEF rows, chosen
<1>8. DOMAIN engine' = EngineFields /\ engine'.at = "calculate" /\ engine'.rows = rows
      /\ engine'.pack = chosen /\ engine'.tool = NoTool
  BY <1>0, <1>2 DEF EngineFields
<1>9. EngineTyped'
  BY <1>0, <1>7, <1>8 DEF EngineTyped
<1>10. PackHolds'
  BY <1>0, <1>7, <1>8 DEF PackHolds
<1>11. EvidenceSupportsAnswer'
  BY <1>8 DEF EvidenceSupportsAnswer
<1> QED
  BY <1>9, <1>10, <1>11 DEF EngineInv

\* A calculation of the tools or of a retrieved table has a list of rows.
LEMMA ToolHasPieces ==
    ASSUME NEW rows, NEW tool, \/ tool = NoTool \/ tool \in ToolResult
                               \/ \E i \in DOMAIN rows : tool = TableResult(rows[i])
    PROVE  IsList(Pieces(tool))
<1>1. <<>> \in Seq({})
  OBVIOUS
<1>2. CASE tool = NoTool
  BY <1>1, <1>2, ListOf DEF Pieces
<1>3. CASE tool # NoTool
  <2> DEFINE all == tool.rows
  <2>1. IsList(all)
    <3>1. CASE tool \in ToolResult
      BY <3>1, EngineAssumption DEF EngineAssumption
    <3>2. CASE \E i \in DOMAIN rows : tool = TableResult(rows[i])
      <4>1. PICK row : tool = TableResult(row)
        BY <3>2
      <4> DEFINE one == [row EXCEPT !.type = "calculation", !.titles = <<TableLabel>> \o @, !.summary = <<>>]
      <4>2. all = <<one>>
        BY <4>1 DEF TableResult
      <4> HIDE DEF one, all
      <4>3. all \in Seq({one})
        BY <4>2
      <4> QED
        BY <4>3, ListOf
    <3> QED
      BY <1>3, <3>1, <3>2
  <2>2. Pieces(tool) = [i \in DOMAIN all |-> [row |-> all[i], quote |-> all[i].units]]
    BY <1>3 DEF Pieces, AsEvidence
  <2> HIDE DEF all
  <2>3. Len(all) \in Nat /\ DOMAIN all = 1 .. Len(all)
    BY <2>1, ListShape
  <2>4. /\ DOMAIN Pieces(tool) = 1 .. Len(all)
        /\ Pieces(tool) = [i \in 1 .. Len(all) |-> Pieces(tool)[i]]
    BY <2>2, <2>3
  <2> QED
    BY <2>3, <2>4, ListByPlace
<1> QED
  BY <1>2, <1>3

LEMMA ToolsHold == EngineInv /\ RunTools => EngineInv'
<1> SUFFICES ASSUME EngineInv, RunTools PROVE EngineInv'
  OBVIOUS
<1>0. /\ DOMAIN engine = EngineFields /\ engine.at = "calculate" /\ engineTask' = engineTask /\ engineTask \in EngineTask
      /\ RowList(engine.rows) /\ CoveredPack(engineTask, engine.pack, Pieces(NoTool))
      /\ FairPack(engineTask.documents, RankedRows(engineTask, engine.rows), engine.pack.atoms)
  BY DEF EngineInv, EngineTyped, PackHolds, RunTools
<1>1. PICK tool \in {NoTool} \cup ToolResult \cup
               {TableResult(engine.rows[i]) : i \in {k \in DOMAIN engine.rows : engine.rows[k].type = "table"}} :
        engine' = [engine EXCEPT !.at = "render", !.tool = tool,
                     !.pack = IF tool = NoTool THEN @
                              ELSE WithAdditionalEvidence(engineTask, @, AsEvidence(tool.rows))]
  BY DEF RunTools
<1> DEFINE more == WithAdditionalEvidence(engineTask, engine.pack, AsEvidence(tool.rows))
           pack == IF tool = NoTool THEN engine.pack ELSE more
<1>2. IsList(Pieces(tool))
  <2>1. tool = NoTool \/ tool \in ToolResult \/ \E i \in DOMAIN engine.rows : tool = TableResult(engine.rows[i])
    BY <1>1
  <2> QED
    BY <2>1, ToolHasPieces
<1>3. engine' = [engine EXCEPT !.at = "render", !.tool = tool, !.pack = pack]
  BY <1>1
<1>4. CoveredPack(engineTask, pack, Pieces(tool)) /\ pack.atoms = engine.pack.atoms
  <2>1. CASE tool = NoTool
    BY <1>0, <2>1
  <2>2. CASE tool # NoTool
    <3>1. Pieces(tool) = AsEvidence(tool.rows) /\ pack = more
      BY <2>2 DEF Pieces
    <3> DEFINE old == engine.pack
    <3>2. DOMAIN old = PackFields /\ IsList(old.atoms)
      BY <1>0 DEF CoveredPack
    <3> HIDE DEF old
    <3>3. /\ DOMAIN more = PackFields /\ more.atoms = old.atoms
          /\ more.coverage = Coverage(Contract(engineTask), old.atoms \o AsEvidence(tool.rows))
      BY <3>2 DEF WithAdditionalEvidence, PackFields, old
    <3> HIDE DEF more
    <3> QED
      BY <1>2, <3>1, <3>2, <3>3 DEF CoveredPack, old
  <2> QED
    BY <2>1, <2>2
<1> HIDE DEF pack, more
<1>5. DOMAIN engine' = EngineFields /\ engine'.at = "render" /\ engine'.rows = engine.rows
      /\ engine'.pack = pack /\ engine'.tool = tool
  BY <1>0, <1>3 DEF EngineFields
<1>6. EngineTyped'
  BY <1>0, <1>5 DEF EngineTyped
<1>7. PackHolds'
  BY <1>0, <1>4, <1>5 DEF PackHolds
<1>8. EvidenceSupportsAnswer'
  BY <1>5 DEF EvidenceSupportsAnswer
<1> QED
  BY <1>6, <1>7, <1>8 DEF EngineInv

LEMMA RenderHolds == EngineInv /\ Render => EngineInv'
<1> SUFFICES ASSUME EngineInv, Render PROVE EngineInv'
  OBVIOUS
<1> DEFINE tool == engine.tool
           pack == engine.pack
           pieces == Pieces(tool)
           alone == tool # NoTool /\ ToolFullyAnswers(engineTask, pieces, tool.kind)
           evidence == MergeEvidence(tool, pack, alone)
           fallback == SafeFallback(tool, evidence, alone)
           warnings == IF ~pack.answerable /\ tool = NoTool THEN {"insufficient"}
                       ELSE IF HasGaps(pack.coverage) \/ pack.missing # {} THEN {"partial"} ELSE {}
<1>0. /\ DOMAIN engine = EngineFields /\ engine.at = "render" /\ engineTask' = engineTask /\ engineTask \in EngineTask
      /\ RowList(engine.rows) /\ CoveredPack(engineTask, pack, pieces)
      /\ FairPack(engineTask.documents, RankedRows(engineTask, engine.rows), pack.atoms)
  BY DEF EngineInv, EngineTyped, PackHolds, Render
<1>1. engine' = [engine EXCEPT !.at = "done", !.evidence = evidence, !.fallback = fallback, !.warnings = warnings]
  BY DEF Render
<1>2. IsList(pack.atoms) /\ IsList(pieces) /\ pack.coverage = Coverage(Contract(engineTask), pack.atoms \o pieces)
  BY <1>0 DEF CoveredPack
<1>3. \A i \in Supported(pack.coverage) : SupportedBy(pack.coverage[i], pack.atoms \o pieces)
  <2> DEFINE all == pack.atoms \o pieces
             facets == Contract(engineTask)
  <2>1. IsList(all)
    BY <1>2, ListJoin
  <2>2. FacetList(facets)
    BY <1>0, TaskIsSound, ContractHolds
  <2>3. pack.coverage = Coverage(facets, all)
    BY <1>2
  <2> HIDE DEF all, facets
  <2>4. \A i \in Supported(pack.coverage) : SupportedBy(pack.coverage[i], all)
    BY <2>1, <2>2, <2>3, CoverageHolds
  <2> QED
    BY <2>4 DEF all
<1>4. /\ IsList(evidence)
      /\ (\A i \in DOMAIN pieces : ~Repeats(pieces, i)) => pieces = SubSeq(evidence, 1, Len(pieces))
  BY <1>2, EvidenceHolds
<1>5. alone => tool # NoTool
  OBVIOUS
<1> HIDE DEF alone, evidence
<1>6. /\ ToSet(fallback.cites) \subseteq DOMAIN evidence
      /\ evidence # <<>> => fallback.tool \/ fallback.cites # <<>>
      /\ HasGaps(pack.coverage) /\ evidence # <<>> => fallback.limits
  BY <1>4, <1>5, FallbackHolds
<1>7. HasGaps(pack.coverage) => warnings # {}
  OBVIOUS
<1> HIDE DEF fallback, warnings
<1>8. /\ DOMAIN engine' = EngineFields /\ engine'.at = "done" /\ engine'.rows = engine.rows
      /\ engine'.pack = pack /\ engine'.tool = tool /\ engine'.evidence = evidence
      /\ engine'.fallback = fallback /\ engine'.warnings = warnings
  BY <1>0, <1>1 DEF EngineFields
<1>9. EngineTyped'
  BY <1>0, <1>8 DEF EngineTyped
<1> HIDE DEF pieces, tool, pack
<1>10. PackHolds'
  BY <1>0, <1>8 DEF PackHolds, pieces
<1>11. EvidenceSupportsAnswer'
  BY <1>0, <1>3, <1>4, <1>6, <1>7, <1>8 DEF EvidenceSupportsAnswer, SupportedBy, pieces
<1> QED
  BY <1>9, <1>10, <1>11 DEF EngineInv

\* From every search result, whatever the chart tools say, the evidence supports
\* what the answer may claim.
THEOREM EvidenceSupports == EngineSpec => []EvidenceSupportsAnswer
<1>1. EngineInit => EngineInv
  BY EngineBegins
<1>2. EngineInv /\ [EngineNext]_engineVars => EngineInv'
  <2>1. EngineInv /\ UNCHANGED engineVars => EngineInv'
    BY DEF engineVars, EngineInv, EngineTyped, PackHolds, EvidenceSupportsAnswer
  <2> QED
    BY <2>1, SearchHolds, BuildHolds, RetryHolds, ToolsHold, RenderHolds DEF EngineNext
<1>3. EngineInv => EvidenceSupportsAnswer
  BY DEF EngineInv
<1> QED
  BY <1>1, <1>2, <1>3, PTL DEF EngineSpec
====

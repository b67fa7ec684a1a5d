---- MODULE ChartCalculations ----
(***************************************************************************)
(* The calculator of chart facts: native chart points are grouped into     *)
(* cubes, and each cube answers the question by the first operation that   *)
(* applies.  A question is the cues it has, the labels it names in the     *)
(* order of the normalized text, the place where the raw text has each of  *)
(* them, -1 when only the normalized text does, and the places of its      *)
(* "than"; numbers are integers, a label of which nothing is left is "",   *)
(* and a text is the rows it states and the numbers of its citations.      *)
(***************************************************************************)
EXTENDS SequenceParts, SequencesExt, FiniteSets, FiniteSetsExt, Relation

CONSTANTS
    ChartQuestion, \* the questions: [cues, mentions, raw, than]
    ChartElement,  \* the charts of the documents: sequences of
                   \* [slide, boxed, title, titleYear, series], title its score
    Overlap,       \* pairs of element places whose boxes overlap by 80 %
    Year,          \* of a label, 0 when it is not temporal
    NoCalculation,
    Raises         \* what a calculation gives that raises an exception

VARIABLES chartInput, calculation
calculationVars == <<chartInput, calculation>>

\* A label is named where it stands first; a series has a point at least.
SoundQuestion(question) ==
    /\ IsList(question.mentions) /\ ToSet(question.mentions) \subseteq DOMAIN Year
    /\ Blank \notin ToSet(question.mentions)
    /\ \A label \in ToSet(question.mentions) : question.raw[label] \in Int
    /\ question.than \subseteq Int
    /\ \A i, j \in DOMAIN question.mentions : question.mentions[i] = question.mentions[j] => i = j
SoundGroup(group) ==
    /\ IsList(group.points) /\ group.points # <<>>
    /\ \A i \in DOMAIN group.points : group.points[i].y \in Int /\ group.points[i].cat \in DOMAIN Year
SoundElements(elements) ==
    /\ IsList(elements)
    /\ \A e \in DOMAIN elements : /\ IsList(elements[e].series)
                                /\ \A g \in DOMAIN elements[e].series : SoundGroup(elements[e].series[g])
ASSUME ChartAssumption ==
    /\ \A label \in DOMAIN Year : Year[label] \in Nat
    /\ \A question \in ChartQuestion : SoundQuestion(question)
    /\ \A elements \in ChartElement : SoundElements(elements)

Cue(question, cue) == cue \in question.cues
Named(names, question) == KeepAt(names, {i \in DOMAIN names : names[i] \in ToSet(question.mentions)})
Place(question, label) == CHOOSE i \in DOMAIN question.mentions : question.mentions[i] = label
OrderedMentions(question, names) ==
    Sorted(names, {p \in ToSet(names) \X ToSet(names) : Place(question, p[1]) < Place(question, p[2])})

----------------------------------------------------------------------------
(* Cubes: series by category.                                              *)

SlideOf(elements, e) == elements[e].slide

\* Elements whose boxes overlap are one chart; without two boxes the slide is.
SameScope(elements) ==
    LET places == DOMAIN elements
        Boxed(slide) == {e \in places : elements[e].slide = slide /\ elements[e].boxed}
        joined == {p \in places \X places :
                     /\ SlideOf(elements, p[1]) = SlideOf(elements, p[2])
                     /\ \/ p[1] = p[2]
                        \/ Cardinality(Boxed(SlideOf(elements, p[1]))) < 2
                        \/ /\ elements[p[1]].boxed /\ elements[p[2]].boxed
                           /\ {p, <<p[2], p[1]>>} \cap Overlap # {}}
    IN TransitiveClosure([p \in places \X places |-> p \in joined], places)

\* The chart of an element: the series of all that belong to it.
Scope(elements, places) ==
    LET members == KeepAt(elements, places)
    IN [title |-> members[1].title, titleYear |-> members[1].titleYear,
        groups |-> FlattenSeq([i \in DOMAIN members |-> members[i].series]), places |-> places]
ChartScopes(elements) ==
    LET same == SameScope(elements)
        Together(e) == {k \in DOMAIN elements : same[<<e, k>>]}
        first == KeepAt([e \in DOMAIN elements |-> e], {e \in DOMAIN elements : \A k \in 1 .. e - 1 : ~same[<<k, e>>]})
    IN [i \in DOMAIN first |-> Scope(elements, Together(first[i]))]

SeriesNames(cube) == [g \in DOMAIN cube.groups |-> cube.groups[g].name]
Distinct(seq) == KeepAt(seq, {i \in DOMAIN seq : \A k \in 1 .. i - 1 : seq[k] # seq[i]})
CategoriesOf(points) == [i \in DOMAIN points |-> points[i].cat]

\* A row of the cube is a point with the series it belongs to.
Row(group, i) == [series |-> group.name, cat |-> group.points[i].cat, y |-> group.points[i].y, unit |-> group.unit]
GroupRows(group) == [i \in DOMAIN group.points |-> Row(group, i)]
EveryRow(cube) == FlattenSeq([g \in DOMAIN cube.groups |-> GroupRows(cube.groups[g])])
CategoryNames(cube) ==
    LET names == Distinct(CategoriesOf(EveryRow(cube))) IN KeepAt(names, {i \in DOMAIN names : names[i] # Blank})

\* The first series of a name, and every point of a name and a category.
SeriesRows(cube, name) == GroupRows(KeepAt(cube.groups, {g \in DOMAIN cube.groups : cube.groups[g].name = name})[1])
PointRows(cube, name, cat) ==
    LET rows == EveryRow(cube)
    IN KeepAt(rows, {i \in DOMAIN rows : rows[i].series = name /\ rows[i].cat = cat})
\* A dictionary by category has its last row.
ByCategory(rows) ==
    LET categories == Distinct(CategoriesOf(rows))
    IN [k \in DOMAIN categories |-> rows[Max({i \in DOMAIN rows : rows[i].cat = categories[k]})]]
UnitsCompatible(rows) == Cardinality({r.unit : r \in rows} \ {""}) <= 1
SumOf(rows) == ListTotal([i \in DOMAIN rows |-> rows[i].y])

IsShare(cube) ==
    \/ \E g \in DOMAIN cube.groups : cube.groups[g].family = "share"
    \/ /\ Len(cube.groups) = 1
       /\ LET points == cube.groups[1].points
          IN Len(points) >= 2 /\ (\A i \in DOMAIN points : points[i].y >= 0) /\ SumOf(points) \in 98 .. 102

\* At least two labels and seven in ten of them are periods.
Temporal(labels) ==
    Cardinality({i \in DOMAIN labels : Year[labels[i]] > 0}) >= Max({2, (7 * Len(labels) + 9) \div 10})
IsOrderedCategorical(cube) ==
    /\ Len(cube.groups) = 1 /\ ~IsShare(cube) /\ Len(cube.groups[1].points) >= 3
    /\ ~Temporal(CategoriesOf(cube.groups[1].points))

Size(cube) == ListTotal([g \in DOMAIN cube.groups |-> Len(cube.groups[g].points)])
Relevance(question, cube) ==
    8 * (Len(Named(SeriesNames(cube), question)) + Len(Named(CategoryNames(cube), question))) + cube.title

----------------------------------------------------------------------------
(* The operations.                                                         *)

\* "A than B" makes B the baseline, where both are written as the chart has them;
\* otherwise the first named is.
SaysThan(question, a, b) ==
    0 <= question.raw[a] /\ \E t \in question.than : question.raw[a] < t /\ t < question.raw[b]
ComparisonOrder_Mentioned(question, names) ==
    <<OrderedMentions(question, names)[1], OrderedMentions(question, names)[2]>>
ComparisonOrder(question, names) ==
    LET first == OrderedMentions(question, names)[1]
        second == OrderedMentions(question, names)[2]
    IN IF SaysThan(question, first, second)
       THEN <<second, first>> ELSE <<first, second>>

\* One calculation: its facts, the rows its text states, and its evidence, an
\* item for each of the citations [1], [2] that end the text.
Calculated(op, rows, evidence, facts) ==
    <<[op |-> op, rows |-> rows, names |-> Distinct([i \in DOMAIN rows |-> rows[i].series]),
       evidence |-> evidence, facts |-> facts]>>
Bundle(op, rows, facts) == Calculated(op, rows, <<ToSet(rows)>>, facts)
TwoPoints(op, a, b, facts) == Calculated(op, <<a, b>>, <<{a}, {b}>>, facts)
NoResult == <<>>

Change(op, start, end) ==
    TwoPoints(op, start, end, [start |-> start, end |-> end, absolute |-> end.y - start.y,
                               relative |-> IF start.y = 0 THEN <<>> ELSE <<end.y - start.y, Max({start.y, -start.y})>>])

\* Which year is the baseline: as the comparison says, or the one before the last.
YearOrder(question, temporal) ==
    LET named == Named(temporal, question)
        byYear == Sorted(temporal, {p \in ToSet(temporal) \X ToSet(temporal) : Year[p[1]] < Year[p[2]]})
    IN IF Len(named) >= 2 THEN ComparisonOrder(question, named)
       ELSE <<byYear[Len(byYear) - 1], byYear[Len(byYear)]>>

\* The members of both years.
SharedPairs(before, after) ==
    LET shared == KeepAt(before, {i \in DOMAIN before : \E k \in DOMAIN after : after[k].cat = before[i].cat})
    IN [i \in DOMAIN shared |-> <<shared[i], after[CHOOSE k \in DOMAIN after : after[k].cat = shared[i].cat]>>]

\* The fewest rises that reach 80 % of the net change, but three at most.
Leading(positive, net) ==
    SubSeq(positive, 1, Min({k \in DOMAIN positive :
        k = 3 \/ k = Len(positive) \/ 100 * SumOf(SubSeq(positive, 1, k)) >= 80 * net}))

\* Between equal rises the code goes by their names.
Rises(changes) ==
    LET positive == KeepAt(changes, {i \in DOMAIN changes : changes[i].y > 0})
    IN Sorted(positive, {p \in ToSet(positive) \X ToSet(positive) : p[1].y > p[2].y})
Contributions(order, rows, changes) ==
    IF Len(changes) < 2 \/ ~UnitsCompatible(ToSet(rows)) \/ Rises(changes) = <<>> \/ SumOf(changes) <= 0 THEN NoResult
    ELSE Bundle("group_change_attribution", rows,
                [baseline |-> order[1], target |-> order[2], net |-> SumOf(changes), changes |-> changes,
                 primary |-> Leading(Rises(changes), SumOf(changes))])

Attribution(order, pairs) ==
    Contributions(order, FlattenSeq(pairs),
                  [i \in DOMAIN pairs |-> [cat |-> pairs[i][1].cat, y |-> pairs[i][2].y - pairs[i][1].y]])

AttributeChange(cube, order) ==
    Attribution(order, SharedPairs(ByCategory(SeriesRows(cube, order[1])), ByCategory(SeriesRows(cube, order[2]))))
GroupChangeAttribution(question, cube) ==
    LET names == SeriesNames(cube)
        temporal == KeepAt(names, {g \in DOMAIN names : Year[names[g]] > 0})
    IN IF Cue(question, "driver") /\ Len(temporal) >= 2
       THEN AttributeChange(cube, YearOrder(question, temporal)) ELSE NoResult

\* The points of two series in the one category that is named, if both exist.
OneCategory(question, cube) ==
    Len(Named(SeriesNames(cube), question)) >= 2 /\ Len(Named(CategoryNames(cube), question)) = 1
PointPair(before, after) == IF before = <<>> \/ after = <<>> THEN <<>> ELSE <<before[1], after[1]>>
AcrossSeries(question, cube, order) ==
    LET category == Named(CategoryNames(cube), question)[1]
    IN PointPair(PointRows(cube, order[1], category), PointRows(cube, order[2], category))
Comparable(pair) == pair # <<>> /\ UnitsCompatible(ToSet(pair))

CrossDimensionChange(question, cube) ==
    LET pair == AcrossSeries(question, cube, ComparisonOrder(question, Named(SeriesNames(cube), question)))
    IN IF Cue(question, "change") /\ OneCategory(question, cube) /\ Comparable(pair)
       THEN Change("cross_dimension_change", pair[1], pair[2]) ELSE NoResult

\* The complement of a category that only another ring has is a KeyError.
ShareComposition(question, cube) ==
    LET rows == GroupRows(cube.groups[1])
        segments == ByCategory(rows)
        named == Named(CategoryNames(cube), question)
        selected == KeepAt(segments, {i \in DOMAIN segments : segments[i].cat = named[1]})
        complement == Len(named) = 1 /\ Cue(question, "complement")
    IN IF ~IsShare(cube) \/ ~(Cue(question, "share") \/ named # <<>>) THEN NoResult
       ELSE IF complement /\ selected = <<>> THEN Raises
       ELSE Bundle("share_composition", rows,
                   [total |-> SumOf(segments), segments |-> segments,
                    complement |-> IF complement
                                   THEN <<[of |-> named[1], rest |-> SumOf(segments) - selected[1].y]>> ELSE <<>>])

PathAttribution(question, cube) ==
    LET rows == GroupRows(cube.groups[1])
        steps == [i \in 1 .. Len(rows) - 1 |-> rows[i + 1].y - rows[i].y]
    IN IF /\ IsOrderedCategorical(cube)
          /\ Cue(question, "step") \/ (Cue(question, "extreme") /\ Cue(question, "adverse"))
       THEN Bundle("sequential_path", rows,
                   [net |-> rows[Len(rows)].y - rows[1].y, steps |-> steps,
                    decline |-> Min(ToSet(steps)), increase |-> Max(ToSet(steps))])
       ELSE NoResult

\* The latest year that is asked for, or of the titles, or of the chart, and the
\* year before it; of two points of a year the last.  Periods are whole years.
TargetYear(question, cube, years) ==
    LET asked == {Year[label] : label \in ToSet(question.mentions)} \ {0}
    IN CASE asked # {} -> Max(asked)
         [] asked = {} /\ cube.titleYear > 0 -> cube.titleYear
         [] OTHER -> Max(years)
YearOverYearPair(question, cube, rows) ==
    LET years == {Year[rows[i].cat] : i \in DOMAIN rows} \ {0}
        target == TargetYear(question, cube, years)
        PointOf(year) == rows[Max({i \in DOMAIN rows : Year[rows[i].cat] = year})]
    IN IF years # {} /\ {target - 1, target} \subseteq years THEN <<PointOf(target - 1), PointOf(target)>> ELSE <<>>

AcrossPeriods(cube, name, order) == PointPair(PointRows(cube, name, order[1]), PointRows(cube, name, order[2]))
PeriodPair(question, cube, name, rows) ==
    LET named == Named(CategoryNames(cube), question)
    IN IF Len(named) >= 2 THEN AcrossPeriods(cube, name, ComparisonOrder(question, named))
       ELSE IF Cue(question, "yoy") THEN YearOverYearPair(question, cube, rows)
       ELSE IF Len(rows) >= 2 THEN <<rows[Len(rows) - 1], rows[Len(rows)]>> ELSE <<>>
PeriodChange(question, cube) ==
    LET series == Named(SeriesNames(cube), question)
        pair == PeriodPair(question, cube, series[1], SeriesRows(cube, series[1]))
    IN IF Cue(question, "change") /\ Len(series) = 1 /\ pair # <<>>
       THEN Change("period_change", pair[1], pair[2]) ELSE NoResult

Compared(pair) ==
    LET high == IF pair[2].y > pair[1].y THEN pair[2] ELSE pair[1]
        low == IF pair[2].y > pair[1].y THEN pair[1] ELSE pair[2]
    IN TwoPoints("series_comparison", pair[1], pair[2], [high |-> high, difference |-> high.y - low.y])
SeriesComparison(question, cube) ==
    LET pair == AcrossSeries(question, cube, OrderedMentions(question, Named(SeriesNames(cube), question)))
    IN IF Cue(question, "compare") /\ OneCategory(question, cube) /\ Comparable(pair) THEN Compared(pair) ELSE NoResult

PointLookup(question, cube) ==
    LET series == Named(SeriesNames(cube), question)
        named == Named(CategoryNames(cube), question)
        found == PointRows(cube, series[1], named[1])
    IN IF Cue(question, "value") /\ Len(series) = 1 /\ Len(named) = 1 /\ found # <<>>
       THEN Calculated("point_lookup", <<found[1]>>, <<{found[1]}>>, [value |-> found[1].y])
       ELSE NoResult

Operations(question, cube) ==
    <<GroupChangeAttribution(question, cube), CrossDimensionChange(question, cube),
      ShareComposition(question, cube), PathAttribution(question, cube), PeriodChange(question, cube),
      SeriesComparison(question, cube), PointLookup(question, cube)>>

----------------------------------------------------------------------------
(* The calculator.                                                         *)

\* A document of several charts must name something of this one.
NamesChart(question, cube, op) ==
    /\ Relevance(question, cube) > 0
    /\ op = "share_composition" => Named(SeriesNames(cube), question) # <<>> \/ Cue(question, "pie")

\* The first operation that applies.
Applying(results) == {i \in DOMAIN results : results[i] # NoResult}
FirstFound(results) == IF Applying(results) = {} THEN NoResult ELSE results[Min(Applying(results))]
CandidateAmong(question, cube, alone, results) ==
    LET found == FirstFound(results)
    IN IF found \in {NoResult, Raises} THEN <<>>
       ELSE IF ~alone /\ ~NamesChart(question, cube, found[1].op) THEN <<>>
       ELSE <<[score |-> 10 * Relevance(question, cube) + 7 - Min(Applying(results)), result |-> found[1]]>>
Candidate(question, cube, alone) == CandidateAmong(question, cube, alone, Operations(question, cube))

RankedCubes(question, cubes) ==
    Sorted(cubes, {p \in ToSet(cubes) \X ToSet(cubes) :
        \/ Relevance(question, p[1]) > Relevance(question, p[2])
        \/ Relevance(question, p[1]) = Relevance(question, p[2]) /\ Size(p[1]) > Size(p[2])})
RankedCandidates(candidates) == Sorted(candidates, {p \in ToSet(candidates) \X ToSet(candidates) : p[1].score > p[2].score})
ChartCandidates(question, cubes) ==
    RankedCandidates(FlattenSeq([i \in DOMAIN cubes |-> Candidate(question, cubes[i], Len(cubes) = 1)]))

\* Several charts may answer: one operation of each kind, one text after the other, their evidence in one
\* list, and the citations of each text as they were.
Composite(parts) == [parts |-> parts, evidence |-> FlattenSeq([i \in DOMAIN parts |-> parts[i].evidence])]
FirstOfKind(candidates) ==
    LET Kind(i) == <<candidates[i].result.op, candidates[i].result.names>>
        fresh == KeepAt(candidates, {i \in DOMAIN candidates : \A k \in 1 .. i - 1 : Kind(k) # Kind(i)})
    IN [i \in DOMAIN fresh |-> fresh[i].result]
Analyze(question, elements) ==
    LET cubes == ChartScopes(elements)
    IN IF \E cube \in ToSet(cubes) : FirstFound(Operations(question, cube)) = Raises THEN Raises
       ELSE Composite(FirstOfKind(ChartCandidates(question, RankedCubes(question, cubes))))

CalculationInit ==
    /\ \E question \in ChartQuestion, elements \in ChartElement :
         chartInput = [question |-> question, elements |-> elements]
    /\ calculation = NoCalculation

Calculate ==
    /\ calculation = NoCalculation
    /\ calculation' = Analyze(chartInput.question, chartInput.elements)
    /\ UNCHANGED chartInput

CalculationSpec == CalculationInit /\ [][Calculate]_calculationVars

----------------------------------------------------------------------------
(* Properties.                                                             *)

\* In "A than B", both as the chart writes them and A named first, the change
\* is from B to A; otherwise from the first named.
Directed(question, from, to) ==
    {from, to} \subseteq ToSet(question.mentions) /\ from # to =>
      IF Place(question, from) < Place(question, to) THEN ~SaysThan(question, from, to) ELSE SaysThan(question, to, from)

\* The members that both series show are what the net change is made of, and no
\* member rises more than one that is called primary.
AttributionRight(question, cube, part) ==
    LET facts == part.facts
        Signed(row) == IF row.series = facts.target THEN row.y ELSE -row.y
        Shown(series) == {r.cat : r \in ToSet(SeriesRows(cube, series))}
    IN /\ Directed(question, facts.baseline, facts.target)
       /\ \A i \in DOMAIN part.rows : part.rows[i].series \in {facts.baseline, facts.target}
       /\ facts.net = ListTotal([i \in DOMAIN part.rows |-> Signed(part.rows[i])])
       /\ {c.cat : c \in ToSet(facts.changes)} = Shown(facts.baseline) \cap Shown(facts.target)
       /\ \A i, j \in DOMAIN facts.changes : facts.changes[i].cat = facts.changes[j].cat => i = j
       /\ facts.primary # <<>>
       /\ \A c \in ToSet(facts.changes) : \A p \in ToSet(facts.primary) : c.y > p.y => c \in ToSet(facts.primary)
       /\ \/ Len(facts.primary) = 3 \/ 100 * SumOf(facts.primary) >= 80 * facts.net
          \/ \A c \in ToSet(facts.changes) : c.y > 0 => c \in ToSet(facts.primary)

ChangeRight(question, part) ==
    LET start == part.facts.start
        end == part.facts.end
    IN /\ Directed(question, start.series, end.series) /\ Directed(question, start.cat, end.cat)
       /\ end.y = start.y + part.facts.absolute
\* One series over time: the two periods named, or a year and the one before it.
PeriodRight(question, cube, part) ==
    LET start == part.facts.start
        end == part.facts.end
    IN /\ start.series = end.series /\ end.series \in ToSet(question.mentions)
       /\ IF Len(Named(CategoryNames(cube), question)) >= 2 THEN {start.cat, end.cat} \subseteq ToSet(question.mentions)
          ELSE Cue(question, "yoy") =>
                 /\ Year[end.cat] = Year[start.cat] + 1
                 /\ \A label \in ToSet(question.mentions) : Year[label] <= Year[end.cat]

\* A part and its complement are the total.
ShareRight(part) ==
    LET facts == part.facts
    IN /\ {s.cat : s \in ToSet(facts.segments)} = {r.cat : r \in ToSet(part.rows)}
       /\ \A i, j \in DOMAIN facts.segments : facts.segments[i].cat = facts.segments[j].cat => i = j
       /\ facts.complement # <<>> =>
            LET others == {i \in DOMAIN facts.segments : facts.segments[i].cat # facts.complement[1].of}
            IN /\ others # DOMAIN facts.segments
               /\ facts.complement[1].rest = SumOf(KeepAt(facts.segments, others))

PathRight(part) ==
    /\ part.facts.net = ListTotal(part.facts.steps)
    /\ \A i \in DOMAIN part.facts.steps : part.facts.steps[i] \in part.facts.decline .. part.facts.increase
    /\ {part.facts.decline, part.facts.increase} \subseteq ToSet(part.facts.steps)

ComparisonRight(part) ==
    /\ part.facts.high \in ToSet(part.rows)
    /\ \A r \in ToSet(part.rows) : part.facts.high.y - r.y \in {0, part.facts.difference}
    /\ part.facts.difference >= 0

PartRight(question, cube, part) ==
    /\ ToSet(part.rows) \subseteq ToSet(EveryRow(cube)) /\ ToSet(part.rows) \subseteq UNION ToSet(part.evidence)
    /\ part.op = "group_change_attribution" => AttributionRight(question, cube, part)
    /\ part.op \in {"cross_dimension_change", "period_change"} => ChangeRight(question, part)
    /\ part.op = "period_change" => PeriodRight(question, cube, part)
    /\ part.op = "share_composition" => ShareRight(part)
    /\ part.op = "sequential_path" => PathRight(part)
    /\ part.op = "series_comparison" => ComparisonRight(part)
    /\ part.op = "point_lookup" => \A r \in ToSet(part.rows) : {r.series, r.cat} \subseteq ToSet(question.mentions)

\* Whatever operation takes the question, there is a chart of which its
\* arithmetic is right, in the direction of the wording, a "than" being seen only
\* between labels that are written as the chart has them: the members that both
\* years show add up to the net change and the contributors named lead it, the
\* steps add up to the path, a part and its complement to the total, a change
\* over a year ends in the year asked for, and the evidence holds every row that
\* a text states.
CalculationsAreRight ==
    calculation \notin {NoCalculation, Raises} =>
      \A part \in ToSet(calculation.parts) :
        /\ \E cube \in ToSet(ChartScopes(chartInput.elements)) : PartRight(chartInput.question, cube, part)
        /\ ToSet(part.evidence) \subseteq ToSet(calculation.evidence)
====

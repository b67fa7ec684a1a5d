---- MODULE ChartAnalysis ----
(***************************************************************************)
(* The chart analyzer: of the charts that were retrieved it takes the one  *)
(* the request describes best, summarizes its series, adds up its bars,    *)
(* and tells the verifier which series an answer may and must name.  A     *)
(* change is the pair <<from, to>>, or <<>> when it has no percentage.     *)
(* Besides what a calculation uses, a chart has its words and whether it   *)
(* is stacked.  Wording, axes, units and minima are left out.              *)
(***************************************************************************)
EXTENDS ChartCalculations, Verification

CONSTANTS
    AnalysisPlan,  \* plans: [visuals, tokens, counts, points, families, said], the
                   \* numbers and families a model gave, and what the text says
    AnalysisChart, \* sequences of chart elements
    Preferred,     \* the elements and slides of the evidence: [elements, slides]
    NoAnalysis

VARIABLES analysisInput, analysis
analysisVars == <<analysisInput, analysis>>

ASSUME AnalysisAssumption == \A elements \in AnalysisChart : SoundElements(elements)

----------------------------------------------------------------------------
(* The chart.                                                              *)

\* What a model gave goes before what the text says.
RequestSignature(plan) ==
    LET Given(structured, said) == IF structured # <<>> THEN structured ELSE said
    IN [tokens |-> plan.tokens,
        counts |-> Given(plan.counts, SelectSeq(plan.said.counts, LAMBDA n : n \in 2 .. 50)),
        points |-> Given(plan.points, Distinct(SelectSeq(plan.said.points, LAMBDA n : n \in 2 .. 120))),
        families |-> Given(plan.families, plan.said.families)]

EntityCount(cube) ==
    IF Len(cube.groups) = 1 /\ ~IsShare(cube) /\ ~IsOrderedCategorical(cube) THEN 1
    ELSE IF Len(cube.groups) = 1 THEN Len(cube.groups[1].points) ELSE Len(cube.groups)
IsAnalyzable(cube) == EntityCount(cube) >= 2 /\ Size(cube) >= 2

Families(cube) == {cube.groups[g].family : g \in DOMAIN cube.groups}
OfFamily(groups, family) == KeepAt(groups, {i \in DOMAIN groups : groups[i].family = family})
Occurrences(seq, n) == Len(SelectSeq(seq, LAMBDA k : k = n))

\* Requested numbers of series and families with as many, each used once.
CountMatches(cube, counts) ==
    LET sizes == {Len(OfFamily(cube.groups, f)) : f \in Families(cube)} \ {1}
        Sized(n) == Cardinality({f \in Families(cube) : Len(OfFamily(cube.groups, f)) = n})
    IN MapThenSumSet(LAMBDA n : Min({Sized(n), Occurrences(counts, n)}), sizes)

Score(cube, elements, request, preferred) ==
    LET first == elements[Min(cube.places)]
        names == SeriesNames(cube)
        Weight(condition, n) == IF condition THEN n ELSE 0
        counted == CountMatches(cube, request.counts)
        pointed == \E g \in DOMAIN cube.groups : Contains(request.points, Len(cube.groups[g].points))
    IN Cardinality(request.tokens \cap (first.words \cup ToSet(names)))
       + 12 * Cardinality(cube.places \cap preferred.elements)
       + Weight(first.slide \in preferred.slides, 10)
       + 9 * counted + Weight(pointed, 7)
       + 5 * Len(SelectSeq(request.families, LAMBDA f : f \in Families(cube)))
       + 8 * Len(SelectSeq(names, LAMBDA n : n \in request.tokens))
       - Weight(request.counts # <<>> /\ counted = 0, 48)
       - Weight(request.points # <<>> /\ ~pointed, 48)

\* The charts that may be selected: between equals the names of the scopes decide.
SelectScope(elements, request, preferred) ==
    LET cubes == {c \in ToSet(ChartScopes(elements)) : IsAnalyzable(c)}
        Value(c) == Score(c, elements, request, preferred)
        Above(a, b) == Value(a) > Value(b) \/ (Value(a) = Value(b) /\ EntityCount(a) > EntityCount(b))
    IN {c \in cubes : Value(c) > 0 /\ \A d \in cubes : ~Above(d, c)}

----------------------------------------------------------------------------
(* Series.                                                                 *)

PercentageChange(from, to) == IF from = 0 THEN <<>> ELSE <<from, to>>
Rose(change) == change # <<>> /\ change[2] > change[1]
Fell(change) == change # <<>> /\ change[2] < change[1]

\* The last three values against the three before them.
RecentChange(values) ==
    LET n == Len(values)
        Total(i) == values[i] + values[i + 1] + values[i + 2]
    IN IF n < 6 THEN <<>> ELSE PercentageChange(Total(n - 5), Total(n - 2))
YearOverYear(values) == IF Len(values) < 13 THEN <<>> ELSE PercentageChange(values[Len(values) - 12], values[Len(values)])

SeriesSummary(group) ==
    LET values == [i \in DOMAIN group.points |-> group.points[i].y]
        n == Len(values)
        temporal == Temporal(CategoriesOf(group.points))
        peak == Min({i \in 1 .. n : \A k \in 1 .. n : values[k] <= values[i]})
        declines == Max({k \in 0 .. n - 1 : \A i \in n - k + 1 .. n : values[i] < values[i - 1]})
    IN [name |-> group.name, family |-> group.family, temporal |-> temporal,
        relative |-> PercentageChange(values[1], values[n]),
        yoy |-> IF temporal THEN YearOverYear(values) ELSE <<>>,
        recent |-> IF temporal THEN RecentChange(values) ELSE <<>>,
        fromPeak |-> PercentageChange(values[peak], values[n]),
        sincePeak |-> IF temporal THEN n - peak ELSE 0,
        declines |-> IF temporal THEN declines ELSE 0]

Summarized(cube) == KeepAt(cube.groups, {g \in DOMAIN cube.groups : Len(cube.groups[g].points) >= 2})
Summaries(cube) == [i \in DOMAIN Summarized(cube) |-> SeriesSummary(Summarized(cube)[i])]
NamesOf(summaries) == {summaries[i].name : i \in DOMAIN summaries}

\* Lower of late, or at least 3 % under a peak of the last five periods and still falling.
Declining(s) ==
    \/ Fell(s.recent)
    \/ /\ s.fromPeak # <<>> /\ 100 * (s.fromPeak[2] - s.fromPeak[1]) <= -3 * Magnitude(s.fromPeak[1])
       /\ s.sincePeak <= 5 /\ s.declines >= 2

----------------------------------------------------------------------------
(* Bars together, and lines against them.                                  *)

ValueAt(group, cat) == group.points[Max({i \in DOMAIN group.points : group.points[i].cat = cat})].y
SharedCategories(bars) ==
    LET first == CategoriesOf(bars[1].points)
    IN KeepAt(first, {i \in DOMAIN first : \A b \in DOMAIN bars : \E k \in DOMAIN bars[b].points : bars[b].points[k].cat = first[i]})
TotalAt(bars, period) == ListTotal([b \in DOMAIN bars |-> ValueAt(bars[b], period)])
\* The latest shares, one of each name: the last bar's.
Shares(bars, period) ==
    LET names == Distinct([b \in DOMAIN bars |-> bars[b].name])
        LastOf(name) == Max({b \in DOMAIN bars : bars[b].name = name})
    IN [k \in DOMAIN names |-> [name |-> names[k], value |-> ValueAt(bars[LastOf(names[k])], period)]]

\* The bars of every period that all of them have.
TotalOver(bars, periods) ==
    LET totals == [p \in DOMAIN periods |-> TotalAt(bars, periods[p])]
    IN <<[periods |-> periods, totals |-> totals,
          relative |-> PercentageChange(totals[1], totals[Len(totals)]),
          yoy |-> YearOverYear(totals), recent |-> RecentChange(totals),
          shares |-> Shares(bars, periods[Len(periods)])]>>
BarTotal(cube) ==
    LET bars == OfFamily(Summarized(cube), "bar")
        periods == SharedCategories(bars)
    IN IF Len(bars) < 2 THEN <<>>
       ELSE IF Len(periods) < 2 \/ ~Temporal(periods) THEN <<>> ELSE TotalOver(bars, periods)

\* The facts the model is given.
RenderBundle(cube, stacked) ==
    LET summaries == Summaries(cube)
        lines == OfFamily(summaries, "line")
        total == IF lines # <<>> \/ stacked THEN BarTotal(cube) ELSE <<>>
        declining == {s.name : s \in {t \in ToSet(lines) : Declining(t)}}
        rows == SeriesRows(cube, SeriesNames(cube)[1])
    IN [total |-> total,
        composition |-> IF IsShare(cube) THEN <<[total |-> SumOf(rows), largest |-> Max({r.y : r \in ToSet(rows)})]>> ELSE <<>>,
        path |-> IF IsOrderedCategorical(cube) THEN <<[net |-> rows[Len(rows)].y - rows[1].y]>> ELSE <<>>,
        divergence |-> IF total # <<>> /\ Rose(total[1].recent) THEN declining ELSE {}]

\* What the verifier holds an answer to: every family of bars and lines is
\* spoken of, by two names when its size was asked for, and no other chart.
ScopeMetadata(elements, summaries, request) ==
    LET FamilyNames(f) == [i \in DOMAIN OfFamily(summaries, f) |-> OfFamily(summaries, f)[i].name]
        Minimum(names) == IF Contains(request.counts, Len(names)) THEN Min({2, Len(names)}) ELSE 1
        all == UNION {{elements[e].series[g].name : g \in DOMAIN elements[e].series} : e \in DOMAIN elements}
    IN [noMapping |-> TRUE, excluded |-> all \ NamesOf(summaries),
        families |-> {[names |-> FamilyNames(f), minimum |-> Minimum(FamilyNames(f))] :
                        f \in {s.family : s \in ToSet(summaries)} \cap {"bar", "line"}}]

----------------------------------------------------------------------------
(* The text that stands in for the model's (charts/reporting.py).          *)

Weakened_OneDecline(s) ==
    s.temporal /\ (Fell(s.recent) \/ (s.declines >= 1 /\ s.fromPeak # <<>> /\ 100 * s.fromPeak[2] <= 97 * s.fromPeak[1]))
Weakened(s) == s.temporal /\ Declining(s)
RenderFallback(summaries) ==
    LET temporal == {s \in ToSet(summaries) : s.temporal}
        lines == {s \in temporal : s.family = "line"}
        bars == {s \in temporal : s.family = "bar"}
        weak == {s \in lines : Weakened(s)}
    IN [members |-> NamesOf(summaries), weak |-> weak,
        rising |-> {s \in lines \ weak : ~Fell(s.yoy)},
        risingBars |-> {s \in bars : Rose(s.relative)}, fallingBars |-> {s \in bars : Fell(s.relative)}]

AnalysisInit ==
    /\ analysisInput \in [plan : AnalysisPlan, elements : AnalysisChart, preferred : Preferred]
    /\ analysis = NoAnalysis

Analysis(cube, elements, request) ==
    <<[cube |-> cube, summaries |-> Summaries(cube),
       bundle |-> RenderBundle(cube, \E e \in cube.places : elements[e].stacked),
       scope |-> ScopeMetadata(elements, Summaries(cube), request),
       fallback |-> RenderFallback(Summaries(cube))]>>

AnalyzeCharts ==
    /\ analysis = NoAnalysis
    /\ LET elements == analysisInput.elements
           request == RequestSignature(analysisInput.plan)
           selected == SelectScope(elements, request, analysisInput.preferred)
       IN IF ~analysisInput.plan.visuals \/ selected = {} THEN analysis' = <<>>
          ELSE \E cube \in selected :
                 analysis' = IF Summaries(cube) = <<>> THEN <<>> ELSE Analysis(cube, elements, request)
    /\ UNCHANGED analysisInput

AnalysisSpec == AnalysisInit /\ [][AnalyzeCharts]_analysisVars

----------------------------------------------------------------------------

\* The text calls those lines weak that the facts set against a growing total.
SameLines(a) == a.bundle.divergence # {} => a.bundle.divergence = {s.name : s \in a.fallback.weak}

\* A total is the sum of its named shares, and when it grew, over periods that
\* all bars have, each once, some bar did.
TotalExplained(a) ==
    LET bars == OfFamily(Summarized(a.cube), "bar")
        total == a.bundle.total[1]
        shared == \A b \in DOMAIN bars : CategoriesOf(bars[b].points) = total.periods /\ bars[b].points[1].y > 0
    IN a.bundle.total # <<>> =>
         /\ Len(total.shares) = Len(bars) =>
              ListTotal([k \in DOMAIN total.shares |-> total.shares[k].value]) = total.totals[Len(total.totals)]
         /\ shared /\ IsInjective(total.periods) /\ Rose(total.relative) => a.fallback.risingBars # {}

\* The fallback itself meets the verifier's tests, and an answer that names a
\* series of no chosen name does not.
ScopeEnforced(a, elements) ==
    LET Answer(names) == <<[series |-> names]>>
    IN /\ OutsideScope(Answer(a.fallback.members), a.scope) = {}
       /\ MissingFamilies(Answer(a.fallback.members), a.scope) = {}
       /\ \A e \in DOMAIN elements \ a.cube.places : \A g \in DOMAIN elements[e].series :
            LET name == elements[e].series[g].name
            IN name \notin a.fallback.members => OutsideScope(Answer(a.fallback.members \cup {name}), a.scope) # {}

\* The facts, the fallback text and the demands of the verifier, which three
\* files derive from the same points, agree; and a series is no longer falling
\* than its peak is past.
ChartAnalysesAreRight ==
    LET a == analysis[1]
    IN analysis \notin {NoAnalysis, <<>>} =>
         /\ SameLines(a) /\ TotalExplained(a) /\ ScopeEnforced(a, analysisInput.elements)
         /\ \A i \in DOMAIN a.summaries : a.summaries[i].declines <= a.summaries[i].sincePeak
====

---- MODULE Reconciliation ----
(***************************************************************************)
(* The scope reconciler (analysis/reconciliation.py): a table and a chart  *)
(* that disagree on one label do not contradict each other when one of     *)
(* them folds into it the members that it does not show.  Each column of a *)
(* table, each series and each category of a chart is a projection, labels *)
(* with a number.  Labels are compared as normalized; numbers are in       *)
(* tenths, and a label of which nothing is left is "".  A table is         *)
(* [titles, columns, rows] as in TableReasoning, its columns [name, unit]; *)
(* a chart has its titles; a unit is its family.                           *)
(***************************************************************************)
EXTENDS ChartCalculations, TableReasoning

CONSTANTS
    ReconcileQuestion, \* [asks, mentions]: a cue of reconciliation, the names in it
    ReconcileTable,    \* sequences of tables
    ReconcileChart,    \* sequences of chart elements
    RelatedNames,      \* pairs of names of which one contains the other
    NotReconciled

VARIABLES reconcileInput, reconciled
reconcileVars == <<reconcileInput, reconciled>>

SoundSource(table) ==
    /\ IsList(table.columns) /\ IsList(table.rows)
    /\ \A r \in ToSet(table.rows) : \A c \in DOMAIN table.columns : Numeric(r, c) => Number(r, c) \in Int
ASSUME ReconcileAssumption ==
    /\ \A tables \in ReconcileTable : IsList(tables) /\ \A i \in DOMAIN tables : SoundSource(tables[i])
    /\ \A elements \in ReconcileChart : SoundElements(elements)

Absolute(n) == IF n < 0 THEN -n ELSE n

\* One in a thousand, or a half.
Close(a, b) == Absolute(a - b) <= 5 \/ 1000 * Absolute(a - b) <= Max({Absolute(a), Absolute(b)})

----------------------------------------------------------------------------
(* Projections.                                                            *)

UnitFamily(units) ==
    IF "percent" \in units THEN "percent" ELSE IF "currency" \in units THEN "currency" ELSE "unknown"
Entry(label, n) == [label |-> label, n |-> n]
Projection(kind, metric, titles, values, units) ==
    [kind |-> kind, metric |-> metric, aliases |-> {metric} \cup titles, values |-> values, unit |-> UnitFamily(units)]

\* A member has a label and a number; totals are none.
IsMember(row, c) == ~IsTotal(row, AnyTotal) /\ row.label # Blank /\ Numeric(row, c)
\* The first row of each label; what it is repeated with is passed over.
FirstOfLabel(rows, c) ==
    {i \in DOMAIN rows : /\ IsMember(rows[i], c)
                         /\ \A k \in 1 .. i - 1 : IsMember(rows[k], c) => rows[k].label # rows[i].label}
FirstNumeric(table, c) ==
    LET members == KeepAt(table.rows, FirstOfLabel(table.rows, c))
    IN [i \in DOMAIN members |-> Entry(members[i].label, Number(members[i], c))]
ColumnProjection(table, c) ==
    Projection("table", table.columns[c].name, table.titles, FirstNumeric(table, c), {table.columns[c].unit})
ColumnProjections(table) ==
    LET all == [c \in DOMAIN table.columns |-> ColumnProjection(table, c)]
    IN KeepAt(all, {c \in DOMAIN all : c > 1 /\ Len(all[c].values) >= 3})

Distinguished(projection) ==
    Len(projection.values) >= 2 /\ Len(projection.values) = Cardinality({v.label : v \in ToSet(projection.values)})
\* Points without a label are left out.
SeriesProjection(group, titles) ==
    LET points == KeepAt(group.points, {i \in DOMAIN group.points : group.points[i].cat # Blank})
    IN Projection("chart", group.name, titles, [i \in DOMAIN points |-> Entry(points[i].cat, points[i].y)], {group.unit})
CategoryProjection(cube, category, titles) ==
    LET all == EveryRow(cube)
        rows == KeepAt(all, {i \in DOMAIN all : all[i].cat = category /\ all[i].series # Blank})
    IN Projection("chart", category, titles, [i \in DOMAIN rows |-> Entry(rows[i].series, rows[i].y)],
                  {r.unit : r \in {q \in ToSet(all) : q.cat = category}})
AllProjections(cube, titles) ==
    [g \in DOMAIN cube.groups |-> SeriesProjection(cube.groups[g], titles)]
        \o [i \in DOMAIN CategoryNames(cube) |-> CategoryProjection(cube, CategoryNames(cube)[i], titles)]
CubeProjections(cube, titles) ==
    LET all == AllProjections(cube, titles)
    IN KeepAt(all, {i \in DOMAIN all : Distinguished(all[i])})

TableProjections(tables) == FlattenSeq([i \in DOMAIN tables |-> ColumnProjections(tables[i])])
ChartProjections(elements) ==
    LET cubes == ChartScopes(elements)
    IN FlattenSeq([i \in DOMAIN cubes |-> CubeProjections(cubes[i], elements[Min(cubes[i].places)].titles)])

----------------------------------------------------------------------------
(* Matches.                                                                *)

UnitsMatch(left, right) == left.unit = right.unit \/ "unknown" \in {left.unit, right.unit}
MetricScore(question, left, right) ==
    LET mentioned == {p \in {left, right} : p.aliases \cap question.mentions # {}}
    IN (IF left.aliases \cap right.aliases # {} THEN 8
        ELSE IF (left.aliases \X right.aliases) \cap RelatedNames # {} THEN 5 ELSE 0) + 2 * Cardinality(mentioned)

Keys(projection) == {projection.values[i].label : i \in DOMAIN projection.values}
ValueOf(projection, label) == (CHOOSE v \in ToSet(projection.values) : v.label = label).n
SumOver(projection, labels) == MapThenSumSet(LAMBDA l : ValueOf(projection, l), labels)
Agree_InAHundred(narrow, broad, label) ==
    100 * Absolute(ValueOf(narrow, label) - ValueOf(broad, label)) <= Absolute(ValueOf(broad, label))
Agree(narrow, broad, label) == Close(ValueOf(narrow, label), ValueOf(broad, label))
Match(narrow, broad, target, components, stable, score) ==
    <<[narrow |-> narrow, broad |-> broad, target |-> target, components |-> components, stable |-> stable, score |-> score]>>

\* The members that only the narrow source shows are what the broad one has
\* more under one label, and everything else is equal.
Matches(question, narrow, broad) ==
    LET common == Keys(narrow) \cap Keys(broad)
        components == Keys(narrow) \ Keys(broad)
        stable == {l \in common : Agree(narrow, broad, l)}
        target == CHOOSE l \in common : l \notin stable
        metric == MetricScore(question, narrow, broad)
    IN IF \/ Cardinality(common) < 2 \/ components = {} \/ Keys(broad) \ Keys(narrow) # {}
          \/ metric = 0 /\ Cardinality(common) < 4
          \/ Cardinality(common \ stable) # 1 \/ stable = {}
       THEN <<>>
       ELSE IF /\ Close(ValueOf(narrow, target) + SumOver(narrow, components), ValueOf(broad, target))
               /\ Close(SumOver(narrow, Keys(narrow)), SumOver(broad, Keys(broad)))
       THEN Match(narrow, broad, target, components, stable,
                  metric + 2 * Cardinality(stable) + (IF target \in question.mentions THEN 6 ELSE 0) - Cardinality(components))
       ELSE <<>>

BothWays(question, table, chart) ==
    IF UnitsMatch(table, chart) THEN Matches(question, table, chart) \o Matches(question, chart, table) ELSE <<>>
ReconcileCandidates(question, tables, elements) ==
    LET charts == ChartProjections(elements)
        columns == TableProjections(tables)
    IN FlattenSeq([t \in DOMAIN columns |->
           FlattenSeq([c \in DOMAIN charts |-> BothWays(question, columns[t], charts[c])])])

\* The first of the best.
Reconcile(question, tables, elements) ==
    LET candidates == ReconcileCandidates(question, tables, elements)
        best == {i \in DOMAIN candidates : \A k \in DOMAIN candidates : candidates[k].score <= candidates[i].score}
    IN IF ~question.asks \/ candidates = <<>> THEN <<>> ELSE <<candidates[Min(best)]>>

ReconcileInit ==
    /\ reconcileInput \in [question : ReconcileQuestion, tables : ReconcileTable, elements : ReconcileChart]
    /\ reconciled = NotReconciled

ReconcileSources ==
    /\ reconciled = NotReconciled
    /\ reconciled' = Reconcile(reconcileInput.question, reconcileInput.tables, reconcileInput.elements)
    /\ UNCHANGED reconcileInput

ReconcileSpec == ReconcileInit /\ [][ReconcileSources]_reconcileVars

----------------------------------------------------------------------------

\* Where the numbers of a table come from: all members that have one in a column,
\* and of those with the same label the first.
FromColumn(column, table, c) ==
    LET rows == table.rows
    IN /\ table.columns[c].name = column.metric
       /\ \A i \in DOMAIN rows : IsMember(rows[i], c) => rows[i].label \in Keys(column)
       /\ \A v \in ToSet(column.values) : \E i \in DOMAIN rows :
            /\ IsMember(rows[i], c) /\ rows[i].label = v.label /\ Number(rows[i], c) = v.n
            /\ \A k \in DOMAIN rows : IsMember(rows[k], c) /\ rows[k].label = v.label => i <= k
\* And those of a chart: what has a label of a series, or of a category of one scope.
FromScope(chart, cube) ==
    \/ \E group \in ToSet(cube.groups) :
         /\ group.name = chart.metric
         /\ ToSet(chart.values) = {Entry(p.cat, p.y) : p \in {q \in ToSet(group.points) : q.cat # Blank}}
    \/ ToSet(chart.values) = {Entry(r.series, r.y) : r \in {q \in ToSet(EveryRow(cube)) : q.cat = chart.metric /\ q.series # Blank}}
ShownBy(tables, elements, column, chart) ==
    /\ column.kind = "table" /\ chart.kind = "chart"
    /\ \E t \in ToSet(tables) : \E c \in DOMAIN t.columns : FromColumn(column, t, c)
    /\ \E cube \in ToSet(ChartScopes(elements)) : FromScope(chart, cube)
\* The members account for the one difference.
Explained(match, column, chart) ==
    LET shared == Keys(column) \cap Keys(chart)
    IN /\ shared \cup match.components = Keys(column) \cup Keys(chart)
       /\ match.components \cap Keys(match.broad) = {}
       /\ \A l \in shared \ {match.target} : Close(ValueOf(column, l), ValueOf(chart, l))
       /\ match.target \in shared /\ ~Close(ValueOf(column, match.target), ValueOf(chart, match.target))
       /\ Close(ValueOf(match.narrow, match.target) + SumOver(match.narrow, match.components),
                ValueOf(match.broad, match.target))

\* "Not contradictory" is only said of a table and a chart that differ in
\* nothing else that is compared: of every label in the column of the table,
\* by its first number, and of every label in the series or the category of the
\* chart, those that both have agree to a rounding but for the one that is
\* explained, no label is left out of the comparison, no total is counted as
\* a member, and the members account for the difference.  What is not compared
\* is said too: later rows of a label that the table repeats, and rows and
\* points without a label.
ReconciliationsAreProven ==
    LET match == reconciled[1]
        column == IF match.narrow.kind = "table" THEN match.narrow ELSE match.broad
        chart == IF match.narrow.kind = "table" THEN match.broad ELSE match.narrow
    IN reconciled \notin {NotReconciled, <<>>} =>
         ShownBy(reconcileInput.tables, reconcileInput.elements, column, chart) /\ Explained(match, column, chart)
====

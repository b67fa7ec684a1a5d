---- MODULE TableReasoning ----
(***************************************************************************)
(* The calculator of tables: the rows of a table that a question names,    *)
(* its columns, and the first operation that applies.  A table is          *)
(* [columns, rows, score]: columns [name, year, role], a row [label,       *)
(* marks, cells], its marks the words for a total that the label has, a    *)
(* cell <<>> or a number with its comparison [n, test].  A question is     *)
(* [cues, labels, columns, word, filter, boundary]: the phrases it has,    *)
(* the labels and column names that it matches, where its two groups meet. *)
(* A label has the place where it is written out, -1 when it is matched in *)
(* other words, and its span, optional conjunctions aside, or <<>>; a      *)
(* column has its place and that of its name, its aliases or its year; the *)
(* word is that of the extreme.  What an answer states is [op, rows,       *)
(* column, result], of several columns the first.                          *)
(***************************************************************************)
EXTENDS SequenceParts, SequencesExt, FiniteSets, FiniteSetsExt

CONSTANTS TableQuestion, SourceTable, NoAnswer, Unanswered

VARIABLES tableInput, tableAnswer
tableVars == <<tableInput, tableAnswer>>

SoundTable(table) ==
    /\ IsList(table.columns) /\ IsList(table.rows) /\ table.score \in Int
    /\ \A i \in DOMAIN table.rows : \A c \in DOMAIN table.columns :
         table.rows[i].cells[c] # <<>> => table.rows[i].cells[c][1].n \in Int
Readable(question) ==
    /\ question.word \in Int
    /\ \A l \in DOMAIN question.labels :
         /\ question.labels[l].at \in Int
         /\ question.labels[l].span # <<>> => question.labels[l].span[1] \in Int
    /\ \A n \in DOMAIN question.columns : question.columns[n].at \in Int /\ question.columns[n].near \in Int
ASSUME TableAssumption ==
    /\ \A question \in TableQuestion : Readable(question)
    /\ \A tables \in SourceTable : IsList(tables) /\ \A i \in DOMAIN tables : SoundTable(tables[i])

\* The phrases, each with the shorter ones it contains.
HasAny(question, phrases) == question.cues \cap phrases # {}
OfPhrases == {"of", "shareOf", "ofWhole", "ofSum"}
SumPhrases == {"sum", "ofSum"}

\* The words for a total, 合计, 总计 and total, and the operations' tests of them.
AnyTotal == {"heji", "zongji", "total"}
SumTotal == {"heji"}
ChineseTotal == {"heji", "zongji"}
IsTotal(row, words) == row.marks \cap words # {}
Members(rows, words) == KeepAt(rows, {i \in DOMAIN rows : ~IsTotal(rows[i], words)})
Totals(rows, words) == KeepAt(rows, {i \in DOMAIN rows : IsTotal(rows[i], words)})

RowMatches(question, table) ==
    KeepAt(table.rows, {i \in DOMAIN table.rows : table.rows[i].label \in DOMAIN question.labels})
\* The first column has the labels.
ColumnMatches(question, table) ==
    KeepAt([c \in DOMAIN table.columns |-> c],
           {c \in DOMAIN table.columns : c > 1 /\ table.columns[c].name \in DOMAIN question.columns})
Role(table, role) == {c \in DOMAIN table.columns : table.columns[c].role = role}

\* Rows by the place of the label as written; one in other words comes first.
LabelAt(question, row) == question.labels[row.label].at
InQuestionOrder(question, rows) ==
    Sorted(rows, {p \in ToSet(rows) \X ToSet(rows) : LabelAt(question, p[1]) < LabelAt(question, p[2])})
\* Rows by their span, those that have one.
HasSpan(question, row) == question.labels[row.label].span # <<>>
SpanStart(question, row) == question.labels[row.label].span[1]
Spanned(question, rows) ==
    LET found == KeepAt(rows, {i \in DOMAIN rows : HasSpan(question, rows[i])})
    IN Sorted(found, {p \in ToSet(found) \X ToSet(found) : SpanStart(question, p[1]) < SpanStart(question, p[2])})

Numeric(row, c) == row.cells[c] # <<>>
Number(row, c) == row.cells[c][1].n
TotalOf(rows, c) == ListTotal([i \in DOMAIN rows |-> Number(rows[i], c)])
States(op, rows, c, result) == <<[op |-> op, rows |-> rows, column |-> c, result |-> result]>>

TableRelevance(question, table) ==
    4 * Len(RowMatches(question, table)) + 3 * Len(ColumnMatches(question, table)) + table.score

----------------------------------------------------------------------------
(* The operations.                                                         *)

\* Two groups of named rows, when the wording has one boundary between them.
CompareGroups(columns, left, right) ==
    LET numeric == KeepAt(columns, {i \in DOMAIN columns : \A r \in ToSet(left \o right) : Numeric(r, columns[i])})
    IN IF numeric = <<>> \/ left = <<>> \/ right = <<>> THEN NoAnswer
       ELSE States("grouped", left \o right, numeric[1],
                   [sums |-> <<TotalOf(left, numeric[1]), TotalOf(right, numeric[1])>>,
                    higher |-> TotalOf(left, numeric[1]) - TotalOf(right, numeric[1])])
\* A question for shares adds the columns of shares to those it names.
GroupedColumns(question, table) ==
    LET named == ColumnMatches(question, table)
        shares == KeepAt([c \in DOMAIN table.columns |-> c], Role(table, "share") \ ToSet(named))
    IN IF HasAny(question, OfPhrases \cup {"percent"}) THEN named \o shares ELSE named
GroupedComparison(question, table) ==
    LET rows == Spanned(question, Members(RowMatches(question, table), AnyTotal))
    IN IF HasAny(question, SumPhrases \cup {"jointly", "altogether"}) /\ Len(rows) >= 3 /\ question.boundary \in 1 .. Len(rows) - 1
       THEN CompareGroups(GroupedColumns(question, table), SubSeq(rows, 1, question.boundary),
                          SubSeq(rows, question.boundary + 1, Len(rows)))
       ELSE NoAnswer

ConditionPasses(current, condition) ==
    CASE condition.test = ">=" -> current.n >= condition.n
      [] condition.test = "<=" -> current.n <= condition.n
      [] condition.test = ">" -> current.n > condition.n
      [] condition.test = "<" -> current.n < condition.n
      [] condition.test = "" -> current.n = condition.n

\* Rows that cannot be compared are left out of "all of them".
JudgeRows(rows, current, limit) ==
    LET judged == KeepAt(rows, {i \in DOMAIN rows : Numeric(rows[i], current) /\ Numeric(rows[i], limit)})
        Passes(r) == ConditionPasses(r.cells[current][1], r.cells[limit][1])
    IN IF judged = <<>> \/ Len(rows) > 8 THEN NoAnswer
       ELSE States("threshold", judged, current, [limit |-> limit, all |-> \A i \in DOMAIN judged : Passes(judged[i])])
AskedRows(rows) ==
    LET members == Members(rows, SumTotal)
    IN KeepAt(members, {i \in DOMAIN members : members[i].label # Blank})
Threshold(question, table) ==
    LET named == RowMatches(question, table)
        limits == IF Role(table, "limit") # {} THEN Role(table, "limit") ELSE Role(table, "green")
    IN IF HasAny(question, {"evaluates"}) /\ Role(table, "current") # {} /\ limits # {}
       THEN JudgeRows(IF named # <<>> THEN named ELSE AskedRows(table.rows), Min(Role(table, "current")), Min(limits))
       ELSE NoAnswer

\* The one or two rows that lead the column nearest to the word; a total is one
\* by a Chinese word for it.
Leads(question, rows, c) ==
    {p \in ToSet(rows) \X ToSet(rows) :
       IF HasAny(question, {"highest"}) THEN Number(p[1], c) > Number(p[2], c) ELSE Number(p[1], c) < Number(p[2], c)}
Leaders_WithTotals(question, table, c) ==
    LET rows == KeepAt(table.rows, {i \in DOMAIN table.rows : Numeric(table.rows[i], c)})
    IN Sorted(rows, Leads(question, rows, c))
Leaders(question, table, c) ==
    LET rows == KeepAt(table.rows, {i \in DOMAIN table.rows : ~IsTotal(table.rows[i], ChineseTotal) /\ Numeric(table.rows[i], c)})
    IN Sorted(rows, Leads(question, rows, c))
LeadersIn(question, leaders, c) ==
    IF leaders = <<>> THEN NoAnswer
    ELSE States("extreme", SubSeq(leaders, 1, Min({IF HasAny(question, {"two"}) THEN 2 ELSE 1, Len(leaders)})), c,
                [highest |-> HasAny(question, {"highest"})])
\* What has no place is the last, in the order of the columns.
PlaceOr(place, distance, c) == IF place >= 0 THEN distance ELSE 10000 + c
Distance(question, table, c) ==
    LET near == question.columns[table.columns[c].name].near
    IN PlaceOr(near, IF near > question.word THEN near - question.word ELSE question.word - near, c)
Extreme(question, table) ==
    LET columns == ColumnMatches(question, table)
        numeric == KeepAt(columns, {k \in DOMAIN columns :
                     Cardinality({i \in DOMAIN table.rows : Numeric(table.rows[i], columns[k])}) >= 2})
        nearest == Sorted(numeric, {p \in ToSet(numeric) \X ToSet(numeric) :
                     Distance(question, table, p[1]) < Distance(question, table, p[2])})
    IN IF ~HasAny(question, {"highest", "lowest"}) \/ numeric = <<>> THEN NoAnswer
       ELSE LeadersIn(question, Leaders(question, table, nearest[1]), nearest[1])

\* The rows with a value in a column, [column, value]; their sum when it is asked
\* for, and its share of the total, when there is one that is not zero.
AsksSum(question) == HasAny(question, SumPhrases \cup {"jointly", "ofWhole"})
SelectedRows(question, table, rows, requested) ==
    LET summable == KeepAt(requested, {i \in DOMAIN requested : \A r \in ToSet(rows) : Numeric(r, requested[i])})
        totals == Totals(table.rows, SumTotal)
    IN IF rows = <<>> \/ requested = <<>> \/ (AsksSum(question) /\ summable = <<>>) THEN NoAnswer
       ELSE IF ~AsksSum(question) THEN States("filter", rows, requested[1], [sum |-> <<>>, share |-> <<>>])
       ELSE States("filter", rows, summable[1],
                   [sum |-> <<TotalOf(rows, summable[1])>>,
                    share |-> IF /\ HasAny(question, {"ofWhole", "ratio", "ratioAbout"}) /\ totals # <<>>
                                 /\ Numeric(totals[1], summable[1]) /\ Number(totals[1], summable[1]) # 0
                              THEN <<TotalOf(rows, summable[1]), Number(totals[1], summable[1])>> ELSE <<>>])
Filter(question, table) ==
    IF question.filter = <<>> \/ question.filter[1].column \notin DOMAIN table.columns THEN NoAnswer
    ELSE LET by == question.filter[1]
             members == Members(table.rows, SumTotal)
             columns == ColumnMatches(question, table)
         IN SelectedRows(question, table,
                KeepAt(members, {i \in DOMAIN members : Numeric(members[i], by.column) /\ Number(members[i], by.column) = by.value}),
                KeepAt(columns, {i \in DOMAIN columns : columns[i] # by.column /\ table.columns[columns[i]].role # "unit"}))

Divided(op, numerator, denominator, c) ==
    IF ~Numeric(numerator, c) \/ ~Numeric(denominator, c) \/ Number(denominator, c) = 0 THEN NoAnswer
    ELSE States(op, <<numerator, denominator>>, c, [ratio |-> <<Number(numerator, c), Number(denominator, c)>>])
\* A share of the total, or how many times one row is another.
RatioIn(question, table, rows, c) ==
    LET totals == Totals(table.rows, ChineseTotal)
        ordered == InQuestionOrder(question, rows)
    IN IF HasAny(question, OfPhrases) /\ rows # <<>>
       THEN IF totals = <<>> THEN NoAnswer ELSE Divided("share", rows[1], totals[1], c)
       ELSE IF HasAny(question, {"times"}) /\ Len(rows) >= 2 THEN Divided("times", ordered[1], ordered[2], c) ELSE NoAnswer
\* A share that several columns may have is looked up, unless it is said of what.
AsksStated(question, columns) ==
    HasAny(question, {"shareOf"}) /\ Len(columns) >= 2 /\ ~HasAny(question, {"ofSum", "ratioAbout"})
Ratio(question, table) ==
    LET columns == ColumnMatches(question, table)
        numeric == KeepAt(columns, {i \in DOMAIN columns : \E r \in ToSet(table.rows) : Numeric(r, columns[i])})
    IN IF ~HasAny(question, OfPhrases \cup {"times"}) \/ AsksStated(question, columns) \/ numeric = <<>> THEN NoAnswer
       ELSE RatioIn(question, table, RowMatches(question, table), numeric[1])

\* "How much lower" says lower, whatever the sign is.
Wording(question, difference) ==
    CASE HasAny(question, {"lower"}) -> "lower"
      [] ~HasAny(question, {"lower"}) /\ HasAny(question, {"higher"}) -> "higher"
      [] OTHER -> "signed"
BetweenRows(question, first, second, c) ==
    IF ~Numeric(first, c) \/ ~Numeric(second, c) THEN NoAnswer
    ELSE States("difference", <<first, second>>, c,
                [by |-> Number(first, c) - Number(second, c), says |-> Wording(question, Number(first, c) - Number(second, c))])
YearAt(question, table, c) ==
    LET at == question.columns[table.columns[c].name].at IN PlaceOr(at, at, c)
BetweenYears(question, table, row, years) ==
    LET ordered == Sorted(years, {p \in ToSet(years) \X ToSet(years) : YearAt(question, table, p[1]) < YearAt(question, table, p[2])})
        from == ordered[1]
        to == ordered[Len(ordered)]
    IN IF Len(years) < 2 \/ ~Numeric(row, from) \/ ~Numeric(row, to) THEN NoAnswer
       ELSE States("change", <<row>>, to, [from |-> from, by |-> Number(row, to) - Number(row, from),
                                           rises |-> Number(row, to) >= Number(row, from)])
Difference(question, table) ==
    LET rows == RowMatches(question, table)
        columns == ColumnMatches(question, table)
        ordered == InQuestionOrder(question, rows)
    IN IF ~HasAny(question, {"change", "lower", "higher"}) THEN NoAnswer
       ELSE IF Len(rows) >= 2 /\ columns # <<>> THEN BetweenRows(question, ordered[1], ordered[2], columns[1])
       ELSE IF Len(rows) = 1 /\ Len(columns) >= 2
       THEN BetweenYears(question, table, rows[1], KeepAt(columns, {i \in DOMAIN columns : table.columns[columns[i]].year})) ELSE NoAnswer

\* One row, or the total when it is asked for by name.
Lookup(question, table) ==
    LET named == RowMatches(question, table)
        totals == Totals(table.rows, SumTotal)
        rows == IF named = <<>> /\ HasAny(question, SumPhrases)
                THEN SubSeq(totals, 1, Min({1, Len(totals)})) ELSE named
        matched == ColumnMatches(question, table)
        columns == KeepAt(matched, {i \in DOMAIN matched : table.columns[matched[i]].role # "unit"})
    IN IF Len(rows) # 1 \/ columns = <<>> THEN NoAnswer
       ELSE States("lookup", rows, columns[1], [value |-> rows[1].cells[columns[1]]])

----------------------------------------------------------------------------
(* The reasoner.                                                           *)

TableOperations(question, table) ==
    <<GroupedComparison(question, table), Threshold(question, table), Extreme(question, table),
      Filter(question, table), Ratio(question, table), Difference(question, table), Lookup(question, table)>>
FirstAnswer(answers) ==
    LET given == {i \in DOMAIN answers : answers[i] # NoAnswer}
    IN IF given = {} THEN NoAnswer ELSE answers[Min(given)]

\* The most relevant table that has an answer.
ReasonOver(question, tables) ==
    LET relevant == KeepAt(tables, {i \in DOMAIN tables : TableRelevance(question, tables[i]) >= 3})
        ranked == Sorted(relevant, {p \in ToSet(relevant) \X ToSet(relevant) :
                                      TableRelevance(question, p[1]) > TableRelevance(question, p[2])})
    IN FirstAnswer([i \in DOMAIN ranked |-> FirstAnswer(TableOperations(question, ranked[i]))])

TableInit ==
    /\ tableInput \in [question : TableQuestion, tables : SourceTable]
    /\ tableAnswer = Unanswered

AnswerFromTables ==
    /\ tableAnswer = Unanswered
    /\ tableAnswer' = ReasonOver(tableInput.question, tableInput.tables)
    /\ UNCHANGED tableInput
TableSpec == TableInit /\ [][AnswerFromTables]_tableVars

----------------------------------------------------------------------------

NamedRows(question, table) == {r \in ToSet(table.rows) : r.label \in DOMAIN question.labels}

\* The two sums are of all the rows that are named in their own words and are no
\* totals by any word, each counted once, and the first group is named before
\* the second.
GroupsRight(question, table, stated) ==
    LET rows == stated.rows
    IN /\ ToSet(rows) = {r \in NamedRows(question, table) : ~IsTotal(r, AnyTotal) /\ HasSpan(question, r)}
       /\ IsInjective(table.rows) => IsInjective(rows)
       /\ stated.result.sums[1] + stated.result.sums[2] = TotalOf(rows, stated.column)
       /\ stated.result.higher = stated.result.sums[1] - stated.result.sums[2]
       /\ \A i, k \in DOMAIN rows : i <= question.boundary /\ question.boundary < k =>
            SpanStart(question, rows[i]) <= SpanStart(question, rows[k])
\* "All pass" is said of every row asked for that can be compared.
ThresholdRight(question, table, stated) ==
    LET asked == IF NamedRows(question, table) # {} THEN NamedRows(question, table)
                 ELSE {r \in ToSet(table.rows) : ~IsTotal(r, SumTotal) /\ r.label # Blank}
    IN /\ ToSet(stated.rows) = {r \in asked : Numeric(r, stated.column) /\ Numeric(r, stated.result.limit)}
       /\ stated.result.all => \A r \in ToSet(stated.rows) :
            ConditionPasses(r.cells[stated.column][1], r.cells[stated.result.limit][1])
\* No row is beyond a leader but the other leader, totals by a Chinese word aside.
ExtremeRight(table, stated) ==
    LET Beyond(a, b) == IF stated.result.highest THEN Number(a, stated.column) > Number(b, stated.column)
                        ELSE Number(a, stated.column) < Number(b, stated.column)
        Counts(r) == ~IsTotal(r, ChineseTotal) /\ Numeric(r, stated.column)
    IN \A leader \in ToSet(stated.rows) :
         Counts(leader) /\ \A r \in ToSet(table.rows) : Counts(r) /\ Beyond(r, leader) => r \in ToSet(stated.rows)
FilterRight(question, table, stated) ==
    LET by == question.filter[1]
    IN /\ ToSet(stated.rows) = {r \in ToSet(table.rows) : ~IsTotal(r, SumTotal) /\ Numeric(r, by.column) /\ Number(r, by.column) = by.value}
       /\ stated.result.sum # <<>> => stated.result.sum = <<TotalOf(stated.rows, stated.column)>>
       /\ stated.result.share # <<>> =>
            /\ stated.result.sum = <<stated.result.share[1]>>
            /\ \E r \in ToSet(table.rows) : IsTotal(r, SumTotal) /\ stated.result.share[2] = Number(r, stated.column)
            /\ stated.result.share[2] # 0
\* Two rows are the first two by the places of their labels as written.
PairRight(question, table, stated) ==
    LET first == stated.rows[1]
        second == stated.rows[2]
    IN /\ {first, second} \subseteq NamedRows(question, table)
       /\ \A r \in NamedRows(question, table) : r # first => LabelAt(question, first) <= LabelAt(question, r)
       /\ \A r \in NamedRows(question, table) \ {first, second} : LabelAt(question, second) <= LabelAt(question, r)
\* A change runs from the first of the years named to the last.
YearsRight(question, table, stated) ==
    LET from == stated.result.from
        At(c) == YearAt(question, table, c)
    IN /\ \A c \in DOMAIN table.columns \ {1} :
            table.columns[c].year /\ table.columns[c].name \in DOMAIN question.columns =>
              At(from) <= At(c) /\ At(c) <= At(stated.column)
       /\ stated.result.rises = (Number(stated.rows[1], stated.column) >= Number(stated.rows[1], from))
PartOfTotal(question, table, stated) ==
    /\ stated.rows[1] \in NamedRows(question, table) /\ IsTotal(stated.rows[2], ChineseTotal) /\ stated.result.ratio[2] # 0
    /\ \/ Len(ColumnMatches(question, table)) < 2
       \/ ~HasAny(question, {"shareOf"}) \/ HasAny(question, {"ofSum", "ratioAbout"})

TableAnswerRight(question, table, stated) ==
    /\ stated.column \in DOMAIN table.columns /\ ToSet(stated.rows) \subseteq ToSet(table.rows)
    /\ stated.op = "grouped" => GroupsRight(question, table, stated)
    /\ stated.op = "threshold" => ThresholdRight(question, table, stated)
    /\ stated.op = "extreme" => ExtremeRight(table, stated)
    /\ stated.op = "filter" => FilterRight(question, table, stated)
    /\ stated.op = "share" => PartOfTotal(question, table, stated)
    /\ stated.op \in {"times", "difference"} => PairRight(question, table, stated)
    /\ stated.op = "change" => NamedRows(question, table) = {stated.rows[1]} /\ YearsRight(question, table, stated)
    /\ stated.op = "lookup" => NamedRows(question, table) \subseteq {stated.rows[1]}

\* Whatever operation takes the question, what the text states is so in one of
\* the tables, by that operation's own test of a total: the two sums are of
\* every member whose label the question spells, no row that counts is beyond
\* the leaders, "all pass" holds of every row that can be compared, a share is of
\* a total and not one that a column may state; a multiple and a difference, and
\* the years of a change, are in the order in which the labels are written out,
\* a row that is named in other words before the others and a year in other
\* words after them; and a row that is looked up is the only one named.
TableAnswersAreRight ==
    tableAnswer \notin {Unanswered, NoAnswer} =>
      \E table \in ToSet(tableInput.tables) : TableAnswerRight(tableInput.question, table, tableAnswer[1])
====

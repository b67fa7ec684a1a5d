---- MODULE CalculationProofs ----
(***************************************************************************)
(* Theorems about the calculators, for any question and whatever they are  *)
(* given: what they state is so in what they were given.                   *)
(***************************************************************************)
EXTENDS Reconciliation, ChartAnalysis, SequencePartsProofs, FiniteSetTheorems

-----------------------------------------------------------------------------
(* Tables.                                                                 *)

\* The columns a question names.
LEMMA ColumnsHold ==
    ASSUME NEW question, NEW table, SoundTable(table)
    PROVE  /\ ColumnMatches(question, table) \in Seq(DOMAIN table.columns)
           /\ \A c : c \in ToSet(ColumnMatches(question, table)) <=>
                       c \in DOMAIN table.columns /\ c > 1 /\ table.columns[c].name \in DOMAIN question.columns
<1> DEFINE D == DOMAIN table.columns
           all == [c \in D |-> c]
           places == {c \in D : c > 1 /\ table.columns[c].name \in DOMAIN question.columns}
<1>1. D = 1 .. Len(table.columns) /\ Len(table.columns) \in Nat
  BY ListShape DEF SoundTable
<1>2. all \in Seq(D) /\ DOMAIN all = D /\ \A c \in D : all[c] = c
  BY <1>1
<1>3. ColumnMatches(question, table) = KeepAt(all, places)
  BY DEF ColumnMatches
<1> HIDE DEF all, D
<1>4. places \subseteq DOMAIN all
  BY <1>2
<1>5. KeepAt(all, places) \in Seq(D) /\ ToSet(KeepAt(all, places)) = {all[i] : i \in places}
  <2> HIDE DEF places
  <2>1. KeepAt(all, places) \in Seq(D)
    BY <1>2, KeptHolds
  <2>2. ToSet(KeepAt(all, places)) = {all[i] : i \in places}
    BY <1>2, <1>4, KeptSet
  <2> QED
    BY <2>1, <2>2
<1>6. {all[i] : i \in places} = places
  BY <1>2
<1> QED
  BY <1>3, <1>5, <1>6 DEF D

\* Columns kept of them.
LEMMA FewerColumns ==
    ASSUME NEW question, NEW table, SoundTable(table), NEW places
    PROVE  KeepAt(ColumnMatches(question, table), places) \in Seq(DOMAIN table.columns)
<1>1. ColumnMatches(question, table) \in Seq(DOMAIN table.columns)
  BY ColumnsHold
<1> QED
  BY <1>1, KeptHolds

\* The members and the totals of some rows.
LEMMA PartsHold ==
    ASSUME NEW S, NEW rows \in Seq(S), NEW words
    PROVE  /\ Members(rows, words) \in Seq(S) /\ Totals(rows, words) \in Seq(S)
           /\ ToSet(Members(rows, words)) = {r \in ToSet(rows) : ~IsTotal(r, words)}
           /\ ToSet(Totals(rows, words)) = {r \in ToSet(rows) : IsTotal(r, words)}
           /\ \E p : KeptFrom(p, Members(rows, words), rows, {i \in DOMAIN rows : ~IsTotal(rows[i], words)})
<1> DEFINE members == {i \in DOMAIN rows : ~IsTotal(rows[i], words)}
           totals == {i \in DOMAIN rows : IsTotal(rows[i], words)}
<1>1. ToSet(rows) = {rows[i] : i \in DOMAIN rows}
  BY DEF ToSet
<1>2. /\ {rows[i] : i \in members} = {r \in ToSet(rows) : ~IsTotal(r, words)}
      /\ {rows[i] : i \in totals} = {r \in ToSet(rows) : IsTotal(r, words)}
  BY <1>1
<1>3. members \subseteq DOMAIN rows /\ totals \subseteq DOMAIN rows
  OBVIOUS
<1>4. Members(rows, words) = KeepAt(rows, members) /\ Totals(rows, words) = KeepAt(rows, totals)
  BY Zenon DEF Members, Totals
<1> HIDE DEF members, totals
<1>5. /\ KeepAt(rows, members) \in Seq(S) /\ ToSet(KeepAt(rows, members)) = {rows[i] : i \in members}
      /\ KeepAt(rows, totals) \in Seq(S) /\ ToSet(KeepAt(rows, totals)) = {rows[i] : i \in totals}
      /\ \E p : KeptFrom(p, KeepAt(rows, members), rows, members)
  BY <1>3, KeptHolds, KeptSet, KeepAtOrder
<1> QED
  BY <1>2, <1>4, <1>5 DEF members

\* The rows a question names, the members and the totals.
LEMMA RowsHold ==
    ASSUME NEW question, NEW table, SoundTable(table), NEW words
    PROVE  /\ table.rows \in Seq(ToSet(table.rows))
           /\ RowMatches(question, table) \in Seq(NamedRows(question, table))
           /\ ToSet(RowMatches(question, table)) = NamedRows(question, table)
           /\ ToSet(Members(table.rows, words)) = {r \in ToSet(table.rows) : ~IsTotal(r, words)}
           /\ Members(table.rows, words) \in Seq(ToSet(table.rows))
           /\ ToSet(Totals(table.rows, words)) = {r \in ToSet(table.rows) : IsTotal(r, words)}
           /\ Totals(table.rows, words) \in Seq(ToSet(table.rows))
<1> DEFINE rows == table.rows
           named == {i \in DOMAIN rows : rows[i].label \in DOMAIN question.labels}
<1>1. IsList(rows) /\ rows \in Seq(ToSet(rows)) /\ ToSet(rows) = {rows[i] : i \in DOMAIN rows}
  BY DEF SoundTable, IsList, ToSet
<1>2. {rows[i] : i \in named} = NamedRows(question, table)
  BY <1>1 DEF NamedRows
<1>3. named \subseteq DOMAIN rows
  OBVIOUS
<1>4. RowMatches(question, table) = KeepAt(rows, named)
  BY DEF RowMatches
<1> HIDE DEF rows, named
<1>5. ToSet(KeepAt(rows, named)) = {rows[i] : i \in named} /\ KeepAt(rows, named) \in Seq(ToSet(KeepAt(rows, named)))
  BY <1>1, <1>3, PartHolds
<1>6. /\ ToSet(Members(rows, words)) = {r \in ToSet(rows) : ~IsTotal(r, words)} /\ Members(rows, words) \in Seq(ToSet(rows))
      /\ ToSet(Totals(rows, words)) = {r \in ToSet(rows) : IsTotal(r, words)} /\ Totals(rows, words) \in Seq(ToSet(rows))
  BY <1>1, PartsHold
<1> QED
  BY <1>1, <1>2, <1>4, <1>5, <1>6 DEF rows

\* Named rows by the places of their labels.
LEMMA OrderedRowsHold ==
    ASSUME NEW question, Readable(question), NEW table, NEW rows \in Seq(NamedRows(question, table))
    PROVE  LET ordered == InQuestionOrder(question, rows)
           IN /\ ordered \in Seq(NamedRows(question, table)) /\ ToSet(ordered) = ToSet(rows)
              /\ \E at : Permutes(at, ordered, rows)
              /\ \A i, j \in DOMAIN ordered : i < j => LabelAt(question, ordered[i]) <= LabelAt(question, ordered[j])
<1> DEFINE S == NamedRows(question, table)
           place == [r \in S |-> LabelAt(question, r)]
           before == {p \in ToSet(rows) \X ToSet(rows) : LabelAt(question, p[1]) < LabelAt(question, p[2])}
           ordered == Sorted(rows, before)
<1>1. ToSet(rows) \subseteq S
  BY DEF ToSet
<1>2. place \in [S -> Int]
  BY DEF NamedRows, Readable, LabelAt
<1>3. \A a, b \in ToSet(rows) : <<a, b>> \in before <=> place[a] < place[b]
  BY <1>1
<1>4. \A r \in S : place[r] = LabelAt(question, r)
  OBVIOUS
<1>5. InQuestionOrder(question, rows) = ordered
  BY DEF InQuestionOrder
<1> HIDE DEF S, place, before
<1>6. /\ \A i \in DOMAIN ordered : ordered[i] \in S
      /\ \A i, j \in DOMAIN ordered : i < j => place[ordered[i]] <= place[ordered[j]]
  BY <1>2, <1>3, SortedByNumber DEF S
<1>7. ordered \in Seq(S) /\ ToSet(ordered) = ToSet(rows) /\ \E at : Permutes(at, ordered, rows)
  BY SortedHolds, SortedPermutes DEF S
<1> HIDE DEF ordered
<1> QED
  BY <1>4, <1>5, <1>6, <1>7 DEF S

\* Named rows by their spans, those that have one.
LEMMA SpannedHold ==
    ASSUME NEW question, Readable(question), NEW table, NEW rows \in Seq(NamedRows(question, table))
    PROVE  LET ordered == Spanned(question, rows)
           IN /\ ordered \in Seq(NamedRows(question, table))
              /\ ToSet(ordered) = {r \in ToSet(rows) : HasSpan(question, r)}
              /\ \E found, p, at : /\ KeptFrom(p, found, rows, {i \in DOMAIN rows : HasSpan(question, rows[i])})
                                   /\ found \in Seq(NamedRows(question, table)) /\ Permutes(at, ordered, found)
              /\ \A i, j \in DOMAIN ordered : i < j => SpanStart(question, ordered[i]) <= SpanStart(question, ordered[j])
<1> DEFINE S == {r \in NamedRows(question, table) : HasSpan(question, r)}
           places == {i \in DOMAIN rows : HasSpan(question, rows[i])}
           found == KeepAt(rows, places)
           place == [r \in S |-> SpanStart(question, r)]
           before == {p \in ToSet(found) \X ToSet(found) : SpanStart(question, p[1]) < SpanStart(question, p[2])}
           ordered == Sorted(found, before)
<1>1. {rows[i] : i \in places} = {r \in ToSet(rows) : HasSpan(question, r)} /\ {rows[i] : i \in places} \subseteq S
  BY DEF ToSet
<1>2. places \subseteq DOMAIN rows
  OBVIOUS
<1>3. Spanned(question, rows) = ordered
  BY Zenon DEF Spanned
<1>4. place \in [S -> Int]
  BY DEF NamedRows, Readable, HasSpan, SpanStart
<1> DEFINE N == NamedRows(question, table)
<1>5. S \subseteq N
  OBVIOUS
<1>6. \A r \in S : place[r] = SpanStart(question, r)
  OBVIOUS
<1> HIDE DEF places, S, place, N
<1>7. /\ found \in Seq(N) /\ found \in Seq({rows[i] : i \in places}) /\ ToSet(found) = {rows[i] : i \in places}
      /\ \E p : KeptFrom(p, found, rows, places)
  BY <1>2, KeptHolds, KeptSet, KeepAtOrder DEF N
<1> HIDE DEF found
<1>8. found \in Seq(S)
  BY <1>1, <1>7
<1>9. \A a, b \in ToSet(found) : <<a, b>> \in before <=> place[a] < place[b]
  BY <1>1, <1>6, <1>7
<1> HIDE DEF before
<1>10. /\ \A i \in DOMAIN ordered : ordered[i] \in S
       /\ \A i, j \in DOMAIN ordered : i < j => place[ordered[i]] <= place[ordered[j]]
  BY <1>4, <1>8, <1>9, SortedByNumber
<1>11. ordered \in Seq(N) /\ ToSet(ordered) = ToSet(found) /\ \E at : Permutes(at, ordered, found)
  BY <1>7, SortedHolds, SortedPermutes
<1> HIDE DEF ordered
<1>12. \A i, j \in DOMAIN ordered : i < j => SpanStart(question, ordered[i]) <= SpanStart(question, ordered[j])
  BY <1>6, <1>10
<1>13. \E p, at : KeptFrom(p, found, rows, places) /\ found \in Seq(N) /\ Permutes(at, ordered, found)
  BY <1>7, <1>11
<1>14. ToSet(ordered) = {r \in ToSet(rows) : HasSpan(question, r)}
  BY <1>1, <1>7, <1>11
<1> QED
  BY <1>3, <1>11, <1>12, <1>13, <1>14 DEF N, places

\* Parts and other orders of a list in which nothing is twice.
LEMMA KeptInjective ==
    ASSUME NEW S, NEW kept \in Seq(S), NEW T, NEW rows \in Seq(T), NEW places, NEW p,
           KeptFrom(p, kept, rows, places), IsInjective(rows)
    PROVE  IsInjective(kept)
<1> SUFFICES ASSUME NEW i \in DOMAIN kept, NEW k \in DOMAIN kept, kept[i] = kept[k] PROVE i = k
  BY DEF IsInjective
<1>1. i \in Int /\ k \in Int /\ (i < k \/ k < i \/ i = k)
  OBVIOUS
<1>2. p[i] \in DOMAIN rows /\ p[k] \in DOMAIN rows /\ rows[p[i]] = rows[p[k]]
  BY DEF KeptFrom
<1>3. p[i] = p[k] /\ p[i] \in Int /\ p[k] \in Int
  BY <1>2 DEF IsInjective
<1>4. (i < k => p[i] < p[k]) /\ (k < i => p[k] < p[i])
  BY DEF KeptFrom
<1> QED
  BY <1>1, <1>3, <1>4

LEMMA PermutedInjective ==
    ASSUME NEW t, NEW s, NEW at, Permutes(at, t, s), IsInjective(s)
    PROVE  IsInjective(t)
  BY DEF Permutes, IsInjective

\* What is said of every operation.
Says(question, table, stated, op) ==
    /\ stated.op = op /\ stated.column \in DOMAIN table.columns
    /\ ToSet(stated.rows) \subseteq ToSet(table.rows)

\* The numbers of rows that have one.
LEMMA TotalIsNumber ==
    ASSUME NEW table, SoundTable(table), NEW c \in DOMAIN table.columns, NEW rows \in Seq(ToSet(table.rows)),
           \A r \in ToSet(rows) : Numeric(r, c)
    PROVE  [i \in DOMAIN rows |-> Number(rows[i], c)] \in Seq(Int) /\ TotalOf(rows, c) \in Int
<1> DEFINE numbers == [i \in DOMAIN rows |-> Number(rows[i], c)]
<1>1. \A i \in DOMAIN rows : rows[i] \in ToSet(table.rows) /\ Numeric(rows[i], c)
  BY DEF ToSet
<1>2. \A r \in ToSet(table.rows) : Numeric(r, c) => Number(r, c) \in Int
  BY DEF ToSet, SoundTable, Numeric, Number
<1>3. numbers \in Seq(Int)
  BY <1>1, <1>2
<1> HIDE DEF numbers
<1>4. ListTotal(numbers) \in Int
  <2>1. \E total : Sums(total, numbers, Int) /\ ListTotal(numbers) = total[Len(numbers)]
    BY <1>3, TotalSteps
  <2>2. Len(numbers) \in 0 .. Len(numbers)
    BY <1>3
  <2> QED
    BY <2>1, <2>2 DEF Sums
<1> QED
  BY <1>3, <1>4 DEF TotalOf, numbers

\* The columns of which all these rows have a number.
LEMMA NumericColumns ==
    ASSUME NEW S, NEW columns \in Seq(S), NEW rows,
           LET numeric == KeepAt(columns, {i \in DOMAIN columns : \A r \in rows : Numeric(r, columns[i])})
           IN numeric # <<>>
    PROVE  LET numeric == KeepAt(columns, {i \in DOMAIN columns : \A r \in rows : Numeric(r, columns[i])})
           IN numeric[1] \in S /\ \A r \in rows : Numeric(r, numeric[1])
<1> DEFINE places == {i \in DOMAIN columns : \A r \in rows : Numeric(r, columns[i])}
           numeric == KeepAt(columns, places)
<1>1. numeric \in Seq(S) /\ numeric \in Seq({columns[i] : i \in places})
  <2>1. places \subseteq DOMAIN columns
    OBVIOUS
  <2> HIDE DEF places
  <2> QED
    BY <2>1, KeptHolds, KeptSet
<1>2. numeric # <<>>
  OBVIOUS
<1> HIDE DEF numeric
<1>3. numeric[1] \in S /\ numeric[1] \in {columns[i] : i \in places}
  BY <1>1, <1>2
<1>4. \A r \in rows : Numeric(r, numeric[1])
  BY <1>3
<1> QED
  BY <1>3, <1>4 DEF numeric

\* The columns of a comparison of groups.
LEMMA GroupedColumnsHold ==
    ASSUME NEW question, NEW table, SoundTable(table)
    PROVE  GroupedColumns(question, table) \in Seq(DOMAIN table.columns)
<1> DEFINE D == DOMAIN table.columns
           all == [c \in D |-> c]
           named == ColumnMatches(question, table)
           others == Role(table, "share") \ ToSet(named)
           shares == KeepAt(all, others)
<1>1. D = 1 .. Len(table.columns) /\ Len(table.columns) \in Nat
  BY ListShape DEF SoundTable
<1>2. all \in Seq(D)
  BY <1>1
<1>3. named \in Seq(D)
  BY ColumnsHold
<1>4. GroupedColumns(question, table) = IF HasAny(question, OfPhrases \cup {"percent"}) THEN named \o shares ELSE named
  BY Zenon DEF GroupedColumns
<1> HIDE DEF all, others, named, D
<1>5. shares \in Seq(D)
  BY <1>2, KeptHolds
<1> HIDE DEF shares
<1>6. named \o shares \in Seq(D)
  BY <1>3, <1>5
<1> QED
  BY <1>3, <1>4, <1>6 DEF D

\* The sums of two groups.
LEMMA GroupsHold ==
    ASSUME NEW question, Readable(question), NEW table, SoundTable(table), GroupedComparison(question, table) # NoAnswer
    PROVE  LET stated == GroupedComparison(question, table)[1]
           IN Says(question, table, stated, "grouped") /\ GroupsRight(question, table, stated)
<1> DEFINE named == RowMatches(question, table)
           members == Members(named, AnyTotal)
           rows == Spanned(question, members)
           b == question.boundary
           left == SubSeq(rows, 1, b)
           right == SubSeq(rows, b + 1, Len(rows))
           columns == GroupedColumns(question, table)
           D == DOMAIN table.columns
           S == NamedRows(question, table)
           places == {i \in DOMAIN columns : \A r \in ToSet(left \o right) : Numeric(r, columns[i])}
           numeric == KeepAt(columns, places)
           c == numeric[1]
           result == [sums |-> <<TotalOf(left, c), TotalOf(right, c)>>, higher |-> TotalOf(left, c) - TotalOf(right, c)]
<1>1. named \in Seq(S) /\ ToSet(named) = S /\ columns \in Seq(D) /\ S \subseteq ToSet(table.rows)
  BY RowsHold, GroupedColumnsHold DEF NamedRows
<1>2. GroupedComparison(question, table) = CompareGroups(columns, left, right) /\ b \in 1 .. Len(rows) - 1
  BY DEF GroupedComparison
<1> HIDE DEF S, columns
<1>3. /\ members \in Seq(S) /\ ToSet(members) = {r \in S : ~IsTotal(r, AnyTotal)}
      /\ \E p : KeptFrom(p, members, named, {i \in DOMAIN named : ~IsTotal(named[i], AnyTotal)})
  <2> HIDE DEF named, S
  <2>1. /\ members \in Seq(S) /\ ToSet(members) = {r \in ToSet(named) : ~IsTotal(r, AnyTotal)}
        /\ \E p : KeptFrom(p, members, named, {i \in DOMAIN named : ~IsTotal(named[i], AnyTotal)})
    <3> DEFINE kept == {i \in DOMAIN named : ~IsTotal(named[i], AnyTotal)}
    <3>1. named \in Seq(S)
      BY <1>1
    <3>2. members \in Seq(S) /\ ToSet(members) = {r \in ToSet(named) : ~IsTotal(r, AnyTotal)}
      BY <3>1, PartsHold
    <3>3. members = KeepAt(named, kept)
      BY Zenon DEF Members
    <3> HIDE DEF kept, members
    <3>4. \E p : KeptFrom(p, members, named, kept)
      BY <3>1, <3>3, KeepAtOrder
    <3> QED
      BY <3>2, <3>4 DEF kept
  <2> HIDE DEF members
  <2>2. ToSet(named) = S
    BY <1>1
  <2> QED
    BY <2>1, <2>2, Zenon
<1> HIDE DEF members
<1>4. /\ rows \in Seq(S) /\ ToSet(rows) = {r \in ToSet(members) : HasSpan(question, r)}
      /\ \E found, p, at : /\ KeptFrom(p, found, members, {i \in DOMAIN members : HasSpan(question, members[i])})
                           /\ found \in Seq(S) /\ Permutes(at, rows, found)
      /\ \A i, j \in DOMAIN rows : i < j => SpanStart(question, rows[i]) <= SpanStart(question, rows[j])
  BY <1>3, SpannedHold DEF S
<1> HIDE DEF rows
<1>5. IsInjective(table.rows) => IsInjective(rows)
  <2> SUFFICES ASSUME IsInjective(table.rows) PROVE IsInjective(rows)
    OBVIOUS
  <2>1. PICK p : KeptFrom(p, named, table.rows, {i \in DOMAIN table.rows : table.rows[i].label \in DOMAIN question.labels})
    BY RowsHold, KeepAtOrder DEF RowMatches
  <2>2. table.rows \in Seq(ToSet(table.rows))
    BY RowsHold
  <2> HIDE DEF named
  <2>3. IsInjective(named)
    BY <1>1, <2>1, <2>2, KeptInjective
  <2>4. IsInjective(members)
    BY <1>1, <1>3, <2>3, KeptInjective
  <2>5. PICK found, q, at : /\ KeptFrom(q, found, members, {i \in DOMAIN members : HasSpan(question, members[i])})
                            /\ found \in Seq(S) /\ Permutes(at, rows, found)
    BY <1>4
  <2>6. IsInjective(found)
    BY <1>3, <2>4, <2>5, KeptInjective
  <2> QED
    BY <2>5, <2>6, PermutedInjective
<1>6. /\ left \in Seq(S) /\ right \in Seq(S) /\ left \o right = rows /\ Len(left) = b /\ b \in Nat
      /\ Len(rows) = Len(left) + Len(right)
      /\ \A i \in 1 .. Len(left) : rows[i] = left[i]
      /\ \A i \in 1 .. Len(right) : rows[Len(left) + i] = right[i]
  <2> DEFINE n == Len(rows)
  <2>1. n \in Nat /\ b \in Nat /\ b >= 1 /\ b <= n /\ 1 \in 1 .. n + 1 /\ b + 1 \in 1 .. n + 1 /\ b \in 0 .. n /\ n \in 0 .. n
    BY <1>2, <1>4
  <2>2. left \in Seq(S) /\ Len(left) = b /\ \A i \in 1 .. b : left[i] = rows[i]
    BY <1>4, <2>1, SubSeqProperties
  <2>3. right \in Seq(S) /\ Len(right) = n - b /\ \A i \in 1 .. n - b : right[i] = rows[b + i]
    <3> HIDE DEF right
    <3>1. /\ right \in Seq(S) /\ Len(right) = IF b + 1 <= n THEN n - (b + 1) + 1 ELSE 0
          /\ \A i \in 1 .. n - (b + 1) + 1 : right[i] = rows[b + 1 + i - 1]
      BY <1>4, <2>1, SubSeqProperties DEF right
    <3>2. n - (b + 1) + 1 = n - b /\ \A i \in 1 .. n - b : b + 1 + i - 1 = b + i
      BY <2>1, SMTT(30)
    <3>3. Len(right) = n - b
      BY <2>1, <3>1
    <3> QED
      BY <3>1, <3>2, <3>3
  <2> HIDE DEF left, right
  <2>4. n = Len(left) + Len(right)
    BY <2>1, <2>2, <2>3
  <2>5. /\ \A i \in 1 .. Len(left) : rows[i] = left[i]
        /\ \A i \in 1 .. Len(right) : rows[Len(left) + i] = right[i]
    BY <2>2, <2>3
  <2>6. rows = left \o right
    BY <1>4, <2>2, <2>3, <2>4, <2>5, JoinIs
  <2> QED
    BY <2>1, <2>2, <2>3, <2>4, <2>5, <2>6
<1>7. numeric # <<>> /\ CompareGroups(columns, left, right) = States("grouped", left \o right, c, result)
  BY <1>2, Zenon DEF CompareGroups
<1> HIDE DEF left, right
<1>8. c \in D /\ \A r \in ToSet(rows) : Numeric(r, c)
  <2>1. c \in D /\ \A r \in ToSet(left \o right) : Numeric(r, c)
    <3> HIDE DEF D
    <3> QED
      BY <1>1, <1>7, NumericColumns
  <2> QED
    BY <1>6, <2>1
<1> HIDE DEF c, numeric, places
<1>9. TotalOf(left, c) + TotalOf(right, c) = TotalOf(rows, c)
  <2> DEFINE T == ToSet(table.rows)
             a == [i \in DOMAIN left |-> Number(left[i], c)]
             d == [i \in DOMAIN right |-> Number(right[i], c)]
             e == [i \in DOMAIN rows |-> Number(rows[i], c)]
  <2>1. left \in Seq(T) /\ right \in Seq(T)
    <3> HIDE DEF T
    <3> QED
      BY <1>1, <1>6, SeqMonotonic DEF T
  <2>2. ToSet(left) \subseteq ToSet(rows) /\ ToSet(right) \subseteq ToSet(rows)
    <3>1. ToSet(left \o right) = ToSet(left) \cup ToSet(right)
      <4>1. left \in Seq(S) /\ right \in Seq(S)
        BY <1>6
      <4> QED
        BY <4>1, JoinHolds
    <3>2. ToSet(left \o right) = ToSet(rows)
      BY <1>6
    <3> QED
      BY <3>1, <3>2, Zenon
  <2>3. a \in Seq(Int) /\ d \in Seq(Int)
    BY <1>8, <2>1, <2>2, TotalIsNumber
  <2>4. e = a \o d
    <3>1. Len(rows) = Len(left) + Len(right) /\ DOMAIN rows = 1 .. Len(rows) /\ Len(left) \in Nat /\ Len(right) \in Nat
      BY <1>4, <1>6
    <3>2. /\ \A i \in 1 .. Len(left) : rows[i] = left[i] /\ i \in DOMAIN rows /\ i \in DOMAIN left
          /\ \A i \in 1 .. Len(right) : rows[Len(left) + i] = right[i] /\ Len(left) + i \in DOMAIN rows /\ i \in DOMAIN right
      BY <1>6, SMTT(30)
    <3>3. Len(a) = Len(left) /\ Len(d) = Len(right) /\ Len(e) = Len(rows)
      BY <1>4, <1>6
    <3>4. /\ \A i \in 1 .. Len(a) : e[i] = a[i]
          /\ \A i \in 1 .. Len(d) : e[Len(a) + i] = d[i]
      BY <3>2, <3>3
    <3>5. e \in Seq(Int)
      <4>1. rows \in Seq(T)
        <5> HIDE DEF T
        <5> QED
          BY <1>1, <1>4, SeqMonotonic DEF T
      <4> QED
        BY <1>8, <4>1, TotalIsNumber
    <3> HIDE DEF a, d, e
    <3>6. Len(e) = Len(a) + Len(d)
      BY <3>1, <3>3
    <3> QED
      BY <2>3, <3>4, <3>5, <3>6, JoinIs
  <2> HIDE DEF a, d, e
  <2>5. ListTotal(e) = ListTotal(a) + ListTotal(d)
    BY <2>3, <2>4, TotalJoin
  <2> QED
    BY <2>5 DEF TotalOf, a, d, e
<1> DEFINE stated == GroupedComparison(question, table)[1]
<1>10. stated = [op |-> "grouped", rows |-> rows, column |-> c, result |-> result]
  BY <1>2, <1>6, <1>7 DEF States
<1>11. Says(question, table, stated, "grouped")
  <2>1. ToSet(rows) \subseteq ToSet(members)
    BY <1>4
  <2>2. ToSet(rows) \subseteq ToSet(table.rows)
    BY <1>1, <1>3, <2>1
  <2> QED
    BY <1>8, <1>10, <2>2 DEF Says
<1>12. GroupsRight(question, table, stated)
  <2>1. ToSet(rows) = {r \in NamedRows(question, table) : ~IsTotal(r, AnyTotal) /\ HasSpan(question, r)}
    BY <1>3, <1>4 DEF S
  <2>2. /\ stated.rows = rows /\ stated.column = c
        /\ stated.result.sums[1] = TotalOf(left, c) /\ stated.result.sums[2] = TotalOf(right, c)
        /\ stated.result.higher = TotalOf(left, c) - TotalOf(right, c)
    BY <1>10
  <2> HIDE DEF stated
  <2>3. \A i, k \in DOMAIN rows : i <= b /\ b < k => SpanStart(question, rows[i]) <= SpanStart(question, rows[k])
    BY <1>4, <1>6
  <2> QED
    BY <1>5, <1>9, <2>1, <2>2, <2>3 DEF GroupsRight
<1> QED
  BY <1>11, <1>12

\* The first column with a role.
LEMMA RoleHolds ==
    ASSUME NEW table, SoundTable(table), NEW role, Role(table, role) # {}
    PROVE  Min(Role(table, role)) \in DOMAIN table.columns
<1>1. Role(table, role) \subseteq Nat /\ Role(table, role) \subseteq DOMAIN table.columns
  BY ListShape DEF Role, SoundTable
<1> QED
  BY <1>1, FirstOfNumbers

\* The rows that are judged when none is named.
LEMMA AskedRowsHold ==
    ASSUME NEW table, SoundTable(table)
    PROVE  /\ AskedRows(table.rows) \in Seq(ToSet(table.rows))
           /\ ToSet(AskedRows(table.rows)) = {r \in ToSet(table.rows) : ~IsTotal(r, SumTotal) /\ r.label # Blank}
<1> DEFINE members == Members(table.rows, SumTotal)
           places == {i \in DOMAIN members : members[i].label # Blank}
           T == ToSet(table.rows)
<1>1. members \in Seq(T) /\ ToSet(members) = {r \in T : ~IsTotal(r, SumTotal)}
  BY RowsHold
<1>2. AskedRows(table.rows) = KeepAt(members, places)
  BY Zenon DEF AskedRows
<1> HIDE DEF members, T
<1>3. places \subseteq DOMAIN members /\ {members[i] : i \in places} = {r \in ToSet(members) : r.label # Blank}
  BY DEF ToSet
<1> HIDE DEF places
<1>4. KeepAt(members, places) \in Seq(T) /\ ToSet(KeepAt(members, places)) = {members[i] : i \in places}
  BY <1>1, <1>3, KeptHolds, KeptSet
<1>5. ToSet(KeepAt(members, places)) = {r \in T : ~IsTotal(r, SumTotal) /\ r.label # Blank}
  BY <1>1, <1>3, <1>4
<1> QED
  BY <1>2, <1>4, <1>5 DEF T

\* Rows within their limits.
LEMMA ThresholdsHold ==
    ASSUME NEW question, NEW table, SoundTable(table), Threshold(question, table) # NoAnswer
    PROVE  LET stated == Threshold(question, table)[1]
           IN Says(question, table, stated, "threshold") /\ ThresholdRight(question, table, stated)
<1> DEFINE named == RowMatches(question, table)
           limits == IF Role(table, "limit") # {} THEN Role(table, "limit") ELSE Role(table, "green")
           rows == IF named # <<>> THEN named ELSE AskedRows(table.rows)
           asked == IF NamedRows(question, table) # {} THEN NamedRows(question, table)
                    ELSE {r \in ToSet(table.rows) : ~IsTotal(r, SumTotal) /\ r.label # Blank}
           current == Min(Role(table, "current"))
           limit == Min(limits)
           places == {i \in DOMAIN rows : Numeric(rows[i], current) /\ Numeric(rows[i], limit)}
           judged == KeepAt(rows, places)
           Passes(r) == ConditionPasses(r.cells[current][1], r.cells[limit][1])
           result == [limit |-> limit, all |-> \A i \in DOMAIN judged : Passes(judged[i])]
<1>1. Threshold(question, table) = JudgeRows(rows, current, limit) /\ Role(table, "current") # {} /\ limits # {}
  BY DEF Threshold
<1>2. current \in DOMAIN table.columns
  BY <1>1, RoleHolds
<1>3. rows \in Seq(ToSet(rows)) /\ ToSet(rows) = asked /\ asked \subseteq ToSet(table.rows)
  <2>1. /\ named \in Seq(NamedRows(question, table)) /\ ToSet(named) = NamedRows(question, table)
        /\ ToSet(AskedRows(table.rows)) = {r \in ToSet(table.rows) : ~IsTotal(r, SumTotal) /\ r.label # Blank}
        /\ AskedRows(table.rows) \in Seq(ToSet(table.rows))
    BY RowsHold, AskedRowsHold
  <2>2. named # <<>> <=> NamedRows(question, table) # {}
    BY <2>1, ToSetHolds
  <2>3. AskedRows(table.rows) \in Seq(ToSet(AskedRows(table.rows))) /\ named \in Seq(ToSet(named))
    <3> HIDE DEF named
    <3> QED
      BY <2>1 DEF ToSet
  <2>4. NamedRows(question, table) \subseteq ToSet(table.rows)
    BY DEF NamedRows
  <2> HIDE DEF named
  <2>5. CASE named # <<>>
    BY <2>1, <2>2, <2>3, <2>4, <2>5
  <2>6. CASE named = <<>>
    BY <2>1, <2>2, <2>3, <2>6
  <2> QED
    BY <2>5, <2>6
<1> HIDE DEF rows, asked, current, limit
<1>4. JudgeRows(rows, current, limit) = States("threshold", judged, current, result)
  BY <1>1 DEF JudgeRows
<1>5. judged \in Seq(ToSet(judged)) /\ ToSet(judged) = {r \in asked : Numeric(r, current) /\ Numeric(r, limit)}
  <2>1. places \subseteq DOMAIN rows
    OBVIOUS
  <2>2. {rows[i] : i \in places} = {r \in asked : Numeric(r, current) /\ Numeric(r, limit)}
    BY <1>3 DEF ToSet
  <2> HIDE DEF places
  <2>3. judged \in Seq({rows[i] : i \in places}) /\ ToSet(judged) = {rows[i] : i \in places}
    BY <1>3, <2>1, KeptSet
  <2> QED
    BY <2>2, <2>3
<1> HIDE DEF judged
<1> DEFINE stated == Threshold(question, table)[1]
<1>6. stated = [op |-> "threshold", rows |-> judged, column |-> current, result |-> result]
  BY <1>1, <1>4 DEF States
<1>7. /\ stated.rows = judged /\ stated.column = current
      /\ stated.result.limit = limit /\ stated.result.all = \A i \in DOMAIN judged : Passes(judged[i])
  <2>1. result.limit = limit
    OBVIOUS
  <2>2. result.all = \A i \in DOMAIN judged : Passes(judged[i])
    <3> HIDE DEF Passes
    <3> QED
      BY Zenon
  <2> HIDE DEF result, stated
  <2>3. stated.rows = judged /\ stated.column = current /\ stated.result = result
    BY <1>6
  <2> QED
    BY <2>1, <2>2, <2>3
<1>8. Says(question, table, stated, "threshold")
  BY <1>2, <1>3, <1>5, <1>6 DEF Says
<1> HIDE DEF stated
<1>9. stated.result.all => \A r \in ToSet(stated.rows) : Passes(r)
  <2> HIDE DEF Passes
  <2> QED
    BY <1>7 DEF ToSet
<1>10. ThresholdRight(question, table, stated)
  BY <1>5, <1>7, <1>9 DEF ThresholdRight, asked
<1> QED
  BY <1>8, <1>10 DEF stated

\* The rows that lead.
LEMMA ExtremesHold ==
    ASSUME NEW question, NEW table, SoundTable(table), Extreme(question, table) # NoAnswer
    PROVE  LET stated == Extreme(question, table)[1]
           IN Says(question, table, stated, "extreme") /\ ExtremeRight(table, stated)
<1> DEFINE columns == ColumnMatches(question, table)
           numeric == KeepAt(columns, {k \in DOMAIN columns :
                        Cardinality({i \in DOMAIN table.rows : Numeric(table.rows[i], columns[k])}) >= 2})
           nearest == Sorted(numeric, {p \in ToSet(numeric) \X ToSet(numeric) :
                        Distance(question, table, p[1]) < Distance(question, table, p[2])})
           c == nearest[1]
           D == DOMAIN table.columns
           T == ToSet(table.rows)
           places == {i \in DOMAIN table.rows : ~IsTotal(table.rows[i], ChineseTotal) /\ Numeric(table.rows[i], c)}
           rows == KeepAt(table.rows, places)
           leaders == Sorted(rows, Leads(question, rows, c))
           highest == HasAny(question, {"highest"})
           n == Min({IF HasAny(question, {"two"}) THEN 2 ELSE 1, Len(leaders)})
           first == SubSeq(leaders, 1, n)
           S == {r \in T : ~IsTotal(r, ChineseTotal) /\ Numeric(r, c)}
<1>1. Extreme(question, table) = LeadersIn(question, Leaders(question, table, c), c) /\ numeric # <<>>
  BY Zenon DEF Extreme
<1>2. c \in D
  <2>1. numeric \in Seq(D)
    BY FewerColumns
  <2> HIDE DEF numeric, D
  <2>2. nearest \in Seq(D) /\ ToSet(nearest) = ToSet(numeric)
    BY <2>1, SortedHolds
  <2> HIDE DEF nearest
  <2>3. nearest # <<>>
    BY <1>1, <2>1, <2>2, ToSetHolds
  <2> QED
    BY <2>2, <2>3
<1> HIDE DEF c, nearest, numeric, columns
<1>3. Leaders(question, table, c) = leaders
  BY DEF Leaders
<1>4. rows \in Seq(S) /\ ToSet(rows) = S
  <2>1. table.rows \in Seq(T) /\ places \subseteq DOMAIN table.rows /\ {table.rows[i] : i \in places} = S
    <3>1. table.rows \in Seq(T)
      BY RowsHold
    <3> QED
      BY <3>1 DEF ToSet
  <2> HIDE DEF places, T, S
  <2>2. rows \in Seq({table.rows[i] : i \in places}) /\ ToSet(rows) = {table.rows[i] : i \in places}
    BY <2>1, KeptSet
  <2> QED
    BY <2>1, <2>2
<1> DEFINE number == [r \in S |-> IF highest THEN -Number(r, c) ELSE Number(r, c)]
<1>5. \A r \in S : Number(r, c) \in Int /\ number[r] = IF highest THEN -Number(r, c) ELSE Number(r, c)
  <2>1. \A r \in S : Number(r, c) \in Int
    BY <1>2 DEF SoundTable, ToSet, Numeric, Number
  <2> QED
    BY <2>1
<1>6. number \in [S -> Int]
  <2>1. \A r \in S : (IF highest THEN -Number(r, c) ELSE Number(r, c)) \in Int
    <3> HIDE DEF number, S, highest
    <3> QED
      BY <1>5
  <2> HIDE DEF S, highest
  <2> QED
    BY <2>1
<1> HIDE DEF number, rows, S
<1>7. \A a, b \in ToSet(rows) : <<a, b>> \in Leads(question, rows, c) <=> number[a] < number[b]
  <2> SUFFICES ASSUME NEW a \in ToSet(rows), NEW b \in ToSet(rows)
               PROVE  <<a, b>> \in Leads(question, rows, c) <=> number[a] < number[b]
    BY Zenon
  <2>1. Number(a, c) \in Int /\ Number(b, c) \in Int
    BY <1>4, <1>5
  <2>2. <<a, b>> \in Leads(question, rows, c) <=> IF highest THEN Number(a, c) > Number(b, c) ELSE Number(a, c) < Number(b, c)
    BY DEF Leads
  <2> HIDE DEF highest
  <2> QED
    BY <1>4, <1>5, <2>1, <2>2
<1>8. /\ leaders \in Seq(S) /\ ToSet(leaders) = S
      /\ \A i, j \in DOMAIN leaders : i < j => number[leaders[i]] <= number[leaders[j]]
  BY <1>4, <1>6, <1>7, SortedHolds, SortedByNumber
<1> HIDE DEF leaders
<1>9. /\ LeadersIn(question, leaders, c) = States("extreme", first, c, [highest |-> highest])
  BY <1>1, <1>3 DEF LeadersIn
<1>10. /\ first \in Seq(S) /\ DOMAIN first = 1 .. n /\ n \in 0 .. Len(leaders)
       /\ \A i \in 1 .. n : first[i] = leaders[i]
  <2>1. Len(leaders) \in Nat
    BY <1>8
  <2>2. n \in 0 .. Len(leaders)
    <3> DEFINE k == IF HasAny(question, {"two"}) THEN 2 ELSE 1
    <3>1. k \in Int /\ Len(leaders) \in Int /\ k >= 0
      BY <2>1
    <3> HIDE DEF k
    <3>2. Min({k, Len(leaders)}) \in {k, Len(leaders)} /\ Min({k, Len(leaders)}) <= Len(leaders)
      BY <3>1, MinOfTwo
    <3> QED
      BY <2>1, <3>1, <3>2 DEF k
  <2> HIDE DEF n
  <2>3. n \in Nat /\ 1 \in 1 .. Len(leaders) + 1
    BY <2>1, <2>2
  <2>4. first \in Seq(S) /\ Len(first) = IF 1 <= n THEN n - 1 + 1 ELSE 0
    BY <1>8, <2>2, <2>3, SubSeqProperties
  <2>5. \A i \in 1 .. n - 1 + 1 : first[i] = leaders[1 + i - 1]
    BY <1>8, <2>2, <2>3, SubSeqProperties
  <2> HIDE DEF first
  <2> QED
    BY <2>2, <2>3, <2>4, <2>5
<1> HIDE DEF first, n
<1>11. ASSUME NEW r \in S, NEW i \in DOMAIN first, number[r] < number[first[i]] PROVE r \in ToSet(first)
  <2>1. PICK j \in DOMAIN leaders : leaders[j] = r
    BY <1>8 DEF ToSet
  <2>2. i \in DOMAIN leaders /\ first[i] = leaders[i] /\ i \in Int /\ j \in Int /\ i <= n /\ n \in Int /\ j >= 1
    BY <1>8, <1>10
  <2>3. number[leaders[i]] \in Int /\ number[leaders[j]] \in Int
    BY <1>6, <1>8, <2>2
  <2>4. ~(i < j) /\ i # j
    BY <1>8, <1>11, <2>1, <2>2, <2>3
  <2>5. j \in 1 .. n
    BY <2>2, <2>4
  <2> QED
    BY <1>10, <2>1, <2>5 DEF ToSet
<1> DEFINE stated == Extreme(question, table)[1]
<1>12. stated = [op |-> "extreme", rows |-> first, column |-> c, result |-> [highest |-> highest]]
  BY <1>1, <1>3, <1>9 DEF States
<1>13. ToSet(first) \subseteq S
  BY <1>10, ToSetHolds
<1>14. Says(question, table, stated, "extreme")
  BY <1>2, <1>12, <1>13 DEF Says, S
<1>15. stated.rows = first /\ stated.column = c /\ stated.result.highest = highest
  BY <1>12
<1> HIDE DEF stated, highest
<1>16. ASSUME NEW leader \in ToSet(first), NEW r \in S,
              IF highest THEN Number(r, c) > Number(leader, c) ELSE Number(r, c) < Number(leader, c)
       PROVE  r \in ToSet(first)
  <2>1. PICK i \in DOMAIN first : first[i] = leader
    BY DEF ToSet
  <2>2. leader \in S
    BY <1>13
  <2>3. number[r] < number[leader]
    BY <1>5, <1>16, <2>2
  <2> QED
    BY <1>11, <2>1, <2>3
<1>17. ExtremeRight(table, stated)
  <2>1. \A r : r \in S <=> r \in T /\ ~IsTotal(r, ChineseTotal) /\ Numeric(r, c)
    BY DEF S
  <2> QED
    BY <1>13, <1>15, <1>16, <2>1 DEF ExtremeRight
<1> QED
  BY <1>14, <1>17 DEF stated

\* Rows with a value.
LEMMA FiltersHold ==
    ASSUME NEW question, NEW table, SoundTable(table), Filter(question, table) # NoAnswer
    PROVE  LET stated == Filter(question, table)[1]
           IN Says(question, table, stated, "filter") /\ FilterRight(question, table, stated)
<1> DEFINE D == DOMAIN table.columns
           T == ToSet(table.rows)
           by == question.filter[1]
           plain == Members(table.rows, SumTotal)
           totals == Totals(table.rows, SumTotal)
           columns == ColumnMatches(question, table)
           places == {i \in DOMAIN plain : Numeric(plain[i], by.column) /\ Number(plain[i], by.column) = by.value}
           rows == KeepAt(plain, places)
           requested == KeepAt(columns, {i \in DOMAIN columns : columns[i] # by.column /\ table.columns[columns[i]].role # "unit"})
           summable == KeepAt(requested, {i \in DOMAIN requested : \A r \in ToSet(rows) : Numeric(r, requested[i])})
           c == IF AsksSum(question) THEN summable[1] ELSE requested[1]
           Shared == /\ HasAny(question, {"ofWhole", "ratio", "ratioAbout"}) /\ totals # <<>>
                     /\ Numeric(totals[1], summable[1]) /\ Number(totals[1], summable[1]) # 0
           share == IF Shared THEN <<TotalOf(rows, summable[1]), Number(totals[1], summable[1])>> ELSE <<>>
           stated == Filter(question, table)[1]
<1>1. /\ Filter(question, table) = SelectedRows(question, table, rows, requested)
      /\ by.column \in D
  BY Zenon DEF Filter
<1>2. requested \in Seq(D)
  BY FewerColumns
<1>3. rows \in Seq(T) /\ ToSet(rows) = {r \in T : ~IsTotal(r, SumTotal) /\ Numeric(r, by.column) /\ Number(r, by.column) = by.value}
  <2>1. plain \in Seq(T) /\ ToSet(plain) = {r \in T : ~IsTotal(r, SumTotal)} /\ places \subseteq DOMAIN plain
    BY RowsHold
  <2>2. {plain[i] : i \in places} = {r \in T : ~IsTotal(r, SumTotal) /\ Numeric(r, by.column) /\ Number(r, by.column) = by.value}
    <3>1. {plain[i] : i \in places} = {r \in ToSet(plain) : Numeric(r, by.column) /\ Number(r, by.column) = by.value}
      <4> HIDE DEF plain, by
      <4> QED
        BY DEF ToSet
    <3> HIDE DEF plain, places
    <3> QED
      BY <2>1, <3>1
  <2> HIDE DEF places, plain, T
  <2>3. rows \in Seq(T)
    BY <2>1, KeptHolds
  <2>4. ToSet(rows) = {plain[i] : i \in places}
    BY <2>1, KeptSet
  <2> QED
    BY <2>2, <2>3, <2>4
<1>4. totals \in Seq(T) /\ ToSet(totals) = {r \in T : IsTotal(r, SumTotal)}
  BY RowsHold
<1>5. SelectedRows(question, table, rows, requested) # NoAnswer
  BY <1>1
<1>6. /\ requested # <<>> /\ (AsksSum(question) => summable # <<>>)
      /\ SelectedRows(question, table, rows, requested)
           = IF AsksSum(question) THEN States("filter", rows, summable[1], [sum |-> <<TotalOf(rows, summable[1])>>, share |-> share])
             ELSE States("filter", rows, requested[1], [sum |-> <<>>, share |-> <<>>])
  <2> HIDE DEF rows, requested
  <2> QED
    BY <1>5, Zenon DEF SelectedRows
<1> HIDE DEF rows, requested, totals, columns, plain
<1>7. ASSUME AsksSum(question) PROVE summable[1] \in D
  <2> HIDE DEF D
  <2> QED
    BY <1>2, <1>6, <1>7, NumericColumns
<1> HIDE DEF summable, Shared
<1>8. Shared => totals # <<>> /\ Number(totals[1], summable[1]) # 0
  BY DEF Shared
<1>9. CASE AsksSum(question)
  <2>1. stated = [op |-> "filter", rows |-> rows, column |-> summable[1], result |-> [sum |-> <<TotalOf(rows, summable[1])>>, share |-> share]]
    BY <1>1, <1>6, <1>9 DEF States
  <2>2. /\ stated.op = "filter" /\ stated.rows = rows /\ stated.column = summable[1]
        /\ stated.result.sum = <<TotalOf(rows, summable[1])>> /\ stated.result.share = share
    <3> HIDE DEF share
    <3> QED
      BY <2>1
  <2> HIDE DEF stated
  <2>3. ASSUME share # <<>>
        PROVE  /\ share[1] = TotalOf(rows, summable[1]) /\ share[2] # 0
               /\ \E r \in T : IsTotal(r, SumTotal) /\ share[2] = Number(r, summable[1])
    <3>1. Shared /\ share = <<TotalOf(rows, summable[1]), Number(totals[1], summable[1])>>
      BY <2>3
    <3>2. totals[1] \in ToSet(totals)
      BY <1>4, <1>8, <3>1 DEF ToSet
    <3> QED
      BY <1>4, <1>8, <3>1, <3>2
  <2> HIDE DEF share
  <2>4. Says(question, table, stated, "filter")
    BY <1>3, <1>7, <1>9, <2>2 DEF Says
  <2>5. FilterRight(question, table, stated)
    BY <1>3, <2>2, <2>3 DEF FilterRight
  <2> QED
    BY <2>4, <2>5 DEF stated
<1>10. CASE ~AsksSum(question)
  <2>1. stated = [op |-> "filter", rows |-> rows, column |-> requested[1], result |-> [sum |-> <<>>, share |-> <<>>]]
    BY <1>1, <1>6, <1>10 DEF States
  <2>2. /\ stated.op = "filter" /\ stated.rows = rows /\ stated.column = requested[1]
        /\ stated.result.sum = <<>> /\ stated.result.share = <<>>
    BY <2>1
  <2> HIDE DEF stated
  <2>3. requested[1] \in D
    BY <1>2, <1>6
  <2> QED
    BY <1>3, <2>2, <2>3 DEF Says, FilterRight, stated
<1> QED
  BY <1>9, <1>10

\* The first two of the rows named.
LEMMA PairsHold ==
    ASSUME NEW question, Readable(question), NEW table, SoundTable(table),
           NEW rows \in Seq(NamedRows(question, table)), ToSet(rows) = NamedRows(question, table), Len(rows) >= 2,
           NEW stated, stated.rows = <<InQuestionOrder(question, rows)[1], InQuestionOrder(question, rows)[2]>>
    PROVE  ToSet(stated.rows) \subseteq ToSet(table.rows) /\ PairRight(question, table, stated)
<1> DEFINE S == NamedRows(question, table)
           ordered == InQuestionOrder(question, rows)
           first == ordered[1]
           second == ordered[2]
<1>1. /\ ordered \in Seq(S) /\ ToSet(ordered) = S /\ DOMAIN ordered = DOMAIN rows
      /\ \A i, j \in DOMAIN ordered : i < j => LabelAt(question, ordered[i]) <= LabelAt(question, ordered[j])
  BY OrderedRowsHold DEF Permutes
<1> HIDE DEF ordered, S
<1>2. 1 \in DOMAIN ordered /\ 2 \in DOMAIN ordered
  BY <1>1
<1>3. first \in S /\ second \in S /\ S \subseteq ToSet(table.rows)
  <2>1. S \subseteq ToSet(table.rows)
    BY DEF S, NamedRows
  <2> QED
    BY <1>1, <1>2, <2>1
<1>4. ASSUME NEW r \in S PROVE /\ r # first => LabelAt(question, first) <= LabelAt(question, r)
                               /\ r \notin {first, second} => LabelAt(question, second) <= LabelAt(question, r)
  <2>1. PICK j \in DOMAIN ordered : ordered[j] = r
    BY <1>1 DEF ToSet
  <2>2. j \in Nat /\ j >= 1
    BY <1>1
  <2> QED
    BY <1>1, <1>2, <2>1, <2>2
<1>5. stated.rows[1] = first /\ stated.rows[2] = second /\ stated.rows = <<first, second>>
  BY DEF ordered
<1>6. ToSet(stated.rows) \subseteq ToSet(table.rows)
  <2> HIDE DEF first, second
  <2>1. ToSet(<<first, second>>) = {first, second}
    BY DEF ToSet
  <2> QED
    BY <1>3, <1>5, <2>1
<1> HIDE DEF first, second
<1>7. PairRight(question, table, stated)
  BY <1>3, <1>4, <1>5 DEF PairRight, S
<1> QED
  BY <1>6, <1>7

\* A quotient is stated of two rows, and nothing is divided by zero.
LEMMA QuotientsHold ==
    ASSUME NEW op, NEW numerator, NEW denominator, NEW c, Divided(op, numerator, denominator, c) # NoAnswer
    PROVE  LET stated == Divided(op, numerator, denominator, c)[1]
           IN /\ stated.op = op /\ stated.rows = <<numerator, denominator>> /\ stated.column = c
              /\ stated.result.ratio[2] # 0
<1> DEFINE result == [ratio |-> <<Number(numerator, c), Number(denominator, c)>>]
<1>1. Divided(op, numerator, denominator, c) = States(op, <<numerator, denominator>>, c, result) /\ Number(denominator, c) # 0
  BY Zenon DEF Divided
<1>2. result.ratio[2] # 0
  BY <1>1
<1> HIDE DEF result
<1> QED
  BY <1>1, <1>2 DEF States

\* A share or a multiple.
LEMMA RatiosHold ==
    ASSUME NEW question, Readable(question), NEW table, SoundTable(table), Ratio(question, table) # NoAnswer
    PROVE  LET stated == Ratio(question, table)[1]
           IN \/ Says(question, table, stated, "share") /\ PartOfTotal(question, table, stated)
              \/ Says(question, table, stated, "times") /\ PairRight(question, table, stated)
<1> DEFINE columns == ColumnMatches(question, table)
           numeric == KeepAt(columns, {i \in DOMAIN columns : \E r \in ToSet(table.rows) : Numeric(r, columns[i])})
           c == numeric[1]
           rows == RowMatches(question, table)
           totals == Totals(table.rows, ChineseTotal)
           ordered == InQuestionOrder(question, rows)
           S == NamedRows(question, table)
           D == DOMAIN table.columns
           stated == Ratio(question, table)[1]
<1>1. Ratio(question, table) = RatioIn(question, table, rows, c) /\ numeric # <<>> /\ ~AsksStated(question, columns)
  BY Zenon DEF Ratio
<1>8. Len(columns) < 2 \/ ~HasAny(question, {"shareOf"}) \/ HasAny(question, {"ofSum", "ratioAbout"})
  <2>1. Len(columns) \in Nat
    BY ColumnsHold
  <2> HIDE DEF columns
  <2> QED
    BY <1>1, <2>1 DEF AsksStated
<1>2. numeric \in Seq(D)
  BY FewerColumns
<1> HIDE DEF numeric, columns
<1>3. c \in D
  BY <1>1, <1>2
<1> HIDE DEF c, D
<1>4. rows \in Seq(S) /\ ToSet(rows) = S
  BY RowsHold
<1>5. totals \in Seq(ToSet(table.rows)) /\ ToSet(totals) = {r \in ToSet(table.rows) : IsTotal(r, ChineseTotal)}
  BY RowsHold
<1> HIDE DEF rows, totals, S
<1>6. CASE HasAny(question, OfPhrases) /\ rows # <<>>
  <2>1. totals # <<>> /\ Ratio(question, table) = Divided("share", rows[1], totals[1], c)
    BY <1>1, <1>6, Zenon DEF RatioIn, totals
  <2>2. /\ stated.op = "share" /\ stated.rows = <<rows[1], totals[1]>> /\ stated.column = c /\ stated.result.ratio[2] # 0
    BY <2>1, QuotientsHold
  <2>3. rows[1] \in S /\ totals[1] \in ToSet(totals)
    BY <1>4, <1>5, <1>6, <2>1 DEF ToSet
  <2>4. S \subseteq ToSet(table.rows)
    BY DEF S, NamedRows
  <2> HIDE DEF stated
  <2>5. stated.rows[1] = rows[1] /\ stated.rows[2] = totals[1] /\ ToSet(stated.rows) = {rows[1], totals[1]}
    BY <2>2 DEF ToSet
  <2>6. Says(question, table, stated, "share")
    BY <1>3, <1>5, <2>2, <2>3, <2>4, <2>5 DEF Says, D
  <2> QED
    BY <1>5, <1>8, <2>2, <2>3, <2>5, <2>6 DEF stated, S, columns, PartOfTotal
<1>7. CASE ~(HasAny(question, OfPhrases) /\ rows # <<>>)
  <2>1. Len(rows) >= 2 /\ Ratio(question, table) = Divided("times", ordered[1], ordered[2], c)
    BY <1>1, <1>7, Zenon DEF RatioIn
  <2>2. /\ stated.op = "times" /\ stated.rows = <<ordered[1], ordered[2]>> /\ stated.column = c
    BY <2>1, QuotientsHold
  <2> HIDE DEF stated
  <2>3. ToSet(stated.rows) \subseteq ToSet(table.rows) /\ PairRight(question, table, stated)
    BY <1>4, <2>1, <2>2, PairsHold DEF S
  <2> QED
    BY <1>3, <2>2, <2>3 DEF Says, D, stated
<1> QED
  BY <1>6, <1>7

\* The years named, of a list of columns.
LEMMA YearsHold ==
    ASSUME NEW question, Readable(question), NEW table, SoundTable(table), NEW row \in ToSet(table.rows), NEW years,
           years \in Seq(DOMAIN table.columns),
           \A c : c \in ToSet(years) <=> /\ c \in DOMAIN table.columns /\ c > 1 /\ table.columns[c].year
                                         /\ table.columns[c].name \in DOMAIN question.columns,
           BetweenYears(question, table, row, years) # NoAnswer
    PROVE  LET stated == BetweenYears(question, table, row, years)[1]
           IN Says(question, table, stated, "change") /\ stated.rows = <<row>> /\ YearsRight(question, table, stated)
<1> DEFINE D == DOMAIN table.columns
           S == ToSet(years)
           At(c) == YearAt(question, table, c)
           before == {p \in ToSet(years) \X ToSet(years) : At(p[1]) < At(p[2])}
           ordered == Sorted(years, before)
           from == ordered[1]
           to == ordered[Len(ordered)]
           by == Number(row, to) - Number(row, from)
           rises == Number(row, to) >= Number(row, from)
           result == [from |-> from, by |-> by, rises |-> rises]
           number == [c \in S |-> At(c)]
           stated == BetweenYears(question, table, row, years)[1]
<1>1. BetweenYears(question, table, row, years) = States("change", <<row>>, to, result) /\ Len(years) >= 2
  <2>1. BetweenYears(question, table, row, years) = States("change", <<row>>, to, result) /\ ~(Len(years) < 2)
    BY Zenon DEF BetweenYears
  <2> HIDE DEF to, result
  <2> QED
    BY <2>1
<1>2. \A c \in S : number[c] = At(c) /\ At(c) \in Int
  <2> SUFFICES ASSUME NEW c \in S PROVE At(c) \in Int
    OBVIOUS
  <2>1. c \in D /\ table.columns[c].name \in DOMAIN question.columns
    OBVIOUS
  <2>2. question.columns[table.columns[c].name].at \in Int
    BY <2>1 DEF Readable
  <2>3. c \in Int
    BY <2>1, ListShape DEF SoundTable
  <2> QED
    BY <2>2, <2>3 DEF YearAt, PlaceOr
<1>3. number \in [S -> Int]
  <2> HIDE DEF S, At
  <2>1. \A c \in S : At(c) \in Int
    BY <1>2
  <2> QED
    BY <2>1
<1>4. years \in Seq(S) /\ \A c \in S : c \in D
  BY DEF ToSet
<1> HIDE DEF number
<1>5. \A a, b \in ToSet(years) : <<a, b>> \in before <=> number[a] < number[b]
  <2> HIDE DEF At
  <2> QED
    BY <1>2
<1> HIDE DEF before, S
<1>6. /\ ordered \in Seq(S) /\ ToSet(ordered) = ToSet(years)
      /\ \A i, j \in DOMAIN ordered : i < j => number[ordered[i]] <= number[ordered[j]]
      /\ DOMAIN ordered = DOMAIN years
  <2>1. ordered \in Seq(S) /\ ToSet(ordered) = ToSet(years)
    BY <1>4, SortedHolds
  <2>2. \A i, j \in DOMAIN ordered : i < j => number[ordered[i]] <= number[ordered[j]]
    BY <1>3, <1>4, <1>5, SortedByNumber
  <2>3. DOMAIN ordered = DOMAIN years
    BY <1>4, SortedPermutes DEF Permutes
  <2> QED
    BY <2>1, <2>2, <2>3
<1> HIDE DEF ordered
<1>7. 1 \in DOMAIN ordered /\ Len(ordered) \in DOMAIN ordered /\ DOMAIN ordered = 1 .. Len(ordered) /\ Len(ordered) \in Nat
  BY <1>1, <1>4, <1>6
<1>8. from \in S /\ to \in S
  BY <1>6, <1>7
<1> HIDE DEF At
<1>9. ASSUME NEW c \in S PROVE At(from) <= At(c) /\ At(c) <= At(to)
  <2>1. PICK j \in DOMAIN ordered : ordered[j] = c
    BY <1>6 DEF ToSet, S
  <2>2. number[from] \in Int /\ number[to] \in Int /\ number[c] \in Int
    BY <1>3, <1>8
  <2>3. number[from] <= number[c]
    BY <1>6, <1>7, <2>1, <2>2
  <2>4. number[c] <= number[to]
    BY <1>6, <1>7, <2>1, <2>2
  <2> QED
    BY <1>2, <1>8, <2>3, <2>4
<1> HIDE DEF from, to, rises, by
<1>10. /\ stated.op = "change" /\ stated.rows = <<row>> /\ stated.column = to
       /\ stated.result.from = from /\ stated.result.rises = rises
  <2>1. result.from = from /\ result.rises = rises
    OBVIOUS
  <2> HIDE DEF result
  <2>2. stated.op = "change" /\ stated.rows = <<row>> /\ stated.column = to /\ stated.result = result
    BY <1>1 DEF States
  <2> HIDE DEF stated
  <2> QED
    BY <2>1, <2>2
<1> HIDE DEF stated
<1>11. Says(question, table, stated, "change")
  BY <1>4, <1>8, <1>10 DEF Says, ToSet
<1>12. stated.rows[1] = row
  BY <1>10
<1>13. YearsRight(question, table, stated)
  <2>1. rises = (Number(stated.rows[1], stated.column) >= Number(stated.rows[1], from))
    BY <1>10, <1>12 DEF rises
  <2>2. ASSUME NEW c \in D \ {1}, table.columns[c].year, table.columns[c].name \in DOMAIN question.columns
        PROVE  At(from) <= At(c) /\ At(c) <= At(to)
    <3>1. DOMAIN table.columns = 1 .. Len(table.columns) /\ Len(table.columns) \in Nat
      BY ListShape DEF SoundTable
    <3>2. c > 1
      BY <2>2, <3>1
    <3>3. c \in S
      BY <2>2, <3>2 DEF S
    <3> QED
      BY <1>9, <3>3
  <2> QED
    BY <1>10, <2>1, <2>2 DEF YearsRight, At
<1> QED
  BY <1>10, <1>11, <1>13 DEF stated

\* A difference between rows, or between years.
LEMMA DifferencesHold ==
    ASSUME NEW question, Readable(question), NEW table, SoundTable(table), Difference(question, table) # NoAnswer
    PROVE  LET stated == Difference(question, table)[1]
           IN \/ Says(question, table, stated, "difference") /\ PairRight(question, table, stated)
              \/ /\ Says(question, table, stated, "change") /\ NamedRows(question, table) = {stated.rows[1]}
                 /\ YearsRight(question, table, stated)
<1> DEFINE rows == RowMatches(question, table)
           columns == ColumnMatches(question, table)
           ordered == InQuestionOrder(question, rows)
           places == {i \in DOMAIN columns : table.columns[columns[i]].year}
           years == KeepAt(columns, places)
           S == NamedRows(question, table)
           D == DOMAIN table.columns
           stated == Difference(question, table)[1]
           by == Number(ordered[1], columns[1]) - Number(ordered[2], columns[1])
           result == [by |-> by, says |-> Wording(question, by)]
<1>1. \/ Len(rows) >= 2 /\ columns # <<>> /\ Difference(question, table) = BetweenRows(question, ordered[1], ordered[2], columns[1])
      \/ Len(rows) = 1 /\ Difference(question, table) = BetweenYears(question, table, rows[1], years)
  BY Zenon DEF Difference
<1>2. rows \in Seq(S) /\ ToSet(rows) = S /\ S \subseteq ToSet(table.rows)
  BY RowsHold DEF NamedRows
<1>3. columns \in Seq(D)
  BY ColumnsHold
<1>4. ASSUME Len(rows) >= 2, columns # <<>>, Difference(question, table) = BetweenRows(question, ordered[1], ordered[2], columns[1])
      PROVE  Says(question, table, stated, "difference") /\ PairRight(question, table, stated)
  <2> HIDE DEF rows, columns
  <2>1. Difference(question, table) = States("difference", <<ordered[1], ordered[2]>>, columns[1], result)
    BY <1>4, Zenon DEF BetweenRows
  <2> HIDE DEF result, ordered
  <2>2. stated.op = "difference" /\ stated.rows = <<ordered[1], ordered[2]>> /\ stated.column = columns[1]
    BY <2>1 DEF States
  <2>3. columns[1] \in D
    BY <1>3, <1>4
  <2> HIDE DEF stated
  <2>4. ToSet(stated.rows) \subseteq ToSet(table.rows) /\ PairRight(question, table, stated)
    BY <1>2, <1>4, <2>2, PairsHold DEF ordered
  <2> QED
    BY <2>2, <2>3, <2>4 DEF Says
<1>5. ASSUME Len(rows) = 1, Difference(question, table) = BetweenYears(question, table, rows[1], years)
      PROVE  /\ Says(question, table, stated, "change") /\ NamedRows(question, table) = {stated.rows[1]}
             /\ YearsRight(question, table, stated)
  <2>1. S = {rows[1]} /\ rows[1] \in ToSet(table.rows)
    <3> HIDE DEF S, rows
    <3>1. 1 \in DOMAIN rows /\ \A i \in DOMAIN rows : i = 1
      BY <1>2, <1>5
    <3> QED
      BY <1>2, <3>1 DEF ToSet
  <2>2. years \in Seq(D) /\ \A c : c \in ToSet(years) <=> /\ c \in D /\ c > 1 /\ table.columns[c].year
                                                         /\ table.columns[c].name \in DOMAIN question.columns
    <3>1. \A c : c \in ToSet(columns) <=> c \in D /\ c > 1 /\ table.columns[c].name \in DOMAIN question.columns
      BY ColumnsHold
    <3> HIDE DEF columns, D
    <3>2. places \subseteq DOMAIN columns
      OBVIOUS
    <3>3. \A c : c \in {columns[i] : i \in places} <=> c \in ToSet(columns) /\ table.columns[c].year
      BY DEF ToSet
    <3> HIDE DEF places
    <3>4. years \in Seq(D)
      BY <1>3, KeptHolds
    <3>5. ToSet(years) = {columns[i] : i \in places}
      BY <1>3, <3>2, KeptSet
    <3> QED
      BY <3>1, <3>3, <3>4, <3>5
  <2> HIDE DEF years, rows
  <2>3. BetweenYears(question, table, rows[1], years) # NoAnswer
    BY <1>5
  <2> DEFINE between == BetweenYears(question, table, rows[1], years)[1]
  <2>4. Says(question, table, between, "change") /\ between.rows = <<rows[1]>> /\ YearsRight(question, table, between)
    BY <2>1, <2>2, <2>3, YearsHold
  <2>5. stated = between
    BY <1>5
  <2> HIDE DEF stated, between
  <2> QED
    BY <2>1, <2>4, <2>5
<1> QED
  BY <1>1, <1>4, <1>5

\* One row.
LEMMA LookupsHold ==
    ASSUME NEW question, NEW table, SoundTable(table), Lookup(question, table) # NoAnswer
    PROVE  LET stated == Lookup(question, table)[1]
           IN Says(question, table, stated, "lookup") /\ NamedRows(question, table) \subseteq {stated.rows[1]}
<1> DEFINE named == RowMatches(question, table)
           totals == Totals(table.rows, SumTotal)
           first == SubSeq(totals, 1, Min({1, Len(totals)}))
           rows == IF named = <<>> /\ HasAny(question, SumPhrases) THEN first ELSE named
           matched == ColumnMatches(question, table)
           columns == KeepAt(matched, {i \in DOMAIN matched : table.columns[matched[i]].role # "unit"})
           S == NamedRows(question, table)
           T == ToSet(table.rows)
           D == DOMAIN table.columns
           result == [value |-> rows[1].cells[columns[1]]]
           stated == Lookup(question, table)[1]
<1>1. Len(rows) = 1 /\ columns # <<>> /\ Lookup(question, table) = States("lookup", rows, columns[1], result)
  BY Zenon DEF Lookup
<1>2. columns \in Seq(D)
  BY FewerColumns
<1>3. named \in Seq(S) /\ ToSet(named) = S /\ S \subseteq T /\ totals \in Seq(T)
  BY RowsHold DEF NamedRows
<1> HIDE DEF columns, matched, named, S, totals, T
<1>4. first \in Seq(T)
  BY <1>3, FirstFew
<1> HIDE DEF first
<1>5. named = <<>> => S = {}
  BY <1>3, ToSetHolds
<1>6. rows \in Seq(T) /\ S \subseteq ToSet(rows)
  <2>1. named \in Seq(T)
    BY <1>3, SeqMonotonic
  <2>2. CASE named = <<>> /\ HasAny(question, SumPhrases)
    BY <1>4, <1>5, <2>2
  <2>3. CASE ~(named = <<>> /\ HasAny(question, SumPhrases))
    BY <1>3, <2>1, <2>3
  <2> QED
    BY <2>2, <2>3
<1> HIDE DEF rows, result
<1>7. stated.op = "lookup" /\ stated.rows = rows /\ stated.column = columns[1]
  BY <1>1 DEF States
<1>8. columns[1] \in D
  BY <1>1, <1>2
<1> HIDE DEF stated
<1>9. ToSet(rows) = {rows[1]} /\ rows[1] \in T
  <2>1. 1 \in DOMAIN rows /\ \A i \in DOMAIN rows : i = 1
    BY <1>1, <1>6
  <2> QED
    BY <1>6, <2>1 DEF ToSet
<1> QED
  BY <1>6, <1>7, <1>8, <1>9 DEF Says, S, T, stated

\* The first of some answers is one of them.
LEMMA FirstAnswerHolds ==
    ASSUME NEW answers, IsList(answers), FirstAnswer(answers) # NoAnswer
    PROVE  \E i \in DOMAIN answers : FirstAnswer(answers) = answers[i] /\ answers[i] # NoAnswer
<1> DEFINE given == {i \in DOMAIN answers : answers[i] # NoAnswer}
<1>1. FirstAnswer(answers) = answers[Min(given)] /\ given # {}
  BY DEF FirstAnswer
<1>2. given \subseteq Nat
  BY ListShape
<1>3. Min(given) \in given
  <2> HIDE DEF given
  <2> QED
    BY <1>1, <1>2, FirstOfNumbers
<1> QED
  BY <1>1, <1>3

\* What the operations say of one table.
LEMMA OperationsHold ==
    ASSUME NEW question, Readable(question), NEW table, SoundTable(table),
           FirstAnswer(TableOperations(question, table)) # NoAnswer
    PROVE  TableAnswerRight(question, table, FirstAnswer(TableOperations(question, table))[1])
<1> DEFINE answers == TableOperations(question, table)
           answer == FirstAnswer(answers)
           stated == answer[1]
<1>1. /\ IsList(answers) /\ DOMAIN answers = 1 .. 7
      /\ answers[1] = GroupedComparison(question, table) /\ answers[2] = Threshold(question, table)
      /\ answers[3] = Extreme(question, table) /\ answers[4] = Filter(question, table)
      /\ answers[5] = Ratio(question, table) /\ answers[6] = Difference(question, table)
      /\ answers[7] = Lookup(question, table) /\ answer # NoAnswer
  <2>1. DOMAIN answers = 1 .. 7 /\ Len(answers) = 7
    BY DEF TableOperations
  <2>2. answers \in Seq({answers[i] : i \in 1 .. 7})
    BY DEF TableOperations
  <2> QED
    BY <2>1, <2>2 DEF IsList, TableOperations
<1> HIDE DEF answers
<1>2. PICK i \in 1 .. 7 : answer = answers[i] /\ answers[i] # NoAnswer
  BY <1>1, FirstAnswerHolds
<1> HIDE DEF answer
<1>3. ASSUME i = 1 PROVE TableAnswerRight(question, table, stated)
  <2>1. Says(question, table, stated, "grouped") /\ GroupsRight(question, table, stated)
    BY <1>1, <1>2, <1>3, GroupsHold
  <2> HIDE DEF stated
  <2> QED
    BY <2>1 DEF Says, TableAnswerRight
<1>4. ASSUME i = 2 PROVE TableAnswerRight(question, table, stated)
  <2>1. Says(question, table, stated, "threshold") /\ ThresholdRight(question, table, stated)
    BY <1>1, <1>2, <1>4, ThresholdsHold
  <2> HIDE DEF stated
  <2> QED
    BY <2>1 DEF Says, TableAnswerRight
<1>5. ASSUME i = 3 PROVE TableAnswerRight(question, table, stated)
  <2>1. Says(question, table, stated, "extreme") /\ ExtremeRight(table, stated)
    BY <1>1, <1>2, <1>5, ExtremesHold
  <2> HIDE DEF stated
  <2> QED
    BY <2>1 DEF Says, TableAnswerRight
<1>6. ASSUME i = 4 PROVE TableAnswerRight(question, table, stated)
  <2>1. Says(question, table, stated, "filter") /\ FilterRight(question, table, stated)
    BY <1>1, <1>2, <1>6, FiltersHold
  <2> HIDE DEF stated
  <2> QED
    BY <2>1 DEF Says, TableAnswerRight
<1>7. ASSUME i = 5 PROVE TableAnswerRight(question, table, stated)
  <2>1. \/ Says(question, table, stated, "share") /\ PartOfTotal(question, table, stated)
        \/ Says(question, table, stated, "times") /\ PairRight(question, table, stated)
    BY <1>1, <1>2, <1>7, RatiosHold
  <2> HIDE DEF stated
  <2> QED
    BY <2>1 DEF Says, TableAnswerRight
<1>8. ASSUME i = 6 PROVE TableAnswerRight(question, table, stated)
  <2>1. \/ Says(question, table, stated, "difference") /\ PairRight(question, table, stated)
        \/ /\ Says(question, table, stated, "change") /\ NamedRows(question, table) = {stated.rows[1]}
           /\ YearsRight(question, table, stated)
    BY <1>1, <1>2, <1>8, DifferencesHold
  <2> HIDE DEF stated
  <2> QED
    BY <2>1 DEF Says, TableAnswerRight
<1>9. ASSUME i = 7 PROVE TableAnswerRight(question, table, stated)
  <2>1. Says(question, table, stated, "lookup") /\ NamedRows(question, table) \subseteq {stated.rows[1]}
    BY <1>1, <1>2, <1>9, LookupsHold
  <2> HIDE DEF stated
  <2> QED
    BY <2>1 DEF Says, TableAnswerRight
<1>10. i \in {1, 2, 3, 4, 5, 6, 7}
  OBVIOUS
<1> QED
  BY <1>3, <1>4, <1>5, <1>6, <1>7, <1>8, <1>9, <1>10 DEF answer, answers

\* What is said of some tables is said of one of them.
LEMMA ReasonHolds ==
    ASSUME NEW question \in TableQuestion, NEW tables \in SourceTable, ReasonOver(question, tables) # NoAnswer
    PROVE  \E table \in ToSet(tables) : TableAnswerRight(question, table, ReasonOver(question, tables)[1])
<1> DEFINE places == {i \in DOMAIN tables : TableRelevance(question, tables[i]) >= 3}
           relevant == KeepAt(tables, places)
           before == {p \in ToSet(relevant) \X ToSet(relevant) : TableRelevance(question, p[1]) > TableRelevance(question, p[2])}
           ranked == Sorted(relevant, before)
           answers == [i \in DOMAIN ranked |-> FirstAnswer(TableOperations(question, ranked[i]))]
<1>1. Readable(question) /\ tables \in Seq(ToSet(tables)) /\ \A table \in ToSet(tables) : SoundTable(table)
  BY TableAssumption DEF IsList, ToSet
<1>2. ReasonOver(question, tables) = FirstAnswer(answers)
  BY Zenon DEF ReasonOver
<1> HIDE DEF places
<1>3. relevant \in Seq(ToSet(tables))
  BY <1>1, KeptHolds
<1> HIDE DEF relevant, before
<1>4. ranked \in Seq(ToSet(tables))
  BY <1>3, SortedHolds
<1> HIDE DEF ranked
<1>5. IsList(answers) /\ DOMAIN answers = DOMAIN ranked /\ \A i \in DOMAIN ranked : answers[i] = FirstAnswer(TableOperations(question, ranked[i]))
  <2>1. DOMAIN ranked = 1 .. Len(ranked) /\ Len(ranked) \in Nat
    BY <1>4
  <2>2. IsList(answers)
    BY <2>1, ListByPlace
  <2> QED
    BY <2>2
<1> HIDE DEF answers
<1>6. PICK i \in DOMAIN ranked : FirstAnswer(answers) = FirstAnswer(TableOperations(question, ranked[i])) /\ FirstAnswer(answers) # NoAnswer
  BY <1>2, <1>5, FirstAnswerHolds
<1>7. ranked[i] \in ToSet(tables)
  BY <1>4
<1> QED
  BY <1>1, <1>2, <1>6, <1>7, OperationsHold

\* What the calculator of tables states is so in one of the tables it was given,
\* whatever the question and the tables are.
THEOREM TablesAnswerRight == TableSpec => []TableAnswersAreRight
<1> DEFINE Given == tableInput.question \in TableQuestion /\ tableInput.tables \in SourceTable
           Inv == Given /\ TableAnswersAreRight
<1>1. TableInit => Inv
  BY DEF TableInit, TableAnswersAreRight
<1>2. Inv /\ [AnswerFromTables]_tableVars => Inv'
  <2> SUFFICES ASSUME Inv, [AnswerFromTables]_tableVars PROVE Inv'
    OBVIOUS
  <2>1. CASE AnswerFromTables
    <3>1. tableInput' = tableInput /\ tableAnswer' = ReasonOver(tableInput.question, tableInput.tables)
      BY <2>1 DEF AnswerFromTables
    <3> QED
      BY <3>1, ReasonHolds DEF TableAnswersAreRight
  <2>2. CASE UNCHANGED tableVars
    BY <2>2 DEF tableVars, TableAnswersAreRight
  <2> QED
    BY <2>1, <2>2
<1> QED
  BY <1>1, <1>2, PTL DEF TableSpec

-----------------------------------------------------------------------------
(* Charts.                                                                 *)

\* Of equal elements the first is kept.
LEMMA DistinctHolds ==
    ASSUME NEW s, IsList(s)
    PROVE  /\ IsList(Distinct(s)) /\ ToSet(Distinct(s)) = ToSet(s)
           /\ \A i, j \in DOMAIN Distinct(s) : Distinct(s)[i] = Distinct(s)[j] => i = j
<1> DEFINE places == {i \in DOMAIN s : \A k \in 1 .. i - 1 : s[k] # s[i]}
           kept == KeepAt(s, places)
<1>1. s \in Seq(ToSet(s)) /\ ToSet(s) = {s[i] : i \in DOMAIN s}
  BY DEF IsList, ToSet
<1>2. DOMAIN s = 1 .. Len(s) /\ Len(s) \in Nat
  BY ListShape
<1>3. ASSUME NEW i \in DOMAIN s PROVE \E k \in places : s[k] = s[i]
  <2> DEFINE T == {k \in DOMAIN s : s[k] = s[i]}
  <2>1. T \subseteq Nat /\ T # {}
    BY <1>2
  <2>2. PICK k \in T : \A l \in T : k <= l
    <3> HIDE DEF T
    <3> QED
      BY <2>1, LeastNumber
  <2>3. \A l \in 1 .. k - 1 : s[l] # s[k]
    <3> SUFFICES ASSUME NEW l \in 1 .. k - 1, s[l] = s[k] PROVE FALSE
      OBVIOUS
    <3>1. l \in DOMAIN s /\ ~(k <= l)
      BY <1>2, <2>2
    <3> QED
      BY <2>2, <3>1
  <2> QED
    BY <2>2, <2>3
<1>4. Distinct(s) = kept /\ places \subseteq DOMAIN s
  BY DEF Distinct
<1>5. \A i, j \in places : s[i] = s[j] => i = j
  <2> SUFFICES ASSUME NEW i \in places, NEW j \in places, s[i] = s[j], i # j PROVE FALSE
    OBVIOUS
  <2>1. i \in 1 .. j - 1 \/ j \in 1 .. i - 1
    BY <1>2
  <2> QED
    BY <2>1
<1> HIDE DEF places
<1>6. kept \in Seq(ToSet(s)) /\ ToSet(kept) = {s[i] : i \in places} /\ IsList(kept)
  BY <1>4, PartHolds, ListOf
<1>7. {s[i] : i \in places} = ToSet(s)
  BY <1>1, <1>3, <1>4
<1>8. PICK at : KeptFrom(at, kept, s, places)
  BY <1>1, KeepAtOrder
<1> HIDE DEF kept
<1>9. ASSUME NEW i \in DOMAIN kept, NEW j \in DOMAIN kept, kept[i] = kept[j] PROVE i = j
  <2>1. /\ at[i] \in places /\ at[j] \in places /\ s[at[i]] = s[at[j]]
        /\ i < j => at[i] < at[j]
        /\ j < i => at[j] < at[i]
    BY <1>8, <1>9 DEF KeptFrom
  <2>2. at[i] = at[j]
    BY <1>5, <2>1
  <2>3. at[i] \in Int /\ i \in Int /\ j \in Int
    BY <1>2, <1>4, <1>6, <2>1
  <2> QED
    BY <2>1, <2>2, <2>3
<1> QED
  BY <1>4, <1>6, <1>7, <1>9

\* When none is dropped, all are different.
LEMMA DistinctAll ==
    ASSUME NEW s, IsList(s), Len(Distinct(s)) = Len(s)
    PROVE  \A i \in DOMAIN s : Distinct(s)[i] = s[i] /\ \A k \in 1 .. i - 1 : s[k] # s[i]
<1> DEFINE places == {i \in DOMAIN s : \A k \in 1 .. i - 1 : s[k] # s[i]}
           others == DOMAIN s \ places
           S == ToSet(s)
<1>1. s \in Seq(S) /\ DOMAIN s = 1 .. Len(s) /\ Len(s) \in Nat
  BY ListShape DEF IsList, ToSet
<1>2. Distinct(s) = KeepAt(s, places)
  BY DEF Distinct
<1>3. \A i \in DOMAIN s : i \in others <=> i \notin places
  OBVIOUS
<1>4. \A i \in places : \A k \in 1 .. i - 1 : s[k] # s[i]
  OBVIOUS
<1> HIDE DEF places, S
<1>5. others = {}
  <2>1. Len(KeepAt(s, places)) + Len(KeepAt(s, others)) = Len(s) /\ KeepAt(s, others) \in Seq(S)
    BY <1>1, <1>3, KeepAtLengths, KeptHolds
  <2>2. DOMAIN KeepAt(s, others) = {}
    BY <1>1, <1>2, <2>1
  <2> SUFFICES ASSUME NEW k \in others PROVE FALSE
    OBVIOUS
  <2>3. \E i \in DOMAIN KeepAt(s, others) : KeepAt(s, others)[i] = s[k]
    BY <1>1, KeepAtAll
  <2> QED
    BY <2>2, <2>3
<1>6. places \cap DOMAIN s = 1 .. Len(s)
  BY <1>1, <1>5
<1>7. \A i \in 1 .. Len(s) : KeepAt(s, places)[i] = s[i]
  <2>1. Len(s) \in 0 .. Len(s)
    BY <1>1
  <2> QED
    BY <1>1, <1>6, <2>1, KeepAtPrefix
<1> QED
  BY <1>1, <1>2, <1>4, <1>6, <1>7

-----------------------------------------------------------------------------
(* Cubes.                                                                  *)

SoundCube(cube) == IsList(cube.groups) /\ \A g \in DOMAIN cube.groups : SoundGroup(cube.groups[g])
RowsOf(cube) == ToSet(EveryRow(cube))

\* Points are numbers, of categories that are labels.
SoundRows(rows) == \A r \in rows : r.y \in Int /\ r.cat \in DOMAIN Year

LEMMA GroupRowsHold ==
    ASSUME NEW group, SoundGroup(group)
    PROVE  /\ IsList(GroupRows(group)) /\ GroupRows(group) # <<>> /\ SoundRows(ToSet(GroupRows(group)))
           /\ DOMAIN GroupRows(group) = DOMAIN group.points
           /\ \A i \in DOMAIN group.points : /\ GroupRows(group)[i] = Row(group, i)
                                             /\ GroupRows(group)[i].series = group.name
                                             /\ GroupRows(group)[i].y = group.points[i].y
                                             /\ GroupRows(group)[i].cat = group.points[i].cat
<1> DEFINE rows == GroupRows(group)
<1>1. /\ IsList(group.points) /\ group.points # <<>>
      /\ \A i \in DOMAIN group.points : group.points[i].y \in Int /\ group.points[i].cat \in DOMAIN Year
  BY DEF SoundGroup
<1>2. IsList(rows) /\ Len(rows) = Len(group.points) /\ DOMAIN rows = DOMAIN group.points
  BY <1>1, ColumnList DEF GroupRows
<1>3. \A i \in DOMAIN group.points : rows[i] = Row(group, i)
  BY DEF GroupRows
<1> HIDE DEF rows
<1>4. ASSUME NEW i \in DOMAIN group.points
      PROVE  rows[i].series = group.name /\ rows[i].y = group.points[i].y /\ rows[i].cat = group.points[i].cat
  <2>1. rows[i] = Row(group, i)
    BY <1>3
  <2> QED
    BY <2>1 DEF Row
<1>5. rows # <<>>
  <2>1. Len(group.points) # 0
    BY <1>1 DEF IsList
  <2> QED
    BY <1>2, <2>1
<1>6. SoundRows(ToSet(rows))
  BY <1>1, <1>2, <1>4 DEF SoundRows, ToSet
<1> QED
  BY <1>2, <1>3, <1>4, <1>5, <1>6 DEF rows

\* The rows of a cube are those of its groups.
LEMMA EveryRowHolds ==
    ASSUME NEW cube, SoundCube(cube)
    PROVE  /\ EveryRow(cube) \in Seq(RowsOf(cube)) /\ IsList(EveryRow(cube)) /\ SoundRows(RowsOf(cube))
           /\ \A g \in DOMAIN cube.groups : /\ ToSet(GroupRows(cube.groups[g])) \subseteq RowsOf(cube)
                                            /\ GroupRows(cube.groups[g]) \in Seq(RowsOf(cube))
<1> DEFINE groups == cube.groups
           lists == [g \in DOMAIN groups |-> GroupRows(groups[g])]
<1>1. IsList(groups) /\ \A g \in DOMAIN groups : SoundGroup(groups[g])
  BY DEF SoundCube
<1>2. /\ IsList(lists) /\ Len(lists) = Len(groups) /\ DOMAIN lists = DOMAIN groups
      /\ \A g \in DOMAIN groups : lists[g] = GroupRows(groups[g])
  BY <1>1, ColumnList
<1>3. \A g \in DOMAIN groups : IsList(lists[g]) /\ SoundRows(ToSet(lists[g]))
  BY <1>1, <1>2, GroupRowsHold
<1> HIDE DEF lists, groups
<1>4. IsList(FlattenSeq(lists)) /\ ToSet(FlattenSeq(lists)) = UNION {ToSet(lists[g]) : g \in DOMAIN lists}
  BY <1>2, <1>3, FlattenLists
<1>5. EveryRow(cube) = FlattenSeq(lists)
  BY DEF EveryRow, lists, groups
<1>6. IsList(EveryRow(cube)) /\ RowsOf(cube) = UNION {ToSet(lists[g]) : g \in DOMAIN groups}
  BY <1>2, <1>4, <1>5 DEF RowsOf
<1>7. SoundRows(RowsOf(cube))
  BY <1>2, <1>3, <1>6 DEF SoundRows
<1>8. ASSUME NEW g \in DOMAIN groups
      PROVE  ToSet(GroupRows(groups[g])) \subseteq RowsOf(cube) /\ GroupRows(groups[g]) \in Seq(RowsOf(cube))
  <2>1. lists[g] \in Seq(ToSet(lists[g])) /\ lists[g] = GroupRows(groups[g])
    BY <1>2, <1>3 DEF IsList, ToSet
  <2>2. ToSet(lists[g]) \subseteq RowsOf(cube)
    BY <1>6
  <2> QED
    BY <2>1, <2>2
<1>9. EveryRow(cube) \in Seq(RowsOf(cube))
  BY <1>6 DEF IsList, ToSet, RowsOf
<1> QED
  BY <1>6, <1>7, <1>8, <1>9 DEF groups

\* A column of names.
LEMMA CategoriesHold ==
    ASSUME NEW rows, IsList(rows)
    PROVE  LET categories == Distinct(CategoriesOf(rows))
           IN /\ IsList(categories) /\ ToSet(categories) = {r.cat : r \in ToSet(rows)}
              /\ \A i, j \in DOMAIN categories : categories[i] = categories[j] => i = j
<1> DEFINE all == CategoriesOf(rows)
<1>1. IsList(all) /\ DOMAIN all = DOMAIN rows /\ \A i \in DOMAIN rows : all[i] = rows[i].cat
  <2>1. all = [i \in DOMAIN rows |-> all[i]] /\ \A i \in DOMAIN rows : all[i] = rows[i].cat
    BY DEF CategoriesOf
  <2> HIDE DEF all
  <2> QED
    BY <2>1, ColumnList
<1>2. ToSet(all) = {r.cat : r \in ToSet(rows)}
  BY <1>1 DEF ToSet
<1> HIDE DEF all
<1> QED
  BY <1>1, <1>2, DistinctHolds DEF all

LEMMA CategoryNamesHold ==
    ASSUME NEW cube, SoundCube(cube)
    PROVE  IsList(CategoryNames(cube)) /\ ToSet(CategoryNames(cube)) = {r.cat : r \in RowsOf(cube)} \ {Blank}
<1> DEFINE names == Distinct(CategoriesOf(EveryRow(cube)))
           places == {i \in DOMAIN names : names[i] # Blank}
<1>1. IsList(names) /\ ToSet(names) = {r.cat : r \in RowsOf(cube)}
  BY EveryRowHolds, CategoriesHold DEF RowsOf
<1>2. CategoryNames(cube) = KeepAt(names, places)
  BY Zenon DEF CategoryNames
<1> HIDE DEF names
<1>3. places \subseteq DOMAIN names /\ {names[i] : i \in places} = ToSet(names) \ {Blank}
  BY DEF ToSet
<1> HIDE DEF places
<1>4. IsList(KeepAt(names, places)) /\ ToSet(KeepAt(names, places)) = {names[i] : i \in places}
  BY <1>1, <1>3, PartHolds, ListOf
<1> QED
  BY <1>1, <1>2, <1>3, <1>4

\* One row for each category.
LEMMA ByCategoryHolds ==
    ASSUME NEW rows, IsList(rows)
    PROVE  /\ IsList(ByCategory(rows)) /\ ToSet(ByCategory(rows)) \subseteq ToSet(rows)
           /\ {b.cat : b \in ToSet(ByCategory(rows))} = {r.cat : r \in ToSet(rows)}
           /\ \A i, j \in DOMAIN ByCategory(rows) : ByCategory(rows)[i].cat = ByCategory(rows)[j].cat => i = j
<1> DEFINE categories == Distinct(CategoriesOf(rows))
           At(k) == {i \in DOMAIN rows : rows[i].cat = categories[k]}
           last == ByCategory(rows)
<1>1. /\ IsList(categories) /\ ToSet(categories) = {r.cat : r \in ToSet(rows)}
      /\ \A i, j \in DOMAIN categories : categories[i] = categories[j] => i = j
  BY CategoriesHold
<1>2. last = [k \in DOMAIN categories |-> rows[Max(At(k))]]
  BY Zenon DEF ByCategory
<1> HIDE DEF categories
<1>3. ASSUME NEW k \in DOMAIN categories PROVE Max(At(k)) \in DOMAIN rows /\ rows[Max(At(k))].cat = categories[k]
  <2>1. categories[k] \in ToSet(categories)
    BY DEF ToSet
  <2>2. At(k) # {} /\ At(k) \in SUBSET DOMAIN rows
    BY <1>1, <2>1 DEF ToSet
  <2>3. Max(At(k)) \in At(k)
    <3> HIDE DEF At
    <3> QED
      BY <2>2, LastPlace
  <2> QED
    BY <2>3
<1> HIDE DEF At
<1>4. last = [k \in DOMAIN categories |-> last[k]] /\ \A k \in DOMAIN categories : last[k] = rows[Max(At(k))]
  BY <1>2
<1> HIDE DEF last
<1>5. IsList(last) /\ DOMAIN last = DOMAIN categories
  BY <1>1, <1>4, ColumnList
<1>6. \A k \in DOMAIN last : last[k] \in ToSet(rows) /\ last[k].cat = categories[k]
  BY <1>3, <1>4, <1>5 DEF ToSet
<1>7. {b.cat : b \in ToSet(last)} = ToSet(categories)
  BY <1>5, <1>6 DEF ToSet
<1>8. ToSet(last) \subseteq ToSet(rows)
  BY <1>6 DEF ToSet
<1>9. \A i, j \in DOMAIN last : last[i].cat = last[j].cat => i = j
  BY <1>1, <1>5, <1>6
<1> QED
  BY <1>1, <1>5, <1>7, <1>8, <1>9 DEF last

\* The names that a question names.
LEMMA NamedHolds ==
    ASSUME NEW question, SoundQuestion(question), NEW names, IsList(names)
    PROVE  /\ Named(names, question) \in Seq(ToSet(Named(names, question)))
           /\ Named(names, question) \in Seq(ToSet(question.mentions))
           /\ ToSet(Named(names, question)) = ToSet(names) \cap ToSet(question.mentions)
<1> DEFINE places == {i \in DOMAIN names : names[i] \in ToSet(question.mentions)}
           named == KeepAt(names, places)
<1>1. named \in Seq(ToSet(named)) /\ ToSet(named) = {names[i] : i \in places}
  <2>1. places \subseteq DOMAIN names
    OBVIOUS
  <2> HIDE DEF places
  <2> QED
    BY <2>1, PartHolds
<1>2. {names[i] : i \in places} = ToSet(names) \cap ToSet(question.mentions)
  BY DEF ToSet
<1>3. Named(names, question) = named
  BY DEF Named
<1> HIDE DEF named
<1>4. named \in Seq(ToSet(question.mentions))
  <2>1. ToSet(named) \subseteq ToSet(question.mentions)
    BY <1>1, <1>2
  <2> QED
    BY <1>1, <2>1
<1> QED
  BY <1>1, <1>2, <1>3, <1>4

\* Where a question names a label.
LEMMA PlaceHolds ==
    ASSUME NEW question, SoundQuestion(question), NEW label \in ToSet(question.mentions)
    PROVE  Place(question, label) \in DOMAIN question.mentions /\ question.mentions[Place(question, label)] = label
           /\ Place(question, label) \in Nat
<1>1. \E i \in DOMAIN question.mentions : question.mentions[i] = label
  BY DEF ToSet
<1>2. DOMAIN question.mentions \subseteq Nat
  BY ListShape DEF SoundQuestion
<1> QED
  BY <1>1, <1>2 DEF Place

\* Two named labels or more, in the order of the wording.
LEMMA MentionsHold ==
    ASSUME NEW question, SoundQuestion(question), NEW names \in Seq(ToSet(question.mentions)), Len(names) >= 2
    PROVE  LET ordered == OrderedMentions(question, names)
           IN /\ ordered[1] \in ToSet(names) /\ ordered[2] \in ToSet(names)
              /\ Place(question, ordered[1]) <= Place(question, ordered[2])
<1> DEFINE M == ToSet(question.mentions)
           place == [label \in M |-> Place(question, label)]
           before == {p \in ToSet(names) \X ToSet(names) : Place(question, p[1]) < Place(question, p[2])}
           ordered == Sorted(names, before)
<1>1. ToSet(names) \subseteq M
  BY DEF ToSet
<1>2. place \in [M -> Int] /\ \A label \in M : place[label] = Place(question, label)
  <2>1. \A label \in M : Place(question, label) \in Int
    BY PlaceHolds
  <2> QED
    BY <2>1
<1>3. \A a, b \in ToSet(names) : <<a, b>> \in before <=> place[a] < place[b]
  BY <1>1
<1>4. OrderedMentions(question, names) = ordered
  BY DEF OrderedMentions
<1> HIDE DEF M, place, before
<1>5. names \in Seq(M)
  BY DEF M
<1>6. \A i, j \in DOMAIN ordered : i < j => place[ordered[i]] <= place[ordered[j]]
  BY <1>2, <1>3, <1>5, SortedByNumber
<1>7. ordered \in Seq(M) /\ ToSet(ordered) = ToSet(names) /\ DOMAIN ordered = DOMAIN names
  BY <1>5, SortedHolds, SortedPermutes DEF Permutes
<1> HIDE DEF ordered
<1>8. 1 \in DOMAIN ordered /\ 2 \in DOMAIN ordered /\ ordered[1] \in M /\ ordered[2] \in M
  BY <1>5, <1>7
<1>9. ordered[1] \in ToSet(names) /\ ordered[2] \in ToSet(names)
  BY <1>7, <1>8 DEF ToSet
<1>10. place[ordered[1]] <= place[ordered[2]]
  BY <1>6, <1>8
<1> QED
  BY <1>2, <1>4, <1>8, <1>9, <1>10

\* The order of a comparison is that of its wording.
LEMMA OrderHolds ==
    ASSUME NEW question, SoundQuestion(question), NEW names \in Seq(ToSet(question.mentions)), Len(names) >= 2
    PROVE  LET order == ComparisonOrder(question, names)
           IN /\ order[1] \in ToSet(names) /\ order[2] \in ToSet(names)
              /\ Directed(question, order[1], order[2])
<1> DEFINE first == OrderedMentions(question, names)[1]
           second == OrderedMentions(question, names)[2]
           than == SaysThan(question, first, second)
           order == ComparisonOrder(question, names)
<1>1. first \in ToSet(names) /\ second \in ToSet(names) /\ Place(question, first) <= Place(question, second)
  BY MentionsHold
<1>2. order = IF than THEN <<second, first>> ELSE <<first, second>>
  BY DEF ComparisonOrder
<1>3. ToSet(names) \subseteq ToSet(question.mentions)
  BY DEF ToSet
<1> HIDE DEF first, second
<1>4. /\ Place(question, first) \in Nat /\ Place(question, second) \in Nat
      /\ first # second => Place(question, first) # Place(question, second)
  BY <1>1, <1>3, PlaceHolds
<1> HIDE DEF order
<1>5. CASE than
  <2>1. order[1] = second /\ order[2] = first
    BY <1>2, <1>5
  <2>2. ~(Place(question, second) < Place(question, first))
    BY <1>1, <1>4
  <2>3. Directed(question, second, first)
    BY <1>5, <2>2, Zenon DEF Directed
  <2> QED
    BY <1>1, <2>1, <2>3 DEF order
<1>6. CASE ~than
  <2>1. order[1] = first /\ order[2] = second
    BY <1>2, <1>6
  <2>2. first # second => Place(question, first) < Place(question, second)
    BY <1>1, <1>4
  <2>3. Directed(question, first, second)
    BY <1>6, <2>2, Zenon DEF Directed
  <2> QED
    BY <1>1, <2>1, <2>3 DEF order
<1> QED
  BY <1>5, <1>6

LEMMA SeriesNamesHold ==
    ASSUME NEW cube, SoundCube(cube)
    PROVE  /\ IsList(SeriesNames(cube)) /\ DOMAIN SeriesNames(cube) = DOMAIN cube.groups
           /\ \A g \in DOMAIN cube.groups : SeriesNames(cube)[g] = cube.groups[g].name
<1>1. \A g \in DOMAIN cube.groups : SeriesNames(cube)[g] = cube.groups[g].name
  BY DEF SeriesNames
<1>2. SeriesNames(cube) = [g \in DOMAIN cube.groups |-> SeriesNames(cube)[g]]
  BY DEF SeriesNames
<1> QED
  BY <1>1, <1>2, ColumnList DEF SoundCube

\* The rows of the first series of a name.
LEMMA SeriesRowsHold ==
    ASSUME NEW cube, SoundCube(cube), NEW name \in ToSet(SeriesNames(cube))
    PROVE  /\ IsList(SeriesRows(cube, name)) /\ SeriesRows(cube, name) # <<>>
           /\ SeriesRows(cube, name) \in Seq(RowsOf(cube))
           /\ \A r \in ToSet(SeriesRows(cube, name)) : r.series = name
<1> DEFINE places == {g \in DOMAIN cube.groups : cube.groups[g].name = name}
           kept == KeepAt(cube.groups, places)
           rows == SeriesRows(cube, name)
<1>1. places # {} /\ places \subseteq DOMAIN cube.groups
  BY SeriesNamesHold DEF ToSet
<1>2. kept \in Seq(ToSet(kept)) /\ ToSet(kept) = {cube.groups[g] : g \in places}
  <2> HIDE DEF places
  <2> QED
    BY <1>1, PartHolds DEF SoundCube
<1>3. rows = GroupRows(kept[1])
  BY DEF SeriesRows
<1> HIDE DEF kept
<1>4. kept[1] \in ToSet(kept)
  <2> HIDE DEF places
  <2>1. ToSet(kept) # {}
    BY <1>1, <1>2
  <2>2. kept # <<>>
    BY <1>2, <2>1, ToSetHolds
  <2> QED
    BY <1>2, <2>2, FirstHolds
<1>5. PICK g \in DOMAIN cube.groups : kept[1] = cube.groups[g] /\ cube.groups[g].name = name
  BY <1>2, <1>4
<1> HIDE DEF rows
<1>6. IsList(rows) /\ rows # <<>> /\ rows \in Seq(RowsOf(cube))
  BY <1>3, <1>5, GroupRowsHold, EveryRowHolds DEF SoundCube
<1>7. \A r \in ToSet(rows) : r.series = name
  <2>1. SoundGroup(kept[1]) /\ kept[1].name = name
    BY <1>5 DEF SoundCube
  <2>2. \A i \in DOMAIN rows : rows[i].series = name
    BY <1>3, <2>1, GroupRowsHold
  <2> QED
    BY <2>2 DEF ToSet
<1> QED
  BY <1>6, <1>7 DEF rows

\* The points of a series and a category.
LEMMA PointRowsHold ==
    ASSUME NEW cube, SoundCube(cube), NEW name, NEW cat
    PROVE  /\ PointRows(cube, name, cat) \in Seq(RowsOf(cube))
           /\ \A r \in ToSet(PointRows(cube, name, cat)) : r \in RowsOf(cube) /\ r.series = name /\ r.cat = cat
           /\ PointRows(cube, name, cat) # <<>> => PointRows(cube, name, cat)[1] \in ToSet(PointRows(cube, name, cat))
<1> DEFINE rows == EveryRow(cube)
           places == {i \in DOMAIN rows : rows[i].series = name /\ rows[i].cat = cat}
           kept == KeepAt(rows, places)
<1>1. rows \in Seq(RowsOf(cube)) /\ IsList(rows)
  BY EveryRowHolds
<1>2. PointRows(cube, name, cat) = kept
  BY DEF PointRows
<1>3. places \subseteq DOMAIN rows
  OBVIOUS
<1>4. \A r \in {rows[i] : i \in places} : r.series = name /\ r.cat = cat
  OBVIOUS
<1> HIDE DEF rows, places
<1>5. kept \in Seq(RowsOf(cube)) /\ ToSet(kept) = {rows[i] : i \in places}
  BY <1>1, <1>3, KeptHolds, KeptSet
<1> HIDE DEF kept
<1>6. ToSet(kept) \subseteq RowsOf(cube)
  BY <1>5, ToSetHolds
<1>7. kept # <<>> => kept[1] \in ToSet(kept)
  BY <1>5, FirstHolds
<1> QED
  BY <1>2, <1>4, <1>5, <1>6, <1>7

-----------------------------------------------------------------------------
(* What every operation says.                                              *)

Tells(cube, part, op) ==
    /\ part.op = op /\ ToSet(part.rows) \subseteq RowsOf(cube)
    /\ IsList(part.evidence) /\ ToSet(part.rows) \subseteq UNION ToSet(part.evidence)

LEMMA BundleHolds ==
    ASSUME NEW cube, NEW rows \in Seq(RowsOf(cube)), NEW op, NEW facts
    PROVE  LET part == Bundle(op, rows, facts)[1]
           IN Tells(cube, part, op) /\ part.rows = rows /\ part.facts = facts
<1> DEFINE part == Bundle(op, rows, facts)[1]
<1>1. part.op = op /\ part.rows = rows /\ part.evidence = <<ToSet(rows)>> /\ part.facts = facts
  BY DEF Bundle, Calculated
<1> HIDE DEF part
<1>2. IsList(<<ToSet(rows)>>) /\ ToSet(<<ToSet(rows)>>) = {ToSet(rows)}
  BY DEF IsList, ToSet
<1>3. ToSet(rows) \subseteq RowsOf(cube)
  BY ToSetHolds
<1> QED
  BY <1>1, <1>2, <1>3 DEF Tells, part

LEMMA TwoPointsHold ==
    ASSUME NEW cube, NEW a \in RowsOf(cube), NEW b \in RowsOf(cube), NEW op, NEW facts
    PROVE  LET part == TwoPoints(op, a, b, facts)[1]
           IN Tells(cube, part, op) /\ part.rows = <<a, b>> /\ part.facts = facts
<1> DEFINE part == TwoPoints(op, a, b, facts)[1]
<1>1. part.op = op /\ part.rows = <<a, b>> /\ part.evidence = <<{a}, {b}>> /\ part.facts = facts
  BY DEF TwoPoints, Calculated
<1> HIDE DEF part
<1>2. IsList(<<{a}, {b}>>) /\ ToSet(<<{a}, {b}>>) = {{a}, {b}} /\ ToSet(<<a, b>>) = {a, b}
  BY DEF IsList, ToSet
<1> QED
  BY <1>1, <1>2 DEF Tells, part

\* A change from a row to a row.
LEMMA ChangeHolds ==
    ASSUME NEW cube, SoundCube(cube), NEW a \in RowsOf(cube), NEW b \in RowsOf(cube), NEW op
    PROVE  LET part == Change(op, a, b)[1]
           IN /\ Tells(cube, part, op) /\ part.facts.start = a /\ part.facts.end = b
              /\ b.y = a.y + part.facts.absolute
<1> DEFINE facts == [start |-> a, end |-> b, absolute |-> b.y - a.y,
                     relative |-> IF a.y = 0 THEN <<>> ELSE <<b.y - a.y, Max({a.y, -a.y})>>]
           part == Change(op, a, b)[1]
<1>1. Change(op, a, b) = TwoPoints(op, a, b, facts)
  BY DEF Change
<1>2. a.y \in Int /\ b.y \in Int
  BY EveryRowHolds DEF SoundRows
<1>3. facts.start = a /\ facts.end = b /\ b.y = a.y + facts.absolute
  BY <1>2
<1> HIDE DEF facts
<1>4. Tells(cube, part, op) /\ part.facts = facts
  BY <1>1, TwoPointsHold
<1> HIDE DEF part
<1> QED
  BY <1>3, <1>4 DEF part

\* Two points, of two series or of two categories.
LEMMA PairHolds ==
    ASSUME NEW cube, SoundCube(cube), NEW one, NEW two, NEW cat1, NEW cat2,
           PointPair(PointRows(cube, one, cat1), PointRows(cube, two, cat2)) # <<>>
    PROVE  LET pair == PointPair(PointRows(cube, one, cat1), PointRows(cube, two, cat2))
           IN /\ pair = <<pair[1], pair[2]>> /\ pair[1] \in RowsOf(cube) /\ pair[2] \in RowsOf(cube)
              /\ pair[1].series = one /\ pair[1].cat = cat1 /\ pair[2].series = two /\ pair[2].cat = cat2
<1> DEFINE before == PointRows(cube, one, cat1)
           after == PointRows(cube, two, cat2)
           pair == PointPair(before, after)
<1>1. before # <<>> /\ after # <<>> /\ pair = <<before[1], after[1]>>
  BY DEF PointPair
<1>2. before[1] \in ToSet(before) /\ \A r \in ToSet(before) : r \in RowsOf(cube) /\ r.series = one /\ r.cat = cat1
  BY <1>1, PointRowsHold
<1>3. after[1] \in ToSet(after) /\ \A r \in ToSet(after) : r \in RowsOf(cube) /\ r.series = two /\ r.cat = cat2
  BY <1>1, PointRowsHold
<1> HIDE DEF before, after, pair
<1>4. pair[1] = before[1] /\ pair[2] = after[1]
  BY <1>1
<1> QED
  BY <1>1, <1>2, <1>3, <1>4 DEF pair, before, after

\* The names of series and of categories that a question names.
LEMMA NamesHold ==
    ASSUME NEW question, SoundQuestion(question), NEW cube, SoundCube(cube)
    PROVE  LET series == Named(SeriesNames(cube), question)
               named == Named(CategoryNames(cube), question)
           IN /\ series \in Seq(ToSet(question.mentions)) /\ ToSet(series) = ToSet(SeriesNames(cube)) \cap ToSet(question.mentions)
              /\ named \in Seq(ToSet(question.mentions)) /\ ToSet(named) = {r.cat : r \in RowsOf(cube)} \cap ToSet(question.mentions)
<1> DEFINE series == SeriesNames(cube)
           categories == CategoryNames(cube)
           all == {r.cat : r \in RowsOf(cube)}
           M == ToSet(question.mentions)
<1>1. IsList(series) /\ IsList(categories) /\ ToSet(categories) = all \ {Blank}
  BY SeriesNamesHold, CategoryNamesHold
<1>2. Blank \notin M
  BY DEF SoundQuestion
<1> HIDE DEF series, categories, all
<1>3. /\ Named(series, question) \in Seq(M) /\ ToSet(Named(series, question)) = ToSet(series) \cap M
      /\ Named(categories, question) \in Seq(M) /\ ToSet(Named(categories, question)) = ToSet(categories) \cap M
  BY <1>1, NamedHolds
<1>4. ToSet(Named(categories, question)) = all \cap M
  BY <1>1, <1>2, <1>3
<1> QED
  BY <1>3, <1>4 DEF series, categories, all

\* A change from one series to another in one category.
LEMMA CrossDimensionHolds ==
    ASSUME NEW question, SoundQuestion(question), NEW cube, SoundCube(cube), CrossDimensionChange(question, cube) # NoResult
    PROVE  LET part == CrossDimensionChange(question, cube)[1]
           IN Tells(cube, part, "cross_dimension_change") /\ ChangeRight(question, part)
<1> DEFINE series == Named(SeriesNames(cube), question)
           category == Named(CategoryNames(cube), question)[1]
           order == ComparisonOrder(question, series)
           pair == AcrossSeries(question, cube, order)
           part == CrossDimensionChange(question, cube)[1]
<1>1. OneCategory(question, cube) /\ pair # <<>> /\ CrossDimensionChange(question, cube) = Change("cross_dimension_change", pair[1], pair[2])
  BY DEF CrossDimensionChange, Comparable
<1>2. pair = PointPair(PointRows(cube, order[1], category), PointRows(cube, order[2], category))
  BY DEF AcrossSeries
<1>3. series \in Seq(ToSet(question.mentions)) /\ Len(series) >= 2
  BY <1>1, NamesHold DEF OneCategory
<1> HIDE DEF series, category
<1>4. Directed(question, order[1], order[2])
  BY <1>3, OrderHolds
<1> HIDE DEF order, pair
<1>5. /\ pair[1] \in RowsOf(cube) /\ pair[2] \in RowsOf(cube)
      /\ pair[1].series = order[1] /\ pair[1].cat = category /\ pair[2].series = order[2] /\ pair[2].cat = category
  BY <1>1, <1>2, PairHolds
<1>6. /\ Tells(cube, part, "cross_dimension_change") /\ part.facts.start = pair[1] /\ part.facts.end = pair[2]
      /\ pair[2].y = pair[1].y + part.facts.absolute
  BY <1>1, <1>5, ChangeHolds
<1>7. Directed(question, category, category)
  BY DEF Directed
<1> HIDE DEF part
<1>8. ChangeRight(question, part)
  BY <1>4, <1>5, <1>6, <1>7 DEF ChangeRight
<1> QED
  BY <1>6, <1>8 DEF part

\* Two series in one category.
LEMMA ComparisonsHold ==
    ASSUME NEW question, SoundQuestion(question), NEW cube, SoundCube(cube), SeriesComparison(question, cube) # NoResult
    PROVE  LET part == SeriesComparison(question, cube)[1]
           IN Tells(cube, part, "series_comparison") /\ ComparisonRight(part)
<1> DEFINE series == Named(SeriesNames(cube), question)
           category == Named(CategoryNames(cube), question)[1]
           order == OrderedMentions(question, series)
           pair == AcrossSeries(question, cube, order)
           high == IF pair[2].y > pair[1].y THEN pair[2] ELSE pair[1]
           low == IF pair[2].y > pair[1].y THEN pair[1] ELSE pair[2]
           facts == [high |-> high, difference |-> high.y - low.y]
           part == SeriesComparison(question, cube)[1]
<1>1. pair # <<>> /\ SeriesComparison(question, cube) = TwoPoints("series_comparison", pair[1], pair[2], facts)
  BY DEF SeriesComparison, Comparable, Compared
<1>2. pair = PointPair(PointRows(cube, order[1], category), PointRows(cube, order[2], category))
  BY DEF AcrossSeries
<1> HIDE DEF order, pair, category
<1>3. pair[1] \in RowsOf(cube) /\ pair[2] \in RowsOf(cube)
  BY <1>1, <1>2, PairHolds
<1>4. pair[1].y \in Int /\ pair[2].y \in Int
  BY <1>3, EveryRowHolds DEF SoundRows
<1>5. facts.high = high /\ facts.difference = high.y - low.y
  OBVIOUS
<1> HIDE DEF facts
<1>6. Tells(cube, part, "series_comparison") /\ part.rows = <<pair[1], pair[2]>> /\ part.facts = facts
  BY <1>1, <1>3, TwoPointsHold
<1> HIDE DEF part
<1>7. ToSet(part.rows) = {pair[1], pair[2]}
  BY <1>6 DEF ToSet
<1>8. part.facts.high = high /\ part.facts.difference = high.y - low.y
  BY <1>5, <1>6
<1>9. high \in {pair[1], pair[2]} /\ high.y - low.y >= 0
      /\ high.y - pair[1].y \in {0, high.y - low.y} /\ high.y - pair[2].y \in {0, high.y - low.y}
  BY <1>4
<1> HIDE DEF high, low
<1>10. ComparisonRight(part)
  BY <1>7, <1>8, <1>9 DEF ComparisonRight
<1> QED
  BY <1>6, <1>10 DEF part

\* The point that is asked for.
LEMMA LookupPointHolds ==
    ASSUME NEW question, SoundQuestion(question), NEW cube, SoundCube(cube), PointLookup(question, cube) # NoResult
    PROVE  LET part == PointLookup(question, cube)[1]
           IN /\ Tells(cube, part, "point_lookup")
              /\ \A r \in ToSet(part.rows) : {r.series, r.cat} \subseteq ToSet(question.mentions)
<1> DEFINE series == Named(SeriesNames(cube), question)
           named == Named(CategoryNames(cube), question)
           found == PointRows(cube, series[1], named[1])
           part == PointLookup(question, cube)[1]
<1>1. /\ Len(series) = 1 /\ Len(named) = 1 /\ found # <<>>
      /\ PointLookup(question, cube) = Calculated("point_lookup", <<found[1]>>, <<{found[1]}>>, [value |-> found[1].y])
  BY DEF PointLookup
<1>2. series[1] \in ToSet(question.mentions) /\ named[1] \in ToSet(question.mentions)
  BY <1>1, NamesHold
<1> HIDE DEF series, named
<1>3. found[1] \in RowsOf(cube) /\ found[1].series = series[1] /\ found[1].cat = named[1]
  BY <1>1, PointRowsHold
<1> HIDE DEF found
<1>4. part.op = "point_lookup" /\ part.rows = <<found[1]>> /\ part.evidence = <<{found[1]}>>
  BY <1>1 DEF Calculated
<1> HIDE DEF part
<1>5. IsList(<<{found[1]}>>) /\ ToSet(<<{found[1]}>>) = {{found[1]}} /\ ToSet(<<found[1]>>) = {found[1]}
  BY DEF IsList, ToSet
<1>6. Tells(cube, part, "point_lookup")
  BY <1>3, <1>4, <1>5 DEF Tells
<1>7. \A r \in ToSet(part.rows) : {r.series, r.cat} \subseteq ToSet(question.mentions)
  BY <1>2, <1>3, <1>4, <1>5
<1> QED
  BY <1>6, <1>7 DEF part

\* The steps of a path.
LEMMA PathsHold ==
    ASSUME NEW question, NEW cube, SoundCube(cube), PathAttribution(question, cube) # NoResult
    PROVE  LET part == PathAttribution(question, cube)[1]
           IN Tells(cube, part, "sequential_path") /\ PathRight(part)
<1> DEFINE group == cube.groups[1]
           rows == GroupRows(group)
           N == Len(rows)
           steps == [i \in 1 .. N - 1 |-> rows[i + 1].y - rows[i].y]
           facts == [net |-> rows[N].y - rows[1].y, steps |-> steps,
                     decline |-> Min(ToSet(steps)), increase |-> Max(ToSet(steps))]
           part == PathAttribution(question, cube)[1]
<1>1. IsOrderedCategorical(cube) /\ PathAttribution(question, cube) = Bundle("sequential_path", rows, facts)
  BY DEF PathAttribution
<1>2. 1 \in DOMAIN cube.groups
  <2>1. Len(cube.groups) = 1
    BY <1>1 DEF IsOrderedCategorical
  <2> QED
    BY <2>1, ListShape DEF SoundCube
<1>3. SoundGroup(group) /\ rows \in Seq(RowsOf(cube)) /\ SoundRows(RowsOf(cube))
  BY <1>2, EveryRowHolds DEF SoundCube
<1>4. N \in Nat /\ N >= 3 /\ \A i \in 1 .. N : rows[i].y \in Int
  <2>1. IsList(group.points) /\ Len(group.points) >= 3 /\ IsList(rows) /\ DOMAIN rows = DOMAIN group.points
    BY <1>1, <1>3, GroupRowsHold DEF IsOrderedCategorical, SoundGroup
  <2> HIDE DEF rows, group
  <2>2. N \in Nat /\ DOMAIN rows = 1 .. N /\ Len(group.points) \in Nat /\ DOMAIN rows = 1 .. Len(group.points)
    BY <2>1, ListShape
  <2>3. N >= 3
    <3>1. 3 \in DOMAIN rows
      BY <2>1, <2>2
    <3> QED
      BY <2>2, <3>1
  <2>4. \A i \in 1 .. N : rows[i] \in RowsOf(cube)
    BY <1>3, <2>2
  <2> QED
    BY <1>3, <2>2, <2>3, <2>4 DEF SoundRows
<1> HIDE DEF rows, group, N
<1> DEFINE value == [i \in 1 .. N |-> rows[i].y]
<1>5. \A i \in 1 .. N : value[i] = rows[i].y /\ value[i] \in Int
  BY <1>4
<1>6. steps = [i \in 1 .. N - 1 |-> value[i + 1] - value[i]] /\ 1 \in 1 .. N /\ N \in 1 .. N /\ N \in Nat \ {0}
  <2>1. \A i \in 1 .. N - 1 : i \in 1 .. N /\ i + 1 \in 1 .. N
    BY <1>4
  <2> QED
    BY <1>4, <2>1
<1> HIDE DEF value
<1>7. steps \in Seq(Int) /\ Len(steps) = N - 1 /\ ListTotal(steps) = rows[N].y - rows[1].y
  <2>1. steps \in Seq(Int) /\ ListTotal(steps) = value[N] - value[1]
    BY <1>5, <1>6, StepsTotal
  <2>2. Len(steps) = N - 1
    BY <1>4
  <2> QED
    BY <1>5, <1>6, <2>1, <2>2
<1> HIDE DEF steps
<1>8. facts.net = rows[N].y - rows[1].y /\ facts.steps = steps /\ facts.decline = Min(ToSet(steps)) /\ facts.increase = Max(ToSet(steps))
  OBVIOUS
<1> HIDE DEF facts
<1>9. Tells(cube, part, "sequential_path") /\ part.facts = facts
  BY <1>1, <1>3, BundleHolds
<1> HIDE DEF part
<1>10. steps # <<>>
  BY <1>4, <1>7
<1>11. /\ Min(ToSet(steps)) \in ToSet(steps) /\ Max(ToSet(steps)) \in ToSet(steps)
       /\ \A i \in DOMAIN steps : steps[i] \in Min(ToSet(steps)) .. Max(ToSet(steps))
  <2>1. /\ Min(ToSet(steps)) \in ToSet(steps) /\ \A x \in ToSet(steps) : Min(ToSet(steps)) <= x
        /\ Max(ToSet(steps)) \in ToSet(steps) /\ \A x \in ToSet(steps) : x <= Max(ToSet(steps))
    BY <1>7, <1>10, ListExtremes
  <2>2. ToSet(steps) \subseteq Int /\ \A i \in DOMAIN steps : steps[i] \in ToSet(steps)
    BY <1>7, ToSetHolds DEF ToSet
  <2> QED
    BY <2>1, <2>2
<1>12. PathRight(part)
  BY <1>7, <1>8, <1>9, <1>11 DEF PathRight
<1> QED
  BY <1>9, <1>12 DEF part

\* What a row counts.
Amount(rows) == [r \in rows |-> r.y]

LEMMA SumHolds ==
    ASSUME NEW S, SoundRows(S), NEW rows \in Seq(S)
    PROVE  SumOf(rows) = ListTotal(Mapped(Amount(S), rows)) /\ Amount(S) \in [S -> Int]
<1>1. \A i \in DOMAIN rows : rows[i] \in S
  OBVIOUS
<1>2. Mapped(Amount(S), rows) = [i \in DOMAIN rows |-> rows[i].y]
  BY <1>1 DEF Mapped, Amount
<1>3. Amount(S) \in [S -> Int]
  BY DEF Amount, SoundRows
<1> QED
  BY <1>2, <1>3 DEF SumOf

\* The shares of a whole.
LEMMA SharesHold ==
    ASSUME NEW question, SoundQuestion(question), NEW cube, SoundCube(cube),
           ShareComposition(question, cube) \notin {NoResult, Raises}
    PROVE  LET part == ShareComposition(question, cube)[1]
           IN Tells(cube, part, "share_composition") /\ ShareRight(part)
<1> DEFINE rows == GroupRows(cube.groups[1])
           segments == ByCategory(rows)
           named == Named(CategoryNames(cube), question)
           places == {i \in DOMAIN segments : segments[i].cat = named[1]}
           selected == KeepAt(segments, places)
           complement == Len(named) = 1 /\ Cue(question, "complement")
           rest == IF complement THEN <<[of |-> named[1], rest |-> SumOf(segments) - selected[1].y]>> ELSE <<>>
           facts == [total |-> SumOf(segments), segments |-> segments, complement |-> rest]
           part == ShareComposition(question, cube)[1]
<1>1. /\ IsShare(cube)
      /\ complement => selected # <<>>
      /\ ShareComposition(question, cube) = Bundle("share_composition", rows, facts)
  <2>1. ShareComposition(question, cube) =
          IF ~IsShare(cube) \/ ~(Cue(question, "share") \/ named # <<>>) THEN NoResult
          ELSE IF complement /\ selected = <<>> THEN Raises ELSE Bundle("share_composition", rows, facts)
    BY Zenon DEF ShareComposition
  <2> HIDE DEF complement, selected, rows, facts, named
  <2> QED
    BY <2>1
<1>2. 1 \in DOMAIN cube.groups
  <2>1. DOMAIN cube.groups = 1 .. Len(cube.groups) /\ Len(cube.groups) \in Nat
    BY ListShape DEF SoundCube
  <2>2. CASE \E g \in DOMAIN cube.groups : cube.groups[g].family = "share"
    BY <2>1, <2>2
  <2>3. CASE Len(cube.groups) = 1
    BY <2>1, <2>3
  <2> QED
    BY <1>1, <2>2, <2>3 DEF IsShare
<1>3. rows \in Seq(RowsOf(cube)) /\ IsList(rows) /\ SoundRows(RowsOf(cube))
  BY <1>2, EveryRowHolds, ListOf DEF SoundCube
<1> HIDE DEF rows
<1>4. /\ IsList(segments) /\ ToSet(segments) \subseteq ToSet(rows)
      /\ {b.cat : b \in ToSet(segments)} = {r.cat : r \in ToSet(rows)}
      /\ \A i, j \in DOMAIN segments : segments[i].cat = segments[j].cat => i = j
  BY <1>3, ByCategoryHolds
<1> HIDE DEF segments, named
<1>5. segments \in Seq(RowsOf(cube))
  <2>1. ToSet(rows) \subseteq RowsOf(cube)
    BY <1>3, ToSetHolds
  <2>2. segments \in Seq(ToSet(segments))
    BY <1>4 DEF IsList, ToSet
  <2> QED
    BY <1>4, <2>1, <2>2
<1>6. ASSUME selected # <<>>
      PROVE  LET others == {i \in DOMAIN segments : segments[i].cat # named[1]}
             IN others # DOMAIN segments /\ SumOf(segments) - selected[1].y = SumOf(KeepAt(segments, others))
  <2> DEFINE others == {i \in DOMAIN segments : segments[i].cat # named[1]}
             left == KeepAt(segments, others)
             R == RowsOf(cube)
             amount == Amount(R)
  <2>1. PICK at : KeptFrom(at, selected, segments, places)
    BY <1>5, KeepAtOrder
  <2>2. selected \in Seq(R) /\ left \in Seq(R)
    BY <1>5, KeptHolds
  <2>3. places \subseteq DOMAIN segments /\ \A i, j \in places : i = j
    BY <1>4
  <2>4. \A i \in DOMAIN segments : i \in others <=> i \notin places
    OBVIOUS
  <2>5. DOMAIN segments = 1 .. Len(segments) /\ Len(segments) \in Nat
    BY <1>4, ListShape
  <2> HIDE DEF places, others, selected, left, R, amount
  <2>6. Len(selected) = 1 /\ selected[1] \in R /\ DOMAIN selected = {1}
    <3>1. 1 \in DOMAIN selected /\ selected[1] \in R /\ DOMAIN selected = 1 .. Len(selected) /\ Len(selected) \in Nat
      BY <1>6, <2>2, FirstHolds
    <3>2. ASSUME 2 \in DOMAIN selected PROVE FALSE
      <4>1. at[1] \in places /\ at[2] \in places /\ (1 < 2 => at[1] < at[2])
        BY <2>1, <3>1, <3>2 DEF KeptFrom
      <4>2. at[1] = at[2] /\ at[1] \in Int
        BY <2>3, <2>5, <4>1
      <4> QED
        BY <4>1, <4>2
    <3>3. Len(selected) = 1
      BY <3>1, <3>2
    <3> QED
      BY <3>1, <3>3
  <2>7. others # DOMAIN segments
    <3>1. at[1] \in places
      BY <2>1, <2>6 DEF KeptFrom
    <3> QED
      BY <2>3, <2>4, <3>1
  <2>8. /\ amount \in [R -> Int] /\ SumOf(segments) = ListTotal(Mapped(amount, segments))
        /\ SumOf(left) = ListTotal(Mapped(amount, left))
    BY <1>3, <1>5, <2>2, SumHolds DEF R, amount
  <2>9. ListTotal(Mapped(amount, selected)) + ListTotal(Mapped(amount, left)) = ListTotal(Mapped(amount, segments))
    BY <1>5, <2>4, <2>8, TotalParts DEF R, selected, left
  <2>10. ListTotal(Mapped(amount, selected)) = selected[1].y /\ selected[1].y \in Int
    <3>1. Mapped(amount, selected) = <<selected[1].y>>
      <4>1. amount[selected[1]] = selected[1].y
        BY <2>6 DEF amount, Amount
      <4> QED
        BY <2>6, <4>1 DEF Mapped
    <3>2. selected[1].y \in Int
      BY <1>3, <2>6 DEF SoundRows, R
    <3>3. Mapped(amount, <<>>) = <<>>
      BY DEF Mapped
    <3>4. ListTotal(<<>>) = 0
      <4>1. <<>> \in Seq(Int) /\ Len(<<>>) = 0
        OBVIOUS
      <4>2. \E sum : Sums(sum, <<>>, Int) /\ ListTotal(<<>>) = sum[Len(<<>>)]
        BY <4>1, TotalSteps
      <4> QED
        BY <4>1, <4>2 DEF Sums
    <3>5. ListTotal(<<selected[1].y>>) = ListTotal(<<>>) + <<selected[1].y>>[Len(<<selected[1].y>>)]
      <4>1. <<>> \in Seq(Int) /\ <<selected[1].y>> \in Seq(Int) /\ Len(<<selected[1].y>>) = Len(<<>>) + 1
            /\ \A i \in 1 .. Len(<<>>) : <<selected[1].y>>[i] = <<>>[i]
        BY <3>2
      <4> QED
        BY <4>1, TotalGrows
    <3>6. <<selected[1].y>>[Len(<<selected[1].y>>)] = selected[1].y
      OBVIOUS
    <3> QED
      BY <3>1, <3>2, <3>4, <3>5, <3>6
  <2>11. ListTotal(Mapped(amount, left)) \in Int
    <3>1. Mapped(amount, left) \in Seq(Int) /\ selected[1] \in R
      BY <2>2, <2>6, <2>8, TotalAppend
    <3>2. ListTotal(Mapped(amount, left)) \in Int
      BY <2>2, <2>6, <2>8, TotalAppend
    <3> QED
      BY <3>2
  <2>12. SumOf(segments) - selected[1].y = SumOf(left)
    BY <2>8, <2>9, <2>10, <2>11
  <2> QED
    BY <2>7, <2>12 DEF left, others
<1> HIDE DEF selected
<1>7. /\ facts.segments = segments
      /\ facts.complement # <<>> => /\ selected # <<>> /\ facts.complement[1].of = named[1]
                                    /\ facts.complement[1].rest = SumOf(segments) - selected[1].y
  <2>1. facts.segments = segments /\ facts.complement = rest
    OBVIOUS
  <2> HIDE DEF facts
  <2>2. ASSUME rest # <<>> PROVE complement /\ rest = <<[of |-> named[1], rest |-> SumOf(segments) - selected[1].y]>>
    BY <2>2
  <2>3. ASSUME rest # <<>> PROVE selected # <<>> /\ rest[1].of = named[1] /\ rest[1].rest = SumOf(segments) - selected[1].y
    <3> HIDE DEF complement, rest
    <3> QED
      BY <1>1, <2>2, <2>3
  <2> HIDE DEF rest
  <2> QED
    BY <2>1, <2>3
<1> HIDE DEF facts
<1>8. Tells(cube, part, "share_composition") /\ part.facts = facts /\ part.rows = rows
  BY <1>1, <1>3, BundleHolds
<1> HIDE DEF part
<1>9. ShareRight(part)
  <2>1. \A i, j \in DOMAIN part.facts.segments : part.facts.segments[i].cat = part.facts.segments[j].cat => i = j
    BY <1>4, <1>7, <1>8
  <2>2. {s.cat : s \in ToSet(part.facts.segments)} = {r.cat : r \in ToSet(part.rows)}
    BY <1>4, <1>7, <1>8
  <2>3. ASSUME part.facts.complement # <<>>
        PROVE  LET others == {i \in DOMAIN part.facts.segments : part.facts.segments[i].cat # part.facts.complement[1].of}
               IN /\ others # DOMAIN part.facts.segments
                  /\ part.facts.complement[1].rest = SumOf(KeepAt(part.facts.segments, others))
    <3>1. /\ selected # <<>> /\ part.facts.complement[1].of = named[1] /\ part.facts.segments = segments
          /\ part.facts.complement[1].rest = SumOf(segments) - selected[1].y
      BY <1>7, <1>8, <2>3
    <3> QED
      BY <1>6, <3>1
  <2> QED
    BY <2>1, <2>2, <2>3, Zenon DEF ShareRight
<1> QED
  BY <1>8, <1>9 DEF part

\* Where one category is named at most, no two are in the wrong order.
LEMMA OneNamed ==
    ASSUME NEW question, SoundQuestion(question), NEW cube, SoundCube(cube), NEW a \in RowsOf(cube), NEW b \in RowsOf(cube),
           ~(Len(Named(CategoryNames(cube), question)) >= 2)
    PROVE  Directed(question, a.cat, b.cat)
<1> DEFINE named == Named(CategoryNames(cube), question)
<1>1. /\ named \in Seq(ToSet(question.mentions))
      /\ ToSet(named) = {r.cat : r \in RowsOf(cube)} \cap ToSet(question.mentions)
  BY NamesHold
<1> HIDE DEF named
<1>2. ASSUME {a.cat, b.cat} \subseteq ToSet(question.mentions), a.cat # b.cat PROVE FALSE
  <2>1. a.cat \in ToSet(named) /\ b.cat \in ToSet(named)
    BY <1>1, <1>2
  <2>2. PICK i \in DOMAIN named : named[i] = a.cat
    BY <2>1 DEF ToSet
  <2>3. PICK j \in DOMAIN named : named[j] = b.cat
    BY <2>1 DEF ToSet
  <2>4. i # j
    BY <1>2, <2>2, <2>3
  <2>5. Len(named) >= 2
    BY <1>1, <2>4
  <2> QED
    BY <2>5 DEF named
<1> QED
  BY <1>2 DEF Directed

\* The latest year that is asked for.
LEMMA AskedHold ==
    ASSUME NEW question, SoundQuestion(question), NEW cube, NEW years, years \subseteq Nat,
           TargetYear(question, cube, years) \in years, NEW label \in ToSet(question.mentions)
    PROVE  Year[label] <= TargetYear(question, cube, years)
<1> DEFINE mentions == question.mentions
           asked == {Year[l] : l \in ToSet(mentions)} \ {0}
           target == TargetYear(question, cube, years)
           all == [i \in DOMAIN mentions |-> Year[mentions[i]]]
<1>1. IsList(mentions) /\ \A l \in ToSet(mentions) : Year[l] \in Nat
  BY ChartAssumption DEF SoundQuestion
<1>2. asked # {} => target = Max(asked)
  BY Zenon DEF TargetYear
<1>3. target \in Nat
  OBVIOUS
<1> HIDE DEF target
<1>4. label \in ToSet(mentions)
  OBVIOUS
<1> HIDE DEF mentions
<1>5. \A i \in DOMAIN mentions : mentions[i] \in ToSet(mentions) /\ all[i] = Year[mentions[i]] /\ all[i] \in Nat
  <2>1. ASSUME NEW i \in DOMAIN mentions PROVE mentions[i] \in ToSet(mentions)
    BY DEF ToSet
  <2> QED
    BY <1>1, <2>1
<1>6. all \in Seq(Int) /\ ToSet(all) = {Year[l] : l \in ToSet(mentions)}
  <2>1. all = [i \in DOMAIN mentions |-> all[i]]
    OBVIOUS
  <2> HIDE DEF all
  <2>2. IsList(all) /\ DOMAIN all = DOMAIN mentions
    BY <1>1, <2>1, ColumnList
  <2>3. all \in Seq(ToSet(all))
    BY <2>2 DEF IsList, ToSet
  <2>4. ToSet(mentions) = {mentions[i] : i \in DOMAIN mentions} /\ ToSet(all) = {all[i] : i \in DOMAIN mentions}
    BY <2>2 DEF ToSet
  <2>5. ToSet(all) = {Year[l] : l \in ToSet(mentions)}
    BY <1>5, <2>4
  <2>6. ToSet(all) \subseteq Int
    BY <1>5, <2>4
  <2> QED
    BY <2>3, <2>5, <2>6
<1> HIDE DEF all
<1>7. CASE asked = {}
  <2>1. Year[label] = 0
    BY <1>4, <1>7
  <2> QED
    BY <1>3, <2>1 DEF target
<1>8. CASE asked # {}
  <2> DEFINE bound == Max(ToSet(all))
  <2>1. ToSet(all) # {} /\ asked \subseteq ToSet(all) /\ ToSet(all) \subseteq Nat
    BY <1>1, <1>6, <1>8
  <2>2. all # <<>>
    BY <1>6, <2>1, ToSetHolds
  <2>3. bound \in Nat /\ \A x \in ToSet(all) : x <= bound
    BY <1>6, <2>1, <2>2, ListExtremes
  <2> HIDE DEF bound, asked
  <2>4. \A x \in asked : x <= Max(asked)
    <3>1. asked \subseteq Nat /\ \A x \in asked : x <= bound
      BY <2>1, <2>3
    <3> QED
      BY <1>8, <2>3, <3>1, BoundedMax
  <2>5. Year[label] = 0 \/ Year[label] \in asked
    BY <1>4 DEF asked
  <2>6. Year[label] <= target
    BY <1>2, <1>3, <1>8, <2>4, <2>5
  <2> QED
    BY <2>6 DEF target
<1> QED
  BY <1>7, <1>8

\* A year and the one before it, of rows of one series.
LEMMA YearOverYearHolds ==
    ASSUME NEW question, SoundQuestion(question), NEW cube, NEW rows, IsList(rows), SoundRows(ToSet(rows)),
           YearOverYearPair(question, cube, rows) # <<>>
    PROVE  LET pair == YearOverYearPair(question, cube, rows)
           IN /\ pair[1] \in ToSet(rows) /\ pair[2] \in ToSet(rows)
              /\ Year[pair[2].cat] = Year[pair[1].cat] + 1
              /\ \A label \in ToSet(question.mentions) : Year[label] <= Year[pair[2].cat]
<1> DEFINE years == {Year[rows[i].cat] : i \in DOMAIN rows} \ {0}
           target == TargetYear(question, cube, years)
           Of(year) == {i \in DOMAIN rows : Year[rows[i].cat] = year}
           PointOf(year) == rows[Max(Of(year))]
           pair == YearOverYearPair(question, cube, rows)
<1>1. {target - 1, target} \subseteq years /\ pair = <<PointOf(target - 1), PointOf(target)>>
  BY Zenon DEF YearOverYearPair
<1>2. years \subseteq Nat
  BY ChartAssumption DEF SoundRows, ToSet
<1>3. target - 1 \in years /\ target \in years
  BY <1>1
<1>4. ASSUME NEW year \in years PROVE PointOf(year) \in ToSet(rows) /\ Year[PointOf(year).cat] = year
  <2>1. Of(year) # {} /\ Of(year) \in SUBSET DOMAIN rows
    BY <1>4
  <2>2. Max(Of(year)) \in Of(year)
    <3> HIDE DEF Of
    <3> QED
      BY <2>1, LastPlace
  <2> QED
    BY <2>2 DEF ToSet
<1> HIDE DEF years
<1>5. \A label \in ToSet(question.mentions) : Year[label] <= target
  BY <1>2, <1>3, AskedHold
<1> HIDE DEF target, PointOf, pair
<1>6. pair[1] = PointOf(target - 1) /\ pair[2] = PointOf(target)
  BY <1>1
<1>7. /\ pair[1] \in ToSet(rows) /\ pair[2] \in ToSet(rows)
      /\ Year[pair[1].cat] = target - 1 /\ Year[pair[2].cat] = target
  BY <1>3, <1>4, <1>6
<1>8. target \in Nat
  BY <1>2, <1>3
<1>9. Year[pair[2].cat] = Year[pair[1].cat] + 1
  BY <1>7, <1>8
<1> QED
  BY <1>5, <1>7, <1>9 DEF pair

\* One series over time.
LEMMA PeriodsHold ==
    ASSUME NEW question, SoundQuestion(question), NEW cube, SoundCube(cube), PeriodChange(question, cube) # NoResult
    PROVE  LET part == PeriodChange(question, cube)[1]
           IN Tells(cube, part, "period_change") /\ ChangeRight(question, part) /\ PeriodRight(question, cube, part)
<1> DEFINE series == Named(SeriesNames(cube), question)
           named == Named(CategoryNames(cube), question)
           name == series[1]
           rows == SeriesRows(cube, name)
           order == ComparisonOrder(question, named)
           points == PointPair(PointRows(cube, name, order[1]), PointRows(cube, name, order[2]))
           yearly == YearOverYearPair(question, cube, rows)
           pair == IF Len(named) >= 2 THEN points ELSE IF Cue(question, "yoy") THEN yearly
                   ELSE IF Len(rows) >= 2 THEN <<rows[Len(rows) - 1], rows[Len(rows)]>> ELSE <<>>
           part == PeriodChange(question, cube)[1]
           Right(a, b) == /\ a \in RowsOf(cube) /\ b \in RowsOf(cube) /\ a.series = name /\ b.series = name
                          /\ Directed(question, a.cat, b.cat)
                          /\ IF Len(named) >= 2 THEN {a.cat, b.cat} \subseteq ToSet(question.mentions)
                             ELSE Cue(question, "yoy") =>
                                    /\ Year[b.cat] = Year[a.cat] + 1
                                    /\ \A label \in ToSet(question.mentions) : Year[label] <= Year[b.cat]
<1>1. Len(series) = 1 /\ pair # <<>> /\ PeriodChange(question, cube) = Change("period_change", pair[1], pair[2])
  <2>1. PeriodPair(question, cube, name, rows) = pair
    BY Zenon DEF PeriodPair, AcrossPeriods
  <2> HIDE DEF pair
  <2> QED
    BY <2>1, Zenon DEF PeriodChange
<1>2. name \in ToSet(SeriesNames(cube)) /\ name \in ToSet(question.mentions)
  <2>1. /\ series \in Seq(ToSet(question.mentions))
        /\ ToSet(series) = ToSet(SeriesNames(cube)) \cap ToSet(question.mentions)
    BY NamesHold
  <2> HIDE DEF series
  <2>2. series # <<>>
    <3>1. DOMAIN series = 1 .. 1
      BY <1>1, <2>1
    <3> QED
      BY <3>1
  <2> QED
    BY <2>1, <2>2, FirstHolds
<1> HIDE DEF name, series
<1>3. /\ IsList(rows) /\ rows # <<>> /\ rows \in Seq(RowsOf(cube)) /\ ToSet(rows) \subseteq RowsOf(cube)
      /\ \A r \in ToSet(rows) : r.series = name
  BY <1>2, SeriesRowsHold, ToSetHolds
<1>4. named \in Seq(ToSet(question.mentions))
  BY NamesHold
<1> HIDE DEF rows
<1>5. ASSUME Len(named) >= 2 PROVE Right(pair[1], pair[2])
  <2>1. /\ order[1] \in ToSet(named) /\ order[2] \in ToSet(named) /\ Directed(question, order[1], order[2])
    BY <1>4, <1>5, OrderHolds
  <2>2. order[1] \in ToSet(question.mentions) /\ order[2] \in ToSet(question.mentions)
    BY <1>4, <2>1, ToSetHolds
  <2>3. pair = points /\ points # <<>>
    BY <1>1, <1>5
  <2> HIDE DEF order, pair
  <2>4. /\ points[1] \in RowsOf(cube) /\ points[2] \in RowsOf(cube)
        /\ points[1].series = name /\ points[1].cat = order[1] /\ points[2].series = name /\ points[2].cat = order[2]
    BY <2>3, PairHolds
  <2> HIDE DEF points
  <2>5. Right(points[1], points[2])
    BY <1>5, <2>1, <2>2, <2>4
  <2> QED
    BY <2>3, <2>5
<1>6. ASSUME ~(Len(named) >= 2), Cue(question, "yoy") PROVE Right(pair[1], pair[2])
  <2>1. pair = yearly /\ yearly # <<>>
    BY <1>1, <1>6
  <2>2. SoundRows(ToSet(rows))
    BY <1>3, EveryRowHolds DEF SoundRows
  <2> HIDE DEF pair
  <2>3. /\ yearly[1] \in ToSet(rows) /\ yearly[2] \in ToSet(rows)
        /\ Year[yearly[2].cat] = Year[yearly[1].cat] + 1
        /\ \A label \in ToSet(question.mentions) : Year[label] <= Year[yearly[2].cat]
    BY <1>3, <2>1, <2>2, YearOverYearHolds
  <2> HIDE DEF yearly
  <2>4. Directed(question, yearly[1].cat, yearly[2].cat)
    BY <1>3, <1>6, <2>3, OneNamed
  <2> QED
    BY <1>3, <1>6, <2>1, <2>3, <2>4
<1>7. ASSUME ~(Len(named) >= 2), ~Cue(question, "yoy") PROVE Right(pair[1], pair[2])
  <2>1. Len(rows) >= 2 /\ pair = <<rows[Len(rows) - 1], rows[Len(rows)]>>
    BY <1>1, <1>7
  <2> HIDE DEF pair
  <2>2. pair[1] \in ToSet(rows) /\ pair[2] \in ToSet(rows)
    <3>1. Len(rows) - 1 \in DOMAIN rows /\ Len(rows) \in DOMAIN rows /\ pair[1] = rows[Len(rows) - 1] /\ pair[2] = rows[Len(rows)]
      BY <1>3, <2>1
    <3> QED
      BY <3>1 DEF ToSet
  <2>3. Directed(question, pair[1].cat, pair[2].cat)
    BY <1>3, <1>7, <2>2, OneNamed
  <2> QED
    BY <1>3, <1>7, <2>2, <2>3
<1>8. Right(pair[1], pair[2])
  BY <1>5, <1>6, <1>7
<1> HIDE DEF pair
<1>9. /\ Tells(cube, part, "period_change") /\ part.facts.start = pair[1] /\ part.facts.end = pair[2]
      /\ pair[2].y = pair[1].y + part.facts.absolute
  BY <1>1, <1>8, ChangeHolds
<1>10. Directed(question, name, name)
  BY DEF Directed
<1> HIDE DEF part
<1>11. ChangeRight(question, part)
  BY <1>8, <1>9, <1>10 DEF ChangeRight
<1>12. PeriodRight(question, cube, part)
  BY <1>2, <1>8, <1>9 DEF PeriodRight
<1> QED
  BY <1>9, <1>11, <1>12 DEF part

\* Which years are compared.
LEMMA YearOrderHolds ==
    ASSUME NEW question, SoundQuestion(question), NEW temporal, IsList(temporal), Len(temporal) >= 2
    PROVE  LET order == YearOrder(question, temporal)
           IN order[1] \in ToSet(temporal) /\ order[2] \in ToSet(temporal) /\ Directed(question, order[1], order[2])
<1> DEFINE named == Named(temporal, question)
           before == {p \in ToSet(temporal) \X ToSet(temporal) : Year[p[1]] < Year[p[2]]}
           byYear == Sorted(temporal, before)
           order == YearOrder(question, temporal)
<1>1. /\ named \in Seq(ToSet(question.mentions)) /\ ToSet(named) = ToSet(temporal) \cap ToSet(question.mentions)
  BY NamedHolds
<1>2. order = IF Len(named) >= 2 THEN ComparisonOrder(question, named) ELSE <<byYear[Len(byYear) - 1], byYear[Len(byYear)]>>
  BY Zenon DEF YearOrder
<1> HIDE DEF named, before, order
<1>3. CASE Len(named) >= 2
  <2>1. LET o == ComparisonOrder(question, named)
        IN o[1] \in ToSet(named) /\ o[2] \in ToSet(named) /\ Directed(question, o[1], o[2])
    BY <1>1, <1>3, OrderHolds
  <2> QED
    BY <1>1, <1>2, <1>3, <2>1 DEF order
<1>4. CASE ~(Len(named) >= 2)
  <2>1. temporal \in Seq(ToSet(temporal))
    BY DEF IsList, ToSet
  <2>2. byYear \in Seq(ToSet(temporal)) /\ ToSet(byYear) = ToSet(temporal) /\ DOMAIN byYear = DOMAIN temporal
    BY <2>1, SortedHolds, SortedPermutes DEF Permutes
  <2> HIDE DEF byYear
  <2>3. Len(byYear) >= 2
    <3>1. 2 \in DOMAIN temporal
      BY <2>1
    <3> QED
      BY <2>2, <3>1
  <2>4. Len(byYear) - 1 \in DOMAIN byYear /\ Len(byYear) \in DOMAIN byYear
    BY <2>2, <2>3
  <2>5. order[1] = byYear[Len(byYear) - 1] /\ order[2] = byYear[Len(byYear)]
    BY <1>2, <1>4
  <2>6. order[1] \in ToSet(temporal) /\ order[2] \in ToSet(temporal)
    BY <2>2, <2>4, <2>5
  <2>7. ASSUME {order[1], order[2]} \subseteq ToSet(question.mentions), order[1] # order[2] PROVE FALSE
    <3>1. order[1] \in ToSet(named) /\ order[2] \in ToSet(named)
      BY <1>1, <2>6, <2>7
    <3> QED
      BY <1>1, <1>4, <2>7, <3>1, TwoInList
  <2>8. Directed(question, order[1], order[2])
    BY <2>7 DEF Directed
  <2> QED
    BY <2>6, <2>8 DEF order
<1> QED
  BY <1>3, <1>4

\* The members of both years, each with its two rows.
LEMMA SharedPairsHold ==
    ASSUME NEW R, NEW before \in Seq(R), NEW after \in Seq(R),
           \A i, j \in DOMAIN before : before[i].cat = before[j].cat => i = j
    PROVE  LET pairs == SharedPairs(before, after)
           IN /\ IsList(pairs)
              /\ \A i \in DOMAIN pairs : /\ pairs[i] = <<pairs[i][1], pairs[i][2]>>
                                         /\ pairs[i][1] \in ToSet(before) /\ pairs[i][2] \in ToSet(after)
                                         /\ pairs[i][1].cat = pairs[i][2].cat
              /\ {pairs[i][1].cat : i \in DOMAIN pairs} = {r.cat : r \in ToSet(before)} \cap {r.cat : r \in ToSet(after)}
              /\ \A i, j \in DOMAIN pairs : pairs[i][1].cat = pairs[j][1].cat => i = j
<1> DEFINE places == {i \in DOMAIN before : \E k \in DOMAIN after : after[k].cat = before[i].cat}
           shared == KeepAt(before, places)
           Same(i) == CHOOSE k \in DOMAIN after : after[k].cat = shared[i].cat
           pairs == SharedPairs(before, after)
<1>1. pairs = [i \in DOMAIN shared |-> <<shared[i], after[Same(i)]>>]
  BY Zenon DEF SharedPairs
<1>2. places \subseteq DOMAIN before
  OBVIOUS
<1>3. \A i \in places : \E k \in DOMAIN after : after[k].cat = before[i].cat
  OBVIOUS
<1>4. {before[i].cat : i \in places} = {r.cat : r \in ToSet(before)} \cap {r.cat : r \in ToSet(after)}
  BY DEF ToSet
<1> HIDE DEF places
<1>5. shared \in Seq(R) /\ ToSet(shared) = {before[i] : i \in places}
  <2>1. shared \in Seq(R)
    BY KeptHolds
  <2>2. ToSet(shared) = {before[i] : i \in places}
    <3>1. PICK at : KeptFrom(at, shared, before, places)
      BY KeepAtOrder
    <3>2. \A i \in DOMAIN shared : shared[i] = before[at[i]] /\ at[i] \in places
      BY <3>1 DEF KeptFrom
    <3>3. \A k \in places : \E i \in DOMAIN shared : shared[i] = before[k]
      BY <1>2, KeepAtAll
    <3> HIDE DEF shared
    <3> QED
      BY <3>2, <3>3 DEF ToSet
  <2> QED
    BY <2>1, <2>2
<1>6. PICK at : KeptFrom(at, shared, before, places)
  BY KeepAtOrder
<1> HIDE DEF shared
<1>7. ASSUME NEW i \in DOMAIN shared
      PROVE  /\ shared[i] \in ToSet(before) /\ after[Same(i)] \in ToSet(after) /\ after[Same(i)].cat = shared[i].cat
             /\ at[i] \in places /\ shared[i] = before[at[i]]
  <2>1. at[i] \in places /\ shared[i] = before[at[i]]
    BY <1>6 DEF KeptFrom
  <2>2. \E k \in DOMAIN after : after[k].cat = shared[i].cat
    BY <1>3, <2>1
  <2>3. Same(i) \in DOMAIN after /\ after[Same(i)].cat = shared[i].cat
    BY <2>2
  <2> HIDE DEF Same
  <2> QED
    BY <1>2, <2>1, <2>3 DEF ToSet
<1> HIDE DEF Same, pairs
<1>8. DOMAIN pairs = DOMAIN shared /\ \A i \in DOMAIN pairs : pairs[i] = <<shared[i], after[Same(i)]>>
  BY <1>1
<1>9. \A i \in DOMAIN pairs : /\ pairs[i] = <<pairs[i][1], pairs[i][2]>>
                              /\ pairs[i][1] = shared[i] /\ pairs[i][2] = after[Same(i)]
  BY <1>8
<1>10. IsList(pairs)
  <2>1. IsList(shared) /\ pairs = [i \in DOMAIN shared |-> pairs[i]]
    BY <1>1, <1>5, ListOf
  <2> QED
    BY <2>1, ColumnList
<1>11. {pairs[i][1].cat : i \in DOMAIN pairs} = {before[i].cat : i \in places}
  <2>1. {pairs[i][1].cat : i \in DOMAIN pairs} = {r.cat : r \in ToSet(shared)}
    BY <1>8, <1>9 DEF ToSet
  <2>2. {r.cat : r \in {before[i] : i \in places}} = {before[i].cat : i \in places}
    OBVIOUS
  <2> QED
    BY <1>5, <2>1, <2>2
<1>12. ASSUME NEW i \in DOMAIN pairs, NEW j \in DOMAIN pairs, pairs[i][1].cat = pairs[j][1].cat PROVE i = j
  <2>1. at[i] \in DOMAIN before /\ at[j] \in DOMAIN before /\ before[at[i]].cat = before[at[j]].cat
    BY <1>2, <1>7, <1>8, <1>9, <1>12
  <2>2. at[i] = at[j] /\ at[i] \in Int
    BY <2>1
  <2>3. /\ i < j => at[i] < at[j]
        /\ j < i => at[j] < at[i]
    BY <1>6, <1>8 DEF KeptFrom
  <2>4. i \in Int /\ j \in Int
    BY <1>5, <1>8
  <2> QED
    BY <2>2, <2>3, <2>4
<1>13. \A i \in DOMAIN pairs : /\ pairs[i] = <<pairs[i][1], pairs[i][2]>>
                               /\ pairs[i][1] \in ToSet(before) /\ pairs[i][2] \in ToSet(after)
                               /\ pairs[i][1].cat = pairs[i][2].cat
  BY <1>7, <1>8, <1>9
<1>14. \A i, j \in DOMAIN pairs : pairs[i][1].cat = pairs[j][1].cat => i = j
  BY <1>12
<1>15. {pairs[i][1].cat : i \in DOMAIN pairs} = {r.cat : r \in ToSet(before)} \cap {r.cat : r \in ToSet(after)}
  BY <1>4, <1>11
<1> QED
  BY <1>10, <1>13, <1>14, <1>15, Zenon DEF pairs

\* The numbers of pairs, added pair by pair.
LEMMA PairsTotal ==
    ASSUME NEW R, NEW number \in [R -> Int], NEW pairs, IsList(pairs),
           \A i \in DOMAIN pairs : pairs[i] = <<pairs[i][1], pairs[i][2]>> /\ pairs[i][1] \in R /\ pairs[i][2] \in R
    PROVE  /\ pairs \in Seq(Seq(R))
           /\ ListTotal(Mapped(number, FlattenSeq(pairs)))
                = ListTotal([i \in DOMAIN pairs |-> number[pairs[i][1]] + number[pairs[i][2]]])
<1> DEFINE N == Len(pairs)
           sums == [i \in DOMAIN pairs |-> number[pairs[i][1]] + number[pairs[i][2]]]
           Sum(s) == ListTotal(Mapped(number, s))
<1>1. N \in Nat /\ DOMAIN pairs = 1 .. N
  BY ListShape
<1>2. pairs \in Seq(Seq(R))
  <2>1. \A i \in DOMAIN pairs : pairs[i] \in Seq(R)
    <3>1. \A a, b \in R : <<a, b>> \in Seq(R)
      OBVIOUS
    <3>2. \A i \in DOMAIN pairs : <<pairs[i][1], pairs[i][2]>> \in Seq(R)
      BY <3>1, Zenon
    <3> QED
      BY <3>2, Zenon
  <2> QED
    BY <2>1 DEF IsList
<1>3. PICK flat : /\ flat[0] = <<>> /\ FlattenSeq(pairs) = flat[N]
                  /\ \A i \in 1 .. N : flat[i] = flat[i - 1] \o pairs[i]
                  /\ \A i \in 0 .. N : flat[i] \in Seq(R)
  BY <1>2, FlattenSteps
<1>4. sums \in Seq(Int) /\ Len(sums) = N /\ \A i \in 1 .. N : sums[i] = number[pairs[i][1]] + number[pairs[i][2]]
  <2>1. ASSUME NEW i \in 1 .. N PROVE number[pairs[i][1]] + number[pairs[i][2]] \in Int
    BY <1>1
  <2>2. sums = [i \in 1 .. N |-> number[pairs[i][1]] + number[pairs[i][2]]]
    BY <1>1
  <2> HIDE DEF N
  <2> QED
    BY <1>1, <2>1, <2>2
<1> HIDE DEF sums, N
<1>5. PICK total : Sums(total, sums, Int) /\ ListTotal(sums) = total[N]
  BY <1>4, TotalSteps
<1>6. \A s \in Seq(R) : \A x \in R : Sum(s) \in Int /\ Sum(Append(s, x)) = Sum(s) + number[x] /\ Append(s, x) \in Seq(R)
  BY TotalAppend
<1> DEFINE T == {n \in 0 .. N : Sum(flat[n]) = total[n]}
<1>7. 0 \in T
  <2>1. Mapped(number, <<>>) \in Seq(Int) /\ Len(Mapped(number, <<>>)) = 0
    BY DEF Mapped
  <2>2. ListTotal(Mapped(number, <<>>)) = 0
    <3>1. \E sum : Sums(sum, Mapped(number, <<>>), Int) /\ ListTotal(Mapped(number, <<>>)) = sum[Len(Mapped(number, <<>>))]
      BY <2>1, TotalSteps
    <3> QED
      BY <2>1, <3>1 DEF Sums
  <2>3. Sum(flat[0]) = total[0]
    BY <1>3, <1>5, <2>2 DEF Sums
  <2> QED
    BY <1>1, <2>3
<1> HIDE DEF Sum
<1>8. ASSUME NEW n \in 1 .. N, n - 1 \in T PROVE n \in T
  <2> DEFINE s == flat[n - 1]
             a == pairs[n][1]
             b == pairs[n][2]
  <2>1. /\ n \in 0 .. N /\ n \in DOMAIN pairs /\ s \in Seq(R) /\ a \in R /\ b \in R /\ pairs[n] = <<a, b>>
        /\ number[a] \in Int /\ number[b] \in Int
    <3>1. n \in 0 .. N /\ n - 1 \in 0 .. N /\ n \in DOMAIN pairs
      BY <1>1
    <3>2. s \in Seq(R) /\ a \in R /\ b \in R /\ pairs[n] = <<a, b>>
      BY <1>3, <3>1
    <3> QED
      BY <3>1, <3>2
  <2>2. flat[n] = s \o <<a, b>> /\ total[n] = total[n - 1] + (number[a] + number[b]) /\ Sum(s) = total[n - 1]
    <3>1. flat[n] = s \o pairs[n]
      BY <1>3
    <3>2. total[n] = total[n - 1] + sums[n] /\ sums[n] = number[a] + number[b]
      BY <1>4, <1>5 DEF Sums
    <3>3. Sum(s) = total[n - 1]
      BY <1>8
    <3> QED
      BY <2>1, <3>1, <3>2, <3>3
  <2> HIDE DEF s, a, b
  <2>3. s \o <<a, b>> = Append(Append(s, a), b)
    BY <2>1
  <2>4. Sum(Append(s, a)) = Sum(s) + number[a] /\ Append(s, a) \in Seq(R) /\ Sum(s) \in Int
    BY <1>6, <2>1
  <2>5. Sum(Append(Append(s, a), b)) = Sum(Append(s, a)) + number[b]
    BY <1>6, <2>1, <2>4
  <2>6. Sum(flat[n]) = total[n]
    <3>1. Sum(flat[n]) = Sum(Append(s, a)) + number[b]
      BY <2>2, <2>3, <2>5, Zenon
    <3>2. total[n] = Sum(s) + (number[a] + number[b])
      BY <2>2, Zenon
    <3> QED
      BY <2>1, <2>4, <3>1, <3>2
  <2> QED
    BY <2>1, <2>6
<1>9. N \in T
  <2> HIDE DEF T
  <2>1. \A n \in 1 .. N : n - 1 \in T => n \in T
    BY <1>8
  <2>2. \A n \in 0 .. N : n \in T
    BY <1>1, <1>7, <2>1, Induction
  <2> QED
    BY <1>1, <2>2
<1> QED
  BY <1>2, <1>3, <1>5, <1>9 DEF Sum, sums

\* The rises, the greatest first.
LEMMA RisesHold ==
    ASSUME NEW changes, IsList(changes), \A c \in ToSet(changes) : c.y \in Int
    PROVE  LET rises == Rises(changes)
           IN /\ rises \in Seq(ToSet(changes)) /\ ToSet(rises) = {c \in ToSet(changes) : c.y > 0}
              /\ \A i, j \in DOMAIN rises : i < j => rises[j].y <= rises[i].y
<1> DEFINE C == ToSet(changes)
           places == {i \in DOMAIN changes : changes[i].y > 0}
           positive == KeepAt(changes, places)
           before == {p \in ToSet(positive) \X ToSet(positive) : p[1].y > p[2].y}
           fall == [c \in C |-> -c.y]
           rises == Sorted(positive, before)
<1>1. /\ positive \in Seq(C) /\ ToSet(positive) = {changes[i] : i \in places}
  <2>1. places \subseteq DOMAIN changes
    OBVIOUS
  <2> HIDE DEF places
  <2> QED
    BY <2>1, PartHolds
<1>2. ToSet(positive) = {c \in C : c.y > 0}
  BY <1>1 DEF ToSet
<1>3. Rises(changes) = rises
  BY Zenon DEF Rises
<1>4. fall \in [C -> Int] /\ \A c \in C : c.y \in Int /\ fall[c] = -c.y
  OBVIOUS
<1> HIDE DEF places, positive, C, fall
<1>5. \A a, b \in ToSet(positive) : <<a, b>> \in before <=> fall[a] < fall[b]
  <2> SUFFICES ASSUME NEW a \in ToSet(positive), NEW b \in ToSet(positive) PROVE <<a, b>> \in before <=> fall[a] < fall[b]
    OBVIOUS
  <2>1. a.y \in Int /\ b.y \in Int /\ fall[a] = -a.y /\ fall[b] = -b.y
    BY <1>2, <1>4
  <2>2. <<a, b>> \in before <=> a.y > b.y
    OBVIOUS
  <2>3. a.y > b.y <=> -a.y < -b.y
    BY <2>1
  <2> QED
    BY <2>1, <2>2, <2>3
<1> HIDE DEF before
<1>6. rises \in Seq(C) /\ ToSet(rises) = ToSet(positive)
  BY <1>1, SortedHolds
<1>7. \A i, j \in DOMAIN rises : i < j => fall[rises[i]] <= fall[rises[j]]
  BY <1>1, <1>4, <1>5, SortedByNumber
<1> HIDE DEF rises
<1>8. ASSUME NEW i \in DOMAIN rises, NEW j \in DOMAIN rises, i < j PROVE rises[j].y <= rises[i].y
  <2>1. rises[i] \in C /\ rises[j] \in C
    BY <1>6
  <2>2. fall[rises[i]] = -rises[i].y /\ fall[rises[j]] = -rises[j].y /\ rises[i].y \in Int /\ rises[j].y \in Int
    BY <1>4, <2>1
  <2> QED
    BY <1>7, <1>8, <2>2
<1> QED
  BY <1>2, <1>3, <1>6, <1>8 DEF C

\* The leading rises are three, or most of the net change, or all of them.
LEMMA LeadingHolds ==
    ASSUME NEW C, NEW rises \in Seq(C), rises # <<>>, NEW net
    PROVE  LET primary == Leading(rises, net)
           IN /\ \E k \in DOMAIN rises : primary \in Seq(C) /\ Len(primary) = k /\ \A i \in 1 .. k : primary[i] = rises[i]
              /\ \/ Len(primary) = 3 \/ 100 * SumOf(primary) >= 80 * net
                 \/ Len(primary) = Len(rises)
<1> DEFINE enough == {k \in DOMAIN rises : k = 3 \/ k = Len(rises) \/ 100 * SumOf(SubSeq(rises, 1, k)) >= 80 * net}
           n == Min(enough)
           primary == SubSeq(rises, 1, n)
<1>1. Len(rises) \in Nat /\ DOMAIN rises = 1 .. Len(rises) /\ Len(rises) \in DOMAIN rises
  OBVIOUS
<1>2. enough \subseteq Nat /\ enough # {} /\ enough \subseteq DOMAIN rises
  BY <1>1
<1>3. Leading(rises, net) = primary
  BY DEF Leading
<1>4. n \in enough
  <2> HIDE DEF enough
  <2> QED
    BY <1>2, FirstOfNumbers
<1> HIDE DEF n
<1>5. n \in DOMAIN rises /\ (n = 3 \/ n = Len(rises) \/ 100 * SumOf(primary) >= 80 * net)
  BY <1>4
<1> HIDE DEF enough
<1>6. primary \in Seq(C) /\ Len(primary) = n /\ \A i \in 1 .. n : primary[i] = rises[i]
  <2>1. 1 \in 1 .. Len(rises) + 1 /\ n \in 0 .. Len(rises) /\ n \in Nat /\ 1 <= n
    BY <1>1, <1>5
  <2> QED
    BY <2>1, SubSeqProperties
<1> HIDE DEF primary
<1> QED
  BY <1>3, <1>5, <1>6

\* No change is greater than one that is called primary.
LEMMA LeadersHold ==
    ASSUME NEW changes, IsList(changes), \A c \in ToSet(changes) : c.y \in Int, Rises(changes) # <<>>, NEW net
    PROVE  LET primary == Leading(Rises(changes), net)
           IN /\ primary # <<>>
              /\ \A c \in ToSet(changes) : \A p \in ToSet(primary) : c.y > p.y => c \in ToSet(primary)
              /\ \/ Len(primary) = 3 \/ 100 * SumOf(primary) >= 80 * net
                 \/ \A c \in ToSet(changes) : c.y > 0 => c \in ToSet(primary)
<1> DEFINE C == ToSet(changes)
           rises == Rises(changes)
           primary == Leading(rises, net)
<1>1. /\ rises \in Seq(C) /\ ToSet(rises) = {c \in C : c.y > 0}
      /\ \A i, j \in DOMAIN rises : i < j => rises[j].y <= rises[i].y
  BY RisesHold
<1>2. \A c \in C : c.y \in Int
  OBVIOUS
<1> HIDE DEF rises, C
<1>3. /\ \E k \in DOMAIN rises : primary \in Seq(C) /\ Len(primary) = k /\ \A i \in 1 .. k : primary[i] = rises[i]
      /\ \/ Len(primary) = 3 \/ 100 * SumOf(primary) >= 80 * net
         \/ Len(primary) = Len(rises)
  <2>1. rises # <<>>
    BY DEF rises
  <2> QED
    BY <1>1, <2>1, LeadingHolds
<1> HIDE DEF primary
<1>4. PICK k \in DOMAIN rises : primary \in Seq(C) /\ Len(primary) = k /\ \A i \in 1 .. k : primary[i] = rises[i]
  BY <1>3
<1>5. k \in Nat /\ k >= 1 /\ k <= Len(rises) /\ DOMAIN rises = 1 .. Len(rises) /\ Len(rises) \in Nat /\ DOMAIN primary = 1 .. k
  BY <1>1, <1>4
<1>6. primary # <<>>
  BY <1>4, <1>5
<1>7. \A j \in 1 .. k : rises[j] \in ToSet(primary)
  BY <1>4, <1>5 DEF ToSet
<1>8. ASSUME NEW c \in C, c.y > 0 PROVE \E j \in DOMAIN rises : rises[j] = c
  <2>1. c \in ToSet(rises)
    BY <1>1, <1>8
  <2> QED
    BY <2>1 DEF ToSet
<1>9. ASSUME NEW c \in C, NEW p \in ToSet(primary), c.y > p.y PROVE c \in ToSet(primary)
  <2>1. PICK i \in 1 .. k : p = rises[i]
    BY <1>4, <1>5 DEF ToSet
  <2>2. i \in DOMAIN rises /\ p \in ToSet(rises)
    BY <1>5, <2>1 DEF ToSet
  <2>3. p \in C /\ p.y > 0 /\ p.y \in Int /\ c.y \in Int /\ c.y > 0
    BY <1>1, <1>2, <1>9, <2>2
  <2>4. PICK j \in DOMAIN rises : rises[j] = c
    BY <1>8, <2>3
  <2>5. j \in 1 .. k
    <3>1. SUFFICES ASSUME j > k PROVE FALSE
      BY <1>5
    <3>2. i < j
      BY <1>5, <3>1
    <3>3. rises[j].y <= rises[i].y
      BY <1>1, <2>2, <3>2
    <3> QED
      BY <1>9, <2>1, <2>3, <2>4, <3>3
  <2> QED
    BY <1>7, <2>4, <2>5
<1>10. ASSUME Len(primary) = Len(rises), NEW c \in C, c.y > 0 PROVE c \in ToSet(primary)
  <2>1. PICK j \in DOMAIN rises : rises[j] = c
    BY <1>8, <1>10
  <2>2. j \in 1 .. k
    BY <1>4, <1>5, <1>10
  <2> QED
    BY <1>7, <2>1, <2>2
<1> QED
  BY <1>3, <1>6, <1>9, <1>10 DEF primary, rises, C

\* The members that both years show, and what they change.
LEMMA MembersHold ==
    ASSUME NEW cube, SoundCube(cube), NEW b \in ToSet(SeriesNames(cube)), NEW t \in ToSet(SeriesNames(cube))
    PROVE  LET pairs == SharedPairs(ByCategory(SeriesRows(cube, b)), ByCategory(SeriesRows(cube, t)))
           IN /\ IsList(pairs)
              /\ \A i \in DOMAIN pairs : /\ pairs[i] = <<pairs[i][1], pairs[i][2]>>
                                         /\ pairs[i][1] \in RowsOf(cube) /\ pairs[i][2] \in RowsOf(cube)
                                         /\ pairs[i][1].series = b /\ pairs[i][2].series = t
                                         /\ b = t => pairs[i][1] = pairs[i][2]
              /\ {pairs[i][1].cat : i \in DOMAIN pairs}
                   = {r.cat : r \in ToSet(SeriesRows(cube, b))} \cap {r.cat : r \in ToSet(SeriesRows(cube, t))}
              /\ \A i, j \in DOMAIN pairs : pairs[i][1].cat = pairs[j][1].cat => i = j
<1> DEFINE R == RowsOf(cube)
           rb == SeriesRows(cube, b)
           rt == SeriesRows(cube, t)
           before == ByCategory(rb)
           after == ByCategory(rt)
           pairs == SharedPairs(before, after)
<1>1. /\ IsList(rb) /\ ToSet(rb) \subseteq R /\ \A r \in ToSet(rb) : r.series = b
      /\ IsList(rt) /\ ToSet(rt) \subseteq R /\ \A r \in ToSet(rt) : r.series = t
  BY SeriesRowsHold, ToSetHolds
<1>2. b = t => before = after
  OBVIOUS
<1> HIDE DEF R, rb, rt
<1>3. /\ IsList(before) /\ ToSet(before) \subseteq ToSet(rb) /\ {r.cat : r \in ToSet(before)} = {r.cat : r \in ToSet(rb)}
      /\ \A i, j \in DOMAIN before : before[i].cat = before[j].cat => i = j
  BY <1>1, ByCategoryHolds
<1>4. /\ IsList(after) /\ ToSet(after) \subseteq ToSet(rt) /\ {r.cat : r \in ToSet(after)} = {r.cat : r \in ToSet(rt)}
      /\ \A i, j \in DOMAIN after : after[i].cat = after[j].cat => i = j
  BY <1>1, ByCategoryHolds
<1> HIDE DEF before, after
<1>5. before \in Seq(R) /\ after \in Seq(R)
  <2>1. before \in Seq(ToSet(before)) /\ after \in Seq(ToSet(after))
    BY <1>3, <1>4 DEF IsList, ToSet
  <2>2. ToSet(before) \subseteq R /\ ToSet(after) \subseteq R
    BY <1>1, <1>3, <1>4
  <2> QED
    BY <2>1, <2>2
<1>6. /\ IsList(pairs)
      /\ \A i \in DOMAIN pairs : /\ pairs[i] = <<pairs[i][1], pairs[i][2]>>
                                 /\ pairs[i][1] \in ToSet(before) /\ pairs[i][2] \in ToSet(after)
                                 /\ pairs[i][1].cat = pairs[i][2].cat
      /\ {pairs[i][1].cat : i \in DOMAIN pairs} = {r.cat : r \in ToSet(before)} \cap {r.cat : r \in ToSet(after)}
      /\ \A i, j \in DOMAIN pairs : pairs[i][1].cat = pairs[j][1].cat => i = j
  BY <1>3, <1>5, SharedPairsHold
<1> HIDE DEF pairs
<1>7. ASSUME NEW i \in DOMAIN pairs
      PROVE  /\ pairs[i] = <<pairs[i][1], pairs[i][2]>>
             /\ pairs[i][1] \in R /\ pairs[i][2] \in R
             /\ pairs[i][1].series = b /\ pairs[i][2].series = t
             /\ b = t => pairs[i][1] = pairs[i][2]
  <2>1. /\ pairs[i] = <<pairs[i][1], pairs[i][2]>>
        /\ pairs[i][1] \in ToSet(before) /\ pairs[i][2] \in ToSet(after) /\ pairs[i][1].cat = pairs[i][2].cat
    BY <1>6
  <2>2. ASSUME b = t PROVE pairs[i][1] = pairs[i][2]
    <3>1. PICK k \in DOMAIN before : pairs[i][1] = before[k]
      BY <2>1 DEF ToSet
    <3>2. PICK l \in DOMAIN before : pairs[i][2] = before[l]
      BY <1>2, <2>1, <2>2 DEF ToSet
    <3>3. k = l
      BY <1>3, <2>1, <3>1, <3>2
    <3> QED
      BY <3>1, <3>2, <3>3
  <2> QED
    BY <1>1, <1>3, <1>4, <2>1, <2>2
<1> QED
  BY <1>3, <1>4, <1>6, <1>7 DEF pairs, before, after, rb, rt, R

\* The change of a group, by its members.
LEMMA GroupChangesHold ==
    ASSUME NEW question, SoundQuestion(question), NEW cube, SoundCube(cube), GroupChangeAttribution(question, cube) # NoResult
    PROVE  LET part == GroupChangeAttribution(question, cube)[1]
           IN Tells(cube, part, "group_change_attribution") /\ AttributionRight(question, cube, part)
<1> DEFINE names == SeriesNames(cube)
           places == {g \in DOMAIN names : Year[names[g]] > 0}
           temporal == KeepAt(names, places)
           order == YearOrder(question, temporal)
           b == order[1]
           t == order[2]
           R == RowsOf(cube)
           pairs == SharedPairs(ByCategory(SeriesRows(cube, b)), ByCategory(SeriesRows(cube, t)))
           rows == FlattenSeq(pairs)
           changes == [i \in DOMAIN pairs |-> [cat |-> pairs[i][1].cat, y |-> pairs[i][2].y - pairs[i][1].y]]
           net == SumOf(changes)
           primary == Leading(Rises(changes), net)
           facts == [baseline |-> b, target |-> t, net |-> net, changes |-> changes, primary |-> primary]
           part == GroupChangeAttribution(question, cube)[1]
           signed == [r \in R |-> IF r.series = t THEN r.y ELSE -r.y]
<1>1. /\ Len(temporal) >= 2 /\ Rises(changes) # <<>>
      /\ GroupChangeAttribution(question, cube) = Bundle("group_change_attribution", rows, facts)
  <2>1. Len(temporal) >= 2 /\ GroupChangeAttribution(question, cube) = Contributions(order, rows, changes)
    BY Zenon DEF GroupChangeAttribution, AttributeChange, Attribution
  <2> HIDE DEF temporal, order, rows, changes
  <2>2. Rises(changes) # <<>> /\ Contributions(order, rows, changes) = Bundle("group_change_attribution", rows, facts)
    BY <2>1, Zenon DEF Contributions
  <2> QED
    BY <2>1, <2>2
<1>2. b \in ToSet(names) /\ t \in ToSet(names) /\ Directed(question, b, t)
  <2>1. IsList(names) /\ places \subseteq DOMAIN names
    BY SeriesNamesHold
  <2> HIDE DEF names, places
  <2>2. temporal \in Seq(ToSet(names))
    BY <2>1, PartHolds
  <2>3. IsList(temporal) /\ ToSet(temporal) \subseteq ToSet(names)
    BY <2>2, ListOf, ToSetHolds
  <2> HIDE DEF temporal
  <2> QED
    BY <1>1, <2>3, YearOrderHolds
<1> HIDE DEF b, t, order, temporal, places
<1>3. /\ IsList(pairs)
      /\ \A i \in DOMAIN pairs : /\ pairs[i] = <<pairs[i][1], pairs[i][2]>>
                                 /\ pairs[i][1] \in R /\ pairs[i][2] \in R
                                 /\ pairs[i][1].series = b /\ pairs[i][2].series = t
                                 /\ b = t => pairs[i][1] = pairs[i][2]
      /\ {pairs[i][1].cat : i \in DOMAIN pairs}
           = {r.cat : r \in ToSet(SeriesRows(cube, b))} \cap {r.cat : r \in ToSet(SeriesRows(cube, t))}
      /\ \A i, j \in DOMAIN pairs : pairs[i][1].cat = pairs[j][1].cat => i = j
  BY <1>2, MembersHold
<1>4. \A r \in R : r.y \in Int
  BY EveryRowHolds DEF SoundRows
<1> HIDE DEF pairs, R, names
<1>5. signed \in [R -> Int] /\ \A r \in R : signed[r] = IF r.series = t THEN r.y ELSE -r.y
  BY <1>4
<1> HIDE DEF signed
<1>6. /\ pairs \in Seq(Seq(R))
      /\ ListTotal(Mapped(signed, rows)) = ListTotal([i \in DOMAIN pairs |-> signed[pairs[i][1]] + signed[pairs[i][2]]])
  BY <1>3, <1>5, PairsTotal
<1>7. rows \in Seq(R) /\ \A i \in DOMAIN rows : rows[i].series \in {b, t}
  <2>1. rows \in Seq(R) /\ ToSet(rows) = UNION {ToSet(pairs[i]) : i \in DOMAIN pairs}
    BY <1>6, FlattenHolds
  <2>2. ASSUME NEW i \in DOMAIN pairs, NEW r \in ToSet(pairs[i]) PROVE r.series \in {b, t}
    <3>1. ToSet(<<pairs[i][1], pairs[i][2]>>) = {pairs[i][1], pairs[i][2]}
      BY DEF ToSet
    <3>2. r \in {pairs[i][1], pairs[i][2]}
      BY <1>3, <2>2, <3>1
    <3> QED
      BY <1>3, <3>2
  <2>3. \A i \in DOMAIN rows : rows[i] \in ToSet(rows)
    BY DEF ToSet
  <2> HIDE DEF rows
  <2> QED
    BY <2>1, <2>2, <2>3
<1> HIDE DEF rows
<1>8. /\ IsList(changes) /\ DOMAIN changes = DOMAIN pairs
      /\ \A i \in DOMAIN pairs : /\ changes[i].cat = pairs[i][1].cat /\ changes[i].y = pairs[i][2].y - pairs[i][1].y
                                 /\ changes[i].y \in Int
  <2>1. changes = [i \in DOMAIN pairs |-> changes[i]]
    OBVIOUS
  <2>2. \A i \in DOMAIN pairs : changes[i].cat = pairs[i][1].cat /\ changes[i].y = pairs[i][2].y - pairs[i][1].y
    OBVIOUS
  <2> HIDE DEF changes
  <2>3. \A i \in DOMAIN pairs : pairs[i][2].y - pairs[i][1].y \in Int
    BY <1>3, <1>4
  <2> QED
    BY <1>3, <2>1, <2>2, <2>3, ColumnList
<1> HIDE DEF changes
<1>9. \A c \in ToSet(changes) : c.y \in Int
  BY <1>8 DEF ToSet
<1>10. b # t
  <2>1. SUFFICES ASSUME b = t PROVE FALSE
    OBVIOUS
  <2>2. /\ Rises(changes) \in Seq(ToSet(changes)) /\ ToSet(Rises(changes)) = {c \in ToSet(changes) : c.y > 0}
    BY <1>8, <1>9, RisesHold
  <2>3. PICK c \in ToSet(changes) : c.y > 0
    BY <1>1, <2>2, ToSetHolds
  <2>4. PICK i \in DOMAIN pairs : c = changes[i]
    BY <1>8 DEF ToSet
  <2>5. pairs[i][1] = pairs[i][2] /\ c.y = pairs[i][2].y - pairs[i][1].y /\ pairs[i][2].y \in Int
    BY <1>3, <1>4, <1>8, <2>1, <2>4
  <2>6. c.y = 0
    BY <2>5
  <2> QED
    BY <2>3, <2>6
<1>11. net = ListTotal(Mapped(signed, rows))
  <2>1. net = ListTotal([i \in DOMAIN pairs |-> changes[i].y])
    BY <1>8 DEF SumOf
  <2>2. ASSUME NEW i \in DOMAIN pairs PROVE changes[i].y = signed[pairs[i][1]] + signed[pairs[i][2]]
    <3>1. /\ signed[pairs[i][1]] = -pairs[i][1].y /\ signed[pairs[i][2]] = pairs[i][2].y
          /\ pairs[i][1].y \in Int /\ pairs[i][2].y \in Int
      BY <1>3, <1>4, <1>5, <1>10
    <3> QED
      BY <1>8, <3>1
  <2>3. [i \in DOMAIN pairs |-> changes[i].y] = [i \in DOMAIN pairs |-> signed[pairs[i][1]] + signed[pairs[i][2]]]
    BY <2>2
  <2> QED
    BY <1>6, <2>1, <2>3
<1>12. /\ primary # <<>>
       /\ \A c \in ToSet(changes) : \A p \in ToSet(primary) : c.y > p.y => c \in ToSet(primary)
       /\ \/ Len(primary) = 3 \/ 100 * SumOf(primary) >= 80 * net
          \/ \A c \in ToSet(changes) : c.y > 0 => c \in ToSet(primary)
  <2> HIDE DEF net
  <2> QED
    BY <1>1, <1>8, <1>9, LeadersHold
<1> HIDE DEF net, primary
<1>13. facts.baseline = b /\ facts.target = t /\ facts.net = net /\ facts.changes = changes /\ facts.primary = primary
  OBVIOUS
<1> HIDE DEF facts
<1>14. Tells(cube, part, "group_change_attribution") /\ part.rows = rows /\ part.facts = facts
  BY <1>1, <1>7, BundleHolds DEF R
<1> HIDE DEF part
<1>15. [i \in DOMAIN part.rows |-> IF part.rows[i].series = part.facts.target THEN part.rows[i].y ELSE -part.rows[i].y]
         = Mapped(signed, rows)
  <2>1. \A i \in DOMAIN rows : signed[rows[i]] = IF rows[i].series = t THEN rows[i].y ELSE -rows[i].y
    BY <1>5, <1>7
  <2> QED
    BY <1>13, <1>14, <2>1 DEF Mapped
<1>16. {c.cat : c \in ToSet(changes)} = {pairs[i][1].cat : i \in DOMAIN pairs}
  BY <1>8 DEF ToSet
<1>17. \A i, j \in DOMAIN changes : changes[i].cat = changes[j].cat => i = j
  BY <1>3, <1>8
<1>18. /\ part.facts.baseline = b /\ part.facts.target = t /\ part.facts.net = net /\ part.facts.changes = changes
       /\ part.facts.primary = primary /\ part.rows = rows
  BY <1>13, <1>14
<1>19. AttributionRight(question, cube, part)
  <2>1. Directed(question, part.facts.baseline, part.facts.target)
    BY <1>2, <1>18
  <2>2. \A i \in DOMAIN part.rows : part.rows[i].series \in {part.facts.baseline, part.facts.target}
    BY <1>7, <1>18
  <2>3. part.facts.net = ListTotal([i \in DOMAIN part.rows |->
          IF part.rows[i].series = part.facts.target THEN part.rows[i].y ELSE -part.rows[i].y])
    BY <1>11, <1>15, <1>18
  <2>4. {c.cat : c \in ToSet(part.facts.changes)}
          = {r.cat : r \in ToSet(SeriesRows(cube, part.facts.baseline))} \cap {r.cat : r \in ToSet(SeriesRows(cube, part.facts.target))}
    BY <1>3, <1>16, <1>18
  <2> HIDE DEF rows
  <2>5. \A i, j \in DOMAIN part.facts.changes : part.facts.changes[i].cat = part.facts.changes[j].cat => i = j
    BY <1>17, <1>18
  <2>6. /\ part.facts.primary # <<>>
        /\ \A c \in ToSet(part.facts.changes) : \A p \in ToSet(part.facts.primary) : c.y > p.y => c \in ToSet(part.facts.primary)
        /\ \/ Len(part.facts.primary) = 3 \/ 100 * SumOf(part.facts.primary) >= 80 * part.facts.net
           \/ \A c \in ToSet(part.facts.changes) : c.y > 0 => c \in ToSet(part.facts.primary)
    BY <1>12, <1>18
  <2> QED
    BY <2>1, <2>2, <2>3, <2>4, <2>5, <2>6, Zenon DEF AttributionRight
<1> QED
  BY <1>14, <1>19 DEF part

\* Whatever operation takes the question, what it says of a chart is right.
LEMMA ChartOperationsHold ==
    ASSUME NEW question, SoundQuestion(question), NEW cube, SoundCube(cube),
           FirstFound(Operations(question, cube)) \notin {NoResult, Raises}
    PROVE  LET part == FirstFound(Operations(question, cube))[1]
           IN PartRight(question, cube, part) /\ IsList(part.evidence)
<1> DEFINE results == Operations(question, cube)
           found == FirstFound(results)
           part == found[1]
           Right(p) == PartRight(question, cube, p) /\ IsList(p.evidence)
<1>1. /\ DOMAIN results = 1 .. 7
      /\ results[1] = GroupChangeAttribution(question, cube) /\ results[2] = CrossDimensionChange(question, cube)
      /\ results[3] = ShareComposition(question, cube) /\ results[4] = PathAttribution(question, cube)
      /\ results[5] = PeriodChange(question, cube) /\ results[6] = SeriesComparison(question, cube)
      /\ results[7] = PointLookup(question, cube)
  BY DEF Operations
<1>2. found \notin {NoResult, Raises}
  OBVIOUS
<1> HIDE DEF results
<1>3. \E i \in 1 .. 7 : found = results[i]
  <2>1. Applying(results) # {} /\ found = results[Min(Applying(results))]
    BY <1>2 DEF FirstFound
  <2>2. Applying(results) \subseteq 1 .. 7
    BY <1>1 DEF Applying
  <2>3. Min(Applying(results)) \in Applying(results)
    <3>1. Applying(results) \subseteq Nat
      BY <2>2
    <3> QED
      BY <2>1, <3>1, FirstOfNumbers
  <2> QED
    BY <2>1, <2>2, <2>3
<1>4. PICK i \in 1 .. 7 : found = results[i]
  BY <1>3
<1> HIDE DEF found
<1>5. ASSUME i = 1 PROVE Right(part)
  <2>1. Tells(cube, part, "group_change_attribution") /\ AttributionRight(question, cube, part)
    BY <1>1, <1>2, <1>4, <1>5, GroupChangesHold
  <2> HIDE DEF part
  <2> QED
    BY <2>1 DEF Tells, PartRight, RowsOf
<1>6. ASSUME i = 2 PROVE Right(part)
  <2>1. Tells(cube, part, "cross_dimension_change") /\ ChangeRight(question, part)
    BY <1>1, <1>2, <1>4, <1>6, CrossDimensionHolds
  <2> HIDE DEF part
  <2> QED
    BY <2>1 DEF Tells, PartRight, RowsOf
<1>7. ASSUME i = 3 PROVE Right(part)
  <2>1. Tells(cube, part, "share_composition") /\ ShareRight(part)
    BY <1>1, <1>2, <1>4, <1>7, SharesHold
  <2> HIDE DEF part
  <2> QED
    BY <2>1 DEF Tells, PartRight, RowsOf
<1>8. ASSUME i = 4 PROVE Right(part)
  <2>1. Tells(cube, part, "sequential_path") /\ PathRight(part)
    BY <1>1, <1>2, <1>4, <1>8, PathsHold
  <2> HIDE DEF part
  <2> QED
    BY <2>1 DEF Tells, PartRight, RowsOf
<1>9. ASSUME i = 5 PROVE Right(part)
  <2>1. Tells(cube, part, "period_change") /\ ChangeRight(question, part) /\ PeriodRight(question, cube, part)
    BY <1>1, <1>2, <1>4, <1>9, PeriodsHold
  <2> HIDE DEF part
  <2> QED
    BY <2>1 DEF Tells, PartRight, RowsOf
<1>10. ASSUME i = 6 PROVE Right(part)
  <2>1. Tells(cube, part, "series_comparison") /\ ComparisonRight(part)
    BY <1>1, <1>2, <1>4, <1>10, ComparisonsHold
  <2> HIDE DEF part
  <2> QED
    BY <2>1 DEF Tells, PartRight, RowsOf
<1>11. ASSUME i = 7 PROVE Right(part)
  <2>1. /\ Tells(cube, part, "point_lookup")
        /\ \A r \in ToSet(part.rows) : {r.series, r.cat} \subseteq ToSet(question.mentions)
    BY <1>1, <1>2, <1>4, <1>11, LookupPointHolds
  <2> HIDE DEF part
  <2> QED
    BY <2>1 DEF Tells, PartRight, RowsOf
<1>12. i \in {1, 2, 3, 4, 5, 6, 7}
  OBVIOUS
<1>13. Right(part)
  BY <1>5, <1>6, <1>7, <1>8, <1>9, <1>10, <1>11, <1>12
<1> QED
  BY <1>13 DEF found, results

\* The charts of a document.
LEMMA ScopesHold ==
    ASSUME NEW elements, SoundElements(elements)
    PROVE  IsList(ChartScopes(elements)) /\ \A cube \in ToSet(ChartScopes(elements)) : SoundCube(cube)
<1>1. /\ IsList(elements)
      /\ \A e \in DOMAIN elements : /\ IsList(elements[e].series)
                                    /\ \A g \in DOMAIN elements[e].series : SoundGroup(elements[e].series[g])
  BY DEF SoundElements
<1>2. ASSUME NEW places, places \subseteq DOMAIN elements PROVE SoundCube(Scope(elements, places))
  <2> DEFINE members == KeepAt(elements, places)
             lists == [i \in DOMAIN members |-> members[i].series]
             cube == Scope(elements, places)
  <2>1. cube.groups = FlattenSeq(lists)
    BY DEF Scope
  <2>2. IsList(members) /\ \A i \in DOMAIN members : \E k \in DOMAIN elements : members[i] = elements[k]
    BY <1>1, KeepAtList
  <2> HIDE DEF members, cube
  <2>3. IsList(lists) /\ DOMAIN lists = DOMAIN members /\ \A i \in DOMAIN members : lists[i] = members[i].series
    <3>1. lists = [i \in DOMAIN members |-> lists[i]] /\ \A i \in DOMAIN members : lists[i] = members[i].series
      OBVIOUS
    <3> HIDE DEF lists
    <3> QED
      BY <2>2, <3>1, ColumnList
  <2> HIDE DEF lists
  <2>4. ASSUME NEW i \in DOMAIN lists PROVE IsList(lists[i]) /\ \A group \in ToSet(lists[i]) : SoundGroup(group)
    <3>1. PICK k \in DOMAIN elements : lists[i] = elements[k].series
      BY <2>2, <2>3
    <3> QED
      BY <1>1, <3>1 DEF ToSet
  <2>5. IsList(FlattenSeq(lists)) /\ ToSet(FlattenSeq(lists)) = UNION {ToSet(lists[i]) : i \in DOMAIN lists}
    BY <2>3, <2>4, FlattenLists
  <2>6. \A group \in ToSet(cube.groups) : SoundGroup(group)
    BY <2>1, <2>4, <2>5
  <2>7. SoundCube(cube)
    BY <2>1, <2>5, <2>6 DEF SoundCube, ToSet
  <2> QED
    BY <2>7 DEF cube
<1> DEFINE same == SameScope(elements)
           Together(e) == {k \in DOMAIN elements : same[<<e, k>>]}
           places == {e \in DOMAIN elements : \A k \in 1 .. e - 1 : ~same[<<k, e>>]}
           all == [e \in DOMAIN elements |-> e]
           first == KeepAt(all, places)
           cubes == ChartScopes(elements)
<1>3. cubes = [i \in DOMAIN first |-> Scope(elements, Together(first[i]))]
  BY Zenon DEF ChartScopes
<1>4. IsList(first)
  <2>1. IsList(all)
    <3>1. all = [e \in DOMAIN elements |-> all[e]]
      OBVIOUS
    <3> HIDE DEF all
    <3> QED
      BY <1>1, <3>1, ColumnList
  <2> HIDE DEF all, places
  <2> QED
    BY <2>1, KeepAtList
<1>5. \A e : Together(e) \subseteq DOMAIN elements
  OBVIOUS
<1> HIDE DEF first, same, Together, cubes
<1>6. IsList(cubes) /\ DOMAIN cubes = DOMAIN first /\ \A i \in DOMAIN first : cubes[i] = Scope(elements, Together(first[i]))
  <2>1. cubes = [i \in DOMAIN first |-> cubes[i]]
    BY <1>3
  <2> QED
    BY <1>3, <1>4, <2>1, ColumnList
<1>7. \A i \in DOMAIN cubes : SoundCube(cubes[i])
  BY <1>2, <1>5, <1>6
<1>8. \A cube \in ToSet(cubes) : SoundCube(cube)
  BY <1>7 DEF ToSet
<1> QED
  BY <1>6, <1>8 DEF cubes

\* What is said of some charts is said of one of them.
SaidOf(question, cubes, part) ==
    IsList(part.evidence) /\ \E cube \in ToSet(cubes) : PartRight(question, cube, part)

LEMMA CandidateHolds ==
    ASSUME NEW question, SoundQuestion(question), NEW cube, SoundCube(cube), NEW alone
    PROVE  LET candidate == Candidate(question, cube, alone)
           IN /\ IsList(candidate)
              /\ \A c \in ToSet(candidate) : PartRight(question, cube, c.result) /\ IsList(c.result.evidence)
<1> DEFINE results == Operations(question, cube)
           found == FirstFound(results)
           one == [score |-> 10 * Relevance(question, cube) + 7 - Min(Applying(results)), result |-> found[1]]
           candidate == Candidate(question, cube, alone)
<1>1. \/ candidate = <<>>
      \/ candidate = <<one>> /\ found \notin {NoResult, Raises}
  BY Zenon DEF Candidate, CandidateAmong
<1>2. one.result = found[1]
  OBVIOUS
<1> HIDE DEF candidate, one
<1>3. ASSUME candidate = <<>> PROVE IsList(candidate) /\ ToSet(candidate) = {}
  BY <1>3 DEF IsList, ToSet
<1>4. ASSUME candidate = <<one>>, found \notin {NoResult, Raises}
      PROVE  /\ IsList(candidate) /\ ToSet(candidate) = {one}
             /\ PartRight(question, cube, one.result) /\ IsList(one.result.evidence)
  <2>1. IsList(<<one>>) /\ ToSet(<<one>>) = {one}
    BY DEF IsList, ToSet
  <2>2. PartRight(question, cube, found[1]) /\ IsList(found[1].evidence)
    BY <1>4, ChartOperationsHold
  <2> QED
    BY <1>2, <1>4, <2>1, <2>2
<1> HIDE DEF found, results
<1> QED
  BY <1>1, <1>3, <1>4 DEF candidate

\* The candidates of some charts, and the first of each kind.
LEMMA CandidatesHold ==
    ASSUME NEW question, SoundQuestion(question), NEW cubes, IsList(cubes), \A cube \in ToSet(cubes) : SoundCube(cube)
    PROVE  LET parts == FirstOfKind(ChartCandidates(question, cubes))
           IN IsList(parts) /\ \A part \in ToSet(parts) : SaidOf(question, cubes, part)
<1> DEFINE alone == (Len(cubes) = 1)
           lists == [i \in DOMAIN cubes |-> Candidate(question, cubes[i], alone)]
           all == FlattenSeq(lists)
           S == ToSet(all)
           before == {p \in ToSet(all) \X ToSet(all) : p[1].score > p[2].score}
           candidates == Sorted(all, before)
           Kind(i) == <<candidates[i].result.op, candidates[i].result.names>>
           places == {i \in DOMAIN candidates : \A k \in 1 .. i - 1 : Kind(k) # Kind(i)}
           fresh == KeepAt(candidates, places)
           parts == FirstOfKind(candidates)
<1>1. IsList(lists) /\ DOMAIN lists = DOMAIN cubes /\ \A i \in DOMAIN cubes : lists[i] = Candidate(question, cubes[i], alone)
  <2>1. lists = [i \in DOMAIN cubes |-> lists[i]] /\ \A i \in DOMAIN cubes : lists[i] = Candidate(question, cubes[i], alone)
    OBVIOUS
  <2> HIDE DEF lists
  <2> QED
    BY <2>1, ColumnList
<1> HIDE DEF lists, alone
<1>2. ASSUME NEW i \in DOMAIN lists
      PROVE  IsList(lists[i]) /\ \A c \in ToSet(lists[i]) : SaidOf(question, cubes, c.result)
  <2>1. cubes[i] \in ToSet(cubes) /\ SoundCube(cubes[i])
    BY <1>1 DEF ToSet
  <2>2. /\ IsList(lists[i])
        /\ \A c \in ToSet(lists[i]) : PartRight(question, cubes[i], c.result) /\ IsList(c.result.evidence)
    BY <1>1, <2>1, CandidateHolds
  <2> QED
    BY <2>1, <2>2 DEF SaidOf
<1>3. IsList(all) /\ ToSet(all) = UNION {ToSet(lists[i]) : i \in DOMAIN lists}
  BY <1>1, <1>2, FlattenLists
<1>4. \A c \in S : SaidOf(question, cubes, c.result)
  BY <1>2, <1>3
<1>5. ChartCandidates(question, cubes) = candidates
  BY Zenon DEF ChartCandidates, RankedCandidates, lists, alone
<1>6. all \in Seq(S)
  BY <1>3 DEF IsList, ToSet
<1> HIDE DEF all, before, S
<1>7. candidates \in Seq(S)
  BY <1>6, SortedHolds
<1>8. parts = [i \in DOMAIN fresh |-> fresh[i].result]
  BY Zenon DEF FirstOfKind
<1> HIDE DEF candidates, places
<1>9. fresh \in Seq(S)
  BY <1>7, KeptHolds
<1> HIDE DEF fresh, parts
<1>10. IsList(parts) /\ DOMAIN parts = DOMAIN fresh
  <2>1. IsList(fresh) /\ parts = [i \in DOMAIN fresh |-> parts[i]]
    BY <1>8, <1>9, ListOf
  <2> QED
    BY <2>1, ColumnList
<1>11. \A i \in DOMAIN parts : SaidOf(question, cubes, parts[i])
  BY <1>4, <1>8, <1>9, <1>10
<1>12. \A part \in ToSet(parts) : SaidOf(question, cubes, part)
  BY <1>11 DEF ToSet
<1> QED
  BY <1>5, <1>10, <1>12 DEF parts

\* What an analysis answers.
LEMMA AnalyzeHolds ==
    ASSUME NEW question \in ChartQuestion, NEW elements \in ChartElement,
           Analyze(question, elements) # Raises
    PROVE  LET told == Analyze(question, elements)
           IN \A part \in ToSet(told.parts) :
                /\ \E cube \in ToSet(ChartScopes(elements)) : PartRight(question, cube, part)
                /\ ToSet(part.evidence) \subseteq ToSet(told.evidence)
<1> DEFINE cubes == ChartScopes(elements)
           ranked == RankedCubes(question, cubes)
           parts == FirstOfKind(ChartCandidates(question, ranked))
           lists == [i \in DOMAIN parts |-> parts[i].evidence]
           told == Analyze(question, elements)
<1>1. SoundQuestion(question) /\ IsList(cubes) /\ \A cube \in ToSet(cubes) : SoundCube(cube)
  BY ChartAssumption, ScopesHold
<1>2. told = Composite(parts)
  BY Zenon DEF Analyze
<1> HIDE DEF cubes
<1>3. IsList(ranked) /\ ToSet(ranked) = ToSet(cubes)
  <2> DEFINE before == {p \in ToSet(cubes) \X ToSet(cubes) :
                          \/ Relevance(question, p[1]) > Relevance(question, p[2])
                          \/ Relevance(question, p[1]) = Relevance(question, p[2]) /\ Size(p[1]) > Size(p[2])}
  <2>1. ranked = Sorted(cubes, before)
    BY DEF RankedCubes
  <2> HIDE DEF before, ranked
  <2>2. cubes \in Seq(ToSet(cubes))
    BY <1>1 DEF IsList, ToSet
  <2>3. ranked \in Seq(ToSet(cubes)) /\ ToSet(ranked) = ToSet(cubes)
    BY <2>1, <2>2, SortedHolds
  <2> QED
    BY <2>3, ListOf
<1> HIDE DEF ranked
<1>4. IsList(parts) /\ \A part \in ToSet(parts) : SaidOf(question, ranked, part)
  BY <1>1, <1>3, CandidatesHold
<1>5. told.parts = parts /\ told.evidence = FlattenSeq(lists)
  BY <1>2 DEF Composite
<1> HIDE DEF parts, told
<1>6. IsList(lists) /\ DOMAIN lists = DOMAIN parts /\ \A i \in DOMAIN parts : lists[i] = parts[i].evidence
  <2>1. lists = [i \in DOMAIN parts |-> lists[i]] /\ \A i \in DOMAIN parts : lists[i] = parts[i].evidence
    OBVIOUS
  <2> HIDE DEF lists
  <2> QED
    BY <1>4, <2>1, ColumnList
<1> HIDE DEF lists
<1>7. \A i \in DOMAIN lists : IsList(lists[i])
  <2>1. \A i \in DOMAIN parts : parts[i] \in ToSet(parts)
    BY DEF ToSet
  <2> QED
    BY <1>4, <1>6, <2>1 DEF SaidOf
<1>8. ToSet(told.evidence) = UNION {ToSet(lists[i]) : i \in DOMAIN lists}
  BY <1>5, <1>6, <1>7, FlattenLists
<1>9. ASSUME NEW part \in ToSet(parts) PROVE ToSet(part.evidence) \subseteq ToSet(told.evidence)
  <2>1. PICK i \in DOMAIN parts : part = parts[i]
    BY DEF ToSet
  <2> QED
    BY <1>6, <1>8, <2>1
<1>10. \A part \in ToSet(parts) : \E cube \in ToSet(cubes) : PartRight(question, cube, part)
  BY <1>3, <1>4 DEF SaidOf
<1> QED
  BY <1>5, <1>9, <1>10 DEF told, cubes

\* What the calculator of charts states is so of one of the charts it was given,
\* whatever the question and the charts are.
THEOREM CalculationsRight == CalculationSpec => []CalculationsAreRight
<1> DEFINE Given == chartInput.question \in ChartQuestion /\ chartInput.elements \in ChartElement
           Inv == Given /\ CalculationsAreRight
<1>1. CalculationInit => Inv
  <2>1. CalculationInit => Given
    BY DEF CalculationInit
  <2>2. CalculationInit => CalculationsAreRight
    BY DEF CalculationInit, CalculationsAreRight
  <2> QED
    BY <2>1, <2>2
<1>2. Inv /\ [Calculate]_calculationVars => Inv'
  <2> SUFFICES ASSUME Inv, [Calculate]_calculationVars PROVE Inv'
    OBVIOUS
  <2>1. CASE Calculate
    <3>1. chartInput' = chartInput /\ calculation' = Analyze(chartInput.question, chartInput.elements)
      BY <2>1 DEF Calculate
    <3>2. CalculationsAreRight'
      <4>1. SUFFICES ASSUME calculation' # Raises
                     PROVE  \A part \in ToSet(calculation'.parts) :
                              /\ \E cube \in ToSet(ChartScopes(chartInput'.elements)) : PartRight(chartInput'.question, cube, part)
                              /\ ToSet(part.evidence) \subseteq ToSet(calculation'.evidence)
        BY DEF CalculationsAreRight
      <4> QED
        BY <3>1, <4>1, AnalyzeHolds
    <3> QED
      BY <3>1, <3>2
  <2>2. CASE UNCHANGED calculationVars
    BY <2>2 DEF calculationVars, CalculationsAreRight
  <2> QED
    BY <2>1, <2>2
<1> QED
  BY <1>1, <1>2, PTL DEF CalculationSpec

-----------------------------------------------------------------------------
(* Reconciliations.                                                        *)

SoundProjection(p) == IsList(p.values) /\ \A i \in DOMAIN p.values : p.values[i].n \in Int

\* Nearness has no direction.
LEMMA CloseEither ==
    ASSUME NEW a \in Int, NEW b \in Int PROVE Close(a, b) <=> Close(b, a)
<1>1. Absolute(a - b) = Absolute(b - a)
  <2>1. a - b \in Int /\ b - a = -(a - b)
    OBVIOUS
  <2>2. \A n \in Int : (IF n < 0 THEN -n ELSE n) = (IF -n < 0 THEN -(-n) ELSE -n)
    OBVIOUS
  <2> QED
    BY <2>1, <2>2 DEF Absolute
<1>2. {Absolute(a), Absolute(b)} = {Absolute(b), Absolute(a)}
  OBVIOUS
<1>3. Max({Absolute(a), Absolute(b)}) = Max({Absolute(b), Absolute(a)})
  BY <1>2, Zenon
<1> QED
  BY <1>1, <1>3 DEF Close

\* A label of a projection has a number, and there are so many labels.
LEMMA LabelsHold ==
    ASSUME NEW p, SoundProjection(p)
    PROVE  IsFiniteSet(Keys(p)) /\ \A label \in Keys(p) : ValueOf(p, label) \in Int
<1> DEFINE N == Len(p.values)
           labels == [i \in 1 .. N |-> p.values[i].label]
<1>1. N \in Nat /\ DOMAIN p.values = 1 .. N /\ \A i \in 1 .. N : p.values[i].n \in Int
  BY ListShape DEF SoundProjection
<1>2. IsFiniteSet(Keys(p))
  <2>1. IsFiniteSet(1 .. N)
    <3>1. 1 \in Int /\ N \in Int
      BY <1>1
    <3> HIDE DEF N
    <3> QED
      BY <3>1, FS_Interval, Zenon
  <2>2. labels \in Surjection(1 .. N, Keys(p))
    BY <1>1 DEF Surjection, Keys
  <2> QED
    BY <2>1, <2>2, FS_Surjection
<1>3. ASSUME NEW label \in Keys(p) PROVE ValueOf(p, label) \in Int
  <2> DEFINE v == CHOOSE w \in ToSet(p.values) : w.label = label
  <2>1. \E w \in ToSet(p.values) : w.label = label
    BY DEF Keys, ToSet
  <2>2. v \in ToSet(p.values)
    BY <2>1
  <2>3. ValueOf(p, label) = v.n
    BY DEF ValueOf
  <2> HIDE DEF v
  <2> QED
    BY <1>1, <2>2, <2>3 DEF ToSet
<1> QED
  BY <1>2, <1>3

\* One source folds into one label what only the other one shows.
Folds(match, narrow, broad) ==
    /\ match.narrow = narrow /\ match.broad = broad /\ match.score \in Int
    /\ match.components = Keys(narrow) \ Keys(broad) /\ Keys(broad) \subseteq Keys(narrow)
    /\ match.target \in Keys(broad) /\ ~Close(ValueOf(narrow, match.target), ValueOf(broad, match.target))
    /\ \A l \in Keys(broad) \ {match.target} : Close(ValueOf(narrow, l), ValueOf(broad, l))
    /\ Close(ValueOf(narrow, match.target) + SumOver(narrow, match.components), ValueOf(broad, match.target))

\* The score of the metrics is a number.
LEMMA ScoreHolds ==
    ASSUME NEW question, NEW left, NEW right PROVE MetricScore(question, left, right) \in Int
<1> DEFINE mentioned == {p \in {left, right} : p.aliases \cap question.mentions # {}}
<1>1. IsFiniteSet({left, right})
  <2>1. IsFiniteSet({left} \cup {right})
    BY FS_Singleton, FS_AddElement
  <2>2. {left} \cup {right} = {left, right}
    OBVIOUS
  <2> QED
    BY <2>1, <2>2
<1>2. Cardinality(mentioned) \in Int
  <2>1. mentioned \in SUBSET {left, right}
    OBVIOUS
  <2> HIDE DEF mentioned
  <2> QED
    BY <1>1, <2>1, FS_Subset, FS_CardinalityType
<1> DEFINE alias == IF left.aliases \cap right.aliases # {} THEN 8
                    ELSE IF (left.aliases \X right.aliases) \cap RelatedNames # {} THEN 5 ELSE 0
<1>3. alias \in Int
  OBVIOUS
<1>4. MetricScore(question, left, right) = alias + 2 * Cardinality(mentioned)
  BY Zenon DEF MetricScore
<1> HIDE DEF alias, mentioned
<1> QED
  BY <1>2, <1>3, <1>4

LEMMA MatchesHold ==
    ASSUME NEW question, NEW narrow, SoundProjection(narrow), NEW broad, SoundProjection(broad)
    PROVE  /\ IsList(Matches(question, narrow, broad))
           /\ \A m \in ToSet(Matches(question, narrow, broad)) : Folds(m, narrow, broad)
<1> DEFINE common == Keys(narrow) \cap Keys(broad)
           components == Keys(narrow) \ Keys(broad)
           stable == {l \in common : Agree(narrow, broad, l)}
           target == CHOOSE l \in common : l \notin stable
           metric == MetricScore(question, narrow, broad)
           score == metric + 2 * Cardinality(stable) + (IF target \in question.mentions THEN 6 ELSE 0) - Cardinality(components)
           one == [narrow |-> narrow, broad |-> broad, target |-> target, components |-> components,
                   stable |-> stable, score |-> score]
           all == Matches(question, narrow, broad)
           Fits == /\ Keys(broad) \ Keys(narrow) = {} /\ Cardinality(common \ stable) = 1
                   /\ Close(ValueOf(narrow, target) + SumOver(narrow, components), ValueOf(broad, target))
<1>1. all = <<>> \/ (all = <<one>> /\ Fits)
  BY Zenon DEF Matches, Match
<1>2. ASSUME all = <<>> PROVE IsList(all) /\ ToSet(all) = {}
  BY <1>2 DEF IsList, ToSet
<1>3. ASSUME all = <<one>>, Fits PROVE IsList(all) /\ ToSet(all) = {one} /\ Folds(one, narrow, broad)
  <2>1. /\ one.narrow = narrow /\ one.broad = broad /\ one.target = target
        /\ one.components = components /\ one.score = score
    OBVIOUS
  <2>2. IsList(<<one>>) /\ ToSet(<<one>>) = {one}
    <3> HIDE DEF one
    <3> QED
      BY DEF IsList, ToSet
  <2>3. IsFiniteSet(common) /\ IsFiniteSet(components) /\ IsFiniteSet(stable) /\ IsFiniteSet(common \ stable)
    <3>1. IsFiniteSet(Keys(narrow))
      BY LabelsHold
    <3>2. /\ common \in SUBSET Keys(narrow) /\ components \in SUBSET Keys(narrow) /\ stable \in SUBSET Keys(narrow)
          /\ common \ stable \in SUBSET Keys(narrow)
      OBVIOUS
    <3> HIDE DEF common, components, stable
    <3> QED
      BY <3>1, <3>2, FS_Subset
  <2>4. score \in Int
    <3>1. metric \in Int /\ Cardinality(stable) \in Int /\ Cardinality(components) \in Int
      BY <2>3, ScoreHolds, FS_CardinalityType
    <3> HIDE DEF metric, stable, components, target
    <3> QED
      BY <3>1
  <2>5. PICK x : common \ stable = {x}
    BY <1>3, <2>3, FS_Singleton
  <2>6. target = x /\ target \in common /\ target \notin stable
    <3>1. \E l \in common : l \notin stable
      BY <2>5
    <3> HIDE DEF common, stable
    <3>2. target \in common /\ target \notin stable
      BY <3>1
    <3> QED
      BY <2>5, <3>2
  <2>7. \A l \in common \ {target} : Agree(narrow, broad, l)
    BY <2>5, <2>6
  <2>8. ~Agree(narrow, broad, target)
    BY <2>6
  <2> HIDE DEF target, stable, score, one, all
  <2>9. Keys(broad) \subseteq Keys(narrow) /\ common = Keys(broad)
    BY <1>3
  <2>10. Folds(one, narrow, broad)
    BY <1>3, <2>1, <2>4, <2>6, <2>7, <2>8, <2>9, Zenon DEF Folds, Agree
  <2> QED
    BY <1>3, <2>2, <2>10
<1> HIDE DEF one, Fits
<1> QED
  BY <1>1, <1>2, <1>3 DEF all

\* Of a column and a chart, either may be the one that folds.
LEMMA BothWaysHold ==
    ASSUME NEW question, NEW table, SoundProjection(table), NEW chart, SoundProjection(chart)
    PROVE  /\ IsList(BothWays(question, table, chart))
           /\ \A m \in ToSet(BothWays(question, table, chart)) : Folds(m, table, chart) \/ Folds(m, chart, table)
<1> DEFINE there == Matches(question, table, chart)
           back == Matches(question, chart, table)
           both == BothWays(question, table, chart)
<1>1. /\ IsList(there) /\ \A m \in ToSet(there) : Folds(m, table, chart)
      /\ IsList(back) /\ \A m \in ToSet(back) : Folds(m, chart, table)
  BY MatchesHold
<1>2. both = there \o back \/ both = <<>>
  BY Zenon DEF BothWays
<1> HIDE DEF there, back, both
<1>3. ASSUME both = <<>> PROVE IsList(both) /\ ToSet(both) = {}
  BY <1>3 DEF IsList, ToSet
<1>4. ASSUME both = there \o back PROVE IsList(both) /\ ToSet(both) = ToSet(there) \cup ToSet(back)
  <2> DEFINE S == ToSet(there) \cup ToSet(back)
  <2>1. there \in Seq(ToSet(there)) /\ back \in Seq(ToSet(back))
    BY <1>1 DEF IsList, ToSet
  <2>2. there \in Seq(S) /\ back \in Seq(S)
    BY <2>1, SeqMonotonic
  <2> HIDE DEF S
  <2>3. both \in Seq(S) /\ ToSet(both) = ToSet(there) \cup ToSet(back)
    BY <1>4, <2>2, JoinHolds
  <2> QED
    BY <2>3, ListOf
<1> QED
  BY <1>1, <1>2, <1>3, <1>4 DEF both

\* Of each label of a member the first number, and nothing else.
LEMMA FirstNumericHolds ==
    ASSUME NEW table, SoundSource(table), NEW c \in DOMAIN table.columns
    PROVE  LET values == FirstNumeric(table, c)
               rows == table.rows
           IN /\ IsList(values) /\ \A v \in ToSet(values) : v.n \in Int
              /\ \A i \in DOMAIN rows : IsMember(rows[i], c) => \E v \in ToSet(values) : v.label = rows[i].label
              /\ \A v \in ToSet(values) : \E i \in DOMAIN rows :
                   /\ IsMember(rows[i], c) /\ rows[i].label = v.label /\ Number(rows[i], c) = v.n
                   /\ \A k \in DOMAIN rows : IsMember(rows[k], c) /\ rows[k].label = v.label => i <= k
<1> DEFINE rows == table.rows
           first == FirstOfLabel(rows, c)
           members == KeepAt(rows, first)
           values == [i \in DOMAIN members |-> Entry(members[i].label, Number(members[i], c))]
<1>1. FirstNumeric(table, c) = values
  BY Zenon DEF FirstNumeric
<1>2. IsList(rows) /\ \A r \in ToSet(rows) : Numeric(r, c) => Number(r, c) \in Int
  BY DEF SoundSource
<1> HIDE DEF rows
<1>3. DOMAIN rows = 1 .. Len(rows) /\ Len(rows) \in Nat
  BY <1>2, ListShape
<1>4. /\ first \subseteq DOMAIN rows
      /\ \A i \in DOMAIN rows : i \in first <=> /\ IsMember(rows[i], c)
                                                /\ \A k \in 1 .. i - 1 : IsMember(rows[k], c) => rows[k].label # rows[i].label
  BY DEF FirstOfLabel
<1> HIDE DEF first
<1>5. IsList(members) /\ ToSet(members) = {rows[i] : i \in first}
  BY <1>2, <1>4, PartHolds, ListOf
<1> HIDE DEF members
<1>6. /\ values = [i \in DOMAIN members |-> values[i]]
      /\ \A i \in DOMAIN members : values[i].label = members[i].label /\ values[i].n = Number(members[i], c)
  BY DEF Entry
<1> HIDE DEF values
<1>7. IsList(values) /\ DOMAIN values = DOMAIN members
  BY <1>5, <1>6, ColumnList
<1>8. ASSUME NEW v \in ToSet(values) PROVE \E i \in first : rows[i].label = v.label /\ Number(rows[i], c) = v.n
  <2>1. PICK m \in DOMAIN members : v = values[m]
    BY <1>7 DEF ToSet
  <2>2. PICK i \in first : members[m] = rows[i]
    BY <1>5, <2>1 DEF ToSet
  <2> QED
    BY <1>6, <2>1, <2>2
<1>9. ASSUME NEW i \in first PROVE \E v \in ToSet(values) : v.label = rows[i].label
  <2>1. PICK m \in DOMAIN members : members[m] = rows[i]
    BY <1>5 DEF ToSet
  <2> QED
    BY <1>6, <1>7, <2>1 DEF ToSet
<1>10. ASSUME NEW i \in DOMAIN rows, IsMember(rows[i], c) PROVE \E k \in first : rows[k].label = rows[i].label
  <2> DEFINE T == {k \in DOMAIN rows : IsMember(rows[k], c) /\ rows[k].label = rows[i].label}
  <2>1. T \subseteq Nat /\ T # {}
    BY <1>3, <1>10
  <2>2. PICK k \in T : \A l \in T : k <= l
    <3> HIDE DEF T
    <3> QED
      BY <2>1, LeastNumber
  <2>3. \A l \in 1 .. k - 1 : IsMember(rows[l], c) => rows[l].label # rows[k].label
    <3> SUFFICES ASSUME NEW l \in 1 .. k - 1, IsMember(rows[l], c), rows[l].label = rows[k].label PROVE FALSE
      OBVIOUS
    <3>1. l \in DOMAIN rows /\ ~(k <= l)
      BY <1>3, <2>2
    <3> QED
      BY <2>2, <3>1
  <2> QED
    BY <1>4, <2>2, <2>3
<1>11. ASSUME NEW v \in ToSet(values)
       PROVE  /\ v.n \in Int
              /\ \E i \in DOMAIN rows :
                   /\ IsMember(rows[i], c) /\ rows[i].label = v.label /\ Number(rows[i], c) = v.n
                   /\ \A k \in DOMAIN rows : IsMember(rows[k], c) /\ rows[k].label = v.label => i <= k
  <2>1. PICK i \in first : rows[i].label = v.label /\ Number(rows[i], c) = v.n
    BY <1>8
  <2>2. i \in DOMAIN rows /\ IsMember(rows[i], c)
    BY <1>4, <2>1
  <2>3. \A k \in DOMAIN rows : IsMember(rows[k], c) /\ rows[k].label = v.label => i <= k
    <3> SUFFICES ASSUME NEW k \in DOMAIN rows, IsMember(rows[k], c), rows[k].label = v.label, ~(i <= k) PROVE FALSE
      OBVIOUS
    <3>1. k \in 1 .. i - 1
      BY <1>3, <2>2
    <3> QED
      BY <1>4, <2>1, <2>2, <3>1
  <2>4. v.n \in Int
    BY <1>2, <2>1, <2>2 DEF IsMember, ToSet
  <2> QED
    BY <2>1, <2>2, <2>3, <2>4
<1>12. ASSUME NEW i \in DOMAIN rows, IsMember(rows[i], c) PROVE \E v \in ToSet(values) : v.label = rows[i].label
  <2>1. PICK k \in first : rows[k].label = rows[i].label
    BY <1>10, <1>12
  <2> QED
    BY <1>9, <2>1
<1> QED
  BY <1>1, <1>7, <1>11, <1>12 DEF rows

\* What a projection has.
LEMMA ProjectionHolds ==
    ASSUME NEW kind, NEW metric, NEW titles, NEW values, NEW units
    PROVE  LET p == Projection(kind, metric, titles, values, units)
           IN p.kind = kind /\ p.metric = metric /\ p.values = values
BY DEF Projection

\* The projections of some tables.
OfTable(tables, p) ==
    /\ SoundProjection(p) /\ p.kind = "table"
    /\ \E t \in ToSet(tables) : \E c \in DOMAIN t.columns : FromColumn(p, t, c)

LEMMA ColumnProjectionHolds ==
    ASSUME NEW table, SoundSource(table), NEW c \in DOMAIN table.columns
    PROVE  LET p == ColumnProjection(table, c) IN SoundProjection(p) /\ p.kind = "table" /\ FromColumn(p, table, c)
<1> DEFINE values == FirstNumeric(table, c)
           rows == table.rows
           p == ColumnProjection(table, c)
<1>1. p.kind = "table" /\ p.metric = table.columns[c].name /\ p.values = values
  BY ProjectionHolds DEF ColumnProjection
<1>2. /\ IsList(values) /\ \A v \in ToSet(values) : v.n \in Int
      /\ \A i \in DOMAIN rows : IsMember(rows[i], c) => \E v \in ToSet(values) : v.label = rows[i].label
      /\ \A v \in ToSet(values) : \E i \in DOMAIN rows :
           /\ IsMember(rows[i], c) /\ rows[i].label = v.label /\ Number(rows[i], c) = v.n
           /\ \A k \in DOMAIN rows : IsMember(rows[k], c) /\ rows[k].label = v.label => i <= k
  BY FirstNumericHolds
<1> HIDE DEF values, p, rows
<1>3. SoundProjection(p)
  BY <1>1, <1>2 DEF SoundProjection, ToSet
<1>4. \A v \in ToSet(values) : v.label \in Keys(p)
  BY <1>1 DEF Keys, ToSet
<1>5. FromColumn(p, table, c)
  <2>1. \A i \in DOMAIN rows : IsMember(rows[i], c) => rows[i].label \in Keys(p)
    BY <1>2, <1>4
  <2> QED
    BY Zenon, <1>1, <1>2, <2>1 DEF FromColumn, rows
<1> QED
  BY <1>1, <1>3, <1>5 DEF p

LEMMA TableProjectionsHold ==
    ASSUME NEW tables, IsList(tables), \A i \in DOMAIN tables : SoundSource(tables[i])
    PROVE  IsList(TableProjections(tables)) /\ \A p \in ToSet(TableProjections(tables)) : OfTable(tables, p)
<1> DEFINE lists == [i \in DOMAIN tables |-> ColumnProjections(tables[i])]
<1>1. ASSUME NEW i \in DOMAIN tables
      PROVE  IsList(ColumnProjections(tables[i])) /\ \A p \in ToSet(ColumnProjections(tables[i])) : OfTable(tables, p)
  <2> DEFINE table == tables[i]
             all == [c \in DOMAIN table.columns |-> ColumnProjection(table, c)]
             wide == {c \in DOMAIN all : c > 1 /\ Len(all[c].values) >= 3}
  <2>1. SoundSource(table) /\ IsList(table.columns) /\ table \in ToSet(tables)
    BY DEF SoundSource, ToSet
  <2> HIDE DEF table
  <2>2. all = [c \in DOMAIN table.columns |-> all[c]] /\ \A c \in DOMAIN table.columns : all[c] = ColumnProjection(table, c)
    OBVIOUS
  <2>3. ColumnProjections(table) = KeepAt(all, wide)
    BY Zenon DEF ColumnProjections
  <2>4. wide \subseteq DOMAIN all
    OBVIOUS
  <2> HIDE DEF all, wide
  <2>5. IsList(all) /\ DOMAIN all = DOMAIN table.columns
    BY <2>1, <2>2, ColumnList
  <2>6. IsList(ColumnProjections(table)) /\ ToSet(ColumnProjections(table)) = {all[c] : c \in wide}
    BY <2>3, <2>4, <2>5, PartHolds, ListOf
  <2>7. ASSUME NEW c \in wide PROVE OfTable(tables, all[c])
    <3>1. c \in DOMAIN table.columns /\ all[c] = ColumnProjection(table, c)
      BY <2>2, <2>4, <2>5
    <3> QED
      BY <2>1, <3>1, ColumnProjectionHolds DEF OfTable
  <2> QED
    BY <2>6, <2>7 DEF table
<1>2. lists = [i \in DOMAIN tables |-> lists[i]] /\ \A i \in DOMAIN tables : lists[i] = ColumnProjections(tables[i])
  OBVIOUS
<1>3. TableProjections(tables) = FlattenSeq(lists)
  BY DEF TableProjections
<1> HIDE DEF lists
<1>4. IsList(lists) /\ DOMAIN lists = DOMAIN tables
  BY <1>2, ColumnList
<1>5. \A i \in DOMAIN lists : IsList(lists[i]) /\ \A p \in ToSet(lists[i]) : OfTable(tables, p)
  BY <1>1, <1>2, <1>4
<1>6. IsList(FlattenSeq(lists)) /\ ToSet(FlattenSeq(lists)) = UNION {ToSet(lists[i]) : i \in DOMAIN lists}
  BY <1>4, <1>5, FlattenLists
<1> QED
  BY <1>3, <1>5, <1>6

\* A list of entries, and the numbers it has.
LEMMA EntriesHold ==
    ASSUME NEW rows, IsList(rows), NEW values, values = [i \in DOMAIN rows |-> values[i]],
           \A i \in DOMAIN rows : values[i].n \in Int
    PROVE  /\ IsList(values) /\ \A i \in DOMAIN values : values[i].n \in Int
           /\ ToSet(values) = {values[i] : i \in DOMAIN rows}
<1>1. IsList(values) /\ DOMAIN values = DOMAIN rows
  BY ColumnList
<1> QED
  BY <1>1 DEF ToSet

\* A series, and the points of a category.
LEMMA SeriesProjectionHolds ==
    ASSUME NEW group, SoundGroup(group), NEW titles
    PROVE  LET p == SeriesProjection(group, titles)
           IN /\ SoundProjection(p) /\ p.kind = "chart" /\ p.metric = group.name
              /\ ToSet(p.values) = {Entry(q.cat, q.y) : q \in {r \in ToSet(group.points) : r.cat # Blank}}
<1> DEFINE all == group.points
           places == {i \in DOMAIN all : all[i].cat # Blank}
           points == KeepAt(all, places)
           values == [i \in DOMAIN points |-> Entry(points[i].cat, points[i].y)]
           labelled == {r \in ToSet(all) : r.cat # Blank}
           p == SeriesProjection(group, titles)
<1>1. IsList(all) /\ \A i \in DOMAIN all : all[i].y \in Int
  BY DEF SoundGroup
<1>2. p.kind = "chart" /\ p.metric = group.name /\ p.values = values
  <2>1. p = Projection("chart", group.name, titles, values, {group.unit})
    BY Zenon DEF SeriesProjection
  <2> HIDE DEF p, values
  <2> QED
    BY <2>1, ProjectionHolds
<1> HIDE DEF p, all
<1>3. places \subseteq DOMAIN all /\ {all[i] : i \in places} = labelled
  BY DEF ToSet
<1> HIDE DEF places, labelled
<1>4. IsList(points) /\ ToSet(points) = labelled
  BY <1>1, <1>3, PartHolds, ListOf
<1> HIDE DEF points
<1>5. \A i \in DOMAIN points : points[i].y \in Int
  BY <1>1, <1>4 DEF labelled, ToSet
<1>6. values = [i \in DOMAIN points |-> values[i]] /\ \A i \in DOMAIN points : values[i].n \in Int
  BY <1>5 DEF Entry
<1>7. {values[i] : i \in DOMAIN points} = {Entry(q.cat, q.y) : q \in labelled}
  BY <1>4 DEF ToSet
<1> HIDE DEF values
<1>8. /\ IsList(values) /\ \A i \in DOMAIN values : values[i].n \in Int
      /\ ToSet(values) = {values[i] : i \in DOMAIN points}
  BY <1>4, <1>6, EntriesHold
<1> QED
  BY <1>2, <1>7, <1>8 DEF SoundProjection, p, all, labelled

LEMMA CategoryProjectionHolds ==
    ASSUME NEW cube, SoundCube(cube), NEW category, NEW titles
    PROVE  LET p == CategoryProjection(cube, category, titles)
           IN /\ SoundProjection(p) /\ p.kind = "chart" /\ p.metric = category
              /\ ToSet(p.values) = {Entry(r.series, r.y) : r \in {q \in ToSet(EveryRow(cube)) : q.cat = category /\ q.series # Blank}}
<1> DEFINE all == EveryRow(cube)
           places == {i \in DOMAIN all : all[i].cat = category /\ all[i].series # Blank}
           rows == KeepAt(all, places)
           values == [i \in DOMAIN rows |-> Entry(rows[i].series, rows[i].y)]
           p == CategoryProjection(cube, category, titles)
<1>1. IsList(all) /\ \A r \in ToSet(all) : r.y \in Int
  BY EveryRowHolds DEF SoundRows, RowsOf
<1>2. p.kind = "chart" /\ p.metric = category /\ p.values = values
  <2> DEFINE units == {r.unit : r \in {q \in ToSet(all) : q.cat = category}}
  <2>1. p = Projection("chart", category, titles, values, units)
    BY Zenon DEF CategoryProjection
  <2> HIDE DEF p, values, units
  <2> QED
    BY <2>1, ProjectionHolds
<1>3. IsList(rows) /\ ToSet(rows) = {q \in ToSet(all) : q.cat = category /\ q.series # Blank}
  <2>1. places \subseteq DOMAIN all /\ {all[i] : i \in places} = {q \in ToSet(all) : q.cat = category /\ q.series # Blank}
    BY DEF ToSet
  <2> HIDE DEF places, all
  <2> QED
    BY <1>1, <2>1, PartHolds, ListOf
<1> HIDE DEF rows, all, places
<1>4. \A i \in DOMAIN rows : rows[i].y \in Int
  BY <1>1, <1>3 DEF ToSet
<1>5. values = [i \in DOMAIN rows |-> values[i]] /\ \A i \in DOMAIN rows : values[i].n \in Int
  BY <1>4 DEF Entry
<1>6. {values[i] : i \in DOMAIN rows} = {Entry(r.series, r.y) : r \in ToSet(rows)}
  BY DEF ToSet
<1> HIDE DEF values, p
<1>7. /\ IsList(values) /\ \A i \in DOMAIN values : values[i].n \in Int
      /\ ToSet(values) = {values[i] : i \in DOMAIN rows}
  BY <1>3, <1>5, EntriesHold
<1> QED
  BY <1>2, <1>3, <1>6, <1>7 DEF SoundProjection, p, all

\* The projections of a cube, and of some charts.
OfCube(cube, p) == SoundProjection(p) /\ p.kind = "chart" /\ FromScope(p, cube)

LEMMA CubeProjectionsHold ==
    ASSUME NEW cube, SoundCube(cube), NEW titles
    PROVE  IsList(CubeProjections(cube, titles)) /\ \A p \in ToSet(CubeProjections(cube, titles)) : OfCube(cube, p)
<1> DEFINE groups == cube.groups
           names == CategoryNames(cube)
           series == [g \in DOMAIN groups |-> SeriesProjection(groups[g], titles)]
           categories == [i \in DOMAIN names |-> CategoryProjection(cube, names[i], titles)]
           all == AllProjections(cube, titles)
           places == {i \in DOMAIN all : Distinguished(all[i])}
           S == ToSet(series) \cup ToSet(categories)
<1>1. IsList(groups) /\ (\A g \in DOMAIN groups : SoundGroup(groups[g])) /\ IsList(names)
  BY CategoryNamesHold DEF SoundCube
<1>2. all = series \o categories
  BY Zenon DEF AllProjections
<1>3. CubeProjections(cube, titles) = KeepAt(all, places)
  BY Zenon DEF CubeProjections
<1>4. /\ series = [g \in DOMAIN groups |-> series[g]] /\ categories = [i \in DOMAIN names |-> categories[i]]
      /\ \A g \in DOMAIN groups : series[g] = SeriesProjection(groups[g], titles)
      /\ \A i \in DOMAIN names : categories[i] = CategoryProjection(cube, names[i], titles)
  OBVIOUS
<1>5. \A g \in DOMAIN groups : groups[g] \in ToSet(cube.groups)
  BY DEF ToSet
<1>6. places \subseteq DOMAIN all
  OBVIOUS
<1> HIDE DEF series, categories, all, places, names, groups
<1>7. IsList(series) /\ DOMAIN series = DOMAIN groups /\ IsList(categories) /\ DOMAIN categories = DOMAIN names
  BY <1>1, <1>4, ColumnList
<1>8. \A g \in DOMAIN series : OfCube(cube, series[g])
  <2> SUFFICES ASSUME NEW g \in DOMAIN groups PROVE OfCube(cube, series[g])
    BY <1>7
  <2>1. /\ SoundProjection(series[g]) /\ series[g].kind = "chart" /\ series[g].metric = groups[g].name
        /\ ToSet(series[g].values) = {Entry(q.cat, q.y) : q \in {r \in ToSet(groups[g].points) : r.cat # Blank}}
    BY <1>1, <1>4, SeriesProjectionHolds
  <2> QED
    BY <1>5, <2>1 DEF OfCube, FromScope
<1>9. \A i \in DOMAIN categories : OfCube(cube, categories[i])
  <2> SUFFICES ASSUME NEW i \in DOMAIN names PROVE OfCube(cube, categories[i])
    BY <1>7
  <2>1. LET p == categories[i]
        IN /\ SoundProjection(p) /\ p.kind = "chart" /\ p.metric = names[i]
           /\ ToSet(p.values) = {Entry(r.series, r.y) : r \in {q \in ToSet(EveryRow(cube)) : q.cat = names[i] /\ q.series # Blank}}
    BY <1>4, CategoryProjectionHolds
  <2> QED
    BY <2>1 DEF OfCube, FromScope
<1>10. IsList(all) /\ ToSet(all) = S
  <2>1. series \in Seq(ToSet(series)) /\ categories \in Seq(ToSet(categories))
    BY <1>7 DEF IsList, ToSet
  <2>2. series \in Seq(S) /\ categories \in Seq(S)
    BY <2>1, SeqMonotonic
  <2> HIDE DEF S
  <2>3. all \in Seq(S) /\ ToSet(all) = ToSet(series) \cup ToSet(categories)
    BY <1>2, <2>2, JoinHolds
  <2> QED
    BY <2>3, ListOf DEF S
<1>11. \A p \in S : OfCube(cube, p)
  BY <1>8, <1>9 DEF ToSet
<1>12. IsList(KeepAt(all, places)) /\ ToSet(KeepAt(all, places)) \subseteq S
  <2>1. KeepAt(all, places) \in Seq(ToSet(all))
    BY <1>6, <1>10, PartHolds
  <2> HIDE DEF S
  <2> QED
    BY <1>10, <2>1, ListOf, ToSetHolds
<1> QED
  BY <1>3, <1>11, <1>12

LEMMA ChartProjectionsHold ==
    ASSUME NEW elements, SoundElements(elements)
    PROVE  /\ IsList(ChartProjections(elements))
           /\ \A p \in ToSet(ChartProjections(elements)) :
                \E cube \in ToSet(ChartScopes(elements)) : OfCube(cube, p)
<1> DEFINE cubes == ChartScopes(elements)
           Titles(i) == elements[Min(cubes[i].places)].titles
           lists == [i \in DOMAIN cubes |-> CubeProjections(cubes[i], Titles(i))]
<1>1. IsList(cubes) /\ \A cube \in ToSet(cubes) : SoundCube(cube)
  BY ScopesHold
<1>2. ChartProjections(elements) = FlattenSeq(lists)
  BY Zenon DEF ChartProjections
<1> HIDE DEF cubes, Titles
<1>3. lists = [i \in DOMAIN cubes |-> lists[i]] /\ \A i \in DOMAIN cubes : lists[i] = CubeProjections(cubes[i], Titles(i))
  OBVIOUS
<1> HIDE DEF lists
<1>4. IsList(lists) /\ DOMAIN lists = DOMAIN cubes
  BY <1>1, <1>3, ColumnList
<1>5. \A i \in DOMAIN cubes : cubes[i] \in ToSet(cubes)
  BY DEF ToSet
<1>6. \A i \in DOMAIN lists : IsList(lists[i]) /\ \A p \in ToSet(lists[i]) : OfCube(cubes[i], p)
  BY <1>1, <1>3, <1>4, <1>5, CubeProjectionsHold
<1>7. IsList(FlattenSeq(lists)) /\ ToSet(FlattenSeq(lists)) = UNION {ToSet(lists[i]) : i \in DOMAIN lists}
  BY <1>4, <1>6, FlattenLists
<1> QED
  BY <1>2, <1>4, <1>5, <1>6, <1>7 DEF cubes

\* The candidates: a column, and a series or a category, one of which folds.
OfBoth(tables, elements, match) ==
    \E column, chart : /\ OfTable(tables, column)
                       /\ \E cube \in ToSet(ChartScopes(elements)) : OfCube(cube, chart)
                       /\ Folds(match, column, chart) \/ Folds(match, chart, column)

LEMMA ReconcileCandidatesHold ==
    ASSUME NEW question, NEW tables, IsList(tables), \A i \in DOMAIN tables : SoundSource(tables[i]),
           NEW elements, SoundElements(elements)
    PROVE  LET all == ReconcileCandidates(question, tables, elements)
           IN IsList(all) /\ \A m \in ToSet(all) : OfBoth(tables, elements, m)
<1> DEFINE charts == ChartProjections(elements)
           columns == TableProjections(tables)
           Row1(t) == [c \in DOMAIN charts |-> BothWays(question, columns[t], charts[c])]
           lists == [t \in DOMAIN columns |-> FlattenSeq(Row1(t))]
<1>1. IsList(columns) /\ \A t \in DOMAIN columns : OfTable(tables, columns[t])
  BY TableProjectionsHold DEF ToSet
<1>2. IsList(charts) /\ \A c \in DOMAIN charts : \E cube \in ToSet(ChartScopes(elements)) : OfCube(cube, charts[c])
  BY ChartProjectionsHold DEF ToSet
<1>3. ReconcileCandidates(question, tables, elements) = FlattenSeq(lists)
  BY Zenon DEF ReconcileCandidates
<1> HIDE DEF columns, charts
<1>4. ASSUME NEW t \in DOMAIN columns, NEW c \in DOMAIN charts
      PROVE  LET both == BothWays(question, columns[t], charts[c])
             IN IsList(both) /\ \A m \in ToSet(both) : OfBoth(tables, elements, m)
  <2>1. /\ OfTable(tables, columns[t]) /\ SoundProjection(columns[t]) /\ SoundProjection(charts[c])
        /\ \E cube \in ToSet(ChartScopes(elements)) : OfCube(cube, charts[c])
    BY <1>1, <1>2 DEF OfTable, OfCube
  <2> QED
    BY <2>1, BothWaysHold DEF OfBoth
<1>5. ASSUME NEW t \in DOMAIN columns
      PROVE  IsList(FlattenSeq(Row1(t))) /\ \A m \in ToSet(FlattenSeq(Row1(t))) : OfBoth(tables, elements, m)
  <2> DEFINE row == Row1(t)
  <2>1. row = [c \in DOMAIN charts |-> row[c]] /\ \A c \in DOMAIN charts : row[c] = BothWays(question, columns[t], charts[c])
    OBVIOUS
  <2> HIDE DEF row
  <2>2. IsList(row) /\ DOMAIN row = DOMAIN charts
    BY <1>2, <2>1, ColumnList
  <2>3. \A c \in DOMAIN row : IsList(row[c]) /\ \A m \in ToSet(row[c]) : OfBoth(tables, elements, m)
    BY <1>4, <2>1, <2>2
  <2>4. IsList(FlattenSeq(row)) /\ ToSet(FlattenSeq(row)) = UNION {ToSet(row[c]) : c \in DOMAIN row}
    BY <2>2, <2>3, FlattenLists
  <2> QED
    BY <2>3, <2>4 DEF row
<1> HIDE DEF Row1
<1>6. lists = [t \in DOMAIN columns |-> lists[t]] /\ \A t \in DOMAIN columns : lists[t] = FlattenSeq(Row1(t))
  OBVIOUS
<1> HIDE DEF lists
<1>7. IsList(lists) /\ DOMAIN lists = DOMAIN columns
  BY <1>1, <1>6, ColumnList
<1>8. \A t \in DOMAIN lists : IsList(lists[t]) /\ \A m \in ToSet(lists[t]) : OfBoth(tables, elements, m)
  BY <1>5, <1>6, <1>7
<1>9. IsList(FlattenSeq(lists)) /\ ToSet(FlattenSeq(lists)) = UNION {ToSet(lists[t]) : t \in DOMAIN lists}
  BY <1>7, <1>8, FlattenLists
<1> QED
  BY <1>3, <1>8, <1>9

\* Whoever is asked: the sources agree in everything but one label.
LEMMA ExplainedHolds ==
    ASSUME NEW tables, NEW elements, NEW match, OfBoth(tables, elements, match)
    PROVE  LET column == IF match.narrow.kind = "table" THEN match.narrow ELSE match.broad
               chart == IF match.narrow.kind = "table" THEN match.broad ELSE match.narrow
           IN ShownBy(tables, elements, column, chart) /\ Explained(match, column, chart)
<1>1. PICK column, chart : /\ OfTable(tables, column)
                           /\ \E cube \in ToSet(ChartScopes(elements)) : OfCube(cube, chart)
                           /\ Folds(match, column, chart) \/ Folds(match, chart, column)
  BY DEF OfBoth
<1>2. /\ column.kind = "table" /\ chart.kind = "chart" /\ SoundProjection(column) /\ SoundProjection(chart)
      /\ \E t \in ToSet(tables) : \E c \in DOMAIN t.columns : FromColumn(column, t, c)
      /\ \E cube \in ToSet(ChartScopes(elements)) : FromScope(chart, cube)
  BY <1>1 DEF OfTable, OfCube
<1>3. ShownBy(tables, elements, column, chart)
  BY <1>2 DEF ShownBy
<1>4. \A l \in Keys(column) \cap Keys(chart) : Close(ValueOf(column, l), ValueOf(chart, l)) <=> Close(ValueOf(chart, l), ValueOf(column, l))
  <2> SUFFICES ASSUME NEW l \in Keys(column) \cap Keys(chart)
               PROVE  Close(ValueOf(column, l), ValueOf(chart, l)) <=> Close(ValueOf(chart, l), ValueOf(column, l))
    OBVIOUS
  <2>1. ValueOf(column, l) \in Int /\ ValueOf(chart, l) \in Int
    BY <1>2, LabelsHold
  <2> QED
    BY <2>1, CloseEither
<1>5. ASSUME Folds(match, column, chart) PROVE match.narrow = column /\ match.broad = chart /\ Explained(match, column, chart)
  <2>1. /\ match.narrow = column /\ match.broad = chart
        /\ match.components = Keys(column) \ Keys(chart) /\ Keys(chart) \subseteq Keys(column)
        /\ match.target \in Keys(chart) /\ ~Close(ValueOf(column, match.target), ValueOf(chart, match.target))
        /\ \A l \in Keys(chart) \ {match.target} : Close(ValueOf(column, l), ValueOf(chart, l))
        /\ Close(ValueOf(column, match.target) + SumOver(column, match.components), ValueOf(chart, match.target))
    BY <1>5 DEF Folds
  <2>2. (Keys(column) \cap Keys(chart)) \cup match.components = Keys(column) \cup Keys(chart) /\ match.components \cap Keys(chart) = {}
    BY <2>1
  <2> QED
    BY <2>1, <2>2, Zenon DEF Explained
<1>6. ASSUME Folds(match, chart, column) PROVE match.narrow = chart /\ match.broad = column /\ Explained(match, column, chart)
  <2>1. /\ match.narrow = chart /\ match.broad = column
        /\ match.components = Keys(chart) \ Keys(column) /\ Keys(column) \subseteq Keys(chart)
        /\ match.target \in Keys(column) /\ ~Close(ValueOf(chart, match.target), ValueOf(column, match.target))
        /\ \A l \in Keys(column) \ {match.target} : Close(ValueOf(chart, l), ValueOf(column, l))
        /\ Close(ValueOf(chart, match.target) + SumOver(chart, match.components), ValueOf(column, match.target))
    BY <1>6 DEF Folds
  <2>2. /\ (Keys(column) \cap Keys(chart)) \cup match.components = Keys(column) \cup Keys(chart)
        /\ match.components \cap Keys(column) = {} /\ match.target \in Keys(column) \cap Keys(chart)
    BY <2>1
  <2>3. \A l \in (Keys(column) \cap Keys(chart)) \ {match.target} : Close(ValueOf(column, l), ValueOf(chart, l))
    BY <1>4, <2>1
  <2>4. ~Close(ValueOf(column, match.target), ValueOf(chart, match.target))
    BY <1>4, <2>1, <2>2
  <2> QED
    BY <2>1, <2>2, <2>3, <2>4, Zenon DEF Explained
<1> QED
  BY <1>1, <1>2, <1>3, <1>5, <1>6

\* The best candidate is one of them.
LEMMA ReconcileHolds ==
    ASSUME NEW question, NEW tables, IsList(tables), \A i \in DOMAIN tables : SoundSource(tables[i]),
           NEW elements, SoundElements(elements), Reconcile(question, tables, elements) # <<>>
    PROVE  OfBoth(tables, elements, Reconcile(question, tables, elements)[1])
<1> DEFINE candidates == ReconcileCandidates(question, tables, elements)
           best == {i \in DOMAIN candidates : \A k \in DOMAIN candidates : candidates[k].score <= candidates[i].score}
           scores == [i \in DOMAIN candidates |-> candidates[i].score]
<1>1. IsList(candidates) /\ \A i \in DOMAIN candidates : OfBoth(tables, elements, candidates[i])
  BY ReconcileCandidatesHold DEF ToSet
<1>2. Reconcile(question, tables, elements) = <<candidates[Min(best)]>> /\ candidates # <<>>
  BY Zenon DEF Reconcile
<1> HIDE DEF candidates
<1>3. \A i \in DOMAIN candidates : candidates[i].score \in Int
  BY <1>1 DEF OfBoth, Folds
<1>4. DOMAIN candidates = 1 .. Len(candidates) /\ Len(candidates) \in Nat
  BY <1>1, ListShape
<1>5. scores \in Seq(Int) /\ scores # <<>> /\ DOMAIN scores = DOMAIN candidates
  BY <1>1, <1>2, <1>3, <1>4 DEF IsList
<1>6. \A i \in DOMAIN candidates : scores[i] = candidates[i].score /\ scores[i] \in ToSet(scores)
  BY DEF ToSet
<1> HIDE DEF scores
<1>7. best # {}
  <2>1. Max(ToSet(scores)) \in ToSet(scores) /\ \A x \in ToSet(scores) : x <= Max(ToSet(scores))
    BY <1>5, ListExtremes
  <2>2. PICK i \in DOMAIN candidates : scores[i] = Max(ToSet(scores))
    BY <1>5, <2>1 DEF ToSet
  <2>3. \A k \in DOMAIN candidates : candidates[k].score <= candidates[i].score
    BY <1>6, <2>1, <2>2
  <2> QED
    BY <2>3
<1>8. Min(best) \in DOMAIN candidates
  <2>1. best \subseteq Nat /\ best \subseteq DOMAIN candidates
    BY <1>4
  <2> HIDE DEF best
  <2> QED
    BY <1>7, <2>1, FirstOfNumbers
<1> QED
  BY <1>1, <1>2, <1>8

\* "Not contradictory" is said of a column and a chart that differ in one label
\* only, the members of which account for it, whatever the sources are.
THEOREM ReconciliationsHold == ReconcileSpec => []ReconciliationsAreProven
<1> DEFINE Given == /\ reconcileInput.tables \in ReconcileTable /\ reconcileInput.elements \in ReconcileChart
           Inv == Given /\ ReconciliationsAreProven
<1>1. ReconcileInit => Inv
  <2>1. ReconcileInit => Given
    BY DEF ReconcileInit
  <2>2. ReconcileInit => ReconciliationsAreProven
    BY DEF ReconcileInit, ReconciliationsAreProven
  <2> QED
    BY <2>1, <2>2
<1>2. Inv /\ [ReconcileSources]_reconcileVars => Inv'
  <2> SUFFICES ASSUME Inv, [ReconcileSources]_reconcileVars PROVE Inv'
    OBVIOUS
  <2>1. CASE ReconcileSources
    <3> DEFINE tables == reconcileInput.tables
               elements == reconcileInput.elements
    <3>1. reconcileInput' = reconcileInput /\ reconciled' = Reconcile(reconcileInput.question, tables, elements)
      BY <2>1 DEF ReconcileSources
    <3>2. IsList(tables) /\ (\A i \in DOMAIN tables : SoundSource(tables[i])) /\ SoundElements(elements)
      BY ReconcileAssumption
    <3>3. reconciled' # <<>> => OfBoth(tables, elements, reconciled'[1])
      <4> HIDE DEF tables, elements
      <4> QED
        BY <3>1, <3>2, ReconcileHolds
    <3>4. ReconciliationsAreProven'
      BY <3>1, <3>3, ExplainedHolds DEF ReconciliationsAreProven
    <3> QED
      BY <3>1, <3>4
  <2>2. CASE UNCHANGED reconcileVars
    BY <2>2 DEF reconcileVars, ReconciliationsAreProven
  <2> QED
    BY <2>1, <2>2
<1> QED
  BY <1>1, <1>2, PTL DEF ReconcileSpec

-----------------------------------------------------------------------------
(* Analyses.                                                               *)

LEMMA OfFamilyHolds ==
    ASSUME NEW groups, IsList(groups), NEW family
    PROVE  /\ IsList(OfFamily(groups, family))
           /\ ToSet(OfFamily(groups, family)) = {g \in ToSet(groups) : g.family = family}
<1> DEFINE places == {i \in DOMAIN groups : groups[i].family = family}
<1>1. places \subseteq DOMAIN groups /\ {groups[i] : i \in places} = {g \in ToSet(groups) : g.family = family}
  BY DEF ToSet
<1>2. OfFamily(groups, family) = KeepAt(groups, places)
  BY DEF OfFamily
<1> HIDE DEF places
<1> QED
  BY <1>1, <1>2, PartHolds, ListOf

LEMMA SummarizedHold ==
    ASSUME NEW cube, SoundCube(cube)
    PROVE  IsList(Summarized(cube)) /\ \A i \in DOMAIN Summarized(cube) : SoundGroup(Summarized(cube)[i])
<1>1. IsList(cube.groups) /\ \A g \in DOMAIN cube.groups : SoundGroup(cube.groups[g])
  BY DEF SoundCube
<1> QED
  BY <1>1, KeepAtList DEF Summarized

\* A run of falls at the end begins no earlier than the peak.
LEMMA FallsHold ==
    ASSUME NEW values \in Seq(Int), values # <<>>
    PROVE  LET n == Len(values)
               peak == Min({i \in 1 .. n : \A k \in 1 .. n : values[k] <= values[i]})
               declines == Max({k \in 0 .. n - 1 : \A i \in n - k + 1 .. n : values[i] < values[i - 1]})
           IN declines \in Int /\ declines <= n - peak
<1> DEFINE n == Len(values)
           peaks == {i \in 1 .. n : \A k \in 1 .. n : values[k] <= values[i]}
           falls == {k \in 0 .. n - 1 : \A i \in n - k + 1 .. n : values[i] < values[i - 1]}
           peak == Min(peaks)
           declines == Max(falls)
<1>1. n \in Nat /\ n >= 1 /\ DOMAIN values = 1 .. n /\ \A i \in 1 .. n : values[i] \in Int
  OBVIOUS
<1>2. peak \in peaks
  <2>1. Max(ToSet(values)) \in ToSet(values) /\ \A x \in ToSet(values) : x <= Max(ToSet(values))
    BY ListExtremes
  <2>2. PICK i \in 1 .. n : values[i] = Max(ToSet(values))
    BY <1>1, <2>1 DEF ToSet
  <2>3. \A k \in 1 .. n : values[k] \in ToSet(values)
    BY <1>1 DEF ToSet
  <2>4. peaks \subseteq Nat /\ i \in peaks
    BY <1>1, <2>1, <2>2, <2>3
  <2> HIDE DEF peaks
  <2> QED
    BY <2>4, FirstOfNumbers
<1>3. declines \in falls
  <2>1. 0 \in falls
    BY <1>1
  <2>2. falls \subseteq Nat /\ \A k \in falls : k <= n
    BY <1>1
  <2> HIDE DEF falls, n
  <2> QED
    BY <1>1, <2>1, <2>2, BoundedMax
<1> HIDE DEF n, peak, declines
<1>4. /\ peak \in 1 .. n /\ \A k \in 1 .. n : values[k] <= values[peak]
      /\ declines \in 0 .. n - 1 /\ \A i \in n - declines + 1 .. n : values[i] < values[i - 1]
  BY <1>2, <1>3
<1>5. declines <= n - peak
  <2> SUFFICES ASSUME ~(declines <= n - peak) PROVE FALSE
    OBVIOUS
  <2>1. peak \in n - declines + 1 .. n /\ peak - 1 \in 1 .. n
    BY <1>1, <1>4
  <2>2. values[peak] < values[peak - 1] /\ values[peak - 1] <= values[peak]
    BY <1>4, <2>1
  <2>3. values[peak] \in Int /\ values[peak - 1] \in Int
    BY <1>1, <1>4, <2>1
  <2> QED
    BY <2>2, <2>3
<1> QED
  BY <1>4, <1>5 DEF n, peak, declines

\* What a summary says.
SumsUp(s, group) ==
    /\ s.name = group.name /\ s.family = group.family
    /\ s.temporal = Temporal(CategoriesOf(group.points))
    /\ s.relative = PercentageChange(group.points[1].y, group.points[Len(group.points)].y)
    /\ s.declines \in Int /\ s.declines <= s.sincePeak
    /\ ~s.temporal => s.recent = <<>> /\ s.declines = 0

LEMMA SummaryHolds ==
    ASSUME NEW group, SoundGroup(group) PROVE SumsUp(SeriesSummary(group), group)
<1> DEFINE points == group.points
           values == [i \in DOMAIN points |-> points[i].y]
           n == Len(values)
           temporal == Temporal(CategoriesOf(points))
           peak == Min({i \in 1 .. n : \A k \in 1 .. n : values[k] <= values[i]})
           declines == Max({k \in 0 .. n - 1 : \A i \in n - k + 1 .. n : values[i] < values[i - 1]})
           s == SeriesSummary(group)
           yoy == IF temporal THEN YearOverYear(values) ELSE <<>>
           recent == IF temporal THEN RecentChange(values) ELSE <<>>
           relative == PercentageChange(values[1], values[n])
           fromPeak == PercentageChange(values[peak], values[n])
           since == IF temporal THEN n - peak ELSE 0
           falling == IF temporal THEN declines ELSE 0
<1>1. s = [name |-> group.name, family |-> group.family, temporal |-> temporal, relative |-> relative, yoy |-> yoy,
           recent |-> recent, fromPeak |-> fromPeak, sincePeak |-> since, declines |-> falling]
  BY Zenon DEF SeriesSummary
<1>2. IsList(points) /\ points # <<>> /\ (\A i \in DOMAIN points : points[i].y \in Int) /\ DOMAIN points = 1 .. Len(points) /\ Len(points) \in Nat
  BY ListShape DEF SoundGroup
<1> HIDE DEF points
<1>3. values \in Seq(Int) /\ values # <<>> /\ n = Len(points) /\ n \in Nat /\ n >= 1
  <2>1. Len(points) # 0
    BY <1>2 DEF IsList
  <2>2. values \in Seq(Int) /\ Len(values) = Len(points)
    BY <1>2
  <2> HIDE DEF values
  <2> QED
    BY <1>2, <2>1, <2>2
<1>4. values[1] = points[1].y /\ values[n] = points[n].y
  BY <1>2, <1>3
<1> HIDE DEF values, n, s, yoy, fromPeak
<1>5. declines \in Int /\ declines <= n - peak
  BY <1>3, FallsHold DEF n
<1> HIDE DEF declines, peak, temporal, relative, points
<1>6. falling \in Int /\ falling <= since
  BY <1>5
<1>7. ~temporal => recent = <<>> /\ falling = 0
  OBVIOUS
<1> HIDE DEF falling, since, recent
<1>8. /\ s.name = group.name /\ s.family = group.family /\ s.temporal = temporal /\ s.relative = relative
      /\ s.declines = falling /\ s.sincePeak = since /\ s.recent = recent
  BY <1>1
<1>9. relative = PercentageChange(points[1].y, points[Len(points)].y)
  BY <1>3, <1>4 DEF relative
<1> QED
  BY <1>6, <1>7, <1>8, <1>9 DEF SumsUp, temporal, points, s

LEMMA SummariesHold ==
    ASSUME NEW cube, SoundCube(cube)
    PROVE  /\ IsList(Summaries(cube)) /\ DOMAIN Summaries(cube) = DOMAIN Summarized(cube)
           /\ \A i \in DOMAIN Summaries(cube) : SumsUp(Summaries(cube)[i], Summarized(cube)[i])
<1> DEFINE all == Summaries(cube)
           groups == Summarized(cube)
<1>1. IsList(groups) /\ \A i \in DOMAIN groups : SoundGroup(groups[i])
  BY SummarizedHold
<1>2. all = [i \in DOMAIN groups |-> all[i]] /\ \A i \in DOMAIN groups : all[i] = SeriesSummary(groups[i])
  BY DEF Summaries
<1> HIDE DEF all, groups
<1>3. IsList(all) /\ DOMAIN all = DOMAIN groups
  BY <1>1, <1>2, ColumnList
<1>4. \A i \in DOMAIN groups : SumsUp(all[i], groups[i])
  BY <1>1, <1>2, SummaryHolds
<1> QED
  BY <1>3, <1>4 DEF all, groups

\* The analysis of a chart.
AnalysisOf(a, cube, elements, stacked, request) ==
    /\ a.cube = cube /\ a.summaries = Summaries(cube) /\ a.bundle = RenderBundle(cube, stacked)
    /\ a.scope = ScopeMetadata(elements, Summaries(cube), request) /\ a.fallback = RenderFallback(Summaries(cube))

LEMMA AnalysisIs ==
    ASSUME NEW cube, NEW elements, NEW request
    PROVE  AnalysisOf(Analysis(cube, elements, request)[1], cube, elements, \E e \in cube.places : elements[e].stacked, request)
<1> DEFINE summaries == Summaries(cube)
           bundle == RenderBundle(cube, \E e \in cube.places : elements[e].stacked)
           scope == ScopeMetadata(elements, Summaries(cube), request)
           fallback == RenderFallback(Summaries(cube))
           a == Analysis(cube, elements, request)
<1>1. a = <<[cube |-> cube, summaries |-> summaries, bundle |-> bundle, scope |-> scope, fallback |-> fallback]>>
  BY Zenon DEF Analysis
<1> HIDE DEF summaries, bundle, scope, fallback, a
<1>2. /\ a[1].cube = cube /\ a[1].summaries = summaries /\ a[1].bundle = bundle
      /\ a[1].scope = scope /\ a[1].fallback = fallback
  BY <1>1
<1> QED
  BY <1>2 DEF AnalysisOf, summaries, bundle, scope, fallback, a

\* A series that is not by time is not declining, so that the text and the facts
\* speak of the same lines.
LEMMA SameLinesHold ==
    ASSUME NEW cube, SoundCube(cube), NEW elements, NEW stacked, NEW request,
           NEW a, AnalysisOf(a, cube, elements, stacked, request)
    PROVE  SameLines(a)
<1> DEFINE summaries == Summaries(cube)
           lines == OfFamily(summaries, "line")
           declining == {s.name : s \in {t \in ToSet(lines) : Declining(t)}}
           temporal == {s \in ToSet(summaries) : s.temporal}
           total == IF lines # <<>> \/ stacked THEN BarTotal(cube) ELSE <<>>
           grown == total # <<>> /\ Rose(total[1].recent)
           weak == {s \in {t \in temporal : t.family = "line"} : Weakened(s)}
<1>1. IsList(summaries) /\ \A i \in DOMAIN summaries : SumsUp(summaries[i], Summarized(cube)[i])
  BY SummariesHold
<1>2. a.fallback.weak = weak
  <2>1. a.fallback = RenderFallback(summaries)
    BY DEF AnalysisOf
  <2>2. RenderFallback(summaries).weak = weak
    BY DEF RenderFallback
  <2> QED
    BY <2>1, <2>2
<1>3. a.bundle.divergence = IF grown THEN declining ELSE {}
  <2>1. a.bundle = RenderBundle(cube, stacked)
    BY DEF AnalysisOf
  <2>2. RenderBundle(cube, stacked).divergence = IF grown THEN declining ELSE {}
    BY DEF RenderBundle
  <2> QED
    BY <2>1, <2>2
<1>4. ToSet(lines) = {s \in ToSet(summaries) : s.family = "line"}
  BY <1>1, OfFamilyHolds
<1> HIDE DEF summaries, lines, total, grown
<1>5. ASSUME NEW s \in ToSet(summaries), ~s.temporal PROVE ~Declining(s)
  <2>1. s.recent = <<>> /\ s.declines = 0
    BY <1>1, <1>5 DEF ToSet, SumsUp
  <2>2. ~Fell(s.recent) /\ ~(s.declines >= 2)
    BY <2>1 DEF Fell
  <2> QED
    BY <2>2, Zenon DEF Declining
<1>6. {t \in ToSet(lines) : Declining(t)} = weak
  BY <1>4, <1>5 DEF Weakened
<1> QED
  BY <1>2, <1>3, <1>6 DEF SameLines

\* What a group has for a category of its own.
LEMMA ValueHolds ==
    ASSUME NEW group, SoundGroup(group), NEW cat, \E k \in DOMAIN group.points : group.points[k].cat = cat
    PROVE  \E k \in DOMAIN group.points : group.points[k].cat = cat /\ ValueAt(group, cat) = group.points[k].y
<1> DEFINE places == {i \in DOMAIN group.points : group.points[i].cat = cat}
<1>1. ValueAt(group, cat) = group.points[Max(places)].y
  BY DEF ValueAt
<1>2. IsList(group.points) /\ places \in SUBSET DOMAIN group.points /\ places # {}
  BY DEF SoundGroup
<1>3. Max(places) \in places
  <2> HIDE DEF places
  <2> QED
    BY <1>2, LastPlace
<1> QED
  BY <1>1, <1>3

\* The sound groups that have something for all the periods.
HavePeriods(bars, periods) ==
    /\ IsList(bars) /\ \A b \in DOMAIN bars : SoundGroup(bars[b])
    /\ IsList(periods) /\ periods # <<>>
    /\ \A p \in DOMAIN periods : \A b \in DOMAIN bars : \E k \in DOMAIN bars[b].points : bars[b].points[k].cat = periods[p]

LEMMA SharedCategoriesHold ==
    ASSUME NEW bars, IsList(bars), bars # <<>>, \A b \in DOMAIN bars : SoundGroup(bars[b])
    PROVE  /\ IsList(SharedCategories(bars))
           /\ \A p \in DOMAIN SharedCategories(bars) : \A b \in DOMAIN bars :
                \E k \in DOMAIN bars[b].points : bars[b].points[k].cat = SharedCategories(bars)[p]
<1> DEFINE first == CategoriesOf(bars[1].points)
           places == {i \in DOMAIN first : \A b \in DOMAIN bars : \E k \in DOMAIN bars[b].points : bars[b].points[k].cat = first[i]}
           periods == SharedCategories(bars)
<1>1. periods = KeepAt(first, places) /\ places \subseteq DOMAIN first
  BY DEF SharedCategories
<1>2. IsList(first)
  <2>1. 1 \in DOMAIN bars
    BY FirstHolds DEF IsList
  <2>2. IsList(bars[1].points)
    BY <2>1 DEF SoundGroup
  <2>3. first = [i \in DOMAIN bars[1].points |-> first[i]]
    BY DEF CategoriesOf
  <2> HIDE DEF first
  <2> QED
    BY <2>2, <2>3, ColumnList
<1>3. \A i \in places : \A b \in DOMAIN bars : \E k \in DOMAIN bars[b].points : bars[b].points[k].cat = first[i]
  OBVIOUS
<1> HIDE DEF places, first, periods
<1>4. IsList(periods) /\ ToSet(periods) = {first[i] : i \in places}
  BY <1>1, <1>2, PartHolds, ListOf
<1>5. ASSUME NEW p \in DOMAIN periods PROVE \E i \in places : periods[p] = first[i]
  BY <1>4 DEF ToSet
<1>6. ASSUME NEW p \in DOMAIN periods, NEW b \in DOMAIN bars
      PROVE  \E k \in DOMAIN bars[b].points : bars[b].points[k].cat = periods[p]
  BY <1>3, <1>5
<1> QED
  BY <1>4, <1>6 DEF periods

\* When all bars have names of their own, a share is the value of its bar.
LEMMA SharesAre ==
    ASSUME NEW bars, IsList(bars), NEW period, Len(Shares(bars, period)) = Len(bars)
    PROVE  ListTotal([k \in DOMAIN Shares(bars, period) |-> Shares(bars, period)[k].value]) = TotalAt(bars, period)
<1> DEFINE all == [b \in DOMAIN bars |-> bars[b].name]
           names == Distinct(all)
           LastOf(name) == Max({b \in DOMAIN bars : bars[b].name = name})
           shares == Shares(bars, period)
<1>1. shares = [k \in DOMAIN names |-> [name |-> names[k], value |-> ValueAt(bars[LastOf(names[k])], period)]]
  BY Zenon DEF Shares
<1>2. Len(bars) \in Nat /\ DOMAIN bars = 1 .. Len(bars)
  BY ListShape
<1>3. IsList(all) /\ Len(all) = Len(bars) /\ DOMAIN all = DOMAIN bars /\ \A b \in DOMAIN bars : all[b] = bars[b].name
  <2>1. all = [b \in DOMAIN bars |-> all[b]] /\ \A b \in DOMAIN bars : all[b] = bars[b].name
    OBVIOUS
  <2> HIDE DEF all
  <2> QED
    BY <2>1, ColumnList
<1> HIDE DEF all
<1>4. IsList(names)
  BY <1>3, DistinctHolds
<1> HIDE DEF names, shares, LastOf
<1>5. DOMAIN shares = DOMAIN names /\ Len(shares) = Len(names) /\ \A k \in DOMAIN shares : shares[k].value = ValueAt(bars[LastOf(names[k])], period)
  <2>1. shares = [k \in DOMAIN names |-> shares[k]]
    BY <1>1
  <2>2. DOMAIN shares = DOMAIN names /\ Len(shares) = Len(names)
    BY <1>4, <2>1, ColumnList
  <2> QED
    BY <1>1, <2>2
<1>6. Len(names) = Len(all) /\ DOMAIN names = DOMAIN bars
  <2>1. Len(names) = Len(all)
    BY <1>3, <1>5 DEF shares
  <2> QED
    BY <1>2, <1>3, <1>4, <2>1, ListShape
<1>7. \A i \in DOMAIN bars : names[i] = all[i] /\ \A k \in 1 .. i - 1 : all[k] # all[i]
  BY <1>3, <1>6, DistinctAll DEF names
<1>8. ASSUME NEW k \in DOMAIN bars PROVE LastOf(names[k]) = k
  <2> DEFINE places == {b \in DOMAIN bars : bars[b].name = names[k]}
  <2>1. k \in places
    BY <1>3, <1>7
  <2>2. \A b \in places : b = k
    <3> SUFFICES ASSUME NEW b \in places, b # k PROVE FALSE
      OBVIOUS
    <3>1. all[b] = all[k] /\ b \in DOMAIN bars
      BY <1>3, <1>7
    <3>2. b \in 1 .. k - 1 \/ k \in 1 .. b - 1
      BY <1>2, <3>1
    <3> QED
      BY <1>7, <3>1, <3>2
  <2>3. LastOf(names[k]) = Max(places) /\ places \in SUBSET DOMAIN bars
    BY DEF LastOf
  <2> HIDE DEF places
  <2>4. Max(places) \in places
    BY <2>1, <2>3, LastPlace
  <2> QED
    BY <2>2, <2>3, <2>4
<1>9. [k \in DOMAIN shares |-> shares[k].value] = [b \in DOMAIN bars |-> ValueAt(bars[b], period)]
  BY <1>5, <1>6, <1>8
<1> QED
  BY <1>9 DEF TotalAt, shares

\* A total of bars over periods of their own that rose: one of the bars did.
LEMMA TotalRises ==
    ASSUME NEW bars, NEW periods, HavePeriods(bars, periods), IsInjective(periods),
           \A b \in DOMAIN bars : CategoriesOf(bars[b].points) = periods,
           TotalAt(bars, periods[Len(periods)]) > TotalAt(bars, periods[1])
    PROVE  \E b \in DOMAIN bars : bars[b].points[Len(bars[b].points)].y > bars[b].points[1].y
<1> DEFINE n == Len(periods)
           Values(p) == [b \in DOMAIN bars |-> ValueAt(bars[b], periods[p])]
<1>1. n \in Nat /\ n >= 1 /\ DOMAIN periods = 1 .. n
  <2>1. n # 0
    BY DEF HavePeriods, IsList
  <2> QED
    BY <2>1, ListShape DEF HavePeriods
<1>2. Len(bars) \in Nat /\ DOMAIN bars = 1 .. Len(bars)
  BY ListShape DEF HavePeriods
<1>3. ASSUME NEW b \in DOMAIN bars
      PROVE  /\ DOMAIN bars[b].points = 1 .. n /\ Len(bars[b].points) = n
             /\ \A p \in 1 .. n : bars[b].points[p].y \in Int /\ ValueAt(bars[b], periods[p]) = bars[b].points[p].y
  <2> DEFINE points == bars[b].points
  <2>1. SoundGroup(bars[b]) /\ IsList(points) /\ CategoriesOf(points) = periods /\ \A i \in DOMAIN points : points[i].y \in Int
    BY DEF HavePeriods, SoundGroup
  <2>2. DOMAIN points = DOMAIN periods /\ \A i \in DOMAIN points : points[i].cat = periods[i]
    BY <2>1 DEF CategoriesOf
  <2>3. Len(points) = n
    BY <1>1, <2>1, <2>2, ListShape
  <2>4. ASSUME NEW p \in 1 .. n PROVE ValueAt(bars[b], periods[p]) = points[p].y
    <3>1. \E k \in DOMAIN points : points[k].cat = periods[p]
      BY <1>1, <2>2
    <3>2. PICK k \in DOMAIN points : points[k].cat = periods[p] /\ ValueAt(bars[b], periods[p]) = points[k].y
      BY <2>1, <3>1, ValueHolds
    <3>3. k = p
      BY <1>1, <2>2, <3>2 DEF IsInjective
    <3> QED
      BY <3>2, <3>3
  <2> QED
    BY <1>1, <2>1, <2>2, <2>3, <2>4
<1>4. ASSUME NEW p \in 1 .. n
      PROVE  /\ Values(p) \in Seq(Int) /\ Len(Values(p)) = Len(bars) /\ DOMAIN Values(p) = DOMAIN bars
             /\ TotalAt(bars, periods[p]) = ListTotal(Values(p))
             /\ \A b \in DOMAIN bars : Values(p)[b] = bars[b].points[p].y
  <2>1. TotalAt(bars, periods[p]) = ListTotal(Values(p))
    BY DEF TotalAt
  <2>2. \A b \in DOMAIN bars : Values(p)[b] = bars[b].points[p].y /\ Values(p)[b] \in Int
    BY <1>3
  <2>3. DOMAIN Values(p) = 1 .. Len(bars) /\ Values(p) = [b \in 1 .. Len(bars) |-> Values(p)[b]]
    BY <1>2
  <2> HIDE DEF Values
  <2>4. Values(p) \in Seq(Int) /\ Len(Values(p)) = Len(bars)
    BY <1>2, <2>2, <2>3
  <2> QED
    BY <1>2, <2>1, <2>2, <2>3, <2>4
<1> SUFFICES ASSUME \A b \in DOMAIN bars : ~(bars[b].points[Len(bars[b].points)].y > bars[b].points[1].y) PROVE FALSE
  OBVIOUS
<1> HIDE DEF Values
<1>5. 1 \in 1 .. n /\ n \in 1 .. n
  BY <1>1
<1>6. \A b \in DOMAIN bars : Values(n)[b] <= Values(1)[b]
  <2> SUFFICES ASSUME NEW b \in DOMAIN bars PROVE Values(n)[b] <= Values(1)[b]
    OBVIOUS
  <2>1. Values(n)[b] = bars[b].points[n].y /\ Values(1)[b] = bars[b].points[1].y
    BY <1>4, <1>5
  <2>2. Len(bars[b].points) = n /\ bars[b].points[n].y \in Int /\ bars[b].points[1].y \in Int
    BY <1>3, <1>5
  <2>3. ~(bars[b].points[n].y > bars[b].points[1].y)
    BY <2>2
  <2> QED
    BY <2>1, <2>2, <2>3
<1>7. ListTotal(Values(n)) <= ListTotal(Values(1))
  BY <1>4, <1>5, <1>6, TotalCompares
<1>8. ListTotal(Values(n)) > ListTotal(Values(1))
  BY <1>4, <1>5
<1>9. ListTotal(Values(n)) \in Int /\ ListTotal(Values(1)) \in Int
  BY <1>4, <1>5, TotalInteger
<1> QED
  BY <1>7, <1>8, <1>9

\* What there is of a total, when there is one.
LEMMA BarTotalHolds ==
    ASSUME NEW cube, SoundCube(cube), BarTotal(cube) # <<>>
    PROVE  LET bars == OfFamily(Summarized(cube), "bar")
               total == BarTotal(cube)[1]
               n == Len(total.periods)
           IN /\ HavePeriods(bars, total.periods) /\ Temporal(total.periods)
              /\ total.totals[Len(total.totals)] = TotalAt(bars, total.periods[n])
              /\ total.relative = PercentageChange(TotalAt(bars, total.periods[1]), TotalAt(bars, total.periods[n]))
              /\ total.shares = Shares(bars, total.periods[n])
<1> DEFINE groups == Summarized(cube)
           bars == OfFamily(groups, "bar")
           periods == SharedCategories(bars)
           n == Len(periods)
           totals == [p \in DOMAIN periods |-> TotalAt(bars, periods[p])]
           relative == PercentageChange(totals[1], totals[Len(totals)])
           yoy == YearOverYear(totals)
           recent == RecentChange(totals)
           shares == Shares(bars, periods[n])
           total == BarTotal(cube)[1]
<1>1. IsList(groups) /\ \A g \in ToSet(groups) : SoundGroup(g)
  BY SummarizedHold DEF ToSet
<1>2. ~(Len(bars) < 2) /\ ~(n < 2) /\ Temporal(periods) /\ BarTotal(cube) = TotalOver(bars, periods)
  BY DEF BarTotal
<1> HIDE DEF groups
<1>3. IsList(bars) /\ ToSet(bars) \subseteq ToSet(groups)
  BY <1>1, OfFamilyHolds
<1> HIDE DEF bars
<1>4. bars # <<>> /\ \A b \in DOMAIN bars : SoundGroup(bars[b])
  <2>1. bars # <<>>
    BY <1>2
  <2> QED
    BY <1>1, <1>3, <2>1 DEF ToSet
<1> HIDE DEF periods
<1>5. HavePeriods(bars, periods)
  <2>1. periods # <<>>
    BY <1>2
  <2> QED
    BY <1>3, <1>4, <2>1, SharedCategoriesHold DEF HavePeriods, periods
<1>6. n \in Nat /\ n >= 2 /\ DOMAIN periods = 1 .. n
  BY <1>2, <1>5, ListShape DEF HavePeriods
<1>7. Len(totals) = n /\ totals[1] = TotalAt(bars, periods[1]) /\ totals[n] = TotalAt(bars, periods[n])
  <2>1. totals = [p \in DOMAIN periods |-> totals[p]] /\ IsList(periods)
    BY <1>5 DEF HavePeriods
  <2>2. totals[1] = TotalAt(bars, periods[1]) /\ totals[n] = TotalAt(bars, periods[n])
    BY <1>6
  <2> HIDE DEF totals
  <2> QED
    BY <2>1, <2>2, ColumnList
<1>8. BarTotal(cube) = <<[periods |-> periods, totals |-> totals, relative |-> relative, yoy |-> yoy, recent |-> recent, shares |-> shares]>>
  BY <1>2, Zenon DEF TotalOver
<1> HIDE DEF totals, relative, yoy, recent, shares, n
<1>9. total.periods = periods /\ total.totals = totals /\ total.relative = relative /\ total.shares = shares
  BY <1>8
<1>10. relative = PercentageChange(TotalAt(bars, periods[1]), TotalAt(bars, periods[n])) /\ totals[Len(totals)] = TotalAt(bars, periods[n])
  BY <1>7 DEF relative
<1> HIDE DEF total
<1>11. /\ HavePeriods(bars, total.periods) /\ Temporal(total.periods)
       /\ total.totals[Len(total.totals)] = TotalAt(bars, total.periods[Len(total.periods)])
       /\ total.relative = PercentageChange(TotalAt(bars, total.periods[1]), TotalAt(bars, total.periods[Len(total.periods)]))
       /\ total.shares = Shares(bars, total.periods[Len(total.periods)])
  BY <1>2, <1>5, <1>9, <1>10 DEF n, shares
<1> QED
  BY <1>11 DEF total, bars, groups

LEMMA TotalExplainedHolds ==
    ASSUME NEW cube, SoundCube(cube), NEW elements, NEW stacked, NEW request,
           NEW a, AnalysisOf(a, cube, elements, stacked, request)
    PROVE  TotalExplained(a)
<1> DEFINE groups == Summarized(cube)
           summaries == Summaries(cube)
           bars == OfFamily(groups, "bar")
           total == a.bundle.total[1]
           n == Len(total.periods)
           shared == \A b \in DOMAIN bars : CategoriesOf(bars[b].points) = total.periods /\ bars[b].points[1].y > 0
<1>1. a.cube = cube /\ a.bundle = RenderBundle(cube, stacked) /\ a.fallback = RenderFallback(summaries)
  BY DEF AnalysisOf
<1> SUFFICES ASSUME a.bundle.total # <<>>
             PROVE  /\ Len(total.shares) = Len(bars) =>
                         ListTotal([k \in DOMAIN total.shares |-> total.shares[k].value]) = total.totals[Len(total.totals)]
                    /\ shared /\ IsInjective(total.periods) /\ Rose(total.relative) => a.fallback.risingBars # {}
  BY <1>1 DEF TotalExplained
<1>2. a.bundle.total = BarTotal(cube)
  <2>1. a.bundle.total = IF OfFamily(summaries, "line") # <<>> \/ stacked THEN BarTotal(cube) ELSE <<>>
    BY <1>1 DEF RenderBundle
  <2> QED
    BY <2>1
<1>3. /\ HavePeriods(bars, total.periods) /\ Temporal(total.periods)
      /\ total.totals[Len(total.totals)] = TotalAt(bars, total.periods[n])
      /\ total.relative = PercentageChange(TotalAt(bars, total.periods[1]), TotalAt(bars, total.periods[n]))
      /\ total.shares = Shares(bars, total.periods[n])
  BY <1>2, BarTotalHolds
<1>4. IsList(groups) /\ (\A g \in ToSet(groups) : SoundGroup(g)) /\ ToSet(bars) = {g \in ToSet(groups) : g.family = "bar"}
  <2>1. IsList(groups) /\ \A g \in ToSet(groups) : SoundGroup(g)
    BY SummarizedHold DEF ToSet
  <2> HIDE DEF groups
  <2> QED
    BY <2>1, OfFamilyHolds
<1>5. DOMAIN summaries = DOMAIN groups /\ \A i \in DOMAIN groups : SumsUp(summaries[i], groups[i])
  BY SummariesHold
<1>6. a.fallback.risingBars = {s \in ToSet(summaries) : s.temporal /\ s.family = "bar" /\ Rose(s.relative)}
  BY <1>1 DEF RenderFallback
<1> HIDE DEF groups, summaries, bars, total, n
<1>7. ASSUME Len(total.shares) = Len(bars)
      PROVE  ListTotal([k \in DOMAIN total.shares |-> total.shares[k].value]) = total.totals[Len(total.totals)]
  BY <1>3, <1>7, SharesAre DEF HavePeriods
<1>8. ASSUME shared, IsInjective(total.periods), Rose(total.relative) PROVE a.fallback.risingBars # {}
  <2>1. TotalAt(bars, total.periods[n]) > TotalAt(bars, total.periods[1])
    BY <1>3, <1>8 DEF Rose, PercentageChange
  <2>2. PICK b \in DOMAIN bars : bars[b].points[Len(bars[b].points)].y > bars[b].points[1].y
    BY <1>3, <1>8, <2>1, TotalRises DEF n
  <2>3. bars[b] \in ToSet(bars)
    BY DEF ToSet
  <2>4. PICK i \in DOMAIN groups : groups[i] = bars[b] /\ bars[b].family = "bar"
    BY <1>4, <2>3 DEF ToSet
  <2> DEFINE s == summaries[i]
             from == bars[b].points[1].y
             to == bars[b].points[Len(bars[b].points)].y
  <2>5. s.family = "bar" /\ s.temporal = Temporal(CategoriesOf(bars[b].points)) /\ s.relative = PercentageChange(from, to)
    BY <1>5, <2>4 DEF SumsUp
  <2>6. CategoriesOf(bars[b].points) = total.periods /\ from > 0 /\ to > from
    BY <1>8, <2>2
  <2>7. from \in Int
    <3>1. SoundGroup(bars[b])
      BY <1>3 DEF HavePeriods
    <3>2. 1 \in DOMAIN bars[b].points
      BY <3>1, FirstHolds DEF SoundGroup, IsList
    <3> QED
      BY <3>1, <3>2 DEF SoundGroup
  <2>8. s \in ToSet(summaries)
    BY <1>5 DEF ToSet
  <2> HIDE DEF s, from, to
  <2>9. s.temporal
    BY <1>3, <2>5, <2>6
  <2>10. Rose(s.relative)
    <3>1. from # 0
      BY <2>6, <2>7
    <3>2. s.relative = <<from, to>>
      BY <2>5, <3>1 DEF PercentageChange
    <3> QED
      BY <2>6, <3>2 DEF Rose
  <2> QED
    BY <1>6, <2>5, <2>8, <2>9, <2>10
<1> QED
  BY <1>7, <1>8

\* An answer of one claim names the series that it does.
LEMMA OneClaim ==
    ASSUME NEW names PROVE SeriesOf(<<[series |-> names]>>) = names
BY DEF SeriesOf

LEMMA ScopeEnforcedHolds ==
    ASSUME NEW cube, SoundCube(cube), NEW elements, NEW stacked, NEW request,
           NEW a, AnalysisOf(a, cube, elements, stacked, request)
    PROVE  ScopeEnforced(a, elements)
<1> DEFINE summaries == Summaries(cube)
           members == NamesOf(summaries)
           all == UNION {{elements[e].series[g].name : g \in DOMAIN elements[e].series} : e \in DOMAIN elements}
           Names(f) == [i \in DOMAIN OfFamily(summaries, f) |-> OfFamily(summaries, f)[i].name]
           Least(names) == IF Contains(request.counts, Len(names)) THEN Min({2, Len(names)}) ELSE 1
           families == {[names |-> Names(f), minimum |-> Least(Names(f))] :
                          f \in {s.family : s \in ToSet(summaries)} \cap {"bar", "line"}}
<1>1. IsList(summaries)
  BY SummariesHold
<1>2. a.fallback.members = members
  <2>1. a.fallback = RenderFallback(summaries)
    BY DEF AnalysisOf
  <2>2. RenderFallback(summaries).members = members
    BY DEF RenderFallback
  <2> QED
    BY <2>1, <2>2
<1>3. a.scope.excluded = all \ members /\ a.scope.families = families
  <2>1. a.scope = ScopeMetadata(elements, summaries, request)
    BY DEF AnalysisOf
  <2>2. ScopeMetadata(elements, summaries, request) = [noMapping |-> TRUE, excluded |-> all \ members, families |-> families]
    BY Zenon DEF ScopeMetadata
  <2> HIDE DEF all, members, families
  <2> QED
    BY <2>1, <2>2
<1>4. ASSUME NEW f
      PROVE  /\ IsList(Names(f)) /\ Least(Names(f)) \in Int
             /\ \A i \in DOMAIN Names(f) : Names(f)[i] \in members
  <2> DEFINE chosen == OfFamily(summaries, f)
             names == Names(f)
  <2>1. IsList(chosen) /\ ToSet(chosen) \subseteq ToSet(summaries)
    <3> HIDE DEF summaries
    <3> QED
      BY <1>1, OfFamilyHolds
  <2>2. \A s \in ToSet(summaries) : s.name \in members
    BY DEF ToSet, NamesOf
  <2> HIDE DEF chosen, members
  <2>3. names = [i \in DOMAIN chosen |-> names[i]] /\ \A i \in DOMAIN chosen : names[i] = chosen[i].name
    BY DEF chosen
  <2> HIDE DEF names
  <2>4. IsList(names) /\ DOMAIN names = DOMAIN chosen /\ Len(names) \in Nat
    BY <2>1, <2>3, ColumnList, ListShape
  <2>5. Least(names) \in Int
    <3>1. \A l \in Nat : Min({2, l}) \in Int
      BY MinOfTwo
    <3>2. Least(names) \in {1, Min({2, Len(names)})}
      OBVIOUS
    <3> HIDE DEF Least
    <3> QED
      BY <2>4, <3>1, <3>2
  <2>6. \A i \in DOMAIN names : names[i] \in members
    BY <2>1, <2>2, <2>3, <2>4 DEF ToSet
  <2> QED
    BY <2>4, <2>5, <2>6 DEF names
<1> HIDE DEF summaries, members, all, Names, Least
<1>5. OutsideScope(<<[series |-> members]>>, a.scope) = {}
  BY <1>3, OneClaim DEF OutsideScope
<1>6. MissingFamilies(<<[series |-> members]>>, a.scope) = {}
  <2> DEFINE answer == <<[series |-> members]>>
             Spoken(f) == {i \in DOMAIN f.names : f.names[i] \in SeriesOf(answer)}
  <2>1. MissingFamilies(answer, a.scope) = {f \in a.scope.families : Cardinality(Spoken(f)) < Min({f.minimum, Len(f.names)})}
    BY Zenon DEF MissingFamilies
  <2>2. SeriesOf(answer) = members
    BY OneClaim
  <2> HIDE DEF answer
  <2> SUFFICES ASSUME NEW f \in families PROVE ~(Cardinality(Spoken(f)) < Min({f.minimum, Len(f.names)}))
    BY <1>3, <2>1 DEF answer
  <2>3. PICK family : f.names = Names(family) /\ f.minimum = Least(Names(family))
    OBVIOUS
  <2>4. IsList(f.names) /\ f.minimum \in Int /\ Len(f.names) \in Nat /\ DOMAIN f.names = 1 .. Len(f.names)
    BY <1>4, <2>3, ListShape
  <2>5. Spoken(f) = 1 .. Len(f.names)
    BY <1>4, <2>2, <2>3, <2>4
  <2>6. Cardinality(1 .. Len(f.names)) = Len(f.names)
    <3>1. \A l \in Nat : Cardinality(1 .. l) = l
      BY FS_Interval
    <3> QED
      BY <2>4, <3>1
  <2>7. Min({f.minimum, Len(f.names)}) <= Len(f.names) /\ Min({f.minimum, Len(f.names)}) \in {f.minimum, Len(f.names)}
    <3>1. f.minimum \in Int /\ Len(f.names) \in Int
      BY <2>4
    <3> QED
      BY <3>1, MinOfTwo
  <2> HIDE DEF Spoken
  <2> QED
    BY <2>4, <2>5, <2>6, <2>7
<1>7. ASSUME NEW e \in DOMAIN elements, NEW g \in DOMAIN elements[e].series, elements[e].series[g].name \notin members
      PROVE  OutsideScope(<<[series |-> members \cup {elements[e].series[g].name}]>>, a.scope) # {}
  <2> DEFINE name == elements[e].series[g].name
  <2>1. name \in all
    BY DEF all
  <2> HIDE DEF name
  <2>2. name \in (members \cup {name}) \cap (all \ members)
    BY <1>7, <2>1 DEF name
  <2>3. OutsideScope(<<[series |-> members \cup {name}]>>, a.scope) = (members \cup {name}) \cap (all \ members)
    BY <1>3, OneClaim DEF OutsideScope
  <2> QED
    BY <2>2, <2>3 DEF name
<1> QED
  BY <1>2, <1>5, <1>6, <1>7 DEF ScopeEnforced

\* What is told of the chart that is chosen, whichever charts were retrieved and
\* whatever the request is: the facts, the fallback text and the scope agree.
THEOREM ChartAnalysesRight == AnalysisSpec => []ChartAnalysesAreRight
<1> DEFINE Given == analysisInput.elements \in AnalysisChart
           Inv == Given /\ ChartAnalysesAreRight
<1>1. AnalysisInit => Inv
  BY DEF AnalysisInit, ChartAnalysesAreRight
<1>2. Inv /\ [AnalyzeCharts]_analysisVars => Inv'
  <2> SUFFICES ASSUME Inv, [AnalyzeCharts]_analysisVars PROVE Inv'
    OBVIOUS
  <2>1. CASE AnalyzeCharts
    <3> DEFINE elements == analysisInput.elements
               request == RequestSignature(analysisInput.plan)
               selected == SelectScope(elements, request, analysisInput.preferred)
    <3>1. /\ UNCHANGED analysisInput
          /\ analysis' = <<>> \/ \E cube \in selected : analysis' = Analysis(cube, elements, request)
      BY <2>1, Zenon DEF AnalyzeCharts
    <3>2. \A cube \in selected : SoundCube(cube)
      <4>1. \A cube \in ToSet(ChartScopes(elements)) : SoundCube(cube)
        BY AnalysisAssumption, ScopesHold
      <4>2. selected \subseteq ToSet(ChartScopes(elements))
        BY Zenon DEF SelectScope
      <4> QED
        BY <4>1, <4>2
    <3> HIDE DEF request, selected
    <3>3. ASSUME NEW cube \in selected, NEW a, a = Analysis(cube, elements, request)[1]
          PROVE  /\ SameLines(a) /\ TotalExplained(a) /\ ScopeEnforced(a, elements)
                 /\ \A i \in DOMAIN a.summaries : a.summaries[i].declines <= a.summaries[i].sincePeak
      <4> DEFINE stacked == \E e \in cube.places : elements[e].stacked
      <4>1. AnalysisOf(a, cube, elements, stacked, request) /\ SoundCube(cube)
        BY <3>2, <3>3, AnalysisIs
      <4> HIDE DEF stacked, elements
      <4>2. SameLines(a) /\ TotalExplained(a) /\ ScopeEnforced(a, elements)
        BY <4>1, SameLinesHold, TotalExplainedHolds, ScopeEnforcedHolds
      <4>3. \A i \in DOMAIN a.summaries : a.summaries[i].declines <= a.summaries[i].sincePeak
        BY <4>1, SummariesHold DEF AnalysisOf, SumsUp
      <4> QED
        BY <4>2, <4>3
    <3>4. ChartAnalysesAreRight'
      <4> SUFFICES ASSUME analysis' # <<>>
                   PROVE  /\ SameLines(analysis'[1]) /\ TotalExplained(analysis'[1]) /\ ScopeEnforced(analysis'[1], analysisInput'.elements)
                          /\ \A i \in DOMAIN analysis'[1].summaries :
                               analysis'[1].summaries[i].declines <= analysis'[1].summaries[i].sincePeak
        BY Zenon DEF ChartAnalysesAreRight, SameLines, TotalExplained, ScopeEnforced
      <4> QED
        BY <3>1, <3>3
    <3> QED
      BY <3>1, <3>4
  <2>2. CASE UNCHANGED analysisVars
    BY <2>2 DEF analysisVars, ChartAnalysesAreRight
  <2> QED
    BY <2>1, <2>2
<1> QED
  BY <1>1, <1>2, PTL DEF AnalysisSpec
====

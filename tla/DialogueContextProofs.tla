---- MODULE DialogueContextProofs ----
(***************************************************************************)
(* Theorems about DialogueContext for every number of turns, every budget, *)
(* every list limit and every answer of the summary model.                 *)
(***************************************************************************)
EXTENDS DialogueContext, SequencePartsProofs, FiniteSetTheorems

-----------------------------------------------------------------------------
(* The context of a run.                                                   *)

\* Every question that was asked has its snapshot, and only an asked one was
\* worked on.
SnapshotInv ==
    /\ DOMAIN turnStatus = Turn /\ DOMAIN used = Turn
    /\ \A t \in Turn : turnStatus[t] # "none" => t \in DOMAIN snapshot
    /\ \A t \in Turn : turnStatus[t] = "none" => used[t] = {}
    /\ AttemptsShareContext

\* No step changes a snapshot that is there.
LEMMA SnapshotStep == SnapshotInv /\ [DialogueNext]_dialogueVars => SnapshotInv'
<1> SUFFICES ASSUME SnapshotInv, [DialogueNext]_dialogueVars PROVE SnapshotInv'
  OBVIOUS
<1> USE DEF SnapshotInv, AttemptsShareContext
<1>1. ASSUME NEW t \in Turn, AskTurn(t) PROVE SnapshotInv'
  BY <1>1 DEF AskTurn
<1>2. ASSUME NEW t \in Turn, PrepareTurn(t) PROVE SnapshotInv'
  <2>1. turnStatus[t] = "open" /\ LoadOrCreate(t) = snapshot[t]
    BY <1>2 DEF PrepareTurn, OpenTurns, LoadOrCreate
  <2> QED
    BY <1>2, <2>1 DEF PrepareTurn
<1>3. ASSUME NEW t \in Turn, NEW outcome \in {"completed", "failed"}, FinishTurn(t, outcome) PROVE SnapshotInv'
  BY <1>3 DEF FinishTurn, OpenTurns
<1>4. ASSUME UNCHANGED <<turnStatus, snapshot, used>> PROVE SnapshotInv'
  BY <1>4
<1>5. ASSUME NEW t \in Turn, ReadRefresh(t) \/ WriteRefresh(t) \/ LoseRefresh(t) PROVE SnapshotInv'
  BY <1>4, <1>5 DEF ReadRefresh, WriteRefresh, LoseRefresh
<1>6. ASSUME UNCHANGED dialogueVars PROVE SnapshotInv'
  BY <1>4, <1>6 DEF dialogueVars
<1> QED
  BY <1>1, <1>2, <1>3, <1>5, <1>6 DEF DialogueNext

\* Every attempt of a run works with the context that was frozen when its
\* question was asked, whatever was answered, summarized or refreshed since
\* (load_or_create).
THEOREM AttemptsKeepTheirContext == DialogueSpec => []AttemptsShareContext
<1>1. DialogueInit => SnapshotInv
  BY DEF DialogueInit, SnapshotInv, AttemptsShareContext
<1>2. SnapshotInv => AttemptsShareContext
  BY DEF SnapshotInv
<1> QED
  BY <1>1, <1>2, SnapshotStep, PTL DEF DialogueSpec

-----------------------------------------------------------------------------
(* Lists without repetitions.                                              *)

NoRepeats(s) == \A i \in DOMAIN s, k \in DOMAIN s : s[i] = s[k] => i = k
Has(s, e) == \E i \in DOMAIN s : s[i] = e

\* The library's Contains by place.
LEMMA HasIsContains == ASSUME NEW s, IsList(s), NEW e PROVE Contains(s, e) <=> Has(s, e)
<1>1. DOMAIN s = 1 .. Len(s)
  BY ListShape
<1> QED
  BY <1>1, Zenon DEF Contains, Has

\* The steps of FirstOfEach, which have a value.
Unrepeats(kept, values) ==
    /\ kept[0] = <<>>
    /\ \A i \in 1 .. Len(values) : kept[i] = IF Contains(kept[i - 1], values[i]) THEN kept[i - 1]
                                             ELSE Append(kept[i - 1], values[i])

LEMMA FirstOfEachSteps ==
    ASSUME NEW S, NEW values \in Seq(S)
    PROVE  \E kept : Unrepeats(kept, values) /\ FirstOfEach(values) = kept[Len(values)]
<1> DEFINE N == Len(values)
           X == Seq(S)
           Step(i, s) == IF Contains(s, values[i]) THEN s ELSE Append(s, values[i])
           Kept(f) == f = [n \in 0 .. N |-> IF n = 0 THEN <<>>
                             ELSE IF Contains(f[n - 1], values[n]) THEN f[n - 1] ELSE Append(f[n - 1], values[n])]
           kept == CHOOSE f : Kept(f)
<1>1. N \in Nat /\ DOMAIN values = 1 .. N
  OBVIOUS
<1>2. <<>> \in X /\ \A i \in 1 .. N : \A s \in X : Step(i, s) \in X
  OBVIOUS
<1>3. FirstOfEach(values) = kept[N]
  BY DEF FirstOfEach
<1> HIDE DEF N, X
<1>4. \E f : Kept(f)
  <2> DEFINE next == [i \in 1 .. N |-> [s \in X |-> Step(i, s)]]
  <2>1. next \in StepsOn(X, N)
    BY <1>2 DEF StepsOn
  <2>2. \A i \in 1 .. N : \A s \in X : next[i][s] = Step(i, s)
    OBVIOUS
  <2> HIDE DEF next
  <2>3. PICK f : Follows(f, X, N, <<>>, next)
    BY <1>1, <1>2, <2>1, Recursion
  <2>4. \A i \in 1 .. N : f[i] = Step(i, f[i - 1])
    <3>1. \A i \in 1 .. N : f[i - 1] \in X
      BY <1>1, <2>3 DEF Follows
    <3> HIDE DEF Step
    <3> QED
      BY <2>2, <2>3, <3>1 DEF Follows
  <2>5. ASSUME NEW n \in 0 .. N
        PROVE  f[n] = IF n = 0 THEN <<>>
                      ELSE IF Contains(f[n - 1], values[n]) THEN f[n - 1] ELSE Append(f[n - 1], values[n])
    <3>1. n = 0 \/ n \in 1 .. N
      BY <1>1
    <3>2. CASE n = 0
      BY <2>3, <3>2 DEF Follows
    <3>3. CASE n # 0
      BY <2>4, <3>1, <3>3
    <3> QED
      BY <3>2, <3>3
  <2>6. Kept(f)
    BY <2>3, <2>5 DEF Follows
  <2> QED
    BY <2>6
<1>5. Kept(kept)
  BY <1>4
<1> HIDE DEF kept
<1>6. \A i \in 1 .. N : i \in 0 .. N /\ i # 0
  BY <1>1
<1>7. kept[0] = <<>>
  <2>1. 0 \in 0 .. N
    BY <1>1
  <2> QED
    BY <1>5, <2>1
<1>8. ASSUME NEW i \in 1 .. N
      PROVE  kept[i] = IF Contains(kept[i - 1], values[i]) THEN kept[i - 1] ELSE Append(kept[i - 1], values[i])
  BY <1>5, <1>6
<1>9. Unrepeats(kept, values)
  BY <1>7, <1>8 DEF Unrepeats, N
<1> QED
  BY <1>3, <1>9 DEF N

\* One more value at the end, unless it is there.
LEMMA OneMoreValue ==
    ASSUME NEW S, NEW s \in Seq(S), NoRepeats(s), NEW e \in S
    PROVE  LET new == IF Contains(s, e) THEN s ELSE Append(s, e) IN
           /\ new \in Seq(S) /\ NoRepeats(new) /\ Has(new, e) /\ Len(new) >= Len(s)
           /\ \A x : Has(s, x) => Has(new, x)
           /\ \A x : Has(new, x) => Has(s, x) \/ x = e
           /\ ~Has(s, e) => Len(new) = Len(s) + 1
<1>1. Contains(s, e) <=> Has(s, e)
  BY HasIsContains, ListOf
<1> DEFINE longer == Append(s, e)
           n == Len(s)
<1>2. /\ longer \in Seq(S) /\ n \in Nat /\ Len(longer) = n + 1 /\ DOMAIN s = 1 .. n /\ DOMAIN longer = 1 .. n + 1
      /\ longer[n + 1] = e /\ \A i \in 1 .. n : longer[i] = s[i]
  OBVIOUS
<1> HIDE DEF longer, n
<1>3. CASE Has(s, e)
  BY <1>1, <1>2, <1>3 DEF n
<1>4. CASE ~Has(s, e)
  <2>1. \A i \in 1 .. n : s[i] # e
    BY <1>2, <1>4 DEF Has
  <2>2. ASSUME NEW i \in 1 .. n + 1, NEW k \in 1 .. n + 1, longer[i] = longer[k] PROVE i = k
    <3>1. (i \in 1 .. n \/ i = n + 1) /\ (k \in 1 .. n \/ k = n + 1)
      BY <1>2
    <3>2. \A a \in 1 .. n, b \in 1 .. n : s[a] = s[b] => a = b
      BY <1>2 DEF NoRepeats
    <3> QED
      BY <1>2, <2>1, <2>2, <3>1, <3>2
  <2>3. NoRepeats(longer)
    BY <1>2, <2>2 DEF NoRepeats
  <2>4. \A i \in 1 .. n : i \in 1 .. n + 1
    BY <1>2
  <2>5. n + 1 \in 1 .. n + 1
    BY <1>2
  <2>6. Has(longer, e) /\ \A x : Has(s, x) => Has(longer, x)
    BY <1>2, <2>4, <2>5 DEF Has
  <2>7. ASSUME NEW x, Has(longer, x) PROVE Has(s, x) \/ x = e
    <3>1. PICK i \in 1 .. n + 1 : longer[i] = x
      BY <1>2, <2>7 DEF Has
    <3>2. i \in 1 .. n \/ i = n + 1
      BY <1>2
    <3> QED
      BY <1>2, <3>1, <3>2 DEF Has
  <2>8. (IF Contains(s, e) THEN s ELSE longer) = longer
    BY <1>1, <1>4
  <2>9. n + 1 >= n
    BY <1>2
  <2> QED
    BY <1>2, <2>3, <2>6, <2>7, <2>8, <2>9 DEF n, longer
<1> QED
  BY <1>3, <1>4

\* What is left has every value once; values that begin with m different ones
\* leave m at least.
LEMMA FirstOfEachHolds ==
    ASSUME NEW S, NEW values \in Seq(S), NEW m \in 0 .. Len(values),
           \A i \in 1 .. m, k \in 1 .. m : values[i] = values[k] => i = k
    PROVE  LET kept == FirstOfEach(values) IN
           /\ kept \in Seq(S) /\ NoRepeats(kept) /\ Len(kept) >= m
           /\ \A i \in DOMAIN values : Has(kept, values[i])
<1> DEFINE N == Len(values)
<1>1. N \in Nat /\ DOMAIN values = 1 .. N /\ \A i \in 1 .. N : values[i] \in S
  OBVIOUS
<1>2. PICK kept : Unrepeats(kept, values) /\ FirstOfEach(values) = kept[N]
  BY FirstOfEachSteps
<1> DEFINE Good(s, n) ==
             /\ s \in Seq(S) /\ NoRepeats(s)
             /\ \A i \in 1 .. n : Has(s, values[i])
             /\ \A x : Has(s, x) => \E i \in 1 .. n : x = values[i]
             /\ n <= m => Len(s) >= n
             /\ n >= m => Len(s) >= m
           Holds == {n \in 0 .. N : Good(kept[n], n)}
<1>3. 0 \in Holds
  <2>1. kept[0] = <<>> /\ 0 \in 0 .. N
    BY <1>1, <1>2 DEF Unrepeats
  <2>2. <<>> \in Seq(S) /\ Len(<<>>) = 0 /\ DOMAIN <<>> = {} /\ 1 .. 0 = {}
    OBVIOUS
  <2>3. NoRepeats(<<>>) /\ \A x : ~Has(<<>>, x)
    BY <2>2 DEF NoRepeats, Has
  <2>4. Good(<<>>, 0)
    BY <1>1, <2>2, <2>3
  <2> HIDE DEF Good
  <2> QED
    BY <2>1, <2>4
<1>4. ASSUME NEW n \in 1 .. N, n - 1 \in Holds PROVE n \in Holds
  <2> DEFINE before == kept[n - 1]
             e == values[n]
             new == IF Contains(before, e) THEN before ELSE Append(before, e)
  <2>1. Good(before, n - 1) /\ e \in S
    BY <1>1, <1>4
  <2>2. kept[n] = new
    BY <1>2 DEF Unrepeats
  <2> HIDE DEF before, e
  <2>3. before \in Seq(S) /\ NoRepeats(before)
    BY <2>1
  <2>4. /\ new \in Seq(S) /\ NoRepeats(new) /\ Has(new, e) /\ Len(new) >= Len(before)
        /\ \A x : Has(before, x) => Has(new, x)
        /\ \A x : Has(new, x) => Has(before, x) \/ x = e
        /\ ~Has(before, e) => Len(new) = Len(before) + 1
    BY <2>1, <2>3, OneMoreValue
  <2> HIDE DEF new
  <2>5. \A i \in 1 .. n : i = n \/ i \in 1 .. n - 1
    BY <1>1
  <2>6. \A i \in 1 .. n - 1 : i \in 1 .. n
    BY <1>1
  <2>7. \A i \in 1 .. n : Has(new, values[i])
    BY <2>1, <2>4, <2>5 DEF e
  <2>8. \A x : Has(new, x) => \E i \in 1 .. n : x = values[i]
    BY <2>1, <2>4, <2>6 DEF e
  <2> DEFINE a == Len(before)
             b == Len(new)
  <2>9. a \in Nat /\ b \in Nat /\ b >= a
    BY <2>3, <2>4
  <2>10. n <= m => ~Has(before, e)
    <3> SUFFICES ASSUME n <= m, Has(before, e) PROVE FALSE
      OBVIOUS
    <3>1. PICK i \in 1 .. n - 1 : e = values[i]
      BY <2>1
    <3>2. i \in 1 .. m /\ n \in 1 .. m /\ i # n
      BY <1>1
    <3> QED
      BY <3>1, <3>2 DEF e
  <2>11. (n <= m => b = a + 1) /\ (n - 1 <= m => a >= n - 1) /\ (n - 1 >= m => a >= m)
    BY <2>1, <2>4, <2>10
  <2> HIDE DEF a, b
  <2>12. (n <= m => b >= n) /\ (n >= m => b >= m)
    BY <1>1, <2>9, <2>11
  <2>13. Good(new, n)
    BY <2>4, <2>7, <2>8, <2>12 DEF b
  <2> HIDE DEF Good
  <2> QED
    BY <1>1, <2>2, <2>13
<1>5. N \in Holds
  <2> HIDE DEF Holds
  <2>1. \A i \in 1 .. N : i - 1 \in Holds => i \in Holds
    BY <1>4
  <2>2. \A i \in 0 .. N : i \in Holds
    BY <1>1, <1>3, <2>1, Induction
  <2> QED
    BY <1>1, <2>2
<1> QED
  BY <1>1, <1>2, <1>5

\* The last entries of a list, all of them when they are few.
LEMMA KeepLastHolds ==
    ASSUME NEW S, NEW s \in Seq(S), NoRepeats(s), NEW n \in Nat \ {0}
    PROVE  LET last == KeepLast(s, n) IN
           /\ last \in Seq(S) /\ NoRepeats(last) /\ Len(last) = IF Len(s) < n THEN Len(s) ELSE n
           /\ Len(s) < n => last = s
<1> DEFINE size == Len(s)
           kept == Min({n, size})
           from == size - kept + 1
           last == SubSeq(s, from, size)
<1>1. size \in Nat /\ n \in Int /\ size \in Int
  OBVIOUS
<1>2. kept = IF size < n THEN size ELSE n
  <2>1. kept \in {n, size} /\ kept <= n /\ kept <= size
    BY <1>1, MinOfTwo
  <2> HIDE DEF kept, size
  <2> QED
    BY <1>1, <2>1
<1>3. KeepLast(s, n) = last
  BY DEF KeepLast
<1> HIDE DEF kept
<1>4. from \in Nat \ {0} /\ from <= size + 1 /\ size - from + 1 = kept /\ kept \in Nat
  <2> HIDE DEF size
  <2> QED
    BY <1>1, <1>2
<1> HIDE DEF from, size
<1>5. /\ last \in Seq(S) /\ Len(last) = kept /\ DOMAIN last = 1 .. kept
      /\ \A i \in 1 .. kept : last[i] = s[from + i - 1]
  BY <1>1, <1>4 DEF size
<1>6. NoRepeats(last)
  <2>1. \A i \in 1 .. kept : from + i - 1 \in DOMAIN s
    BY <1>1, <1>4 DEF size
  <2> HIDE DEF last
  <2>2. ASSUME NEW i \in 1 .. kept, NEW k \in 1 .. kept, last[i] = last[k] PROVE i = k
    <3>1. from + i - 1 = from + k - 1
      BY <1>5, <2>1, <2>2 DEF NoRepeats
    <3> QED
      BY <1>4, <3>1
  <2> QED
    BY <1>5, <2>2 DEF NoRepeats
<1>7. size < n => last = s
  <2> SUFFICES ASSUME size < n PROVE last = s
    OBVIOUS
  <2>1. from = 1
    BY <1>1, <1>2, <1>4 DEF from
  <2> QED
    BY <2>1 DEF size
<1> HIDE DEF last
<1> QED
  BY <1>2, <1>3, <1>5, <1>6, <1>7 DEF size

\* A list that is not full after a merge has every entry of both its parts.
LEMMA DedupeHolds ==
    ASSUME NEW old, IsList(old), NoRepeats(old), NEW more, IsList(more),
           NEW field \in {"goals", "pending", "sources"}
    PROVE  LET new == Dedupe(old \o more, field) IN
           /\ IsList(new) /\ NoRepeats(new)
           /\ Len(new) < FieldLimit[field] =>
                /\ Len(old) < FieldLimit[field]
                /\ \A x : Has(old, x) \/ Has(more, x) => Has(new, x)
<1> DEFINE S == {old[i] : i \in DOMAIN old} \cup {more[i] : i \in DOMAIN more}
           values == old \o more
           kept == FirstOfEach(values)
           limit == FieldLimit[field]
           new == KeepLast(kept, limit)
           m == Len(old)
<1>1. old \in Seq(S) /\ more \in Seq(S)
  BY SeqMonotonic DEF IsList
<1> HIDE DEF S
<1>2. /\ values \in Seq(S) /\ m \in Nat /\ m \in 0 .. Len(values) /\ DOMAIN old = 1 .. m
      /\ \A i \in 1 .. m : values[i] = old[i]
  BY <1>1
<1>3. \A x : Has(old, x) \/ Has(more, x) => Has(values, x)
  <2>1. \A i \in DOMAIN old : i \in DOMAIN values /\ values[i] = old[i]
    BY <1>1
  <2>2. \A i \in DOMAIN more : m + i \in DOMAIN values /\ values[m + i] = more[i]
    BY <1>1
  <2> HIDE DEF values, m
  <2> QED
    BY <2>1, <2>2 DEF Has
<1> HIDE DEF values
<1>4. \A i \in 1 .. m, k \in 1 .. m : values[i] = values[k] => i = k
  BY <1>2 DEF NoRepeats
<1> HIDE DEF m
<1>5. kept \in Seq(S) /\ NoRepeats(kept) /\ Len(kept) >= m /\ \A i \in DOMAIN values : Has(kept, values[i])
  BY <1>2, <1>4, FirstOfEachHolds
<1> HIDE DEF kept
<1>6. limit \in Nat \ {0}
  BY DialogueAssumption
<1> HIDE DEF limit
<1>7. /\ new \in Seq(S) /\ NoRepeats(new) /\ Len(new) = IF Len(kept) < limit THEN Len(kept) ELSE limit
      /\ Len(kept) < limit => new = kept
  BY <1>5, <1>6, KeepLastHolds
<1>8. Dedupe(old \o more, field) = new
  BY DEF Dedupe, kept, values, limit
<1> HIDE DEF new
<1>9. ASSUME Len(new) < limit
      PROVE  m < limit /\ \A x : Has(old, x) \/ Has(more, x) => Has(new, x)
  <2> DEFINE a == Len(kept)
             b == Len(new)
  <2>1. a \in Nat /\ a >= m /\ (b = IF a < limit THEN a ELSE limit) /\ b < limit /\ (a < limit => new = kept)
    BY <1>5, <1>7, <1>9
  <2> HIDE DEF a, b
  <2>2. new = kept /\ m < limit
    BY <1>2, <1>6, <2>1
  <2>3. \A x : Has(values, x) => Has(kept, x)
    BY <1>5 DEF Has
  <2> QED
    BY <1>3, <2>2, <2>3
<1>10. IsList(new)
  BY <1>7, ListOf
<1> QED
  BY <1>7, <1>8, <1>9, <1>10 DEF limit, m

-----------------------------------------------------------------------------
(* The turns a summary takes in, and the latest row.                       *)

TurnStatus == [Turn -> {"none", "open", "completed", "failed"}]
FinishedIn(status) == {t \in Turn : status[t] \in {"completed", "failed"}}
Finished == FinishedIn(turnStatus)

\* The compactable turns are the first k, all of them finished, and of the first
\* n finished turns at most MaxRecent are not among them.
Compacts(turns, k) ==
    /\ turns \in Seq(Turn) /\ Len(turns) = k /\ \A i \in 1 .. k : turns[i] = i
    /\ 1 .. k \subseteq Finished
    /\ \A n \in Turn : 1 .. n \subseteq Finished => n - MaxRecent <= k

\* A part that ends before it begins.
LEMMA EmptyPart ==
    ASSUME NEW S, NEW s \in Seq(S), NEW n \in Int, n <= 0 PROVE SubSeq(s, 1, n) = <<>>
OBVIOUS

\* The finished turns that a refresh takes in are the first ones, without a gap.
LEMMA CompactableTurns == turnStatus \in TurnStatus => \E k \in 0 .. MaxTurn : Compacts(Compactable, k)
<1> SUFFICES ASSUME turnStatus \in TurnStatus PROVE \E k \in 0 .. MaxTurn : Compacts(Compactable, k)
  OBVIOUS
<1> DEFINE all == [t \in Turn |-> t]
           places == {t \in Turn : 1 .. t \subseteq Finished}
           m == Max({0} \cup places)
           k == IF m > MaxRecent THEN m - MaxRecent ELSE 0
<1>1. MaxTurn \in Nat \ {0} /\ MaxRecent \in Nat \ {0} /\ Turn = 1 .. MaxTurn
  BY DialogueAssumption DEF Turn
<1>2. m \in {0} \cup places /\ \A t \in places : t <= m
  <2>1. /\ {0} \cup places \subseteq Nat /\ {0} \cup places # {}
        /\ \A i \in {0} \cup places : i <= MaxTurn
    BY <1>1
  <2> HIDE DEF places
  <2> QED
    BY <1>1, <2>1, BoundedMax
<1> HIDE DEF m
<1>3. m \in 0 .. MaxTurn /\ 1 .. m \subseteq Finished
  BY <1>1, <1>2
<1>4. all \in Seq(Turn) /\ Len(all) = MaxTurn /\ DOMAIN all = Turn /\ \A i \in Turn : all[i] = i
  BY <1>1
<1>5. places \cap DOMAIN all = 1 .. m
  <2>1. ASSUME NEW t \in places PROVE t \in 1 .. m
    BY <1>1, <1>2, <2>1
  <2>2. ASSUME NEW t \in 1 .. m PROVE t \in places
    BY <1>1, <1>3, <2>2
  <2> HIDE DEF places, all
  <2>3. 1 .. m \subseteq Turn
    BY <1>1, <1>3
  <2> QED
    BY <1>4, <2>1, <2>2, <2>3
<1>6. CompletedTurns = KeepAt(all, places)
  <2>1. Asked \ OpenTurns = Finished
    BY DEF Asked, OpenTurns, Finished, FinishedIn, TurnStatus
  <2> QED
    BY <2>1, Zenon DEF CompletedTurns
<1> DEFINE completed == KeepAt(all, places)
<1>7. completed \in Seq(Turn) /\ Len(completed) = m /\ \A i \in 1 .. m : completed[i] = i
  <2> HIDE DEF all, places
  <2>1. m \in 0 .. Len(all)
    BY <1>3, <1>4
  <2>2. Len(completed) = m /\ \A i \in 1 .. m : completed[i] = all[i]
    BY <1>4, <1>5, <2>1, KeepAtPrefix
  <2> DEFINE T == {all[i] : i \in places \cap DOMAIN all}
  <2>3. completed \in Seq(T)
    BY <1>4, KeepAtSeq
  <2>4. T \subseteq Turn
    BY <1>4
  <2>5. Seq(T) \subseteq Seq(Turn)
    <3> HIDE DEF T
    <3> QED
      BY <2>4, SeqMonotonic
  <2>6. \A i \in 1 .. m : i \in Turn
    BY <1>1, <1>3
  <2> HIDE DEF completed, T
  <2> QED
    BY <1>4, <2>2, <2>3, <2>5, <2>6
<1> HIDE DEF completed, all
<1>8. Compactable = SubSeq(completed, 1, m - MaxRecent)
  BY <1>6, <1>7 DEF Compactable, completed
<1>9. k \in 0 .. MaxTurn /\ k <= m
  BY <1>1, <1>3
<1>10. Compactable \in Seq(Turn) /\ Len(Compactable) = k /\ \A i \in 1 .. k : Compactable[i] = i
  <2>1. CASE m > MaxRecent
    <3>1. k = m - MaxRecent /\ k \in 1 .. m
      BY <1>1, <1>3, <2>1
    <3> HIDE DEF k
    <3> QED
      BY <1>7, <1>8, <3>1
  <2>2. CASE ~(m > MaxRecent)
    <3>1. m - MaxRecent \in Int /\ m - MaxRecent <= 0 /\ k = 0
      BY <1>1, <1>3, <2>2
    <3>2. Compactable = <<>>
      BY <1>7, <1>8, <3>1, EmptyPart
    <3> QED
      BY <3>1, <3>2
  <2> QED
    BY <2>1, <2>2
<1>11. 1 .. k \subseteq Finished
  BY <1>3, <1>9
<1>12. ASSUME NEW n \in Turn, 1 .. n \subseteq Finished PROVE n - MaxRecent <= k
  <2>1. n <= m
    BY <1>2, <1>12
  <2> QED
    BY <1>1, <1>3, <2>1
<1> HIDE DEF k
<1> QED
  BY <1>9, <1>10, <1>11, <1>12 DEF Compacts

-----------------------------------------------------------------------------
\* The rows there are, by what they go through.
Bounded(rows) == \A r \in rows : r.through \in 0 .. 2 * MaxTurn

\* The latest of some rows.
IsLatest(row, rows) ==
    /\ rows = {} => row = [through |-> 0, summary |-> EmptySummary]
    /\ rows # {} => row \in rows
    /\ \A r \in rows : r.through <= row.through

\* The CHOOSE of LatestBelow is one of the rows, and the latest.
LEMMA LatestIsThere ==
    ASSUME NEW cutoff, Bounded(summaries)
    PROVE  IsLatest(LatestBelow(cutoff), {r \in summaries : r.through < cutoff})
<1> DEFINE rows == {r \in summaries : r.through < cutoff}
           T == {r.through : r \in rows}
<1>1. rows # {} => \E r \in rows : \A q \in rows : q.through <= r.through
  <2> SUFFICES ASSUME rows # {} PROVE \E r \in rows : \A q \in rows : q.through <= r.through
    OBVIOUS
  <2>1. T \subseteq Nat /\ T # {} /\ 2 * MaxTurn \in Nat /\ \A i \in T : i <= 2 * MaxTurn
    <3>1. 2 * MaxTurn \in Nat
      BY DialogueAssumption
    <3>2. \A i \in T : i \in 0 .. 2 * MaxTurn
      BY DEF Bounded
    <3>3. T # {}
      OBVIOUS
    <3> HIDE DEF T
    <3> QED
      BY <3>1, <3>2, <3>3
  <2> HIDE DEF T
  <2>2. Max(T) \in T /\ \A i \in T : i <= Max(T)
    BY <2>1, BoundedMax
  <2> QED
    BY <2>2 DEF T
<1>2. LatestBelow(cutoff) = IF rows = {} THEN [through |-> 0, summary |-> EmptySummary]
                            ELSE CHOOSE r \in rows : \A q \in rows : q.through <= r.through
  BY Zenon DEF LatestBelow
<1> HIDE DEF rows
<1> QED
  BY <1>1, <1>2 DEF IsLatest, rows

-----------------------------------------------------------------------------
(* What a row tells of the turns.                                          *)

\* What a summary tells of the turns it goes through.
Covers(status, summary, through) ==
    /\ IsList(summary.sources) /\ NoRepeats(summary.sources)
    /\ IsList(summary.pending) /\ NoRepeats(summary.pending)
    /\ \A t \in Turn : Through(t) <= through =>
          /\ t \in FinishedIn(status)
          /\ Len(summary.sources) < FieldLimit["sources"] => Has(summary.sources, t)
          /\ status[t] = "failed" /\ Len(summary.pending) < FieldLimit["pending"] =>
               Has(summary.pending, TurnQuestion[t])
RowOf(status, row) == (\E k \in 0 .. MaxTurn : row.through = 2 * k) /\ Covers(status, row.summary, row.through)

\* The summary a conversation begins with tells of no turn.
LEMMA EmptyCovers == \A status : Covers(status, EmptySummary, 0)
<1>1. IsList(<<>>) /\ NoRepeats(<<>>)
  BY DEF IsList, NoRepeats
<1>2. EmptySummary.sources = <<>> /\ EmptySummary.pending = <<>>
  BY DEF EmptySummary
<1>3. \A t \in Turn : ~(Through(t) <= 0)
  BY DialogueAssumption DEF Turn, Through
<1> QED
  BY <1>1, <1>2, <1>3 DEF Covers

\* Finished turns stay as they are, and so does what is said of them.
LEMMA RowStays ==
    ASSUME NEW status, NEW next, NEW row, RowOf(status, row),
           \A t \in FinishedIn(status) : next[t] = status[t]
    PROVE  RowOf(next, row)
<1>1. FinishedIn(status) \subseteq FinishedIn(next)
  BY DEF FinishedIn
<1> QED
  BY <1>1 DEF RowOf, Covers

\* What is kept of some places has all of them.
LEMMA KeptHas ==
    ASSUME NEW seq, IsList(seq), NEW places, NEW k \in places, k \in DOMAIN seq
    PROVE  IsList(KeepAt(seq, places)) /\ Has(KeepAt(seq, places), seq[k])
<1> DEFINE S == {seq[i] : i \in DOMAIN seq}
<1>1. seq \in Seq(S)
  BY DEF IsList
<1> HIDE DEF S
<1> QED
  BY <1>1, KeepAtAll, KeepAtList DEF Has

\* A merge covers what the summary before covered and the turns it adds.
LEMMA MergeCovers ==
    ASSUME NEW row, RowOf(turnStatus, row), NEW turns, NEW k \in 0 .. MaxTurn, Compacts(turns, k), NEW payload \in Payload
    PROVE  LET added == KeepAt(turns, {i \in DOMAIN turns : Through(turns[i]) > row.through})
           IN Covers(turnStatus, ModelEnhance(DeterministicMerge(row.summary, added), payload), 2 * k)
<1> DEFINE added == KeepAt(turns, {i \in DOMAIN turns : Through(turns[i]) > row.through})
           resolved == {i \in DOMAIN added : turnStatus[added[i]] = "completed"}
           failed == KeepAt(added, DOMAIN added \ resolved)
           asked == [i \in DOMAIN failed |-> TurnQuestion[failed[i]]]
           summary == row.summary
           sources == Dedupe(summary.sources \o added, "sources")
           pending == Dedupe(summary.pending \o asked, "pending")
           enhanced == Dedupe(pending \o payload.pending, "pending")
           new == ModelEnhance(DeterministicMerge(summary, added), payload)
<1>1. /\ turns \in Seq(Turn) /\ IsList(turns) /\ DOMAIN turns = 1 .. k /\ \A i \in 1 .. k : turns[i] = i
      /\ 1 .. k \subseteq Finished
  BY ListOf DEF Compacts
<1>2. IsList(added)
  BY <1>1, KeepAtList
<1>3. ASSUME NEW t \in 1 .. k, Through(t) > row.through PROVE Has(added, t)
  <2> DEFINE places == {i \in DOMAIN turns : Through(turns[i]) > row.through}
  <2>1. t \in places /\ t \in DOMAIN turns /\ turns[t] = t
    BY <1>1, <1>3
  <2> HIDE DEF places
  <2>2. Has(KeepAt(turns, places), turns[t])
    BY <1>1, <2>1, KeptHas
  <2> QED
    BY <2>1, <2>2 DEF places
<1> HIDE DEF added
<1>4. IsList(failed)
  BY <1>2, KeepAtList
<1>5. ASSUME NEW t, Has(added, t), turnStatus[t] = "failed" PROVE Has(failed, t)
  <2>1. PICK i \in DOMAIN added : added[i] = t
    BY <1>5 DEF Has
  <2> DEFINE places == DOMAIN added \ resolved
  <2>2. i \in places
    BY <1>5, <2>1
  <2> HIDE DEF places
  <2>3. Has(KeepAt(added, places), added[i])
    BY <1>2, <2>1, <2>2, KeptHas
  <2> QED
    BY <2>1, <2>3 DEF places
<1> HIDE DEF failed
<1>6. IsList(asked) /\ \A t : Has(failed, t) => Has(asked, TurnQuestion[t])
  <2>1. Len(failed) \in Nat /\ DOMAIN failed = 1 .. Len(failed)
    BY <1>4, ListShape
  <2>2. DOMAIN asked = 1 .. Len(failed) /\ asked = [i \in 1 .. Len(failed) |-> asked[i]]
    BY <2>1
  <2>3. \A t : Has(failed, t) => Has(asked, TurnQuestion[t])
    BY DEF Has
  <2> HIDE DEF asked
  <2> QED
    BY <2>1, <2>2, <2>3, ListByPlace
<1> HIDE DEF asked
<1>7. new.sources = sources /\ new.pending = enhanced
  <2> DEFINE goals == [i \in DOMAIN added |-> IF i \in resolved THEN Canonical[added[i]] ELSE TurnQuestion[added[i]]]
             merged == [goals |-> Dedupe(summary.goals \o goals, "goals"), pending |-> pending, sources |-> sources]
  <2>1. DeterministicMerge(summary, added) = merged
    BY Zenon DEF DeterministicMerge, asked, failed
  <2>2. merged.pending = pending /\ merged.sources = sources
    OBVIOUS
  <2>3. DOMAIN merged = {"goals", "pending", "sources"}
    OBVIOUS
  <2> HIDE DEF merged, pending, sources, summary
  <2>4. new = [merged EXCEPT !.goals = Dedupe(@ \o payload.goals, "goals"),
                             !.pending = Dedupe(@ \o payload.pending, "pending")]
    BY Zenon, <2>1 DEF ModelEnhance, new
  <2>5. new.sources = merged.sources /\ new.pending = Dedupe(merged.pending \o payload.pending, "pending")
    BY <2>3, <2>4
  <2> HIDE DEF new
  <2> QED
    BY <2>2, <2>5
<1>8. /\ IsList(summary.sources) /\ NoRepeats(summary.sources)
      /\ IsList(summary.pending) /\ NoRepeats(summary.pending)
  BY DEF RowOf, Covers
<1>9. /\ IsList(sources) /\ NoRepeats(sources)
      /\ Len(sources) < FieldLimit["sources"] =>
           /\ Len(summary.sources) < FieldLimit["sources"]
           /\ \A x : Has(summary.sources, x) \/ Has(added, x) => Has(sources, x)
  BY <1>2, <1>8, DedupeHolds
<1>10. /\ IsList(pending) /\ NoRepeats(pending)
       /\ Len(pending) < FieldLimit["pending"] =>
            /\ Len(summary.pending) < FieldLimit["pending"]
            /\ \A x : Has(summary.pending, x) \/ Has(asked, x) => Has(pending, x)
  BY <1>6, <1>8, DedupeHolds
<1>11. IsList(payload.pending)
  BY DialogueAssumption
<1> HIDE DEF sources, pending, new
<1>12. /\ IsList(enhanced) /\ NoRepeats(enhanced)
       /\ Len(enhanced) < FieldLimit["pending"] =>
            /\ Len(pending) < FieldLimit["pending"]
            /\ \A x : Has(pending, x) => Has(enhanced, x)
  BY <1>10, <1>11, DedupeHolds
<1> HIDE DEF enhanced
<1>13. ASSUME NEW t \in Turn, Through(t) <= 2 * k
       PROVE  /\ t \in FinishedIn(turnStatus)
              /\ Len(sources) < FieldLimit["sources"] => Has(sources, t)
              /\ turnStatus[t] = "failed" /\ Len(pending) < FieldLimit["pending"] => Has(pending, TurnQuestion[t])
  <2>1. t \in 1 .. k
    BY <1>13, DialogueAssumption DEF Turn, Through
  <2>2. t \in FinishedIn(turnStatus)
    BY <1>1, <2>1 DEF Finished
  <2>3. row.through \in Int /\ Through(t) \in Int
    BY <2>1, DialogueAssumption DEF RowOf, Through, Turn
  <2>4. CASE Through(t) <= row.through
    <3>1. /\ Len(summary.sources) < FieldLimit["sources"] => Has(summary.sources, t)
          /\ turnStatus[t] = "failed" /\ Len(summary.pending) < FieldLimit["pending"] =>
               Has(summary.pending, TurnQuestion[t])
      BY <2>4 DEF RowOf, Covers
    <3> HIDE DEF summary
    <3> QED
      BY <1>9, <1>10, <2>2, <3>1
  <2>5. CASE Through(t) > row.through
    <3>1. Has(added, t)
      BY <1>3, <2>1, <2>5
    <3>2. turnStatus[t] = "failed" => Has(asked, TurnQuestion[t])
      BY <1>5, <1>6, <3>1
    <3> HIDE DEF summary
    <3> QED
      BY <1>9, <1>10, <2>2, <3>1, <3>2
  <2> QED
    BY <2>3, <2>4, <2>5
<1>14. Covers(turnStatus, new, 2 * k)
  BY <1>7, <1>9, <1>13, <1>12 DEF Covers
<1> QED
  BY <1>14 DEF new, added

-----------------------------------------------------------------------------
(* What a question takes along.                                            *)

IsSelection(acc) == DOMAIN acc = {"turns", "remaining", "full", "truncated"}
Complete(acc) == ~acc.full /\ ~acc.truncated

\* A turn that is looked at is added, or the selection is not complete.
LEMMA SelectOne ==
    ASSUME NEW acc, IsSelection(acc), NEW t
    PROVE  LET next == Select(acc, t) IN
           /\ IsSelection(next) /\ next.turns \subseteq acc.turns \cup {t}
           /\ Complete(next) => Complete(acc) /\ next.turns = acc.turns \cup {t}
<1> DEFINE whole == UserTokens[t] + AssistantTokens[t]
           userBudget == Min({acc.remaining, Max({1, acc.remaining \div 3})})
           clipped == Truncated(UserTokens[t], userBudget) + Truncated(AssistantTokens[t], acc.remaining - userBudget)
           filled == [acc EXCEPT !.full = TRUE]
           added == [acc EXCEPT !.turns = @ \cup {t}, !.remaining = @ - whole]
           cut == [acc EXCEPT !.turns = {t}, !.remaining = @ - clipped, !.truncated = TRUE]
           next == Select(acc, t)
<1>1. next = filled \/ (next = added /\ ~acc.full) \/ next = cut
  <2>1. next = CASE acc.full \/ acc.remaining <= 0 -> filled
                 [] ~acc.full /\ acc.remaining >= whole -> added
                 [] ~acc.full /\ acc.remaining \in 1 .. whole - 1 /\ acc.turns # {} -> filled
                 [] OTHER -> cut
    BY Zenon DEF Select
  <2> HIDE DEF next, filled, added, cut, whole
  <2> QED
    BY <2>1
<1> HIDE DEF next, whole, clipped
<1>2. IsSelection(filled) /\ filled.turns = acc.turns
  BY DEF IsSelection
<1>3. ~Complete(filled)
  BY DEF Complete, IsSelection
<1>4. IsSelection(added) /\ added.turns = acc.turns \cup {t}
  BY DEF IsSelection
<1>5. added.full = acc.full /\ added.truncated = acc.truncated
  BY DEF IsSelection
<1>6. IsSelection(cut) /\ cut.turns = {t}
  BY DEF IsSelection
<1>7. ~Complete(cut)
  BY DEF Complete, IsSelection
<1> HIDE DEF filled, added, cut
<1>8. CASE next = filled
  BY <1>2, <1>3, <1>8 DEF next
<1>9. CASE next = added
  BY <1>4, <1>5, <1>9 DEF next, Complete
<1>10. CASE next = cut
  BY <1>6, <1>7, <1>10 DEF next
<1> QED
  BY <1>1, <1>8, <1>9, <1>10

\* The turns of a selection are among those looked at, and all of them when it
\* is complete.
LEMMA SelectionHolds ==
    ASSUME NEW newest, newest \subseteq Turn, NEW start, IsSelection(start), start.turns = {}
    PROVE  LET chosen == SelectNewest(newest, start) IN
           chosen.turns \subseteq newest /\ (Complete(chosen) => chosen.turns = newest)
<1> DEFINE N == MaxTurn
           Step(i, s) == IF N + 1 - i \in newest THEN Select(s, N + 1 - i) ELSE s
           Steps(f, n) == f = [i \in 0 .. n |-> IF i = 0 THEN start
                                 ELSE IF N + 1 - i \in newest THEN Select(f[i - 1], N + 1 - i) ELSE f[i - 1]]
           chosen == CHOOSE f : Steps(f, N)
<1>1. N \in Nat
  BY DialogueAssumption
<1>2. SelectNewest(newest, start) = chosen[N]
  BY Zenon DEF SelectNewest
<1> HIDE DEF N
<1>3. \E f : Steps(f, N)
  <2> DEFINE T == {n \in 0 .. N : \E f : Steps(f, n)}
  <2>1. 0 \in T
    <3> DEFINE f == [i \in 0 .. 0 |-> start]
    <3>1. ASSUME NEW i \in 0 .. 0
          PROVE  f[i] = IF i = 0 THEN start
                        ELSE IF N + 1 - i \in newest THEN Select(f[i - 1], N + 1 - i) ELSE f[i - 1]
      OBVIOUS
    <3>2. Steps(f, 0)
      BY <3>1
    <3> HIDE DEF f
    <3>3. \E g : Steps(g, 0)
      BY <3>2
    <3> HIDE DEF Steps
    <3> QED
      BY <1>1, <3>3
  <2>2. ASSUME NEW n \in 1 .. N, n - 1 \in T PROVE n \in T
    <3>1. PICK f : Steps(f, n - 1)
      BY <2>2
    <3> DEFINE last == IF N + 1 - n \in newest THEN Select(f[n - 1], N + 1 - n) ELSE f[n - 1]
               g == [i \in 0 .. n |-> IF i < n THEN f[i] ELSE last]
    <3>2. ASSUME NEW i \in 0 .. n
          PROVE  g[i] = IF i = 0 THEN start
                        ELSE IF N + 1 - i \in newest THEN Select(g[i - 1], N + 1 - i) ELSE g[i - 1]
      <4> HIDE DEF last
      <4>1. i # 0 => g[i - 1] = f[i - 1]
        BY <1>1
      <4>2. CASE i = n
        BY <1>1, <4>1, <4>2 DEF last
      <4>3. CASE i # n
        <5>1. i \in 0 .. n - 1 /\ i < n /\ g[i] = f[i]
          BY <1>1, <4>3
        <5>2. f[i] = IF i = 0 THEN start
                     ELSE IF N + 1 - i \in newest THEN Select(f[i - 1], N + 1 - i) ELSE f[i - 1]
          BY <3>1, <5>1
        <5> HIDE DEF g
        <5> QED
          BY <4>1, <5>1, <5>2
      <4> QED
        BY <4>2, <4>3
    <3>3. Steps(g, n)
      <4>1. g = [i \in 0 .. n |-> g[i]]
        OBVIOUS
      <4> HIDE DEF g
      <4> QED
        BY <3>2, <4>1
    <3> HIDE DEF g
    <3>4. \E h : Steps(h, n)
      BY <3>3
    <3> HIDE DEF Steps
    <3> QED
      BY <1>1, <3>4
  <2> HIDE DEF T
  <2>3. \A n \in 1 .. N : n - 1 \in T => n \in T
    BY <2>2
  <2>4. \A n \in 0 .. N : n \in T
    BY <1>1, <2>1, <2>3, Induction
  <2>5. N \in T
    BY <1>1, <2>4
  <2> QED
    BY <2>5 DEF T
<1>4. Steps(chosen, N)
  BY <1>3
<1> HIDE DEF chosen
<1>5. chosen[0] = start
  <2>1. 0 \in 0 .. N
    BY <1>1
  <2> QED
    BY <1>4, <2>1
<1>6. ASSUME NEW i \in 1 .. N PROVE chosen[i] = Step(i, chosen[i - 1])
  <2>1. i \in 0 .. N /\ i # 0
    BY <1>1
  <2> QED
    BY <1>4, <2>1
<1> DEFINE Seen(i) == {k \in newest : k > N - i}
           Good(s, i) == IsSelection(s) /\ s.turns \subseteq newest /\ (Complete(s) => s.turns = Seen(i))
           Holds == {i \in 0 .. N : Good(chosen[i], i)}
<1>7. 0 \in Holds
  <2>1. \A k \in Turn : ~(k > N - 0)
    BY DialogueAssumption DEF Turn, N
  <2>2. Seen(0) = {}
    BY <2>1
  <2>3. Good(start, 0)
    BY <2>2
  <2> HIDE DEF Good
  <2> QED
    BY <1>1, <1>5, <2>3
<1>8. ASSUME NEW i \in 1 .. N, i - 1 \in Holds PROVE i \in Holds
  <2> DEFINE before == chosen[i - 1]
             turn == N + 1 - i
  <2>1. Good(before, i - 1)
    BY <1>8
  <2>2. chosen[i] = IF turn \in newest THEN Select(before, turn) ELSE before
    BY <1>6
  <2>3. Seen(i) = IF turn \in newest THEN Seen(i - 1) \cup {turn} ELSE Seen(i - 1)
    <3>1. \A k \in Turn : k > N - i <=> (k > N - (i - 1) \/ k = turn)
      BY <1>1 DEF Turn
    <3> HIDE DEF turn
    <3> QED
      BY <3>1
  <2> HIDE DEF before, turn, Seen
  <2>4. CASE turn \in newest
    <3> DEFINE next == Select(before, turn)
    <3>1. /\ IsSelection(next) /\ next.turns \subseteq before.turns \cup {turn}
          /\ Complete(next) => Complete(before) /\ next.turns = before.turns \cup {turn}
      BY <2>1, SelectOne
    <3>2. chosen[i] = next
      BY <2>2, <2>4
    <3> HIDE DEF next
    <3>3. Good(next, i)
      BY <2>1, <2>3, <2>4, <3>1
    <3> HIDE DEF Good
    <3> QED
      BY <1>1, <3>2, <3>3
  <2>5. CASE turn \notin newest
    <3>1. Good(chosen[i], i)
      BY <2>1, <2>2, <2>3, <2>5
    <3> HIDE DEF Good
    <3> QED
      BY <1>1, <3>1
  <2> QED
    BY <2>4, <2>5
<1>9. N \in Holds
  <2> HIDE DEF Holds
  <2>1. \A i \in 1 .. N : i - 1 \in Holds => i \in Holds
    BY <1>8
  <2>2. \A i \in 0 .. N : i \in Holds
    BY <1>1, <1>7, <2>1, Induction
  <2> QED
    BY <1>1, <2>2
<1>10. Seen(N) = newest
  <2>1. \A k \in Turn : k > N - N
    BY DialogueAssumption DEF Turn, N
  <2> QED
    BY <2>1
<1> HIDE DEF Seen
<1> QED
  BY <1>2, <1>9, <1>10

-----------------------------------------------------------------------------
(* Faithful summaries.                                                     *)

\* What the turns are, what every row that is written or about to be says of
\* them, and what the snapshots took from it.
SummaryInv ==
    /\ turnStatus \in TurnStatus
    /\ \A r \in summaries : RowOf(turnStatus, r)
    /\ DOMAIN refresh = Turn
    /\ \A t \in Turn : refresh[t] \notin {NoContext, Due} => RowOf(turnStatus, refresh[t])
    /\ Asked \subseteq DOMAIN snapshot
    /\ \A t \in DOMAIN snapshot : \A k \in snapshot[t].history : Cutoff(k) > snapshot[t].through /\ k < t

\* Rows that leave at most MaxRecent of the turns that were finished in a row.
Settles(seen, rows) ==
    \A n \in Turn : 1 .. n \subseteq FinishedIn(seen) =>
        n <= MaxRecent \/ \E r \in rows : 2 * (n - MaxRecent) <= r.through

\* The rows suffice for what the last refresh saw, and with the one it is about
\* to write for what any refresh has seen; the turns are asked one after another.
ForgetInv ==
    /\ SummaryInv
    /\ Settles(settled, summaries)
    /\ \A t \in Turn : refresh[t] \notin {NoContext, Due} => Settles(refresh[t].seen, summaries \cup {refresh[t]})
    /\ \A t \in Asked : 1 .. t \subseteq Asked

\* What a snapshot takes: from the latest row before the question, and from the
\* completed turns after it, the newest of them, all of these unless the tokens
\* do not suffice.
LEMMA BuildHolds ==
    ASSUME NEW t
    PROVE  LET row == LatestBelow(Cutoff(t))
               recent == RecentTurns(row.through, Cutoff(t))
           IN /\ Build(t).through = row.through
              /\ Build(t).history \subseteq recent
              /\ ~Build(t).overBudget =>
                   Build(t).history = {k \in recent : Cardinality({j \in recent : j > k}) < MaxRecent}
<1> DEFINE row == LatestBelow(Cutoff(t))
           summary == FitSummary(row.summary)
           recent == RecentTurns(row.through, Cutoff(t))
           newest == {k \in recent : Cardinality({j \in recent : j > k}) < MaxRecent}
           start == [turns |-> {}, remaining |-> TokenBudget - Tokens(summary), full |-> FALSE, truncated |-> FALSE]
           chosen == SelectNewest(newest, start)
           built == [through |-> row.through, summary |-> summary, history |-> chosen.turns,
                     overBudget |-> chosen.full \/ chosen.truncated]
<1>1. Build(t) = built
  BY Zenon DEF Build
<1>2. IsSelection(start) /\ start.turns = {}
  BY DEF IsSelection
<1>3. recent \subseteq Turn /\ newest \subseteq recent
  BY DEF RecentTurns
<1> HIDE DEF start, newest, recent
<1>4. chosen.turns \subseteq newest /\ (Complete(chosen) => chosen.turns = newest)
  BY <1>2, <1>3, SelectionHolds
<1> HIDE DEF chosen
<1>5. /\ built.through = row.through /\ built.history = chosen.turns
      /\ built.overBudget = (chosen.full \/ chosen.truncated)
  OBVIOUS
<1> HIDE DEF built, row
<1>6. Build(t).through = row.through /\ Build(t).history \subseteq recent
  BY <1>1, <1>3, <1>4, <1>5
<1>7. ~Build(t).overBudget => Build(t).history = newest
  BY <1>1, <1>4, <1>5 DEF Complete
<1> QED
  BY <1>6, <1>7 DEF recent, newest, row

\* What is bounded of the rows.
LEMMA RowsBounded ==
    ASSUME SummaryInv PROVE Bounded(summaries)
<1>1. ASSUME NEW k \in 0 .. MaxTurn PROVE 2 * k \in 0 .. 2 * MaxTurn
  BY DialogueAssumption
<1> QED
  BY <1>1 DEF SummaryInv, RowOf, Bounded

\* The latest row below any cutoff tells of the turns as the rows do.
LEMMA LatestCovers ==
    ASSUME SummaryInv, NEW cutoff
    PROVE  RowOf(turnStatus, LatestBelow(cutoff)) /\ IsLatest(LatestBelow(cutoff), {r \in summaries : r.through < cutoff})
<1> DEFINE rows == {r \in summaries : r.through < cutoff}
           row == LatestBelow(cutoff)
           none == [through |-> 0, summary |-> EmptySummary]
<1>1. IsLatest(row, rows)
  BY RowsBounded, LatestIsThere
<1>2. RowOf(turnStatus, none)
  <2>1. Covers(turnStatus, EmptySummary, 0)
    BY EmptyCovers
  <2>2. 0 \in 0 .. MaxTurn /\ 0 = 2 * 0
    BY DialogueAssumption
  <2>3. none.through = 0 /\ none.summary = EmptySummary
    OBVIOUS
  <2> HIDE DEF none
  <2> QED
    BY <2>1, <2>2, <2>3 DEF RowOf
<1>3. rows \subseteq summaries
  OBVIOUS
<1> HIDE DEF row, rows, none
<1>4. CASE rows = {}
  BY <1>1, <1>2, <1>4 DEF IsLatest, none, row, rows
<1>5. CASE rows # {}
  <2>1. row \in summaries
    BY <1>1, <1>3, <1>5 DEF IsLatest
  <2>2. RowOf(turnStatus, row)
    BY <2>1 DEF SummaryInv
  <2> QED
    BY <1>1, <2>2 DEF row, rows
<1> QED
  BY <1>4, <1>5

LEMMA SummaryInit == DialogueInit => SummaryInv
<1> SUFFICES ASSUME DialogueInit PROVE SummaryInv
  OBVIOUS
<1> USE DEF DialogueInit
<1>1. turnStatus \in TurnStatus
  BY DEF TurnStatus
<1>2. summaries = {} /\ DOMAIN refresh = Turn /\ \A t \in Turn : refresh[t] = NoContext
  OBVIOUS
<1>3. Asked = {} /\ DOMAIN snapshot = {}
  BY DEF Asked
<1> QED
  BY <1>1, <1>2, <1>3 DEF SummaryInv

\* A turn that is not finished changes, and every row stays true.
LEMMA TurnChanges ==
    ASSUME SummaryInv, NEW t \in Turn, t \notin Finished, NEW new \in {"open", "completed", "failed"},
           turnStatus' = [turnStatus EXCEPT ![t] = new]
    PROVE  /\ turnStatus' \in TurnStatus
           /\ \A row : RowOf(turnStatus, row) => RowOf(turnStatus', row)
           /\ Asked' = Asked \cup {t}
           /\ FinishedIn(turnStatus) \subseteq FinishedIn(turnStatus')
<1>1. turnStatus \in TurnStatus
  BY DEF SummaryInv
<1>2. \A k \in FinishedIn(turnStatus) : turnStatus'[k] = turnStatus[k]
  BY <1>1 DEF FinishedIn, Finished, TurnStatus
<1>3. \A row : RowOf(turnStatus, row) => RowOf(turnStatus', row)
  BY <1>2, RowStays
<1>4. turnStatus' \in TurnStatus
  BY <1>1 DEF TurnStatus
<1>5. Asked' = Asked \cup {t}
  BY <1>1 DEF TurnStatus, Asked
<1>6. FinishedIn(turnStatus) \subseteq FinishedIn(turnStatus')
  BY <1>2 DEF FinishedIn
<1> QED
  BY <1>3, <1>4, <1>5, <1>6

\* One lemma per step.
LEMMA AskKeepsSummaries == ASSUME SummaryInv, NEW t \in Turn, AskTurn(t) PROVE SummaryInv'
<1> DEFINE row == LatestBelow(Cutoff(t))
           taken == LoadOrCreate(t)
<1>1. /\ turnStatus[t] = "none" /\ turnStatus' = [turnStatus EXCEPT ![t] = "open"]
      /\ snapshot' = [k \in DOMAIN snapshot \cup {t} |-> IF k = t THEN taken ELSE snapshot[k]]
      /\ summaries' = summaries /\ refresh' = refresh
  BY Zenon DEF AskTurn
<1>2. /\ turnStatus' \in TurnStatus
      /\ \A r : RowOf(turnStatus, r) => RowOf(turnStatus', r)
      /\ Asked' = Asked \cup {t}
  BY <1>1, TurnChanges DEF Finished, FinishedIn
<1>3. \A k \in taken.history : Cutoff(k) > taken.through /\ k < t
  <2>1. CASE t \in DOMAIN snapshot
    BY <2>1 DEF LoadOrCreate, SummaryInv
  <2>2. CASE t \notin DOMAIN snapshot
    <3>1. taken = Build(t)
      BY <2>2 DEF LoadOrCreate
    <3>2. Build(t).through = row.through /\ Build(t).history \subseteq RecentTurns(row.through, Cutoff(t))
      BY BuildHolds
    <3>3. ASSUME NEW k \in RecentTurns(row.through, Cutoff(t)) PROVE Cutoff(k) > row.through /\ k < t
      BY <3>3, DialogueAssumption DEF RecentTurns, Cutoff, Turn
    <3> HIDE DEF row, taken
    <3> QED
      BY <3>1, <3>2, <3>3
  <2> QED
    BY <2>1, <2>2
<1> HIDE DEF taken
<1>4. /\ DOMAIN snapshot' = DOMAIN snapshot \cup {t} /\ snapshot'[t] = taken
      /\ \A k \in DOMAIN snapshot \ {t} : snapshot'[k] = snapshot[k]
  BY <1>1
<1>5. \A r \in summaries' : RowOf(turnStatus', r)
  BY <1>1, <1>2 DEF SummaryInv
<1>6. DOMAIN refresh' = Turn /\ \A k \in Turn : refresh'[k] \notin {NoContext, Due} => RowOf(turnStatus', refresh'[k])
  BY <1>1, <1>2 DEF SummaryInv
<1>7. Asked' \subseteq DOMAIN snapshot'
  BY <1>2, <1>4 DEF SummaryInv
<1>8. \A k \in DOMAIN snapshot' : \A j \in snapshot'[k].history : Cutoff(j) > snapshot'[k].through /\ j < k
  BY <1>3, <1>4 DEF SummaryInv
<1> QED
  BY <1>2, <1>5, <1>6, <1>7, <1>8 DEF SummaryInv, Cutoff

LEMMA FinishKeepsSummaries ==
    ASSUME SummaryInv, NEW t \in Turn, NEW outcome \in {"completed", "failed"}, FinishTurn(t, outcome) PROVE SummaryInv'
<1>1. /\ t \in OpenTurns /\ turnStatus' = [turnStatus EXCEPT ![t] = outcome]
      /\ refresh' = IF outcome = "completed" THEN [refresh EXCEPT ![t] = Due] ELSE refresh
      /\ snapshot' = snapshot /\ summaries' = summaries
  BY DEF FinishTurn
<1>2. turnStatus[t] = "open"
  BY <1>1 DEF OpenTurns
<1>3. /\ turnStatus' \in TurnStatus
      /\ \A r : RowOf(turnStatus, r) => RowOf(turnStatus', r)
      /\ Asked' = Asked \cup {t}
  BY <1>1, <1>2, TurnChanges DEF Finished, FinishedIn
<1>4. t \in Asked
  BY <1>2 DEF Asked
<1>5. DOMAIN refresh' = Turn
  BY <1>1 DEF SummaryInv
<1>6. ASSUME NEW k \in Turn, refresh'[k] \notin {NoContext, Due} PROVE RowOf(turnStatus', refresh'[k])
  <2>1. refresh'[k] = refresh[k]
    BY <1>1, <1>6 DEF SummaryInv
  <2> QED
    BY <1>3, <1>6, <2>1 DEF SummaryInv
<1> QED
  BY <1>1, <1>3, <1>4, <1>5, <1>6 DEF SummaryInv, Cutoff

\* What a refresh has computed covers the finished turns it read, or is the row
\* of no turn.
LEMMA ReadsARow ==
    ASSUME SummaryInv, NEW t \in Turn, ReadRefresh(t)
    PROVE  \E row, k : /\ refresh' = [refresh EXCEPT ![t] = row] /\ row.seen = turnStatus
                       /\ k \in 0 .. MaxTurn /\ Compacts(Compactable, k)
                       /\ RowOf(turnStatus, row) /\ (2 * k <= Latest.through \/ row.through = 2 * k)
<1> DEFINE turns == Compactable
           target == IF turns = <<>> THEN 0 ELSE Through(turns[Len(turns)])
           added == KeepAt(turns, {i \in DOMAIN turns : Through(turns[i]) > Latest.through})
           skipped == [through |-> 0, summary |-> EmptySummary, seen |-> turnStatus]
           Written(payload) == [through |-> target, seen |-> turnStatus,
                                summary |-> ModelEnhance(DeterministicMerge(Latest.summary, added), payload)]
<1>1. PICK payload \in Payload : refresh' = [refresh EXCEPT ![t] = IF target <= Latest.through THEN skipped ELSE Written(payload)]
  BY Zenon DEF ReadRefresh
<1>2. PICK k \in 0 .. MaxTurn : Compacts(turns, k)
  BY CompactableTurns DEF SummaryInv
<1> HIDE DEF turns
<1>3. target = 2 * k
  <2>1. k \in Nat /\ turns \in Seq(Turn) /\ Len(turns) = k /\ \A i \in 1 .. k : turns[i] = i
    BY <1>2, DialogueAssumption DEF Compacts
  <2>2. CASE k = 0
    BY <2>1, <2>2
  <2>3. CASE k # 0
    BY <2>1, <2>3 DEF Through
  <2> QED
    BY <2>2, <2>3
<1> HIDE DEF target
<1>4. RowOf(turnStatus, Latest)
  BY LatestCovers DEF Latest
<1> DEFINE latest == Latest
<1>5. CASE target <= latest.through
  <2>1. RowOf(turnStatus, skipped) /\ skipped.seen = turnStatus
    <3>1. Covers(turnStatus, EmptySummary, 0)
      BY EmptyCovers
    <3>2. 0 \in 0 .. MaxTurn /\ 0 = 2 * 0
      BY DialogueAssumption
    <3>3. skipped.through = 0 /\ skipped.summary = EmptySummary /\ skipped.seen = turnStatus
      OBVIOUS
    <3> HIDE DEF skipped
    <3> QED
      BY <3>1, <3>2, <3>3 DEF RowOf
  <2> HIDE DEF skipped, Written, latest
  <2>2. refresh' = [refresh EXCEPT ![t] = skipped]
    BY <1>1, <1>5 DEF latest
  <2> QED
    BY <1>2, <1>3, <1>5, <2>1, <2>2 DEF latest, turns
<1>6. CASE ~(target <= latest.through)
  <2> DEFINE row == Written(payload)
             summary == ModelEnhance(DeterministicMerge(Latest.summary, added), payload)
  <2>1. row.through = target /\ row.seen = turnStatus /\ row.summary = summary
    OBVIOUS
  <2>2. Covers(turnStatus, summary, 2 * k)
    <3> HIDE DEF summary
    <3> QED
      BY <1>2, <1>4, MergeCovers DEF summary
  <2>3. refresh' = [refresh EXCEPT ![t] = row]
    <3> HIDE DEF skipped, latest, added
    <3> QED
      BY <1>1, <1>6 DEF latest
  <2> HIDE DEF row, summary
  <2>4. RowOf(turnStatus, row)
    BY <1>3, <2>1, <2>2 DEF RowOf
  <2> QED
    BY <1>2, <1>3, <2>1, <2>3, <2>4 DEF turns
<1> QED
  BY <1>5, <1>6

LEMMA ReadKeepsSummaries == ASSUME SummaryInv, NEW t \in Turn, ReadRefresh(t) PROVE SummaryInv'
<1>1. PICK row : refresh' = [refresh EXCEPT ![t] = row] /\ RowOf(turnStatus, row)
  BY ReadsARow
<1>2. turnStatus' = turnStatus /\ summaries' = summaries /\ snapshot' = snapshot
  BY DEF ReadRefresh
<1>3. DOMAIN refresh' = Turn /\ \A k \in Turn : refresh'[k] = IF k = t THEN row ELSE refresh[k]
  BY <1>1 DEF SummaryInv
<1>4. \A k \in Turn : refresh'[k] \notin {NoContext, Due} => RowOf(turnStatus', refresh'[k])
  BY <1>1, <1>2, <1>3 DEF SummaryInv
<1> QED
  BY <1>2, <1>3, <1>4 DEF SummaryInv, Asked, Cutoff

LEMMA WriteKeepsSummaries == ASSUME SummaryInv, NEW t \in Turn, WriteRefresh(t) PROVE SummaryInv'
<1> DEFINE row == [through |-> refresh[t].through, summary |-> refresh[t].summary]
<1>1. /\ refresh[t] \notin {NoContext, Due}
      /\ summaries' \in {summaries, summaries \cup {row}}
      /\ refresh' = [refresh EXCEPT ![t] = NoContext]
      /\ turnStatus' = turnStatus /\ snapshot' = snapshot
  BY DEF WriteRefresh
<1>2. RowOf(turnStatus, row)
  <2>1. RowOf(turnStatus, refresh[t])
    BY <1>1 DEF SummaryInv
  <2>2. row.through = refresh[t].through /\ row.summary = refresh[t].summary
    OBVIOUS
  <2> HIDE DEF row
  <2> QED
    BY <2>1, <2>2 DEF RowOf
<1> HIDE DEF row
<1>3. \A r \in summaries' : RowOf(turnStatus', r)
  BY <1>1, <1>2 DEF SummaryInv
<1>4. DOMAIN refresh' = Turn /\ \A k \in Turn : refresh'[k] = IF k = t THEN NoContext ELSE refresh[k]
  BY <1>1 DEF SummaryInv
<1>5. \A k \in Turn : refresh'[k] \notin {NoContext, Due} => RowOf(turnStatus', refresh'[k])
  BY <1>1, <1>4 DEF SummaryInv
<1> QED
  BY <1>1, <1>3, <1>4, <1>5 DEF SummaryInv, Asked, Cutoff

LEMMA LoseKeepsSummaries == ASSUME SummaryInv, NEW t \in Turn, LoseRefresh(t) PROVE SummaryInv'
<1>1. /\ refresh' = [refresh EXCEPT ![t] = NoContext]
      /\ turnStatus' = turnStatus /\ summaries' = summaries /\ snapshot' = snapshot
  BY DEF LoseRefresh
<1>2. DOMAIN refresh' = Turn /\ \A k \in Turn : refresh'[k] = IF k = t THEN NoContext ELSE refresh[k]
  BY <1>1 DEF SummaryInv
<1>3. \A k \in Turn : refresh'[k] \notin {NoContext, Due} => RowOf(turnStatus', refresh'[k])
  BY <1>1, <1>2 DEF SummaryInv
<1> QED
  BY <1>1, <1>2, <1>3 DEF SummaryInv, Asked, Cutoff

\* No step makes a row untrue.
LEMMA SummaryStep == SummaryInv /\ [DialogueNext]_dialogueVars => SummaryInv'
<1> SUFFICES ASSUME SummaryInv, [DialogueNext]_dialogueVars PROVE SummaryInv'
  OBVIOUS
<1>1. ASSUME NEW t \in Turn, AskTurn(t) PROVE SummaryInv'
  BY <1>1, AskKeepsSummaries
<1>2. ASSUME NEW t \in Turn, PrepareTurn(t) PROVE SummaryInv'
  <2>1. turnStatus' = turnStatus /\ summaries' = summaries /\ snapshot' = snapshot /\ refresh' = refresh
    BY <1>2 DEF PrepareTurn
  <2> QED
    BY <2>1 DEF SummaryInv, Asked, Cutoff
<1>3. ASSUME NEW t \in Turn, NEW outcome \in {"completed", "failed"}, FinishTurn(t, outcome) PROVE SummaryInv'
  BY <1>3, FinishKeepsSummaries
<1>4. ASSUME NEW t \in Turn, ReadRefresh(t) PROVE SummaryInv'
  BY <1>4, ReadKeepsSummaries
<1>5. ASSUME NEW t \in Turn, WriteRefresh(t) PROVE SummaryInv'
  BY <1>5, WriteKeepsSummaries
<1>6. ASSUME NEW t \in Turn, LoseRefresh(t) PROVE SummaryInv'
  BY <1>6, LoseKeepsSummaries
<1>7. CASE UNCHANGED dialogueVars
  <2>1. turnStatus' = turnStatus /\ summaries' = summaries /\ snapshot' = snapshot /\ refresh' = refresh
    BY <1>7 DEF dialogueVars
  <2> QED
    BY <2>1 DEF SummaryInv, Asked, Cutoff
<1> QED
  BY <1>1, <1>2, <1>3, <1>4, <1>5, <1>6, <1>7 DEF DialogueNext

\* The property follows.
LEMMA SummariesHold == SummaryInv => SummariesAreFaithful
<1> SUFFICES ASSUME SummaryInv PROVE SummariesAreFaithful
  OBVIOUS
<1>1. ASSUME NEW r \in summaries, NEW t \in Turn, Through(t) <= r.through
      PROVE  /\ t \in Asked \ OpenTurns
             /\ Len(r.summary.sources) < FieldLimit["sources"] => Contains(r.summary.sources, t)
             /\ turnStatus[t] = "failed" /\ Len(r.summary.pending) < FieldLimit["pending"] =>
                  Contains(r.summary.pending, TurnQuestion[t])
  <2>1. Covers(turnStatus, r.summary, r.through)
    BY DEF SummaryInv, RowOf
  <2>2. t \in Asked \ OpenTurns
    BY <1>1, <2>1 DEF Covers, FinishedIn, Asked, OpenTurns
  <2>3. /\ Contains(r.summary.sources, t) <=> Has(r.summary.sources, t)
        /\ Contains(r.summary.pending, TurnQuestion[t]) <=> Has(r.summary.pending, TurnQuestion[t])
    BY <2>1, HasIsContains DEF Covers
  <2> QED
    BY <1>1, <2>1, <2>2, <2>3 DEF Covers
<1>2. \A t \in Asked : \A k \in snapshot[t].history : Cutoff(k) > snapshot[t].through /\ k < t
  BY DEF SummaryInv
<1> QED
  BY <1>1, <1>2 DEF SummariesAreFaithful

\* Whatever is summarized and when: a summary speaks of finished turns, without
\* a gap, and a context tells no turn twice.
THEOREM SummariesStayFaithful == DialogueSpec => []SummariesAreFaithful
<1>1. DialogueInit => SummaryInv
  BY SummaryInit
<1>2. SummaryInv /\ [DialogueNext]_dialogueVars => SummaryInv'
  BY SummaryStep
<1>3. SummaryInv => SummariesAreFaithful
  BY SummariesHold
<1> QED
  BY <1>1, <1>2, <1>3, PTL DEF DialogueSpec

-----------------------------------------------------------------------------
(* Nothing forgotten.                                                      *)

\* What a row goes through is a number.
LEMMA RowsAreNumbers == ASSUME NEW status, NEW row, RowOf(status, row) PROVE row.through \in Nat
<1>1. \A k \in 0 .. MaxTurn : 2 * k \in Nat
  BY DialogueAssumption
<1> QED
  BY <1>1 DEF RowOf

\* More rows settle as much.
LEMMA SettlesMore ==
    ASSUME NEW seen, NEW rows, NEW more, rows \subseteq more, Settles(seen, rows) PROVE Settles(seen, more)
BY DEF Settles

LEMMA ForgetInit == DialogueInit => ForgetInv
<1> SUFFICES ASSUME DialogueInit PROVE ForgetInv
  OBVIOUS
<1>1. SummaryInv
  BY SummaryInit
<1>2. Settles(settled, summaries)
  <2>1. FinishedIn(settled) = {}
    BY DEF DialogueInit, FinishedIn
  <2>2. \A n \in Turn : n \in 1 .. n
    BY DialogueAssumption DEF Turn
  <2> QED
    BY <2>1, <2>2 DEF Settles
<1>3. \A t \in Turn : refresh[t] = NoContext
  BY DEF DialogueInit
<1>4. Asked = {}
  BY DEF DialogueInit, Asked
<1> QED
  BY <1>1, <1>2, <1>3, <1>4 DEF ForgetInv

\* One lemma per step.
LEMMA AskForgetsNothing == ASSUME ForgetInv, NEW t \in Turn, AskTurn(t) PROVE ForgetInv'
<1>1. /\ turnStatus[t] = "none" /\ turnStatus' = [turnStatus EXCEPT ![t] = "open"]
      /\ \A k \in 1 .. t - 1 : turnStatus[k] # "none"
      /\ summaries' = summaries /\ refresh' = refresh /\ settled' = settled
  BY Zenon DEF AskTurn
<1>2. SummaryInv /\ SummaryInv'
  BY AskKeepsSummaries DEF ForgetInv
<1>3. Asked' = Asked \cup {t}
  BY <1>1, <1>2, TurnChanges DEF Finished, FinishedIn
<1>4. 1 .. t \subseteq Asked \cup {t}
  <2>1. t \in Nat /\ \A k \in 1 .. t : k \in Turn /\ (k \in 1 .. t - 1 \/ k = t)
    BY DialogueAssumption DEF Turn
  <2> QED
    BY <1>1, <2>1 DEF Asked
<1>5. \A k \in Asked' : 1 .. k \subseteq Asked'
  BY <1>3, <1>4 DEF ForgetInv
<1> QED
  BY <1>1, <1>2, <1>5 DEF ForgetInv, Settles, FinishedIn

LEMMA FinishForgetsNothing ==
    ASSUME ForgetInv, NEW t \in Turn, NEW outcome \in {"completed", "failed"}, FinishTurn(t, outcome) PROVE ForgetInv'
<1>1. /\ t \in OpenTurns /\ turnStatus' = [turnStatus EXCEPT ![t] = outcome]
      /\ refresh' = IF outcome = "completed" THEN [refresh EXCEPT ![t] = Due] ELSE refresh
      /\ summaries' = summaries /\ settled' = settled
  BY DEF FinishTurn
<1>2. SummaryInv /\ SummaryInv'
  BY FinishKeepsSummaries DEF ForgetInv
<1>3. turnStatus[t] = "open" /\ t \in Asked
  BY <1>1 DEF OpenTurns, Asked
<1>4. Asked' = Asked
  <2>1. t \notin Finished /\ outcome \in {"open", "completed", "failed"}
    BY <1>3 DEF Finished, FinishedIn
  <2>2. Asked' = Asked \cup {t}
    BY <1>1, <1>2, <2>1, TurnChanges
  <2> QED
    BY <1>3, <2>2
<1>5. ASSUME NEW k \in Turn, refresh'[k] \notin {NoContext, Due}
      PROVE  refresh'[k] = refresh[k]
  BY <1>1, <1>2, <1>5 DEF SummaryInv
<1>6. \A k \in Turn : refresh'[k] \notin {NoContext, Due} => Settles(refresh'[k].seen, summaries' \cup {refresh'[k]})
  BY <1>1, <1>5 DEF ForgetInv
<1> QED
  BY <1>1, <1>2, <1>4, <1>6 DEF ForgetInv, Settles, FinishedIn

\* What a refresh read is settled by the rows and the one it has computed.
LEMMA ReadSettles ==
    ASSUME SummaryInv, NEW k \in 0 .. MaxTurn, Compacts(Compactable, k), NEW row,
           2 * k <= Latest.through \/ row.through = 2 * k
    PROVE  Settles(turnStatus, summaries \cup {row})
<1>1. IsLatest(Latest, {r \in summaries : r.through < 2 * MaxTurn + 1})
  BY LatestCovers DEF Latest
<1>2. ASSUME NEW n \in Turn, 1 .. n \subseteq FinishedIn(turnStatus), n > MaxRecent
      PROVE  \E r \in summaries \cup {row} : 2 * (n - MaxRecent) <= r.through
  <2>1. n - MaxRecent <= k
    BY <1>2 DEF Compacts, Finished
  <2>2. n \in Nat /\ k \in Nat /\ MaxRecent \in Nat
    BY DialogueAssumption DEF Turn
  <2>3. 2 * (n - MaxRecent) <= 2 * k
    BY <2>1, <2>2
  <2>4. CASE row.through = 2 * k
    <3>1. 2 * (n - MaxRecent) <= row.through
      BY <2>3, <2>4
    <3> QED
      BY <3>1
  <2>5. CASE 2 * k <= Latest.through
    <3> DEFINE latest == Latest
               none == [through |-> 0, summary |-> EmptySummary]
    <3>1. latest.through \in Int
      <4>1. RowOf(turnStatus, latest)
        BY LatestCovers DEF Latest
      <4> HIDE DEF latest
      <4> QED
        BY <4>1, RowsAreNumbers
    <3>2. 2 * (n - MaxRecent) <= latest.through /\ latest.through > 0
      <4> HIDE DEF latest
      <4>1. 2 * k <= latest.through
        BY <2>5 DEF latest
      <4> QED
        BY <1>2, <2>2, <2>3, <3>1, <4>1
    <3>3. latest \in summaries
      <4>1. latest = none \/ latest \in summaries
        BY <1>1 DEF IsLatest
      <4>2. none.through = 0
        OBVIOUS
      <4> HIDE DEF latest, none
      <4> QED
        BY <3>2, <4>1, <4>2
    <3> HIDE DEF latest
    <3> QED
      BY <3>2, <3>3
  <2> QED
    BY <2>4, <2>5
<1>3. \A n \in Turn : n > MaxRecent \/ n <= MaxRecent
  BY DialogueAssumption DEF Turn
<1> QED
  BY <1>2, <1>3 DEF Settles

LEMMA ReadForgetsNothing == ASSUME ForgetInv, NEW t \in Turn, ReadRefresh(t) PROVE ForgetInv'
<1>1. SummaryInv /\ SummaryInv'
  BY ReadKeepsSummaries DEF ForgetInv
<1>2. PICK row, k : /\ refresh' = [refresh EXCEPT ![t] = row] /\ row.seen = turnStatus
                    /\ k \in 0 .. MaxTurn /\ Compacts(Compactable, k)
                    /\ (2 * k <= Latest.through \/ row.through = 2 * k)
  BY <1>1, ReadsARow
<1>3. turnStatus' = turnStatus /\ summaries' = summaries /\ settled' = settled
  BY DEF ReadRefresh
<1>4. Settles(row.seen, summaries \cup {row})
  BY <1>1, <1>2, ReadSettles
<1>5. \A j \in Turn : refresh'[j] = IF j = t THEN row ELSE refresh[j]
  BY <1>1, <1>2 DEF SummaryInv
<1>6. \A j \in Turn : refresh'[j] \notin {NoContext, Due} => Settles(refresh'[j].seen, summaries' \cup {refresh'[j]})
  BY <1>3, <1>4, <1>5 DEF ForgetInv
<1> QED
  BY <1>1, <1>3, <1>6 DEF ForgetInv, Asked

LEMMA WriteForgetsNothing == ASSUME ForgetInv, NEW t \in Turn, WriteRefresh(t) PROVE ForgetInv'
<1> DEFINE old == refresh[t]
           row == [through |-> old.through, summary |-> old.summary]
<1>1. SummaryInv /\ SummaryInv'
  BY WriteKeepsSummaries DEF ForgetInv
<1>2. /\ old \notin {NoContext, Due}
      /\ summaries' = IF IsLate(old) THEN summaries ELSE summaries \cup {row}
      /\ settled' = old.seen
      /\ refresh' = [refresh EXCEPT ![t] = NoContext]
      /\ turnStatus' = turnStatus
  BY DEF WriteRefresh
<1>3. row.through = old.through
  OBVIOUS
<1>4. Settles(old.seen, summaries \cup {old})
  BY <1>2 DEF ForgetInv
<1>5. \A j \in Turn : refresh'[j] = IF j = t THEN NoContext ELSE refresh[j]
  BY <1>1, <1>2 DEF SummaryInv
<1>6. RowOf(turnStatus, old)
  BY <1>2 DEF ForgetInv, SummaryInv
<1> HIDE DEF old, row
<1>7. summaries \subseteq summaries'
  BY <1>2
<1>8. ASSUME NEW n \in Turn, n > MaxRecent, 2 * (n - MaxRecent) <= old.through
      PROVE  \E r \in summaries' : 2 * (n - MaxRecent) <= r.through
  <2>1. CASE ~IsLate(old)
    BY <1>2, <1>3, <1>8, <2>1
  <2>2. CASE IsLate(old)
    <3> DEFINE latest == Latest
               none == [through |-> 0, summary |-> EmptySummary]
    <3>1. latest = none \/ latest \in summaries
      BY <1>1, LatestCovers DEF Latest, IsLatest
    <3>2. none.through = 0
      OBVIOUS
    <3>3. latest.through >= old.through
      BY <2>2 DEF IsLate
    <3>4. latest.through \in Int
      <4>1. RowOf(turnStatus, latest)
        BY <1>1, LatestCovers DEF Latest
      <4> HIDE DEF latest
      <4> QED
        BY <4>1, RowsAreNumbers
    <3>5. n \in Nat /\ MaxRecent \in Nat
      BY DialogueAssumption DEF Turn
    <3>9. old.through \in Int
      BY <1>6 DEF RowOf
    <3> HIDE DEF latest, none
    <3>6. latest.through > 0 /\ 2 * (n - MaxRecent) <= latest.through
      BY <1>8, <3>3, <3>4, <3>5, <3>9
    <3>7. latest \in summaries
      BY <3>1, <3>2, <3>6
    <3> QED
      BY <1>7, <3>6, <3>7
  <2> QED
    BY <2>1, <2>2
<1>9. ASSUME NEW seen, Settles(seen, summaries \cup {old}) PROVE Settles(seen, summaries')
  <2>1. ASSUME NEW n \in Turn, 1 .. n \subseteq FinishedIn(seen), ~(n <= MaxRecent)
        PROVE  \E r \in summaries' : 2 * (n - MaxRecent) <= r.through
    <3>1. PICK r \in summaries \cup {old} : 2 * (n - MaxRecent) <= r.through
      BY <1>9, <2>1 DEF Settles
    <3>2. n > MaxRecent
      BY <2>1, DialogueAssumption DEF Turn
    <3>3. CASE r \in summaries
      BY <1>7, <3>1, <3>3
    <3>4. CASE r = old
      BY <1>8, <3>1, <3>2, <3>4
    <3> QED
      BY <3>3, <3>4
  <2> QED
    BY <2>1 DEF Settles
<1>10. Settles(settled', summaries')
  BY <1>2, <1>4, <1>9
<1>11. ASSUME NEW j \in Turn, refresh'[j] \notin {NoContext, Due}
       PROVE  Settles(refresh'[j].seen, summaries' \cup {refresh'[j]})
  <2>1. refresh'[j] = refresh[j]
    BY <1>5, <1>11
  <2>2. Settles(refresh[j].seen, summaries \cup {refresh[j]})
    BY <1>11, <2>1 DEF ForgetInv
  <2>3. summaries \cup {refresh[j]} \subseteq summaries' \cup {refresh[j]}
    BY <1>7
  <2> QED
    BY <2>1, <2>2, <2>3, SettlesMore
<1> QED
  BY <1>1, <1>2, <1>10, <1>11 DEF ForgetInv, Asked

LEMMA LoseForgetsNothing == ASSUME ForgetInv, NEW t \in Turn, LoseRefresh(t) PROVE ForgetInv'
<1>1. SummaryInv /\ SummaryInv'
  BY LoseKeepsSummaries DEF ForgetInv
<1>2. /\ refresh' = [refresh EXCEPT ![t] = NoContext]
      /\ turnStatus' = turnStatus /\ summaries' = summaries /\ settled' = settled
  BY DEF LoseRefresh
<1>3. \A j \in Turn : refresh'[j] = IF j = t THEN NoContext ELSE refresh[j]
  BY <1>1, <1>2 DEF SummaryInv
<1>4. \A j \in Turn : refresh'[j] \notin {NoContext, Due} => Settles(refresh'[j].seen, summaries' \cup {refresh'[j]})
  BY <1>2, <1>3 DEF ForgetInv
<1> QED
  BY <1>1, <1>2, <1>4 DEF ForgetInv, Asked

\* No step loses what a refresh has seen.
LEMMA ForgetStep == ForgetInv /\ [DialogueNext]_dialogueVars => ForgetInv'
<1> SUFFICES ASSUME ForgetInv, [DialogueNext]_dialogueVars PROVE ForgetInv'
  OBVIOUS
<1>1. SummaryInv'
  BY SummaryStep DEF ForgetInv
<1>2. ASSUME turnStatus' = turnStatus, summaries' = summaries, refresh' = refresh, settled' = settled PROVE ForgetInv'
  BY <1>1, <1>2 DEF ForgetInv, Asked
<1>3. ASSUME NEW t \in Turn, PrepareTurn(t) PROVE ForgetInv'
  BY <1>2, <1>3 DEF PrepareTurn
<1>4. CASE UNCHANGED dialogueVars
  BY <1>2, <1>4 DEF dialogueVars
<1> QED
  BY <1>3, <1>4, AskForgetsNothing, FinishForgetsNothing, ReadForgetsNothing, WriteForgetsNothing, LoseForgetsNothing
     DEF DialogueNext

\* With every turn finished and seen, the rows reach so far that the turns after
\* the latest are fewer than a context takes along.
LEMMA NoneForgotten == ForgetInv => NothingForgotten
<1> DEFINE n == Cardinality(Asked)
           next == n + 1
           context == Build(next)
<1> SUFFICES ASSUME ForgetInv, Asked # {}, OpenTurns = {}, settled = turnStatus, ~context.overBudget,
                    NEW t \in Asked, turnStatus[t] = "completed"
             PROVE  Through(t) <= context.through \/ t \in context.history
  BY Zenon DEF NothingForgotten
<1>1. SummaryInv /\ MaxTurn \in Nat \ {0} /\ MaxRecent \in Nat \ {0} /\ Turn = 1 .. MaxTurn
  BY DialogueAssumption DEF ForgetInv, Turn
<1>2. n \in Turn /\ Asked = 1 .. n
  <2>1. Asked \subseteq Turn /\ Asked \subseteq Nat /\ \A i \in Asked : i <= MaxTurn
    BY <1>1 DEF Asked
  <2>2. PICK m \in Asked : \A i \in Asked : i <= m
    <3>1. Max(Asked) \in Asked /\ \A i \in Asked : i <= Max(Asked)
      BY <1>1, <2>1, BoundedMax
    <3> QED
      BY <3>1
  <2>3. Asked = 1 .. m
    <3>1. 1 .. m \subseteq Asked
      BY <2>2 DEF ForgetInv
    <3>2. \A i \in Asked : i \in 1 .. m
      BY <1>1, <2>1, <2>2
    <3> QED
      BY <3>1, <3>2
  <2>4. m \in Nat /\ m \in Turn
    BY <2>1, <2>2
  <2>5. Cardinality(1 .. m) = m
    <3>1. Cardinality(1 .. m) = IF 1 > m THEN 0 ELSE m - 1 + 1
      BY <2>4, FS_Interval
    <3> QED
      BY <1>1, <2>4, <3>1
  <2> QED
    BY <2>3, <2>4, <2>5
<1> HIDE DEF n
<1>3. t \in 1 .. n /\ n \in Nat /\ n <= MaxTurn
  BY <1>1, <1>2
<1>4. Asked = FinishedIn(turnStatus)
  BY <1>1 DEF SummaryInv, TurnStatus, Asked, OpenTurns, FinishedIn
<1> DEFINE rows == {r \in summaries : r.through < Cutoff(next)}
           row == LatestBelow(Cutoff(next))
           recent == RecentTurns(row.through, Cutoff(next))
           newer == {j \in recent : j > t}
<1>5. RowOf(turnStatus, row) /\ IsLatest(row, rows)
  BY <1>1, LatestCovers
<1>6. rows = summaries
  <2>1. ASSUME NEW r \in summaries PROVE r.through < Cutoff(next)
    <3>1. RowOf(turnStatus, r)
      BY <1>1 DEF SummaryInv
    <3>2. PICK k \in 0 .. MaxTurn : r.through = 2 * k
      BY <3>1 DEF RowOf
    <3>3. ~(k > n)
      <4> SUFFICES ASSUME k > n PROVE FALSE
        OBVIOUS
      <4>1. next \in Turn /\ Through(next) <= r.through
        BY <1>1, <1>3, <3>2 DEF Through
      <4>2. next \in FinishedIn(turnStatus)
        BY <3>1, <4>1 DEF RowOf, Covers
      <4> QED
        BY <1>2, <1>3, <1>4, <4>2
    <3> QED
      BY <1>1, <1>3, <3>2, <3>3 DEF Cutoff
  <2> QED
    BY <2>1
<1>7. /\ context.through = row.through
      /\ context.history = {k \in recent : Cardinality({j \in recent : j > k}) < MaxRecent}
  BY BuildHolds
<1>8. row.through \in Int /\ 0 <= row.through
  <2>1. \A k \in 0 .. MaxTurn : 2 * k \in Int /\ 0 <= 2 * k
    BY <1>1
  <2> QED
    BY <1>5, <2>1 DEF RowOf
<1>9. n <= MaxRecent \/ 2 * (n - MaxRecent) <= row.through
  <2>1. Settles(turnStatus, summaries)
    BY DEF ForgetInv
  <2>2. n <= MaxRecent \/ \E r \in summaries : 2 * (n - MaxRecent) <= r.through
    BY <1>2, <1>4, <2>1 DEF Settles
  <2>3. ASSUME NEW r \in summaries, 2 * (n - MaxRecent) <= r.through PROVE 2 * (n - MaxRecent) <= row.through
    <3>1. r.through <= row.through
      BY <1>5, <1>6 DEF IsLatest
    <3>2. r.through \in Int
      BY <1>1 DEF SummaryInv, RowOf
    <3> HIDE DEF row
    <3> QED
      BY <1>1, <1>3, <1>8, <2>3, <3>1, <3>2
  <2> QED
    BY <2>2, <2>3
<1>10. CASE Through(t) <= row.through
  BY <1>7, <1>10
<1>11. CASE ~(Through(t) <= row.through)
  <2>1. t \in recent
    <3>1. PICK k \in 0 .. MaxTurn : row.through = 2 * k
      BY <1>5 DEF RowOf
    <3> HIDE DEF row
    <3>2. Cutoff(t) > row.through /\ Cutoff(t) < Cutoff(next)
      BY <1>3, <1>11, <3>1 DEF Cutoff, Through
    <3> QED
      BY <1>1, <1>2, <3>2 DEF RecentTurns
  <2>2. newer \subseteq t + 1 .. n
    <3>1. recent \subseteq Turn /\ \A j \in recent : Cutoff(j) < Cutoff(next)
      BY DEF RecentTurns
    <3> HIDE DEF recent
    <3>2. ASSUME NEW j \in recent, j > t PROVE j \in t + 1 .. n
      BY <1>1, <1>3, <3>1, <3>2 DEF Cutoff
    <3> QED
      BY <3>2
  <2>3. n - t < MaxRecent
    <3> HIDE DEF row
    <3> QED
      BY <1>1, <1>3, <1>8, <1>9, <1>11 DEF Through
  <2> HIDE DEF newer, recent, row
  <2>4. Cardinality(newer) < MaxRecent
    <3>1. IsFiniteSet(t + 1 .. n) /\ Cardinality(t + 1 .. n) = IF t + 1 > n THEN 0 ELSE n - (t + 1) + 1
      BY <1>3, FS_Interval
    <3>2. Cardinality(newer) <= Cardinality(t + 1 .. n) /\ IsFiniteSet(newer)
      BY <2>2, <3>1, FS_Subset
    <3>3. Cardinality(newer) \in Nat
      BY <3>2, FS_CardinalityType
    <3> DEFINE c == Cardinality(newer)
               d == Cardinality(t + 1 .. n)
    <3>4. c <= d /\ c \in Nat /\ d = IF t + 1 > n THEN 0 ELSE n - (t + 1) + 1
      BY <3>1, <3>2, <3>3
    <3> HIDE DEF c, d
    <3>5. c < MaxRecent
      BY <1>1, <1>3, <2>3, <3>4
    <3> QED
      BY <3>5 DEF c
  <2>5. t \in context.history
    BY <1>7, <2>1, <2>4 DEF newer
  <2> QED
    BY <2>5
<1> QED
  BY <1>10, <1>11

\* Once a refresh has seen every turn as it is, the summary and the history of
\* the next question have every completed turn between them, unless the tokens
\* do not suffice.
THEOREM NothingIsForgotten == DialogueSpec => []NothingForgotten
<1>1. DialogueInit => ForgetInv
  BY ForgetInit
<1>2. ForgetInv /\ [DialogueNext]_dialogueVars => ForgetInv'
  BY ForgetStep
<1>3. ForgetInv => NothingForgotten
  BY NoneForgotten
<1> QED
  BY <1>1, <1>2, <1>3, PTL DEF DialogueSpec
====

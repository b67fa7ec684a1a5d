---- MODULE SequencePartsProofs ----
(***************************************************************************)
(* Facts about recursion over a sequence.  The induction theorems of the   *)
(* library take an operator for what is to be proved; these take the set   *)
(* of the numbers it is proved of, and a recursive definition is the       *)
(* function that its steps determine.                                      *)
(***************************************************************************)
EXTENDS SequenceParts, SequencesExt, FiniteSetsExt, SequenceTheorems, WellFoundedInduction, TLAPS

\* A set of numbers has a least one.
LEMMA LeastNumber ==
    ASSUME NEW T, T \subseteq Nat, T # {} PROVE \E i \in T : \A j \in T : i <= j
<1> DEFINE Below == OpToRel(<, Nat)
<1>1. PICK i \in T : \A j \in T : <<j, i>> \notin Below
  <2>1. IsWellFoundedOn(Below, Nat)
    BY NatLessThanWellFounded
  <2> HIDE DEF Below
  <2> QED
    BY <2>1, WFMin
<1>2. \A j \in T : ~(j < i)
  BY <1>1 DEF OpToRel
<1> QED
  BY <1>2

\* Induction up to n: the least number missing from T would follow one in T.
LEMMA Induction ==
    ASSUME NEW n \in Nat, NEW T, 0 \in T, \A i \in 1 .. n : i - 1 \in T => i \in T
    PROVE  \A i \in 0 .. n : i \in T
<1> DEFINE Missing == {i \in 0 .. n : i \notin T}
<1>1. SUFFICES ASSUME Missing # {} PROVE FALSE
  OBVIOUS
<1>2. PICK i \in Missing : \A j \in Missing : i <= j
  <2>1. Missing \subseteq Nat
    OBVIOUS
  <2> HIDE DEF Missing
  <2> QED
    BY <1>1, <2>1, LeastNumber
<1> QED
  BY <1>2

\* What is reached from base by n steps, next[i] being the i-th.
StepsOn(X, n) == [1 .. n -> [X -> X]]
Follows(f, X, n, base, next) ==
    f \in [0 .. n -> X] /\ f[0] = base /\ \A i \in 1 .. n : f[i] = next[i][f[i - 1]]

\* Steps on a set determine a function: a recursive definition has a value.
LEMMA Recursion ==
    ASSUME NEW X, NEW n \in Nat, NEW base \in X, NEW next \in StepsOn(X, n)
    PROVE  \E f : Follows(f, X, n, base, next)
<1> DEFINE T == {m \in 0 .. n : \E f : Follows(f, X, m, base, next)}
<1>1. 0 \in T
  <2> DEFINE g == [i \in 0 .. 0 |-> base]
  <2>1. Follows(g, X, 0, base, next)
    BY DEF Follows
  <2> HIDE DEF g
  <2> QED
    BY <2>1
<1>2. ASSUME NEW m \in 1 .. n, m - 1 \in T PROVE m \in T
  <2>1. PICK f : Follows(f, X, m - 1, base, next)
    BY <1>2
  <2> DEFINE g == [i \in 0 .. m |-> IF i < m THEN f[i] ELSE next[m][f[m - 1]]]
  <2>2. f[m - 1] \in X /\ next[m][f[m - 1]] \in X
    BY <2>1 DEF Follows, StepsOn
  <2>3. g \in [0 .. m -> X] /\ g[0] = base
    BY <2>1, <2>2 DEF Follows
  <2>4. ASSUME NEW i \in 1 .. m PROVE g[i] = next[i][g[i - 1]]
    <3>1. g[i - 1] = f[i - 1]
      OBVIOUS
    <3>2. CASE i = m
      BY <3>1, <3>2
    <3>3. CASE i # m
      BY <2>1, <3>1, <3>3 DEF Follows
    <3> QED
      BY <3>2, <3>3
  <2> HIDE DEF g
  <2>5. Follows(g, X, m, base, next)
    BY <2>3, <2>4 DEF Follows
  <2> QED
    BY <2>5
<1>3. n \in T
  <2> HIDE DEF T
  <2>1. \A i \in 1 .. n : i - 1 \in T => i \in T
    BY <1>2
  <2>2. \A i \in 0 .. n : i \in T
    BY <1>1, <2>1, Induction
  <2> QED
    BY <2>2
<1> QED
  BY <1>3

-----------------------------------------------------------------------------
(* Parts of a sequence.                                                    *)

\* The steps of KeepAt, which have a value.
Keeps(kept, seq, places) ==
    kept[0] = <<>> /\ \A i \in 1 .. Len(seq) : kept[i] = IF i \in places THEN Append(kept[i - 1], seq[i]) ELSE kept[i - 1]

LEMMA KeepAtSteps ==
    ASSUME NEW S, NEW seq \in Seq(S), NEW places
    PROVE  \E kept : Keeps(kept, seq, places) /\ KeepAt(seq, places) = kept[Len(seq)]
<1> DEFINE N == Len(seq)
           X == Seq(S)
           Step(i, s) == IF i \in places THEN Append(s, seq[i]) ELSE s
           Kept(f) == f = [n \in 0 .. N |->
                             IF n = 0 THEN <<>> ELSE IF n \in places THEN Append(f[n - 1], seq[n]) ELSE f[n - 1]]
           kept == CHOOSE f : Kept(f)
<1>1. N \in Nat /\ DOMAIN seq = 1 .. N
  OBVIOUS
<1>2. <<>> \in X /\ \A i \in 1 .. N : \A s \in X : Step(i, s) \in X
  OBVIOUS
<1>3. KeepAt(seq, places) = kept[N]
  BY DEF KeepAt
<1> HIDE DEF N, X
<1>4. \E f : Kept(f)
  <2> DEFINE next == [i \in 1 .. N |-> [s \in X |-> Step(i, s)]]
  <2>1. next \in StepsOn(X, N)
    BY <1>2 DEF StepsOn
  <2>2. \A i \in 1 .. N : \A s \in X : next[i][s] = Step(i, s)
    OBVIOUS
  <2> HIDE DEF next
  <2>3. PICK f : Follows(f, X, N, <<>>, next)
    BY <1>1, <1>2, <2>1, Recursion
  <2>4. \A i \in 1 .. N : f[i] = Step(i, f[i - 1])
    <3>1. \A i \in 1 .. N : f[i - 1] \in X
      BY <1>1, <2>3 DEF Follows
    <3> HIDE DEF Step
    <3> QED
      BY <2>2, <2>3, <3>1 DEF Follows
  <2>5. ASSUME NEW n \in 0 .. N
        PROVE  f[n] = IF n = 0 THEN <<>> ELSE IF n \in places THEN Append(f[n - 1], seq[n]) ELSE f[n - 1]
    <3>1. n = 0 \/ n \in 1 .. N
      BY <1>1
    <3>2. CASE n = 0
      BY <2>3, <3>2 DEF Follows
    <3>3. CASE n # 0
      BY <2>4, <3>1, <3>3
    <3> QED
      BY <3>2, <3>3
  <2>6. Kept(f)
    BY <2>3, <2>5 DEF Follows
  <2> QED
    BY <2>6
<1>5. Kept(kept)
  BY <1>4
<1> HIDE DEF kept
<1>6. \A i \in 1 .. N : i \in 0 .. N /\ i # 0
  BY <1>1
<1>7. kept[0] = <<>> /\ \A i \in 1 .. N : kept[i] = IF i \in places THEN Append(kept[i - 1], seq[i]) ELSE kept[i - 1]
  <2>1. 0 \in 0 .. N
    BY <1>1
  <2>2. kept[0] = <<>>
    BY <1>5, <2>1
  <2>3. ASSUME NEW i \in 1 .. N PROVE kept[i] = IF i \in places THEN Append(kept[i - 1], seq[i]) ELSE kept[i - 1]
    BY <1>5, <1>6
  <2> QED
    BY <2>2, <2>3
<1>8. Keeps(kept, seq, places)
  BY <1>7 DEF Keeps, N
<1> QED
  BY <1>3, <1>8 DEF N

\* What is kept of a sequence is a sequence of the elements at those places.
LEMMA KeepAtSeq ==
    ASSUME NEW S, NEW seq \in Seq(S), NEW places
    PROVE  KeepAt(seq, places) \in Seq({seq[i] : i \in places \cap DOMAIN seq})
<1> DEFINE N == Len(seq)
           T == {seq[i] : i \in places \cap DOMAIN seq}
<1>1. N \in Nat /\ \A i \in 1 .. N : i \in places => seq[i] \in T
  OBVIOUS
<1>2. PICK kept : Keeps(kept, seq, places) /\ KeepAt(seq, places) = kept[N]
  BY KeepAtSteps
<1> HIDE DEF T
<1> DEFINE Within == {i \in 0 .. N : kept[i] \in Seq(T)}
<1>3. 0 \in Within
  <2>1. kept[0] = <<>> /\ 0 \in 0 .. N
    BY <1>1, <1>2 DEF Keeps
  <2>2. kept[0] \in Seq(T)
    BY <2>1
  <2> QED
    BY <2>1, <2>2
<1>4. ASSUME NEW i \in 1 .. N, i - 1 \in Within PROVE i \in Within
  <2>1. kept[i - 1] \in Seq(T) /\ (i \in places => seq[i] \in T)
    BY <1>1, <1>4
  <2>2. kept[i] = IF i \in places THEN Append(kept[i - 1], seq[i]) ELSE kept[i - 1]
    BY <1>2 DEF Keeps
  <2>3. kept[i] \in Seq(T)
    <3> DEFINE before == kept[i - 1]
    <3> HIDE DEF before
    <3> QED
      BY <2>1, <2>2 DEF before
  <2> QED
    BY <1>1, <2>3
<1>5. N \in Within
  <2> HIDE DEF Within
  <2>1. \A i \in 1 .. N : i - 1 \in Within => i \in Within
    BY <1>4
  <2>2. \A i \in 0 .. N : i \in Within
    BY <1>1, <1>3, <2>1, Induction
  <2> QED
    BY <1>1, <2>2
<1> QED
  BY <1>2, <1>5 DEF T

\* Nothing of what is to be kept is lost.
LEMMA KeepAtAll ==
    ASSUME NEW S, NEW seq \in Seq(S), NEW places, NEW k \in places, k \in DOMAIN seq
    PROVE  \E i \in DOMAIN KeepAt(seq, places) : KeepAt(seq, places)[i] = seq[k]
<1> DEFINE N == Len(seq)
<1>1. N \in Nat /\ k \in 1 .. N
  OBVIOUS
<1>2. PICK kept : Keeps(kept, seq, places) /\ KeepAt(seq, places) = kept[N]
  BY KeepAtSteps
<1> DEFINE Holds == {n \in 0 .. N : /\ kept[n] \in Seq(S)
                                    /\ k <= n => \E i \in DOMAIN kept[n] : kept[n][i] = seq[k]}
<1>3. 0 \in Holds
  <2>1. kept[0] = <<>> /\ 0 \in 0 .. N
    BY <1>1, <1>2 DEF Keeps
  <2>2. kept[0] \in Seq(S)
    BY <2>1
  <2>3. ~(k <= 0)
    BY <1>1
  <2> QED
    BY <2>1, <2>2, <2>3
<1>4. ASSUME NEW n \in 1 .. N, n - 1 \in Holds PROVE n \in Holds
  <2> DEFINE before == kept[n - 1]
             longer == Append(before, seq[n])
  <2>1. before \in Seq(S) /\ seq[n] \in S
    BY <1>4
  <2>2. k <= n - 1 => \E i \in DOMAIN before : before[i] = seq[k]
    BY <1>4
  <2>3. kept[n] = IF n \in places THEN longer ELSE before
    BY <1>2 DEF Keeps
  <2> HIDE DEF before
  <2>4. /\ longer \in Seq(S) /\ longer[Len(before) + 1] = seq[n] /\ Len(before) + 1 \in DOMAIN longer
        /\ \A i \in DOMAIN before : i \in DOMAIN longer /\ longer[i] = before[i]
    BY <2>1
  <2> HIDE DEF longer
  <2>5. CASE n = k
    BY <2>3, <2>4, <2>5
  <2>6. CASE n # k
    <3>1. k <= n => k <= n - 1
      BY <1>1, <2>6
    <3> QED
      BY <2>1, <2>2, <2>3, <2>4, <3>1
  <2> QED
    BY <2>5, <2>6
<1>5. N \in Holds
  <2> HIDE DEF Holds
  <2>1. \A i \in 1 .. N : i - 1 \in Holds => i \in Holds
    BY <1>4
  <2>2. \A i \in 0 .. N : i \in Holds
    BY <1>1, <1>3, <2>1, Induction
  <2> QED
    BY <1>1, <2>2
<1> QED
  BY <1>1, <1>2, <1>5

\* What is kept at the first m places is the beginning.
LEMMA KeepAtPrefix ==
    ASSUME NEW S, NEW seq \in Seq(S), NEW m \in 0 .. Len(seq), NEW places, places \cap DOMAIN seq = 1 .. m
    PROVE  Len(KeepAt(seq, places)) = m /\ \A i \in 1 .. m : KeepAt(seq, places)[i] = seq[i]
<1> DEFINE N == Len(seq)
<1>1. N \in Nat /\ m \in Nat /\ m <= N /\ \A i \in 1 .. N : i \in places <=> i <= m
  OBVIOUS
<1>2. PICK kept : Keeps(kept, seq, places) /\ KeepAt(seq, places) = kept[N]
  BY KeepAtSteps
<1> DEFINE Prefix(f, n) == f \in Seq(S) /\ Len(f) = n /\ \A i \in 1 .. n : f[i] = seq[i]
           Holds == {n \in 0 .. N : (n <= m => Prefix(kept[n], n)) /\ (n >= m => Prefix(kept[n], m))}
<1>3. 0 \in Holds
  <2>1. kept[0] = <<>> /\ 0 \in 0 .. N
    BY <1>1, <1>2 DEF Keeps
  <2>2. kept[0] \in Seq(S) /\ Len(kept[0]) = 0 /\ 1 .. 0 = {}
    BY <2>1
  <2>3. Prefix(kept[0], 0) /\ (0 >= m => m = 0)
    BY <1>1, <2>2
  <2> HIDE DEF Prefix
  <2> QED
    BY <1>1, <2>1, <2>3
<1>4. ASSUME NEW n \in 1 .. N, n - 1 \in Holds PROVE n \in Holds
  <2>1. kept[n] = IF n \in places THEN Append(kept[n - 1], seq[n]) ELSE kept[n - 1]
    BY <1>2 DEF Keeps
  <2>2. CASE n <= m
    <3>1. Prefix(kept[n - 1], n - 1)
      BY <1>1, <1>4, <2>2
    <3>2. kept[n] = Append(kept[n - 1], seq[n]) /\ seq[n] \in S
      BY <1>1, <2>1, <2>2
    <3> DEFINE before == kept[n - 1]
    <3> HIDE DEF before
    <3>3. before \in Seq(S) /\ Len(before) = n - 1 /\ \A i \in 1 .. n - 1 : before[i] = seq[i]
      BY <3>1 DEF before
    <3>4. Prefix(Append(before, seq[n]), n)
      <4>1. ASSUME NEW i \in 1 .. n PROVE Append(before, seq[n])[i] = seq[i]
        BY <3>2, <3>3
      <4> QED
        BY <3>2, <3>3, <4>1
    <3>5. Prefix(kept[n], n)
      BY <3>2, <3>4 DEF before
    <3> HIDE DEF Prefix
    <3> QED
      BY <1>1, <2>2, <3>5
  <2>3. CASE ~(n <= m)
    <3>1. Prefix(kept[n - 1], m) /\ kept[n] = kept[n - 1]
      BY <1>1, <1>4, <2>1, <2>3
    <3> HIDE DEF Prefix
    <3> QED
      BY <1>1, <2>3, <3>1
  <2> QED
    BY <2>2, <2>3
<1>5. N \in Holds
  <2> HIDE DEF Holds
  <2>1. \A i \in 1 .. N : i - 1 \in Holds => i \in Holds
    BY <1>4
  <2>2. \A i \in 0 .. N : i \in Holds
    BY <1>1, <1>3, <2>1, Induction
  <2> QED
    BY <1>1, <2>2
<1> QED
  BY <1>1, <1>2, <1>5

\* Whatever else is kept, the first m elements stay the beginning.
LEMMA KeepAtStart ==
    ASSUME NEW S, NEW seq \in Seq(S), NEW m \in 0 .. Len(seq), NEW places, \A i \in 1 .. m : i \in places
    PROVE  Len(KeepAt(seq, places)) >= m /\ \A i \in 1 .. m : KeepAt(seq, places)[i] = seq[i]
<1> DEFINE N == Len(seq)
<1>1. N \in Nat /\ m \in Nat /\ m <= N /\ \A i \in 1 .. N : seq[i] \in S
  OBVIOUS
<1>2. PICK kept : Keeps(kept, seq, places) /\ KeepAt(seq, places) = kept[N]
  BY KeepAtSteps
<1> HIDE DEF N
<1> DEFINE Starts(f, n) == f \in Seq(S) /\ Len(f) >= n /\ \A i \in 1 .. n : f[i] = seq[i]
           Holds == {n \in 0 .. N : IF n <= m THEN Starts(kept[n], n) /\ Len(kept[n]) = n ELSE Starts(kept[n], m)}
<1>3. 0 \in Holds
  <2>1. kept[0] = <<>> /\ 0 \in 0 .. N /\ 0 <= m
    BY <1>1, <1>2 DEF Keeps
  <2>2. kept[0] \in Seq(S) /\ Len(kept[0]) = 0 /\ 1 .. 0 = {}
    BY <2>1
  <2>3. Starts(kept[0], 0)
    BY <2>2
  <2> HIDE DEF Starts
  <2> QED
    BY <2>1, <2>2, <2>3
<1>4. ASSUME NEW n \in 1 .. N, n - 1 \in Holds PROVE n \in Holds
  <2> DEFINE before == kept[n - 1]
             after == kept[n]
             x == seq[n]
  <2>1. after = (IF n \in places THEN Append(before, x) ELSE before) /\ x \in S /\ n \in 0 .. N
    BY <1>1, <1>2 DEF Keeps, N
  <2>2. IF n - 1 <= m THEN Starts(before, n - 1) /\ Len(before) = n - 1 ELSE Starts(before, m)
    BY <1>4
  <2> HIDE DEF before, after, x
  <2>3. CASE n <= m
    <3>1. after = Append(before, x) /\ Starts(before, n - 1) /\ Len(before) = n - 1
      BY <1>1, <2>1, <2>2, <2>3
    <3>2. after \in Seq(S) /\ Len(after) = n /\ after[n] = x /\ \A i \in 1 .. n - 1 : after[i] = before[i]
      BY <2>1, <3>1
    <3>3. ASSUME NEW i \in 1 .. n PROVE after[i] = seq[i]
      <4>1. CASE i = n
        BY <3>2, <4>1 DEF x
      <4>2. CASE i \in 1 .. n - 1
        BY <3>1, <3>2, <4>2
      <4> QED
        BY <4>1, <4>2
    <3>4. Starts(after, n) /\ Len(after) = n
      BY <3>2, <3>3
    <3> HIDE DEF Starts
    <3> QED
      BY <2>1, <2>3, <3>4 DEF after
  <2>4. CASE ~(n <= m)
    <3>1. Starts(before, m)
      <4>1. CASE n - 1 <= m
        <5>1. n - 1 = m
          BY <1>1, <2>4, <4>1
        <5> HIDE DEF Starts
        <5> QED
          BY <2>2, <4>1, <5>1
      <4>2. CASE ~(n - 1 <= m)
        BY <2>2, <4>2
      <4> QED
        BY <4>1, <4>2
    <3>2. Starts(after, m)
      <4>1. CASE n \in places
        <5>1. after = Append(before, x)
          BY <2>1, <4>1
        <5>2. after \in Seq(S) /\ Len(after) = Len(before) + 1 /\ Len(before) \in Nat
              /\ \A i \in 1 .. Len(before) : after[i] = before[i]
          <6>1. before \in Seq(S)
            BY <3>1
          <6> QED
            BY <2>1, <5>1, <6>1
        <5>3. \A i \in 1 .. m : i \in 1 .. Len(before)
          BY <1>1, <3>1, <5>2
        <5>4. Len(after) >= m /\ \A i \in 1 .. m : after[i] = seq[i]
          <6> DEFINE length == Len(before)
          <6>1. length \in Nat /\ length >= m /\ Len(after) = length + 1
            BY <3>1, <5>2
          <6> HIDE DEF length
          <6>2. Len(after) >= m
            BY <1>1, <6>1
          <6> QED
            BY <3>1, <5>2, <5>3, <6>2
        <5> QED
          BY <5>2, <5>4
      <4>2. CASE n \notin places
        <5>1. after = before
          BY <2>1, <4>2
        <5> QED
          BY <3>1, <5>1
      <4> QED
        BY <4>1, <4>2
    <3> HIDE DEF Starts
    <3> QED
      BY <2>1, <2>4, <3>2 DEF after
  <2> QED
    BY <2>3, <2>4
<1>5. N \in Holds
  <2> HIDE DEF Holds
  <2>1. \A i \in 1 .. N : i - 1 \in Holds => i \in Holds
    BY <1>4
  <2>2. \A i \in 0 .. N : i \in Holds
    BY <1>1, <1>3, <2>1, Induction
  <2> QED
    BY <1>1, <2>2
<1>6. CASE N <= m
  <2>1. Starts(kept[N], N) /\ N = m
    BY <1>1, <1>5, <1>6
  <2> QED
    BY <1>2, <2>1
<1>7. CASE ~(N <= m)
  <2>1. Starts(kept[N], m)
    BY <1>5, <1>7
  <2> QED
    BY <1>2, <2>1
<1> QED
  BY <1>6, <1>7

\* What is kept of a sequence is one over the same set.
LEMMA KeptHolds ==
    ASSUME NEW S, NEW rows \in Seq(S), NEW places
    PROVE  KeepAt(rows, places) \in Seq(S)
<1> DEFINE T == {rows[i] : i \in places \cap DOMAIN rows}
<1>1. T \subseteq S
  OBVIOUS
<1>2. KeepAt(rows, places) \in Seq(T)
  BY KeepAtSeq
<1> HIDE DEF T
<1> QED
  BY <1>1, <1>2, SeqMonotonic

\* What is kept of a sequence stands at places of its own, in their order.
KeptFrom(at, kept, seq, places) ==
    /\ at \in [DOMAIN kept -> places \cap DOMAIN seq]
    /\ \A i \in DOMAIN kept : kept[i] = seq[at[i]]
    /\ \A i, j \in DOMAIN kept : i < j => at[i] < at[j]

LEMMA KeepAtOrder ==
    ASSUME NEW S, NEW seq \in Seq(S), NEW places
    PROVE  \E at : KeptFrom(at, KeepAt(seq, places), seq, places)
<1> DEFINE N == Len(seq)
<1>1. N \in Nat /\ DOMAIN seq = 1 .. N
  OBVIOUS
<1>2. PICK kept : Keeps(kept, seq, places) /\ KeepAt(seq, places) = kept[N]
  BY KeepAtSteps
<1> DEFINE Places(n) == places \cap 1 .. n
           Within(at, n) == /\ at \in [DOMAIN kept[n] -> Places(n)]
                            /\ \A i \in DOMAIN kept[n] : kept[n][i] = seq[at[i]]
                            /\ \A i, j \in DOMAIN kept[n] : i < j => at[i] < at[j]
           T == {n \in 0 .. N : kept[n] \in Seq(S) /\ \E at : Within(at, n)}
<1>3. 0 \in T
  <2> DEFINE none == [i \in {} |-> 0]
  <2>1. kept[0] = <<>> /\ 0 \in 0 .. N
    BY <1>1, <1>2 DEF Keeps
  <2>2. kept[0] \in Seq(S) /\ DOMAIN kept[0] = {}
    BY <2>1
  <2>3. none \in [{} -> Places(0)]
    OBVIOUS
  <2> HIDE DEF none
  <2>4. Within(none, 0)
    BY <2>2, <2>3
  <2> HIDE DEF Within
  <2> QED
    BY <2>1, <2>2, <2>4
<1>4. ASSUME NEW n \in 1 .. N, n - 1 \in T PROVE n \in T
  <2> DEFINE before == kept[n - 1]
             m == Len(before)
  <2>1. n \in 0 .. N /\ n - 1 \in Nat /\ seq[n] \in S /\ before \in Seq(S)
    BY <1>1, <1>4
  <2>2. PICK at : Within(at, n - 1)
    BY <1>4
  <2>3. m \in Nat /\ DOMAIN before = 1 .. m
    BY <2>1
  <2>4. kept[n] = IF n \in places THEN Append(before, seq[n]) ELSE before
    BY <1>2 DEF Keeps
  <2>5. Places(n - 1) \subseteq Places(n) /\ \A k \in Places(n - 1) : k \in Nat /\ k < n
    BY <1>1
  <2>6. /\ at \in [1 .. m -> Places(n - 1)] /\ \A i \in 1 .. m : before[i] = seq[at[i]]
        /\ \A i, j \in 1 .. m : i < j => at[i] < at[j]
    BY <2>2, <2>3
  <2> HIDE DEF before, Places, m, Within
  <2>7. CASE n \notin places
    <3>1. kept[n] = before
      BY <2>4, <2>7
    <3>2. at \in [1 .. m -> Places(n)]
      BY <2>5, <2>6
    <3>3. Within(at, n)
      BY <2>3, <2>6, <3>1, <3>2 DEF Within
    <3> QED
      BY <2>1, <3>1, <3>3
  <2>8. CASE n \in places
    <3> DEFINE longer == [i \in 1 .. m + 1 |-> IF i <= m THEN at[i] ELSE n]
    <3>1. kept[n] = Append(before, seq[n])
      BY <2>4, <2>8
    <3>2. /\ kept[n] \in Seq(S) /\ DOMAIN kept[n] = 1 .. m + 1 /\ kept[n][m + 1] = seq[n]
          /\ \A i \in 1 .. m : kept[n][i] = before[i]
      BY <2>1, <3>1 DEF m
    <3>3. n \in Places(n)
      BY <1>1, <2>8 DEF Places
    <3>4. \A i \in 1 .. m : i \in 1 .. m + 1 /\ i <= m /\ longer[i] = at[i] /\ at[i] \in Nat /\ at[i] < n /\ at[i] \in Places(n)
      BY <2>3, <2>5, <2>6
    <3>5. longer[m + 1] = n /\ ~(m + 1 <= m) /\ \A i \in 1 .. m + 1 : i \in 1 .. m \/ i = m + 1
      BY <2>3
    <3>6. longer \in [1 .. m + 1 -> Places(n)]
      BY <3>3, <3>4, <3>5
    <3> HIDE DEF longer
    <3>7. \A i \in 1 .. m + 1 : kept[n][i] = seq[longer[i]]
      BY <2>6, <3>2, <3>4, <3>5
    <3>8. ASSUME NEW i \in 1 .. m + 1, NEW j \in 1 .. m + 1, i < j PROVE longer[i] < longer[j]
      <4>1. i \in 1 .. m
        BY <2>3, <3>8
      <4>2. CASE j = m + 1
        BY <3>4, <3>5, <4>1, <4>2
      <4>3. CASE j \in 1 .. m
        BY <2>6, <3>4, <3>8, <4>1, <4>3
      <4> QED
        BY <3>5, <4>2, <4>3
    <3>9. Within(longer, n)
      BY <3>2, <3>6, <3>7, <3>8 DEF Within
    <3> QED
      BY <2>1, <3>2, <3>9
  <2> QED
    BY <2>7, <2>8
<1>5. N \in T
  <2> HIDE DEF T
  <2>1. \A i \in 1 .. N : i - 1 \in T => i \in T
    BY <1>4
  <2>2. \A i \in 0 .. N : i \in T
    BY <1>1, <1>3, <2>1, Induction
  <2> QED
    BY <1>1, <2>2
<1>6. PICK at : Within(at, N)
  BY <1>5
<1>7. Places(N) = places \cap DOMAIN seq
  BY <1>1
<1> HIDE DEF Places
<1>8. KeptFrom(at, kept[N], seq, places)
  BY <1>6, <1>7 DEF KeptFrom
<1> QED
  BY <1>2, <1>8

\* A row is inserted, and nothing else changes.
LEMMA InsertHolds ==
    ASSUME NEW S, NEW sorted \in Seq(S), NEW x \in S, NEW before
    PROVE  Insert(sorted, x, before) \in Seq(S) /\ ToSet(Insert(sorted, x, before)) = ToSet(sorted) \cup {x}
<1> DEFINE later == {i \in DOMAIN sorted : <<x, sorted[i]>> \in before}
           T == {sorted[i] : i \in DOMAIN sorted}
           left == KeepAt(sorted, DOMAIN sorted \ later)
           right == KeepAt(sorted, later)
           all == left \o <<x>> \o right
<1>1. later \subseteq DOMAIN sorted /\ T \subseteq S
  OBVIOUS
<1>2. Insert(sorted, x, before) = all
  BY Zenon DEF Insert
<1> HIDE DEF later
<1>3. left \in Seq(T) /\ right \in Seq(T)
  <2>1. /\ left \in Seq({sorted[i] : i \in (DOMAIN sorted \ later) \cap DOMAIN sorted})
        /\ right \in Seq({sorted[i] : i \in later \cap DOMAIN sorted})
    BY KeepAtSeq
  <2>2. /\ {sorted[i] : i \in (DOMAIN sorted \ later) \cap DOMAIN sorted} \subseteq T
        /\ {sorted[i] : i \in later \cap DOMAIN sorted} \subseteq T
    OBVIOUS
  <2> HIDE DEF left, right, T
  <2> QED
    BY <2>1, <2>2, SeqMonotonic
<1>4. \A k \in DOMAIN sorted : \/ \E i \in DOMAIN left : left[i] = sorted[k]
                               \/ \E i \in DOMAIN right : right[i] = sorted[k]
  <2> SUFFICES ASSUME NEW k \in DOMAIN sorted
               PROVE  \/ \E i \in DOMAIN left : left[i] = sorted[k]
                      \/ \E i \in DOMAIN right : right[i] = sorted[k]
    OBVIOUS
  <2>1. CASE k \in later
    BY <2>1, KeepAtAll
  <2>2. CASE k \in DOMAIN sorted \ later
    BY <2>2, KeepAtAll
  <2> QED
    BY <2>1, <2>2
<1> HIDE DEF left, right, T
<1>5. left \in Seq(S) /\ right \in Seq(S)
  BY <1>1, <1>3, SeqMonotonic
<1>6. /\ all \in Seq(S)
      /\ DOMAIN all = 1 .. (Len(left) + 1 + Len(right))
      /\ \A i \in DOMAIN left : i \in DOMAIN all /\ all[i] = left[i]
      /\ Len(left) + 1 \in DOMAIN all /\ all[Len(left) + 1] = x
      /\ \A i \in DOMAIN right : Len(left) + 1 + i \in DOMAIN all /\ all[Len(left) + 1 + i] = right[i]
  BY <1>5
<1>7. ASSUME NEW i \in DOMAIN all PROVE all[i] \in T \cup {x}
  <2>1. Len(left) \in Nat /\ Len(right) \in Nat /\ DOMAIN left = 1 .. Len(left) /\ DOMAIN right = 1 .. Len(right)
    BY <1>5
  <2>2. \/ i \in DOMAIN left \/ i = Len(left) + 1
        \/ i - (Len(left) + 1) \in DOMAIN right /\ i = Len(left) + 1 + (i - (Len(left) + 1))
    BY <1>6, <2>1
  <2>3. (\A k \in DOMAIN left : left[k] \in T) /\ \A k \in DOMAIN right : right[k] \in T
    BY <1>3
  <2> HIDE DEF all
  <2> QED
    BY <1>6, <2>2, <2>3
<1> HIDE DEF all
<1>8. \A y \in T \cup {x} : \E i \in DOMAIN all : all[i] = y
  <2>1. ASSUME NEW y \in T PROVE \E i \in DOMAIN all : all[i] = y
    <3>1. (\E i \in DOMAIN left : left[i] = y) \/ \E i \in DOMAIN right : right[i] = y
      BY <1>4 DEF T
    <3> QED
      BY <1>6, <3>1
  <2> QED
    BY <1>6, <2>1
<1>9. {all[i] : i \in DOMAIN all} = T \cup {x}
  BY <1>7, <1>8
<1>10. ToSet(all) = T \cup {x} /\ ToSet(sorted) = T
  BY <1>9 DEF ToSet, T
<1> QED
  BY <1>2, <1>6, <1>10

\* The steps of Sorted, which have a value.
LEMMA SortedSteps ==
    ASSUME NEW S, NEW seq \in Seq(S), NEW before
    PROVE  \E sorted : /\ sorted[0] = <<>> /\ Sorted(seq, before) = sorted[Len(seq)]
                       /\ \A i \in 1 .. Len(seq) : sorted[i] = Insert(sorted[i - 1], seq[i], before)
<1> DEFINE N == Len(seq)
           X == Seq(S)
           Step(i, s) == Insert(s, seq[i], before)
           Sorts(f) == f = [n \in 0 .. N |-> IF n = 0 THEN <<>> ELSE Step(n, f[n - 1])]
           sorted == CHOOSE f : Sorts(f)
<1>1. N \in Nat /\ DOMAIN seq = 1 .. N /\ \A i \in 1 .. N : seq[i] \in S
  OBVIOUS
<1>2. <<>> \in X /\ \A i \in 1 .. N : \A s \in X : Step(i, s) \in X /\ ToSet(Step(i, s)) = ToSet(s) \cup {seq[i]}
  BY <1>1, InsertHolds
<1>3. Sorted(seq, before) = sorted[N]
  BY DEF Sorted
<1> HIDE DEF N, X, Step
<1>4. \E f : Sorts(f)
  <2> DEFINE next == [i \in 1 .. N |-> [s \in X |-> Step(i, s)]]
  <2>1. next \in StepsOn(X, N)
    BY <1>2 DEF StepsOn
  <2>2. \A i \in 1 .. N : \A s \in X : next[i][s] = Step(i, s)
    OBVIOUS
  <2> HIDE DEF next
  <2>3. PICK f : Follows(f, X, N, <<>>, next)
    BY <1>1, <1>2, <2>1, Recursion
  <2>4. \A i \in 1 .. N : f[i] = Step(i, f[i - 1])
    <3>1. \A i \in 1 .. N : f[i - 1] \in X
      BY <1>1, <2>3 DEF Follows
    <3> QED
      BY <2>2, <2>3, <3>1 DEF Follows
  <2>5. ASSUME NEW n \in 0 .. N PROVE f[n] = IF n = 0 THEN <<>> ELSE Step(n, f[n - 1])
    <3>1. n = 0 \/ n \in 1 .. N
      BY <1>1
    <3> QED
      BY <2>3, <2>4, <3>1 DEF Follows
  <2>6. Sorts(f)
    BY <2>3, <2>5 DEF Follows
  <2> QED
    BY <2>6
<1>5. Sorts(sorted)
  BY <1>4
<1> HIDE DEF sorted
<1>6. sorted[0] = <<>> /\ \A i \in 1 .. N : sorted[i] = Step(i, sorted[i - 1])
  <2>1. 0 \in 0 .. N /\ \A i \in 1 .. N : i \in 0 .. N /\ i # 0
    BY <1>1
  <2> QED
    BY <1>5, <2>1
<1> QED
  BY <1>3, <1>6 DEF N, Step

\* Sorting changes the order only.
LEMMA SortedHolds ==
    ASSUME NEW S, NEW seq \in Seq(S), NEW before
    PROVE  Sorted(seq, before) \in Seq(S) /\ ToSet(Sorted(seq, before)) = ToSet(seq)
<1> DEFINE N == Len(seq)
<1>1. N \in Nat /\ DOMAIN seq = 1 .. N /\ \A i \in 1 .. N : seq[i] \in S
  OBVIOUS
<1>2. PICK sorted : /\ sorted[0] = <<>> /\ Sorted(seq, before) = sorted[N]
                    /\ \A i \in 1 .. N : sorted[i] = Insert(sorted[i - 1], seq[i], before)
  BY SortedSteps
<1> HIDE DEF N
<1> DEFINE Holds == {n \in 0 .. N : sorted[n] \in Seq(S) /\ ToSet(sorted[n]) = {seq[i] : i \in 1 .. n}}
<1>3. 0 \in Holds
  <2>1. ToSet(<<>>) = {} /\ <<>> \in Seq(S)
    BY DEF ToSet
  <2>2. {seq[i] : i \in 1 .. 0} = {} /\ 0 \in 0 .. N
    BY <1>1
  <2>3. sorted[0] \in Seq(S) /\ ToSet(sorted[0]) = {seq[i] : i \in 1 .. 0}
    BY <1>2, <2>1, <2>2
  <2> QED
    BY <2>2, <2>3
<1>4. ASSUME NEW n \in 1 .. N, n - 1 \in Holds PROVE n \in Holds
  <2>1. sorted[n - 1] \in Seq(S) /\ seq[n] \in S /\ sorted[n] = Insert(sorted[n - 1], seq[n], before)
    BY <1>1, <1>2, <1>4
  <2>2. sorted[n] \in Seq(S) /\ ToSet(sorted[n]) = ToSet(sorted[n - 1]) \cup {seq[n]}
    BY <2>1, InsertHolds
  <2>3. 1 .. n = (1 .. n - 1) \cup {n}
    BY <1>1
  <2>4. {seq[i] : i \in 1 .. n} = {seq[i] : i \in 1 .. n - 1} \cup {seq[n]}
    BY <2>3
  <2> QED
    BY <1>1, <1>4, <2>2, <2>4
<1>5. N \in Holds
  <2> HIDE DEF Holds
  <2>1. \A i \in 1 .. N : i - 1 \in Holds => i \in Holds
    BY <1>4
  <2>2. \A i \in 0 .. N : i \in Holds
    BY <1>1, <1>3, <2>1, Induction
  <2> QED
    BY <1>1, <2>2
<1> QED
  BY <1>1, <1>2, <1>5 DEF ToSet

\* A relation that can be sorted by.
Orders(before, S) ==
    /\ \A a, b \in S : <<a, b>> \in before => <<b, a>> \notin before
    /\ \A a, b, c \in S : <<a, b>> \in before /\ <<b, c>> \in before => <<a, c>> \in before
InOrder(s, before) == \A i, j \in DOMAIN s : i < j => <<s[j], s[i]>> \notin before

\* An element is inserted where it belongs.
LEMMA InsertOrder ==
    ASSUME NEW S, NEW sorted \in Seq(S), NEW x \in S, NEW before, Orders(before, S), InOrder(sorted, before)
    PROVE  InOrder(Insert(sorted, x, before), before)
<1> DEFINE later == {i \in DOMAIN sorted : <<x, sorted[i]>> \in before}
           left == KeepAt(sorted, DOMAIN sorted \ later)
           right == KeepAt(sorted, later)
           all == left \o <<x>> \o right
           L == Len(left)
           R == Len(right)
<1>1. Insert(sorted, x, before) = all
  BY Zenon DEF Insert
<1>2. PICK p : KeptFrom(p, left, sorted, DOMAIN sorted \ later)
  BY KeepAtOrder
<1>3. PICK q : KeptFrom(q, right, sorted, later)
  BY KeepAtOrder
<1>4. left \in Seq(S) /\ right \in Seq(S)
  BY KeptHolds
<1> HIDE DEF left, right
<1>5. L \in Nat /\ R \in Nat /\ DOMAIN left = 1 .. L /\ DOMAIN right = 1 .. R
  BY <1>4
<1>6. \A i \in DOMAIN left : left[i] \in S /\ p[i] \in DOMAIN sorted /\ left[i] = sorted[p[i]] /\ <<x, left[i]>> \notin before
  BY <1>2, <1>4 DEF KeptFrom
<1>7. \A i \in DOMAIN right : right[i] \in S /\ q[i] \in DOMAIN sorted /\ right[i] = sorted[q[i]] /\ <<x, right[i]>> \in before
  BY <1>3, <1>4 DEF KeptFrom
<1>8. /\ DOMAIN all = 1 .. L + 1 + R /\ all[L + 1] = x
      /\ \A i \in 1 .. L : all[i] = left[i]
      /\ \A i \in 1 .. R : all[L + 1 + i] = right[i]
  BY <1>4
<1>9. \A i, j \in DOMAIN left : i < j => <<left[j], left[i]>> \notin before
  <2> SUFFICES ASSUME NEW i \in DOMAIN left, NEW j \in DOMAIN left, i < j PROVE <<left[j], left[i]>> \notin before
    OBVIOUS
  <2>1. p[i] < p[j] /\ p[i] \in DOMAIN sorted /\ p[j] \in DOMAIN sorted
    BY <1>2, <1>6 DEF KeptFrom
  <2>2. <<sorted[p[j]], sorted[p[i]]>> \notin before
    BY <2>1 DEF InOrder
  <2> QED
    BY <1>6, <2>2
<1>10. \A i, j \in DOMAIN right : i < j => <<right[j], right[i]>> \notin before
  <2> SUFFICES ASSUME NEW i \in DOMAIN right, NEW j \in DOMAIN right, i < j PROVE <<right[j], right[i]>> \notin before
    OBVIOUS
  <2>1. q[i] < q[j] /\ q[i] \in DOMAIN sorted /\ q[j] \in DOMAIN sorted
    BY <1>3, <1>7 DEF KeptFrom
  <2>2. <<sorted[q[j]], sorted[q[i]]>> \notin before
    BY <2>1 DEF InOrder
  <2> QED
    BY <1>7, <2>2
<1> HIDE DEF L, R, all, later
<1>11. \A j \in DOMAIN right : <<right[j], x>> \notin before
  BY <1>7 DEF Orders
<1>12. \A i \in DOMAIN left : \A j \in DOMAIN right : <<right[j], left[i]>> \notin before
  BY <1>6, <1>7 DEF Orders
<1>13. ASSUME NEW i \in DOMAIN all, NEW j \in DOMAIN all, i < j PROVE <<all[j], all[i]>> \notin before
  <2> DEFINE k == j - (L + 1)
             h == i - (L + 1)
  <2>1. i \in 1 .. L + 1 + R /\ j \in 1 .. L + 1 + R /\ i \in Int /\ j \in Int /\ L \in Int /\ R \in Int
    BY <1>5, <1>8
  <2>2. i \in 1 .. L \/ i = L + 1 \/ (h \in 1 .. R /\ i = L + 1 + h)
    BY <1>5, <2>1
  <2>3. j \in 1 .. L \/ j = L + 1 \/ (k \in 1 .. R /\ j = L + 1 + k)
    BY <1>5, <2>1
  <2>4. (i = L + 1 => ~(j \in 1 .. L) /\ j # L + 1) /\ (i \in 1 .. R + L + 1 /\ h \in 1 .. R => k \in 1 .. R /\ j = L + 1 + k /\ h < k)
    BY <1>5, <1>13, <2>1
  <2> HIDE DEF k, h
  <2>5. CASE i \in 1 .. L /\ j \in 1 .. L
    BY <1>5, <1>8, <1>9, <1>13, <2>5
  <2>6. CASE i \in 1 .. L /\ j = L + 1
    BY <1>5, <1>6, <1>8, <2>6
  <2>7. CASE i \in 1 .. L /\ k \in 1 .. R /\ j = L + 1 + k
    BY <1>5, <1>8, <1>12, <2>7
  <2>8. CASE i = L + 1
    <3>1. k \in 1 .. R /\ j = L + 1 + k
      BY <2>3, <2>4, <2>8
    <3> QED
      BY <1>5, <1>8, <1>11, <2>8, <3>1
  <2>9. CASE h \in 1 .. R /\ i = L + 1 + h
    <3>1. k \in 1 .. R /\ j = L + 1 + k /\ h < k
      BY <1>5, <2>1, <2>4, <2>9
    <3> QED
      BY <1>5, <1>8, <1>10, <2>9, <3>1
  <2> QED
    BY <2>2, <2>3, <2>5, <2>6, <2>7, <2>8, <2>9
<1> QED
  BY <1>1, <1>13 DEF InOrder

\* A sorted sequence is in order.
LEMMA SortedOrder ==
    ASSUME NEW S, NEW seq \in Seq(S), NEW before, Orders(before, S)
    PROVE  InOrder(Sorted(seq, before), before)
<1> DEFINE N == Len(seq)
<1>1. N \in Nat /\ DOMAIN seq = 1 .. N /\ \A i \in 1 .. N : seq[i] \in S
  OBVIOUS
<1>2. PICK sorted : /\ sorted[0] = <<>> /\ Sorted(seq, before) = sorted[N]
                    /\ \A i \in 1 .. N : sorted[i] = Insert(sorted[i - 1], seq[i], before)
  BY SortedSteps
<1> HIDE DEF N
<1> DEFINE Holds == {n \in 0 .. N : sorted[n] \in Seq(S) /\ InOrder(sorted[n], before)}
<1>3. 0 \in Holds
  <2>1. InOrder(<<>>, before) /\ <<>> \in Seq(S)
    BY DEF InOrder
  <2>2. 0 \in 0 .. N
    BY <1>1
  <2>3. sorted[0] \in Seq(S) /\ InOrder(sorted[0], before)
    BY <1>2, <2>1
  <2> QED
    BY <2>2, <2>3
<1>4. ASSUME NEW n \in 1 .. N, n - 1 \in Holds PROVE n \in Holds
  <2>1. /\ sorted[n - 1] \in Seq(S) /\ seq[n] \in S /\ sorted[n] = Insert(sorted[n - 1], seq[n], before)
        /\ InOrder(sorted[n - 1], before)
    BY <1>1, <1>2, <1>4
  <2>2. sorted[n] \in Seq(S)
    BY <2>1, InsertHolds
  <2>3. InOrder(sorted[n], before)
    BY <2>1, InsertOrder
  <2> QED
    BY <1>1, <2>2, <2>3
<1>5. N \in Holds
  <2> HIDE DEF Holds
  <2>1. \A i \in 1 .. N : i - 1 \in Holds => i \in Holds
    BY <1>4
  <2>2. \A i \in 0 .. N : i \in Holds
    BY <1>1, <1>3, <2>1, Induction
  <2> QED
    BY <1>1, <2>2
<1> QED
  BY <1>2, <1>5

\* What is kept of a sequence, as a set.
LEMMA KeptSet ==
    ASSUME NEW S, NEW seq \in Seq(S), NEW places, places \subseteq DOMAIN seq
    PROVE  KeepAt(seq, places) \in Seq({seq[i] : i \in places}) /\ ToSet(KeepAt(seq, places)) = {seq[i] : i \in places}
<1> DEFINE T == {seq[i] : i \in places}
           kept == KeepAt(seq, places)
<1>1. kept \in Seq(T)
  <2>1. {seq[i] : i \in places \cap DOMAIN seq} = T
    OBVIOUS
  <2> HIDE DEF T
  <2> QED
    BY <2>1, KeepAtSeq
<1>2. \A k \in places : \E i \in DOMAIN kept : kept[i] = seq[k]
  BY KeepAtAll
<1> HIDE DEF kept
<1>3. ToSet(kept) = {kept[i] : i \in DOMAIN kept}
  BY DEF ToSet
<1>4. \A i \in DOMAIN kept : kept[i] \in T
  <2> HIDE DEF T
  <2> QED
    BY <1>1
<1>5. ToSet(kept) = T
  BY <1>2, <1>3, <1>4
<1> QED
  BY <1>1, <1>5 DEF kept

\* What is kept and what is left are as long as the whole.
LEMMA KeepAtLengths ==
    ASSUME NEW S, NEW seq \in Seq(S), NEW places, NEW others, \A i \in DOMAIN seq : i \in others <=> i \notin places
    PROVE  Len(KeepAt(seq, places)) + Len(KeepAt(seq, others)) = Len(seq)
<1> DEFINE N == Len(seq)
<1>1. N \in Nat /\ DOMAIN seq = 1 .. N /\ \A i \in 1 .. N : seq[i] \in S
  OBVIOUS
<1>2. PICK kept : Keeps(kept, seq, places) /\ KeepAt(seq, places) = kept[N]
  BY KeepAtSteps
<1>3. PICK left : Keeps(left, seq, others) /\ KeepAt(seq, others) = left[N]
  BY KeepAtSteps
<1> DEFINE T == {n \in 0 .. N : kept[n] \in Seq(S) /\ left[n] \in Seq(S) /\ Len(kept[n]) + Len(left[n]) = n}
<1>4. 0 \in T
  <2>1. kept[0] = <<>> /\ left[0] = <<>> /\ 0 \in 0 .. N
    BY <1>1, <1>2, <1>3 DEF Keeps
  <2>2. kept[0] \in Seq(S) /\ left[0] \in Seq(S) /\ Len(kept[0]) + Len(left[0]) = 0
    BY <2>1
  <2> QED
    BY <2>1, <2>2
<1>5. ASSUME NEW n \in 1 .. N, n - 1 \in T PROVE n \in T
  <2> DEFINE a == kept[n - 1]
             b == left[n - 1]
  <2>1. /\ kept[n] = IF n \in places THEN Append(a, seq[n]) ELSE a
        /\ left[n] = IF n \in others THEN Append(b, seq[n]) ELSE b
    BY <1>2, <1>3 DEF Keeps
  <2>2. a \in Seq(S) /\ b \in Seq(S) /\ Len(a) + Len(b) = n - 1 /\ n \in 0 .. N /\ n \in Int /\ seq[n] \in S
    <3>1. a \in Seq(S) /\ b \in Seq(S) /\ Len(a) + Len(b) = n - 1
      BY <1>5
    <3>2. n \in 0 .. N /\ n \in Int /\ seq[n] \in S
      BY <1>1
    <3> QED
      BY <3>1, <3>2
  <2>3. n \in others <=> n \notin places
    BY <1>1
  <2> HIDE DEF a, b
  <2>4. /\ Append(a, seq[n]) \in Seq(S) /\ Len(Append(a, seq[n])) = Len(a) + 1
        /\ Append(b, seq[n]) \in Seq(S) /\ Len(Append(b, seq[n])) = Len(b) + 1
        /\ Len(a) \in Nat /\ Len(b) \in Nat
    BY <2>2
  <2> DEFINE c == Append(a, seq[n])
             d == Append(b, seq[n])
  <2> HIDE DEF c, d
  <2>5. kept[n] \in Seq(S) /\ left[n] \in Seq(S) /\ Len(kept[n]) + Len(left[n]) = n
    <3>1. CASE n \in places
      <4>1. kept[n] = c /\ left[n] = b
        BY <2>1, <2>3, <3>1 DEF c
      <4> QED
        BY <2>2, <2>4, <4>1 DEF c
    <3>2. CASE n \notin places
      <4>1. kept[n] = a /\ left[n] = d
        BY <2>1, <2>3, <3>2 DEF d
      <4> QED
        BY <2>2, <2>4, <4>1 DEF d
    <3> QED
      BY <3>1, <3>2
  <2> QED
    BY <2>2, <2>5
<1>6. N \in T
  <2> HIDE DEF T
  <2>1. \A i \in 1 .. N : i - 1 \in T => i \in T
    BY <1>5
  <2>2. \A i \in 0 .. N : i \in T
    BY <1>1, <1>4, <2>1, Induction
  <2> QED
    BY <1>1, <2>2
<1> QED
  BY <1>2, <1>3, <1>6

\* One sequence is another in some order: each place of it takes a place of its own.
Permutes(at, t, s) ==
    /\ DOMAIN t = DOMAIN s /\ at \in [DOMAIN t -> DOMAIN s]
    /\ \A i \in DOMAIN t : t[i] = s[at[i]]
    /\ \A i, j \in DOMAIN t : at[i] = at[j] => i = j

LEMMA InsertPermutes ==
    ASSUME NEW S, NEW sorted \in Seq(S), NEW x \in S, NEW before
    PROVE  \E at : Permutes(at, Insert(sorted, x, before), Append(sorted, x))
<1> DEFINE later == {i \in DOMAIN sorted : <<x, sorted[i]>> \in before}
           sooner == DOMAIN sorted \ later
           left == KeepAt(sorted, sooner)
           right == KeepAt(sorted, later)
           all == left \o <<x>> \o right
           long == Append(sorted, x)
           N == Len(sorted)
           L == Len(left)
           R == Len(right)
<1>1. Insert(sorted, x, before) = all
  BY Zenon DEF Insert
<1>2. PICK p : KeptFrom(p, left, sorted, sooner)
  BY KeepAtOrder
<1>3. PICK q : KeptFrom(q, right, sorted, later)
  BY KeepAtOrder
<1>4. left \in Seq(S) /\ right \in Seq(S)
  BY KeptHolds
<1>5. L + R = N
  <2>1. \A i \in DOMAIN sorted : i \in later <=> i \notin sooner
    OBVIOUS
  <2> HIDE DEF later, sooner
  <2> QED
    BY <2>1, KeepAtLengths
<1> HIDE DEF left, right
<1>6. N \in Nat /\ L \in Nat /\ R \in Nat /\ DOMAIN left = 1 .. L /\ DOMAIN right = 1 .. R /\ DOMAIN sorted = 1 .. N
  BY <1>4
<1>7. /\ \A i \in 1 .. L : p[i] \in 1 .. N /\ p[i] \in sooner /\ left[i] = sorted[p[i]]
      /\ \A i, j \in 1 .. L : i < j => p[i] < p[j]
  BY <1>2, <1>6 DEF KeptFrom
<1>8. /\ \A i \in 1 .. R : q[i] \in 1 .. N /\ q[i] \in later /\ right[i] = sorted[q[i]]
      /\ \A i, j \in 1 .. R : i < j => q[i] < q[j]
  BY <1>3, <1>6 DEF KeptFrom
<1>9. /\ DOMAIN all = 1 .. L + 1 + R /\ all[L + 1] = x
      /\ \A i \in 1 .. L : all[i] = left[i]
      /\ \A i \in 1 .. R : all[L + 1 + i] = right[i]
  BY <1>4
<1>10. DOMAIN long = 1 .. N + 1 /\ long[N + 1] = x /\ \A i \in 1 .. N : long[i] = sorted[i]
  OBVIOUS
<1>11. \A i \in 1 .. L : \A j \in 1 .. R : p[i] # q[j]
  BY <1>7, <1>8
<1> DEFINE at == [i \in 1 .. N + 1 |-> IF i \in 1 .. L THEN p[i] ELSE IF i = L + 1 THEN N + 1 ELSE q[i - (L + 1)]]
<1> HIDE DEF all, long, N, L, R, later, sooner
<1>12. DOMAIN all = 1 .. N + 1
  BY <1>5, <1>6, <1>9
<1>13. ASSUME NEW i \in 1 .. N + 1
       PROVE  \/ i \in 1 .. L /\ at[i] = p[i] /\ at[i] \in 1 .. N /\ all[i] = sorted[at[i]]
              \/ i = L + 1 /\ at[i] = N + 1 /\ all[i] = x
              \/ (/\ i - (L + 1) \in 1 .. R /\ at[i] = q[i - (L + 1)] /\ at[i] \in 1 .. N
                  /\ all[i] = sorted[at[i]])
  <2>1. i \in 1 .. L \/ i = L + 1 \/ (i - (L + 1) \in 1 .. R /\ i = L + 1 + (i - (L + 1)))
    BY <1>5, <1>6
  <2>2. CASE i \in 1 .. L
    BY <1>7, <1>9, <2>2
  <2>3. CASE i = L + 1
    <3>1. i \notin 1 .. L
      BY <1>6, <2>3
    <3> QED
      BY <1>9, <2>3, <3>1
  <2>4. CASE i - (L + 1) \in 1 .. R /\ i = L + 1 + (i - (L + 1))
    <3> DEFINE k == i - (L + 1)
    <3>1. i \notin 1 .. L /\ i # L + 1
      BY <1>6, <2>4
    <3>2. at[i] = q[k] /\ k \in 1 .. R /\ i = L + 1 + k
      BY <2>4, <3>1
    <3> HIDE DEF k, at
    <3>3. all[i] = sorted[at[i]] /\ at[i] \in 1 .. N
      BY <1>8, <1>9, <3>2
    <3> QED
      BY <3>2, <3>3 DEF k
  <2> QED
    BY <2>1, <2>2, <2>3, <2>4
<1> HIDE DEF at
<1>14. ASSUME NEW i \in 1 .. N + 1 PROVE at[i] \in 1 .. N + 1 /\ all[i] = long[at[i]]
  <2>1. 1 .. N \subseteq 1 .. N + 1 /\ N + 1 \in 1 .. N + 1
    BY <1>6
  <2> QED
    BY <1>10, <1>13, <2>1
<1>15. ASSUME NEW i \in 1 .. N + 1, NEW j \in 1 .. N + 1, i < j PROVE at[i] # at[j]
  <2> DEFINE h == i - (L + 1)
             k == j - (L + 1)
  <2>1. \/ i \in 1 .. L /\ at[i] = p[i] /\ at[i] \in 1 .. N
        \/ i = L + 1 /\ at[i] = N + 1
        \/ h \in 1 .. R /\ at[i] = q[h] /\ at[i] \in 1 .. N
    BY <1>13
  <2>2. \/ j \in 1 .. L /\ at[j] = p[j] /\ at[j] \in 1 .. N
        \/ j = L + 1 /\ at[j] = N + 1
        \/ k \in 1 .. R /\ at[j] = q[k] /\ at[j] \in 1 .. N
    BY <1>13
  <2>3. h < k /\ N + 1 \notin 1 .. N /\ i # j
    BY <1>6, <1>15
  <2> HIDE DEF h, k
  <2>4. i \in 1 .. L /\ j \in 1 .. L => p[i] < p[j] /\ p[i] \in Int
    BY <1>6, <1>7, <1>15
  <2>5. h \in 1 .. R /\ k \in 1 .. R => q[h] < q[k] /\ q[h] \in Int
    BY <1>8, <2>3
  <2>6. CASE i \in 1 .. L /\ at[i] = p[i] /\ at[i] \in 1 .. N
    BY <1>11, <2>2, <2>3, <2>4, <2>6
  <2>7. CASE i = L + 1 /\ at[i] = N + 1
    BY <2>2, <2>3, <2>7
  <2>8. CASE h \in 1 .. R /\ at[i] = q[h] /\ at[i] \in 1 .. N
    BY <1>11, <2>2, <2>3, <2>5, <2>8
  <2> QED
    BY <2>1, <2>6, <2>7, <2>8
<1>16. \A i, j \in 1 .. N + 1 : at[i] = at[j] => i = j
  <2>1. \A i, j \in 1 .. N + 1 : i < j \/ j < i \/ i = j
    BY <1>6
  <2> QED
    BY <1>15, <2>1
<1>17. at \in [1 .. N + 1 -> 1 .. N + 1]
  BY <1>14 DEF at
<1>18. Permutes(at, all, long)
  BY <1>10, <1>12, <1>14, <1>16, <1>17 DEF Permutes
<1> QED
  BY <1>1, <1>18 DEF long

\* Sorting loses nothing and repeats nothing.
LEMMA SortedPermutes ==
    ASSUME NEW S, NEW seq \in Seq(S), NEW before
    PROVE  \E at : Permutes(at, Sorted(seq, before), seq)
<1> DEFINE N == Len(seq)
<1>1. N \in Nat /\ DOMAIN seq = 1 .. N /\ \A i \in 1 .. N : seq[i] \in S
  OBVIOUS
<1>2. PICK sorted : /\ sorted[0] = <<>> /\ Sorted(seq, before) = sorted[N]
                    /\ \A i \in 1 .. N : sorted[i] = Insert(sorted[i - 1], seq[i], before)
  BY SortedSteps
<1> HIDE DEF N
<1> DEFINE Mixes(at, n) == /\ at \in [1 .. n -> 1 .. n] /\ \A i \in 1 .. n : sorted[n][i] = seq[at[i]]
                           /\ \A i, j \in 1 .. n : at[i] = at[j] => i = j
           T == {n \in 0 .. N : sorted[n] \in Seq(S) /\ Len(sorted[n]) = n /\ \E at : Mixes(at, n)}
<1>3. 0 \in T
  <2> DEFINE none == [i \in 1 .. 0 |-> 0]
  <2>1. 0 \in 0 .. N /\ sorted[0] \in Seq(S) /\ Len(sorted[0]) = 0
    BY <1>1, <1>2
  <2>2. none \in [1 .. 0 -> 1 .. 0]
    OBVIOUS
  <2> HIDE DEF none
  <2>3. Mixes(none, 0)
    BY <2>2
  <2> HIDE DEF Mixes
  <2> QED
    BY <2>1, <2>3
<1>4. ASSUME NEW n \in 1 .. N, n - 1 \in T PROVE n \in T
  <2> DEFINE s == sorted[n - 1]
             t == sorted[n]
             m == n - 1
             long == Append(s, seq[n])
  <2>1. s \in Seq(S) /\ Len(s) = m /\ seq[n] \in S /\ n \in 0 .. N /\ n \in Int /\ m \in Nat /\ n = m + 1
    BY <1>1, <1>4
  <2>2. PICK p : Mixes(p, m)
    BY <1>4
  <2>3. t = Insert(s, seq[n], before)
    BY <1>2
  <2>4. t \in Seq(S)
    <3> HIDE DEF s, t
    <3> QED
      BY <2>1, <2>3, InsertHolds
  <2>5. PICK q : Permutes(q, t, long)
    <3> HIDE DEF s, t
    <3> QED
      BY <2>1, <2>3, InsertPermutes
  <2> HIDE DEF s, t, m
  <2>6. DOMAIN long = 1 .. n /\ long[n] = seq[n] /\ \A i \in 1 .. m : long[i] = s[i]
    BY <2>1
  <2> HIDE DEF long
  <2>7. /\ DOMAIN t = 1 .. n /\ q \in [1 .. n -> 1 .. n] /\ \A i \in 1 .. n : t[i] = long[q[i]]
        /\ \A i, j \in 1 .. n : q[i] = q[j] => i = j
    BY <2>5, <2>6 DEF Permutes
  <2>8. p \in [1 .. m -> 1 .. m] /\ (\A i \in 1 .. m : s[i] = seq[p[i]]) /\ \A i, j \in 1 .. m : p[i] = p[j] => i = j
    BY <2>2 DEF s, m
  <2> DEFINE at == [i \in 1 .. n |-> IF q[i] = n THEN n ELSE p[q[i]]]
  <2>9. ASSUME NEW i \in 1 .. n
        PROVE  \/ q[i] = n /\ at[i] = n /\ t[i] = seq[n]
               \/ q[i] \in 1 .. m /\ at[i] = p[q[i]] /\ at[i] \in 1 .. m /\ t[i] = seq[at[i]]
    <3>1. q[i] = n \/ (q[i] # n /\ q[i] \in 1 .. m)
      BY <2>1, <2>7
    <3>2. CASE q[i] = n
      BY <2>6, <2>7, <3>2
    <3>3. CASE q[i] # n /\ q[i] \in 1 .. m
      BY <2>6, <2>7, <2>8, <3>3
    <3> QED
      BY <3>1, <3>2, <3>3
  <2>10. at \in [1 .. n -> 1 .. n]
    <3>1. 1 .. m \subseteq 1 .. n /\ n \in 1 .. n
      BY <2>1
    <3> QED
      BY <2>9, <3>1
  <2> HIDE DEF at
  <2>11. \A i, j \in 1 .. n : at[i] = at[j] => i = j
    <3> SUFFICES ASSUME NEW i \in 1 .. n, NEW j \in 1 .. n, at[i] = at[j] PROVE q[i] = q[j]
      BY <2>7
    <3>1. n \notin 1 .. m
      BY <2>1
    <3>2. /\ (q[i] = n /\ at[i] = n) \/ (q[i] \in 1 .. m /\ at[i] = p[q[i]] /\ at[i] \in 1 .. m)
          /\ (q[j] = n /\ at[j] = n) \/ (q[j] \in 1 .. m /\ at[j] = p[q[j]] /\ at[j] \in 1 .. m)
      BY <2>9
    <3>3. CASE q[i] = n /\ at[i] = n
      BY <3>1, <3>2, <3>3
    <3>4. CASE q[i] \in 1 .. m /\ at[i] = p[q[i]] /\ at[i] \in 1 .. m
      BY <2>8, <3>1, <3>2, <3>4
    <3> QED
      BY <3>2, <3>3, <3>4
  <2>12. \A i \in 1 .. n : sorted[n][i] = seq[at[i]]
    BY <2>9 DEF t
  <2>13. Mixes(at, n)
    BY <2>10, <2>11, <2>12
  <2> HIDE DEF Mixes
  <2>14. Len(t) = n
    BY <2>1, <2>4, <2>7
  <2> QED
    BY <2>1, <2>4, <2>13, <2>14 DEF t
<1>5. N \in T
  <2> HIDE DEF T
  <2>1. \A i \in 1 .. N : i - 1 \in T => i \in T
    BY <1>4
  <2>2. \A i \in 0 .. N : i \in T
    BY <1>1, <1>3, <2>1, Induction
  <2> QED
    BY <1>1, <2>2
<1>6. PICK at : Mixes(at, N)
  BY <1>5
<1>7. DOMAIN sorted[N] = 1 .. N
  BY <1>5
<1>8. Permutes(at, sorted[N], seq)
  BY <1>1, <1>6, <1>7 DEF Permutes
<1> QED
  BY <1>2, <1>8

\* Sorted by a number of each element.
LEMMA SortedByNumber ==
    ASSUME NEW S, NEW seq \in Seq(S), NEW number \in [S -> Int], NEW before,
           \A a, b \in ToSet(seq) : <<a, b>> \in before <=> number[a] < number[b]
    PROVE  /\ \A i \in DOMAIN Sorted(seq, before) : Sorted(seq, before)[i] \in S
           /\ \A i, j \in DOMAIN Sorted(seq, before) :
                i < j => number[Sorted(seq, before)[i]] <= number[Sorted(seq, before)[j]]
<1> DEFINE T == ToSet(seq)
           sorted == Sorted(seq, before)
<1>1. T \subseteq S /\ seq \in Seq(T)
  BY DEF ToSet
<1>2. \A a \in T : number[a] \in Int
  BY <1>1
<1> HIDE DEF T
<1>3. Orders(before, T)
  BY <1>2 DEF Orders, T
<1>4. sorted \in Seq(T)
  BY <1>1, SortedHolds
<1>5. InOrder(sorted, before)
  BY <1>1, <1>3, SortedOrder
<1> HIDE DEF sorted
<1>6. \A i \in DOMAIN sorted : sorted[i] \in T
  BY <1>4
<1>7. ASSUME NEW i \in DOMAIN sorted, NEW j \in DOMAIN sorted, i < j PROVE number[sorted[i]] <= number[sorted[j]]
  <2>1. <<sorted[j], sorted[i]>> \notin before
    BY <1>5, <1>7 DEF InOrder
  <2>2. ~(number[sorted[j]] < number[sorted[i]])
    BY <1>6, <2>1 DEF T
  <2> QED
    BY <1>2, <1>6, <2>2
<1> QED
  BY <1>1, <1>6, <1>7 DEF sorted

\* The greatest of some numbers, none of which passes a bound.
LEMMA BoundedMax ==
    ASSUME NEW T, T \subseteq Nat, T # {}, NEW bound \in Nat, \A i \in T : i <= bound
    PROVE  Max(T) \in T /\ \A i \in T : i <= Max(T)
<1> DEFINE Below == {bound - i : i \in T}
<1>1. PICK k \in Below : \A j \in Below : k <= j
  <2>1. Below # {}
    OBVIOUS
  <2>2. \A i \in T : bound - i \in Nat
    OBVIOUS
  <2>3. Below \subseteq Nat
    BY <2>2
  <2> HIDE DEF Below
  <2> QED
    BY <2>1, <2>3, LeastNumber
<1>2. PICK i \in T : k = bound - i
  BY <1>1
<1>3. \A j \in T : bound - i <= bound - j
  BY <1>1, <1>2
<1>4. \A j \in T : i >= j
  BY <1>3
<1> QED
  BY <1>4 DEF Max

\* The first number of some.
LEMMA FirstOfNumbers ==
    ASSUME NEW T, T \subseteq Nat, T # {}
    PROVE  Min(T) \in T /\ \A i \in T : Min(T) <= i
<1> DEFINE m == CHOOSE x \in T : \A y \in T : x <= y
<1>1. \E x \in T : \A y \in T : x <= y
  BY LeastNumber
<1>2. m \in T /\ \A y \in T : m <= y
  BY <1>1
<1>3. Min(T) = m
  BY DEF Min
<1> HIDE DEF m
<1> QED
  BY <1>2, <1>3

\* Of two numbers the lesser one.
LEMMA MinOfTwo ==
    ASSUME NEW a \in Int, NEW b \in Int
    PROVE  Min({a, b}) \in {a, b} /\ Min({a, b}) <= a /\ Min({a, b}) <= b
<1>1. \E x \in {a, b} : \A y \in {a, b} : x <= y
  OBVIOUS
<1> DEFINE m == CHOOSE x \in {a, b} : \A y \in {a, b} : x <= y
<1>2. m \in {a, b} /\ \A y \in {a, b} : m <= y
  BY <1>1
<1> HIDE DEF m
<1>3. Min({a, b}) = m
  BY DEF Min, m
<1> QED
  BY <1>2, <1>3

-----------------------------------------------------------------------------
(* Lists.                                                                  *)

\* Every sequence is a list, of any set that it is a sequence of.
LEMMA ListOf ==
    ASSUME NEW S, NEW s \in Seq(S) PROVE IsList(s) /\ \A i \in DOMAIN s : s[i] \in S
<1> DEFINE T == {s[i] : i \in DOMAIN s}
<1>1. DOMAIN s = 1 .. Len(s) /\ Len(s) \in Nat /\ s = [i \in 1 .. Len(s) |-> s[i]]
  OBVIOUS
<1>2. \A i \in 1 .. Len(s) : s[i] \in T
  BY <1>1
<1> HIDE DEF T
<1>3. s \in Seq(T)
  BY <1>1, <1>2
<1> QED
  BY <1>1, <1>3 DEF IsList, T

\* The places of a list.
LEMMA ListShape ==
    ASSUME NEW s, IsList(s) PROVE Len(s) \in Nat /\ DOMAIN s = 1 .. Len(s)
BY DEF IsList

\* What is kept of a list is a list of its elements.
LEMMA KeepAtList ==
    ASSUME NEW seq, IsList(seq), NEW places
    PROVE  /\ IsList(KeepAt(seq, places))
           /\ \A i \in DOMAIN KeepAt(seq, places) : \E k \in DOMAIN seq : KeepAt(seq, places)[i] = seq[k]
<1> DEFINE S == {seq[i] : i \in DOMAIN seq}
           T == {seq[i] : i \in places \cap DOMAIN seq}
           kept == KeepAt(seq, places)
<1>1. kept \in Seq(T)
  <2>1. seq \in Seq(S)
    BY DEF IsList
  <2> HIDE DEF S
  <2> QED
    BY <2>1, KeepAtSeq
<1> HIDE DEF kept
<1>2. IsList(kept) /\ \A i \in DOMAIN kept : kept[i] \in T
  <2> HIDE DEF T
  <2> QED
    BY <1>1, ListOf
<1> QED
  BY <1>2 DEF kept

\* A list of something for every place of a list, or for the first n numbers.
LEMMA ListByPlace ==
    ASSUME NEW f, NEW n \in Nat, DOMAIN f = 1 .. n, f = [i \in 1 .. n |-> f[i]]
    PROVE  IsList(f) /\ Len(f) = n
<1> DEFINE T == {f[i] : i \in DOMAIN f}
<1>1. \A i \in 1 .. n : f[i] \in T
  OBVIOUS
<1> HIDE DEF T
<1>2. f \in Seq(T) /\ Len(f) = n
  BY <1>1
<1> QED
  BY <1>2 DEF IsList, T

\* Two lists in one.
LEMMA ListJoin ==
    ASSUME NEW s, IsList(s), NEW t, IsList(t)
    PROVE  /\ IsList(s \o t) /\ Len(s \o t) = Len(s) + Len(t)
           /\ s # <<>> => s \o t # <<>> /\ (s \o t)[1] = s[1]
<1> DEFINE S == {s[i] : i \in DOMAIN s} \cup {t[i] : i \in DOMAIN t}
<1>1. s \in Seq(S) /\ t \in Seq(S)
  BY SeqMonotonic DEF IsList
<1> HIDE DEF S
<1>2. s \o t \in Seq(S) /\ Len(s \o t) = Len(s) + Len(t) /\ (s # <<>> => (s \o t)[1] = s[1])
  BY <1>1
<1>3. s # <<>> => s \o t # <<>>
  BY <1>1, <1>2
<1> QED
  BY <1>2, <1>3, ListOf

\* The elements of a list, and of two lists in one.
LEMMA ToSetHolds ==
    ASSUME NEW S, NEW rows \in Seq(S)
    PROVE  ToSet(rows) \subseteq S /\ (rows # <<>> <=> ToSet(rows) # {})
BY DEF ToSet

LEMMA JoinHolds ==
    ASSUME NEW S, NEW s \in Seq(S), NEW t \in Seq(S)
    PROVE  s \o t \in Seq(S) /\ ToSet(s \o t) = ToSet(s) \cup ToSet(t)
<1> DEFINE all == s \o t
<1>1. /\ Len(s) \in Nat /\ Len(t) \in Nat /\ DOMAIN s = 1 .. Len(s) /\ DOMAIN t = 1 .. Len(t)
      /\ all \in Seq(S) /\ DOMAIN all = 1 .. Len(s) + Len(t)
      /\ \A i \in 1 .. Len(s) : all[i] = s[i]
      /\ \A i \in 1 .. Len(t) : all[Len(s) + i] = t[i]
  OBVIOUS
<1> HIDE DEF all
<1>2. ASSUME NEW i \in DOMAIN all PROVE (\E k \in DOMAIN s : all[i] = s[k]) \/ (\E k \in DOMAIN t : all[i] = t[k])
  <2>1. i \in 1 .. Len(s) \/ (i - Len(s) \in 1 .. Len(t) /\ Len(s) + (i - Len(s)) = i)
    BY <1>1
  <2> QED
    BY <1>1, <2>1
<1>3. ASSUME NEW k \in DOMAIN s PROVE \E i \in DOMAIN all : all[i] = s[k]
  BY <1>1
<1>4. ASSUME NEW k \in DOMAIN t PROVE \E i \in DOMAIN all : all[i] = t[k]
  <2>1. Len(s) + k \in DOMAIN all
    BY <1>1
  <2> QED
    BY <1>1, <2>1
<1>5. ToSet(all) = ToSet(s) \cup ToSet(t)
  BY <1>2, <1>3, <1>4 DEF ToSet
<1> QED
  BY <1>1, <1>5 DEF all

\* A sequence made of two.
LEMMA JoinIs ==
    ASSUME NEW S, NEW left \in Seq(S), NEW right \in Seq(S), NEW whole \in Seq(S), Len(whole) = Len(left) + Len(right),
           \A i \in 1 .. Len(left) : whole[i] = left[i],
           \A i \in 1 .. Len(right) : whole[Len(left) + i] = right[i]
    PROVE  whole = left \o right
<1> DEFINE join == left \o right
           L == Len(left)
           R == Len(right)
<1>1. join \in Seq(S) /\ Len(join) = L + R /\ \A i \in 1 .. L + R : join[i] = IF i <= L THEN left[i] ELSE right[i - L]
  BY ConcatProperties
<1>2. L \in Nat /\ R \in Nat
  OBVIOUS
<1> HIDE DEF join
<1>3. ASSUME NEW i \in 1 .. L + R PROVE whole[i] = join[i]
  <2>1. CASE i <= L
    <3>1. i \in 1 .. L
      BY <1>2, <2>1
    <3> QED
      BY <1>1, <2>1, <3>1
  <2>2. CASE ~(i <= L)
    <3>1. i - L \in 1 .. R /\ L + (i - L) = i
      BY <1>2, <2>2
    <3>2. whole[L + (i - L)] = right[i - L]
      BY <3>1
    <3> QED
      BY <1>1, <2>2, <3>1, <3>2
  <2> QED
    BY <2>1, <2>2
<1>4. whole = join
  <2>1. Len(whole) = L + R
    OBVIOUS
  <2> HIDE DEF L, R
  <2> QED
    BY <1>1, <1>3, <2>1, SeqEqual
<1> QED
  BY <1>4 DEF join

\* The first n of a list, or all of it.
LEMMA FirstFew ==
    ASSUME NEW S, NEW rows \in Seq(S), NEW n \in Nat
    PROVE  LET first == SubSeq(rows, 1, Min({n, Len(rows)}))
           IN /\ first \in Seq(S)
              /\ \A i \in DOMAIN first : i \in DOMAIN rows /\ first[i] = rows[i]
              /\ first # <<>> <=> n > 0 /\ rows # <<>>
<1> DEFINE m == Min({n, Len(rows)})
<1>1. m \in {n, Len(rows)} /\ m <= n /\ m <= Len(rows)
  <2>1. Len(rows) \in Int /\ n \in Int
    OBVIOUS
  <2> QED
    BY <2>1, MinOfTwo
<1> HIDE DEF m
<1>3. m \in 0 .. Len(rows) /\ (m > 0 <=> n > 0 /\ rows # <<>>)
  BY <1>1
<1> DEFINE part == SubSeq(rows, 1, m)
<1>4. part \in Seq(S) /\ Len(part) = m /\ \A i \in 1 .. m : part[i] = rows[i]
  <2>1. 1 \in Int /\ m \in Int /\ \A i \in 1 .. m : rows[i] \in S
    BY <1>3
  <2>2. /\ part \in Seq(S) /\ Len(part) = IF 1 <= m THEN m - 1 + 1 ELSE 0
        /\ \A i \in 1 .. m - 1 + 1 : part[i] = rows[1 + i - 1]
    BY <2>1, SubSeqProperties
  <2>3. (IF 1 <= m THEN m - 1 + 1 ELSE 0) = m /\ m - 1 + 1 = m /\ \A i \in 1 .. m : 1 + i - 1 = i
    BY <1>3
  <2> HIDE DEF part
  <2> QED
    BY <2>2, <2>3
<1>5. DOMAIN part = 1 .. m /\ (part # <<>> <=> m > 0)
  BY <1>3, <1>4
<1> HIDE DEF part
<1>6. \A i \in DOMAIN part : i \in DOMAIN rows /\ part[i] = rows[i]
  BY <1>3, <1>4, <1>5
<1> QED
  BY <1>3, <1>4, <1>5, <1>6 DEF part, m

-----------------------------------------------------------------------------
(* Sums of lists.                                                          *)

\* The sums of a list, step by step.
Sums(total, numbers, T) ==
    /\ total[0] = 0
    /\ \A i \in 1 .. Len(numbers) : total[i] = total[i - 1] + numbers[i]
    /\ \A i \in 0 .. Len(numbers) : total[i] \in T

LEMMA TotalSteps ==
    ASSUME NEW T \in {Nat, Int}, NEW numbers \in Seq(T)
    PROVE  \E total : Sums(total, numbers, T) /\ ListTotal(numbers) = total[Len(numbers)]
<1> DEFINE N == Len(numbers)
           Step(i, s) == s + numbers[i]
           Adds(f) == f = [n \in 0 .. N |-> IF n = 0 THEN 0 ELSE Step(n, f[n - 1])]
           total == CHOOSE f : Adds(f)
<1>1. N \in Nat /\ 0 \in T /\ \A i \in 1 .. N : \A s \in T : Step(i, s) \in T
  <2>1. CASE T = Nat
    BY <2>1
  <2>2. CASE T = Int
    BY <2>2
  <2> QED
    BY <2>1, <2>2
<1>2. ListTotal(numbers) = total[N]
  BY DEF ListTotal
<1> HIDE DEF N, Step
<1>3. \E f \in [0 .. N -> T] : Adds(f)
  <2> DEFINE next == [i \in 1 .. N |-> [s \in T |-> Step(i, s)]]
  <2>1. next \in StepsOn(T, N)
    BY <1>1 DEF StepsOn
  <2>2. \A i \in 1 .. N : \A s \in T : next[i][s] = Step(i, s)
    OBVIOUS
  <2> HIDE DEF next
  <2>3. PICK f : Follows(f, T, N, 0, next)
    BY <1>1, <2>1, Recursion
  <2>4. \A i \in 1 .. N : f[i] = Step(i, f[i - 1])
    <3>1. N \in Nat /\ f \in [0 .. N -> T]
      BY <1>1, <2>3 DEF Follows
    <3>2. \A i \in 1 .. N : i - 1 \in 0 .. N
      BY <3>1
    <3>3. \A i \in 1 .. N : f[i - 1] \in T
      BY <3>1, <3>2
    <3> QED
      BY <2>2, <2>3, <3>3 DEF Follows
  <2>5. ASSUME NEW n \in 0 .. N PROVE f[n] = IF n = 0 THEN 0 ELSE Step(n, f[n - 1])
    <3>1. n = 0 \/ n \in 1 .. N
      BY <1>1
    <3> QED
      BY <2>3, <2>4, <3>1 DEF Follows
  <2>6. Adds(f)
    BY <2>3, <2>5 DEF Follows
  <2> QED
    BY <2>3, <2>6 DEF Follows
<1>4. Adds(total)
  BY <1>3
<1> HIDE DEF total
<1>5. total[0] = 0 /\ \A i \in 1 .. N : total[i] = Step(i, total[i - 1])
  <2>1. 0 \in 0 .. N /\ \A i \in 1 .. N : i \in 0 .. N /\ i # 0
    BY <1>1
  <2> QED
    BY <1>4, <2>1
<1> HIDE DEF Adds
<1>6. \A i \in 0 .. N : total[i] \in T
  <2> DEFINE Holds == {i \in 0 .. N : total[i] \in T}
  <2>1. 0 \in Holds
    BY <1>1, <1>5
  <2>2. ASSUME NEW i \in 1 .. N, i - 1 \in Holds PROVE i \in Holds
    <3>1. total[i - 1] \in T /\ total[i] = Step(i, total[i - 1]) /\ i \in 0 .. N
      BY <1>1, <1>5, <2>2
    <3> QED
      BY <1>1, <3>1
  <2> HIDE DEF Holds
  <2>3. \A i \in 1 .. N : i - 1 \in Holds => i \in Holds
    BY <2>2
  <2>4. \A i \in 0 .. N : i \in Holds
    BY <1>1, <2>1, <2>3, Induction
  <2> QED
    BY <2>4 DEF Holds
<1> QED
  BY <1>1, <1>2, <1>5, <1>6 DEF Sums, N, Step

\* A number more makes the sum larger by it.
LEMMA TotalGrows ==
    ASSUME NEW T \in {Nat, Int}, NEW numbers \in Seq(T), NEW more \in Seq(T), Len(more) = Len(numbers) + 1,
           \A i \in 1 .. Len(numbers) : more[i] = numbers[i]
    PROVE  ListTotal(numbers) \in T /\ ListTotal(more) = ListTotal(numbers) + more[Len(more)]
<1> DEFINE N == Len(numbers)
           x == more[N + 1]
<1>1. N \in Nat /\ Len(more) = N + 1 /\ \A i \in 1 .. N : more[i] = numbers[i]
  OBVIOUS
<1>2. PICK total : Sums(total, numbers, T) /\ ListTotal(numbers) = total[N]
  BY TotalSteps
<1>3. PICK sum : Sums(sum, more, T) /\ ListTotal(more) = sum[N + 1]
  BY <1>1, TotalSteps
<1> HIDE DEF N
<1> DEFINE Same == {i \in 0 .. N : sum[i] = total[i]}
<1>4. 0 \in Same
  BY <1>1, <1>2, <1>3 DEF Sums
<1>5. ASSUME NEW i \in 1 .. N, i - 1 \in Same PROVE i \in Same
  <2>1. sum[i] = sum[i - 1] + more[i]
    BY <1>1, <1>3, SMTT(30) DEF Sums
  <2>2. total[i] = total[i - 1] + numbers[i]
    BY <1>2 DEF Sums, N
  <2>3. i \in 0 .. N /\ more[i] = numbers[i] /\ sum[i - 1] = total[i - 1]
    BY <1>1, <1>5
  <2> QED
    BY <2>1, <2>2, <2>3
<1> HIDE DEF Same
<1>6. \A i \in 0 .. N : i \in Same
  <2>1. \A i \in 1 .. N : i - 1 \in Same => i \in Same
    BY <1>5
  <2> QED
    BY <1>1, <1>4, <2>1, Induction
<1>7. sum[N] = total[N] /\ total[N] \in T /\ sum[N + 1] = sum[N] + x
  <2>1. N \in Same
    BY <1>1, <1>6
  <2>2. N + 1 \in 1 .. Len(more) /\ N \in 0 .. N
    BY <1>1
  <2>3. sum[N + 1] = sum[N + 1 - 1] + more[N + 1]
    BY <1>3, <2>2 DEF Sums
  <2>4. N + 1 - 1 = N
    BY <1>1
  <2>5. total[N] \in T
    BY <1>2, <2>2 DEF Sums, N
  <2> QED
    BY <1>1, <2>1, <2>3, <2>4, <2>5 DEF Same
<1> QED
  BY <1>1, <1>2, <1>3, <1>7 DEF N

\* What two lists sum to together.
LEMMA TotalJoin ==
    ASSUME NEW left \in Seq(Int), NEW right \in Seq(Int)
    PROVE  /\ ListTotal(left) \in Int /\ ListTotal(right) \in Int
           /\ ListTotal(left \o right) = ListTotal(left) + ListTotal(right)
<1> DEFINE all == left \o right
           L == Len(left)
           R == Len(right)
<1>1. /\ L \in Nat /\ R \in Nat /\ all \in Seq(Int) /\ Len(all) = L + R
      /\ \A i \in 1 .. L : all[i] = left[i]
      /\ \A i \in 1 .. R : all[L + i] = right[i]
  OBVIOUS
<1>2. PICK first : Sums(first, left, Int) /\ ListTotal(left) = first[L]
  BY TotalSteps
<1>3. PICK second : Sums(second, right, Int) /\ ListTotal(right) = second[R]
  BY TotalSteps
<1> HIDE DEF all
<1>4. PICK sum : Sums(sum, all, Int) /\ ListTotal(all) = sum[L + R]
  BY <1>1, TotalSteps
<1>5. /\ first[0] = 0 /\ \A i \in 1 .. L : first[i] = first[i - 1] + left[i]
      /\ second[0] = 0 /\ \A i \in 1 .. R : second[i] = second[i - 1] + right[i]
      /\ first[L] \in Int /\ \A i \in 0 .. R : second[i] \in Int
  BY <1>1, <1>2, <1>3 DEF Sums
<1>6. sum[0] = 0 /\ \A i \in 1 .. L + R : sum[i] = sum[i - 1] + all[i]
  BY <1>1, <1>4 DEF Sums
<1> HIDE DEF L, R
<1> DEFINE Same == {i \in 0 .. L : sum[i] = first[i]}
           More == {i \in 0 .. R : sum[L + i] = first[L] + second[i]}
<1>7. L \in Same
  <2>1. 0 \in Same
    BY <1>1, <1>5, <1>6
  <2>2. ASSUME NEW i \in 1 .. L, i - 1 \in Same PROVE i \in Same
    <3>1. i \in 1 .. L + R /\ i \in 0 .. L /\ sum[i - 1] = first[i - 1] /\ all[i] = left[i]
      BY <1>1, <2>2
    <3> QED
      BY <1>5, <1>6, <3>1
  <2> HIDE DEF Same
  <2>3. \A i \in 1 .. L : i - 1 \in Same => i \in Same
    BY <2>2
  <2>4. \A i \in 0 .. L : i \in Same
    BY <1>1, <2>1, <2>3, Induction
  <2> QED
    BY <1>1, <2>4
<1>8. R \in More
  <2>1. 0 \in More
    <3>1. sum[L + 0] = first[L] /\ first[L] + 0 = first[L] /\ 0 \in 0 .. R
      BY <1>1, <1>5, <1>7
    <3> QED
      BY <1>5, <3>1
  <2>2. ASSUME NEW i \in 1 .. R, i - 1 \in More PROVE i \in More
    <3>1. L + i \in 1 .. L + R /\ L + i - 1 = L + (i - 1) /\ i \in 0 .. R /\ i - 1 \in 0 .. R
      BY <1>1
    <3>2. sum[L + i] = sum[L + (i - 1)] + all[L + i] /\ all[L + i] = right[i] /\ right[i] \in Int
      <4>1. right[i] \in Int
        BY <2>2 DEF R
      <4> QED
        BY <1>1, <1>6, <3>1, <4>1, SMTT(40)
    <3>3. sum[L + (i - 1)] = first[L] + second[i - 1] /\ second[i - 1] \in Int /\ second[i] = second[i - 1] + right[i]
      BY <1>5, <2>2, <3>1
    <3>4. sum[L + i] = first[L] + second[i]
      BY <1>5, <3>2, <3>3
    <3> QED
      BY <3>1, <3>4
  <2> HIDE DEF More
  <2>3. \A i \in 1 .. R : i - 1 \in More => i \in More
    BY <2>2
  <2>4. \A i \in 0 .. R : i \in More
    BY <1>1, <2>1, <2>3, Induction
  <2> QED
    BY <1>1, <2>4
<1>9. sum[L + R] = first[L] + second[R] /\ second[R] \in Int
  BY <1>1, <1>5, <1>8
<1> QED
  BY <1>2, <1>3, <1>4, <1>5, <1>9 DEF all

\* The parts of a flattened list, joined step by step.
LEMMA FlattenSteps ==
    ASSUME NEW S, NEW seqs \in Seq(Seq(S))
    PROVE  \E flat : /\ flat[0] = <<>> /\ FlattenSeq(seqs) = flat[Len(seqs)]
                     /\ \A i \in 1 .. Len(seqs) : flat[i] = flat[i - 1] \o seqs[i]
                     /\ \A i \in 0 .. Len(seqs) : flat[i] \in Seq(S)
<1> DEFINE N == Len(seqs)
           X == Seq(S)
           Step(i, s) == s \o seqs[i]
           Flattens(f) == f = [i \in 1 .. N |-> IF i = 1 THEN seqs[i] ELSE f[i - 1] \o seqs[i]]
           flatten == CHOOSE f : Flattens(f)
           next == [i \in 1 .. N |-> [s \in X |-> Step(i, s)]]
<1>1. N \in Nat /\ \A i \in 1 .. N : seqs[i] \in X
  OBVIOUS
<1>2. <<>> \in X /\ \A i \in 1 .. N : \A s \in X : Step(i, s) \in X
  BY <1>1
<1>3. FlattenSeq(seqs) = IF N = 0 THEN seqs ELSE flatten[N]
  BY DEF FlattenSeq
<1>4. N = 0 => seqs = <<>>
  OBVIOUS
<1>5. \A s \in X : <<>> \o s = s
  OBVIOUS
<1> HIDE DEF N
<1>6. PICK f : Follows(f, X, N, <<>>, next)
  <2>1. next \in StepsOn(X, N)
    BY <1>2 DEF StepsOn
  <2> HIDE DEF next, X
  <2> QED
    BY <1>1, <1>2, <2>1, Recursion
<1>7. \A i \in 0 .. N : f[i] \in X
  BY <1>6 DEF Follows
<1>8. \A i \in 1 .. N : f[i] = f[i - 1] \o seqs[i]
  <2>1. \A i \in 1 .. N : i - 1 \in 0 .. N
    BY <1>1
  <2>2. \A i \in 1 .. N : f[i - 1] \in X
    BY <1>7, <2>1
  <2> HIDE DEF X
  <2>3. \A i \in 1 .. N : next[i][f[i - 1]] = f[i - 1] \o seqs[i]
    BY <2>2
  <2> HIDE DEF next
  <2> QED
    BY <1>6, <2>3 DEF Follows
<1>9. ASSUME NEW i \in 1 .. N, i = 1 PROVE f[i] = seqs[i]
  <2>1. i - 1 = 0 /\ seqs[i] \in X
    BY <1>1, <1>9
  <2>2. f[i - 1] = <<>>
    BY <1>6, <2>1 DEF Follows
  <2> QED
    BY <1>5, <1>8, <2>1, <2>2
<1>10. FlattenSeq(seqs) = f[N]
  <2>1. CASE N = 0
    BY <1>3, <1>4, <1>6, <2>1 DEF Follows
  <2>2. CASE N # 0
    <3> DEFINE g == [i \in 1 .. N |-> f[i]]
    <3>1. ASSUME NEW i \in 1 .. N PROVE g[i] = IF i = 1 THEN seqs[i] ELSE g[i - 1] \o seqs[i]
      <4>1. CASE i = 1
        BY <1>9, <4>1
      <4>2. CASE i # 1
        <5>1. i - 1 \in 1 .. N
          BY <1>1, <4>2
        <5> QED
          BY <1>8, <4>2, <5>1
      <4> QED
        BY <4>1, <4>2
    <3>2. Flattens(g)
      BY <3>1
    <3>3. Flattens(flatten)
      <4> HIDE DEF g, Flattens
      <4> QED
        BY <3>2
    <3> HIDE DEF flatten, g
    <3> DEFINE Same == {i \in 0 .. N : i = 0 \/ flatten[i] = f[i]}
    <3>4. ASSUME NEW i \in 1 .. N, i - 1 \in Same PROVE i \in Same
      <4>1. flatten[i] = IF i = 1 THEN seqs[i] ELSE flatten[i - 1] \o seqs[i]
        BY <3>3
      <4>2. CASE i = 1
        <5>1. flatten[i] = f[i]
          BY <1>9, <4>1, <4>2
        <5> QED
          BY <1>1, <5>1
      <4>3. CASE i # 1
        <5>1. flatten[i - 1] = f[i - 1]
          BY <3>4, <4>3
        <5>2. flatten[i] = f[i]
          BY <1>8, <4>1, <4>3, <5>1
        <5> QED
          BY <5>2
      <4> QED
        BY <4>2, <4>3
    <3>5. 0 \in Same
      BY <1>1
    <3> HIDE DEF Same
    <3>6. \A i \in 1 .. N : i - 1 \in Same => i \in Same
      BY <3>4
    <3>7. N \in Same
      <4>1. \A i \in 0 .. N : i \in Same
        BY <1>1, <3>5, <3>6, Induction
      <4> QED
        BY <1>1, <4>1
    <3>8. flatten[N] = f[N]
      BY <2>2, <3>7 DEF Same
    <3> QED
      BY <1>3, <2>2, <3>8
  <2> QED
    BY <2>1, <2>2
<1> QED
  BY <1>6, <1>7, <1>8, <1>10 DEF N, Follows

\* A flattened list has the elements of its parts.
LEMMA FlattenHolds ==
    ASSUME NEW S, NEW seqs \in Seq(Seq(S))
    PROVE  /\ FlattenSeq(seqs) \in Seq(S)
           /\ ToSet(FlattenSeq(seqs)) = UNION {ToSet(seqs[i]) : i \in DOMAIN seqs}
<1> DEFINE N == Len(seqs)
<1>1. N \in Nat /\ DOMAIN seqs = 1 .. N /\ \A i \in 1 .. N : seqs[i] \in Seq(S)
  OBVIOUS
<1>2. PICK flat : /\ flat[0] = <<>> /\ FlattenSeq(seqs) = flat[N]
                  /\ \A i \in 1 .. N : flat[i] = flat[i - 1] \o seqs[i]
                  /\ \A i \in 0 .. N : flat[i] \in Seq(S)
  BY FlattenSteps
<1> HIDE DEF N
<1> DEFINE Has(n) == ToSet(flat[n]) = UNION {ToSet(seqs[i]) : i \in 1 .. n}
           T == {n \in 0 .. N : Has(n)}
<1>3. 0 \in T
  <2>1. ToSet(<<>>) = {} /\ UNION {ToSet(seqs[i]) : i \in 1 .. 0} = {}
    BY DEF ToSet
  <2> QED
    BY <1>1, <1>2, <2>1
<1>4. ASSUME NEW n \in 1 .. N, n - 1 \in T PROVE n \in T
  <2>1. n \in 0 .. N /\ n - 1 \in 0 .. N /\ 1 .. n = (1 .. n - 1) \cup {n}
    BY <1>1
  <2>2. flat[n] = flat[n - 1] \o seqs[n] /\ flat[n - 1] \in Seq(S) /\ seqs[n] \in Seq(S)
    BY <1>1, <1>2, <2>1
  <2>3. ToSet(flat[n]) = ToSet(flat[n - 1]) \cup ToSet(seqs[n])
    BY <2>2, JoinHolds
  <2>4. ToSet(flat[n - 1]) = UNION {ToSet(seqs[i]) : i \in 1 .. n - 1}
    BY <1>4
  <2>5. UNION {ToSet(seqs[i]) : i \in 1 .. n} = (UNION {ToSet(seqs[i]) : i \in 1 .. n - 1}) \cup ToSet(seqs[n])
    BY <2>1, Zenon
  <2>6. Has(n)
    BY <2>3, <2>4, <2>5
  <2> QED
    BY <2>1, <2>6
<1>5. N \in T
  <2> HIDE DEF T
  <2>1. \A n \in 1 .. N : n - 1 \in T => n \in T
    BY <1>4
  <2>2. \A n \in 0 .. N : n \in T
    BY <1>1, <1>3, <2>1, Induction
  <2> QED
    BY <1>1, <2>2
<1>6. Has(N) /\ N \in 0 .. N
  BY <1>1, <1>5
<1> QED
  BY <1>1, <1>2, <1>6

\* A sequence of sequences becomes one sequence of their elements, with
\* something in it if one of them has something.
LEMMA FlattenSeqSeq ==
    ASSUME NEW S, NEW seqs \in Seq(Seq(S))
    PROVE  /\ FlattenSeq(seqs) \in Seq(S)
           /\ \A k \in DOMAIN seqs : seqs[k] # <<>> => FlattenSeq(seqs) # <<>>
<1>1. FlattenSeq(seqs) \in Seq(S) /\ ToSet(FlattenSeq(seqs)) = UNION {ToSet(seqs[i]) : i \in DOMAIN seqs}
  BY FlattenHolds
<1>2. ASSUME NEW k \in DOMAIN seqs, seqs[k] # <<>> PROVE FlattenSeq(seqs) # <<>>
  <2>1. seqs[k] \in Seq(S) /\ ToSet(seqs[k]) # {}
    BY <1>2, ToSetHolds
  <2>2. ToSet(FlattenSeq(seqs)) # {}
    BY <1>1, <2>1
  <2> QED
    BY <1>1, <2>2, ToSetHolds
<1> QED
  BY <1>1, <1>2

\* Lists of whatever they have, joined.
LEMMA FlattenLists ==
    ASSUME NEW lists, IsList(lists), \A i \in DOMAIN lists : IsList(lists[i])
    PROVE  IsList(FlattenSeq(lists)) /\ ToSet(FlattenSeq(lists)) = UNION {ToSet(lists[i]) : i \in DOMAIN lists}
<1> DEFINE R == UNION {ToSet(lists[i]) : i \in DOMAIN lists}
<1>1. ASSUME NEW i \in DOMAIN lists PROVE lists[i] \in Seq(R)
  <2>1. lists[i] \in Seq(ToSet(lists[i]))
    BY DEF IsList, ToSet
  <2>2. ToSet(lists[i]) \subseteq R
    OBVIOUS
  <2> HIDE DEF R
  <2> QED
    BY <2>1, <2>2
<1> HIDE DEF R
<1>2. lists \in Seq(Seq(R))
  BY <1>1 DEF IsList
<1>3. FlattenSeq(lists) \in Seq(R) /\ ToSet(FlattenSeq(lists)) = UNION {ToSet(lists[i]) : i \in DOMAIN lists}
  BY <1>2, FlattenHolds
<1> QED
  BY <1>3, ListOf

\* What is kept of a list, as a list and as a set.
LEMMA PartHolds ==
    ASSUME NEW s, IsList(s), NEW places, places \subseteq DOMAIN s
    PROVE  /\ KeepAt(s, places) \in Seq(ToSet(s)) /\ KeepAt(s, places) \in Seq(ToSet(KeepAt(s, places)))
           /\ ToSet(KeepAt(s, places)) = {s[i] : i \in places}
<1>1. s \in Seq(ToSet(s))
  BY DEF IsList, ToSet
<1>2. KeepAt(s, places) \in Seq(ToSet(s))
  BY <1>1, KeptHolds
<1>3. KeepAt(s, places) \in Seq({s[i] : i \in places}) /\ ToSet(KeepAt(s, places)) = {s[i] : i \in places}
  BY <1>1, KeptSet
<1> QED
  BY <1>2, <1>3

\* The last of some places of a list.
LEMMA LastPlace ==
    ASSUME NEW s, IsList(s), NEW places \in SUBSET DOMAIN s, places # {}
    PROVE  Max(places) \in places /\ \A i \in places : i <= Max(places)
<1>1. Len(s) \in Nat /\ DOMAIN s = 1 .. Len(s)
  BY ListShape
<1>2. places \subseteq Nat /\ \A i \in places : i <= Len(s)
  BY <1>1
<1> QED
  BY <1>1, <1>2, BoundedMax

\* A column of a list.
LEMMA ColumnList ==
    ASSUME NEW s, IsList(s), NEW f, f = [i \in DOMAIN s |-> f[i]]
    PROVE  IsList(f) /\ Len(f) = Len(s) /\ DOMAIN f = DOMAIN s
<1>1. Len(s) \in Nat /\ DOMAIN s = 1 .. Len(s)
  BY ListShape
<1>2. DOMAIN f = 1 .. Len(s) /\ f = [i \in 1 .. Len(s) |-> f[i]]
  BY <1>1
<1> QED
  BY <1>1, <1>2, ListByPlace

\* The first of a list.
LEMMA FirstHolds ==
    ASSUME NEW S, NEW s \in Seq(S), s # <<>> PROVE 1 \in DOMAIN s /\ s[1] \in ToSet(s) /\ s[1] \in S
<1>1. 1 \in DOMAIN s /\ s[1] \in S
  OBVIOUS
<1> QED
  BY <1>1 DEF ToSet

\* Two elements of a list.
LEMMA TwoInList ==
    ASSUME NEW S, NEW s \in Seq(S), NEW a \in ToSet(s), NEW b \in ToSet(s), a # b PROVE Len(s) >= 2
<1>1. PICK i \in DOMAIN s : s[i] = a
  BY DEF ToSet
<1>2. PICK j \in DOMAIN s : s[j] = b
  BY DEF ToSet
<1>3. i # j
  BY <1>1, <1>2
<1> QED
  BY <1>3

\* The numbers of the elements of a list.
Mapped(number, s) == [i \in DOMAIN s |-> number[s[i]]]

\* An element more adds its number.
LEMMA TotalAppend ==
    ASSUME NEW S, NEW number \in [S -> Int], NEW s \in Seq(S), NEW x \in S
    PROVE  /\ Mapped(number, s) \in Seq(Int) /\ ListTotal(Mapped(number, s)) \in Int
           /\ ListTotal(Mapped(number, Append(s, x))) = ListTotal(Mapped(number, s)) + number[x]
<1> DEFINE less == Mapped(number, s)
           more == Mapped(number, Append(s, x))
           N == Len(s)
<1>1. N \in Nat /\ DOMAIN s = 1 .. N /\ DOMAIN Append(s, x) = 1 .. N + 1 /\ Append(s, x)[N + 1] = x
      /\ \A i \in 1 .. N : Append(s, x)[i] = s[i] /\ s[i] \in S
  OBVIOUS
<1>2. /\ DOMAIN less = 1 .. N /\ \A i \in 1 .. N : less[i] = number[s[i]]
      /\ DOMAIN more = 1 .. N + 1 /\ \A i \in 1 .. N : more[i] = number[s[i]]
      /\ more[N + 1] = number[x]
  BY <1>1 DEF Mapped
<1>3. less \in Seq(Int) /\ more \in Seq(Int) /\ Len(less) = N /\ Len(more) = N + 1
  <2>1. less = [i \in 1 .. N |-> number[s[i]]] /\ \A i \in 1 .. N : number[s[i]] \in Int
    BY <1>1 DEF Mapped
  <2>2. more = [i \in 1 .. N + 1 |-> number[Append(s, x)[i]]] /\ \A i \in 1 .. N + 1 : number[Append(s, x)[i]] \in Int
    <3>1. ASSUME NEW i \in 1 .. N + 1 PROVE number[Append(s, x)[i]] \in Int
      BY <1>1
    <3> QED
      BY <1>1, <3>1 DEF Mapped
  <2> HIDE DEF N
  <2> QED
    BY <1>1, <2>1, <2>2
<1> HIDE DEF less, more, N
<1>4. ListTotal(less) \in Int /\ ListTotal(more) = ListTotal(less) + more[Len(more)]
  <2>1. \A i \in 1 .. Len(less) : more[i] = less[i]
    BY <1>2, <1>3
  <2>2. Len(more) = Len(less) + 1
    BY <1>3
  <2> QED
    BY <1>3, <2>1, <2>2, TotalGrows
<1> QED
  BY <1>2, <1>3, <1>4 DEF less, more

\* What is kept and what is left sum to the whole.
LEMMA TotalParts ==
    ASSUME NEW S, NEW number \in [S -> Int], NEW seq \in Seq(S), NEW places,
           NEW others, \A i \in DOMAIN seq : i \in others <=> i \notin places
    PROVE  ListTotal(Mapped(number, KeepAt(seq, places))) + ListTotal(Mapped(number, KeepAt(seq, others)))
             = ListTotal(Mapped(number, seq))
<1> DEFINE N == Len(seq)
           Sum(s) == ListTotal(Mapped(number, s))
<1>1. N \in Nat /\ DOMAIN seq = 1 .. N /\ \A i \in 1 .. N : seq[i] \in S
  OBVIOUS
<1>2. PICK kept : Keeps(kept, seq, places) /\ KeepAt(seq, places) = kept[N]
  BY KeepAtSteps
<1>3. PICK left : Keeps(left, seq, others) /\ KeepAt(seq, others) = left[N]
  BY KeepAtSteps
<1>4. PICK total : Sums(total, Mapped(number, seq), Int) /\ ListTotal(Mapped(number, seq)) = total[N]
  <2>1. Mapped(number, seq) \in Seq(Int) /\ Len(Mapped(number, seq)) = N
    BY <1>1 DEF Mapped
  <2> QED
    BY <2>1, TotalSteps
<1>5. total[0] = 0 /\ \A i \in 1 .. N : total[i] = total[i - 1] + number[seq[i]]
  <2>1. Len(Mapped(number, seq)) = N /\ \A i \in 1 .. N : Mapped(number, seq)[i] = number[seq[i]]
    BY <1>1 DEF Mapped
  <2> QED
    BY <1>4, <2>1 DEF Sums
<1>6. \A s \in Seq(S) : \A x \in S : Sum(s) \in Int /\ Sum(Append(s, x)) = Sum(s) + number[x] /\ Append(s, x) \in Seq(S)
  BY TotalAppend
<1> HIDE DEF N
<1> DEFINE T == {n \in 0 .. N : kept[n] \in Seq(S) /\ left[n] \in Seq(S) /\ Sum(kept[n]) + Sum(left[n]) = total[n]}
<1>7. 0 \in T
  <2>1. kept[0] = <<>> /\ left[0] = <<>> /\ <<>> \in Seq(S) /\ 0 \in 0 .. N
    BY <1>1, <1>2, <1>3 DEF Keeps
  <2>2. Mapped(number, <<>>) \in Seq(Int) /\ Len(Mapped(number, <<>>)) = 0
    BY DEF Mapped
  <2>3. ListTotal(Mapped(number, <<>>)) = 0
    <3>1. \E sum : Sums(sum, Mapped(number, <<>>), Int) /\ ListTotal(Mapped(number, <<>>)) = sum[Len(Mapped(number, <<>>))]
      BY <2>2, TotalSteps
    <3> QED
      BY <2>2, <3>1 DEF Sums
  <2>4. Sum(kept[0]) + Sum(left[0]) = total[0]
    BY <1>5, <2>1, <2>3
  <2> QED
    BY <2>1, <2>4
<1>8. ASSUME NEW n \in 1 .. N, n - 1 \in T PROVE n \in T
  <2>1. /\ n \in 0 .. N /\ n \in DOMAIN seq /\ n \in 1 .. Len(seq) /\ seq[n] \in S /\ number[seq[n]] \in Int
        /\ total[n] = total[n - 1] + number[seq[n]]
    BY <1>1, <1>5 DEF N
  <2>2. /\ kept[n - 1] \in Seq(S) /\ left[n - 1] \in Seq(S) /\ Sum(kept[n - 1]) + Sum(left[n - 1]) = total[n - 1]
    BY <1>8
  <2>3. /\ Sum(kept[n - 1]) \in Int /\ Sum(Append(kept[n - 1], seq[n])) = Sum(kept[n - 1]) + number[seq[n]]
        /\ Append(kept[n - 1], seq[n]) \in Seq(S)
        /\ Sum(left[n - 1]) \in Int /\ Sum(Append(left[n - 1], seq[n])) = Sum(left[n - 1]) + number[seq[n]]
        /\ Append(left[n - 1], seq[n]) \in Seq(S)
    BY <1>6, <2>1, <2>2
  <2>4. /\ kept[n] = IF n \in places THEN Append(kept[n - 1], seq[n]) ELSE kept[n - 1]
        /\ left[n] = IF n \in others THEN Append(left[n - 1], seq[n]) ELSE left[n - 1]
    BY <1>2, <1>3, <2>1 DEF Keeps
  <2> HIDE DEF Sum
  <2>5. CASE n \in places
    <3>1. kept[n] = Append(kept[n - 1], seq[n]) /\ left[n] = left[n - 1]
      BY <2>1, <2>4, <2>5
    <3>2. Sum(kept[n]) + Sum(left[n]) = total[n] /\ kept[n] \in Seq(S) /\ left[n] \in Seq(S)
      <4>1. Sum(kept[n]) = Sum(kept[n - 1]) + number[seq[n]] /\ Sum(left[n]) = Sum(left[n - 1])
        BY <2>3, <3>1
      <4> QED
        BY <2>1, <2>2, <2>3, <3>1, <4>1
    <3> QED
      BY <2>1, <3>2 DEF Sum
  <2>6. CASE n \notin places
    <3>1. left[n] = Append(left[n - 1], seq[n]) /\ kept[n] = kept[n - 1]
      BY <2>1, <2>4, <2>6
    <3>2. Sum(kept[n]) + Sum(left[n]) = total[n] /\ kept[n] \in Seq(S) /\ left[n] \in Seq(S)
      <4>1. Sum(left[n]) = Sum(left[n - 1]) + number[seq[n]] /\ Sum(kept[n]) = Sum(kept[n - 1])
        BY <2>3, <3>1
      <4> QED
        BY <2>1, <2>2, <2>3, <3>1, <4>1
    <3> QED
      BY <2>1, <3>2 DEF Sum
  <2> QED
    BY <2>5, <2>6
<1>9. N \in T
  <2> HIDE DEF T
  <2>1. \A n \in 1 .. N : n - 1 \in T => n \in T
    BY <1>8
  <2>2. \A n \in 0 .. N : n \in T
    BY <1>1, <1>7, <2>1, Induction
  <2> QED
    BY <1>1, <2>2
<1> QED
  BY <1>2, <1>3, <1>4, <1>9

\* The steps of a list sum to the way from its first number to its last.
LEMMA StepsTotal ==
    ASSUME NEW N \in Nat \ {0}, NEW value, NEW steps, \A i \in 1 .. N : value[i] \in Int,
           steps = [i \in 1 .. N - 1 |-> value[i + 1] - value[i]]
    PROVE  steps \in Seq(Int) /\ ListTotal(steps) = value[N] - value[1]
<1>1. /\ steps \in Seq(Int) /\ Len(steps) = N - 1
      /\ \A i \in 1 .. N - 1 : steps[i] = value[i + 1] - value[i]
  <2>1. \A i \in 1 .. N - 1 : value[i + 1] - value[i] \in Int
    OBVIOUS
  <2> QED
    BY <2>1
<1>2. PICK total : Sums(total, steps, Int) /\ ListTotal(steps) = total[N - 1]
  BY <1>1, TotalSteps
<1> DEFINE T == {n \in 0 .. N - 1 : total[n] = value[n + 1] - value[1]}
<1>3. 0 \in T
  <2>1. total[0] = 0 /\ 0 \in 0 .. N - 1 /\ value[0 + 1] - value[1] = 0
    BY <1>2 DEF Sums
  <2> QED
    BY <2>1
<1>4. ASSUME NEW n \in 1 .. N - 1, n - 1 \in T PROVE n \in T
  <2>1. /\ n \in 0 .. N - 1 /\ n - 1 + 1 = n /\ value[n] \in Int /\ value[n + 1] \in Int /\ value[1] \in Int
    OBVIOUS
  <2>2. total[n] = total[n - 1] + steps[n] /\ steps[n] = value[n + 1] - value[n]
    BY <1>1, <1>2 DEF Sums
  <2>3. total[n - 1] = value[n] - value[1]
    BY <1>4, <2>1
  <2>4. total[n] = value[n + 1] - value[1]
    BY <2>1, <2>2, <2>3
  <2> QED
    BY <2>1, <2>4
<1>5. N - 1 \in T
  <2> HIDE DEF T
  <2>1. \A n \in 1 .. N - 1 : n - 1 \in T => n \in T
    BY <1>4
  <2>2. N - 1 \in Nat
    OBVIOUS
  <2>3. \A n \in 0 .. N - 1 : n \in T
    BY <1>3, <2>1, <2>2, Induction
  <2> QED
    BY <2>2, <2>3
<1>6. N - 1 + 1 = N
  OBVIOUS
<1> QED
  BY <1>1, <1>2, <1>5, <1>6

\* A sum of numbers is a number.
LEMMA TotalInteger ==
    ASSUME NEW numbers \in Seq(Int) PROVE ListTotal(numbers) \in Int
<1>1. \E total : Sums(total, numbers, Int) /\ ListTotal(numbers) = total[Len(numbers)]
  BY TotalSteps
<1>2. Len(numbers) \in 0 .. Len(numbers)
  OBVIOUS
<1> QED
  BY <1>1, <1>2 DEF Sums

\* A list that is no greater anywhere has no greater sum.
LEMMA TotalCompares ==
    ASSUME NEW low \in Seq(Int), NEW high \in Seq(Int), Len(low) = Len(high), \A i \in DOMAIN low : low[i] <= high[i]
    PROVE  ListTotal(low) <= ListTotal(high)
<1> DEFINE N == Len(low)
<1>1. /\ N \in Nat /\ Len(high) = N
      /\ \A i \in 1 .. N : low[i] \in Int /\ high[i] \in Int /\ low[i] <= high[i]
  <2>1. N \in Nat /\ Len(high) = N /\ DOMAIN low = 1 .. N /\ DOMAIN high = 1 .. N
    OBVIOUS
  <2>2. \A i \in 1 .. N : low[i] \in Int /\ high[i] \in Int
    BY <2>1
  <2> QED
    BY <2>1, <2>2
<1>2. PICK less : Sums(less, low, Int) /\ ListTotal(low) = less[N]
  BY TotalSteps
<1>3. PICK more : Sums(more, high, Int) /\ ListTotal(high) = more[Len(high)]
  BY TotalSteps
<1> HIDE DEF N
<1> DEFINE T == {i \in 0 .. N : less[i] <= more[i]}
<1>4. /\ less[0] = 0 /\ more[0] = 0
      /\ \A i \in 1 .. N : less[i] = less[i - 1] + low[i] /\ more[i] = more[i - 1] + high[i]
      /\ \A i \in 0 .. N : less[i] \in Int /\ more[i] \in Int
  BY <1>1, <1>2, <1>3 DEF Sums, N
<1>5. 0 \in T
  BY <1>1, <1>4
<1>6. ASSUME NEW i \in 1 .. N, i - 1 \in T PROVE i \in T
  <2>1. i \in 0 .. N /\ i - 1 \in 0 .. N /\ less[i - 1] <= more[i - 1]
    BY <1>1, <1>6
  <2>2. less[i - 1] + low[i] <= more[i - 1] + high[i]
    BY <1>1, <1>4, <2>1
  <2> QED
    BY <1>4, <2>1, <2>2
<1>7. N \in T
  <2> HIDE DEF T
  <2>1. \A i \in 1 .. N : i - 1 \in T => i \in T
    BY <1>6
  <2>2. \A i \in 0 .. N : i \in T
    BY <1>1, <1>5, <2>1, Induction
  <2> QED
    BY <1>1, <2>2
<1> QED
  BY <1>1, <1>2, <1>3, <1>7

\* A list of numbers has a least and a greatest one.
LEMMA ListExtremes ==
    ASSUME NEW numbers \in Seq(Int), numbers # <<>>
    PROVE  /\ Min(ToSet(numbers)) \in ToSet(numbers) /\ \A x \in ToSet(numbers) : Min(ToSet(numbers)) <= x
           /\ Max(ToSet(numbers)) \in ToSet(numbers) /\ \A x \in ToSet(numbers) : x <= Max(ToSet(numbers))
<1> DEFINE T == ToSet(numbers)
           same == [x \in Int |-> x]
           before == {p \in Int \X Int : p[1] < p[2]}
           sorted == Sorted(numbers, before)
           N == Len(sorted)
<1>1. T \subseteq Int /\ T # {}
  BY ToSetHolds
<1>2. /\ sorted \in Seq(Int) /\ ToSet(sorted) = T
      /\ \A i, j \in DOMAIN sorted : i < j => same[sorted[i]] <= same[sorted[j]]
  <2>1. same \in [Int -> Int] /\ \A a, b \in T : <<a, b>> \in before <=> same[a] < same[b]
    BY <1>1
  <2>2. numbers \in Seq(Int)
    OBVIOUS
  <2> HIDE DEF same, before
  <2>3. /\ \A i, j \in DOMAIN Sorted(numbers, before) :
             i < j => same[Sorted(numbers, before)[i]] <= same[Sorted(numbers, before)[j]]
    BY <2>1, <2>2, SortedByNumber DEF T
  <2>4. Sorted(numbers, before) \in Seq(Int) /\ ToSet(Sorted(numbers, before)) = ToSet(numbers)
    BY <2>2, SortedHolds
  <2> QED
    BY <2>3, <2>4
<1> HIDE DEF sorted
<1>3. sorted # <<>>
  BY <1>1, <1>2, ToSetHolds
<1>4. N \in Nat /\ N > 0 /\ DOMAIN sorted = 1 .. N /\ T = {sorted[i] : i \in 1 .. N} /\ \A i \in 1 .. N : sorted[i] \in Int
  <2>1. N \in Nat /\ DOMAIN sorted = 1 .. N /\ \A i \in 1 .. N : sorted[i] \in Int
    BY <1>2
  <2>2. N > 0
    BY <1>2, <1>3
  <2>3. T = {sorted[i] : i \in 1 .. N}
    BY <1>2, <2>1 DEF ToSet
  <2> QED
    BY <2>1, <2>2, <2>3
<1> HIDE DEF N
<1>5. \A i, j \in 1 .. N : i <= j => sorted[i] <= sorted[j]
  <2> SUFFICES ASSUME NEW i \in 1 .. N, NEW j \in 1 .. N, i <= j PROVE sorted[i] <= sorted[j]
    OBVIOUS
  <2>1. CASE i = j
    BY <1>4, <2>1
  <2>2. CASE i # j
    <3>1. i < j
      BY <1>4, <2>2
    <3> QED
      BY <1>2, <1>4, <3>1
  <2> QED
    BY <2>1, <2>2
<1> HIDE DEF T
<1>6. /\ sorted[1] \in T /\ \A x \in T : sorted[1] <= x
      /\ sorted[N] \in T /\ \A x \in T : x <= sorted[N]
  <2>1. 1 \in 1 .. N /\ N \in 1 .. N /\ \A i \in 1 .. N : 1 <= i /\ i <= N
    BY <1>4
  <2>2. sorted[1] \in T /\ sorted[N] \in T
    BY <1>4, <2>1
  <2>3. ASSUME NEW x \in T PROVE sorted[1] <= x /\ x <= sorted[N]
    <3>1. PICK i \in 1 .. N : x = sorted[i]
      BY <1>4
    <3> QED
      BY <1>5, <2>1, <3>1
  <2> QED
    BY <2>2, <2>3
<1>7. \A a, b \in Int : a <= b <=> b >= a
  OBVIOUS
<1>8. Min(T) \in T /\ \A x \in T : Min(T) <= x
  <2>1. \E a \in T : \A x \in T : a <= x
    BY <1>6
  <2> QED
    BY <2>1 DEF Min
<1>9. Max(T) \in T /\ \A x \in T : x <= Max(T)
  <2>1. T \subseteq Int
    BY <1>1 DEF T
  <2>2. \E a \in T : \A x \in T : a >= x
    BY <1>6, <1>7, <2>1
  <2>3. Max(T) \in T /\ \A x \in T : Max(T) >= x
    BY <2>2 DEF Max
  <2> QED
    BY <1>7, <2>1, <2>3
<1> QED
  BY <1>8, <1>9 DEF T
====

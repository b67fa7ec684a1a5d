---- MODULE SequenceParts ----
(***************************************************************************)
(* Parts of a sequence, as the modules take them about which there are     *)
(* proofs: SelectSeq has an operator for a parameter, which a prover       *)
(* cannot look into, and a set of places says as much.                     *)
(***************************************************************************)
EXTENDS Integers, Sequences

\* A label of which nothing is left.
Blank == ""

\* A sequence, of whatever it has.
IsList(s) == s \in Seq({s[i] : i \in DOMAIN s})

\* What stands at these places, in its order.
KeepAt(seq, places) ==
    LET kept[n \in 0 .. Len(seq)] ==
          IF n = 0 THEN <<>> ELSE IF n \in places THEN Append(kept[n - 1], seq[n]) ELSE kept[n - 1]
    IN kept[Len(seq)]

\* x after all that it does not come before.
Insert(sorted, x, before) ==
    LET later == {i \in DOMAIN sorted : <<x, sorted[i]>> \in before}
    IN KeepAt(sorted, DOMAIN sorted \ later) \o <<x>> \o KeepAt(sorted, later)

\* The sequence in the order of a set of pairs, and in its own where that has none.
Sorted(seq, before) ==
    LET sorted[n \in 0 .. Len(seq)] ==
          IF n = 0 THEN <<>> ELSE Insert(sorted[n - 1], seq[n], before)
    IN sorted[Len(seq)]

\* The sum of a list of numbers.
ListTotal(numbers) ==
    LET total[n \in 0 .. Len(numbers)] == IF n = 0 THEN 0 ELSE total[n - 1] + numbers[n]
    IN total[Len(numbers)]
====

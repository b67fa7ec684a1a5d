---- MODULE MCIngestionJobs ----
(***************************************************************************)
(* Small instances of IngestionJobs for TLC.                               *)
(***************************************************************************)
EXTENDS IngestionJobs, TLC

CONSTANTS w1, w2, o1, o2, d1, d2

TwoWorkers == {w1, w2}
OwnId == w1 :> o1 @@ w2 :> o2
\* Two containers: both processes have pid 1 and write the same string, so
\* the workers are interchangeable.
SameId == w1 :> o1 @@ w2 :> o1
Workers == Permutations(TwoWorkers)

OneJob == {1}
TwoJobs == {1, 2}
\* A document each, or two versions of one document.
OneDoc == [j \in Job |-> d1]
OwnDoc == [j \in Job |-> IF j = 1 THEN d1 ELSE d2]

====

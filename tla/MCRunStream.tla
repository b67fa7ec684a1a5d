---- MODULE MCRunStream ----
(***************************************************************************)
(* Small instances of RunStream for TLC.                                   *)
(***************************************************************************)
EXTENDS RunStream, TLC

CONSTANTS w1, w2, o1, o2, c1

TwoWorkers == {w1, w2}
OwnId == w1 :> o1 @@ w2 :> o2
\* Two containers: both processes have pid 1 and write the same string.
SameId == w1 :> o1 @@ w2 :> o1

OneRun == {1}
OneConv == [r \in Run |-> c1]

====

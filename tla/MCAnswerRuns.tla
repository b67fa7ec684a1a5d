---- MODULE MCAnswerRuns ----
(***************************************************************************)
(* Small instances of AnswerRuns for TLC.                                  *)
(***************************************************************************)
EXTENDS AnswerRuns, TLC

CONSTANTS w1, w2, o1, o2, c1

\* Two worker processes with their own owner strings.
TwoWorkers == {w1, w2}
OwnId == w1 :> o1 @@ w2 :> o2

OneRun == {1}
TwoRuns == {1, 2}
OneConv == [r \in Run |-> c1]
====

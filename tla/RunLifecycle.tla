---- MODULE RunLifecycle ----
(***************************************************************************)
(* What the answer-run queue promises to the user who asked: a question    *)
(* waits, is tried at most MaxAttempts times, and ends once, answered or   *)
(* failed; the end is announced once and what the conversation shows       *)
(* agrees with it.  No workers, no leases, no time.                        *)
(***************************************************************************)
EXTENDS Naturals

CONSTANTS Run, MaxAttempts

VARIABLES
    phase,      \* where the question is
    tries,      \* how many times it was tried
    shown,      \* the status of the answer in the conversation
    announced   \* the terminal event of the run, "none" before it

avars == <<phase, tries, shown, announced>>

Init ==
    /\ phase = [r \in Run |-> "absent"]
    /\ tries = [r \in Run |-> 0]
    /\ shown = [r \in Run |-> "none"]
    /\ announced = [r \in Run |-> "none"]

Ask(r) ==
    /\ phase[r] = "absent"
    /\ phase' = [phase EXCEPT ![r] = "pending"]
    /\ shown' = [shown EXCEPT ![r] = "running"]
    /\ UNCHANGED <<tries, announced>>

\* A first try, a retry, or a new try of a question whose worker vanished.
Try(r) ==
    /\ phase[r] \in {"pending", "running"}
    /\ tries[r] < MaxAttempts
    /\ phase' = [phase EXCEPT ![r] = "running"]
    /\ tries' = [tries EXCEPT ![r] = @ + 1]
    /\ UNCHANGED <<shown, announced>>

Requeue(r) ==
    /\ phase[r] = "running"
    /\ tries[r] < MaxAttempts
    /\ phase' = [phase EXCEPT ![r] = "pending"]
    /\ UNCHANGED <<tries, shown, announced>>

Answer(r) ==
    /\ phase[r] = "running"
    /\ phase' = [phase EXCEPT ![r] = "completed"]
    /\ shown' = [shown EXCEPT ![r] = "completed"]
    /\ announced' = [announced EXCEPT ![r] = "completed"]
    /\ UNCHANGED tries

GiveUp(r) ==
    /\ phase[r] = "running"
    /\ tries[r] = MaxAttempts
    /\ phase' = [phase EXCEPT ![r] = "failed"]
    /\ shown' = [shown EXCEPT ![r] = "failed"]
    /\ announced' = [announced EXCEPT ![r] = "error"]
    /\ UNCHANGED tries

\* A conversation is removed with all its questions.
Remove(S) ==
    /\ \A r \in S : phase[r] # "absent"
    /\ phase' = [r \in Run |-> IF r \in S THEN "deleted" ELSE phase[r]]
    /\ tries' = [r \in Run |-> IF r \in S THEN 0 ELSE tries[r]]
    /\ shown' = [r \in Run |-> IF r \in S THEN "none" ELSE shown[r]]
    /\ announced' = [r \in Run |-> IF r \in S THEN "none" ELSE announced[r]]

Next ==
    \/ \E r \in Run : Ask(r) \/ Try(r) \/ Requeue(r) \/ Answer(r) \/ GiveUp(r)
    \/ \E S \in SUBSET Run : Remove(S)

Spec == Init /\ [][Next]_avars

====

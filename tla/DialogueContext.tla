---- MODULE DialogueContext ----
(***************************************************************************)
(* What an answer run knows of the conversation before it.  Every question *)
(* gets a snapshot in the transaction that asks it: the latest summary and *)
(* the newest completed turns after it, as far as they fit.  A completed   *)
(* answer refreshes the summary afterwards, outside its own transaction:   *)
(* it reads the turns, merges (and asks a model), then writes a row.       *)
(* Turn t has user message 2t-1 and assistant message 2t.  Texts are       *)
(* values; of the lists of a summary the goals, the pending questions and  *)
(* the source messages are kept, the others are built in the same way.     *)
(***************************************************************************)
EXTENDS SequenceParts, SequencesExt, FiniteSets, FiniteSetsExt

CONSTANTS
    MaxTurn,       \* bound: questions of the conversation
    MaxRecent,     \* context_max_turns
    TokenBudget,   \* context_token_budget
    SummaryBudget, \* context_summary_token_budget, at most TokenBudget
    UserTokens, AssistantTokens, \* estimate_tokens of the messages of a turn
    TurnQuestion, Canonical,         \* the question of a turn, as asked and as planned
    FieldLimit,    \* how many entries a list of the summary keeps
    Payload,       \* [goals, pending]: what the summary model may add
    NoContext,     \* no refresh
    Due            \* a refresh that has not begun

Turn == 1 .. MaxTurn
Cutoff(t) == 2 * t - 1
Through(t) == 2 * t

ASSUME DialogueAssumption ==
    /\ {MaxTurn, MaxRecent, TokenBudget, SummaryBudget} \subseteq Nat \ {0}
    /\ SummaryBudget <= TokenBudget
    /\ {UserTokens, AssistantTokens} \subseteq [Turn -> Nat \ {0}]
    /\ FieldLimit \in [{"goals", "pending", "sources"} -> Nat \ {0}]
    /\ \A payload \in Payload : IsList(payload.pending)

VARIABLES
    turnStatus,  \* "none", "open", "completed" or "failed": the assistant message
    summaries,   \* rows of conversation_summaries
    snapshot,    \* rows of run_context_snapshots, by turn
    used,        \* the contexts the executions of a turn worked with
    refresh,     \* the refresh after a completed turn: due, then what it will write
    settled      \* history: what the last refresh to end had seen of the turns

dialogueVars == <<turnStatus, summaries, snapshot, used, refresh, settled>>

Asked == {t \in Turn : turnStatus[t] # "none"}
OpenTurns == {t \in Turn : turnStatus[t] = "open"}

DialogueInit ==
    /\ turnStatus = [t \in Turn |-> "none"]
    /\ summaries = {}
    /\ snapshot = <<>>
    /\ used = [t \in Turn |-> {}]
    /\ refresh = [t \in Turn |-> NoContext]
    /\ settled = turnStatus

----------------------------------------------------------------------------
(* The lists of a summary.                                                 *)

EmptySummary == [goals |-> <<>>, pending |-> <<>>, sources |-> <<>>]

KeepLast(s, n) == SubSeq(s, Len(s) - Min({n, Len(s)}) + 1, Len(s))

\* The first of equal entries stays where it is, and the last entries are kept.
FirstOfEach(values) ==
    LET kept[n \in 0 .. Len(values)] ==
          IF n = 0 THEN <<>>
          ELSE IF Contains(kept[n - 1], values[n]) THEN kept[n - 1] ELSE Append(kept[n - 1], values[n])
    IN kept[Len(values)]
Dedupe(values, field) == KeepLast(FirstOfEach(values), FieldLimit[field])

DeterministicMerge(summary, turns) ==
    LET resolved == {i \in DOMAIN turns : turnStatus[turns[i]] = "completed"}
        goals == [i \in DOMAIN turns |-> IF i \in resolved THEN Canonical[turns[i]] ELSE TurnQuestion[turns[i]]]
        failed == KeepAt(turns, DOMAIN turns \ resolved)
        pending == [i \in DOMAIN failed |-> TurnQuestion[failed[i]]]
    IN [goals |-> Dedupe(summary.goals \o goals, "goals"),
        pending |-> Dedupe(summary.pending \o pending, "pending"),
        sources |-> Dedupe(summary.sources \o turns, "sources")]

\* A model that fails or answers no object leaves the deterministic summary.
ModelEnhance(summary, payload) ==
    [summary EXCEPT !.goals = Dedupe(@ \o payload.goals, "goals"),
                    !.pending = Dedupe(@ \o payload.pending, "pending")]

Tokens(summary) ==
    1 + Len(summary.goals) + Len(summary.pending) + Len(summary.sources)

\* Entries go one by one, oldest first, list by list; a summary that still
\* does not fit is dropped whole.
FitSummary(summary) ==
    LET Drop(s) == CASE s.sources # <<>> -> [s EXCEPT !.sources = Tail(@)]
                     [] s.sources = <<>> /\ s.pending # <<>> -> [s EXCEPT !.pending = Tail(@)]
                     [] OTHER -> [s EXCEPT !.goals = Tail(@)]
        Fit[n \in Nat] == IF n = 0 THEN summary ELSE Drop(Fit[n - 1])
        excess == Tokens(summary) - SummaryBudget
    IN IF excess <= 0 THEN summary ELSE Fit[excess]

----------------------------------------------------------------------------
(* The snapshot of a question.                                             *)

LatestBelow(cutoff) ==
    LET rows == {r \in summaries : r.through < cutoff}
    IN IF rows = {} THEN [through |-> 0, summary |-> EmptySummary]
       ELSE CHOOSE r \in rows : \A q \in rows : q.through <= r.through
Latest == LatestBelow(2 * MaxTurn + 1)

RecentTurns(through, cutoff) ==
    {t \in Turn : turnStatus[t] = "completed" /\ Cutoff(t) > through /\ Cutoff(t) < cutoff}

\* The longest prefix that fits costs the whole budget.
Truncated(tokens, budget) == Min({tokens, budget})

\* One turn of the loop in build: acc holds what is selected and what remains.
Select(acc, t) ==
    LET whole == UserTokens[t] + AssistantTokens[t]
        userBudget == Min({acc.remaining, Max({1, acc.remaining \div 3})})
        clipped == Truncated(UserTokens[t], userBudget)
                   + Truncated(AssistantTokens[t], acc.remaining - userBudget)
    IN CASE acc.full \/ acc.remaining <= 0 -> [acc EXCEPT !.full = TRUE]
         [] ~acc.full /\ acc.remaining >= whole ->
              [acc EXCEPT !.turns = @ \cup {t}, !.remaining = @ - whole]
         [] ~acc.full /\ acc.remaining \in 1 .. whole - 1 /\ acc.turns # {} -> [acc EXCEPT !.full = TRUE]
         [] OTHER -> [acc EXCEPT !.turns = {t}, !.remaining = @ - clipped, !.truncated = TRUE]

\* The loop, from the newest turn on.
SelectNewest(newest, start) ==
    LET chosen[n \in 0 .. MaxTurn] ==
          IF n = 0 THEN start
          ELSE IF MaxTurn + 1 - n \in newest THEN Select(chosen[n - 1], MaxTurn + 1 - n) ELSE chosen[n - 1]
    IN chosen[MaxTurn]

Build(t) ==
    LET row == LatestBelow(Cutoff(t))
        summary == FitSummary(row.summary)
        recent == RecentTurns(row.through, Cutoff(t))
        newest == {k \in recent : Cardinality({j \in recent : j > k}) < MaxRecent}
        start == [turns |-> {}, remaining |-> TokenBudget - Tokens(summary), full |-> FALSE, truncated |-> FALSE]
        chosen == SelectNewest(newest, start)
    IN [through |-> row.through, summary |-> summary, history |-> chosen.turns,
        overBudget |-> chosen.full \/ chosen.truncated]

LoadOrCreate_Rebuilds(t) == Build(t)
LoadOrCreate(t) == IF t \in DOMAIN snapshot THEN snapshot[t] ELSE Build(t)

----------------------------------------------------------------------------
(* The steps.                                                              *)

\* ask inserts the messages and the run with its snapshot in one transaction.
AskTurn(t) ==
    /\ turnStatus[t] = "none"
    /\ \A k \in 1 .. t - 1 : turnStatus[k] # "none"
    /\ turnStatus' = [turnStatus EXCEPT ![t] = "open"]
    /\ snapshot' = [k \in DOMAIN snapshot \cup {t} |-> IF k = t THEN LoadOrCreate(t) ELSE snapshot[k]]
    /\ UNCHANGED <<summaries, used, refresh, settled>>

\* An execution, the first or a later attempt, loads its context.
PrepareTurn(t) ==
    /\ t \in OpenTurns
    /\ used' = [used EXCEPT ![t] = @ \cup {LoadOrCreate(t)}]
    /\ UNCHANGED <<turnStatus, summaries, snapshot, refresh, settled>>

FinishTurn(t, outcome) ==
    /\ t \in OpenTurns /\ used[t] # {}
    /\ turnStatus' = [turnStatus EXCEPT ![t] = outcome]
    /\ refresh' = IF outcome = "completed" THEN [refresh EXCEPT ![t] = Due] ELSE refresh
    /\ UNCHANGED <<summaries, snapshot, used, settled>>

\* The finished turns up to the first unfinished one.
CompletedTurns_SkipsOpen == KeepAt([t \in Turn |-> t], Asked \ OpenTurns)
CompletedTurns == KeepAt([t \in Turn |-> t], {t \in Turn : 1 .. t \subseteq Asked \ OpenTurns})

Compactable_KeepsOneMore == SubSeq(CompletedTurns, 1, Len(CompletedTurns) - MaxRecent - 1)
Compactable == SubSeq(CompletedTurns, 1, Len(CompletedTurns) - MaxRecent)

\* The first transaction of refresh and what it computes from it.
ReadRefresh(t) ==
    LET turns == Compactable
        target == IF turns = <<>> THEN 0 ELSE Through(turns[Len(turns)])
        incremental == KeepAt(turns, {i \in DOMAIN turns : Through(turns[i]) > Latest.through})
    IN /\ refresh[t] = Due
       /\ \E payload \in Payload :
            refresh' = [refresh EXCEPT ![t] =
              IF target <= Latest.through THEN [through |-> 0, summary |-> EmptySummary, seen |-> turnStatus]
              ELSE [through |-> target, seen |-> turnStatus,
                    summary |-> ModelEnhance(DeterministicMerge(Latest.summary, incremental), payload)]]
       /\ UNCHANGED <<turnStatus, summaries, snapshot, used, settled>>

\* The second one, which looks at the latest row again.
IsLate(row) == Latest.through >= row.through

WriteRefresh(t) ==
    /\ refresh[t] \notin {NoContext, Due}
    /\ summaries' = IF IsLate(refresh[t]) THEN summaries
                    ELSE summaries \cup {[through |-> refresh[t].through, summary |-> refresh[t].summary]}
    /\ settled' = refresh[t].seen
    /\ refresh' = [refresh EXCEPT ![t] = NoContext]
    /\ UNCHANGED <<turnStatus, snapshot, used>>

\* refresh raises, or its worker dies.
LoseRefresh(t) ==
    /\ refresh[t] # NoContext
    /\ refresh' = [refresh EXCEPT ![t] = NoContext]
    /\ UNCHANGED <<turnStatus, summaries, snapshot, used, settled>>

DialogueNext ==
    \E t \in Turn :
        \/ AskTurn(t)
        \/ PrepareTurn(t)
        \/ \E outcome \in {"completed", "failed"} : FinishTurn(t, outcome)
        \/ ReadRefresh(t)
        \/ WriteRefresh(t)
        \/ LoseRefresh(t)

DialogueSpec == DialogueInit /\ [][DialogueNext]_dialogueVars

----------------------------------------------------------------------------
(* Properties.                                                             *)

\* Every attempt of a run works with the context frozen when it was asked,
\* whatever was answered or summarized since (load_or_create).
AttemptsShareContext ==
    \A t \in Turn : \A context \in used[t] : t \in DOMAIN snapshot /\ context = snapshot[t]

\* A summary speaks of finished turns only, without a gap, and says of every
\* one of them that failed that it is pending, until the list is full; a
\* context never tells a turn twice and never tells one out of order.
SummariesAreFaithful ==
    /\ \A r \in summaries : \A t \in Turn : Through(t) <= r.through =>
          /\ t \in Asked \ OpenTurns
          /\ Len(r.summary.sources) < FieldLimit["sources"] => Contains(r.summary.sources, t)
          /\ turnStatus[t] = "failed" /\ Len(r.summary.pending) < FieldLimit["pending"] =>
               Contains(r.summary.pending, TurnQuestion[t])
    /\ \A t \in Asked : \A k \in snapshot[t].history :
          Cutoff(k) > snapshot[t].through /\ k < t

\* Nothing completed is forgotten: after a refresh that saw every turn as it
\* still is, the summary and the history of the next question tell between
\* them every turn that was completed, unless the tokens did not suffice.
NothingForgotten ==
    LET next == Cardinality(Asked) + 1
        context == Build(next)
    IN Asked # {} /\ OpenTurns = {} /\ settled = turnStatus /\ ~context.overBudget =>
         \A t \in Asked : turnStatus[t] = "completed" =>
            Through(t) <= context.through \/ t \in context.history
====

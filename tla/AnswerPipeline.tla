---- MODULE AnswerPipeline ----
(***************************************************************************)
(* The answer of one claimed run (answer_runs.execute): plan, deterministic*)
(* evidence, a model's draft, its polishing, its verification, a question  *)
(* about its adequacy, and at most one retry on other evidence.  Any call  *)
(* of a model may fail, be cut off or say anything.  A pass is what one    *)
(* search led to: [plan, found, candidate, warnings, answer, source].      *)
(***************************************************************************)
EXTENDS Verification, QueryPlanning

CONSTANTS
    Question,       \* with analyses, bridges...: what users ask
    PlannerAnswer,  \* what the planning model may answer
    EngineResult,   \* [evidence, corpus, scope, warnings, fallback]: what the engine may find
    Generation,     \* [text, cut]: what the answering model may write, or ProviderError
    GapQuery,       \* what the adequacy check may ask for
    LongestAnswer,
    NoRunResult

\* ask strips a question and refuses an empty one; only the answering model is
\* ever cut off.
ASSUME PipelineAssumption ==
    /\ \A question \in Question :
          /\ question.text.say # <<>> /\ question.text.chars \in Nat
          /\ IsList(question.bridges) /\ IsList(question.term)
          /\ \A i \in DOMAIN question.bridges :
                IsList(question.bridges[i].primary) /\ IsList(question.bridges[i].secondary)
    /\ \A answer \in PlannerAnswer \ {ProviderError, InvalidOutput} : IsList(answer.queries)
    /\ \A said \in Generation : IsList(said.text)
    /\ \A found \in EngineResult :
          /\ found = [evidence |-> found.evidence, corpus |-> found.corpus, scope |-> found.scope,
                      warnings |-> found.warnings, fallback |-> found.fallback]
          /\ IsList(found.evidence) /\ "truncated" \notin found.warnings

VARIABLES asked, passes, pipelineStep, runResult
pipelineVars == <<asked, passes, pipelineStep, runResult>>

Current == passes[Len(passes)]
SetCurrent(pass) == passes' = [passes EXCEPT ![Len(passes)] = pass]
Goto(step) == pipelineStep' = step

PipelineInit ==
    /\ asked \in [question : Question, models : BOOLEAN, polishing : BOOLEAN]
    /\ passes = <<>>
    /\ pipelineStep = "plan"
    /\ runResult = NoRunResult

NewPass(plan, found) ==
    [plan |-> plan, found |-> found, candidate |-> <<>>, draft |-> <<>>, warnings |-> {},
     answer |-> found.fallback, source |-> "safe_fallback"]

\* plan and answer_result, whose warnings are those of the plan and its own.
FindEvidence ==
    /\ pipelineStep = "plan"
    /\ \E answer \in PlannerAnswer \cup {NoModel} : \E plan \in {QueryPlanOf(asked.question, answer)} :
       \E found \in EngineResult :
         /\ (answer = NoModel) = ~asked.models
         /\ IF plan = NoPlan THEN Goto("failed") /\ UNCHANGED passes
            ELSE /\ passes' = <<NewPass(plan, [found EXCEPT !.warnings = @ \cup plan.warnings])>>
                 /\ Goto(IF asked.models THEN "generate" ELSE "complete")
    /\ UNCHANGED <<asked, runResult>>

\* _generate: a provider error leaves no draft.
Generate ==
    /\ pipelineStep = "generate"
    /\ \E said \in Generation \cup {ProviderError} :
         SetCurrent([Current EXCEPT
           !.candidate = IF said = ProviderError THEN <<>> ELSE said.text,
           !.draft = IF said = ProviderError THEN <<>> ELSE said.text,
           !.warnings = CASE said = ProviderError -> {"provider"}
                          [] said # ProviderError /\ said.cut -> {"truncated"}
                          [] OTHER -> {}])
    /\ Goto("polish")
    /\ UNCHANGED <<asked, runResult>>

Oversized(text) == CharsOf(text) > LongestAnswer

\* _fact_markers_preserved: the same facts and the same citations, as often.  A
\* fact is a value with its unit: "500" may become "5 hundred".
ValuesOf(claim) == {<<f.value, f.unit>> : f \in FactsOf(claim)}
ValuesIn(text) == UNION {ValuesOf(text[i]) : i \in DOMAIN text}
FactMarkersPreserved(draft, polished) ==
    LET Stating(text, fact) == {i \in DOMAIN text : fact \in ValuesOf(text[i])}
        Citing(text, ref) == {i \in DOMAIN text : ref \in text[i].refs}
    IN /\ \A fact \in ValuesIn(draft) \cup ValuesIn(polished) :
            Cardinality(Stating(draft, fact)) = Cardinality(Stating(polished, fact))
       /\ \A ref \in References(draft) \cup References(polished) :
            Cardinality(Citing(draft, ref)) = Cardinality(Citing(polished, ref))

Unpolished == ~asked.polishing \/ Current.candidate = <<>> \/ Current.warnings # {}

\* A polished text that fails a test leaves the draft.
Polish ==
    /\ pipelineStep = "polish"
    /\ \/ Unpolished /\ UNCHANGED passes
       \/ /\ ~Unpolished
          /\ \E said \in Generation \cup {ProviderError} :
               SetCurrent(
                 CASE said = ProviderError -> [Current EXCEPT !.warnings = {"polish_provider"}]
                   [] said # ProviderError /\ (said.cut \/ said.text = <<>> \/ Oversized(said.text)) ->
                        [Current EXCEPT !.warnings = {"polish_invalid"}]
                   [] said # ProviderError /\ ~(said.cut \/ said.text = <<>> \/ Oversized(said.text)) ->
                        IF FactMarkersPreserved(Current.draft, said.text)
                        THEN [Current EXCEPT !.candidate = said.text]
                        ELSE [Current EXCEPT !.warnings = {"polish_contract"}])
    /\ Goto("verify")
    /\ UNCHANGED <<asked, runResult>>

\* _verify: the fallback is the answer until the verifier accepts another.
Verified(verdict) ==
    [Current EXCEPT
       !.warnings = @ \cup verdict.warnings,
       !.answer = IF verdict.disposition = "fallback" THEN @ ELSE verdict.answer,
       !.source = CASE verdict.disposition = "accepted" -> "model"
                    [] verdict.disposition = "repaired" -> "model_repaired"
                    [] OTHER -> @]
VerifyDraft ==
    /\ pipelineStep = "verify"
    /\ SetCurrent(
         IF "truncated" \in Current.warnings THEN Current
         ELSE IF Current.candidate = <<>> \/ Oversized(Current.candidate)
         THEN [Current EXCEPT !.warnings = @ \cup IF "provider" \in @ THEN {} ELSE {"empty_or_oversized"}]
         ELSE Verified(Verify(Current.candidate, Current.found.evidence, Current.found.corpus, Current.found.scope)))
    /\ Goto(IF Len(passes) = 1 THEN "assess" ELSE "complete")
    /\ UNCHANGED <<asked, runResult>>

\* assess_adequacy: a failure counts as adequate.  A gap is searched for with
\* one more query; the same evidence changes nothing, other evidence gives the
\* first answer up.
AssessAdequacy ==
    /\ pipelineStep = "assess"
    /\ \/ Goto("complete") /\ UNCHANGED passes
       \/ \E gap \in GapQuery, found \in EngineResult :
            IF ToSet(found.evidence) = ToSet(Current.found.evidence) THEN Goto("complete") /\ UNCHANGED passes
            ELSE /\ passes' = <<NewPass(Current.plan, Current.found),
                      NewPass([Current.plan EXCEPT !.queries = Append(@, RetrievalQuery(gap, "answer_gap", 115))],
                              [found EXCEPT !.warnings = @ \cup Current.plan.warnings])>>
                 /\ Goto("generate")
    /\ UNCHANGED <<asked, runResult>>

\* What is persisted, all of it from the last pass.
ResultOf_FirstEvidence(history) ==
    LET pass == history[Len(history)]
    IN [answer |-> pass.answer, source |-> pass.source, warnings |-> pass.warnings \cup pass.found.warnings,
        evidence |-> history[1].found.evidence, plan |-> pass.plan]
ResultOf(history) ==
    LET pass == history[Len(history)]
    IN [answer |-> pass.answer, source |-> pass.source, warnings |-> pass.warnings \cup pass.found.warnings,
        evidence |-> pass.found.evidence, plan |-> pass.plan]

\* RunResult.create raises on an evidence item that lacks a field.
CompleteAnswer ==
    /\ pipelineStep = "complete"
    /\ IF \A i \in DOMAIN Current.found.evidence : Current.found.evidence[i].complete
       THEN runResult' = ResultOf(passes) /\ Goto("done")
       ELSE Goto("failed") /\ UNCHANGED runResult
    /\ UNCHANGED <<asked, passes>>

PipelineNext == FindEvidence \/ Generate \/ Polish \/ VerifyDraft \/ AssessAdequacy \/ CompleteAnswer

PipelineSpec == PipelineInit /\ [][PipelineNext]_pipelineVars

----------------------------------------------------------------------------
ByModel(result) == result.source \in {"model", "model_repaired"}

\* What is persisted is grounded in what is persisted with it: an answer of the
\* model cites existing evidence only, its figures are in the pages of that
\* evidence, in its grounding text or derived from them, it stays in the chart
\* scope and was not cut off; its figures were in the draft, whatever the polisher
\* did; a fallback and a degraded plan are warned of; and the plan begins with
\* the question, when that fits a query, and has one query more than its limit
\* at most.
AnswersAreGrounded ==
    runResult # NoRunResult =>
      LET result == runResult
          found == Current.found
          question == asked.question.text
      IN /\ ByModel(result) =>
              /\ CitationsValid(result.answer, DOMAIN result.evidence)
              /\ UnsupportedFacts(result.answer, found.corpus) = {}
              /\ OutsideScope(result.answer, found.scope) = {}
              /\ UnsupportedInferences(result.answer, found.scope) = {}
              /\ ValuesIn(result.answer) \subseteq ValuesIn(Current.draft)
              /\ "truncated" \notin result.warnings
         /\ ~ByModel(result) /\ asked.models => result.warnings # {}
         /\ result.plan.warnings \subseteq result.warnings
         /\ question.chars <= LongestQuery => result.plan.queries[1].text = question
         /\ Len(result.plan.queries) <= QueryLimit + 1

\* _unsupported_absolute_negatives: "Reject universal negatives inferred only
\* from retrieval absence."
UniversalNegativesRejected ==
    runResult # NoRunResult /\ ByModel(runResult) =>
      \A i \in DOMAIN runResult.answer : ~Denies(runResult.answer[i], Current.found.corpus)
====

---- MODULE MCAnswerPipeline ----
(***************************************************************************)
(* Small instances of AnswerPipeline for TLC: a question the plan expands  *)
(* with vocabulary and one too long for a query, planners and models that  *)
(* fail or say something of every kind of claim the verifier tells apart,  *)
(* and evidence that supports some of it.                                  *)
(***************************************************************************)
EXTENDS AnswerPipeline

QText(w, n, c) == [say |-> w, chars |-> n, creates |-> c]
Bridge(p, s) == [kind |-> "vocabulary_bridge", weight |-> 100, primary |-> p, secondary |-> s]
Word(i) == QText(<<i>>, 8, FALSE)
PlanQuestion == {
    [text |-> QText(<<1, 2>>, 20, FALSE), focus |-> QText(<<2>>, 8, FALSE), term |-> <<>>, analyses |-> TRUE, visual |-> FALSE,
     bridges |-> <<Bridge([i \in 1 .. 9 |-> Word(10 + i)], <<Word(2)>>), Bridge(<<Word(30), Word(11)>>, [i \in 1 .. 5 |-> Word(40 + i)])>>],
    [text |-> QText(<<1, 3>>, 400, FALSE), focus |-> QText(<<3>>, 390, FALSE), term |-> <<>>, analyses |-> FALSE, visual |-> TRUE,
     bridges |-> <<>>] }
Payload0 == [queries |-> <<>>, frameCreates |-> FALSE, profile |-> Unsaid, visuals |-> Unsaid, counts |-> <<>>, confidence |-> Unsaid]
PlannerSays == {ProviderError, InvalidOutput, Payload0,
    [Payload0 EXCEPT !.queries = <<[text |-> QText(<<5>>, 500, FALSE), weight |-> 900], [text |-> QText(<<6>>, 9, TRUE), weight |-> Unsaid],
                                   [text |-> QText(<<1, 2>>, 20, FALSE), weight |-> 100]>>,
                     !.frameCreates = TRUE, !.profile = "deep", !.counts = <<1, 3, 60>>, !.confidence = 200]}

Figure(n, u) == [number |-> n, scale |-> 1, prefix |-> "", suffix |-> u, context |-> <<>>]
PlainClaim == [refs |-> {1}, figures |-> {}, derives |-> FALSE, ended |-> TRUE, causal |-> FALSE, bounded |-> FALSE,
          negative |-> FALSE, hedged |-> FALSE, terms |-> {}, series |-> {}, heading |-> FALSE, chars |-> 20, stars |-> 0]
Stated == [PlainClaim EXCEPT !.figures = {Figure(500, "percent")}]
Derived == [PlainClaim EXCEPT !.figures = {Figure(300, "")}, !.derives = TRUE, !.refs = {2}, !.ended = FALSE]
Reworded == [Derived EXCEPT !.figures = {[Figure(3, "") EXCEPT !.scale = 100]}]
Invented == [PlainClaim EXCEPT !.figures = {Figure(700, "")}, !.stars = 2]
Denial == [PlainClaim EXCEPT !.negative = TRUE, !.ended = FALSE, !.terms = {"risk", "loss"}]
Cause == [PlainClaim EXCEPT !.causal = TRUE, !.series = {"s1"}, !.refs = {}]
Heading == [PlainClaim EXCEPT !.heading = TRUE, !.refs = {}, !.ended = FALSE, !.chars = 5]
Foreign == [PlainClaim EXCEPT !.series = {"s2"}, !.refs = {3}]
Gen == {[text |-> t, cut |-> FALSE] : t \in {<<>>, <<Stated>>, <<Heading, Derived>>, <<Heading, Reworded>>, <<Stated, Invented>>, <<Denial, Stated>>,
            <<Stated, Denial>>, <<Cause, Stated>>, <<Foreign, Stated>>, <<Derived, Stated, Heading>>, <<Cause, Heading, Foreign>>, <<Stated, Derived, Stated>>}}
       \cup {[text |-> <<Stated>>, cut |-> TRUE], [text |-> <<PlainClaim, PlainClaim, Stated, PlainClaim>>, cut |-> FALSE]}
Page(i, ok) == [id |-> i, complete |-> ok]
PageFact(n, u) == [display |-> n, value |-> n, unit |-> u]
Corpus == [facts |-> {PageFact(500, "percent"), PageFact(200, "")}, years |-> {2024}, denials |-> {}]
Scope1 == [noMapping |-> TRUE, excluded |-> {"s2"}, families |-> {[names |-> <<"s1">>, minimum |-> 1]}]
EngineFinds == {
    [evidence |-> <<Page(1, TRUE)>>, corpus |-> [Corpus EXCEPT !.denials = {{"risk", "loss"}}], scope |-> NoScope, warnings |-> {}, fallback |-> <<PlainClaim>>],
    [evidence |-> <<Page(1, TRUE), Page(2, TRUE)>>, corpus |-> Corpus, scope |-> NoScope, warnings |-> {"partial"}, fallback |-> <<Stated>>],
    [evidence |-> <<Page(1, TRUE), Page(2, TRUE)>>, corpus |-> Corpus, scope |-> [NoScope EXCEPT !.noMapping = TRUE, !.excluded = {"s2"}], warnings |-> {}, fallback |-> <<Stated>>],
    [evidence |-> <<>>, corpus |-> [Corpus EXCEPT !.facts = {}], scope |-> NoScope, warnings |-> {"insufficient"}, fallback |-> <<>>],
    [evidence |-> <<Page(3, FALSE)>>, corpus |-> Corpus, scope |-> Scope1, warnings |-> {}, fallback |-> <<PlainClaim>>] }
Gap == {QText(<<9>>, 10, FALSE)}
====

---- MODULE Verification ----
(***************************************************************************)
(* The verifier of generated answers (analysis/verification.py).  An       *)
(* answer is a sequence of claims, the segments of its lines:              *)
(*   refs     the citation numbers in it      figures  the numbers in it   *)
(*   derives  it has a word of derivation     ended    it has a sentence   *)
(*   causal, bounded    it asserts a cause, or says that it does not know  *)
(*   negative, hedged   it denies universally, or says so of the search    *)
(*   terms, series      its words, the chart series it names               *)
(*   heading, chars, stars   what the layout tests look at                 *)
(* where ended says that the segment ends with a full stop: one that does  *)
(* not is the last of its line.  A figure is [number, scale, prefix,       *)
(* suffix, context], numbers in hundredths, context <<>> or the unit and   *)
(* the scale of its table column.  Answers that begin with a table, which  *)
(* the code does not split, are left out.                                  *)
(***************************************************************************)
EXTENDS SequenceParts, SequencesExt, FiniteSets, FiniteSetsExt

Magnitude(n) == IF n < 0 THEN -n ELSE n

\* numeric_facts: the unit of the number or, when it has none, of its column.
NumericFact(figure) ==
    LET bare == figure.prefix = "" /\ figure.suffix = "" /\ figure.scale = 1 /\ figure.context # <<>>
        context == figure.context[1]
    IN [display |-> figure.number,
        value |-> figure.number * IF bare THEN context.scale ELSE figure.scale,
        unit |-> IF figure.suffix # "" THEN figure.suffix ELSE IF bare THEN context.unit ELSE figure.prefix]
FactsOf(claim) == {NumericFact(f) : f \in claim.figures}

UnitsAgree(a, b) == a = "" \/ b = "" \/ a = b
FactSupported(fact, allowed) ==
    \E known \in allowed :
      \/ known.value = fact.value /\ UnitsAgree(fact.unit, known.unit)
      \/ fact.unit = "" /\ known.display = fact.display

\* Within 0.05, or 0.2 % of the claimed value.
Near(actual, target) == Magnitude(actual - target) <= Max({5, Magnitude(target) \div 500})

\* A difference, a relative change or a ratio of two facts of the evidence.
DerivedFactSupported(fact, allowed) ==
    \E left, right \in allowed :
      /\ left.value # right.value /\ UnitsAgree(left.unit, right.unit)
      /\ LET difference == Magnitude(left.value - right.value)
         IN \/ /\ Near(difference, fact.value)
               /\ \/ fact.unit \in {"", left.unit, right.unit}
                  \/ fact.unit = "point" /\ left.unit \in {"percent", "point", ""}
            \/ /\ right.value # 0 /\ fact.unit = "percent"
               /\ Near((10000 * difference) \div Magnitude(right.value), fact.value)
            \/ /\ right.value # 0 /\ fact.unit = "multiple"
               /\ Near((100 * Magnitude(left.value)) \div Magnitude(right.value), fact.value)

CalendarYearSupported(fact, corpus) == fact.unit = "" /\ fact.value \div 100 \in corpus.years

\* A corpus is [facts, years, denials]: all numbers of the evidence, the pages
\* it comes from and the grounding text, and the claims that deny something.
SupportedInContext(fact, claim, corpus) ==
    \/ FactSupported(fact, corpus.facts)
    \/ CalendarYearSupported(fact, corpus)
    \/ claim.derives /\ DerivedFactSupported(fact, corpus.facts)
Unsupported(claim, corpus) == {f \in FactsOf(claim) : ~SupportedInContext(f, claim, corpus)}
UnsupportedFacts(answer, corpus) == UNION {Unsupported(answer[i], corpus) : i \in DOMAIN answer}
References(answer) == UNION {answer[i].refs : i \in DOMAIN answer}

----------------------------------------------------------------------------
(* Causes and denials.                                                     *)

\* _segments over a whole answer: "$" is the end of the text and "." stops at a
\* line, so of the segments without a full stop only the last one is found.
WholeTextSegments(answer) == {i \in DOMAIN answer : answer[i].ended \/ i = Len(answer)}

UnsupportedInferences(answer, scope) ==
    {i \in WholeTextSegments(answer) : scope.noMapping /\ answer[i].causal /\ ~answer[i].bounded}

Denies(claim, corpus) ==
    claim.negative /\ ~claim.hedged /\ \A d \in corpus.denials : Cardinality(d \cap claim.terms) < 2
UnsupportedNegatives(answer, corpus) == {i \in WholeTextSegments(answer) : Denies(answer[i], corpus)}

----------------------------------------------------------------------------
(* The scope of a chart: [noMapping, excluded, families], a family         *)
(* [names, minimum] with the least number of them an answer has to name.   *)

NoScope == [noMapping |-> FALSE, excluded |-> {}, families |-> {}]
SeriesOf(answer) == UNION {answer[i].series : i \in DOMAIN answer}
OutsideScope(answer, scope) == SeriesOf(answer) \cap scope.excluded
MissingFamilies(answer, scope) ==
    LET Spoken(f) == {i \in DOMAIN f.names : f.names[i] \in SeriesOf(answer)}
    IN {f \in scope.families : Cardinality(Spoken(f)) < Min({f.minimum, Len(f.names)})}

----------------------------------------------------------------------------
(* Repair: claims are deleted, never changed.                              *)

\* A heading stays when a line of text follows.
RemoveOrphanHeadings(answer) ==
    LET Followed(i) == i < Len(answer) /\ ~answer[i + 1].heading
    IN KeepAt(answer, {i \in DOMAIN answer : answer[i].heading => Followed(i)})

RemoveClaims(answer, rejected) ==
    RemoveOrphanHeadings(KeepAt(answer, {i \in DOMAIN answer : answer[i] \notin {answer[k] : k \in rejected}}))
KeepGrounded(answer, corpus, valid) ==
    RemoveOrphanHeadings(KeepAt(answer, {i \in DOMAIN answer :
        answer[i].refs \subseteq valid /\ Unsupported(answer[i], corpus) = {}}))

CharsOf(answer) == FoldLeft(LAMBDA n, c : n + c.chars, 0, answer)
Substantive(answer) == CharsOf(answer) >= 12
FormatIntact(answer) == FoldLeft(LAMBDA n, c : n + c.stars, 0, answer) % 2 = 0

CitationsValid(answer, valid) == valid = {} \/ (References(answer) # {} /\ References(answer) \subseteq valid)

\* verify: accepted as it is, repaired, or neither.  The denials are not looked
\* for again in the repaired text.
Verify(answer, evidence, corpus, scope) ==
    LET valid == 1 .. Len(evidence)
        inferences == UnsupportedInferences(answer, scope)
        negatives == UnsupportedNegatives(answer, corpus)
        warnings == {w \in {"citation", "numeric", "scope", "coverage", "inference", "negative"} :
                       \/ w = "citation" /\ ~CitationsValid(answer, valid)
                       \/ w = "numeric" /\ UnsupportedFacts(answer, corpus) # {}
                       \/ w = "scope" /\ OutsideScope(answer, scope) # {}
                       \/ w = "coverage" /\ MissingFamilies(answer, scope) # {}
                       \/ w = "inference" /\ inferences # {}
                       \/ w = "negative" /\ negatives # {}}
        repaired == KeepGrounded(RemoveClaims(answer, inferences \cup negatives), corpus, valid)
        sound == /\ repaired # answer /\ Substantive(repaired) /\ FormatIntact(repaired)
                 /\ CitationsValid(repaired, valid) /\ UnsupportedFacts(repaired, corpus) = {}
                 /\ OutsideScope(repaired, scope) = {} /\ MissingFamilies(repaired, scope) = {}
                 /\ UnsupportedInferences(repaired, scope) = {}
    IN [warnings |-> warnings,
        disposition |-> IF warnings = {} THEN "accepted" ELSE IF sound THEN "repaired" ELSE "fallback",
        answer |-> IF warnings = {} THEN answer ELSE repaired]
====

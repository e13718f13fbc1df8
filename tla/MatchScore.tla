------------------------------ MODULE MatchScore ------------------------------
(***************************************************************************)
(* From assessed requirements to the verdict of a match: the gate of the   *)
(* must-haves, the factors with their weights, the score, the band         *)
(* (matching/application/facade.py).                                       *)
(*                                                                         *)
(* pairs is a sequence of [req, res]: a requirement and its result.        *)
(* A factor that is scored contributes score * reliability * weight to the *)
(* numerator of the suitability and reliability * weight to its            *)
(* denominator; both are kept as integers over the common denominator      *)
(* Scale(pairs), and nothing is rounded.                                   *)
(***************************************************************************)
EXTENDS Integers, Sequences, FiniteSets, FiniteSetsExt, Requirements

(* Policy weights and importances, in units of five per cent.               *)
Weights ==
    [balanced   |-> [coverage |-> 12, skill |-> 3, experience |-> 1, language |-> 1, semantic |-> 3],
     skill      |-> [coverage |-> 10, skill |-> 5, experience |-> 1, language |-> 1, semantic |-> 3],
     experience |-> [coverage |-> 10, skill |-> 2, experience |-> 4, language |-> 1, semantic |-> 3]]

Importance == [must_have |-> 20, nice_to_have |-> 7, context |-> 3]

(* What the comparison of the texts gave: nothing, or tenths of a score.    *)
Semantic == [scored: BOOLEAN, score: 0..10]

Score(r) == IF r.status = "met" THEN 1 ELSE 0

SumOver(S, f(_)) == MapThenSumSet(f, S)

Weighed(pairs, S) == SumOver(S, LAMBDA i : Importance[pairs[i].req.priority])

Scored(pairs) == {i \in DOMAIN pairs : pairs[i].res.status # "unknown"}

Met(pairs) == {i \in DOMAIN pairs : pairs[i].res.status = "met"}

InCategory(pairs, c) == {i \in DOMAIN pairs : Category(pairs[i].req) = c}

Categories == {"skill", "experience", "language"}

(* A factor as [on, score, of, reliability]: score/of and reliability/over;  *)
(* on when it is scored.                                                    *)
NoFactor == [on |-> FALSE, score |-> 0, of |-> 1, reliability |-> 0, over |-> 1]

Factor(on, score, of, reliability, over) ==
    IF on THEN [on |-> TRUE, score |-> score, of |-> of, reliability |-> reliability, over |-> over]
    ELSE NoFactor

(* What is unknown is left out of the score and lowers the reliability.     *)
Coverage(pairs) ==
    Factor(Scored(pairs) # {}, Weighed(pairs, Met(pairs)), Weighed(pairs, Scored(pairs)),
           Weighed(pairs, Scored(pairs)), Weighed(pairs, DOMAIN pairs))

RequirementFactor(pairs, c) ==
    LET scored == InCategory(pairs, c) \cap Scored(pairs)
    IN Factor(scored # {}, Cardinality(scored \cap Met(pairs)), Cardinality(scored),
              SumOver(scored, LAMBDA i : pairs[i].res.confidence), 20 * Cardinality(scored))

SemanticFactor(semantic) == Factor(semantic.scored, semantic.score, 10, 1, 1)

Factors(pairs, semantic) ==
    [coverage |-> Coverage(pairs), skill |-> RequirementFactor(pairs, "skill"),
     experience |-> RequirementFactor(pairs, "experience"),
     language |-> RequirementFactor(pairs, "language"), semantic |-> SemanticFactor(semantic)]

On(factors) == {f \in DOMAIN factors : factors[f].on}

-----------------------------------------------------------------------------

Product(factors) ==
    LET parts(f) == factors[f].of * factors[f].over
    IN parts("coverage") * parts("skill") * parts("experience") * parts("language")
         * parts("semantic")

OverFactors(part(_)) ==
    part("coverage") + part("skill") + part("experience") + part("language") + part("semantic")

(* reliability * weight of each factor, over the common denominator.        *)
Shares(factors, weights) ==
    LET product == Product(factors)
    IN [f \in DOMAIN factors |->
           weights[f] * factors[f].reliability * (product \div factors[f].over)]

Denominator(factors, weights) ==
    LET shares == Shares(factors, weights) IN OverFactors(LAMBDA f : shares[f])

Numerator(factors, weights) ==
    LET shares == Shares(factors, weights)
    IN OverFactors(LAMBDA f : (shares[f] \div factors[f].of) * factors[f].score)

(* Must-haves that are surely not met.                                      *)
Failed(pairs) == {i \in DOMAIN pairs : /\ pairs[i].req.priority = "must_have"
                                       /\ pairs[i].res.status = "not_met"
                                       /\ pairs[i].res.confidence >= 16}

UnknownMustHaves(pairs) ==
    {i \in DOMAIN pairs : pairs[i].req.priority = "must_have" /\ pairs[i].res.status = "unknown"}

Eligibility(policy, pairs) ==
    CASE policy.strict /\ Failed(pairs) # {} -> "ineligible"
      [] ~ (policy.strict /\ Failed(pairs) # {}) /\ policy.review /\ UnknownMustHaves(pairs) # {} ->
            "review_required"
      [] OTHER -> "eligible"

SemanticOnly(factors) == On(factors) = {"semantic"}

(* Sum of the reliabilities of the scored factors against 0.60.             *)
Reliable(factors) ==
    10 * Denominator(factors, [f \in DOMAIN factors |-> 1]) >= 6 * Product(factors)

Strong(factors, weights) ==
    10 * Numerator(factors, weights) >= 8 * Denominator(factors, weights)

HasSuitability(eligibility, factors) ==
    eligibility = "eligible" /\ On(factors) # {} /\ ~ SemanticOnly(factors)

FitBand(eligibility, factors, weights) ==
    CASE eligibility = "ineligible"      -> "not_eligible"
      [] eligibility = "review_required" -> "review_required"
      [] eligibility = "eligible" /\ HasSuitability(eligibility, factors) /\ Reliable(factors) ->
            IF Strong(factors, weights) THEN "strong_fit" ELSE "partial_fit"
      [] OTHER -> "insufficient_evidence"

Verdict(policy, pairs, semantic) ==
    LET factors == Factors(pairs, semantic)
        eligibility == Eligibility(policy, pairs)
    IN [results |-> [i \in DOMAIN pairs |-> pairs[i].res], eligibility |-> eligibility,
        fitBand |-> FitBand(eligibility, factors, Weights[policy.weights])]

=============================================================================

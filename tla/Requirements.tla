----------------------------- MODULE Requirements -----------------------------
(***************************************************************************)
(* How one requirement of a job is assessed against a CV                   *)
(* (matching/application/facade.py _evaluate_requirements,                 *)
(* matching/evaluation/requirement_evaluators.py).                         *)
(*                                                                         *)
(* A passage is a piece of text that may be cited.  What it says of the    *)
(* requirement is "above" (it satisfies it, or shows it applied), "below"  *)
(* (it contradicts it) or "weak" (a mention); recognising that is left     *)
(* open.  A claim is an entry of the parsed CV about a skill or a          *)
(* language.  Confidences are in twentieths.                               *)
(***************************************************************************)
EXTENDS Integers, Sequences, FiniteSets, FiniteSetsExt

Sources == {"document", "recovered", "answer"}

Passage == [from: Sources, says: {"above", "below", "weak"}, about: 1..2]

(* level and months are 0 and -1 when they are not stated.                  *)
Claim == [from: {"document", "answer"}, cited: BOOLEAN, level: 0..3, months: -1..3,
          confidence: 0..20]

Employment == [dated: BOOLEAN, from: Seq(Nat), to: Seq(Nat)]

(* min is what an operator compares with, 0 if it does not.                 *)
Operators ==
    [skill      |-> {"required", "proficiency_gte", "gte"},
     language   |-> {"required", "equal"},
     unresolved |-> {"gpa", "language_credential", "experience_duration", "education_degree",
                     "education_status", "all_of", "any_of", "programming_foundation",
                     "research_or_competition", "ai_activity", "generic_requirement"}]

Priorities == {"must_have", "nice_to_have", "context"}

IsRequirement(req) ==
    /\ req.kind \in DOMAIN Operators /\ req.op \in Operators[req.kind]
    /\ req.priority \in Priorities /\ req.min \in Nat

(* alias and quote: what a search of the text would find.                   *)
IsCV(cv) ==
    /\ DOMAIN cv = {"claims", "passages", "timeline", "complete", "alias", "quote"}
    /\ cv.claims \in Seq(Claim) /\ cv.passages \in Seq(Passage)
    /\ cv.timeline \in Seq(Employment) /\ cv.complete \in BOOLEAN
    /\ cv.alias \in BOOLEAN /\ cv.quote \in {"none", "above", "below", "weak"}

(* code: the reason, as far as somebody looks at it later.                  *)
Result == [status: {"met", "not_met", "unknown"}, confidence: 0..20,
           cites: SUBSET Sources, code: {"not_evidenced", "other"}]

Res(status, confidence, cites) ==
    [status |-> status, confidence |-> confidence, cites |-> cites, code |-> "other"]

NotEvidenced(confidence) ==
    [status |-> "unknown", confidence |-> confidence, cites |-> {}, code |-> "not_evidenced"]

Cites(passages) == {passages[i].from : i \in DOMAIN passages}

(* What nothing is cited for was not found, unless it is still to be asked. *)
Grounded(r) ==
    IF r.cites = {} /\ (r.status = "unknown" => r.code # "not_evidenced")
    THEN [r EXCEPT !.status = "not_met", !.code = "other"]
    ELSE r

-----------------------------------------------------------------------------
(* Months of experience.  A date of the CV that gives a year or a month is  *)
(* a window; an employment is [dated, from, to] with two windows.           *)

Months(first, last) == first..last

SurelyEmployed(e) == Months(e.from[2], e.to[1])

PerhapsEmployed(e) == Months(e.from[1], e.to[2])

Employments(timeline) == {timeline[i] : i \in DOMAIN timeline}

Dated(timeline) == {e \in Employments(timeline) : e.dated}

MinimumMonths(timeline) == UNION {SurelyEmployed(e) : e \in Dated(timeline)}

MaximumMonths(timeline) == UNION {PerhapsEmployed(e) : e \in Dated(timeline)}

ExperienceDuration(timeline, required) ==
    LET uncertain == \E e \in Employments(timeline) : ~ e.dated
    IN IF Dated(timeline) = {} THEN Res("unknown", 0, {})
       ELSE IF Cardinality(MinimumMonths(timeline)) >= required
       THEN Res("met", IF uncertain THEN 17 ELSE 19, {"document"})
       ELSE IF Cardinality(MaximumMonths(timeline)) < required /\ ~ uncertain
       THEN Res("not_met", 19, {"document"})
       ELSE Res("unknown", 9, {"document"})

-----------------------------------------------------------------------------
(* The evaluators of a requirement that names neither a skill nor a         *)
(* language.                                                                *)

Saying(passages, s) == SelectSeq(passages, LAMBDA p : p.says = s)

(* Absence is concluded from a CV that was read as a whole.                 *)
Absence(complete) == IF complete THEN Res("not_met", 18, {}) ELSE Res("unknown", 0, {})

(* A grade or a test score: the first passage that states one decides.      *)
FirstStated(passages, complete) ==
    LET stated == SelectSeq(passages, LAMBDA p : p.says # "weak")
    IN IF stated = <<>> THEN Absence(complete)
       ELSE Res(IF stated[1].says = "above" THEN "met" ELSE "not_met", 20, {stated[1].from})

Gpa(passages, complete) == FirstStated(passages, complete)

LanguageCredential(passages, complete) == FirstStated(passages, complete)

EducationDegree(passages, complete) ==
    CASE Saying(passages, "above") # <<>> -> Res("met", 20, Cites(Saying(passages, "above")))
      [] Saying(passages, "above") = <<>> /\ Saying(passages, "below") # <<>> ->
            Res("not_met", 19, Cites(Saying(passages, "below")))
      [] OTHER -> Absence(complete)

AnyFound(passages, complete, confidence) ==
    IF Saying(passages, "above") # <<>>
    THEN Res("met", confidence, Cites(Saying(passages, "above")))
    ELSE Absence(complete)

EducationStatus(passages, complete) == AnyFound(passages, complete, 20)

ResearchOrCompetition(passages, complete) == AnyFound(passages, complete, 20)

AiActivity(passages, complete) == AnyFound(passages, complete, 18)

(* One programming language is a weak passage, two make a foundation.       *)
ProgrammingFoundation(passages, complete) ==
    LET weak == Saying(passages, "weak")
        languages == {weak[i].about : i \in DOMAIN weak}
    IN CASE Saying(passages, "above") # <<>> ->
                Res("met", 20, Cites(Saying(passages, "above")))
         [] Saying(passages, "above") = <<>> /\ Cardinality(languages) >= 2 ->
                Res("met", 18, Cites(Saying(passages, "weak")))
         [] Saying(passages, "above") = <<>> /\ Cardinality(languages) = 1 ->
                Res("unknown", 8, Cites(Saying(passages, "weak")))
         [] OTHER -> Absence(complete)

Concept(passages, c) ==
    LET told == SelectSeq(passages, LAMBDA p : p.about = c /\ p.says # "below")
    IN IF told = <<>> THEN NotEvidenced(12)
       ELSE IF Saying(told, "above") # <<>> THEN Res("met", 15, Cites(told))
       ELSE Res("unknown", 8, Cites(told))

GroupStatus(statuses, operator) ==
    CASE operator = "any_of" /\ "met" \in statuses -> "met"
      [] operator = "all_of" /\ statuses = {"met"} -> "met"
      [] OTHER                                     -> "unknown"

GroupConfidence(one, two, operator) ==
    IF operator = "any_of" THEN Max({one, two}) ELSE (one + two) \div 2

(* Two concepts; one that is not mentioned is unknown, never missing.       *)
KnowledgeSkill(passages, operator) ==
    LET one == Concept(passages, 1)
        two == Concept(passages, 2)
        confidence == GroupConfidence(one.confidence, two.confidence, operator)
        cites == one.cites \cup two.cites
    IN [status |-> GroupStatus({one.status, two.status}, operator), confidence |-> confidence,
        cites |-> cites, code |-> IF cites = {} THEN "not_evidenced" ELSE "other"]

GenericRequirement(passages) ==
    CASE Saying(passages, "above") # <<>> -> Res("met", 17, Cites(Saying(passages, "above")))
      [] Saying(passages, "above") = <<>> /\ passages # <<>> ->
            Res("unknown", 7, Cites(passages))
      [] OTHER -> NotEvidenced(12)

Evaluated(req, passages, timeline, complete) ==
    CASE req.op = "gpa"                     -> Gpa(passages, complete)
      [] req.op = "language_credential"     -> LanguageCredential(passages, complete)
      [] req.op = "experience_duration"     -> ExperienceDuration(timeline, req.min)
      [] req.op = "education_degree"        -> EducationDegree(passages, complete)
      [] req.op = "education_status"        -> EducationStatus(passages, complete)
      [] req.op \in {"all_of", "any_of"}    -> KnowledgeSkill(passages, req.op)
      [] req.op = "programming_foundation"  -> ProgrammingFoundation(passages, complete)
      [] req.op = "research_or_competition" -> ResearchOrCompetition(passages, complete)
      [] req.op = "ai_activity"             -> AiActivity(passages, complete)
      [] req.op = "generic_requirement"     -> GenericRequirement(passages)

(* What select_evaluator tells of the factor a requirement counts for.      *)
Category(req) ==
    CASE req.kind # "unresolved" -> req.kind
      [] req.op = "experience_duration" -> "experience"
      [] req.op = "language_credential" -> "language"
      [] req.op \in {"gpa", "education_degree", "education_status"} -> "education"
      [] req.op = "generic_requirement" -> "other"
      [] OTHER -> "skill"

-----------------------------------------------------------------------------
(* A skill, on the last claim about it.                                     *)

Short(req, claim) ==
    \/ req.op = "proficiency_gte" /\ claim.level < req.min
    \/ req.op = "gte" /\ claim.months < req.min

Unstated(req, claim) ==
    \/ req.op = "proficiency_gte" /\ claim.level = 0
    \/ req.op = "gte" /\ claim.months = -1

OnClaim(req, claim) ==
    CASE ~ claim.cited        -> NotEvidenced(12)
      [] claim.cited /\ Unstated(req, claim) -> Res("unknown", claim.confidence, {claim.from})
      [] claim.cited /\ ~ Unstated(req, claim) /\ Short(req, claim) ->
            Res("not_met", claim.confidence, {claim.from})
      [] OTHER                -> Res("met", claim.confidence, {claim.from})

(* Without a claim nothing is concluded: the passages that may be about it  *)
(* are cited for the candidate to confirm.                                  *)
Skill(req, claims, passages) ==
    IF claims # <<>> THEN OnClaim(req, claims[Len(claims)])
    ELSE IF passages = <<>> THEN NotEvidenced(12)
    ELSE Res("unknown", 9, Cites(passages))

(* A language is compared with the level that is asked for, not ordered.    *)
Language(req, claims, passages) ==
    IF claims = <<>> \/ ~ claims[Len(claims)].cited
    THEN LET recovered == Cites(passages) \cap {"recovered"}
         IN IF recovered = {} THEN Res("not_met", 18, {}) ELSE Res("unknown", 9, recovered)
    ELSE LET claim == claims[Len(claims)]
         IN CASE req.op = "equal" /\ claim.level = 0 -> Res("unknown", 9, {claim.from})
              [] req.op = "equal" /\ claim.level \notin {0, req.min} ->
                    Res("not_met", 20, {claim.from})
              [] OTHER -> Res("met", 20, {claim.from})

Assess(req, cv) ==
    CASE req.kind = "skill"      -> Skill(req, cv.claims, cv.passages)
      [] req.kind = "language"   -> Language(req, cv.claims, cv.passages)
      [] req.kind = "unresolved" ->
            Grounded(Evaluated(req, cv.passages, cv.timeline, cv.complete))

=============================================================================

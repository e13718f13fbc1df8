---------------------------- MODULE Matching_proofs ----------------------------
(***************************************************************************)
(* Theorems about Matching, for any number of overlapping calls, any       *)
(* requirements and any CV, whatever the searches for evidence find.       *)
(***************************************************************************)
EXTENDS Matching, TLAPS

-----------------------------------------------------------------------------
(* What an assessment looks like.                                           *)

(* A record with a confidence that is a number.                             *)
IsResult(r) ==
    /\ DOMAIN r = {"status", "confidence", "cites", "code"}
    /\ r.confidence \in 0..20

LEMMA ResIsResult ==
    ASSUME NEW s, NEW n \in 0..20, NEW c
    PROVE  IsResult(Res(s, n, c))
BY DEF IsResult, Res

LEMMA NotEvidencedIsResult == IsResult(NotEvidenced(12))
BY DEF IsResult, NotEvidenced

LEMMA AbsenceIsResult ==
    ASSUME NEW complete
    PROVE  IsResult(Absence(complete))
BY ResIsResult DEF Absence

LEMMA GroundedIsResult ==
    ASSUME NEW r, IsResult(r)
    PROVE  IsResult(Grounded(r))
BY DEF IsResult, Grounded

LEMMA FirstStatedIsResult ==
    ASSUME NEW passages, NEW complete
    PROVE  IsResult(FirstStated(passages, complete))
<1> DEFINE stated == SelectSeq(passages, LAMBDA p : p.says # "weak")
<1>1. FirstStated(passages, complete) =
        IF stated = <<>> THEN Absence(complete)
        ELSE Res(IF stated[1].says = "above" THEN "met" ELSE "not_met", 20, {stated[1].from})
  BY DEF FirstStated
<1> HIDE DEF stated
<1>2. QED
  BY <1>1, ResIsResult, AbsenceIsResult

LEMMA AnyFoundIsResult ==
    ASSUME NEW passages, NEW complete, NEW n \in 0..20
    PROVE  IsResult(AnyFound(passages, complete, n))
BY ResIsResult, AbsenceIsResult DEF AnyFound

LEMMA DegreeIsResult ==
    ASSUME NEW passages, NEW complete
    PROVE  IsResult(EducationDegree(passages, complete))
<1> DEFINE above == Saying(passages, "above")
           below == Saying(passages, "below")
<1>1. EducationDegree(passages, complete) =
        CASE above # <<>> -> Res("met", 20, Cites(above))
          [] above = <<>> /\ below # <<>> -> Res("not_met", 19, Cites(below))
          [] OTHER -> Absence(complete)
  BY DEF EducationDegree
<1> HIDE DEF above, below
<1>2. IsResult(Res("met", 20, Cites(above))) /\ IsResult(Res("not_met", 19, Cites(below)))
  BY ResIsResult
<1>3. QED
  BY <1>1, <1>2, AbsenceIsResult

LEMMA FoundationIsResult ==
    ASSUME NEW passages, NEW complete
    PROVE  IsResult(ProgrammingFoundation(passages, complete))
<1> DEFINE above == Saying(passages, "above")
           weak  == Saying(passages, "weak")
           named == Cardinality({weak[i].about : i \in DOMAIN weak})
<1>1. ProgrammingFoundation(passages, complete) =
        CASE above # <<>> -> Res("met", 20, Cites(above))
          [] above = <<>> /\ named >= 2 -> Res("met", 18, Cites(weak))
          [] above = <<>> /\ named = 1 -> Res("unknown", 8, Cites(weak))
          [] OTHER -> Absence(complete)
  BY DEF ProgrammingFoundation
<1> HIDE DEF above, weak, named
<1>2. IsResult(Res("met", 20, Cites(above)))
  BY ResIsResult
<1>3. IsResult(Res("met", 18, Cites(weak)))
  BY ResIsResult
<1>4. IsResult(Res("unknown", 8, Cites(weak)))
  BY ResIsResult
<1>5. QED
  BY <1>1, <1>2, <1>3, <1>4, AbsenceIsResult

LEMMA DurationIsResult ==
    ASSUME NEW timeline, NEW required
    PROVE  IsResult(ExperienceDuration(timeline, required))
BY ResIsResult DEF ExperienceDuration

LEMMA ConceptIsResult ==
    ASSUME NEW passages, NEW c
    PROVE  IsResult(Concept(passages, c))
<1> DEFINE told == SelectSeq(passages, LAMBDA p : p.about = c /\ p.says # "below")
<1>1. Concept(passages, c) =
        IF told = <<>> THEN NotEvidenced(12)
        ELSE IF Saying(told, "above") # <<>> THEN Res("met", 15, Cites(told))
        ELSE Res("unknown", 8, Cites(told))
  BY Zenon DEF Concept
<1> HIDE DEF told
<1>2. IsResult(Res("met", 15, Cites(told))) /\ IsResult(Res("unknown", 8, Cites(told)))
  BY ResIsResult
<1>3. QED
  BY <1>1, <1>2, NotEvidencedIsResult

LEMMA GroupIsResult ==
    ASSUME NEW passages, NEW operator
    PROVE  IsResult(KnowledgeSkill(passages, operator))
<1> DEFINE a == Concept(passages, 1).confidence
           b == Concept(passages, 2).confidence
<1>1. a \in 0..20 /\ b \in 0..20
  BY ConceptIsResult DEF IsResult
<1> HIDE DEF a, b
<1>2. Max({a, b}) \in 0..20
  <2>1. \E x \in {a, b} : \A y \in {a, b} : x >= y
    BY <1>1
  <2>2. QED
    BY <1>1, <2>1 DEF Max
<1>3. (a + b) \div 2 \in 0..20
  BY <1>1
<1>4. GroupConfidence(a, b, operator) \in 0..20
  BY <1>2, <1>3 DEF GroupConfidence
<1>5. QED
  BY <1>4 DEF KnowledgeSkill, IsResult, a, b

LEMMA GenericIsResult ==
    ASSUME NEW passages
    PROVE  IsResult(GenericRequirement(passages))
<1> DEFINE above == Saying(passages, "above")
<1>1. GenericRequirement(passages) =
        CASE above # <<>> -> Res("met", 17, Cites(above))
          [] above = <<>> /\ passages # <<>> -> Res("unknown", 7, Cites(passages))
          [] OTHER -> NotEvidenced(12)
  BY DEF GenericRequirement
<1> HIDE DEF above
<1>2. /\ IsResult(Res("met", 17, Cites(above))) /\ IsResult(Res("unknown", 7, Cites(passages)))
  BY ResIsResult
<1>3. QED
  BY <1>1, <1>2, NotEvidencedIsResult

LEMMA EvaluatedIsResult ==
    ASSUME NEW req, IsRequirement(req), req.kind = "unresolved",
           NEW passages, NEW timeline, NEW complete
    PROVE  IsResult(Evaluated(req, passages, timeline, complete))
<1>1. req.op \in Operators.unresolved
  BY DEF IsRequirement, Operators
<1>2. IsResult(Gpa(passages, complete)) /\ IsResult(LanguageCredential(passages, complete))
  BY FirstStatedIsResult DEF Gpa, LanguageCredential
<1>3. IsResult(EducationStatus(passages, complete))
  BY AnyFoundIsResult DEF EducationStatus
<1>4. IsResult(ResearchOrCompetition(passages, complete))
  BY AnyFoundIsResult DEF ResearchOrCompetition
<1>5. IsResult(AiActivity(passages, complete))
  BY AnyFoundIsResult DEF AiActivity
<1>6. IsResult(ExperienceDuration(timeline, req.min))
  BY DurationIsResult
<1>7. IsResult(KnowledgeSkill(passages, req.op))
  BY GroupIsResult
<1>8. QED
  BY <1>1, <1>2, <1>3, <1>4, <1>5, <1>6, <1>7, DegreeIsResult, FoundationIsResult,
     GenericIsResult DEF Evaluated, Operators

LEMMA SkillIsResult ==
    ASSUME NEW req, NEW claims \in Seq(Claim), NEW passages
    PROVE  IsResult(Skill(req, claims, passages))
<1>1. IsResult(Res("unknown", 9, Cites(passages)))
  BY ResIsResult
<1>2. ASSUME claims # <<>>
      PROVE  IsResult(OnClaim(req, claims[Len(claims)]))
  <2> DEFINE claim == claims[Len(claims)]
  <2>1. claim \in Claim
    BY <1>2
  <2> HIDE DEF claim
  <2>2. claim.confidence \in 0..20
    BY <2>1 DEF Claim
  <2>3. \A s, c : IsResult(Res(s, claim.confidence, c))
    BY <2>2, ResIsResult
  <2>4. IsResult(OnClaim(req, claim))
    BY <2>3, NotEvidencedIsResult DEF OnClaim
  <2>5. QED
    BY <2>4 DEF claim
<1>3. QED
  BY <1>1, <1>2, NotEvidencedIsResult DEF Skill

LEMMA LanguageIsResult ==
    ASSUME NEW req, NEW claims, NEW passages
    PROVE  IsResult(Language(req, claims, passages))
<1>1. \A s, c : IsResult(Res(s, 9, c)) /\ IsResult(Res(s, 18, c)) /\ IsResult(Res(s, 20, c))
  BY ResIsResult
<1>2. QED
  BY <1>1 DEF Language

(* However a requirement is assessed, the result has a confidence.          *)
LEMMA AssessIsResult ==
    ASSUME NEW req, IsRequirement(req), NEW cv, cv.claims \in Seq(Claim)
    PROVE  IsResult(Assess(req, cv))
<1>1. CASE req.kind = "skill"
  <2>1. Assess(req, cv) = Skill(req, cv.claims, cv.passages)
    BY <1>1 DEF Assess
  <2>2. QED
    BY <2>1, SkillIsResult
<1>2. CASE req.kind = "language"
  <2>1. Assess(req, cv) = Language(req, cv.claims, cv.passages)
    BY <1>2 DEF Assess
  <2>2. QED
    BY <2>1, LanguageIsResult
<1>3. CASE req.kind = "unresolved"
  <2>1. Assess(req, cv) = Grounded(Evaluated(req, cv.passages, cv.timeline, cv.complete))
    BY <1>3 DEF Assess
  <2>2. IsResult(Evaluated(req, cv.passages, cv.timeline, cv.complete))
    BY <1>3, EvaluatedIsResult
  <2>3. QED
    BY <2>1, <2>2, GroundedIsResult
<1>4. QED
  BY <1>1, <1>2, <1>3 DEF IsRequirement, Operators

LEMMA CappedIsLow ==
    ASSUME NEW r, IsResult(r)
    PROVE  /\ Capped(r).confidence \in 0..14
           /\ Capped(r).cites = r.cites
<1>1. PICK n \in 0..20 : n = r.confidence
  BY DEF IsResult
<1>2. Min({n, 14}) \in 0..14
  <2>1. \E x \in {n, 14} : \A y \in {n, 14} : x <= y
    BY <1>1
  <2>2. QED
    BY <2>1, <1>1 DEF Min
<1>3. QED
  BY <1>1, <1>2 DEF Capped, IsResult

-----------------------------------------------------------------------------
(* The answer of a candidate.                                               *)

(* What the CV says of a row is a sequence of claims, with the claim that   *)
(* an answer makes as without it.                                           *)
LEMMA AnswerIsClaim ==
    ASSUME NEW req, IsRequirement(req), NEW answer \in AnswersTo(req),
           NEW cv, "claims" \in DOMAIN cv, cv.claims \in Seq(Claim)
    PROVE  WithAnswer(req, cv, answer).claims \in Seq(Claim)
<1>1. answer.level \in 0..3 /\ answer.months \in -1..3
  <2>1. CASE req.kind = "skill"
    BY <2>1 DEF AnswersTo
  <2>2. CASE req.kind = "language"
    BY <2>2 DEF AnswersTo
  <2>3. CASE req.kind = "unresolved"
    BY <2>3 DEF AnswersTo
  <2>4. QED
    BY <2>1, <2>2, <2>3 DEF IsRequirement, Operators
<1>2. ClaimOf(answer) \in Claim
  BY <1>1 DEF ClaimOf, ClaimMonths, Claim
<1>3. cv.claims \in Seq(Claim) /\ Append(cv.claims, ClaimOf(answer)) \in Seq(Claim)
  BY <1>2
<1>4. WithAnswer(req, cv, answer).claims =
        IF Claims(req, answer) THEN Append(cv.claims, ClaimOf(answer)) ELSE cv.claims
  BY DEF WithAnswer
<1>5. QED
  BY <1>3, <1>4

(* The search for evidence adds passages to the CV, never claims.           *)
LEMMA RecoveredClaims ==
    ASSUME NEW i, IsCV(case[i].cv), NEW found
    PROVE  /\ "claims" \in DOMAIN Recovered(i, found)
           /\ Recovered(i, found).claims \in Seq(Claim)
<1>1. /\ DOMAIN Recovered(i, found) = DOMAIN case[i].cv
      /\ "claims" \in DOMAIN case[i].cv
      /\ Recovered(i, found).claims = case[i].cv.claims
  BY DEF Recovered, IsCV
<1>2. QED
  BY <1>1 DEF IsCV

(* A row after the answers is the row before them, or an answer was used    *)
(* for it and its confidence is too low for a must-have to be failed.       *)
LEMMA ReassessedIsLow ==
    ASSUME CasesAssumption, case \in Cases, NEW i \in Rows, NEW initial,
           NEW answer \in AnswersTo(case[i].req), NEW found
    PROVE  \/ Reassessed(i, initial, answer, found) = initial.results[i]
           \/ /\ "answer" \in Reassessed(i, initial, answer, found).cites
              /\ Reassessed(i, initial, answer, found).confidence \in 0..14
<1> DEFINE req == case[i].req
           r == IF Denial(req, answer) THEN Res("not_met", 14, {"answer"})
                ELSE Assess(req, WithAnswer(req, Recovered(i, found), answer))
<1>1. IsRequirement(req) /\ IsCV(case[i].cv)
  BY DEF CasesAssumption, Rows
<1>2. IsResult(r)
  <2>1. WithAnswer(req, Recovered(i, found), answer).claims \in Seq(Claim)
    BY <1>1, RecoveredClaims, AnswerIsClaim
  <2>2. IsResult(Assess(req, WithAnswer(req, Recovered(i, found), answer)))
    BY <1>1, <2>1, AssessIsResult
  <2>3. IsResult(Res("not_met", 14, {"answer"}))
    BY ResIsResult
  <2>4. QED
    BY <2>2, <2>3
<1>3. Reassessed(i, initial, answer, found) =
        IF "answer" \in r.cites THEN Capped(r) ELSE initial.results[i]
  BY DEF Reassessed
<1> HIDE DEF r
<1>4. QED
  BY <1>2, <1>3, CappedIsLow

-----------------------------------------------------------------------------
(* Scoring a CV anew with the answers.                                      *)

(* What is written for a row by Outcome.                                    *)
LEMMA OutcomeOf ==
    ASSUME NEW results
    PROVE  /\ Outcome(results).results = [i \in Rows |-> results[i]]
           /\ Outcome(results).eligibility =
                Eligibility(policy, [i \in Rows |-> [req |-> case[i].req, res |-> results[i]]])
BY DEF Outcome, Verdict

(* The candidate is only excluded by a must-have that has failed.           *)
LEMMA IneligibleMeansFailed ==
    ASSUME NEW pairs
    PROVE  Eligibility(policy, pairs) = "ineligible" <=> policy.strict /\ Failed(pairs) # {}
BY DEF Eligibility

(* The rows after the answers, one by one.                                  *)
LEMMA FinalRowsAreLow ==
    ASSUME CasesAssumption, case \in Cases, NEW initial, NEW answers, NEW found,
           \A i \in Rows \cap DOMAIN answers : answers[i] \in AnswersTo(case[i].req),
           NEW i \in Rows
    PROVE  LET row == FinalRows(initial, answers, found)[i]
           IN \/ row = initial.results[i]
              \/ /\ i \in DOMAIN answers
                 /\ "answer" \in row.cites /\ row.confidence \in 0..14
<1>1. CASE i \in DOMAIN answers
  <2>1. FinalRows(initial, answers, found)[i] = Reassessed(i, initial, answers[i], found)
    BY <1>1 DEF FinalRows
  <2>2. answers[i] \in AnswersTo(case[i].req)
    BY <1>1
  <2>3. QED
    BY <1>1, <2>1, <2>2, ReassessedIsLow
<1>2. CASE i \notin DOMAIN answers
  BY <1>2 DEF FinalRows
<1>3. QED
  BY <1>1, <1>2

(* What the answers fail was failed without them.                           *)
LEMMA AnswersFailNothing ==
    ASSUME CasesAssumption, case \in Cases, NEW first, NEW answers, NEW second,
           \A i \in Rows \cap DOMAIN answers : answers[i] \in AnswersTo(case[i].req),
           Outcome(FinalRows(Match(first), answers, second)).eligibility = "ineligible"
    PROVE  Match(first).eligibility = "ineligible"
<1> DEFINE rows == FinalRows(Match(first), answers, second)
           before == [i \in Rows |-> [req |-> case[i].req, res |-> Assessed(first)[i]]]
           after == [i \in Rows |-> [req |-> case[i].req, res |-> rows[i]]]
<1>1. policy.strict /\ Failed(after) # {}
  BY OutcomeOf, IneligibleMeansFailed
<1>2. PICK j : j \in Failed(after)
  BY <1>1
<1> HIDE DEF rows
<1>3. /\ j \in Rows /\ case[j].req.priority = "must_have"
      /\ rows[j].status = "not_met" /\ rows[j].confidence >= 16
  BY <1>2 DEF Failed
<1>4. Match(first).results[j] = Assessed(first)[j]
  <2>1. Outcome(Assessed(first)).results = [i \in Rows |-> Assessed(first)[i]]
    BY OutcomeOf
  <2>2. QED
    BY <1>3, <2>1 DEF Match
<1>5. rows[j] = Assessed(first)[j]
  <2>1. \/ rows[j] = Match(first).results[j]
        \/ /\ "answer" \in rows[j].cites /\ rows[j].confidence \in 0..14
    BY <1>3, FinalRowsAreLow DEF rows
  <2>2. ~ (rows[j].confidence \in 0..14)
    BY <1>3
  <2>3. QED
    BY <2>1, <2>2, <1>4
<1>6. j \in Failed(before)
  BY <1>3, <1>5 DEF Failed
<1>7. QED
  BY <1>1, <1>6, OutcomeOf, IneligibleMeansFailed DEF Match

-----------------------------------------------------------------------------
(* The cache.                                                               *)

(* Every call that is under way while the cache has a row began before the  *)
(* row was stored, or without reading the cache.                            *)
Aware == stored.fresh => \A c \in Callers : call[c].at # "none" => call[c].unaware

Shapes ==
    /\ DOMAIN stored = {"match", "fresh", "degraded"} /\ stored.fresh \in BOOLEAN
    /\ DOMAIN call = Callers
    /\ \A c \in Callers : DOMAIN call[c] = {"at", "match", "degraded", "unaware"}
    /\ DOMAIN page = DOMAIN NoPage
    /\ case \in Cases

MatchInv == Shapes /\ StoredIsWhole /\ Aware /\ AnswersNeverExclude /\ RescoreIsLocal

LEMMA MatchInit == Init => MatchInv
<1> SUFFICES ASSUME Init PROVE MatchInv
  OBVIOUS
<1>1. Shapes
  BY DEF Init, Shapes, NoRow, NoCall
<1>2. StoredIsWhole /\ Aware
  BY DEF Init, StoredIsWhole, Aware, NoRow
<1>3. AnswersNeverExclude /\ RescoreIsLocal
  BY DEF Init, AnswersNeverExclude, RescoreIsLocal, NoPage
<1>4. QED
  BY <1>1, <1>2, <1>3 DEF MatchInv

(* The cache and its callers in a step of a caller.                         *)
LEMMA CacheStepKeeps ==
    ASSUME Shapes, StoredIsWhole, Aware, NEW c \in Callers, CacheStep(c)
    PROVE  /\ UNCHANGED <<page, case, policy>>
           /\ Shapes' /\ StoredIsWhole' /\ Aware'
<1> USE DEF Shapes, StoredIsWhole, Aware, NoCall, Given
<1>1. CASE LookUp(c)
  BY <1>1 DEF LookUp, Usable
<1>2. CASE LookUpFails(c)
  <2>1. /\ call' = [call EXCEPT ![c] = [NoCall EXCEPT !.at = "looked", !.unaware = stored.fresh]]
        /\ UNCHANGED <<case, policy, stored, page>>
    BY <1>2 DEF LookUpFails
  <2>2. call'[c].unaware = stored.fresh
    BY <2>1
  <2>3. QED
    BY <2>1, <2>2
<1>3. ASSUME NEW found, NEW degraded, Compute(c, found, degraded)
      PROVE  /\ UNCHANGED <<page, case, policy>>
             /\ Shapes' /\ StoredIsWhole' /\ Aware'
  BY <1>3 DEF Compute
<1>4. CASE Store(c)
  <2>1. /\ call[c].at = "computed" /\ ~ call[c].degraded
        /\ stored' = [match |-> call[c].match, fresh |-> TRUE, degraded |-> call[c].degraded]
        /\ call' = [d \in Callers |-> IF d = c THEN NoCall
                                  ELSE [call[d] EXCEPT !.unaware = call[d].at # "none"]]
        /\ UNCHANGED <<case, policy, page>>
    BY <1>4 DEF Store, Storable
  <2>2. StoredIsWhole'
    BY <2>1
  <2>3. Shapes'
    BY <2>1
  <2>4. Aware'
    <3>1. SUFFICES ASSUME NEW d \in Callers, call'[d].at # "none" PROVE call'[d].unaware
      OBVIOUS
    <3>2. call'[d] = [call[d] EXCEPT !.unaware = call[d].at # "none"] /\ d # c
      BY <2>1, <3>1
    <3>3. QED
      BY <3>1, <3>2
  <2>5. QED
    BY <2>1, <2>2, <2>3, <2>4
<1>5. CASE ReturnUnstored(c)
  BY <1>5 DEF ReturnUnstored, Done
<1>6. QED
  BY <1>1, <1>2, <1>3, <1>4, <1>5 DEF CacheStep

LEMMA OnlyStoreStores ==
    ASSUME NEW c \in Callers, CacheStep(c), ~ Store(c)
    PROVE  stored' = stored
<1>1. CASE LookUp(c)
  BY Zenon, <1>1 DEF LookUp
<1>2. CASE LookUpFails(c)
  BY Zenon, <1>2 DEF LookUpFails
<1>3. ASSUME NEW found, NEW degraded, Compute(c, found, degraded)
      PROVE  stored' = stored
  BY Zenon, <1>3 DEF Compute
<1>4. CASE ReturnUnstored(c)
  BY Zenon, <1>4 DEF ReturnUnstored
<1>5. QED
  BY <1>1, <1>2, <1>3, <1>4 DEF CacheStep

LEMMA PageStepFrame ==
    ASSUME PageStep
    PROVE  UNCHANGED <<Given, stored, call>>
<1>1. ASSUME NEW found, Prepare(found) \/ Questions(found) \/ OneShot(found) \/ RescoreRefused(found)
      PROVE  UNCHANGED <<Given, stored, call>>
  BY Zenon, <1>1 DEF Prepare, Questions, OneShot, RescoreRefused
<1>2. CASE TokenExpires
  BY Zenon, <1>2 DEF TokenExpires
<1>3. ASSUME NEW first, NEW second, NEW rows, Rescore(first, second, rows)
      PROVE  UNCHANGED <<Given, stored, call>>
  BY Zenon, <1>3 DEF Rescore
<1>4. QED
  BY <1>1, <1>2, <1>3 DEF PageStep

(* Only an answer of a call that was unaware of the row replaces it.        *)
LEMMA RowStands ==
    ASSUME Shapes, Aware, Next, stored.fresh, stored'.match # stored.match
    PROVE  \E c \in Callers : call[c].unaware /\ call[c].match = stored'.match
<1>1. CASE \E c \in Callers : Store(c)
  <2>1. PICK c \in Callers : Store(c)
    BY <1>1
  <2>2. call[c].at = "computed" /\ stored'.match = call[c].match
    BY <2>1 DEF Store, Storable
  <2>3. QED
    BY <2>2 DEF Aware
<1>2. CASE ~ \E c \in Callers : Store(c)
  <2>1. ASSUME Expire
        PROVE  stored'.match = stored.match
    BY <2>1 DEF Expire, Shapes
  <2>2. ASSUME PageStep
        PROVE  stored' = stored
    BY <2>2, PageStepFrame
  <2>3. ASSUME NEW c \in Callers, CacheStep(c)
        PROVE  stored' = stored
    BY <1>2, <2>3, OnlyStoreStores
  <2>4. QED
    BY <2>1, <2>2, <2>3 DEF Next
<1>3. QED
  BY <1>1, <1>2

-----------------------------------------------------------------------------
(* The page.                                                                *)

LEMMA RescoreKeeps ==
    ASSUME CasesAssumption, Shapes, NEW first, NEW second, NEW rows \in SUBSET Rows,
           Rescore(first, second, rows)
    PROVE  /\ UNCHANGED <<Given, stored, call>>
           /\ DOMAIN page' = DOMAIN page
           /\ AnswersNeverExclude' /\ RescoreIsLocal'
<1>1. PICK answers :
        /\ DOMAIN answers = rows
        /\ \A i \in rows : answers[i] \in AnswersTo(case[i].req)
        /\ page' = [page EXCEPT !.at = "rescored", !.answered = rows, !.before = Match(first),
                        !.after = Outcome(FinalRows(Match(first), answers, second))]
        /\ UNCHANGED <<Given, stored, call>>
  BY Zenon DEF Rescore
<1> DEFINE final == FinalRows(Match(first), answers, second)
<1>2. /\ page'.at = "rescored" /\ page'.answered = rows
      /\ page'.before = Match(first) /\ page'.after = Outcome(final)
      /\ DOMAIN page' = DOMAIN page
  BY <1>1 DEF Shapes, NoPage
<1>3. case \in Cases /\ \A i \in Rows \cap DOMAIN answers : answers[i] \in AnswersTo(case[i].req)
  BY <1>1 DEF Shapes
<1>4. AnswersNeverExclude'
  <2>1. Outcome(final).eligibility = "ineligible" => Match(first).eligibility = "ineligible"
    BY <1>3, AnswersFailNothing
  <2>2. QED
    BY <1>2, <2>1 DEF AnswersNeverExclude
<1>5. RescoreIsLocal'
  <2>1. Outcome(final).results = [i \in Rows |-> final[i]]
    BY OutcomeOf
  <2>2. ASSUME NEW i \in Rows
        PROVE  \/ final[i] = Match(first).results[i]
               \/ i \in rows /\ "answer" \in final[i].cites
    BY <1>1, <1>3, FinalRowsAreLow
  <2> HIDE DEF final
  <2>3. Rows' = Rows
    BY <1>1 DEF Rows, Given
  <2>4. QED
    BY <1>2, <2>1, <2>2, <2>3 DEF RescoreIsLocal
<1>6. QED
  BY <1>1, <1>2, <1>4, <1>5

LEMMA PageStepKeeps ==
    ASSUME CasesAssumption, Shapes, AnswersNeverExclude, RescoreIsLocal, PageStep
    PROVE  /\ UNCHANGED <<stored, call, case>>
           /\ DOMAIN page' = DOMAIN page
           /\ AnswersNeverExclude' /\ RescoreIsLocal'
<1>1. ASSUME UNCHANGED <<Given, stored, call>>, DOMAIN page' = DOMAIN page,
             page'.at # "rescored"
      PROVE  /\ UNCHANGED <<stored, call, case>>
             /\ DOMAIN page' = DOMAIN page
             /\ AnswersNeverExclude' /\ RescoreIsLocal'
  BY <1>1 DEF AnswersNeverExclude, RescoreIsLocal, Given
<1>2. ASSUME NEW found, Prepare(found) \/ Questions(found) \/ OneShot(found) \/ RescoreRefused(found)
      PROVE  DOMAIN page' = DOMAIN page /\ page'.at # "rescored"
  <2>1. CASE Prepare(found)
    <3>1. PICK plans : page' = [NoPage EXCEPT !.at = "prepared", !.token = plans]
      BY Zenon, <2>1 DEF Prepare
    <3>2. QED
      BY <3>1 DEF NoPage, Shapes
  <2>2. CASE Questions(found)
    <3>1. PICK match, asked : page' = [NoPage EXCEPT !.at = "asked", !.match = match, !.asked = asked]
      BY Zenon, <2>2 DEF Questions
    <3>2. QED
      BY <3>1 DEF NoPage, Shapes
  <2>3. CASE OneShot(found)
    <3>1. PICK asked : page' = [NoPage EXCEPT !.at = "asked", !.match = Match(found), !.asked = asked]
      BY Zenon, <2>3 DEF OneShot
    <3>2. QED
      BY <3>1 DEF NoPage, Shapes
  <2>4. CASE RescoreRefused(found)
    BY <2>4 DEF RescoreRefused, NoPage, Shapes
  <2>5. QED
    BY <1>2, <2>1, <2>2, <2>3, <2>4
<1>3. CASE TokenExpires
  <2>1. /\ UNCHANGED <<Given, stored, call>>
        /\ DOMAIN page' = DOMAIN page /\ page'.at # "rescored"
    BY <1>3 DEF TokenExpires, Shapes, NoPage
  <2>2. QED
    BY <1>1, <2>1
<1>4. ASSUME NEW first, NEW second, NEW rows \in SUBSET Rows, Rescore(first, second, rows)
      PROVE  /\ UNCHANGED <<stored, call, case>>
             /\ DOMAIN page' = DOMAIN page
             /\ AnswersNeverExclude' /\ RescoreIsLocal'
  BY <1>4, RescoreKeeps DEF Given
<1>5. UNCHANGED <<Given, stored, call>>
  BY PageStepFrame
<1>6. QED
  BY <1>1, <1>2, <1>3, <1>4, <1>5 DEF PageStep

LEMMA MatchStep ==
    ASSUME CasesAssumption, MatchInv, [Next]_vars
    PROVE  MatchInv'
<1> USE DEF MatchInv
<1>1. ASSUME NEW c \in Callers, CacheStep(c)
      PROVE  MatchInv'
  <2>1. /\ UNCHANGED <<page, case, policy>>
        /\ Shapes' /\ StoredIsWhole' /\ Aware'
    BY <1>1, CacheStepKeeps
  <2>2. AnswersNeverExclude' /\ RescoreIsLocal'
    BY <2>1 DEF AnswersNeverExclude, RescoreIsLocal, Rows
  <2>3. QED
    BY <2>1, <2>2
<1>2. CASE Expire
  BY <1>2 DEF Expire, Given, Shapes, StoredIsWhole, Aware, AnswersNeverExclude,
              RescoreIsLocal, Rows
<1>3. CASE PageStep
  <2>1. /\ UNCHANGED <<stored, call, case>>
        /\ DOMAIN page' = DOMAIN page
        /\ AnswersNeverExclude' /\ RescoreIsLocal'
    BY <1>3, PageStepKeeps
  <2>2. QED
    BY <2>1 DEF Shapes, StoredIsWhole, Aware, NoPage
<1>4. CASE UNCHANGED vars
  BY <1>4 DEF vars, Shapes, StoredIsWhole, Aware, AnswersNeverExclude, RescoreIsLocal, Rows
<1>5. QED
  BY <1>1, <1>2, <1>3, <1>4 DEF Next

LEMMA MatchInvariant == Spec => []MatchInv
<1>1. Init => MatchInv
  BY MatchInit
<1>2. MatchInv /\ [Next]_vars => MatchInv'
  BY CasesAssumption, MatchStep
<1>3. QED
  BY <1>1, <1>2, PTL DEF Spec

(* Of any number of overlapping calls, none stores a match whose search for *)
(* evidence failed.                                                         *)
THEOREM CacheHoldsWholeMatches == Spec => []StoredIsWhole
<1>1. MatchInv => StoredIsWhole
  BY DEF MatchInv
<1>2. QED
  BY <1>1, MatchInvariant, PTL

(* While a stored match is fresh, only a call that could not have read it   *)
(* replaces it.                                                             *)
THEOREM FreshMatchStands == Spec => StoredMatchStands
<1>1. MatchInv /\ [Next]_vars =>
        [stored.fresh /\ stored'.match # stored.match =>
            \E c \in Callers : call[c].unaware /\ call[c].match = stored'.match]_vars
  BY RowStands DEF MatchInv
<1>2. QED
  BY <1>1, MatchInvariant, PTL DEF Spec, StoredMatchStands

(* However requirements are assessed and whatever each search finds, an     *)
(* answer never fails a must-have: it is too little sure.                   *)
THEOREM AnswersExcludeNobody == Spec => []AnswersNeverExclude
<1>1. MatchInv => AnswersNeverExclude
  BY DEF MatchInv
<1>2. QED
  BY <1>1, MatchInvariant, PTL

(* A new scoring changes the rows that an answer was given for and used in, *)
(* and no other row.                                                        *)
THEOREM AnswersStayLocal == Spec => []RescoreIsLocal
<1>1. MatchInv => RescoreIsLocal
  BY DEF MatchInv
<1>2. QED
  BY <1>1, MatchInvariant, PTL

=============================================================================

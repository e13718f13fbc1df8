------------------------------- MODULE Matching -------------------------------
(***************************************************************************)
(* Matching one CV with one job: the cache that the matching page and the  *)
(* planner of interviews share (match_cache.py), and the questions that    *)
(* clarify what a match left unknown (clarifications/service.py,           *)
(* rescore.py, answer_evidence.py).                                        *)
(*                                                                         *)
(* Every match searches the text of the CV again for what the parse missed *)
(* (targeted_reparse.py).  Aliases are always found; quotes are found by a *)
(* language model that may miss one, or fail.  So two matches of the same  *)
(* CV and job can differ.                                                  *)
(*                                                                         *)
(* The two halves share nothing but the CV and the job; half says which of *)
(* them a behaviour is about.                                              *)
(*                                                                         *)
(*   Callers    calls of cached_match that may overlap                     *)
(*   Cases      what may be matched: sequences of [req, cv], a requirement *)
(*              and what the CV says of it                                 *)
(*   Policies   matching policies                                          *)
(*   Semantics  what the comparison of the texts may give                  *)
(***************************************************************************)
EXTENDS Integers, Sequences, FiniteSets, MatchScore

CONSTANTS Callers, Cases, Policies, Semantics

ASSUME CasesAssumption ==
    \A c \in Cases : \A i \in DOMAIN c : IsRequirement(c[i].req) /\ IsCV(c[i].cv)

VARIABLES
    case,     \* the requirements and the CV
    policy,
    semantic,
    half,     \* "cache" or "page"
    stored,   \* the row of the cache for this CV, job and policy
    call,     \* what each caller is doing
    page      \* the clarifications of one candidate

vars == <<case, policy, semantic, half, stored, call, page>>

Rows == DOMAIN case

-----------------------------------------------------------------------------
(* One pass of matching.                                                    *)

HasEvidence(c) ==
    IF c.req.kind = "unresolved" THEN Assess(c.req, c.cv).cites # {}
    ELSE \E i \in DOMAIN c.cv.claims : c.cv.claims[i].cited

Whole == \A i \in Rows : case[i].cv.complete /\ HasEvidence(case[i])

(* Rows whose passage only the model can find.                              *)
Searched == IF Whole THEN {} ELSE {i \in Rows : ~ case[i].cv.alias}

Quotable == {i \in Searched : case[i].cv.quote # "none"}

Span(says) == <<[from |-> "recovered", says |-> says, about |-> 1]>>

(* The CV on row i, when the model found quotes for the rows of found.      *)
Recovered(i, found) ==
    LET cv == case[i].cv
        span == IF Whole THEN <<>>
                ELSE IF cv.alias THEN Span("weak")
                ELSE IF i \in found THEN Span(cv.quote) ELSE <<>>
    IN [cv EXCEPT !.passages = cv.passages \o span]

Outcome(results) ==
    Verdict(policy, [i \in Rows |-> [req |-> case[i].req, res |-> results[i]]], semantic)

Assessed(found) == [i \in Rows |-> Assess(case[i].req, Recovered(i, found))]

Match(found) == Outcome(Assessed(found))

UnknownIn(match) == {i \in DOMAIN match.results : match.results[i].status = "unknown"}

NoMatch == [results |-> <<>>, eligibility |-> "none", fitBand |-> "none"]

-----------------------------------------------------------------------------

NoRow == [match |-> NoMatch, fresh |-> FALSE, degraded |-> FALSE]

(* unaware: a match was stored that this call has not read.                 *)
NoCall == [at |-> "none", match |-> NoMatch, degraded |-> FALSE, unaware |-> FALSE]

NoPage == [at |-> "none", token |-> {}, match |-> NoMatch, asked |-> {},
           answered |-> {}, before |-> NoMatch, after |-> NoMatch]

Init ==
    /\ case \in Cases
    /\ policy \in Policies
    /\ semantic \in Semantics
    /\ half \in {"cache", "page"}
    /\ stored = NoRow
    /\ call = [c \in Callers |-> NoCall]
    /\ page = NoPage

Given == <<case, policy, semantic, half>>

-----------------------------------------------------------------------------
(* cached_match                                                             *)

(* Variant: any row of the cache is served, however old, and no other.      *)
UsableStale(row) == row.match # NoMatch /\ ~ row.fresh

Usable(row) == row.fresh

LookUp(c) ==
    /\ half = "cache" /\ call[c].at = "none"
    /\ ~ Usable(stored)
    /\ call' = [call EXCEPT ![c] = [NoCall EXCEPT !.at = "looked"]]
    /\ UNCHANGED <<Given, stored, page>>

(* The cache only adds stability: without it the match is computed.         *)
LookUpFails(c) ==
    /\ half = "cache" /\ call[c].at = "none"
    /\ call' = [call EXCEPT ![c] = [NoCall EXCEPT !.at = "looked", !.unaware = stored.fresh]]
    /\ UNCHANGED <<Given, stored, page>>

Compute(c, found, degraded) ==
    /\ call[c].at = "looked"
    /\ call' = [call EXCEPT ![c].at = "computed", ![c].match = Match(found),
                            ![c].degraded = degraded]
    /\ UNCHANGED <<Given, stored, page>>

(* Variant: a match is stored even if the search has failed.                *)
StorableAnyway(c) == call[c].at = "computed"

Storable(c) == call[c].at = "computed" /\ ~ call[c].degraded

Done(c) == [call EXCEPT ![c] = NoCall]

Store(c) ==
    /\ Storable(c)
    /\ stored' = [match |-> call[c].match, fresh |-> TRUE, degraded |-> call[c].degraded]
    /\ call' = [d \in Callers |-> IF d = c THEN NoCall
                                  ELSE [call[d] EXCEPT !.unaware = call[d].at # "none"]]
    /\ UNCHANGED <<Given, page>>

(* Degraded, or the write failed: the caller has its match all the same.    *)
ReturnUnstored(c) ==
    /\ call[c].at = "computed"
    /\ call' = Done(c)
    /\ UNCHANGED <<Given, stored, page>>

(* Thirty days, or another version of the pipeline.                         *)
Expire ==
    /\ stored.fresh
    /\ stored' = [stored EXCEPT !.fresh = FALSE]
    /\ UNCHANGED <<Given, call, page>>

-----------------------------------------------------------------------------
(* Which unknown rows the candidate is asked about.                         *)

Askable(match, rows) == rows \cap UnknownIn(match)

(* The gate approves some of the unknown rows; a token remembers which.     *)
Prepare(found) ==
    /\ half = "page" /\ page.at = "none"
    /\ \E plans \in (SUBSET UnknownIn(Match(found))) \ {{}} :
          page' = [NoPage EXCEPT !.at = "prepared", !.token = plans]
    /\ UNCHANGED <<Given, stored, call>>

TokenExpires ==
    /\ page.at = "prepared"
    /\ page' = [page EXCEPT !.at = "expired"]
    /\ UNCHANGED <<Given, stored, call>>

(* The questions that could be written for the askable rows.                *)
Questions(found) ==
    /\ page.at \in {"prepared", "expired"}
    /\ \E rows \in (SUBSET Rows) \ {{}} :
          LET match == Match(found)
              plans == IF page.at = "prepared" /\ rows \subseteq page.token
                       THEN Askable(match, rows) ELSE {}
          IN \E asked \in SUBSET plans :
                page' = [NoPage EXCEPT !.at = "asked", !.match = match, !.asked = asked]
    /\ UNCHANGED <<Given, stored, call>>

(* Gate and questions in one request.                                       *)
OneShot(found) ==
    /\ half = "page" /\ page.at = "none"
    /\ \E asked \in SUBSET UnknownIn(Match(found)) :
          page' = [NoPage EXCEPT !.at = "asked", !.match = Match(found), !.asked = asked]
    /\ UNCHANGED <<Given, stored, call>>

-----------------------------------------------------------------------------
(* An answer denies or confirms, states a level (0: none) or a duration     *)
(* (-1: none), and says something as a passage.  These are the answers that *)
(* tell something a requirement of this kind looks at.                      *)
AnswersTo(req) ==
    CASE req.kind = "skill" -> [tone: {"negative", "positive", "vague"},
            level: IF req.op = "proficiency_gte" THEN {0, 1, 3} ELSE {0},
            months: IF req.op = "gte" THEN {-1, 1, 3} ELSE {-1}, says: {"none", "weak"}]
      [] req.kind = "language" -> [tone: {"negative", "positive", "vague"},
            level: {0, 1, 3}, months: {-1}, says: {"none"}]
      [] req.kind = "unresolved" -> [tone: {"vague"}, level: {0}, months: {-1},
            says: {"above", "below", "weak", "none"}]

Denies(req, answer) == answer.tone = "negative" /\ req.kind # "unresolved"

(* A denied duration is a claim of no months, not a denial.                 *)
Denial(req, answer) == Denies(req, answer) /\ ~ (req.kind = "skill" /\ req.op = "gte")

ClaimMonths(answer) ==
    IF answer.tone = "negative" /\ answer.months = -1 THEN 0 ELSE answer.months

Claims(req, answer) ==
    CASE req.kind = "skill" /\ req.op = "gte"             -> ClaimMonths(answer) # -1
      [] req.kind = "skill" /\ req.op = "proficiency_gte" -> answer.level # 0
      [] req.kind = "skill" /\ req.op = "required"        -> answer.tone # "vague"
      [] req.kind = "language" /\ req.op = "equal"        -> answer.level # 0
      [] req.kind = "language" /\ req.op = "required"     -> answer.tone = "positive"
      [] req.kind = "unresolved"                          -> FALSE

ClaimOf(answer) ==
    [from |-> "answer", cited |-> TRUE, level |-> answer.level,
     months |-> ClaimMonths(answer), confidence |-> 14]

WithAnswer(req, cv, answer) ==
    [cv EXCEPT
        !.claims = IF Claims(req, answer) THEN Append(@, ClaimOf(answer)) ELSE @,
        !.passages = IF answer.says = "none" THEN @
                     ELSE Append(@, [from |-> "answer", says |-> answer.says, about |-> 1])]

(* Variant: an answer is believed as much as the CV.                        *)
CappedNever(r) == r

Capped(r) == [r EXCEPT !.confidence = Min({@, 14})]

(* The row after the answer, or as it was when the answer was not used.     *)
Reassessed(i, initial, answer, found) ==
    LET req == case[i].req
        r == IF Denial(req, answer) THEN Res("not_met", 14, {"answer"})
             ELSE Assess(req, WithAnswer(req, Recovered(i, found), answer))
    IN IF "answer" \in r.cites THEN Capped(r) ELSE initial.results[i]

(* Variant: the rows that were not asked about are assessed again.          *)
FinalRowsAnew(initial, answers, found) ==
    [i \in Rows |-> IF i \in DOMAIN answers THEN Reassessed(i, initial, answers[i], found)
                    ELSE Assessed(found)[i]]

FinalRows(initial, answers, found) ==
    [i \in Rows |-> IF i \in DOMAIN answers THEN Reassessed(i, initial, answers[i], found)
                    ELSE initial.results[i]]

(* Three passes, each with a search of its own.  The first must still leave *)
(* unknown what was asked, or the answers are refused.                      *)
Rescore(first, second, rows) ==
    /\ page.at = "asked" /\ rows # {} /\ rows \subseteq page.asked
    /\ LET initial == Match(first)
       IN /\ page.asked \subseteq UnknownIn(initial)
          /\ \E answers \in {a \in [rows -> UNION {AnswersTo(case[i].req) : i \in rows}] :
                               \A i \in rows : a[i] \in AnswersTo(case[i].req)} :
                page' = [page EXCEPT !.at = "rescored", !.answered = rows, !.before = initial,
                            !.after = Outcome(FinalRows(initial, answers, second))]
    /\ UNCHANGED <<Given, stored, call>>

RescoreRefused(first) ==
    /\ page.at = "asked"
    /\ ~ (page.asked \subseteq UnknownIn(Match(first)))
    /\ page' = NoPage
    /\ UNCHANGED <<Given, stored, call>>

-----------------------------------------------------------------------------

CacheStep(c) ==
    \/ LookUp(c) \/ LookUpFails(c)
    \/ \E found \in SUBSET Quotable : Compute(c, found, FALSE)
    \/ Searched # {} /\ Compute(c, {}, TRUE)
    \/ Store(c) \/ ReturnUnstored(c)

PageStep ==
    \/ \E found \in SUBSET Quotable :
          Prepare(found) \/ Questions(found) \/ OneShot(found) \/ RescoreRefused(found)
    \/ TokenExpires
    \/ \E first, second \in SUBSET Quotable, rows \in SUBSET Rows : Rescore(first, second, rows)

Next == (\E c \in Callers : CacheStep(c)) \/ Expire \/ PageStep

Spec == Init /\ [][Next]_vars

-----------------------------------------------------------------------------

(* "A flaky provider would otherwise pin a worse match": what the cache     *)
(* serves comes of a search that did not fail.                              *)
StoredIsWhole == stored.fresh => ~ stored.degraded

(* "The same CV and JD always get the same match": a stored match gives way *)
(* to another only through a call that began before it was stored, or that  *)
(* could not read the cache.  (Those do replace it: the last one counts.)   *)
StoredMatchStands ==
    [][stored.fresh /\ stored'.match # stored.match =>
           \E c \in Callers : call[c].unaware /\ call[c].match = stored'.match]_vars

(* What a candidate says of themselves is not verified and never excludes   *)
(* them.                                                                    *)
AnswersNeverExclude ==
    page.at = "rescored" /\ page.after.eligibility = "ineligible" =>
        page.before.eligibility = "ineligible"

(* "Candidate answers cannot leak into ... other requirements", although    *)
(* each pass searches the CV anew; and an answer that the assessment did    *)
(* not use changes nothing.                                                 *)
RescoreIsLocal ==
    page.at = "rescored" =>
        \A i \in Rows :
            page.after.results[i] = page.before.results[i] \/
            (i \in page.answered /\ "answer" \in page.after.results[i].cites)

=============================================================================

------------------------------- MODULE GradingJob -------------------------------
(***************************************************************************)
(* The grading of one closed session: its job row with a lease, the        *)
(* graders that claim it, the cache of the grader's verdicts and the       *)
(* report that is stored.                                                  *)
(*                                                                         *)
(*   evaluation_service.py    what is graded, the claim, the report        *)
(*   evaluation_engine.py     the turns, the score and the decision        *)
(*   grading_cache.py         the verdicts, stored by content              *)
(*   admin_actions.py         the administrator's request                  *)
(*                                                                         *)
(*   Candidates   requests of the candidate, who opens the report page     *)
(*   Admins       background tasks an administrator started                *)
(*   Sessions     the closed sessions the instance starts from             *)
(*   Ballots      what the grader's votes on one checklist can be          *)
(*   Opinions     what it can say of a question without expected points    *)
(*   MaxFaults    bound: grader failures, crashes and overrun leases       *)
(*   MaxClaims    bound: attempt_count                                     *)
(*                                                                         *)
(* A turn is [stage, status, label, weight, voice, kinds, checklist]: its  *)
(* status when the session closed, its competency, the planner's weight in *)
(* halves, the kinds of its messages (classify_message) and whether its    *)
(* question has expected points.  A session is its turns and the labels    *)
(* the question selector dropped.                                          *)
(***************************************************************************)
EXTENDS Rubric, Functions

CONSTANTS Candidates, Admins, Sessions, Ballots, Opinions, MaxFaults, MaxClaims

CONSTANTS NoLabel, None

ASSUME BallotsAssumption ==
    \A ballot \in Ballots :
        /\ DOMAIN ballot \subseteq 1..ChecklistVotes
        /\ \A k \in DOMAIN ballot : ballot[k].labels \in Votes

ASSUME OpinionsAssumption == \A opinion \in Opinions : opinion.score \in Int

ASSUME SessionsAssumption ==
    \A s \in Sessions :
        /\ DOMAIN s.turns = 1..Len(s.turns) /\ Len(s.turns) \in Nat
        /\ \A i \in DOMAIN s.turns : s.turns[i].weight \in Nat

VARIABLES
    session,   \* what is graded; it does not change
    job,       \* interview_evaluation_jobs: status, whether the lease is over, attempts
    cache,     \* grading_verdict_cache: the verdict on each turn's answer
    report,    \* interview_evaluations; the score and the decision follow from the turns
    pc,        \* what each grader is doing
    results,   \* the turns it has graded
    seen,      \* the report it found when it came to store its own
    faults,    \* how much went wrong so far
    overran    \* a lease ran out while its grader was working

vars == <<session, job, cache, report, pc, results, seen, faults, overran>>

Graders == Candidates \cup Admins

-----------------------------------------------------------------------------
(* What is graded: step 4 of _evaluate_closed_session.                      *)

Turns == DOMAIN session.turns

NeverPut(turn) ==
    \/ turn.status \in {"PLANNED", "SKIPPED"}
    \/ turn.status = "ASKED" /\ turn.kinds = {} /\ turn.stage # "CLOSING"

Uncovered ==
    (session.dropped \cup {session.turns[i].label : i \in {j \in Turns : NeverPut(session.turns[j])}})
        \ {NoLabel}

Inputs ==
    {i \in Turns : ~ NeverPut(session.turns[i]) /\ session.turns[i].stage # "CLOSING"}

Weight(i) ==
    CASE session.turns[i].stage = "WARM_UP" -> 0
      [] session.turns[i].stage \in {"VALIDATE", "BEHAVIORAL"} -> 1
      [] OTHER -> session.turns[i].weight

Competency(i) ==
    IF session.turns[i].label # NoLabel THEN session.turns[i].label
    ELSE IF session.turns[i].stage = "WARM_UP" THEN "warm-up" ELSE "technical"

(* turn_outcome.                                                            *)
Outcome(i) ==
    IF "ANSWER" \in session.turns[i].kinds THEN "ANSWERED"
    ELSE IF "NON_ANSWER" \in session.turns[i].kinds \/ ~ session.turns[i].voice THEN "SKIPPED"
    ELSE "NOT_GRADABLE"

Assessable == \E i \in Inputs : Weight(i) > 0 /\ Outcome(i) # "NOT_GRADABLE"

-----------------------------------------------------------------------------
(* The result of one turn: _grade_checklist and _grade_holistic.            *)

Result(outcome, score) == [outcome |-> outcome, score |-> score]

(* The turn could not be graded: evaluate_turn after its second attempt.    *)
Ungraded == Result("UNGRADED", 0)

(* Its grader has not answered yet.                                         *)
Asking == Result("ASKING", 0)

Skipped == Result("SKIPPED", 0)

NotGradable == Result("NOT_GRADABLE", 0)

(* The votes that can be used, each under its number.                       *)
Counted(ballot) == Restrict(ballot, {k \in DOMAIN ballot : Usable(ballot[k].labels)})

(* A majority of the votes has to be usable.                                *)
SoundBallots ==
    {b \in {Counted(ballot) : ballot \in Ballots} : 2 * Cardinality(DOMAIN b) > ChecklistVotes}

Verdict == [b \in SoundBallots |-> Judge([k \in DOMAIN b |-> b[k].labels])]

(* The most frequent answer status; of two as frequent either one.          *)
Modes(ballot) ==
    LET Count(s) == Cardinality({k \in DOMAIN ballot : ballot[k].answer = s})
        Said == {ballot[k].answer : k \in DOMAIN ballot}
    IN  {s \in Said : \A t \in Said : Count(s) >= Count(t)}

ChecklistResult(i, ballot, answer) ==
    LET evidence == \E p \in DOMAIN Points : Verdict[ballot][p].status # "MISSING"
    IN  IF answer = "UNINTELLIGIBLE" /\ session.turns[i].voice /\ ~ evidence THEN NotGradable
        ELSE IF answer = "NO_ATTEMPT" /\ ~ evidence THEN Skipped
        ELSE Result("ANSWERED", ChecklistScore(Verdict[ballot]))

HolisticResult(i, opinion) ==
    IF opinion.answer = "UNINTELLIGIBLE" /\ session.turns[i].voice THEN NotGradable
    ELSE IF opinion.answer = "NO_ATTEMPT" THEN Skipped
    ELSE Result("ANSWERED", Clip(opinion.score))

(* The results a verdict on turn i can lead to.                             *)
Results(i, verdict) ==
    IF session.turns[i].checklist
    THEN {ChecklistResult(i, verdict, answer) : answer \in Modes(verdict)}
    ELSE {HolisticResult(i, verdict)}

(* The verdicts that can be stored.                                         *)
FreshVerdicts(i) == IF session.turns[i].checklist THEN SoundBallots ELSE Opinions

ASSUME NoneAssumption ==
    None # Asking /\ None \notin SoundBallots /\ None \notin Opinions

-----------------------------------------------------------------------------
(* The whole session: aggregate_session_evaluation, in hundredths.          *)

(* Variant: a turn that was skipped is left out, like one never put.        *)
ScoredAnswers(graded) == {i \in DOMAIN graded : graded[i].outcome = "ANSWERED"}

(* NOT_GRADABLE turns are reported but never averaged in.                   *)
Scored(graded) ==
    {i \in DOMAIN graded : graded[i].outcome \in {"ANSWERED", "SKIPPED"}}

Competencies(S) == {Competency(i) : i \in S}

Of(S, c) == {i \in S : Competency(i) = c}

CompetencyScore(graded, S, c) ==
    RoundDiv(10 * Total([i \in Of(S, c) |-> graded[i].score]), Cardinality(Of(S, c)))

(* A competency weighs what its first turn weighs.                          *)
CompetencyWeight(S, c) == Weight(Min(Of(S, c)))

OverallScore(graded, S) ==
    LET weighed == {c \in Competencies(S) : CompetencyWeight(S, c) > 0}
        total   == Total([c \in weighed |-> CompetencyWeight(S, c)])
    IN  IF total > 0
        THEN RoundDiv(Total([c \in weighed |-> CompetencyScore(graded, S, c) * CompetencyWeight(S, c)]),
                      total)
        ELSE RoundDiv(10 * Total([i \in S |-> graded[i].score]), Cardinality(S))

Recommendation(score) ==
    IF score >= 850 THEN "STRONG_PASS"
    ELSE IF score >= 700 THEN "PASS"
    ELSE IF score >= 500 THEN "CONSIDER"
    ELSE "REJECT"

Hires == {"STRONG_PASS", "PASS"}

(* Turns that were put but could not be graded are uncovered as well.       *)
UncoveredIn(graded) ==
    Uncovered \cup {Competency(i) : i \in {j \in DOMAIN graded : graded[j].outcome = "NOT_GRADABLE"}}

(* Less than 60% covered.  A turn that was left ungraded, which only a turn *)
(* without weight may be, still counts as scored.                           *)
Thin(graded) ==
    LET scored == Cardinality({i \in DOMAIN graded : graded[i].outcome # "NOT_GRADABLE"})
        missed == Cardinality(UncoveredIn(graded))
    IN  10 * scored < 6 * (scored + missed)

Decision(graded) ==
    LET decision == Recommendation(OverallScore(graded, Scored(graded)))
    IN  IF decision \in Hires /\ Thin(graded) THEN "CONSIDER" ELSE decision

-----------------------------------------------------------------------------

Working == {g \in Graders : pc[g] \in {"grading", "storing"}}

Nothing == [i \in Inputs |-> None]

NoReport == [id |-> 0, graded |-> <<>>]

Init ==
    /\ session \in Sessions
    /\ job = [status |-> "NONE", live |-> FALSE, attempts |-> 0]
    /\ cache = [i \in Turns |-> None]
    /\ report = NoReport
    /\ pc = [g \in Graders |-> "idle"]
    /\ results = [g \in Graders |-> Nothing]
    /\ seen = [g \in Graders |-> 0]
    /\ faults = 0
    /\ overran = FALSE

Goto(g, place) == pc' = [pc EXCEPT ![g] = place]

Leave(g) ==
    /\ Goto(g, "idle")
    /\ results' = [results EXCEPT ![g] = Nothing]
    /\ seen' = [seen EXCEPT ![g] = 0]

Fault == faults < MaxFaults /\ faults' = faults + 1

SetJob(status) == job' = [job EXCEPT !.status = status, !.live = FALSE]

-----------------------------------------------------------------------------

(* The report page: score() hands out the report there is.                  *)
CandidateAsks(g) ==
    /\ g \in Candidates
    /\ pc[g] = "idle"
    /\ report = NoReport
    /\ job.attempts < MaxClaims
    /\ Goto(g, "asked")
    /\ UNCHANGED <<session, job, cache, report, results, seen, faults, overran>>

(* start_grading, when grading_state allows it.                             *)
AdminAsks(g) ==
    /\ g \in Admins
    /\ \A a \in Admins : pc[a] = "idle"
    /\ report = NoReport
    /\ \E i \in Turns : session.turns[i].status = "ANSWERED"
                        /\ session.turns[i].stage \notin {"WARM_UP", "CLOSING"}
    /\ ~ (job.status = "PROCESSING" /\ job.live)
    /\ job.attempts < MaxClaims
    /\ Goto(g, "asked")
    /\ UNCHANGED <<session, job, cache, report, results, seen, faults, overran>>

(* _evaluate_closed_session reads the session, unless it has its report.    *)
Read(g) ==
    /\ pc[g] = "asked"
    /\ Goto(g, IF report = NoReport /\ Assessable THEN "read" ELSE "idle")
    /\ UNCHANGED <<session, job, cache, report, results, seen, faults, overran>>

(* Variants: the lease is not looked at; it never runs out.                 *)
ClaimableUntilDone == job.status # "DONE"

ClaimableOnceFailed == job.status \in {"NONE", "FAILED", "DONE"}

(* DONE and FAILED rows have a lease that is over.                          *)
Claimable == job.status \in {"NONE", "FAILED"} \/ ~ job.live

Claim(g) ==
    /\ pc[g] = "read"
    /\ Claimable
    /\ job.attempts < MaxClaims
    /\ job' = [status |-> "PROCESSING", live |-> TRUE, attempts |-> job.attempts + 1]
    /\ Goto(g, "grading")
    /\ UNCHANGED <<session, cache, report, results, seen, faults, overran>>

(* Another grader holds the lease: the report there is, or try again later. *)
ClaimRefused(g) ==
    /\ pc[g] = "read"
    /\ ~ Claimable
    /\ Leave(g)
    /\ UNCHANGED <<session, job, cache, report, faults, overran>>

(* A turn without an answer needs no grader, nor does one in the cache.     *)
StartTurn(g, i) ==
    /\ pc[g] = "grading"
    /\ results[g][i] = None
    /\ \E r \in IF Outcome(i) = "SKIPPED" THEN {Skipped}
                ELSE IF Outcome(i) = "NOT_GRADABLE" THEN {NotGradable}
                ELSE IF cache[i] # None THEN Results(i, cache[i])
                ELSE {Asking} :
            results' = [results EXCEPT ![g][i] = r]
    /\ UNCHANGED <<session, job, cache, report, pc, seen, faults, overran>>

(* ON CONFLICT DO NOTHING: the first verdict stays, the grader uses its own.*)
GraderAnswers(g, i) ==
    /\ pc[g] = "grading"
    /\ results[g][i] = Asking
    /\ \E verdict \in FreshVerdicts(i) :
        /\ cache' = [cache EXCEPT ![i] = IF @ = None THEN verdict ELSE @]
        /\ \E r \in Results(i, verdict) : results' = [results EXCEPT ![g][i] = r]
    /\ UNCHANGED <<session, job, report, pc, seen, faults, overran>>

(* Variant: a turn that counts is left out of the report as well.           *)
GraderFailsQuietly(g, i) ==
    /\ pc[g] = "grading"
    /\ results[g][i] = Asking
    /\ Fault
    /\ results' = [results EXCEPT ![g][i] = Ungraded]
    /\ UNCHANGED <<session, job, cache, report, pc, seen, overran>>

(* Two attempts failed, or the votes were not usable.  A turn that weighs   *)
(* nothing is left out of the report; any other ends the grading.           *)
GraderFails(g, i) ==
    /\ pc[g] = "grading"
    /\ results[g][i] = Asking
    /\ Fault
    /\ IF Weight(i) = 0
       THEN /\ results' = [results EXCEPT ![g][i] = Ungraded]
            /\ UNCHANGED <<job, pc, seen>>
       ELSE SetJob("FAILED") /\ Leave(g)
    /\ UNCHANGED <<session, cache, report, overran>>

AllGraded(g) == \A i \in Inputs : results[g][i] \notin {None, Asking}

(* SELECT id FROM interview_evaluations, to replace what is there.          *)
Conclude(g) ==
    /\ pc[g] = "grading"
    /\ AllGraded(g)
    /\ \E i \in Scored(results[g]) : Weight(i) > 0
    /\ Goto(g, "storing")
    /\ seen' = [seen EXCEPT ![g] = report.id]
    /\ UNCHANGED <<session, job, cache, report, results, faults, overran>>

(* NoGradableTurnsError.                                                    *)
NothingToReport(g) ==
    /\ pc[g] = "grading"
    /\ AllGraded(g)
    /\ \A i \in Scored(results[g]) : Weight(i) = 0
    /\ SetJob("FAILED")
    /\ Leave(g)
    /\ UNCHANGED <<session, cache, report, faults, overran>>

(* Delete the report that was found, insert the new one, mark the job.      *)
Store(g) ==
    /\ pc[g] = "storing"
    /\ seen[g] = report.id
    /\ report' = [id |-> report.id + 1, graded |-> results[g]]
    /\ SetJob("DONE")
    /\ Leave(g)
    /\ UNCHANGED <<session, cache, faults, overran>>

(* Another report is there: the insert violates the unique session_id.      *)
StoreRaises(g) ==
    /\ pc[g] = "storing"
    /\ seen[g] # report.id
    /\ Leave(g)
    /\ UNCHANGED <<session, job, cache, report, faults, overran>>

(* The process of the grader ends; nothing tells the job.                   *)
Crash(g) ==
    /\ g \in Working
    /\ Fault
    /\ Leave(g)
    /\ UNCHANGED <<session, job, cache, report, overran>>

(* Ten minutes after the claim.  That a grader is still at work is a fault. *)
LeaseExpires ==
    /\ job.live
    /\ job' = [job EXCEPT !.live = FALSE]
    /\ IF Working = {} THEN UNCHANGED <<faults, overran>> ELSE Fault /\ overran' = TRUE
    /\ UNCHANGED <<session, cache, report, pc, results, seen>>

Step(g) ==
    \/ Read(g) \/ Claim(g) \/ ClaimRefused(g)
    \/ \E i \in Inputs : StartTurn(g, i) \/ GraderAnswers(g, i)
    \/ Conclude(g) \/ NothingToReport(g) \/ Store(g) \/ StoreRaises(g)

Next ==
    \/ \E g \in Graders :
        \/ CandidateAsks(g)
        \/ AdminAsks(g)
        \/ Step(g)
        \/ \E i \in Inputs : GraderFails(g, i)
        \/ Crash(g)
    \/ LeaseExpires

Spec == Init /\ [][Next]_vars

(* Graders get on, a lease runs out, and the candidate keeps opening the    *)
(* report page, which is the only thing that asks for a report again.       *)
Fairness ==
    /\ \A g \in Graders : WF_vars(Step(g))
    /\ \A g \in Candidates : WF_vars(CandidateAsks(g))
    /\ WF_vars(LeaseExpires)

LiveSpec == Spec /\ Fairness

-----------------------------------------------------------------------------

(* While no grader outlasts its lease, one at a time grades the session:    *)
(* the claim is the only lock, and failing graders release it for others.   *)
OneGrader == ~ overran => Cardinality(Working) <= 1

(* A finished job has a report.  No report is built on a turn that counts   *)
(* and could not be graded, nor on turns that do not count alone; and       *)
(* unless two graders overlapped it says what the cache says, so that the   *)
(* same answer to the same question gets the same verdict.                  *)
ReportIsSound ==
    /\ job.status = "DONE" => report # NoReport
    /\ report # NoReport =>
          /\ \A i \in Inputs : Weight(i) > 0 => report.graded[i].outcome # "UNGRADED"
          /\ \E i \in Scored(report.graded) : Weight(i) > 0
          /\ ~ overran =>
                \A i \in Inputs :
                    Outcome(i) = "ANSWERED" /\ report.graded[i].outcome # "UNGRADED" =>
                        report.graded[i] \in Results(i, cache[i])

Grade == [REJECT |-> 0, CONSIDER |-> 1, PASS |-> 2, STRONG_PASS |-> 3]

(* Skipping a question never leads to a better recommendation than an       *)
(* answer would have, the worst one included.                               *)
AnsweringNeverHurts ==
    report # NoReport =>
        \A i \in Inputs, score \in {0, 50, 100} :
            report.graded[i].outcome = "SKIPPED" =>
                Grade[Decision(report.graded)]
                    <= Grade[Decision([report.graded EXCEPT ![i] = Result("ANSWERED", score)])]

Judged == {i \in Turns : session.turns[i].checklist /\ cache[i] # None}

(* Every label that is not MISSING stands on a quote from the answer, and a *)
(* label that most votes agree on, once checked, is the label of the point, *)
(* after the votes were combined point by point.                            *)
VerdictIsEarned ==
    \A i \in Judged, p \in DOMAIN Points :
        LET verdict == Verdict[cache[i]][p]
            checked == [k \in DOMAIN cache[i] |-> Validate(cache[i][k].labels)]
        IN  /\ verdict.status # "MISSING" => verdict.quote \in Verbatim
            /\ \A status \in Statuses :
                  2 * Cardinality({k \in DOMAIN checked : checked[k][p].status = status})
                      > Cardinality(DOMAIN checked) => verdict.status = status

(* A session with a text answer that counts gets its report in the end,     *)
(* whatever failed, as long as its candidate keeps asking.                  *)
Readable == \E i \in Inputs : Weight(i) > 0 /\ ~ session.turns[i].voice

ReportComes == Readable ~> report # NoReport
=============================================================================

----------------------------- MODULE MCPlanFreeze -----------------------------
(***************************************************************************)
(* Instances of PlanFreeze for TLC.  The Many... instance builds agendas   *)
(* from many matches; the other freezes the questions of two sessions      *)
(* whose skills share a broader one.                                       *)
(***************************************************************************)
EXTENDS PlanFreeze

Policy(stop, downgrade, handsOn, reserves) ==
    [on |-> TRUE, reserves |-> reserves, probe |-> 15, textMin |-> 180, textMax |-> 240,
     codeMin |-> 360, codeMax |-> 480, downgrade |-> downgrade, stop |-> stop, handsOn |-> handsOn]

NoPolicy == [Policy(FALSE, FALSE, "unset", 0) EXCEPT !.on = FALSE]

Req(skills, priority) == [skills |-> skills, priority |-> priority]

Open == [lowFit |-> 40, challenge |-> 70, blockNotEligible |-> FALSE, requireScore |-> FALSE,
         minimum |-> 0]

AMatch(status, percent) ==
    [status |-> status, eligibility |-> "eligible", assessed |-> TRUE, band |-> "partial_fit",
     suitability |-> percent, diagnostic |-> percent]

Package(minutes, voice, focus, reask) ==
    [minutes |-> minutes, voice |-> voice, focus |-> focus, reask |-> reask]

-----------------------------------------------------------------------------
(* Agendas.  Skills 1..8: two languages, two data stores, infrastructure, two *)
(* without a round and a tool; 9 is a specialisation.  A match rates each     *)
(* requirement as a whole.                                                    *)

ManyArea == <<"language", "language", "data", "data", "infra", "other", "other", "other", "other">>

SkillsJob(handsOn) ==
    [reqs    |-> <<Req({1, 3}, "must_have"), Req({2}, "must_have"), Req({4, 5, 6}, "nice_to_have"),
                   Req({3, 7}, "nice_to_have"), Req({8}, "must_have")>>,
     careers |-> <<9>>, handsOn |-> handsOn, level |-> 2]

NarrowJob == [reqs |-> <<Req({1}, "must_have"), Req({8}, "must_have"), Req({2}, "context")>>,
              careers |-> <<>>, handsOn |-> "unset", level |-> 1]

CareerJob == [reqs |-> <<>>, careers |-> <<9, 7>>, handsOn |-> "unset", level |-> 3]

ManyJobs == {SkillsJob("unset"), SkillsJob("yes"), NarrowJob, CareerJob}

RatedAs(j, rate) == [r \in DOMAIN j.reqs |-> [c \in j.reqs[r].skills |-> rate[r]]]

ManyMatches ==
    [j \in ManyJobs |->
        {AMatch(RatedAs(j, rate), 80) :
            rate \in [DOMAIN j.reqs -> {"met", "unknown", "not_applicable"}]}]

ManyPackages ==
    {Package(minutes, FALSE, focus, reask) :
        minutes \in {3, 15, 25, 45}, focus \in {"none", "data"}, reask \in {{}, {6, 7}}}

ManyPolicies ==
    {NoPolicy, Policy(FALSE, TRUE, "no", 480), Policy(TRUE, FALSE, "unset", 600)}

Strict == [Open EXCEPT !.requireScore = TRUE, !.minimum = 10]

NoLadder == [c \in 1..9 |-> <<>>]

NoSalt == [s \in Sessions |-> <<>>]

(* One plan for each session, and nothing frozen.                           *)
AgendaSpec ==
    /\ Init
    /\ [][\/ \E s \in Sessions : CreateSession(s)
          \/ \E r \in Requests, s \in Sessions : plan[s].status = "DRAFT" /\ StartPlan(r, s)
          \/ \E r \in Requests : PersistPlan(r)]_vars

-----------------------------------------------------------------------------
(* Two skills, 1 and 2, both of the broader skill 3; specialisation 4.      *)

SharedArea  == <<"language", "data", "other", "other">>
SharedJob   == [reqs |-> <<Req({1}, "must_have"), Req({2}, "must_have")>>, careers |-> <<>>,
                handsOn |-> "unset", level |-> 2]
SharedUp    == <<<<3>>, <<3>>, <<>>, <<>>>>
SharedRoles == <<<<4>>, <<>>, <<>>, <<>>>>

SharedJobs == {SharedJob}

SharedMatches == [j \in SharedJobs |->
    {AMatch([r \in 1..2 |-> [c \in j.reqs[r].skills |-> "unknown"]], 50)}]

SharedPackages == {Package(20, FALSE, "none", {}), Package(25, TRUE, "none", {})}

SharedPolicies == {NoPolicy, Policy(FALSE, TRUE, "unset", 480)}

AQuestion(n, skill, coding, draft) ==
    [n |-> n, skill |-> skill, role |-> 0, purpose |-> 1, level |-> 2, cost |-> 180,
     relevance |-> 1, coding |-> coding, far |-> FALSE, localized |-> FALSE, draft |-> draft]

SharedQuestions ==
    {AQuestion(1, 1, FALSE, FALSE), AQuestion(2, 1, TRUE, FALSE), AQuestion(3, 3, FALSE, FALSE),
     AQuestion(4, 2, FALSE, TRUE), AQuestion(5, 2, FALSE, TRUE)}

OneReviewed == {q \in SharedQuestions : q.n = 4}

SharedSalt == [s \in Sessions |-> [n \in 1..8 |-> n]]

FewAsked == Len(asked) < 2

RequestSymmetry == Permutations(Requests)
=============================================================================

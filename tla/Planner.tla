-------------------------------- MODULE Planner --------------------------------
(***************************************************************************)
(* What an interview will ask about: from the requirements of a job and    *)
(* the match of a CV to an ordered agenda of competencies                  *)
(* (interviews/planning/planner.py, plan_structure.py, entry_gate.py,      *)
(* planner_config.py, core/interview_rounds.py).                           *)
(*                                                                         *)
(* Two algorithms are in service.  The first fixes a budget of questions;  *)
(* the dynamic one, on when the deployment has a policy, divides seconds.  *)
(*                                                                         *)
(*   job    [reqs: Seq([skills, priority]), careers: Seq(concept),         *)
(*           handsOn: "yes" | "no" | "unset", level: 1..3]                 *)
(*   match  [status: requirement -> (concept -> status), eligibility,      *)
(*           assessed, band, suitability, diagnostic]                      *)
(*                                                                         *)
(* Concepts are naturals; their order is the order of their ids.           *)
(***************************************************************************)
EXTENDS Integers, Sequences, FiniteSets, SequencesExt

CONSTANTS
    Area,     \* concept -> round of the interview, "other" when in none
    Minor,    \* data formats and everyday tools
    Coding    \* concepts assessed by writing code

ASSUME AreaAssumption ==
    /\ DOMAIN Area \subseteq Nat
    /\ Minor \subseteq DOMAIN Area /\ Coding \subseteq DOMAIN Area

Larger(a, b)  == IF a > b THEN a ELSE b
Smaller(a, b) == IF a < b THEN a ELSE b

-----------------------------------------------------------------------------
(* The entry gate.  A percentage of -1 is no score.                         *)

DisplayPercentage(match) ==
    IF /\ match.suitability >= 0 /\ match.assessed
       /\ match.eligibility = "eligible" /\ match.band \in {"strong_fit", "partial_fit"}
    THEN match.suitability ELSE match.diagnostic

NotEligible(match) == match.band = "not_eligible" \/ match.eligibility = "ineligible"

LowFit(match, gate) == DisplayPercentage(match) \in 0..(gate.lowFit - 1)

Tier(match, gate) ==
    IF NotEligible(match) \/ LowFit(match, gate) THEN "basic"
    ELSE IF /\ DisplayPercentage(match) >= gate.challenge
            /\ match.eligibility = "eligible" /\ match.assessed
         THEN "challenge"
    ELSE "standard"

Allowed(match, gate) ==
    /\ ~ (gate.blockNotEligible /\ NotEligible(match))
    /\ IF DisplayPercentage(match) < 0 THEN ~ gate.requireScore
       ELSE DisplayPercentage(match) >= gate.minimum

(* At most one level easier or harder than the job's.                       *)
FitAdjusted(level, tier) ==
    CASE tier = "basic"     -> Larger(1, level - 1)
      [] tier = "challenge" -> Smaller(3, level + 1)
      [] OTHER              -> level

-----------------------------------------------------------------------------
(* The concepts of a job and what they weigh.                               *)

PriorityWeight == [must_have |-> 100, nice_to_have |-> 45, context |-> 20]
StatusBoost    == [not_met |-> 135, unknown |-> 120, met |-> 100, not_applicable |-> 0]

SumOf(s) ==
    LET sum[i \in 0..Len(s)] == IF i = 0 THEN 0 ELSE sum[i - 1] + s[i] IN sum[Len(s)]

Requiring(job, c) == {r \in DOMAIN job.reqs : c \in job.reqs[r].skills}

Applicable(job, match, c) ==
    {r \in Requiring(job, c) : match.status[r][c] # "not_applicable"}

Required(job) == UNION {job.reqs[r].skills : r \in DOMAIN job.reqs}

(* A requirement shares its weight among its concepts.                      *)
Weight(job, match, c) ==
    SumOf([r \in DOMAIN job.reqs |->
              IF c \notin job.reqs[r].skills THEN 0
              ELSE (PriorityWeight[job.reqs[r].priority] * StatusBoost[match.status[r][c]] * 12)
                       \div Cardinality(job.reqs[r].skills)])

Candidate(c, weight, must, statuses, career) ==
    [concept |-> c, weight |-> weight, must |-> must, statuses |-> statuses, career |-> career]

FromRequirements(job, match, c, rs) ==
    Candidate(c, Weight(job, match, c), \E r \in rs : job.reqs[r].priority = "must_have",
              {match.status[r][c] : r \in rs}, FALSE)

IsGap(t) == t.statuses \cap {"not_met", "unknown"} # {}

Better(a, b) ==
    IF a.must # b.must THEN a.must
    ELSE IF a.weight # b.weight THEN a.weight > b.weight
    ELSE a.concept < b.concept

(* S in an order: each time the first of what is left.                      *)
Listed(S, first) ==
    LET list[i \in 0..Cardinality(S)] ==
            IF i = 0 THEN <<>>
            ELSE LET before == list[i - 1] IN Append(before, first[S \ ToSet(before)])
    IN list[Cardinality(S)]

InOrderOf(S, Before(_, _)) ==
    Listed(S, [T \in SUBSET S |-> CHOOSE x \in T : \A y \in T \ {x} : ~ Before(y, x)])

(* The elements of s that are in S, in the order of s.                      *)
Only(s, S) ==
    LET only[i \in 0..Len(s)] ==
            IF i = 0 THEN <<>>
            ELSE IF s[i] \in S THEN Append(only[i - 1], s[i]) ELSE only[i - 1]
    IN only[Len(s)]

Ranked(S) == InOrderOf(S, Better)

Concepts(s) == {s[i].concept : i \in DOMAIN s}

-----------------------------------------------------------------------------
(* A fixed budget of questions: interview-planner-v1.                       *)

DemoMinutes == 3

IsDemo(minutes) == minutes <= DemoMinutes

QuestionBudget(minutes) ==
    IF IsDemo(minutes) THEN 2
    ELSE Larger(1, Smaller(8, (60 * minutes - (120 + 180 + 180 + 60)) \div (30 + 150 + 60)))

(* Without a concept in the whole job, its career stands for it.            *)
LegacyCandidates(job, match) ==
    IF Required(job) = {}
    THEN {Candidate(job.careers[i], IF i = 1 THEN 2 ELSE 1, FALSE, {}, TRUE) :
             i \in 1..Smaller(2, Len(job.careers))}
    ELSE {FromRequirements(job, match, c, Applicable(job, match, c)) :
             c \in {x \in Required(job) : Applicable(job, match, x) # {}}}

WithoutMinor(S) ==
    LET major == {t \in S : t.concept \notin Minor} IN IF major = {} THEN S ELSE major

SpreadKey(t) ==
    IF Area[t.concept] \in {"other", "general"} THEN <<"concept", t.concept>>
    ELSE <<"area", Area[t.concept]>>

Keys(S) == {SpreadKey(t) : t \in S}

(* Goes down a ranking and takes what is there, or what falls into a round  *)
(* without a question, until the budget is met.                             *)
Pick(ranked, budget, taken, spread) ==
    LET pick[i \in 0..Len(ranked)] ==
            IF i = 0 THEN taken
            ELSE LET before == pick[i - 1]
                 IN IF /\ Cardinality(before) < budget /\ ranked[i] \notin before
                       /\ ~ spread \/ SpreadKey(ranked[i]) \notin Keys(before)
                    THEN before \cup {ranked[i]} ELSE before
    IN pick[Len(ranked)]

InFocus(t, focus) == focus # "none" /\ Area[t.concept] = focus

FirstOf(s, n) == [i \in 1..Smaller(n, Len(s)) |-> s[i]]

(* Variant: a skill due again is nothing special.                           *)
NeverReasked(ranked, reask) == <<>>

Reasked(ranked, reask) ==
    FirstOf(Only(ranked, {t \in ToSet(ranked) : t.concept \in reask}), 1)

SelectAcrossRounds(ranked, budget, focus, reask) ==
    LET all       == ToSet(ranked)
        inFocus   == {t \in all : InFocus(t, focus)}
        again     == ToSet(FirstOf(Reasked(ranked, reask), budget))
        onFocus   == Pick(FirstOf(Only(ranked, inFocus), Larger(1, budget \div 2)),
                          budget, again, FALSE)
        musts     == Pick(Only(ranked, {t \in all : t.must}), budget, onFocus, TRUE)
        newRounds == Pick(ranked, budget, musts, TRUE)
        chosen    == Pick(ranked, budget, newRounds, FALSE)
    IN IF budget >= Len(ranked) /\ inFocus = {} THEN ranked
       ELSE Only(ranked, chosen \cap inFocus) \o Only(ranked, chosen \ inFocus)

Gaps(s) == {t \in ToSet(s) : IsGap(t)}

(* The last question of a demo is on a gap when the job has one.            *)
DemoTargets(ranked, selected) ==
    LET spare   == Only(ranked, Gaps(ranked) \ ToSet(selected))
        swapped == IF Gaps(selected) # {} \/ spare = <<>> THEN selected
                   ELSE [selected EXCEPT ![Len(selected)] = spare[1]]
    IN IF Len(selected) < 2 THEN selected
       ELSE Only(swapped, ToSet(swapped) \ Gaps(swapped)) \o Only(swapped, Gaps(swapped))

MaxQuestionsPerTarget == 3

(* Variant: the question that each starts with is forgotten.                *)
CountsBeyondBudget(weights, budget) ==
    LET total == SumOf(weights)
        Deficit(counts, i) == weights[i] * budget - counts[i] * total
        Ahead(counts, i, j) ==
            \/ Deficit(counts, i) > Deficit(counts, j)
            \/ /\ Deficit(counts, i) = Deficit(counts, j)
               /\ weights[i] > weights[j] \/ (weights[i] = weights[j] /\ i <= j)
        give[n \in 0..budget] ==
            IF n = 0 THEN [i \in DOMAIN weights |-> 1]
            ELSE LET counts == give[n - 1]
                     open == {i \in DOMAIN weights : counts[i] < MaxQuestionsPerTarget}
                 IN IF open = {} THEN counts
                    ELSE [counts EXCEPT
                            ![CHOOSE i \in open : \A j \in open : Ahead(counts, i, j)] = @ + 1]
    IN give[budget]

(* One question each, then one at a time to whoever is furthest below its    *)
(* share; weights are compared without dividing by their sum.               *)
QuestionCounts(weights, budget) ==
    LET total == SumOf(weights)
        Deficit(counts, i) == weights[i] * budget - counts[i] * total
        Ahead(counts, i, j) ==
            \/ Deficit(counts, i) > Deficit(counts, j)
            \/ /\ Deficit(counts, i) = Deficit(counts, j)
               /\ weights[i] > weights[j] \/ (weights[i] = weights[j] /\ i <= j)
        give[n \in 0..Larger(0, budget - Len(weights))] ==
            IF n = 0 THEN [i \in DOMAIN weights |-> 1]
            ELSE LET counts == give[n - 1]
                     open == {i \in DOMAIN weights : counts[i] < MaxQuestionsPerTarget}
                 IN IF open = {} THEN counts
                    ELSE [counts EXCEPT
                            ![CHOOSE i \in open : \A j \in open : Ahead(counts, i, j)] = @ + 1]
    IN give[Larger(0, budget - Len(weights))]

(* An agenda: targets in the order they are asked.  A target of this        *)
(* algorithm has a number of questions and no envelope of time.             *)
Target(t, arch, floor, envelope, count, most) ==
    [concept |-> t.concept, must |-> t.must, gap |-> IsGap(t), career |-> t.career, arch |-> arch,
     floor |-> floor, envelope |-> envelope, count |-> count, most |-> most]

NoPlan == [policy |-> "none", targets |-> <<>>, omitted |-> {}, pool |-> 0, spare |-> 0]

LegacyPlan(job, match, minutes, focus, reask) ==
    LET budget   == QuestionBudget(minutes)
        ranked   == Ranked(WithoutMinor(LegacyCandidates(job, match)))
        across   == SelectAcrossRounds(ranked, budget, focus, reask)
        selected == IF IsDemo(minutes) THEN DemoTargets(ranked, across) ELSE across
        counts   == QuestionCounts([i \in DOMAIN selected |-> selected[i].weight], budget)
    IN IF ranked = <<>> THEN NoPlan
       ELSE [NoPlan EXCEPT
               !.policy  = "legacy",
               !.targets = [i \in DOMAIN selected |->
                               Target(selected[i], "any", 0, 0, counts[i], counts[i])]]

-----------------------------------------------------------------------------
(* Envelopes of time: interview-planner-v2-dynamic.                         *)
(*   policy [reserves, probe (per cent), textMin, textMax, codeMin, codeMax, *)
(*           downgrade, stop, handsOn]                                      *)

TechPool(minutes, policy) ==
    60 * minutes - policy.reserves - (2 * policy.probe * 60 * minutes + 100) \div 200

DynamicCandidates(job, match) ==
    IF Required(job) = {}
    THEN {Candidate(job.careers[i], IF i = 1 THEN 2 ELSE 1, i = 1, {"unknown"}, TRUE) :
             i \in 1..Smaller(2, Len(job.careers))}
    ELSE {FromRequirements(job, match, c, Requiring(job, c)) : c \in Required(job)}

(* A flag on the job or in the policy is enough; without either nobody said *)
(* that talking about code will do.                                         *)
HandsOn(job, policy) ==
    CASE "yes" \in {job.handsOn, policy.handsOn}     -> "yes"
      [] {job.handsOn, policy.handsOn} = {"unset"}   -> "unset"
      [] OTHER                                       -> "no"

(* What becomes of the next of the ranking: an archetype, or "omit".        *)
Archetype(t, left, job, policy) ==
    CASE t.concept \notin Coding /\ left >= policy.textMin -> "TEXT"
      [] t.concept \in Coding /\ left >= policy.codeMin    -> "CODING"
      [] /\ t.concept \in Coding /\ left < policy.codeMin /\ left >= policy.textMin
         /\ HandsOn(job, policy) = "no" /\ policy.downgrade -> "TEXT"
      [] OTHER -> "omit"

Floor(arch, policy) == IF arch = "CODING" THEN policy.codeMin ELSE policy.textMin

Eligible(ranked, pool, job, policy) ==
    LET alloc[i \in 0..Len(ranked)] ==
            IF i = 0 THEN [kept |-> <<>>, used |-> 0, halted |-> FALSE]
            ELSE LET a    == alloc[i - 1]
                     arch == Archetype(ranked[i], pool - a.used, job, policy)
                 IN IF a.halted THEN a
                    ELSE IF arch = "omit" THEN [a EXCEPT !.halted = policy.stop]
                    ELSE [a EXCEPT !.kept = Append(a.kept, [t |-> ranked[i], arch |-> arch]),
                                   !.used = @ + Floor(arch, policy)]
    IN alloc[Len(ranked)].kept

(* The largest remainders get the seconds that rounding down left.          *)
Shares(surplus, weights) ==
    LET total == SumOf(weights)
        w     == IF total = 0 THEN [i \in DOMAIN weights |-> 1] ELSE weights
        of    == IF total = 0 THEN Len(weights) ELSE total
        whole == [i \in DOMAIN w |-> (surplus * w[i]) \div of]
        Rest(i) == (surplus * w[i]) % of
        Before(i) == Cardinality({j \in DOMAIN w :
                         Rest(j) > Rest(i) \/ (Rest(j) = Rest(i) /\ j < i)})
    IN [i \in DOMAIN w |-> whole[i] + IF Before(i) < surplus - SumOf(whole) THEN 1 ELSE 0]

CeilDiv(a, b) == (a + b - 1) \div b

DynamicTarget(kept, share, policy) ==
    LET floor    == Floor(kept.arch, policy)
        envelope == floor + share
        longest  == IF kept.arch = "CODING" THEN policy.codeMax ELSE policy.textMax
    IN Target(kept.t, kept.arch, floor, envelope, Larger(1, envelope \div longest),
              Larger(1, CeilDiv(envelope, floor)))

DynamicPlan(job, match, minutes, policy) ==
    LET pool    == TechPool(minutes, policy)
        all     == DynamicCandidates(job, match)
        ranked  == Ranked({t \in all : t.statuses # {"not_applicable"}})
        kept    == Eligible(ranked, pool, job, policy)
        floors  == SumOf([i \in DOMAIN kept |-> Floor(kept[i].arch, policy)])
        shares  == Shares(pool - floors, [i \in DOMAIN kept |-> kept[i].t.weight])
        targets == [i \in DOMAIN kept |-> DynamicTarget(kept[i], shares[i], policy)]
    IN IF all = {} \/ pool < 0 THEN NoPlan
       ELSE [policy  |-> "dynamic",
             targets |-> targets,
             omitted |-> {t.concept : t \in all} \ Concepts(targets),
             pool    |-> pool,
             spare   |-> IF kept = <<>> THEN pool ELSE 0]

(* policy.on is the switch of the deployment.                               *)
Plan(job, match, minutes, policy, focus, reask) ==
    IF policy.on THEN DynamicPlan(job, match, minutes, policy)
    ELSE LegacyPlan(job, match, minutes, focus, reask)
=============================================================================

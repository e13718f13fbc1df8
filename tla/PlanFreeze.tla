------------------------------ MODULE PlanFreeze ------------------------------
(***************************************************************************)
(* How a session gets its questions (interviews/planning: planner.py,      *)
(* question_selector.py, question_generation.py, question_coverage.py; the *)
(* endpoints in interviews/api/router.py).                                 *)
(*                                                                         *)
(* Building a plan matches the CV with the job, which takes long and holds *)
(* no lock, and then writes an agenda.  Freezing files drafts for what the *)
(* bank cannot ask, a call of a language model under an advisory lock per  *)
(* skill and level, and then selects questions and locks the plan.  After  *)
(* that neither may change.  A worker files drafts for the job as well.    *)
(*                                                                         *)
(* All sessions are of one candidate and one job, any of Jobs.             *)
(*                                                                         *)
(*   Sessions, Requests   sessions, and calls of the endpoints             *)
(*   Jobs, Matches        what planning starts from, and job -> what the   *)
(*                        match of the CV may say                          *)
(*   Packages             [minutes, voice, focus, reask] of a new session  *)
(*   Policies             planner policies a deployment may have           *)
(*   Gate                 the entry policy                                 *)
(*   Questions            the approved questions and the drafts that may   *)
(*                        be generated                                     *)
(*   Broader, RolesOf     concept -> the skills more general than it, and  *)
(*                        the specialisations that require it, in order    *)
(*   Salt                 session -> order of questions that rank alike    *)
(*   MinPerSkill          how many questions the worker wants per skill    *)
(*   Reviewed             the questions reviewers get to (bounds the bank) *)
(***************************************************************************)
EXTENDS Planner

CONSTANTS Sessions, Requests, Jobs, Matches, Packages, Policies, Gate, Questions,
          Broader, RolesOf, Salt, MinPerSkill, Reviewed

ASSUME QuestionsAssumption ==
    /\ IsFiniteSet(Questions)
    /\ \A q \in Questions :
          /\ q.n \in Nat /\ q.level \in 1..3 /\ q.cost \in Nat /\ q.purpose \in 0..1
          /\ q.relevance \in Nat /\ q.coding \in BOOLEAN /\ q.far \in BOOLEAN
          /\ q.localized \in BOOLEAN /\ q.draft \in BOOLEAN

ASSUME LadderAssumption ==
    \A c \in DOMAIN Area : Broader[c] \in Seq(DOMAIN Area) /\ RolesOf[c] \in Seq(DOMAIN Area)

ASSUME SaltAssumption == \A s \in Sessions, q \in Questions : Salt[s][q.n] \in Nat

ASSUME MinPerSkillAssumption == MinPerSkill \in Nat

ASSUME PackagesAssumption == \A p \in Packages : p.minutes \in Nat /\ p.minutes > 0

(* Careers are told apart by their code.                                    *)
ASSUME JobsAssumption ==
    \A j \in Jobs :
        /\ DOMAIN j.reqs = 1..Len(j.reqs) /\ Len(j.reqs) \in Nat
        /\ \A r \in DOMAIN j.reqs :
              /\ IsFiniteSet(j.reqs[r].skills) /\ j.reqs[r].skills \subseteq DOMAIN Area
              /\ j.reqs[r].priority \in DOMAIN PriorityWeight
        /\ DOMAIN j.careers = 1..Len(j.careers) /\ Len(j.careers) \in Nat
        /\ \A i, k \in DOMAIN j.careers :
              /\ j.careers[i] \in DOMAIN Area
              /\ i # k => j.careers[i] # j.careers[k]
        /\ j.level \in 1..3

ASSUME MatchesAssumption ==
    \A j \in Jobs : \A m \in Matches[j] :
        \A r \in DOMAIN j.reqs : \A c \in j.reqs[r].skills :
            m.status[r][c] \in DOMAIN StatusBoost

ASSUME PoliciesAssumption ==
    \A p \in Policies :
        /\ p.reserves \in Nat /\ p.probe \in Nat /\ p.stop \in BOOLEAN
        /\ p.textMin \in Nat \ {0} /\ p.textMax \in Nat /\ p.textMin <= p.textMax
        /\ p.codeMin \in Nat \ {0} /\ p.codeMax \in Nat /\ p.codeMin <= p.codeMax

VARIABLES
    jd,         \* the job description of the sessions
    session,    \* the package of each session, or NoPackage
    plan,       \* [status, agenda, level, context]: context is what it was built from
    turns,      \* its technical turns, once frozen
    uncovered,  \* targets served with fewer questions than planned
    asked,      \* the turns the candidate was asked, in order
    bank,       \* the state of each question
    call        \* what each request is doing

vars == <<jd, session, plan, turns, uncovered, asked, bank, call>>

NoPackage == [minutes |-> 0, voice |-> FALSE, focus |-> "none", reask |-> {}]

NoContext == [match |-> CHOOSE m \in UNION {Matches[j] : j \in Jobs} : TRUE,
              policy |-> CHOOSE c \in Policies : TRUE]

IdleCall == [at |-> "idle", s |-> CHOOSE s \in Sessions : TRUE, agenda |-> NoPlan, level |-> 1,
             context |-> NoContext, left |-> <<>>, want |-> 0]

Init ==
    /\ jd \in Jobs
    /\ session   = [s \in Sessions |-> NoPackage]
    /\ plan      = [s \in Sessions |-> [status |-> "none", agenda |-> NoPlan, level |-> 1,
                                    context |-> NoContext]]
    /\ turns     = [s \in Sessions |-> <<>>]
    /\ uncovered = [s \in Sessions |-> {}]
    /\ asked     = <<>>
    /\ bank      = [q \in Questions |-> IF q.draft THEN "absent" ELSE "approved"]
    /\ call      = [r \in Requests |-> IdleCall]

(* A table, so that TLC computes each agenda once.                          *)
PlanOf ==
    [j \in Jobs |-> [m \in Matches[j] |-> [p \in Packages |-> [c \in Policies |->
        Plan(j, m, p.minutes, c, p.focus, p.reask)]]]]

-----------------------------------------------------------------------------
(* The questions a target can get.                                          *)

JobConcepts == Required(jd)

Askable(q, states, voice) == bank[q] \in states /\ ~ (voice /\ q.coding)

OnSkill(c, states, voice) == {q \in Questions : q.skill = c /\ Askable(q, states, voice)}

OnRole(c, voice) == {q \in Questions : q.role = c /\ Askable(q, {"approved"}, voice)}

Exact(t, voice) ==
    IF t.career THEN OnRole(t.concept, voice) ELSE OnSkill(t.concept, {"approved"}, voice)

Distance(q, level) == IF q.level > level THEN q.level - level ELSE level - q.level

FirstBefore(a, b) ==
    \E i \in DOMAIN a : a[i] < b[i] /\ \A j \in 1..(i - 1) : a[j] = b[j]

Tie(s, q) == IF IsDemo(session[s].minutes) THEN q.n ELSE Salt[s][q.n]

(* When another session last asked the question; demos do not rotate.       *)
LastSeen(s, q) ==
    LET when == {i \in DOMAIN asked : asked[i].s # s /\ asked[i].question = q}
    IN IF when = {} \/ IsDemo(session[s].minutes) THEN 0
       ELSE CHOOSE i \in when : \A j \in when : j <= i

(* A candidate is a question and whether it was found through a role.       *)
Purpose(c) == IF c.role THEN 2 ELSE c.q.purpose

(* Variant: what the candidate has seen before plays no part.               *)
BlindRank(s, c, level, seen) ==
    <<IF c.q.far /\ ~ c.q.localized THEN 1 ELSE 0, Distance(c.q, level), Purpose(c),
      -c.q.relevance, Tie(s, c.q)>>

CandidateRank(s, c, level, seen) ==
    <<IF c.q.far /\ ~ c.q.localized THEN 1 ELSE 0, Distance(c.q, level), Purpose(c),
      seen, -c.q.relevance, Tie(s, c.q)>>

InOrder(s, S, role, level) ==
    InOrderOf({[q |-> q, role |-> role] : q \in S},
                 LAMBDA a, b : FirstBefore(CandidateRank(s, a, level, LastSeen(s, a.q)),
                                           CandidateRank(s, b, level, LastSeen(s, b.q))))

QuestionsOf(cs) == {cs[i].q : i \in DOMAIN cs}

(* Variant: what another target asks is not left out.                       *)
WithRepeats(cs, used) == cs

Without(cs, used) == Only(cs, {c \in ToSet(cs) : c.q \notin used})

(* One list after another, each question where it is found first.           *)
Ladder(lists) ==
    LET join[i \in 0..Len(lists)] ==
            IF i = 0 THEN <<>>
            ELSE join[i - 1] \o Without(lists[i], QuestionsOf(join[i - 1]))
    IN join[Len(lists)]

(* Variant: drafts before questions on broader skills and roles.            *)
DraftsFirst(s, t, level) ==
    LET voice   == session[s].voice
        broader == [i \in DOMAIN Broader[t.concept] |->
                       InOrder(s, OnSkill(Broader[t.concept][i], {"approved"}, voice), FALSE, level)]
        roles   == [i \in DOMAIN RolesOf[t.concept] |->
                       InOrder(s, {q \in OnRole(RolesOf[t.concept][i], voice) :
                                       q.skill \in JobConcepts}, TRUE, level)]
        drafts  == InOrder(s, OnSkill(t.concept, {"draft"}, voice), FALSE, level)
    IN Ladder(<<drafts>> \o broader \o roles)

(* Broader skills, then roles whose question is on a skill of the job, then *)
(* drafts nobody reviewed.                                                  *)
Fallback(s, t, level) ==
    LET voice   == session[s].voice
        broader == [i \in DOMAIN Broader[t.concept] |->
                       InOrder(s, OnSkill(Broader[t.concept][i], {"approved"}, voice), FALSE, level)]
        roles   == [i \in DOMAIN RolesOf[t.concept] |->
                       InOrder(s, {q \in OnRole(RolesOf[t.concept][i], voice) :
                                       q.skill \in JobConcepts}, TRUE, level)]
        drafts  == InOrder(s, OnSkill(t.concept, {"draft"}, voice), FALSE, level)
    IN Ladder(broader \o roles \o <<drafts>>)

Candidates(s, t, level) == InOrder(s, Exact(t, session[s].voice), t.career, level)

-----------------------------------------------------------------------------
(* Selection from an agenda that counts questions.                          *)

Turn(t, c) == [concept |-> t.concept, question |-> c.q, gap |-> t.gap]

TurnsOf(t, cs) == [i \in DOMAIN cs |-> Turn(t, cs[i])]

Refused == [refused |-> TRUE, frozen |-> <<>>, short |-> {}]

FreezeCounted(s) ==
    LET targets == plan[s].agenda.targets
        level   == plan[s].level
        Exactly(t, used) == FirstOf(Without(Candidates(s, t, level), used), t.count)
        Extra(t, used, n) == FirstOf(Without(Fallback(s, t, level), used), n)
        Serve(t, used) ==
            LET exact == Exactly(t, used)
            IN IF Len(exact) = t.count THEN exact
               ELSE exact \o Extra(t, used \cup QuestionsOf(exact), t.count - Len(exact))
        fill[i \in 0..Len(targets)] ==
            IF i = 0 THEN [frozen |-> <<>>, short |-> {}]
            ELSE LET before == fill[i - 1]
                     t      == targets[i]
                     got    == Serve(t, {before.frozen[k].question : k \in DOMAIN before.frozen})
                 IN [frozen |-> before.frozen \o TurnsOf(t, got),
                     short  |-> before.short \cup IF Len(got) < t.count THEN {t.concept} ELSE {}]
        all == fill[Len(targets)]
    IN IF all.frozen = <<>> THEN Refused
       ELSE [refused |-> FALSE, frozen |-> all.frozen, short |-> all.short]

-----------------------------------------------------------------------------
(* Selection from an agenda of envelopes: for each target the sets of       *)
(* questions that reach its floor and fit its envelope, best first, and     *)
(* then the best choice of one set each that shares no question.            *)

SumOver(S, f(_)) ==
    LET list == SetToSeq(S)
    IN SumOf([i \in DOMAIN list |-> f(list[i])])

Cost(qs) == SumOver(qs, LAMBDA q : q.cost)

Asks(S) == {c.q : c \in S}

RankOnly(s, S, level) ==
    InOrderOf(S, LAMBDA a, b : FirstBefore(CandidateRank(s, a, level, 0),
                                              CandidateRank(s, b, level, 0)))

SubsetPool == 12

FeasibleSubsets(s, cs, t, level) ==
    LET fitting == {c \in ToSet(cs) : c.q.coding <=> t.arch = "CODING"}
    IN {S \in SUBSET ToSet(FirstOf(RankOnly(s, fitting, level), SubsetPool)) :
           /\ Cardinality(S) \in 1..t.most
           /\ Cost(Asks(S)) \in t.floor..t.envelope}

(* 60 makes the averages of up to six questions whole.                      *)
Average(S, f(_)) == (60 * SumOver(S, f)) \div Cardinality(S)

(* The written language counts here, whatever language is asked.            *)
SubsetObjective(s, t, level, S) ==
    <<IF \E c \in S : c.q.far THEN 1 ELSE 0,
      Average(S, LAMBDA c : Distance(c.q, level)),
      Average(S, Purpose),
      -SumOver(S, LAMBDA c : c.q.relevance),
      t.envelope - Cost(Asks(S)),
      SumOver(S, LAMBDA c : Tie(s, c.q))>>

BestFirst(s, t, level, SS) ==
    InOrderOf(SS, LAMBDA A, B : FirstBefore(SubsetObjective(s, t, level, A),
                                               SubsetObjective(s, t, level, B)))

Domain(s, t, level) ==
    LET exact == Candidates(s, t, level)
        own   == FeasibleSubsets(s, exact, t, level)
        wide  == exact \o Without(Fallback(s, t, level), QuestionsOf(exact))
    IN BestFirst(s, t, level, IF own # {} THEN own ELSE FeasibleSubsets(s, wide, t, level))

(* The positions of a choice in each domain, for every choice that asks no  *)
(* question twice.                                                          *)
Assignments(domains) ==
    LET Used(a) == UNION {Asks(domains[i][a[i]]) : i \in DOMAIN a}
        choices[i \in 0..Len(domains)] ==
            IF i = 0 THEN {<<>>}
            ELSE UNION {{Append(a, k) : k \in {x \in DOMAIN domains[i] :
                                           Asks(domains[i][x]) \cap Used(a) = {}}} :
                        a \in choices[i - 1]}
    IN choices[Len(domains)]

(* The search goes down the targets in rank order and backtracks, so it     *)
(* ends at the first choice in the order of the positions.                  *)
GlobalAssignment(domains) ==
    CHOOSE a \in Assignments(domains) :
        \A b \in Assignments(domains) : ~ FirstBefore(b, a)

FreezeEnvelopes(s) ==
    LET level   == plan[s].level
        targets == plan[s].agenda.targets
        covered == Only(targets, {t \in ToSet(targets) : Domain(s, t, level) # <<>>})
        domains == [i \in DOMAIN covered |-> Domain(s, covered[i], level)]
        choice  == GlobalAssignment(domains)
        freeze[i \in 0..Len(covered)] ==
            IF i = 0 THEN <<>>
            ELSE freeze[i - 1]
                    \o TurnsOf(covered[i], RankOnly(s, domains[i][choice[i]], level))
    IN IF targets # <<>> /\ (covered = <<>> \/ Assignments(domains) = {}) THEN Refused
       ELSE [refused |-> FALSE, frozen |-> freeze[Len(covered)],
             short   |-> Concepts(targets) \ Concepts(covered)]

Selection(s) ==
    IF plan[s].agenda.policy = "dynamic" THEN FreezeEnvelopes(s) ELSE FreezeCounted(s)

(* Coding questions and gaps after the first are challenges; a demo ends    *)
(* with one.                                                                *)
TechnicalStage(s, frozen, i) ==
    IF \/ frozen[i].question.coding \/ (frozen[i].gap /\ i > 1)
       \/ IsDemo(session[s].minutes) /\ i > 1 /\ i = Len(frozen)
    THEN "CHALLENGE" ELSE "DEEP_DIVE"

FrozenTurns(s, frozen) ==
    [i \in DOMAIN frozen |->
        [concept |-> frozen[i].concept, question |-> frozen[i].question,
         source  |-> bank[frozen[i].question], stage |-> TechnicalStage(s, frozen, i)]]

-----------------------------------------------------------------------------
(* The endpoints.                                                           *)

CreateSession(s) ==
    /\ session[s] = NoPackage
    /\ \E m \in Matches[jd] : Allowed(m, Gate)
    /\ \E p \in Packages : session' = [session EXCEPT ![s] = p]
    /\ plan' = [plan EXCEPT ![s].status = "DRAFT"]
    /\ UNCHANGED <<jd, turns, uncovered, asked, bank, call>>

(* Matching and planning hold no lock on the plan.                          *)
StartPlan(r, s) ==
    /\ call[r].at = "idle" /\ plan[s].status \in {"DRAFT", "READY"}
    /\ \E m \in Matches[jd], c \in Policies :
          /\ Allowed(m, Gate)
          /\ PlanOf[jd][m][session[s]][c].policy # "none"
          /\ call' = [call EXCEPT ![r] =
                [IdleCall EXCEPT !.at = "planned", !.s = s,
                                 !.agenda = PlanOf[jd][m][session[s]][c],
                                 !.context = [match |-> m, policy |-> c],
                                 !.level = FitAdjusted(jd.level, Tier(m, Gate))]]
    /\ UNCHANGED <<jd, session, plan, turns, uncovered, asked, bank>>

(* Variant: the status read before planning counts.                         *)
PersistStalePlan(r) ==
    /\ call[r].at = "planned"
    /\ plan' = [plan EXCEPT ![call[r].s] =
                   [status |-> "READY", agenda |-> call[r].agenda, level |-> call[r].level,
                    context |-> call[r].context]]
    /\ call' = [call EXCEPT ![r] = IdleCall]
    /\ UNCHANGED <<jd, session, turns, uncovered, asked, bank>>

(* The status is read again under the lock of the plan's row.               *)
PersistPlan(r) ==
    /\ call[r].at = "planned"
    /\ plan' = IF plan[call[r].s].status = "LOCKED" THEN plan
               ELSE [plan EXCEPT ![call[r].s] =
                        [status |-> "READY", agenda |-> call[r].agenda, level |-> call[r].level,
                         context |-> call[r].context]]
    /\ call' = [call EXCEPT ![r] = IdleCall]
    /\ UNCHANGED <<jd, session, turns, uncovered, asked, bank>>

(* Only a plan that is READY is looked over for what the bank lacks.        *)
Lacking(s) ==
    IF plan[s].status # "READY" THEN <<>>
    ELSE LET targets == plan[s].agenda.targets
             ts      == Only(targets, {t \in ToSet(targets) : ~ t.career})
         IN [i \in DOMAIN ts |-> [concept |-> ts[i].concept, desired |-> ts[i].count]]

StartFreeze(r, s) ==
    /\ call[r].at = "idle" /\ plan[s].status # "none"
    /\ call' = [call EXCEPT ![r] = [IdleCall EXCEPT !.at = "freezing", !.s = s,
                                                    !.level = plan[s].level, !.left = Lacking(s)]]
    /\ UNCHANGED <<jd, session, plan, turns, uncovered, asked, bank>>

(* The worker wants MinPerSkill questions for every must-have of the job,  *)
(* one skill after another; skills are numbers, and come in their order.    *)
MustHaves ==
    InOrderOf(UNION {jd.reqs[r].skills : r \in {x \in DOMAIN jd.reqs :
                                                   jd.reqs[x].priority = "must_have"}},
              LAMBDA a, b : a < b)

StartCoverage(r) ==
    /\ call[r].at = "idle"
    /\ call' = [call EXCEPT ![r] =
                   [IdleCall EXCEPT !.at = "covering", !.level = jd.level,
                       !.left = [i \in DOMAIN MustHaves |->
                                    [concept |-> MustHaves[i], desired |-> MinPerSkill]]]]
    /\ UNCHANGED <<jd, session, plan, turns, uncovered, asked, bank>>

-----------------------------------------------------------------------------
(* Drafts for what the bank lacks (ensure_generated_questions).             *)

MaxGenerated(at) == IF at = "covering" THEN 3 ELSE 2

(* What selection could reach, in any room: the approved questions of the   *)
(* skill, and the ladder when they are too few.                             *)
Reachable(c, desired) ==
    LET exact == OnSkill(c, {"approved"}, FALSE)
        roles == {q \in UNION {OnRole(RolesOf[c][i], FALSE) : i \in DOMAIN RolesOf[c]} :
                     q.skill \in JobConcepts}
    IN IF Cardinality(exact) >= desired THEN exact
       ELSE exact \cup roles \cup OnSkill(c, {"draft"}, FALSE)
            \cup UNION {OnSkill(Broader[c][i], {"approved"}, FALSE) : i \in DOMAIN Broader[c]}

Key(k) == <<Head(k.left).concept, k.level>>

Working(r) == call[r].at \in {"freezing", "covering"}

(* Variant: no advisory lock.                                               *)
NeverLocked(k) == FALSE

(* want > 0 while the lock is held for a call of the model.                 *)
Locked(k) == \E r \in Requests : Working(r) /\ call[r].want > 0 /\ Key(call[r]) = k

CountUnderLock(r) ==
    /\ Working(r) /\ call[r].left # <<>> /\ call[r].want = 0
    /\ ~ Locked(Key(call[r]))
    /\ LET next    == Head(call[r].left)
           missing == next.desired - Cardinality(Reachable(next.concept, next.desired))
       IN call' = IF missing <= 0 THEN [call EXCEPT ![r].left = Tail(@)]
                  ELSE [call EXCEPT ![r].want = Smaller(missing, MaxGenerated(call[r].at))]
    /\ UNCHANGED <<jd, session, plan, turns, uncovered, asked, bank>>

Blank(k) == {q \in Questions : q.skill = k[1] /\ q.level = k[2] /\ bank[q] = "absent"}

(* The model and the quality gate leave some of the wanted drafts, or none; *)
(* the commit that files them frees the lock.                               *)
FileDrafts(r) ==
    /\ Working(r) /\ call[r].want > 0
    /\ \E filed \in SUBSET Blank(Key(call[r])) :
          /\ Cardinality(filed) <= call[r].want
          /\ bank' = [q \in Questions |-> IF q \in filed THEN "draft" ELSE bank[q]]
    /\ call' = [call EXCEPT ![r].left = Tail(@), ![r].want = 0]
    /\ UNCHANGED <<jd, session, plan, turns, uncovered, asked>>

EndCoverage(r) ==
    /\ call[r].at = "covering" /\ call[r].left = <<>>
    /\ call' = [call EXCEPT ![r] = IdleCall]
    /\ UNCHANGED <<jd, session, plan, turns, uncovered, asked, bank>>

(* Under the lock of the plan's row.  A plan that is LOCKED is read back,   *)
(* one that is not READY is an error, and a selection that finds nothing    *)
(* writes nothing.                                                          *)
SelectAndFreeze(r) ==
    LET s == call[r].s
        selection == Selection(s)
    IN /\ call[r].at = "freezing" /\ call[r].left = <<>>
       /\ call' = [call EXCEPT ![r] = IdleCall]
       /\ IF plan[s].status # "READY" \/ selection.refused
          THEN UNCHANGED <<jd, plan, turns, uncovered>>
          ELSE /\ turns'     = [turns EXCEPT ![s] = FrozenTurns(s, selection.frozen)]
               /\ uncovered' = [uncovered EXCEPT ![s] = selection.short]
               /\ plan'      = [plan EXCEPT ![s].status = "LOCKED"]
       /\ UNCHANGED <<jd, session, asked, bank>>

(* A request dies at any point; its locks go with its connection.           *)
Die(r) ==
    /\ call[r].at # "idle"
    /\ call' = [call EXCEPT ![r] = IdleCall]
    /\ UNCHANGED <<jd, session, plan, turns, uncovered, asked, bank>>

-----------------------------------------------------------------------------
(* What goes on around: the interviews, and the review of the bank.         *)

AskedOf(s) == {i \in DOMAIN asked : asked[i].s = s}

AskTurn(s) ==
    /\ plan[s].status = "LOCKED" /\ Cardinality(AskedOf(s)) < Len(turns[s])
    /\ asked' = Append(asked, [s |-> s,
                               question |-> turns[s][Cardinality(AskedOf(s)) + 1].question])
    /\ UNCHANGED <<jd, session, plan, turns, uncovered, bank, call>>

ReviewQuestion(q) ==
    /\ bank[q] \in {"draft", "approved"}
    /\ \E to \in {"approved", "retired"} \ {bank[q]} : bank' = [bank EXCEPT ![q] = to]
    /\ UNCHANGED <<jd, session, plan, turns, uncovered, asked, call>>

Next ==
    \/ \E s \in Sessions : CreateSession(s) \/ AskTurn(s)
    \/ \E r \in Requests, s \in Sessions : StartPlan(r, s) \/ StartFreeze(r, s)
    \/ \E r \in Requests :
          PersistPlan(r) \/ StartCoverage(r) \/ CountUnderLock(r) \/ FileDrafts(r)
          \/ EndCoverage(r) \/ SelectAndFreeze(r) \/ Die(r)
    \/ \E q \in Reviewed : ReviewQuestion(q)

Spec == Init /\ [][Next]_vars

-----------------------------------------------------------------------------
(* Properties of the agenda.                                                *)

Planned == {s \in Sessions : plan[s].status \in {"READY", "LOCKED"}}

CandidatesOf(s) ==
    WithoutMinor(LegacyCandidates(jd, plan[s].context.match))

Counted(s) == plan[s].agenda.policy = "legacy"

CountsFit(s) ==
    LET targets == plan[s].agenda.targets
        budget  == QuestionBudget(session[s].minutes)
    IN /\ \A i \in DOMAIN targets : targets[i].count \in 1..MaxQuestionsPerTarget
       /\ Len(targets) = Smaller(budget, Cardinality(CandidatesOf(s)))
       /\ SumOf([i \in DOMAIN targets |-> targets[i].count])
             = Smaller(budget, MaxQuestionsPerTarget * Len(targets))

EnvelopesFit(s) ==
    LET agenda  == plan[s].agenda
        targets == agenda.targets
        policy  == plan[s].context.policy
        ranked  == Ranked({t \in DynamicCandidates(jd, plan[s].context.match) :
                               t.statuses # {"not_applicable"}})
    IN /\ SumOf([i \in DOMAIN targets |-> targets[i].envelope]) + agenda.spare = agenda.pool
       /\ \A i \in DOMAIN targets :
             targets[i].envelope >= targets[i].floor /\ targets[i].count \in 1..targets[i].most
       /\ policy.stop => \A i \in DOMAIN targets : targets[i].concept = ranked[i].concept

(* The questions of an agenda are what its budget allows, one to three for  *)
(* each of as many competencies as there are; the envelopes of a dynamic    *)
(* agenda use up the technical pool, none below its floor, and under a      *)
(* strict policy nothing is asked past the first competency left out        *)
(* (_allocate_question_counts, _derive_competency_plan_dynamic).            *)
PlanFits == \A s \in Planned : IF Counted(s) THEN CountsFit(s) ELSE EnvelopesFit(s)

(* Two questions fall into one round only when every round that the job     *)
(* could fill has one, demos and the round chosen for practice aside        *)
(* (_select_across_rounds).                                                 *)
RoundsBeforeRepeats ==
    \A s \in Planned : Counted(s) /\ ~ IsDemo(session[s].minutes) =>
        LET chosen == {t \in CandidatesOf(s) : t.concept \in Concepts(plan[s].agenda.targets)}
        IN \A a, b \in chosen :
              a # b /\ SpreadKey(a) = SpreadKey(b) /\ ~ InFocus(a, session[s].focus)
                 => Keys(CandidatesOf(s)) = Keys(chosen)

(* A skill due for practice again keeps a slot, unless the session is a     *)
(* demo; and a demo of two questions ends on a gap when the job has one     *)
(* (_select_across_rounds, _demo_targets).                                  *)
DueAndGapsAreAsked ==
    \A s \in Planned : Counted(s) =>
        LET targets == plan[s].agenda.targets
            due     == session[s].reask \cap {t.concept : t \in CandidatesOf(s)}
        IN IF ~ IsDemo(session[s].minutes)
           THEN due = {} \/ due \cap Concepts(targets) # {}
           ELSE Len(targets) >= 2 /\ (\E t \in CandidatesOf(s) : IsGap(t))
                   => targets[Len(targets)].gap

(* Which competencies of the ranking get the questions.                     *)
RightCompetencies == RoundsBeforeRepeats /\ DueAndGapsAreAsked

-----------------------------------------------------------------------------
(* Properties of the frozen questions.                                      *)

Frozen == {s \in Sessions : plan[s].status = "LOCKED"}

TurnsOn(s, c) == {i \in DOMAIN turns[s] : turns[s][i].concept = c}

ServedAsPlanned(s, t) ==
    LET on   == TurnsOn(s, t.concept)
        cost == Cost({turns[s][i].question : i \in on})
    IN IF Counted(s)
       THEN IF t.concept \in uncovered[s] THEN Cardinality(on) < t.count ELSE Cardinality(on) = t.count
       ELSE IF t.concept \in uncovered[s] THEN on = {}
            ELSE Cardinality(on) \in 1..t.most /\ cost \in t.floor..t.envelope

Position(s, c) == CHOOSE i \in DOMAIN plan[s].agenda.targets : plan[s].agenda.targets[i].concept = c

(* A locked session asks no question twice, its competencies in the order   *)
(* of the agenda, each as much as planned or else reported as uncovered,    *)
(* and nothing to be typed where there is no editor                         *)
(* (select_and_freeze_questions).                                           *)
FrozenFitsPlan ==
    \A s \in Frozen :
        /\ \A i, j \in DOMAIN turns[s] :
              i < j => /\ turns[s][i].question # turns[s][j].question
                       /\ Position(s, turns[s][i].concept) <= Position(s, turns[s][j].concept)
        /\ \A i \in DOMAIN plan[s].agenda.targets : ServedAsPlanned(s, plan[s].agenda.targets[i])
        /\ session[s].voice => \A i \in DOMAIN turns[s] : ~ turns[s][i].question.coding

(* A locked plan is never written again, by a plan that was being built     *)
(* when it was locked or by another selection.                              *)
LockedStands ==
    [][\A s \in Frozen : /\ plan'[s] = plan[s] /\ turns'[s] = turns[s]
                         /\ uncovered'[s] = uncovered[s]]_vars

Freezes(s) == s \notin Frozen /\ plan'[s].status = "LOCKED"

StandIns(s, t) ==
    Exact(t, session[s].voice)
    \cup (UNION {OnSkill(Broader[t.concept][i], {"approved"}, session[s].voice) :
                    i \in DOMAIN Broader[t.concept]})
    \cup {q \in UNION {OnRole(RolesOf[t.concept][i], session[s].voice) :
                          i \in DOMAIN RolesOf[t.concept]} : q.skill \in JobConcepts}

(* In a session that counts questions, a draft that nobody reviewed is only *)
(* asked when every reviewed question that could stand for the competency   *)
(* is asked in the session as well (_fallback_candidates).                  *)
DraftsAreLastResort ==
    [][\A s \in Sessions : Freezes(s) /\ Counted(s) =>
          \A i \in DOMAIN turns'[s] : turns'[s][i].source = "draft" =>
              StandIns(s, plan[s].agenda.targets[Position(s, turns'[s][i].concept)])
                 \subseteq {turns'[s][k].question : k \in DOMAIN turns'[s]}]_vars

SameStanding(a, b, level) ==
    /\ Distance(a, level) = Distance(b, level) /\ a.purpose = b.purpose
    /\ (a.far /\ ~ a.localized) = (b.far /\ ~ b.localized)

(* A question on the skill that the candidate met in another session is     *)
(* only asked again when every other of the same standing was met too       *)
(* or is asked in this session (_question_exposure, _candidate_rank).       *)
RotatesQuestions ==
    [][\A s \in Sessions : Freezes(s) /\ Counted(s) /\ ~ IsDemo(session[s].minutes) =>
          \A i \in DOMAIN turns'[s] :
              LET q     == turns'[s][i].question
                  t     == plan[s].agenda.targets[Position(s, turns'[s][i].concept)]
                  exact == Exact(t, session[s].voice)
              IN q \in exact /\ LastSeen(s, q) > 0 =>
                    \A o \in exact : SameStanding(o, q, plan[s].level) /\ LastSeen(s, o) = 0
                        => o \in {turns'[s][k].question : k \in DOMAIN turns'[s]}]_vars

Files(r) == Working(r) /\ call[r].want > 0 /\ bank' # bank /\ call'[r] # call[r]

(* However many requests find the same skill lacking at once, the drafts    *)
(* that are filed and what could be asked already do not exceed what is     *)
(* wanted (ensure_generated_questions).  For a bank of one level, where no  *)
(* draft could stand for another skill.                                     *)
NoSpareDraft ==
    [][\A r \in Requests : Files(r) =>
          LET next == Head(call[r].left)
          IN Cardinality(Reachable(next.concept, next.desired))
                + Cardinality({q \in Questions : bank'[q] # bank[q]}) <= next.desired]_vars
=============================================================================

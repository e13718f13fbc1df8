--------------------------- MODULE PlanFreeze_proofs ---------------------------
(***************************************************************************)
(* Proofs about planning and freezing, for any number of sessions and      *)
(* requests, and for every job, match, policy and bank: a locked plan is    *)
(* never written again (LockedPlansStand), agendas fit their packages and   *)
(* ask the right competencies (PlansFit, RightCompetenciesChosen), the      *)
(* advisory locks keep requests from filing more drafts than wanted         *)
(* (DraftsAreNotSpare), drafts come last and questions rotate               *)
(* (DraftsComeAsLastResort, QuestionsRotate), and what is frozen is what    *)
(* was planned (FrozenFitThePlan).                                          *)
(*                                                                          *)
(* The invariants say what agendas are built from (FromPlanner), what a     *)
(* call has left to do (Kept) and what locked sessions hold (FrozenFit).    *)
(* Most of the module is about data: loops, sums, selections and rankings,  *)
(* by induction over a set of naturals that is closed under successors, and *)
(* on them the planner, the ladder of candidates, the turns of agendas that *)
(* count questions, and the envelopes of those that share out seconds.      *)
(***************************************************************************)
EXTENDS PlanFreeze, FiniteSetTheorems, SequenceTheorems, WellFoundedInduction, TLAPS

(* A session has its package as soon as it has a plan.                      *)
Packaged ==
    /\ DOMAIN plan = Sessions /\ DOMAIN session = Sessions
    /\ \A s \in Sessions : plan[s].status # "none" => session[s] # NoPackage

Stands(s) == plan'[s] = plan[s] /\ turns'[s] = turns[s] /\ uncovered'[s] = uncovered[s]

LEMMA RealPackages == NoPackage \notin Packages
BY PackagesAssumption DEF NoPackage

LEMMA InitPackaged == Init => Packaged
BY DEF Init, Packaged

LEMMA UnwrittenStands ==
    ASSUME Packaged, UNCHANGED <<session, plan, turns, uncovered>>
    PROVE  Packaged' /\ \A s \in Frozen : Stands(s)
BY DEF Packaged, Stands

LEMMA CreateStands ==
    ASSUME Packaged, NEW s \in Sessions, CreateSession(s)
    PROVE  Packaged' /\ \A x \in Frozen : Stands(x)
<1>1. PICK p \in Packages : session' = [session EXCEPT ![s] = p]
  BY DEF CreateSession
<1>2. plan' = [plan EXCEPT ![s].status = "DRAFT"] /\ UNCHANGED <<turns, uncovered>>
  BY DEF CreateSession
<1>3. Packaged'
  BY <1>1, <1>2, RealPackages DEF Packaged
<1>4. s \notin Frozen
  BY DEF CreateSession, Packaged, Frozen
<1> QED BY <1>2, <1>3, <1>4 DEF Packaged, Frozen, Stands

LEMMA PersistStands ==
    ASSUME Packaged, NEW r \in Requests, PersistPlan(r), plan[call[r].s].status # "none"
    PROVE  Packaged' /\ \A x \in Frozen : Stands(x)
<1> DEFINE s == call[r].s
<1>1. UNCHANGED <<session, turns, uncovered>>
  BY DEF PersistPlan
<1>2. CASE plan[s].status = "LOCKED"
  BY <1>1, <1>2, UnwrittenStands DEF PersistPlan
<1>3. CASE plan[s].status # "LOCKED"
  <2>1. PICK written : plan' = [plan EXCEPT ![s] = written]
    BY <1>3 DEF PersistPlan
  <2>2. Packaged'
    BY <1>1, <2>1 DEF Packaged
  <2>3. s \notin Frozen
    BY <1>3 DEF Frozen
  <2> QED BY <1>1, <2>1, <2>2, <2>3 DEF Packaged, Frozen, Stands
<1> QED BY <1>2, <1>3

LEMMA FreezeStands ==
    ASSUME Packaged, NEW r \in Requests, SelectAndFreeze(r)
    PROVE  Packaged' /\ \A x \in Frozen : Stands(x)
<1> DEFINE s == call[r].s
<1>1. UNCHANGED session
  BY DEF SelectAndFreeze
<1>2. CASE UNCHANGED <<plan, turns, uncovered>>
  BY <1>1, <1>2, UnwrittenStands
<1>3. CASE ~ UNCHANGED <<plan, turns, uncovered>>
  <2>1. /\ plan[s].status = "READY"
        /\ plan' = [plan EXCEPT ![s].status = "LOCKED"]
        /\ \E put : turns' = [turns EXCEPT ![s] = put]
        /\ \E short : uncovered' = [uncovered EXCEPT ![s] = short]
    BY <1>3 DEF SelectAndFreeze
  <2>2. Packaged'
    BY <1>1, <2>1 DEF Packaged
  <2>3. s \notin Frozen
    BY <2>1 DEF Frozen
  <2>4. \A x \in Frozen : plan'[x] = plan[x] /\ turns'[x] = turns[x] /\ uncovered'[x] = uncovered[x]
    BY <2>1, <2>3 DEF Packaged, Frozen
  <2> QED BY <2>2, <2>4 DEF Stands
<1> QED BY <1>2, <1>3

-----------------------------------------------------------------------------
(* A plan is only built for a session that has one.                         *)

Building ==
    /\ DOMAIN call = Requests
    /\ \A r \in Requests :
          call[r].at = "planned" => call[r].s \in Sessions /\ plan[call[r].s].status # "none"

(* A plan that is there stays there.                                        *)
PlansStay == \A s \in Sessions : plan[s].status # "none" => plan'[s].status # "none"

LEMMA InitBuilding == Init => Building
BY DEF Init, Building, IdleCall

LEMMA IdleRecord ==
    \E s, a, c : IdleCall = [at |-> "idle", s |-> s, agenda |-> a, level |-> 1, context |-> c,
                           left |-> <<>>, want |-> 0]
BY Zenon DEF IdleCall

(* The three ways in which a call begins.                                   *)
LEMMA BeginsPlanning ==
    ASSUME NEW s, NEW a, NEW c, NEW l
    PROVE  [IdleCall EXCEPT !.at = "planned", !.s = s, !.agenda = a, !.context = c, !.level = l].s = s
BY IdleRecord

LEMMA BeginsFreezing ==
    ASSUME NEW s, NEW l, NEW w
    PROVE  [IdleCall EXCEPT !.at = "freezing", !.s = s, !.level = l, !.left = w].at = "freezing"
BY IdleRecord

LEMMA BeginsCovering ==
    ASSUME NEW l, NEW w
    PROVE  [IdleCall EXCEPT !.at = "covering", !.level = l, !.left = w].at = "covering"
BY IdleRecord

(* What a request is doing after a step: it begins to build a plan, it does *)
(* what it did, or it does something else.                                  *)
LEMMA CallsChange ==
    ASSUME Building, NEW r \in Requests, PlansStay,
           DOMAIN call' = Requests, \A x \in Requests \ {r} : call'[x] = call[x],
           \/ call'[r].at # "planned"
           \/ call'[r].s \in Sessions /\ plan[call'[r].s].status # "none"
    PROVE  Building'
BY DEF Building, PlansStay

LEMMA RequestBuilds ==
    ASSUME Packaged, Building, PlansStay, NEW r \in Requests,
           \/ \E s \in Sessions : StartPlan(r, s) \/ StartFreeze(r, s)
           \/ PersistPlan(r) \/ StartCoverage(r) \/ CountUnderLock(r) \/ FileDrafts(r)
           \/ EndCoverage(r) \/ SelectAndFreeze(r) \/ Die(r)
    PROVE  Building'
<1>0. ASSUME NEW c, call' = [call EXCEPT ![r] = c]
      PROVE  /\ DOMAIN call' = Requests /\ \A x \in Requests \ {r} : call'[x] = call[x]
             /\ call'[r] = c
  BY <1>0 DEF Building
<1>1. ASSUME call' = [call EXCEPT ![r] = IdleCall] PROVE Building'
  <2>1. IdleCall.at = "idle"
    BY IdleRecord
  <2> QED BY <1>0, <1>1, <2>1, CallsChange
<1>2. ASSUME NEW s \in Sessions, StartPlan(r, s) PROVE Building'
  <2>1. PICK m, p : call' = [call EXCEPT ![r] =
                [IdleCall EXCEPT !.at = "planned", !.s = s,
                                 !.agenda = PlanOf[jd][m][session[s]][p],
                                 !.context = [match |-> m, policy |-> p],
                                 !.level = FitAdjusted(jd.level, Tier(m, Gate))]]
    BY <1>2 DEF StartPlan
  <2>2. PICK a, c, l : call' = [call EXCEPT ![r] =
           [IdleCall EXCEPT !.at = "planned", !.s = s, !.agenda = a, !.context = c, !.level = l]]
    BY <2>1, Zenon
  <2>3. [IdleCall EXCEPT !.at = "planned", !.s = s, !.agenda = a, !.context = c, !.level = l].s = s
    BY IdleRecord
  <2>4. PICK d : call' = [call EXCEPT ![r] = d] /\ d.s = s
    BY <2>2, <2>3, Zenon
  <2>5. plan[s].status # "none"
    BY <1>2 DEF StartPlan
  <2> QED BY <1>0, <2>4, <2>5, CallsChange
<1>3. ASSUME NEW s \in Sessions, StartFreeze(r, s) PROVE Building'
  <2>1. \E l, w : call' = [call EXCEPT ![r] =
           [IdleCall EXCEPT !.at = "freezing", !.s = s, !.level = l, !.left = w]]
    BY <1>3, Zenon DEF StartFreeze
  <2>2. PICK l, w : call' = [call EXCEPT ![r] =
           [IdleCall EXCEPT !.at = "freezing", !.s = s, !.level = l, !.left = w]]
    BY <2>1
  <2>3. [IdleCall EXCEPT !.at = "freezing", !.s = s, !.level = l, !.left = w].at = "freezing"
    BY BeginsFreezing, Zenon
  <2>4. PICK d : call' = [call EXCEPT ![r] = d] /\ d.at = "freezing"
    BY <2>2, <2>3, Zenon
  <2> QED BY <1>0, <2>4, CallsChange
<1>4. CASE StartCoverage(r)
  <2>1. \E l, w : call' = [call EXCEPT ![r] =
           [IdleCall EXCEPT !.at = "covering", !.level = l, !.left = w]]
    BY <1>4, Zenon DEF StartCoverage
  <2>2. PICK l, w : call' = [call EXCEPT ![r] =
           [IdleCall EXCEPT !.at = "covering", !.level = l, !.left = w]]
    BY <2>1
  <2>3. [IdleCall EXCEPT !.at = "covering", !.level = l, !.left = w].at = "covering"
    BY BeginsCovering, Zenon
  <2>4. PICK d : call' = [call EXCEPT ![r] = d] /\ d.at = "covering"
    BY <2>2, <2>3, Zenon
  <2> QED BY <1>0, <2>4, CallsChange
<1>5. CASE CountUnderLock(r) \/ FileDrafts(r)
  <2>1. call[r].at \in {"freezing", "covering"}
    BY <1>5 DEF CountUnderLock, FileDrafts, Working
  <2>2. \/ \E w : call' = [call EXCEPT ![r].left = w]
        \/ \E w : call' = [call EXCEPT ![r].want = w]
        \/ \E w, n : call' = [call EXCEPT ![r].left = w, ![r].want = n]
    BY <1>5 DEF CountUnderLock, FileDrafts
  <2> DEFINE Same == /\ DOMAIN call' = Requests /\ \A x \in Requests \ {r} : call'[x] = call[x]
                     /\ call'[r].at = call[r].at
  <2>3. DOMAIN call = Requests
    BY DEF Building
  <2>4. ASSUME NEW w, call' = [call EXCEPT ![r].left = w] PROVE Same
    BY <2>3, <2>4
  <2>5. ASSUME NEW w, call' = [call EXCEPT ![r].want = w] PROVE Same
    BY <2>3, <2>5
  <2>6. ASSUME NEW w, NEW n, call' = [call EXCEPT ![r].left = w, ![r].want = n] PROVE Same
    BY <2>3, <2>6
  <2> QED BY <2>1, <2>2, <2>4, <2>5, <2>6, CallsChange
<1> QED
  BY <1>1, <1>2, <1>3, <1>4, <1>5 DEF PersistPlan, EndCoverage, SelectAndFreeze, Die

-----------------------------------------------------------------------------
(* The theorem.                                                             *)

LEMMA NextStands ==
    ASSUME Packaged, Building, [Next]_vars
    PROVE  Packaged' /\ Building' /\ \A s \in Frozen : Stands(s)
<1>1. ASSUME UNCHANGED <<session, plan, turns, uncovered>>
      PROVE  Packaged' /\ PlansStay /\ \A s \in Frozen : Stands(s)
  BY <1>1, UnwrittenStands DEF PlansStay
<1>2. ASSUME UNCHANGED <<plan, call>> PROVE Building'
  BY <1>2 DEF Building
<1>3. ASSUME NEW s \in Sessions, CreateSession(s)
      PROVE  Packaged' /\ Building' /\ \A x \in Frozen : Stands(x)
  <2>1. PlansStay
    BY <1>3 DEF CreateSession, Packaged, PlansStay
  <2>2. UNCHANGED call
    BY <1>3 DEF CreateSession
  <2>3. Building'
    BY <2>1, <2>2 DEF Building, PlansStay
  <2> QED BY <1>3, <2>3, CreateStands
<1>4. CASE (\E s \in Sessions : AskTurn(s)) \/ (\E q \in Reviewed : ReviewQuestion(q)) \/ UNCHANGED vars
  <2>1. UNCHANGED <<session, plan, turns, uncovered, call>>
    BY <1>4 DEF AskTurn, ReviewQuestion, vars
  <2> QED BY <1>1, <1>2, <2>1
<1>5. ASSUME NEW r \in Requests,
             \/ \E s \in Sessions : StartPlan(r, s) \/ StartFreeze(r, s)
             \/ StartCoverage(r) \/ CountUnderLock(r) \/ FileDrafts(r) \/ EndCoverage(r) \/ Die(r)
      PROVE  Packaged' /\ Building' /\ \A s \in Frozen : Stands(s)
  <2>1. UNCHANGED <<session, plan, turns, uncovered>>
    BY <1>5 DEF StartPlan, StartFreeze, StartCoverage, CountUnderLock, FileDrafts, EndCoverage, Die
  <2> QED BY <1>1, <1>5, <2>1, RequestBuilds
<1>6. ASSUME NEW r \in Requests, PersistPlan(r)
      PROVE  Packaged' /\ Building' /\ \A s \in Frozen : Stands(s)
  <2>1. plan[call[r].s].status # "none"
    BY <1>6 DEF PersistPlan, Building
  <2>2. PlansStay
    BY <1>6 DEF PersistPlan, PlansStay, Packaged
  <2> QED BY <1>6, <2>1, <2>2, PersistStands, RequestBuilds
<1>7. ASSUME NEW r \in Requests, SelectAndFreeze(r)
      PROVE  Packaged' /\ Building' /\ \A s \in Frozen : Stands(s)
  <2>1. plan' = plan \/ plan' = [plan EXCEPT ![call[r].s].status = "LOCKED"]
    BY <1>7 DEF SelectAndFreeze
  <2>2. ASSUME NEW s \in Sessions, plan[s].status # "none" PROVE plan'[s].status # "none"
    <3>1. plan'[s] = plan[s] \/ plan'[s] = [plan[s] EXCEPT !.status = "LOCKED"]
      BY <2>1 DEF Packaged
    <3>2. CASE plan'[s] = [plan[s] EXCEPT !.status = "LOCKED"] /\ plan'[s] # plan[s]
      BY <3>2
    <3> QED BY <2>2, <3>1, <3>2
  <2>3. PlansStay
    BY <2>2 DEF PlansStay
  <2> QED BY <1>7, <2>3, FreezeStands, RequestBuilds
<1> QED BY <1>3, <1>4, <1>5, <1>6, <1>7 DEF Next

(* A locked plan, its turns and what it left uncovered are never written    *)
(* again, by a plan that was being built when it was locked or by another   *)
(* selection.                                                               *)
THEOREM LockedPlansStand == Spec => LockedStands
<1>1. Packaged /\ Building /\ [Next]_vars
        => /\ Packaged' /\ Building'
           /\ [\A s \in Frozen : /\ plan'[s] = plan[s] /\ turns'[s] = turns[s]
                                 /\ uncovered'[s] = uncovered[s]]_vars
  BY NextStands DEF Stands
<1> QED BY <1>1, InitPackaged, InitBuilding, PTL DEF Spec, LockedStands

-----------------------------------------------------------------------------
(* Loops.  No induction theorem of the library can be cited for an         *)
(* operator, but a set of naturals closed under successors is all of them. *)

LEMMA NaturalsFrom ==
    ASSUME NEW S \in SUBSET Nat, 0 \in S, \A n \in S : n + 1 \in S
    PROVE  S = Nat
<1> DEFINE T == Nat \ S
<1>1. ASSUME T # {} PROVE FALSE
  <2>0. T # {} /\ T \subseteq Nat
    BY <1>1
  <2>1. PICK x \in T : \A y \in T : ~ (<<y, x>> \in OpToRel(<, Nat))
    BY <2>0, NatLessThanWellFounded, WFMin, Zenon
  <2>2. \A y \in T : ~ (y < x)
    BY <2>1 DEF OpToRel
  <2>3. x # 0 /\ x - 1 \in Nat /\ x - 1 < x /\ (x - 1) + 1 = x
    OBVIOUS
  <2>4. x - 1 \in S
    BY <2>2, <2>3
  <2>5. (x - 1) + 1 \in S
    BY <2>4
  <2> QED BY <2>3, <2>5
<1>2. T = {}
  <2> HIDE DEF T
  <2> QED BY <1>1
<1>3. S \subseteq Nat /\ Nat \subseteq S
  BY <1>2
<1> QED BY <1>3

LEMMA Rounds == \A n \in Nat : \A i \in 1..n : i \in 0..n /\ i - 1 \in 0..n /\ i # 0
OBVIOUS

LEMMA UpTo ==
    ASSUME NEW n \in Nat, NEW S, 0 \in S, \A i \in 1..n : i - 1 \in S => i \in S
    PROVE  0..n \subseteq S
<1> DEFINE T == {i \in Nat : i <= n => i \in S}
<1>1. 0 \in T
  OBVIOUS
<1>2. ASSUME NEW i \in T PROVE i + 1 \in T
  <2>1. CASE i + 1 <= n
    <3>1. i + 1 \in 1..n /\ (i + 1) - 1 = i /\ i \in S
      BY <2>1
    <3> QED BY <3>1
  <2> QED BY <2>1
<1>3. T = Nat
  <2>1. T \in SUBSET Nat
    OBVIOUS
  <2> HIDE DEF T
  <2> QED BY <1>1, <1>2, <2>1, NaturalsFrom
<1> QED BY <1>3

Loop(n, start, step, it) ==
    it = [i \in 0..n |-> IF i = 0 THEN start ELSE step[<<i, it[i - 1]>>]]

(* A loop whose step is a function of the round and the state has a run.    *)
LEMMA LoopRuns ==
    ASSUME NEW n \in Nat, NEW start, NEW step
    PROVE  \E it : Loop(n, start, step, it)
<1> DEFINE P == {k \in Nat : \E it : Loop(k, start, step, it)}
<1>1. 0 \in P
  <2> DEFINE it == [i \in 0..0 |-> start]
  <2>1. Loop(0, start, step, it)
    BY DEF Loop
  <2> QED BY <2>1
<1>2. ASSUME NEW k \in P PROVE k + 1 \in P
  <2>1. PICK g : Loop(k, start, step, g)
    BY <1>2
  <2> DEFINE h == [i \in 0..(k + 1) |-> IF i = 0 THEN start ELSE step[<<i, g[i - 1]>>]]
  <2>2. \A i \in 0..k : h[i] = g[i]
    BY <2>1 DEF Loop
  <2>3. \A i \in 1..(k + 1) : h[i - 1] = g[i - 1]
    BY <2>2
  <2>4. h = [i \in 0..(k + 1) |-> IF i = 0 THEN start ELSE step[<<i, h[i - 1]>>]]
    <3>1. h = [i \in 0..(k + 1) |-> h[i]]
      OBVIOUS
    <3>2. ASSUME NEW i \in 0..(k + 1)
          PROVE  h[i] = IF i = 0 THEN start ELSE step[<<i, h[i - 1]>>]
      <4>1. h[i] = IF i = 0 THEN start ELSE step[<<i, g[i - 1]>>]
        OBVIOUS
      <4>2. i # 0 => i \in 1..(k + 1)
        OBVIOUS
      <4>3. i # 0 => h[i - 1] = g[i - 1]
        BY <2>3, <4>2
      <4> HIDE DEF h
      <4> QED BY <4>1, <4>3
    <3> HIDE DEF h
    <3> QED BY <3>1, <3>2
  <2>5. k + 1 \in Nat
    BY <1>2
  <2> HIDE DEF h
  <2> QED BY <2>4, <2>5 DEF Loop
<1>3. P = Nat
  <2>1. P \in SUBSET Nat
    OBVIOUS
  <2> HIDE DEF P
  <2> QED BY <1>1, <1>2, <2>1, NaturalsFrom
<1> QED BY <1>3

LEMMA LoopSteps ==
    ASSUME NEW n \in Nat, NEW start, NEW step, NEW it, Loop(n, start, step, it)
    PROVE  /\ DOMAIN it = 0..n /\ it[0] = start
           /\ \A i \in 1..n : it[i] = step[<<i, it[i - 1]>>]
BY DEF Loop

(* In a loop whose state stays in X, the run does as well.                  *)
LEMMA StaysIn ==
    ASSUME NEW n \in Nat, NEW X, NEW it, DOMAIN it = 0..n, it[0] \in X,
           \A i \in 1..n : it[i - 1] \in X => it[i] \in X
    PROVE  \A i \in 0..n : it[i] \in X
<1> DEFINE S == {i \in 0..n : it[i] \in X}
<1>1. 0 \in S
  OBVIOUS
<1>2. ASSUME NEW i \in 1..n, i - 1 \in S PROVE i \in S
  <2>1. i \in 0..n
    OBVIOUS
  <2>2. it[i - 1] \in X
    BY <1>2
  <2> QED BY <2>1, <2>2
<1> HIDE DEF S
<1>3. 0..n \subseteq S
  BY <1>1, <1>2, UpTo
<1> QED BY <1>3 DEF S

LEMMA LoopTyped ==
    ASSUME NEW n \in Nat, NEW X, NEW start \in X, NEW step \in [(1..n) \X X -> X]
    PROVE  \E it \in [0..n -> X] : Loop(n, start, step, it)
<1>1. PICK it : Loop(n, start, step, it)
  BY LoopRuns
<1>2. DOMAIN it = 0..n /\ it[0] = start /\ \A i \in 1..n : it[i] = step[<<i, it[i - 1]>>]
  BY <1>1, LoopSteps
<1>3. \A i \in 1..n : it[i - 1] \in X => it[i] \in X
  BY <1>2
<1>4. \A i \in 0..n : it[i] \in X
  BY <1>2, <1>3, StaysIn
<1>5. it = [i \in 0..n |-> it[i]]
  BY <1>1 DEF Loop
<1> QED BY <1>1, <1>4, <1>5

-----------------------------------------------------------------------------
(* Sums.                                                                    *)

IsSum(s, sum) == sum = [i \in 0..Len(s) |-> IF i = 0 THEN 0 ELSE sum[i - 1] + s[i]]

Numbers(n) == [1..n -> Int]

LEMMA SumSteps ==
    ASSUME NEW n \in Nat, NEW s \in Numbers(n)
    PROVE  \E sum \in [0..n -> Int] :
              /\ SumOf(s) = sum[n] /\ sum[0] = 0
              /\ \A i \in 1..n : sum[i] = sum[i - 1] + s[i]
<1>1. Len(s) = n /\ DOMAIN s = 1..n /\ \A i \in 1..n : s[i] \in Int
  BY DEF Numbers
<1> DEFINE step == [p \in (1..n) \X Int |-> p[2] + s[p[1]]]
<1>2. step \in [(1..n) \X Int -> Int]
  BY <1>1
<1>3. \A i \in 1..n, x \in Int : step[<<i, x>>] = x + s[i]
  OBVIOUS
<1> HIDE DEF step
<1>4. PICK it \in [0..n -> Int] : Loop(n, 0, step, it)
  <2>1. 0 \in Int
    OBVIOUS
  <2> QED BY <1>2, <2>1, LoopTyped
<1>5. IsSum(s, it)
  <2>1. ASSUME NEW i \in 0..n
        PROVE  (IF i = 0 THEN 0 ELSE step[<<i, it[i - 1]>>]) = IF i = 0 THEN 0 ELSE it[i - 1] + s[i]
    <3>1. i # 0 => i \in 1..n /\ it[i - 1] \in Int
      OBVIOUS
    <3> QED BY <1>3, <3>1
  <2>2. it = [i \in 0..n |-> IF i = 0 THEN 0 ELSE it[i - 1] + s[i]]
    BY <1>4, <2>1 DEF Loop
  <2> QED BY <1>1, <2>2 DEF IsSum
<1> DEFINE sum == CHOOSE sum : IsSum(s, sum)
<1>6. IsSum(s, sum)
  BY <1>5, Zenon
<1>7. SumOf(s) = sum[n]
  BY <1>1 DEF SumOf, IsSum
<1> HIDE DEF sum
<1>8. /\ DOMAIN sum = 0..n /\ sum[0] = 0 /\ sum = [i \in 0..n |-> sum[i]]
      /\ \A i \in 1..n : sum[i] = sum[i - 1] + s[i]
  BY <1>1, <1>6 DEF IsSum
<1>9. ASSUME NEW i \in 1..n, sum[i - 1] \in Int PROVE sum[i] \in Int
  <2>1. sum[i] = sum[i - 1] + s[i] /\ s[i] \in Int
    BY <1>1, <1>8
  <2> QED BY <1>9, <2>1
<1>10. \A i \in 0..n : sum[i] \in Int
  <2>1. 0 \in Int
    OBVIOUS
  <2> QED BY <1>8, <1>9, <2>1, StaysIn
<1>11. sum \in [0..n -> Int]
  BY <1>8, <1>10
<1> QED BY <1>7, <1>8, <1>11

LEMMA SumTyped ==
    ASSUME NEW n \in Nat, NEW s \in Numbers(n)
    PROVE  SumOf(s) \in Int /\ (n = 0 => SumOf(s) = 0)
<1>1. PICK sum \in [0..n -> Int] : SumOf(s) = sum[n] /\ sum[0] = 0
  BY SumSteps
<1>2. n \in 0..n
  OBVIOUS
<1> QED BY <1>1, <1>2

LEMMA SumsAdd ==
    ASSUME NEW n \in Nat, NEW a \in Numbers(n), NEW b \in Numbers(n), NEW s \in Numbers(n),
           \A i \in 1..n : s[i] = a[i] + b[i]
    PROVE  SumOf(s) = SumOf(a) + SumOf(b)
<1>1. PICK A \in [0..n -> Int] : /\ SumOf(a) = A[n] /\ A[0] = 0
                                 /\ \A i \in 1..n : A[i] = A[i - 1] + a[i]
  BY SumSteps
<1>2. PICK B \in [0..n -> Int] : /\ SumOf(b) = B[n] /\ B[0] = 0
                                 /\ \A i \in 1..n : B[i] = B[i - 1] + b[i]
  BY SumSteps
<1>3. PICK T \in [0..n -> Int] : /\ SumOf(s) = T[n] /\ T[0] = 0
                                 /\ \A i \in 1..n : T[i] = T[i - 1] + s[i]
  BY SumSteps
<1> DEFINE S == {i \in 0..n : T[i] = A[i] + B[i]}
<1>4. 0 \in S
  BY <1>1, <1>2, <1>3
<1>5. ASSUME NEW i \in 1..n, i - 1 \in S PROVE i \in S
  <2>1. i \in 0..n /\ i - 1 \in 0..n
    OBVIOUS
  <2>2. A[i - 1] \in Int /\ B[i - 1] \in Int /\ a[i] \in Int /\ b[i] \in Int
    BY <2>1 DEF Numbers
  <2>3. T[i - 1] = A[i - 1] + B[i - 1] /\ s[i] = a[i] + b[i]
    BY <1>5
  <2>4. A[i] = A[i - 1] + a[i] /\ B[i] = B[i - 1] + b[i] /\ T[i] = T[i - 1] + s[i]
    BY <1>1, <1>2, <1>3
  <2>5. PICK p \in Int, q \in Int, u \in Int, v \in Int :
           p = A[i - 1] /\ q = B[i - 1] /\ u = a[i] /\ v = b[i]
    BY <2>2
  <2>6. (p + q) + (u + v) = (p + u) + (q + v)
    OBVIOUS
  <2>7. T[i] = A[i] + B[i]
    BY <2>3, <2>4, <2>5, <2>6, Zenon
  <2> QED BY <2>1, <2>7, Zenon
<1> HIDE DEF S
<1>6. n \in S
  <2>1. n \in 0..n
    OBVIOUS
  <2> QED BY <1>4, <1>5, <2>1, UpTo
<1> QED BY <1>1, <1>2, <1>3, <1>6 DEF S

LEMMA SumsScale ==
    ASSUME NEW n \in Nat, NEW a \in Numbers(n), NEW s \in Numbers(n), NEW x \in Int,
           \A i \in 1..n : s[i] = x * a[i]
    PROVE  SumOf(s) = x * SumOf(a)
<1>1. PICK A \in [0..n -> Int] : /\ SumOf(a) = A[n] /\ A[0] = 0
                                 /\ \A i \in 1..n : A[i] = A[i - 1] + a[i]
  BY SumSteps
<1>2. PICK T \in [0..n -> Int] : /\ SumOf(s) = T[n] /\ T[0] = 0
                                 /\ \A i \in 1..n : T[i] = T[i - 1] + s[i]
  BY SumSteps
<1> DEFINE S == {i \in 0..n : T[i] = x * A[i]}
<1>3. 0 \in S
  BY <1>1, <1>2
<1>4. ASSUME NEW i \in 1..n, i - 1 \in S PROVE i \in S
  <2>1. i \in 0..n /\ i - 1 \in 0..n
    OBVIOUS
  <2>2. A[i - 1] \in Int /\ a[i] \in Int
    BY <2>1 DEF Numbers
  <2>3. T[i - 1] = x * A[i - 1] /\ s[i] = x * a[i]
    BY <1>4
  <2>4. A[i] = A[i - 1] + a[i] /\ T[i] = T[i - 1] + s[i]
    BY <1>1, <1>2
  <2>5. PICK p \in Int, u \in Int : p = A[i - 1] /\ u = a[i]
    BY <2>2
  <2>6. x * p + x * u = x * (p + u)
    OBVIOUS
  <2>7. T[i] = x * A[i]
    BY <2>3, <2>4, <2>5, <2>6, Zenon
  <2> QED BY <2>1, <2>7, Zenon
<1> HIDE DEF S
<1>5. n \in S
  <2>1. n \in 0..n
    OBVIOUS
  <2> QED BY <1>3, <1>4, <2>1, UpTo
<1> QED BY <1>1, <1>2, <1>5 DEF S

LEMMA SumsCompare ==
    ASSUME NEW n \in Nat, NEW a \in Numbers(n), NEW b \in Numbers(n),
           \A i \in 1..n : a[i] <= b[i]
    PROVE  SumOf(a) <= SumOf(b)
<1>1. PICK A \in [0..n -> Int] : /\ SumOf(a) = A[n] /\ A[0] = 0
                                 /\ \A i \in 1..n : A[i] = A[i - 1] + a[i]
  BY SumSteps
<1>2. PICK B \in [0..n -> Int] : /\ SumOf(b) = B[n] /\ B[0] = 0
                                 /\ \A i \in 1..n : B[i] = B[i - 1] + b[i]
  BY SumSteps
<1> DEFINE S == {i \in 0..n : A[i] <= B[i]}
<1>3. 0 \in S
  BY <1>1, <1>2
<1>4. ASSUME NEW i \in 1..n, i - 1 \in S PROVE i \in S
  <2>1. i \in 0..n /\ i - 1 \in 0..n
    OBVIOUS
  <2>2. A[i - 1] \in Int /\ B[i - 1] \in Int /\ a[i] \in Int /\ b[i] \in Int
    BY <2>1 DEF Numbers
  <2>3. A[i - 1] <= B[i - 1] /\ a[i] <= b[i]
    BY <1>4
  <2>4. A[i] = A[i - 1] + a[i] /\ B[i] = B[i - 1] + b[i]
    BY <1>1, <1>2
  <2>5. A[i] <= B[i]
    <3>1. \A p, q, u, v \in Int : p <= q /\ u <= v => p + u <= q + v
      OBVIOUS
    <3>2. A[i - 1] + a[i] <= B[i - 1] + b[i]
      BY <2>2, <2>3, <3>1
    <3> QED BY <2>4, <3>2, Zenon
  <2> QED BY <2>1, <2>5, Zenon
<1> HIDE DEF S
<1>5. n \in S
  <2>1. n \in 0..n
    OBVIOUS
  <2> QED BY <1>3, <1>4, <2>1, UpTo
<1> QED BY <1>1, <1>2, <1>5 DEF S

Marks(n, A) == [i \in 1..n |-> IF i \in A THEN 1 ELSE 0]

LEMMA SumOfMarks ==
    ASSUME NEW n \in Nat, NEW A \in SUBSET (1..n)
    PROVE  Marks(n, A) \in Numbers(n) /\ SumOf(Marks(n, A)) = Cardinality(A)
<1>1. Marks(n, A) \in Numbers(n)
  BY DEF Marks, Numbers
<1>2. PICK T \in [0..n -> Int] : /\ SumOf(Marks(n, A)) = T[n] /\ T[0] = 0
                                 /\ \A i \in 1..n : T[i] = T[i - 1] + Marks(n, A)[i]
  BY <1>1, SumSteps
<1>3. IsFiniteSet(A)
  <2>1. IsFiniteSet(1..n)
    BY 1 \in Int /\ n \in Int, FS_Interval, Zenon
  <2> QED BY <2>1, FS_Subset
<1> DEFINE Upto(i) == A \cap (1..i)
           S == {i \in 0..n : T[i] = Cardinality(Upto(i))}
<1>4. 0 \in S
  <2>1. Upto(0) = {}
    OBVIOUS
  <2> HIDE DEF Upto
  <2> QED BY <1>2, <2>1, FS_EmptySet, SMTT(30)
<1>5. ASSUME NEW i \in 1..n, i - 1 \in S PROVE i \in S
  <2>1. i \in 0..n /\ i - 1 \in 0..n
    OBVIOUS
  <2>2. IsFiniteSet(Upto(i - 1))
    BY <1>3, FS_Subset
  <2>3. T[i - 1] = Cardinality(Upto(i - 1))
    BY <1>5
  <2>4. T[i] = T[i - 1] + IF i \in A THEN 1 ELSE 0
    BY <1>2 DEF Marks
  <2>5. i \notin Upto(i - 1)
    OBVIOUS
  <2>6. Upto(i) = IF i \in A THEN Upto(i - 1) \cup {i} ELSE Upto(i - 1)
    OBVIOUS
  <2>7. Cardinality(Upto(i - 1)) \in Nat
    BY <2>2, FS_CardinalityType
  <2>8. Cardinality(Upto(i - 1) \cup {i}) = Cardinality(Upto(i - 1)) + 1
    <3> HIDE DEF Upto
    <3> QED BY <2>2, <2>5, FS_AddElement
  <2>9. T[i] = Cardinality(Upto(i))
    <3> HIDE DEF Upto
    <3> QED BY <2>3, <2>4, <2>6, <2>7, <2>8
  <2> QED BY <2>1, <2>9
<1>6. 0..n \subseteq S
  <2> HIDE DEF S
  <2> QED BY <1>4, <1>5, UpTo
<1>7. Upto(n) = A /\ n \in 0..n
  <2>1. A \subseteq 1..n /\ n \in 0..n
    OBVIOUS
  <2> QED BY <2>1, Zenon
<1>8. T[n] = Cardinality(Upto(n))
  <2> HIDE DEF Upto
  <2> QED BY <1>6, <1>7
<1> HIDE DEF Upto
<1> QED BY <1>1, <1>2, <1>7, <1>8

(* One number more at the end.                                              *)
LEMMA SumOfAppended ==
    ASSUME NEW n \in Nat, NEW a \in Numbers(n), NEW b \in Numbers(n + 1),
           \A i \in 1..n : b[i] = a[i]
    PROVE  SumOf(b) = SumOf(a) + b[n + 1]
<1>1. PICK A \in [0..n -> Int] : /\ SumOf(a) = A[n] /\ A[0] = 0
                                 /\ \A i \in 1..n : A[i] = A[i - 1] + a[i]
  BY SumSteps
<1>2. PICK B \in [0..(n + 1) -> Int] : /\ SumOf(b) = B[n + 1] /\ B[0] = 0
                                       /\ \A i \in 1..(n + 1) : B[i] = B[i - 1] + b[i]
  <2>1. n + 1 \in Nat
    OBVIOUS
  <2> QED BY <2>1, SumSteps
<1> DEFINE S == {i \in 0..n : A[i] = B[i]}
<1>3. 0 \in S
  BY <1>1, <1>2
<1>4. ASSUME NEW i \in 1..n, i - 1 \in S PROVE i \in S
  <2>1. i \in 0..n /\ i \in 1..(n + 1)
    OBVIOUS
  <2>2. A[i - 1] = B[i - 1]
    BY <1>4
  <2>3. A[i] = A[i - 1] + a[i] /\ B[i] = B[i - 1] + b[i] /\ b[i] = a[i]
    BY <1>1, <1>2, <2>1
  <2> QED BY <2>1, <2>2, <2>3
<1> HIDE DEF S
<1>5. n \in S
  <2>1. n \in 0..n
    OBVIOUS
  <2> QED BY <1>3, <1>4, <2>1, UpTo
<1>6. A[n] = B[n]
  BY <1>5 DEF S
<1>7. n + 1 \in 1..(n + 1) /\ (n + 1) - 1 = n
  OBVIOUS
<1>8. B[n + 1] = B[n] + b[n + 1]
  BY <1>2, <1>7
<1> QED BY <1>1, <1>2, <1>6, <1>8

-----------------------------------------------------------------------------
(* Sequences without repetition.                                            *)

Listing(s, S) ==
    /\ IsFiniteSet(S)
    /\ s \in [1..Cardinality(S) -> S]
    /\ \A i, j \in 1..Cardinality(S) : s[i] = s[j] => i = j
    /\ \A x \in S : \E i \in 1..Cardinality(S) : s[i] = x

LEMMA ListingFacts ==
    ASSUME NEW S, NEW s, Listing(s, S)
    PROVE  /\ Cardinality(S) \in Nat /\ DOMAIN s = 1..Cardinality(S) /\ Len(s) = Cardinality(S)
           /\ s \in Seq(S) /\ ToSet(s) = S
<1>1. Cardinality(S) \in Nat
  BY FS_CardinalityType DEF Listing
<1>2. s \in [1..Cardinality(S) -> S]
  BY DEF Listing
<1>3. DOMAIN s = 1..Cardinality(S) /\ Len(s) = Cardinality(S) /\ s \in Seq(S)
  BY <1>1, <1>2
<1>4. ToSet(s) = S
  BY <1>2, <1>3 DEF ToSet, Listing
<1> QED BY <1>1, <1>3, <1>4

LEMMA ListingOf ==
    ASSUME NEW n \in Nat, NEW s, DOMAIN s = 1..n, s = [i \in 1..n |-> s[i]],
           \A i, j \in 1..n : s[i] = s[j] => i = j
    PROVE  Listing(s, ToSet(s)) /\ Cardinality(ToSet(s)) = n
<1>1. ToSet(s) = {s[i] : i \in 1..n}
  BY DEF ToSet
<1>2. s \in [1..n -> ToSet(s)]
  BY <1>1
<1>3. \A x \in ToSet(s) : \E i \in 1..n : s[i] = x
  BY <1>1
<1>4. s \in Bijection(1..n, ToSet(s))
  BY <1>2, <1>3 DEF Bijection, Injection, Surjection, IsInjective
<1>5. ExistsBijection(1..n, ToSet(s))
  BY <1>4 DEF ExistsBijection
<1>6. Cardinality(ToSet(s)) = n /\ IsFiniteSet(ToSet(s))
  BY <1>5, FS_CountingElements, FS_NatBijection
<1> QED BY <1>2, <1>3, <1>6 DEF Listing

-----------------------------------------------------------------------------
(* A selection of a sequence, in its order.                                 *)

IsOnly(s, T, only) ==
    only = [i \in 0..Len(s) |->
               IF i = 0 THEN <<>>
               ELSE IF s[i] \in T THEN Append(only[i - 1], s[i]) ELSE only[i - 1]]

OnlyRun(n, s, T, only) ==
    /\ Only(s, T) = only[n] /\ only[0] = <<>> /\ DOMAIN only = 0..n
    /\ \A i \in 1..n : only[i] = IF s[i] \in T THEN Append(only[i - 1], s[i]) ELSE only[i - 1]

(* Increasing positions, up to i, of what is in T.                          *)
Positions(s, T, i, k, pos) ==
    /\ pos \in [1..k -> 1..i]
    /\ \A a, b \in 1..k : a < b => pos[a] < pos[b]
    /\ \A a \in 1..k : s[pos[a]] \in T
    /\ \A j \in 1..i : s[j] \in T => \E a \in 1..k : pos[a] = j

Subsequence(s, T, i, o) ==
    \E k \in 0..i : \E pos \in [1..k -> 1..i] :
        Positions(s, T, i, k, pos) /\ o = [a \in 1..k |-> s[pos[a]]]

LEMMA OnlySteps ==
    ASSUME NEW n \in Nat, NEW s, DOMAIN s = 1..n, Len(s) = n, NEW T
    PROVE  \E only : OnlyRun(n, s, T, only)
<1> DEFINE X == Seq(ToSet(s))
           step == [p \in (1..n) \X X |-> IF s[p[1]] \in T THEN Append(p[2], s[p[1]]) ELSE p[2]]
<1>1. \A i \in 1..n : s[i] \in ToSet(s)
  BY DEF ToSet
<1>2. step \in [(1..n) \X X -> X]
  <2>1. ASSUME NEW p \in (1..n) \X X PROVE step[p] \in X
    <3>1. p[1] \in 1..n /\ p[2] \in X /\ s[p[1]] \in ToSet(s)
      BY <1>1
    <3>2. Append(p[2], s[p[1]]) \in X
      BY <3>1, AppendProperties
    <3> QED BY <3>1, <3>2
  <2>2. step = [p \in (1..n) \X X |-> step[p]]
    OBVIOUS
  <2> HIDE DEF step, X
  <2> QED BY <2>1, <2>2
<1>3. \A i \in 1..n, x \in X : step[<<i, x>>] = IF s[i] \in T THEN Append(x, s[i]) ELSE x
  OBVIOUS
<1>4. <<>> \in X
  OBVIOUS
<1> HIDE DEF step, X
<1>5. PICK it \in [0..n -> X] : Loop(n, <<>>, step, it)
  BY <1>2, <1>4, LoopTyped
<1>6. IsOnly(s, T, it)
  <2>1. ASSUME NEW i \in 0..n
        PROVE  (IF i = 0 THEN <<>> ELSE step[<<i, it[i - 1]>>])
               = IF i = 0 THEN <<>> ELSE IF s[i] \in T THEN Append(it[i - 1], s[i]) ELSE it[i - 1]
    <3>1. i # 0 => i \in 1..n /\ it[i - 1] \in X
      OBVIOUS
    <3> QED BY <1>3, <3>1
  <2>2. it = [i \in 0..n |-> IF i = 0 THEN <<>>
                             ELSE IF s[i] \in T THEN Append(it[i - 1], s[i]) ELSE it[i - 1]]
    BY <1>5, <2>1 DEF Loop
  <2> QED BY <2>2 DEF IsOnly
<1> DEFINE only == CHOOSE only : IsOnly(s, T, only)
<1>7. IsOnly(s, T, only)
  BY <1>6, Zenon
<1>8. Only(s, T) = only[n]
  BY DEF Only, IsOnly
<1> HIDE DEF only
<1>9. /\ DOMAIN only = 0..n /\ only[0] = <<>>
      /\ \A i \in 1..n :
            only[i] = IF s[i] \in T THEN Append(only[i - 1], s[i]) ELSE only[i - 1]
  <2>1. only = [i \in 0..n |-> IF i = 0 THEN <<>>
                               ELSE IF s[i] \in T THEN Append(only[i - 1], s[i]) ELSE only[i - 1]]
    BY <1>7 DEF IsOnly
  <2>2. DOMAIN only = 0..n
    BY <2>1
  <2>3. \A i \in 0..n : only[i] = IF i = 0 THEN <<>>
                           ELSE IF s[i] \in T THEN Append(only[i - 1], s[i]) ELSE only[i - 1]
    BY <2>1
  <2>4. 0 \in 0..n /\ \A i \in 1..n : i \in 0..n /\ i # 0
    OBVIOUS
  <2> QED BY <2>2, <2>3, <2>4
<1> QED BY <1>8, <1>9 DEF OnlyRun

LEMMA AppendedPosition ==
    ASSUME NEW n \in Nat, NEW s, DOMAIN s = 1..n, NEW T, NEW i \in 1..n, NEW o,
           Subsequence(s, T, i - 1, o)
    PROVE  Subsequence(s, T, i, IF s[i] \in T THEN Append(o, s[i]) ELSE o)
<1>0. PICK k \in 0..(i - 1) : \E pos \in [1..k -> 1..(i - 1)] :
         Positions(s, T, i - 1, k, pos) /\ o = [a \in 1..k |-> s[pos[a]]]
  BY DEF Subsequence
<1>1. PICK pos \in [1..k -> 1..(i - 1)] :
         Positions(s, T, i - 1, k, pos) /\ o = [a \in 1..k |-> s[pos[a]]]
  BY <1>0
<1>2. CASE s[i] \in T
  <2> DEFINE at == [a \in 1..(k + 1) |-> IF a = k + 1 THEN i ELSE pos[a]]
  <2>0. \A a \in 1..(k + 1) : a # k + 1 => a \in 1..k
    OBVIOUS
  <2>1. at \in [1..(k + 1) -> 1..i] /\ k + 1 \in 0..i
    BY <2>0
  <2>2. (\A a \in 1..k : at[a] = pos[a] /\ a \in 1..(k + 1)) /\ at[k + 1] = i
    OBVIOUS
  <2> HIDE DEF at
  <2>3. \A a, b \in 1..(k + 1) : a < b => at[a] < at[b]
    <3> SUFFICES ASSUME NEW a \in 1..(k + 1), NEW b \in 1..(k + 1), a < b PROVE at[a] < at[b]
      OBVIOUS
    <3>1. a \in 1..k /\ at[a] = pos[a] /\ pos[a] \in 1..(i - 1)
      BY <2>2
    <3>2. CASE b = k + 1
      BY <2>2, <3>1, <3>2
    <3>3. CASE b # k + 1
      BY <1>1, <2>0, <2>2, <3>1, <3>3 DEF Positions
    <3> QED BY <3>2, <3>3
  <2>4. \A a \in 1..(k + 1) : s[at[a]] \in T
    BY <1>1, <1>2, <2>0, <2>2 DEF Positions
  <2>5. ASSUME NEW j \in 1..i, s[j] \in T PROVE \E a \in 1..(k + 1) : at[a] = j
    <3>1. CASE j = i
      BY <2>2, <3>1
    <3>2. CASE j # i
      <4>1. j \in 1..(i - 1)
        BY <3>2
      <4>2. PICK a \in 1..k : pos[a] = j
        BY <1>1, <2>5, <4>1 DEF Positions
      <4> QED BY <2>2, <4>2
    <3> QED BY <3>1, <3>2
  <2>6. Positions(s, T, i, k + 1, at)
    BY <2>1, <2>3, <2>4, <2>5 DEF Positions
  <2>7. Append(o, s[i]) = [a \in 1..(k + 1) |-> s[at[a]]]
    <3>1. \A j \in 1..n : s[j] \in ToSet(s)
      BY DEF ToSet
    <3>2. o \in Seq(ToSet(s)) /\ Len(o) = k /\ s[i] \in ToSet(s)
      BY <1>1, <3>1
    <3>3. /\ Append(o, s[i]) \in Seq(ToSet(s)) /\ Len(Append(o, s[i])) = k + 1
          /\ Append(o, s[i])[k + 1] = s[i] /\ \A a \in 1..k : Append(o, s[i])[a] = o[a]
      BY <3>2, AppendProperties
    <3>4. Append(o, s[i]) = [a \in 1..(k + 1) |-> Append(o, s[i])[a]]
      BY <3>3
    <3>5. ASSUME NEW a \in 1..(k + 1) PROVE Append(o, s[i])[a] = s[at[a]]
      <4>1. a \in 1..k => o[a] = s[pos[a]]
        BY <1>1
      <4> QED BY <2>0, <2>2, <3>3, <4>1
    <3> QED BY <3>4, <3>5
  <2> QED BY <1>2, <2>1, <2>6, <2>7 DEF Subsequence
<1>3. CASE s[i] \notin T
  <2>1. k \in 0..i /\ pos \in [1..k -> 1..i]
    OBVIOUS
  <2>2. Positions(s, T, i, k, pos)
    <3>1. ASSUME NEW j \in 1..i, s[j] \in T PROVE \E a \in 1..k : pos[a] = j
      <4>1. j \in 1..(i - 1)
        BY <1>3, <3>1
      <4> QED BY <1>1, <3>1, <4>1 DEF Positions
    <3> QED BY <1>1, <2>1, <3>1 DEF Positions
  <2> QED BY <1>1, <1>3, <2>1, <2>2 DEF Subsequence
<1> QED BY <1>2, <1>3

LEMMA OnlySelects ==
    ASSUME NEW n \in Nat, NEW s, DOMAIN s = 1..n, Len(s) = n, NEW T
    PROVE  Subsequence(s, T, n, Only(s, T))
<1>0. PICK only : OnlyRun(n, s, T, only)
  BY OnlySteps
<1>1. /\ Only(s, T) = only[n] /\ only[0] = <<>>
      /\ \A i \in 1..n : only[i] = IF s[i] \in T THEN Append(only[i - 1], s[i]) ELSE only[i - 1]
  BY <1>0 DEF OnlyRun
<1> DEFINE S == {i \in 0..n : Subsequence(s, T, i, only[i])}
<1>2. 0 \in S
  <2>0. 1..0 = {} /\ <<>> \in [1..0 -> 1..0]
    <3>1. 1..0 = {} /\ DOMAIN <<>> = 1..0
      OBVIOUS
    <3>2. <<>> = [a \in {} |-> a]
      OBVIOUS
    <3> QED BY <3>1, <3>2
  <2>1. Positions(s, T, 0, 0, <<>>) /\ <<>> \in [1..0 -> 1..0]
    BY <2>0 DEF Positions
  <2>2. <<>> = [a \in 1..0 |-> s[<<>>[a]]]
    OBVIOUS
  <2>3. 0 \in 0..0 /\ 0 \in 0..n
    OBVIOUS
  <2>4. Subsequence(s, T, 0, <<>>)
    BY <2>1, <2>2, <2>3 DEF Subsequence
  <2> QED BY <1>1, <2>3, <2>4
<1>3. ASSUME NEW i \in 1..n, i - 1 \in S PROVE i \in S
  <2>1. Subsequence(s, T, i - 1, only[i - 1]) /\ i \in 0..n
    BY <1>3
  <2>2. Subsequence(s, T, i, only[i])
    BY <1>1, <2>1, AppendedPosition
  <2> QED BY <2>1, <2>2
<1> HIDE DEF S
<1>4. n \in S
  <2>1. n \in 0..n
    OBVIOUS
  <2> QED BY <1>2, <1>3, <2>1, UpTo
<1> QED BY <1>1, <1>4 DEF S

LEMMA SubsequenceLists ==
    ASSUME NEW S, NEW s, Listing(s, S), NEW T, NEW o, Subsequence(s, T, Cardinality(S), o)
    PROVE  Listing(o, S \cap T)
<1> DEFINE n == Cardinality(S)
<1>1. n \in Nat /\ s \in [1..n -> S]
  BY ListingFacts DEF Listing
<1>2. \A i, j \in 1..n : s[i] = s[j] => i = j
  BY DEF Listing
<1>3. \A x \in S : \E i \in 1..n : s[i] = x
  BY DEF Listing
<1> HIDE DEF n
<1>4. PICK k \in 0..n : \E pos \in [1..k -> 1..n] :
         Positions(s, T, n, k, pos) /\ o = [a \in 1..k |-> s[pos[a]]]
  BY DEF Subsequence, n
<1>5. PICK pos \in [1..k -> 1..n] :
         Positions(s, T, n, k, pos) /\ o = [a \in 1..k |-> s[pos[a]]]
  BY <1>4
<1>6. k \in Nat /\ DOMAIN o = 1..k /\ o = [a \in 1..k |-> o[a]] /\ \A a \in 1..k : o[a] = s[pos[a]]
  BY <1>1, <1>5
<1>7. ASSUME NEW a \in 1..k, NEW b \in 1..k, o[a] = o[b] PROVE a = b
  <2>1. pos[a] = pos[b]
    BY <1>2, <1>6, <1>7
  <2>2. a < b => pos[a] < pos[b]
    BY <1>5 DEF Positions
  <2>3. b < a => pos[b] < pos[a]
    BY <1>5 DEF Positions
  <2>4. pos[a] \in Int /\ pos[b] \in Int /\ a \in Int /\ b \in Int
    BY <1>1
  <2> QED BY <2>1, <2>2, <2>3, <2>4
<1>8. Listing(o, ToSet(o))
  BY <1>6, <1>7, ListingOf
<1>9. ToSet(o) = S \cap T
  <2>1. ASSUME NEW x \in ToSet(o) PROVE x \in S \cap T
    <3>1. PICK a \in 1..k : x = s[pos[a]]
      BY <1>6 DEF ToSet
    <3> QED BY <1>1, <1>5, <3>1 DEF Positions
  <2>2. ASSUME NEW x \in S \cap T PROVE x \in ToSet(o)
    <3>1. PICK j \in 1..n : s[j] = x
      BY <1>3
    <3>2. PICK a \in 1..k : pos[a] = j
      BY <1>5, <3>1 DEF Positions
    <3>3. o[a] = x
      BY <1>6, <3>1, <3>2
    <3> QED BY <1>6, <3>3 DEF ToSet
  <2> QED BY <2>1, <2>2
<1> QED BY <1>8, <1>9

LEMMA OnlyLists ==
    ASSUME NEW S, NEW s, Listing(s, S), NEW T
    PROVE  Listing(Only(s, T), S \cap T)
<1>1. Cardinality(S) \in Nat /\ DOMAIN s = 1..Cardinality(S) /\ Len(s) = Cardinality(S)
  BY ListingFacts
<1>2. Subsequence(s, T, Cardinality(S), Only(s, T))
  BY <1>1, OnlySelects
<1> QED BY <1>2, SubsequenceLists

LEMMA JoinLists ==
    ASSUME NEW A, NEW B, NEW a, NEW b, Listing(a, A), Listing(b, B), A \cap B = {}
    PROVE  /\ Listing(a \o b, A \cup B)
           /\ Cardinality(A \cup B) = Cardinality(A) + Cardinality(B)
<1>1. PICK m \in Nat : /\ m = Cardinality(A) /\ Len(a) = m /\ DOMAIN a = 1..m /\ a \in Seq(A)
                       /\ ToSet(a) = A /\ \A i, j \in 1..m : a[i] = a[j] => i = j
  <2>1. /\ Cardinality(A) \in Nat /\ DOMAIN a = 1..Cardinality(A) /\ Len(a) = Cardinality(A)
        /\ a \in Seq(A) /\ ToSet(a) = A
    BY ListingFacts
  <2>2. \A i, j \in 1..Cardinality(A) : a[i] = a[j] => i = j
    BY DEF Listing
  <2> QED BY <2>1, <2>2
<1>2. PICK n \in Nat : /\ n = Cardinality(B) /\ Len(b) = n /\ DOMAIN b = 1..n /\ b \in Seq(B)
                       /\ ToSet(b) = B /\ \A i, j \in 1..n : b[i] = b[j] => i = j
  <2>1. /\ Cardinality(B) \in Nat /\ DOMAIN b = 1..Cardinality(B) /\ Len(b) = Cardinality(B)
        /\ b \in Seq(B) /\ ToSet(b) = B
    BY ListingFacts
  <2>2. \A i, j \in 1..Cardinality(B) : b[i] = b[j] => i = j
    BY DEF Listing
  <2> QED BY <2>1, <2>2
<1>3. \A i \in 1..m : a[i] \in A
  BY <1>1
<1>4. \A i \in 1..n : b[i] \in B
  BY <1>2
<1>5. /\ a \o b \in Seq(A \cup B) /\ Len(a \o b) = m + n
      /\ \A i \in 1..(m + n) : (a \o b)[i] = IF i <= m THEN a[i] ELSE b[i - m]
  <2>1. a \in Seq(A \cup B) /\ b \in Seq(A \cup B)
    BY <1>1, <1>2
  <2>2. /\ a \o b \in Seq(A \cup B) /\ Len(a \o b) = Len(a) + Len(b)
        /\ \A i \in 1..(Len(a) + Len(b)) : (a \o b)[i] = IF i <= Len(a) THEN a[i] ELSE b[i - Len(a)]
    BY <2>1, ConcatProperties, Zenon
  <2> QED BY <1>1, <1>2, <2>2
<1> DEFINE c == a \o b
<1>6. /\ c \in Seq(A \cup B) /\ Len(c) = m + n
      /\ \A i \in 1..(m + n) : c[i] = IF i <= m THEN a[i] ELSE b[i - m]
  BY <1>5
<1> HIDE DEF c
<1>7. m + n \in Nat /\ DOMAIN c = 1..(m + n) /\ c = [i \in 1..(m + n) |-> c[i]]
  BY <1>6
<1>8. ASSUME NEW i \in 1..(m + n), NEW j \in 1..(m + n), c[i] = c[j] PROVE i = j
  <2>1. \A k \in 1..(m + n) : k <= m => k \in 1..m
    OBVIOUS
  <2>2. \A k \in 1..(m + n) : ~ (k <= m) => k - m \in 1..n
    OBVIOUS
  <2>3. CASE i <= m /\ j <= m
    BY <1>1, <1>6, <1>8, <2>1, <2>3
  <2>4. CASE ~ (i <= m) /\ ~ (j <= m)
    <3>1. b[i - m] = b[j - m] /\ i - m \in 1..n /\ j - m \in 1..n
      BY <1>6, <1>8, <2>2, <2>4
    <3>2. i - m = j - m
      BY <1>2, <3>1
    <3> QED BY <3>2
  <2>5. CASE i <= m /\ ~ (j <= m)
    <3>1. c[i] \in A /\ c[j] \in B
      BY <1>3, <1>4, <1>6, <2>1, <2>2, <2>5
    <3> QED BY <1>8, <3>1
  <2>6. CASE ~ (i <= m) /\ j <= m
    <3>1. c[j] \in A /\ c[i] \in B
      BY <1>3, <1>4, <1>6, <2>1, <2>2, <2>6
    <3> QED BY <1>8, <3>1
  <2> QED BY <2>3, <2>4, <2>5, <2>6
<1>9. Listing(c, ToSet(c)) /\ Cardinality(ToSet(c)) = m + n
  BY <1>7, <1>8, ListingOf
<1>10. ToSet(c) = A \cup B
  <2>1. ToSet(c) \subseteq A \cup B
    BY <1>6, <1>7 DEF ToSet
  <2>2. ASSUME NEW x \in A PROVE x \in ToSet(c)
    <3>1. PICK i \in 1..m : a[i] = x
      BY <1>1 DEF ToSet
    <3>2. i \in 1..(m + n) /\ i <= m
      OBVIOUS
    <3>3. c[i] = x
      BY <1>6, <3>1, <3>2
    <3> QED BY <1>7, <3>2, <3>3 DEF ToSet
  <2>3. ASSUME NEW x \in B PROVE x \in ToSet(c)
    <3>1. PICK i \in 1..n : b[i] = x
      BY <1>2 DEF ToSet
    <3>2. i + m \in 1..(m + n) /\ ~ (i + m <= m) /\ (i + m) - m = i
      OBVIOUS
    <3>3. c[i + m] = x
      BY <1>6, <3>1, <3>2
    <3> QED BY <1>7, <3>2, <3>3 DEF ToSet
  <2> QED BY <2>1, <2>2, <2>3
<1> QED BY <1>1, <1>2, <1>9, <1>10 DEF c

LEMMA FirstOfLists ==
    ASSUME NEW S, NEW s, Listing(s, S), NEW k \in Nat
    PROVE  /\ Listing(FirstOf(s, k), ToSet(FirstOf(s, k))) /\ ToSet(FirstOf(s, k)) \subseteq S
           /\ Cardinality(ToSet(FirstOf(s, k))) = Smaller(k, Cardinality(S))
<1>1. PICK n \in Nat : /\ n = Cardinality(S) /\ Len(s) = n /\ s \in [1..n -> S]
                       /\ \A i, j \in 1..n : s[i] = s[j] => i = j
  BY ListingFacts DEF Listing
<1> DEFINE m == Smaller(k, n)
           f == FirstOf(s, k)
<1>2. m \in Nat /\ m <= n
  BY DEF Smaller
<1>3. f = [i \in 1..m |-> s[i]]
  BY <1>1 DEF FirstOf
<1> HIDE DEF m, f
<1>4. DOMAIN f = 1..m /\ f = [i \in 1..m |-> f[i]] /\ \A i \in 1..m : f[i] = s[i] /\ i \in 1..n
  BY <1>2, <1>3
<1>5. \A i, j \in 1..m : f[i] = f[j] => i = j
  BY <1>1, <1>4
<1>6. Listing(f, ToSet(f)) /\ Cardinality(ToSet(f)) = m
  BY <1>2, <1>4, <1>5, ListingOf
<1>7. ToSet(f) \subseteq S
  BY <1>1, <1>4 DEF ToSet
<1> QED BY <1>1, <1>6, <1>7 DEF f, m

LEMMA ReplaceLists ==
    ASSUME NEW S, NEW s, Listing(s, S), NEW x, x \notin S, NEW k \in 1..Cardinality(S)
    PROVE  /\ Listing([s EXCEPT ![k] = x], (S \ {s[k]}) \cup {x})
           /\ Cardinality((S \ {s[k]}) \cup {x}) = Cardinality(S)
<1>1. PICK n \in Nat : /\ n = Cardinality(S) /\ s \in [1..n -> S]
                       /\ \A i, j \in 1..n : s[i] = s[j] => i = j
                       /\ \A y \in S : \E i \in 1..n : s[i] = y
  BY ListingFacts DEF Listing
<1> DEFINE f == [s EXCEPT ![k] = x]
<1>2. /\ DOMAIN f = 1..n /\ f = [i \in 1..n |-> f[i]] /\ k \in 1..n
      /\ \A i \in 1..n : f[i] = IF i = k THEN x ELSE s[i]
  BY <1>1
<1> HIDE DEF f
<1>3. \A i \in 1..n : s[i] # x
  BY <1>1
<1>4. \A i, j \in 1..n : f[i] = f[j] => i = j
  BY <1>1, <1>2, <1>3
<1>5. Listing(f, ToSet(f)) /\ Cardinality(ToSet(f)) = n
  BY <1>2, <1>4, ListingOf
<1>6. ToSet(f) = (S \ {s[k]}) \cup {x}
  <2>1. ASSUME NEW y \in ToSet(f) PROVE y \in (S \ {s[k]}) \cup {x}
    <3>1. PICK i \in 1..n : y = f[i]
      BY <1>2 DEF ToSet
    <3> QED BY <1>1, <1>2, <3>1
  <2>2. ASSUME NEW y \in S \ {s[k]} PROVE y \in ToSet(f)
    <3>1. PICK i \in 1..n : s[i] = y
      BY <1>1
    <3>2. i # k /\ f[i] = y
      BY <1>2, <3>1
    <3> QED BY <1>2, <3>2 DEF ToSet
  <2>3. x \in ToSet(f)
    <3>1. f[k] = x
      BY <1>2
    <3> QED BY <1>2, <3>1 DEF ToSet
  <2> QED BY <2>1, <2>2, <2>3
<1> QED BY <1>1, <1>5, <1>6 DEF f

-----------------------------------------------------------------------------
(* A set in an order.                                                       *)

IsListed(S, first, list) ==
    list = [i \in 0..Cardinality(S) |->
               IF i = 0 THEN <<>>
               ELSE LET before == list[i - 1] IN Append(before, first[S \ ToSet(before)])]

Draws(S, first, o) == Append(o, first[S \ ToSet(o)])

Drawn(S, first, i, o) ==
    /\ o \in [1..i -> S]
    /\ \A a, b \in 1..i : o[a] = o[b] => a = b
    /\ \A a \in 1..i : o[a] = first[S \ {o[b] : b \in 1..(a - 1)}]

LEMMA DrawsMore ==
    ASSUME NEW S, IsFiniteSet(S), NEW first,
           \A T \in SUBSET S : T # {} => first[T] \in T,
           NEW i \in 1..Cardinality(S), NEW o, Drawn(S, first, i - 1, o)
    PROVE  Drawn(S, first, i, Draws(S, first, o))
<1>1. Cardinality(S) \in Nat
  BY FS_CardinalityType
<1>2. PICK k \in Nat : k = i - 1 /\ k < Cardinality(S) /\ i = k + 1
  BY <1>1
<1>3. /\ o \in [1..k -> S] /\ o = [a \in 1..k |-> o[a]] /\ DOMAIN o = 1..k
      /\ \A a, b \in 1..k : o[a] = o[b] => a = b
      /\ \A a \in 1..k : o[a] = first[S \ {o[b] : b \in 1..(a - 1)}]
  BY <1>2 DEF Drawn
<1>4. Cardinality(ToSet(o)) = k
  BY <1>3, ListingOf
<1>5. ToSet(o) = {o[b] : b \in 1..k}
  BY <1>3 DEF ToSet
<1> DEFINE x == first[S \ ToSet(o)]
<1>6. x \in S \ ToSet(o)
  <2>1. S \ ToSet(o) # {}
    <3>1. ToSet(o) \subseteq S
      BY <1>3, <1>5
    <3>2. S = ToSet(o) => FALSE
      BY <1>1, <1>2, <1>4
    <3> QED BY <3>1, <3>2
  <2> QED BY <2>1
<1>7. Draws(S, first, o) = Append(o, x)
  BY DEF Draws
<1>8. x = first[S \ {o[b] : b \in 1..k}]
  BY <1>5
<1> HIDE DEF x
<1> DEFINE c == Append(o, x)
<1>9. c \in Seq(S) /\ Len(c) = k + 1 /\ (\A a \in 1..k : c[a] = o[a]) /\ c[k + 1] = x
  <2>1. o \in Seq(S) /\ Len(o) = k /\ x \in S
    BY <1>3, <1>6
  <2> QED BY <2>1, AppendProperties
<1> HIDE DEF c
<1>10. c \in [1..(k + 1) -> S]
  BY <1>9
<1>11. \A a \in 1..k : o[a] # x
  BY <1>5, <1>6
<1>12. \A a \in 1..(k + 1) : a # k + 1 => a \in 1..k
  OBVIOUS
<1>13. \A a, b \in 1..(k + 1) : c[a] = c[b] => a = b
  BY <1>3, <1>9, <1>11, <1>12
<1>14. ASSUME NEW a \in 1..(k + 1) PROVE c[a] = first[S \ {c[b] : b \in 1..(a - 1)}]
  <2>1. \A b \in 1..(a - 1) : b \in 1..k /\ c[b] = o[b]
    BY <1>9
  <2>2. {c[b] : b \in 1..(a - 1)} = {o[b] : b \in 1..(a - 1)}
    BY <2>1
  <2>3. CASE a = k + 1
    <3>1. a - 1 = k
      BY <2>3
    <3>2. {o[b] : b \in 1..(a - 1)} = {o[b] : b \in 1..k}
      BY <3>1
    <3> QED BY <1>8, <1>9, <2>2, <2>3, <3>2
  <2>4. CASE a # k + 1
    BY <1>3, <1>9, <1>12, <2>2, <2>4
  <2> QED BY <2>3, <2>4
<1>15. Drawn(S, first, k + 1, c)
  BY <1>10, <1>13, <1>14 DEF Drawn
<1> QED BY <1>2, <1>7, <1>15 DEF c

LEMMA DrawnToTheEnd ==
    ASSUME NEW S, IsFiniteSet(S), NEW first,
           \A T \in SUBSET S : T # {} => first[T] \in T,
           NEW it, it[0] = <<>>,
           \A i \in 1..Cardinality(S) :
              it[i - 1] \in Seq(S) => it[i] = Draws(S, first, it[i - 1])
    PROVE  \A i \in 0..Cardinality(S) : Drawn(S, first, i, it[i])
<1>1. Cardinality(S) \in Nat
  BY FS_CardinalityType
<1> DEFINE R == {i \in 0..Cardinality(S) : Drawn(S, first, i, it[i])}
<1>2. 0 \in R
  <2>1. Drawn(S, first, 0, <<>>)
    <3>1. 1..0 = {} /\ <<>> = [a \in {} |-> a]
      OBVIOUS
    <3> QED BY <3>1 DEF Drawn
  <2> QED BY <1>1, <2>1
<1>3. ASSUME NEW i \in 1..Cardinality(S), i - 1 \in R PROVE i \in R
  <2>1. Drawn(S, first, i - 1, it[i - 1]) /\ i \in 0..Cardinality(S) /\ i - 1 \in Nat
    BY <1>1, <1>3
  <2>2. it[i - 1] \in Seq(S)
    BY <2>1 DEF Drawn
  <2>3. it[i] = Draws(S, first, it[i - 1])
    BY <2>2
  <2>4. Drawn(S, first, i, Draws(S, first, it[i - 1]))
    BY <2>1, DrawsMore, Zenon
  <2> QED BY <2>1, <2>3, <2>4
<1> HIDE DEF R
<1>4. 0..Cardinality(S) \subseteq R
  BY <1>1, <1>2, <1>3, UpTo
<1> QED BY <1>4 DEF R

LEMMA ListedLists ==
    ASSUME NEW S, IsFiniteSet(S), NEW first,
           \A T \in SUBSET S : T # {} => first[T] \in T
    PROVE  Listing(Listed(S, first), S) /\ Drawn(S, first, Cardinality(S), Listed(S, first))
<1> DEFINE n == Cardinality(S)
           step == [p \in (1..n) \X Seq(S) |-> Draws(S, first, p[2])]
<1>1. n \in Nat
  BY FS_CardinalityType
<1>2. \A i \in 1..n, x \in Seq(S) : step[<<i, x>>] = Draws(S, first, x)
  OBVIOUS
<1> HIDE DEF step
<1>3. PICK it : Loop(n, <<>>, step, it)
  <2> HIDE DEF n
  <2> QED BY <1>1, LoopRuns
<1>4. DOMAIN it = 0..n /\ it[0] = <<>> /\ \A i \in 1..n : it[i] = step[<<i, it[i - 1]>>]
  <2> HIDE DEF n
  <2> QED BY <1>1, <1>3, LoopSteps
<1>5. \A i \in 0..n : Drawn(S, first, i, it[i])
  <2>1. \A i \in 1..n : it[i - 1] \in Seq(S) => it[i] = Draws(S, first, it[i - 1])
    BY <1>2, <1>4
  <2> QED BY <1>4, <2>1, DrawnToTheEnd
<1>6. \A i \in 1..n : it[i - 1] \in Seq(S)
  <2> SUFFICES ASSUME NEW i \in 1..n PROVE it[i - 1] \in Seq(S)
    OBVIOUS
  <2>1. i - 1 \in 0..n /\ i - 1 \in Nat
    BY <1>1
  <2>2. it[i - 1] \in [1..(i - 1) -> S]
    BY <1>5, <2>1 DEF Drawn
  <2> QED BY <2>1, <2>2
<1>7. IsListed(S, first, it)
  <2>1. ASSUME NEW i \in 0..n
        PROVE  (IF i = 0 THEN <<>> ELSE step[<<i, it[i - 1]>>])
               = IF i = 0 THEN <<>> ELSE Draws(S, first, it[i - 1])
    <3>1. i # 0 => i \in 1..n
      BY <1>1
    <3> QED BY <1>2, <1>6, <3>1
  <2>2. it = [i \in 0..n |-> IF i = 0 THEN <<>> ELSE Draws(S, first, it[i - 1])]
    BY <1>3, <2>1 DEF Loop
  <2> QED BY <2>2 DEF IsListed, Draws
<1> DEFINE list == CHOOSE list : IsListed(S, first, list)
<1>8. IsListed(S, first, list)
  BY <1>7, Zenon
<1>9. Listed(S, first) = list[n]
  BY DEF Listed, IsListed
<1> HIDE DEF list
<1>10. list = [i \in 0..n |-> IF i = 0 THEN <<>> ELSE Draws(S, first, list[i - 1])]
  BY <1>8 DEF IsListed, Draws
<1>11. list[0] = <<>> /\ \A i \in 1..n : list[i] = Draws(S, first, list[i - 1])
  <2>1. \A i \in 0..n : list[i] = IF i = 0 THEN <<>> ELSE Draws(S, first, list[i - 1])
    BY <1>10
  <2>2. 0 \in 0..n /\ \A i \in 1..n : i \in 0..n /\ i # 0
    BY <1>1
  <2> QED BY <2>1, <2>2
<1>12. Drawn(S, first, n, list[n])
  <2>1. n \in 0..n
    BY <1>1
  <2> QED BY <1>11, <2>1, DrawnToTheEnd
<1>13. Listing(list[n], S)
  <2> DEFINE o == list[n]
  <2>1. o \in [1..n -> S] /\ \A a, b \in 1..n : o[a] = o[b] => a = b
    BY <1>12 DEF Drawn
  <2> HIDE DEF o
  <2>2. IsFiniteSet(1..n) /\ Cardinality(1..n) = n
    <3>1. IsFiniteSet(1..n) /\ Cardinality(1..n) = IF 1 > n THEN 0 ELSE n - 1 + 1
      <4>1. 1 \in Int /\ n \in Int
        BY <1>1
      <4> HIDE DEF n
      <4> QED BY <4>1, FS_Interval, Zenon
    <3> QED BY <1>1, <3>1
  <2>3. o \in Injection(1..n, S)
    BY <2>1 DEF Injection, IsInjective
  <2>4. o \in Surjection(1..n, S)
    BY <2>2, <2>3, FS_Injection
  <2>5. \A x \in S : \E i \in 1..n : o[i] = x
    BY <2>4 DEF Surjection
  <2> QED BY <2>1, <2>5 DEF Listing, o
<1> QED BY <1>9, <1>12, <1>13

-----------------------------------------------------------------------------
(* Rankings.                                                                *)

(* A finite set has an element that no other is before, in a strict order.  *)
LEMMA LeastOf ==
    ASSUME NEW S, IsFiniteSet(S), S # {}, NEW before,
           \A x, y, z \in S : <<x, y>> \in before /\ <<y, z>> \in before => <<x, z>> \in before,
           \A x \in S : <<x, x>> \notin before
    PROVE  \E x \in S : \A y \in S \ {x} : <<y, x>> \notin before
<1> DEFINE HasLeast(T) == \E x \in T : \A y \in T \ {x} : <<y, x>> \notin before
           P == {k \in Nat : \A T \in SUBSET S : Cardinality(T) = k + 1 => HasLeast(T)}
<1>1. ASSUME NEW T \in SUBSET S PROVE IsFiniteSet(T) /\ Cardinality(T) \in Nat
  BY FS_Subset, FS_CardinalityType
<1>2. 0 \in P
  <2> SUFFICES ASSUME NEW T \in SUBSET S, Cardinality(T) = 0 + 1 PROVE HasLeast(T)
    OBVIOUS
  <2>1. PICK x : T = {x}
    <3>1. IsFiniteSet(T) /\ Cardinality(T) = 1
      BY <1>1
    <3> QED BY <3>1, FS_Singleton
  <2> QED BY <2>1
<1>3. ASSUME NEW k \in P PROVE k + 1 \in P
  <2> SUFFICES ASSUME NEW T \in SUBSET S, Cardinality(T) = (k + 1) + 1 PROVE HasLeast(T)
    OBVIOUS
  <2>1. k \in Nat /\ IsFiniteSet(T)
    BY <1>1
  <2>2. T # {}
    <3>1. Cardinality(T) # 0
      <4>1. (k + 1) + 1 # 0
        BY <2>1
      <4> QED BY <4>1, Zenon
    <3>2. Cardinality({}) = 0
      BY FS_EmptySet
    <3> QED BY <3>1, <3>2, Zenon
  <2>3. PICK z \in T : TRUE
    BY <2>2
  <2> DEFINE U == T \ {z}
  <2>4. U \in SUBSET S /\ Cardinality(U) = k + 1
    <3>1. Cardinality(U) = IF z \in T THEN Cardinality(T) - 1 ELSE Cardinality(T)
      BY <2>1, FS_RemoveElement, Zenon
    <3>2. Cardinality(U) = ((k + 1) + 1) - 1
      BY <2>3, <3>1
    <3>3. ((k + 1) + 1) - 1 = k + 1
      BY <2>1
    <3> QED BY <3>2, <3>3
  <2>5. HasLeast(U)
    BY <2>4
  <2>6. PICK x \in U : \A y \in U \ {x} : <<y, x>> \notin before
    BY <2>5
  <2>7. x \in S /\ z \in S /\ x # z /\ x \in T
    BY <2>3, <2>4
  <2>8. CASE <<z, x>> \notin before
    <3>1. \A y \in T \ {x} : <<y, x>> \notin before
      BY <2>6, <2>8
    <3> QED BY <2>7, <3>1
  <2>9. CASE <<z, x>> \in before
    <3>1. ASSUME NEW y \in T \ {z}, <<y, z>> \in before PROVE FALSE
      <4>1. <<y, x>> \in before /\ y \in S
        BY <2>7, <2>9, <3>1
      <4> QED BY <2>6, <4>1
    <3> QED BY <2>3, <3>1
  <2> QED BY <2>8, <2>9
<1>4. P = Nat
  <2>1. P \in SUBSET Nat
    OBVIOUS
  <2> HIDE DEF P
  <2> QED BY <1>2, <1>3, <2>1, NaturalsFrom
<1>5. PICK k \in Nat : Cardinality(S) = k + 1
  <2>1. Cardinality(S) \in Nat /\ Cardinality(S) # 0
    BY FS_CardinalityType, FS_EmptySet
  <2>2. Cardinality(S) - 1 \in Nat /\ Cardinality(S) = (Cardinality(S) - 1) + 1
    BY <2>1
  <2> QED BY <2>2
<1>6. k \in P
  BY <1>4
<1> QED BY <1>5, <1>6

IsStrict(S, before) ==
    /\ \A x, y, z \in S : <<x, y>> \in before /\ <<y, z>> \in before => <<x, z>> \in before
    /\ \A x \in S : <<x, x>> \notin before

IsFirst(T, before, x) == x \in T /\ \A y \in T \ {x} : <<y, x>> \notin before

(* Drawing the first of what is left lists a set in order.                  *)
LEMMA InOrderLists ==
    ASSUME NEW S, IsFiniteSet(S), NEW before, IsStrict(S, before), NEW first,
           \A T \in SUBSET S : (\E x \in T : IsFirst(T, before, x)) => IsFirst(T, before, first[T])
    PROVE  /\ Listing(Listed(S, first), S)
           /\ \A a, b \in 1..Cardinality(S) :
                 a < b => <<Listed(S, first)[b], Listed(S, first)[a]>> \notin before
<1>1. ASSUME NEW T \in SUBSET S, T # {} PROVE IsFirst(T, before, first[T])
  <2>1. IsFiniteSet(T)
    BY FS_Subset
  <2>2. /\ \A x, y, z \in T : <<x, y>> \in before /\ <<y, z>> \in before => <<x, z>> \in before
        /\ \A x \in T : <<x, x>> \notin before
    BY DEF IsStrict
  <2>3. \E x \in T : \A y \in T \ {x} : <<y, x>> \notin before
    BY <1>1, <2>1, <2>2, LeastOf
  <2> QED BY <2>3 DEF IsFirst
<1>2. \A T \in SUBSET S : T # {} => first[T] \in T
  BY <1>1 DEF IsFirst
<1> DEFINE o == Listed(S, first)
<1>3. Listing(o, S) /\ Drawn(S, first, Cardinality(S), o)
  BY <1>2, ListedLists
<1> HIDE DEF o
<1>4. Cardinality(S) \in Nat
  BY FS_CardinalityType
<1>5. ASSUME NEW a \in 1..Cardinality(S), NEW b \in 1..Cardinality(S), a < b
      PROVE  <<o[b], o[a]>> \notin before
  <2> DEFINE T == S \ {o[c] : c \in 1..(a - 1)}
  <2>1. o[a] = first[T] /\ o[a] \in S /\ o[b] \in S
    BY <1>3 DEF Drawn
  <2>2. \A c \in 1..(a - 1) : c \in 1..Cardinality(S) /\ c # a /\ c # b
    BY <1>4, <1>5
  <2>3. \A c \in 1..(a - 1) : o[c] # o[b] /\ o[c] # o[a]
    BY <1>3, <2>2 DEF Drawn
  <2>4. o[b] \in T /\ o[a] \in T /\ T \in SUBSET S
    BY <2>1, <2>3
  <2>5. o[b] # o[a]
    BY <1>3, <1>5 DEF Drawn
  <2> HIDE DEF T
  <2>6. IsFirst(T, before, o[a])
    BY <1>1, <2>1, <2>4
  <2> QED BY <2>4, <2>5, <2>6 DEF IsFirst
<1> QED BY <1>3, <1>5 DEF o

IsCandidate(t) ==
    /\ t.must \in BOOLEAN /\ t.weight \in Nat /\ t.career \in BOOLEAN
    /\ t.concept \in Nat /\ t.concept \in DOMAIN Area

CandidateSet(C) ==
    /\ IsFiniteSet(C)
    /\ \A t \in C : IsCandidate(t)
    /\ \A t, u \in C : t.concept = u.concept => t = u

LEMMA BetterIsStrict ==
    ASSUME NEW t, IsCandidate(t)
    PROVE  ~ Better(t, t)
BY DEF Better, IsCandidate

LEMMA BetterIsTransitive ==
    ASSUME NEW t, NEW u, NEW v, IsCandidate(t), IsCandidate(u), IsCandidate(v),
           Better(t, u), Better(u, v)
    PROVE  Better(t, v)
BY DEF Better, IsCandidate

LEMMA RankedLists ==
    ASSUME NEW C, CandidateSet(C)
    PROVE  Listing(Ranked(C), C)
<1> DEFINE first  == [T \in SUBSET C |-> CHOOSE x \in T : \A y \in T \ {x} : ~ Better(y, x)]
           before == {p \in C \X C : Better(p[1], p[2])}
<1>1. Ranked(C) = Listed(C, first)
  BY DEF Ranked, InOrderOf
<1>2. IsFiniteSet(C) /\ \A x \in C : IsCandidate(x)
  BY DEF CandidateSet
<1>3. \A x, y \in C : <<x, y>> \in before <=> Better(x, y)
  OBVIOUS
<1> HIDE DEF before
<1>4. IsStrict(C, before)
  <2>1. ASSUME NEW x \in C, NEW y \in C, NEW z \in C, <<x, y>> \in before, <<y, z>> \in before
        PROVE  <<x, z>> \in before
    BY <1>2, <1>3, <2>1, BetterIsTransitive
  <2>2. \A x \in C : <<x, x>> \notin before
    BY <1>2, <1>3, BetterIsStrict
  <2> QED BY <2>1, <2>2 DEF IsStrict
<1>5. ASSUME NEW T \in SUBSET C, \E x \in T : IsFirst(T, before, x)
      PROVE  IsFirst(T, before, first[T])
  <2>1. \A x \in T : IsFirst(T, before, x) <=> \A y \in T \ {x} : ~ Better(y, x)
    BY <1>3 DEF IsFirst
  <2>2. \E x \in T : \A y \in T \ {x} : ~ Better(y, x)
    BY <1>5, <2>1
  <2>3. first[T] = CHOOSE x \in T : \A y \in T \ {x} : ~ Better(y, x)
    OBVIOUS
  <2> HIDE DEF first
  <2>4. first[T] \in T /\ \A y \in T \ {first[T]} : ~ Better(y, first[T])
    BY <2>2, <2>3, Zenon
  <2> QED BY <2>1, <2>4
<1> HIDE DEF first
<1> QED BY <1>1, <1>2, <1>4, <1>5, InOrderLists

-----------------------------------------------------------------------------
(* The candidates of a job.                                                 *)

LEMMA ImageIsFinite ==
    ASSUME NEW S, IsFiniteSet(S), NEW f
    PROVE  IsFiniteSet({f[x] : x \in S})
<1> DEFINE T == {f[x] : x \in S}
           g == [x \in S |-> f[x]]
<1>1. g \in Surjection(S, T)
  BY DEF Surjection
<1> HIDE DEF g
<1> QED BY <1>1, FS_Surjection

LEMMA JobTyped ==
    ASSUME NEW j \in Jobs
    PROVE  /\ Len(j.reqs) \in Nat /\ DOMAIN j.reqs = 1..Len(j.reqs)
           /\ IsFiniteSet(Required(j)) /\ Required(j) \subseteq DOMAIN Area
           /\ \A r \in DOMAIN j.reqs : IsFiniteSet(j.reqs[r].skills)
<1>1. Len(j.reqs) \in Nat /\ DOMAIN j.reqs = 1..Len(j.reqs)
  BY JobsAssumption
<1>2. \A r \in DOMAIN j.reqs : IsFiniteSet(j.reqs[r].skills) /\ j.reqs[r].skills \subseteq DOMAIN Area
  BY JobsAssumption
<1> DEFINE f == [r \in DOMAIN j.reqs |-> j.reqs[r].skills]
<1>3. IsFiniteSet({f[r] : r \in DOMAIN j.reqs})
  <2>1. IsFiniteSet(DOMAIN j.reqs)
    BY <1>1, 1 \in Int /\ Len(j.reqs) \in Int, FS_Interval, Zenon
  <2> HIDE DEF f
  <2> QED BY <2>1, ImageIsFinite
<1>4. Required(j) = UNION {f[r] : r \in DOMAIN j.reqs}
  BY DEF Required
<1>5. \A T \in {f[r] : r \in DOMAIN j.reqs} : IsFiniteSet(T)
  BY <1>2
<1>6. IsFiniteSet(Required(j))
  <2> HIDE DEF f
  <2> QED BY <1>3, <1>4, <1>5, FS_UNION
<1>7. Required(j) \subseteq DOMAIN Area
  BY <1>2 DEF Required
<1> QED BY <1>1, <1>2, <1>6, <1>7

LEMMA WeightIsNatural ==
    ASSUME NEW j \in Jobs, NEW m \in Matches[j], NEW c
    PROVE  Weight(j, m, c) \in Nat
<1>1. PICK n \in Nat : n = Len(j.reqs) /\ DOMAIN j.reqs = 1..n
  BY JobTyped
<1> DEFINE s == [r \in DOMAIN j.reqs |->
                   IF c \notin j.reqs[r].skills THEN 0
                   ELSE (PriorityWeight[j.reqs[r].priority] * StatusBoost[m.status[r][c]] * 12)
                            \div Cardinality(j.reqs[r].skills)]
           z == [i \in 1..n |-> 0]
<1>2. ASSUME NEW r \in 1..n PROVE s[r] \in Nat
  <2>1. CASE c \notin j.reqs[r].skills
    BY <1>1, <2>1
  <2>2. CASE c \in j.reqs[r].skills
    <3>1. /\ IsFiniteSet(j.reqs[r].skills) /\ j.reqs[r].priority \in DOMAIN PriorityWeight
          /\ m.status[r][c] \in DOMAIN StatusBoost
      BY <1>1, <2>2, JobsAssumption, MatchesAssumption
    <3>2. PriorityWeight[j.reqs[r].priority] \in Nat /\ StatusBoost[m.status[r][c]] \in Nat
      BY <3>1 DEF PriorityWeight, StatusBoost
    <3>3. Cardinality(j.reqs[r].skills) \in Nat \ {0}
      BY <2>2, <3>1, FS_CardinalityType, FS_EmptySet
    <3>4. PICK p \in Nat, b \in Nat, k \in Nat \ {0} :
             /\ p = PriorityWeight[j.reqs[r].priority] /\ b = StatusBoost[m.status[r][c]]
             /\ k = Cardinality(j.reqs[r].skills)
      BY <3>2, <3>3
    <3>5. p * b \in Nat
      OBVIOUS
    <3>6. \A x \in Nat : (x * 12) \div k \in Nat
      OBVIOUS
    <3>7. s[r] = (p * b * 12) \div k
      BY <1>1, <2>2, <3>4
    <3> QED BY <3>5, <3>6, <3>7
  <2> QED BY <2>1, <2>2
<1>3. s = [r \in 1..n |-> s[r]]
  BY <1>1
<1>4. Weight(j, m, c) = SumOf(s)
  BY DEF Weight
<1> HIDE DEF s
<1>5. s \in Numbers(n) /\ z \in Numbers(n)
  BY <1>2, <1>3 DEF Numbers
<1>6. SumOf(z) = 0
  <2>1. z = Marks(n, {})
    BY DEF Marks
  <2>2. {} \in SUBSET (1..n)
    OBVIOUS
  <2> HIDE DEF z
  <2> QED BY <2>1, <2>2, SumOfMarks, FS_EmptySet
<1>7. \A i \in 1..n : z[i] <= s[i]
  BY <1>2
<1> HIDE DEF z
<1>8. SumOf(z) <= SumOf(s) /\ SumOf(s) \in Int
  BY <1>5, <1>7, SumsCompare, SumTyped
<1> QED BY <1>4, <1>6, <1>8

LEMMA FromRequirementsTyped ==
    ASSUME NEW j \in Jobs, NEW m \in Matches[j], NEW c \in Required(j), NEW rs
    PROVE  /\ IsCandidate(FromRequirements(j, m, c, rs))
           /\ FromRequirements(j, m, c, rs).concept = c
<1>1. c \in Nat /\ c \in DOMAIN Area
  BY JobTyped, AreaAssumption
<1>2. Weight(j, m, c) \in Nat
  BY WeightIsNatural
<1> QED BY <1>1, <1>2 DEF FromRequirements, Candidate, IsCandidate

LEMMA FromCareers ==
    ASSUME NEW j \in Jobs, NEW C, NEW f,
           \A i \in 1..Smaller(2, Len(j.careers)) :
              IsCandidate(f[i]) /\ f[i].concept = j.careers[i],
           C = {f[i] : i \in 1..Smaller(2, Len(j.careers))}
    PROVE  CandidateSet(C)
<1>1. PICK n \in Nat : n = Len(j.careers) /\ DOMAIN j.careers = 1..n
  <2>1. Len(j.careers) \in Nat /\ DOMAIN j.careers = 1..Len(j.careers)
    BY JobsAssumption
  <2> QED BY <2>1
<1>2. \A i, k \in 1..n : i # k => j.careers[i] # j.careers[k]
  BY <1>1, JobsAssumption
<1>3. Smaller(2, n) \in Nat /\ \A i \in 1..Smaller(2, n) : i \in 1..n
  BY DEF Smaller
<1>4. IsFiniteSet(1..Smaller(2, n))
  BY <1>3, 1 \in Int /\ Smaller(2, n) \in Int, FS_Interval, Zenon
<1>5. IsFiniteSet(C)
  <2>1. IsFiniteSet({f[x] : x \in 1..Smaller(2, n)})
    BY <1>4, ImageIsFinite
  <2> QED BY <1>1, <2>1
<1>6. \A t \in C : IsCandidate(t)
  OBVIOUS
<1>7. ASSUME NEW t \in C, NEW u \in C, t.concept = u.concept PROVE t = u
  <2>1. PICK i \in 1..Smaller(2, n) : t = f[i]
    BY <1>1
  <2>2. PICK k \in 1..Smaller(2, n) : u = f[k]
    BY <1>1
  <2>3. t.concept = j.careers[i] /\ u.concept = j.careers[k]
    BY <1>1, <2>1, <2>2
  <2>4. i = k
    BY <1>2, <1>3, <1>7, <2>3
  <2> QED BY <2>1, <2>2, <2>4
<1> QED BY <1>5, <1>6, <1>7 DEF CandidateSet

LEMMA FromConcepts ==
    ASSUME NEW S, IsFiniteSet(S), NEW f, \A c \in S : IsCandidate(f[c]) /\ f[c].concept = c
    PROVE  CandidateSet({f[c] : c \in S})
BY ImageIsFinite DEF CandidateSet

LEMMA LegacyCandidatesTyped ==
    ASSUME NEW j \in Jobs, NEW m \in Matches[j]
    PROVE  CandidateSet(LegacyCandidates(j, m))
<1>1. CASE Required(j) = {}
  <2> DEFINE n == Smaller(2, Len(j.careers))
             f == [i \in 1..n |-> Candidate(j.careers[i], IF i = 1 THEN 2 ELSE 1, FALSE, {}, TRUE)]
  <2>1. LegacyCandidates(j, m) = {f[i] : i \in 1..n}
    BY <1>1 DEF LegacyCandidates
  <2>2. ASSUME NEW i \in 1..n PROVE IsCandidate(f[i]) /\ f[i].concept = j.careers[i]
    <3>1. i \in DOMAIN j.careers
      BY JobsAssumption DEF Smaller
    <3>2. j.careers[i] \in Nat /\ j.careers[i] \in DOMAIN Area
      BY <3>1, JobsAssumption, AreaAssumption
    <3> QED BY <3>2 DEF Candidate, IsCandidate
  <2> HIDE DEF f
  <2> QED BY <2>1, <2>2, FromCareers
<1>2. CASE Required(j) # {}
  <2> DEFINE S == {x \in Required(j) : Applicable(j, m, x) # {}}
             f == [c \in S |-> FromRequirements(j, m, c, Applicable(j, m, c))]
  <2>1. LegacyCandidates(j, m) = {f[c] : c \in S}
    BY <1>2 DEF LegacyCandidates
  <2>2. \A c \in S : IsCandidate(f[c]) /\ f[c].concept = c
    BY FromRequirementsTyped
  <2>3. IsFiniteSet(S)
    BY JobTyped, FS_Subset
  <2> HIDE DEF f, S
  <2> QED BY <2>1, <2>2, <2>3, FromConcepts
<1> QED BY <1>1, <1>2

LEMMA DynamicCandidatesTyped ==
    ASSUME NEW j \in Jobs, NEW m \in Matches[j]
    PROVE  CandidateSet(DynamicCandidates(j, m))
<1>1. CASE Required(j) = {}
  <2> DEFINE n == Smaller(2, Len(j.careers))
             f == [i \in 1..n |->
                     Candidate(j.careers[i], IF i = 1 THEN 2 ELSE 1, i = 1, {"unknown"}, TRUE)]
  <2>1. DynamicCandidates(j, m) = {f[i] : i \in 1..n}
    BY <1>1 DEF DynamicCandidates
  <2>2. ASSUME NEW i \in 1..n PROVE IsCandidate(f[i]) /\ f[i].concept = j.careers[i]
    <3>1. i \in DOMAIN j.careers
      BY JobsAssumption DEF Smaller
    <3>2. j.careers[i] \in Nat /\ j.careers[i] \in DOMAIN Area
      BY <3>1, JobsAssumption, AreaAssumption
    <3> QED BY <3>2 DEF Candidate, IsCandidate
  <2> HIDE DEF f
  <2> QED BY <2>1, <2>2, FromCareers
<1>2. CASE Required(j) # {}
  <2> DEFINE S == Required(j)
             f == [c \in S |-> FromRequirements(j, m, c, Requiring(j, c))]
  <2>1. DynamicCandidates(j, m) = {f[c] : c \in S}
    BY <1>2 DEF DynamicCandidates
  <2>2. \A c \in S : IsCandidate(f[c]) /\ f[c].concept = c
    BY FromRequirementsTyped
  <2>3. IsFiniteSet(S)
    BY JobTyped
  <2> HIDE DEF f, S
  <2> QED BY <2>1, <2>2, <2>3, FromConcepts
<1> QED BY <1>1, <1>2

LEMMA SubsetOfCandidates ==
    ASSUME NEW C, CandidateSet(C), NEW D \in SUBSET C
    PROVE  CandidateSet(D)
BY FS_Subset DEF CandidateSet

-----------------------------------------------------------------------------
(* Which candidates of a ranking are taken.                                 *)

Taking(before, t, budget, spread) ==
    IF /\ Cardinality(before) < budget /\ t \notin before
       /\ ~ spread \/ SpreadKey(t) \notin Keys(before)
    THEN before \cup {t} ELSE before

IsPick(ranked, budget, taken, spread, pick) ==
    pick = [i \in 0..Len(ranked) |->
               IF i = 0 THEN taken ELSE Taking(pick[i - 1], ranked[i], budget, spread)]

PickRun(n, ranked, budget, taken, spread, pick) ==
    /\ Pick(ranked, budget, taken, spread) = pick[n] /\ pick[0] = taken
    /\ \A i \in 1..n : pick[i] = Taking(pick[i - 1], ranked[i], budget, spread)

(* What is so after i of the ranking.                                       *)
Taken(ranked, budget, taken, spread, i, R) ==
    /\ taken \subseteq R /\ R \subseteq taken \cup {ranked[j] : j \in 1..i}
    /\ IsFiniteSet(R) /\ Cardinality(R) <= budget
    /\ \A j \in 1..i : \/ Cardinality(R) = budget \/ ranked[j] \in R
                       \/ spread /\ SpreadKey(ranked[j]) \in Keys(R)
    /\ spread => \A t, u \in R : t # u /\ SpreadKey(t) = SpreadKey(u) => t \in taken /\ u \in taken

LEMMA PickSteps ==
    ASSUME NEW n \in Nat, NEW ranked, DOMAIN ranked = 1..n, Len(ranked) = n,
           NEW budget, NEW taken, NEW spread
    PROVE  \E pick : PickRun(n, ranked, budget, taken, spread, pick)
<1> DEFINE X == SUBSET (taken \cup ToSet(ranked))
           step == [p \in (1..n) \X X |-> Taking(p[2], ranked[p[1]], budget, spread)]
<1>1. step \in [(1..n) \X X -> X]
  <2>1. ASSUME NEW p \in (1..n) \X X PROVE Taking(p[2], ranked[p[1]], budget, spread) \in X
    <3>1. p[1] \in 1..n /\ p[2] \in X /\ ranked[p[1]] \in ToSet(ranked)
      BY DEF ToSet
    <3> QED BY <3>1 DEF Taking
  <2> HIDE DEF X
  <2> QED BY <2>1
<1>2. \A i \in 1..n, x \in X : step[<<i, x>>] = Taking(x, ranked[i], budget, spread)
  OBVIOUS
<1>3. taken \in X
  OBVIOUS
<1> HIDE DEF step, X
<1>4. PICK it \in [0..n -> X] : Loop(n, taken, step, it)
  BY <1>1, <1>3, LoopTyped
<1>5. IsPick(ranked, budget, taken, spread, it)
  <2>1. ASSUME NEW i \in 0..n
        PROVE  (IF i = 0 THEN taken ELSE step[<<i, it[i - 1]>>])
               = IF i = 0 THEN taken ELSE Taking(it[i - 1], ranked[i], budget, spread)
    <3>1. i # 0 => i \in 1..n /\ it[i - 1] \in X
      OBVIOUS
    <3> QED BY <1>2, <3>1
  <2>2. it = [i \in 0..n |-> IF i = 0 THEN taken
                             ELSE Taking(it[i - 1], ranked[i], budget, spread)]
    BY <1>4, <2>1 DEF Loop
  <2> QED BY <2>2 DEF IsPick
<1> DEFINE pick == CHOOSE pick : IsPick(ranked, budget, taken, spread, pick)
<1>6. IsPick(ranked, budget, taken, spread, pick)
  BY <1>5, Zenon
<1>7. Pick(ranked, budget, taken, spread) = pick[n]
  BY DEF Pick, IsPick, Taking
<1> HIDE DEF pick
<1>8. pick[0] = taken /\ \A i \in 1..n : pick[i] = Taking(pick[i - 1], ranked[i], budget, spread)
  <2>1. pick = [i \in 0..n |-> IF i = 0 THEN taken
                               ELSE Taking(pick[i - 1], ranked[i], budget, spread)]
    BY <1>6 DEF IsPick
  <2>2. \A i \in 0..n : pick[i] = IF i = 0 THEN taken
                                  ELSE Taking(pick[i - 1], ranked[i], budget, spread)
    BY <2>1
  <2>3. 0 \in 0..n /\ \A i \in 1..n : i \in 0..n /\ i # 0
    OBVIOUS
  <2> QED BY <2>2, <2>3
<1> QED BY <1>7, <1>8 DEF PickRun

LEMMA TakesNext ==
    ASSUME NEW n \in Nat, NEW ranked, NEW budget \in Nat, NEW taken, NEW spread \in BOOLEAN,
           NEW i \in 1..n, NEW R, Taken(ranked, budget, taken, spread, i - 1, R)
    PROVE  Taken(ranked, budget, taken, spread, i, Taking(R, ranked[i], budget, spread))
<1> DEFINE t == ranked[i]
           Q == Taking(R, t, budget, spread)
           More == /\ Cardinality(R) < budget /\ t \notin R
                   /\ ~ spread \/ SpreadKey(t) \notin Keys(R)
<1>1. /\ taken \subseteq R /\ R \subseteq taken \cup {ranked[j] : j \in 1..(i - 1)}
      /\ IsFiniteSet(R) /\ Cardinality(R) <= budget /\ Cardinality(R) \in Nat
  BY FS_CardinalityType DEF Taken
<1>2. \A j \in 1..(i - 1) : \/ Cardinality(R) = budget \/ ranked[j] \in R
                            \/ spread /\ SpreadKey(ranked[j]) \in Keys(R)
  BY DEF Taken
<1>3. spread => \A a, b \in R : a # b /\ SpreadKey(a) = SpreadKey(b) => a \in taken /\ b \in taken
  BY DEF Taken
<1>4. \A j \in 1..i : j \in 1..(i - 1) \/ j = i
  OBVIOUS
<1>5. CASE More
  <2>1. Q = R \cup {t}
    BY <1>5 DEF Taking
  <2>2. IsFiniteSet(Q) /\ Cardinality(Q) = Cardinality(R) + 1
    <3> HIDE DEF t
    <3> QED BY <1>1, <1>5, <2>1, FS_AddElement
  <2>3. taken \subseteq Q /\ Cardinality(Q) <= budget
    BY <1>1, <1>5, <2>1, <2>2
  <2>4. Q \subseteq taken \cup {ranked[j] : j \in 1..i}
    BY <1>1, <2>1
  <2>5. Keys(R) \subseteq Keys(Q) /\ SpreadKey(t) \in Keys(Q)
    BY <2>1 DEF Keys
  <2>6. ASSUME NEW j \in 1..i
        PROVE  ranked[j] \in Q \/ (spread /\ SpreadKey(ranked[j]) \in Keys(Q))
    <3>1. CASE j = i
      BY <2>1, <3>1
    <3>2. CASE j \in 1..(i - 1)
      <4>1. Cardinality(R) # budget
        BY <1>1, <1>5
      <4> QED BY <1>2, <2>1, <2>5, <3>2, <4>1
    <3> QED BY <1>4, <3>1, <3>2
  <2>7. ASSUME spread, NEW a \in Q, NEW b \in Q, a # b, SpreadKey(a) = SpreadKey(b)
        PROVE  a \in taken /\ b \in taken
    <3>1. SpreadKey(t) \notin Keys(R)
      BY <1>5, <2>7
    <3>2. \A x \in R : SpreadKey(x) \in Keys(R)
      BY DEF Keys
    <3>3. a \in R /\ b \in R
      BY <2>1, <2>7, <3>1, <3>2
    <3> QED BY <1>3, <2>7, <3>3
  <2> HIDE DEF Q
  <2>8. Taken(ranked, budget, taken, spread, i, Q)
    BY <2>2, <2>3, <2>4, <2>6, <2>7 DEF Taken
  <2> QED BY <2>8 DEF Q
<1>6. CASE ~ More
  <2>1. Q = R
    BY <1>6 DEF Taking
  <2>2. R \subseteq taken \cup {ranked[j] : j \in 1..i}
    BY <1>1
  <2>3. ASSUME NEW j \in 1..i
        PROVE  \/ Cardinality(R) = budget \/ ranked[j] \in R
               \/ spread /\ SpreadKey(ranked[j]) \in Keys(R)
    <3>1. CASE j = i
      BY <1>1, <1>6, <3>1
    <3>2. CASE j \in 1..(i - 1)
      BY <1>2, <3>2
    <3> QED BY <1>4, <3>1, <3>2
  <2>4. Taken(ranked, budget, taken, spread, i, R)
    BY <1>1, <1>3, <2>2, <2>3 DEF Taken
  <2> QED BY <2>1, <2>4
<1> QED BY <1>5, <1>6

Picks(D, budget, taken, spread, R) ==
    /\ taken \subseteq R /\ R \subseteq taken \cup D
    /\ IsFiniteSet(R) /\ Cardinality(R) <= budget
    /\ \A t \in D : \/ Cardinality(R) = budget \/ t \in R
                    \/ spread /\ SpreadKey(t) \in Keys(R)
    /\ spread => \A t, u \in R : t # u /\ SpreadKey(t) = SpreadKey(u) => t \in taken /\ u \in taken

LEMMA PickTakes ==
    ASSUME NEW D, NEW ranked, Listing(ranked, D), NEW budget \in Nat, NEW taken,
           IsFiniteSet(taken), Cardinality(taken) <= budget, NEW spread \in BOOLEAN
    PROVE  Picks(D, budget, taken, spread, Pick(ranked, budget, taken, spread))
<1> DEFINE n == Cardinality(D)
<1>1. n \in Nat /\ DOMAIN ranked = 1..n /\ Len(ranked) = n
  BY ListingFacts
<1> HIDE DEF n
<1>2. PICK pick : PickRun(n, ranked, budget, taken, spread, pick)
  BY <1>1, PickSteps
<1>3. /\ Pick(ranked, budget, taken, spread) = pick[n] /\ pick[0] = taken
      /\ \A i \in 1..n : pick[i] = Taking(pick[i - 1], ranked[i], budget, spread)
  BY <1>2 DEF PickRun
<1> DEFINE S == {i \in 0..n : Taken(ranked, budget, taken, spread, i, pick[i])}
<1>4. 0 \in S
  <2>1. \A t, u \in taken : t \in taken /\ u \in taken
    OBVIOUS
  <2>2. 1..0 = {} /\ 0 \in 0..n
    BY <1>1
  <2>3. Taken(ranked, budget, taken, spread, 0, taken)
    BY <2>1, <2>2 DEF Taken
  <2> QED BY <1>3, <2>2, <2>3
<1>5. ASSUME NEW i \in 1..n, i - 1 \in S PROVE i \in S
  <2>1. Taken(ranked, budget, taken, spread, i - 1, pick[i - 1]) /\ i \in 0..n
    BY <1>1, <1>5
  <2>2. Taken(ranked, budget, taken, spread, i, Taking(pick[i - 1], ranked[i], budget, spread))
    BY <1>1, <2>1, TakesNext
  <2> QED BY <1>3, <2>1, <2>2
<1> HIDE DEF S
<1>6. n \in S
  <2>1. n \in 0..n
    BY <1>1
  <2> QED BY <1>1, <1>4, <1>5, <2>1, UpTo
<1> DEFINE R == Pick(ranked, budget, taken, spread)
<1>7. Taken(ranked, budget, taken, spread, n, R)
  BY <1>3, <1>6 DEF S
<1> HIDE DEF R
<1>8. {ranked[j] : j \in 1..n} = D
  BY <1>1, ListingFacts DEF ToSet
<1>9. \A t \in D : \/ Cardinality(R) = budget \/ t \in R
                   \/ spread /\ SpreadKey(t) \in Keys(R)
  BY <1>7, <1>8 DEF Taken
<1>10. /\ taken \subseteq R /\ R \subseteq taken \cup D
       /\ IsFiniteSet(R) /\ Cardinality(R) <= budget
       /\ spread => \A t, u \in R :
                       t # u /\ SpreadKey(t) = SpreadKey(u) => t \in taken /\ u \in taken
  BY <1>7, <1>8 DEF Taken
<1> QED BY <1>9, <1>10 DEF R, Picks

-----------------------------------------------------------------------------
(* What selection across rounds keeps.                                      *)

LEMMA BudgetIsPositive ==
    ASSUME NEW minutes \in Nat
    PROVE  QuestionBudget(minutes) \in Nat \ {0}
<1>1. (60 * minutes - (120 + 180 + 180 + 60)) \div (30 + 150 + 60) \in Int
  OBVIOUS
<1>2. \A x \in Int : Larger(1, Smaller(8, x)) \in Nat \ {0}
  BY DEF Larger, Smaller
<1> QED BY <1>1, <1>2 DEF QuestionBudget

LEMMA SameKeySameFocus ==
    ASSUME NEW C, CandidateSet(C), NEW a \in C, NEW b \in C, NEW focus,
           a # b, SpreadKey(a) = SpreadKey(b), InFocus(b, focus)
    PROVE  InFocus(a, focus)
<1>1. a.concept # b.concept
  BY DEF CandidateSet
<1> QED BY <1>1 DEF SpreadKey, InFocus

(* What the sweeps over a ranking leave.                                    *)
Selects(C, budget, focus, reask, D) ==
    /\ D \subseteq C /\ Cardinality(D) = Smaller(budget, Cardinality(C))
    /\ {t \in C : t.concept \in reask} = {} \/ {t \in D : t.concept \in reask} # {}
    /\ \A a, b \in D : a # b /\ SpreadKey(a) = SpreadKey(b) /\ ~ InFocus(a, focus)
                          => Keys(C) = Keys(D)

LEMMA SmallerIsNatural ==
    ASSUME NEW m \in Nat, NEW n \in Nat
    PROVE  /\ Smaller(m, n) \in Nat /\ Smaller(m, n) <= m /\ Smaller(m, n) <= n
           /\ Smaller(m, n) = m \/ Smaller(m, n) = n
BY DEF Smaller

LEMMA AgainIsFew ==
    ASSUME NEW C, NEW ranked, Listing(ranked, C), NEW budget \in Nat \ {0}, NEW reask
    PROVE  LET again == ToSet(FirstOf(Reasked(ranked, reask), budget)) IN
           /\ again \subseteq {t \in C : t.concept \in reask}
           /\ IsFiniteSet(again) /\ Cardinality(again) <= budget /\ Cardinality(again) <= 1
           /\ {t \in C : t.concept \in reask} = {} \/ again # {}
<1> DEFINE Due == {t \in C : t.concept \in reask}
           due == Only(ranked, Due)
           one == FirstOf(due, 1)
           few == FirstOf(one, budget)
<1>1. Listing(due, Due)
  <2>1. C \cap Due = Due
    OBVIOUS
  <2>2. Listing(due, C \cap Due)
    BY OnlyLists
  <2> QED BY <2>1, <2>2
<1>2. Reasked(ranked, reask) = one
  BY ListingFacts DEF Reasked
<1> HIDE DEF due
<1>3. /\ Listing(one, ToSet(one)) /\ ToSet(one) \subseteq Due
      /\ Cardinality(ToSet(one)) = Smaller(1, Cardinality(Due))
  BY <1>1, FirstOfLists
<1> HIDE DEF one
<1>4. /\ Listing(few, ToSet(few)) /\ ToSet(few) \subseteq ToSet(one)
      /\ Cardinality(ToSet(few)) = Smaller(budget, Cardinality(ToSet(one)))
  BY <1>3, FirstOfLists
<1> HIDE DEF few
<1>5. Cardinality(Due) \in Nat /\ (Cardinality(Due) = 0 <=> Due = {}) /\ IsFiniteSet(ToSet(few))
  <2>1. IsFiniteSet(Due) /\ IsFiniteSet(ToSet(few))
    BY <1>1, <1>4 DEF Listing
  <2> QED BY <2>1, FS_CardinalityType, FS_EmptySet
<1>6. Cardinality(ToSet(few)) \in Nat /\ Cardinality(ToSet(few)) <= budget /\ Cardinality(ToSet(few)) <= 1
  BY <1>3, <1>4, <1>5 DEF Smaller
<1>7. Due = {} \/ Cardinality(ToSet(few)) = 1
  BY <1>3, <1>4, <1>5 DEF Smaller
<1>8. Due = {} \/ ToSet(few) # {}
  BY <1>7, FS_EmptySet
<1>9. ToSet(few) \subseteq Due
  BY <1>3, <1>4
<1> QED BY <1>2, <1>5, <1>6, <1>8, <1>9 DEF few, Due

(* Due skills, the round in focus, must-haves, new rounds, and the rest.    *)
Swept(C, budget, focus, again, F, M, onFocus, must, newRounds, chosen) ==
    /\ again \subseteq C /\ IsFiniteSet(again) /\ Cardinality(again) <= 1
    /\ F \subseteq {t \in C : InFocus(t, focus)} /\ M \subseteq C
    /\ Picks(F, budget, again, FALSE, onFocus) /\ Picks(M, budget, onFocus, TRUE, must)
    /\ Picks(C, budget, must, TRUE, newRounds) /\ Picks(C, budget, newRounds, FALSE, chosen)

LEMMA Sweeps ==
    ASSUME NEW C, CandidateSet(C), NEW budget \in Nat \ {0}, NEW focus, NEW again, NEW F, NEW M,
           NEW onFocus, NEW must, NEW newRounds, NEW chosen,
           Swept(C, budget, focus, again, F, M, onFocus, must, newRounds, chosen)
    PROVE  /\ again \subseteq chosen /\ chosen \subseteq C
           /\ Cardinality(chosen) = Smaller(budget, Cardinality(C))
           /\ \A a, b \in chosen :
                 a # b /\ SpreadKey(a) = SpreadKey(b) /\ ~ InFocus(a, focus)
                    => Keys(C) = Keys(chosen)
<1>0. /\ again \subseteq C /\ IsFiniteSet(again) /\ Cardinality(again) <= 1
      /\ F \subseteq {t \in C : InFocus(t, focus)} /\ M \subseteq C
  BY DEF Swept
<1>1. again \subseteq onFocus /\ onFocus \subseteq again \cup F
  BY DEF Swept, Picks
<1>2. /\ onFocus \subseteq must /\ must \subseteq onFocus \cup M
      /\ \A t, u \in must : t # u /\ SpreadKey(t) = SpreadKey(u) => t \in onFocus /\ u \in onFocus
  BY DEF Swept, Picks
<1>3. /\ must \subseteq newRounds /\ newRounds \subseteq must \cup C
      /\ IsFiniteSet(newRounds) /\ Cardinality(newRounds) <= budget
      /\ \A t \in C : \/ Cardinality(newRounds) = budget \/ t \in newRounds
                      \/ SpreadKey(t) \in Keys(newRounds)
      /\ \A t, u \in newRounds : t # u /\ SpreadKey(t) = SpreadKey(u) => t \in must /\ u \in must
  BY DEF Swept, Picks
<1>4. /\ newRounds \subseteq chosen /\ chosen \subseteq newRounds \cup C
      /\ IsFiniteSet(chosen) /\ Cardinality(chosen) <= budget
      /\ \A t \in C : Cardinality(chosen) = budget \/ t \in chosen
  BY DEF Swept, Picks
<1>5. again \subseteq chosen /\ chosen \subseteq C
  BY <1>0, <1>1, <1>2, <1>3, <1>4
<1>6. Cardinality(chosen) = Smaller(budget, Cardinality(C))
  <2>1. /\ IsFiniteSet(C) /\ Cardinality(C) \in Nat /\ Cardinality(chosen) \in Nat
        /\ Cardinality(chosen) <= Cardinality(C)
    <3>1. IsFiniteSet(C)
      BY DEF CandidateSet
    <3>2. Cardinality(C) \in Nat /\ Cardinality(chosen) \in Nat
      BY <1>4, <3>1, FS_CardinalityType
    <3>3. Cardinality(chosen) <= Cardinality(C)
      BY <1>5, <3>1, FS_Subset
    <3> QED BY <3>1, <3>2, <3>3
  <2>2. CASE Cardinality(chosen) = budget
    BY <2>1, <2>2 DEF Smaller
  <2>3. CASE Cardinality(chosen) # budget
    <3>1. chosen = C
      BY <1>4, <1>5, <2>3
    <3>2. Cardinality(C) <= budget
      BY <1>4, <3>1
    <3> QED BY <2>1, <3>1, <3>2 DEF Smaller
  <2> QED BY <2>2, <2>3
<1>7. ASSUME NEW a \in chosen, NEW b \in chosen, a # b, SpreadKey(a) = SpreadKey(b),
             ~ InFocus(a, focus)
      PROVE  Keys(C) = Keys(chosen)
  <2>1. Keys(chosen) \subseteq Keys(C) /\ Keys(newRounds) \subseteq Keys(chosen)
    BY <1>4, <1>5 DEF Keys
  <2>2. ASSUME NEW t \in C, SpreadKey(t) \notin Keys(chosen) PROVE FALSE
    <3>1. Cardinality(newRounds) = budget
      <4>1. t \notin newRounds
        BY <1>4, <2>2 DEF Keys
      <4> QED BY <1>3, <2>1, <2>2, <4>1
    <3>2. chosen = newRounds
      <4>1. Cardinality(newRounds) <= Cardinality(chosen)
        BY <1>4, FS_Subset
      <4>2. Cardinality(chosen) \in Nat
        BY <1>4, FS_CardinalityType
      <4>3. Cardinality(newRounds) = Cardinality(chosen)
        BY <1>4, <3>1, <4>1, <4>2
      <4> QED BY <1>4, <4>3, FS_Subset
    <3>3. a \in onFocus /\ b \in onFocus
      BY <1>2, <1>3, <1>7, <3>2
    <3>4. a \in C /\ b \in C
      BY <1>5
    <3>5. ~ InFocus(b, focus)
      BY <1>7, <3>4, SameKeySameFocus
    <3>6. a \in again /\ b \in again
      BY <1>0, <1>1, <1>7, <3>3, <3>5
    <3>7. Cardinality(again) \in Nat
      BY <1>0, FS_CardinalityType
    <3>8. Cardinality(again) = 0 \/ Cardinality(again) = 1
      BY <1>0, <3>7
    <3>9. CASE Cardinality(again) = 0
      BY <1>0, <3>6, <3>9, FS_EmptySet
    <3>10. CASE Cardinality(again) = 1
      <4>1. PICK x : again = {x}
        BY <1>0, <3>10, FS_Singleton
      <4> QED BY <1>7, <3>6, <4>1
    <3> QED BY <3>8, <3>9, <3>10
  <2>3. Keys(C) \subseteq Keys(chosen)
    BY <2>2 DEF Keys
  <2> QED BY <2>1, <2>3
<1> QED BY <1>5, <1>6, <1>7

LEMMA SelectionSelects ==
    ASSUME NEW C, CandidateSet(C), NEW ranked, Listing(ranked, C), NEW budget \in Nat \ {0},
           NEW focus, NEW reask
    PROVE  LET s == SelectAcrossRounds(ranked, budget, focus, reask) IN
           Listing(s, ToSet(s)) /\ Selects(C, budget, focus, reask, ToSet(s))
<1> DEFINE F         == {t \in C : InFocus(t, focus)}
           M         == {t \in C : t.must}
           again     == ToSet(FirstOf(Reasked(ranked, reask), budget))
           tops      == FirstOf(Only(ranked, F), Larger(1, budget \div 2))
           musts     == Only(ranked, M)
           onFocus   == Pick(tops, budget, again, FALSE)
           must      == Pick(musts, budget, onFocus, TRUE)
           newRounds == Pick(ranked, budget, must, TRUE)
           chosen    == Pick(ranked, budget, newRounds, FALSE)
           s         == SelectAcrossRounds(ranked, budget, focus, reask)
<1>0. ToSet(ranked) = C /\ Len(ranked) = Cardinality(C) /\ Cardinality(C) \in Nat
  BY ListingFacts
<1>1. s = IF budget >= Len(ranked) /\ F = {} THEN ranked
          ELSE Only(ranked, chosen \cap F) \o Only(ranked, chosen \ F)
  BY <1>0 DEF SelectAcrossRounds
<1>2. /\ again \subseteq {t \in C : t.concept \in reask}
      /\ IsFiniteSet(again) /\ Cardinality(again) <= budget /\ Cardinality(again) <= 1
      /\ {t \in C : t.concept \in reask} = {} \/ again # {}
  BY AgainIsFew
<1>3. Listing(tops, ToSet(tops)) /\ ToSet(tops) \subseteq F
  <2>1. Listing(Only(ranked, F), F)
    <3>1. C \cap F = F
      OBVIOUS
    <3> HIDE DEF F
    <3> QED BY <3>1, OnlyLists
  <2>2. Larger(1, budget \div 2) \in Nat
    BY DEF Larger
  <2> HIDE DEF F
  <2> QED BY <2>1, <2>2, FirstOfLists
<1>4. Listing(musts, M) /\ M \subseteq C
  <2>1. C \cap M = M
    OBVIOUS
  <2> HIDE DEF M
  <2> QED BY <2>1, OnlyLists
<1>5. /\ again \subseteq chosen /\ chosen \subseteq C
      /\ Cardinality(chosen) = Smaller(budget, Cardinality(C))
      /\ \A a, b \in chosen :
            a # b /\ SpreadKey(a) = SpreadKey(b) /\ ~ InFocus(a, focus) => Keys(C) = Keys(chosen)
  <2>1. again \subseteq C
    BY <1>2
  <2>0. budget \in Nat /\ TRUE \in BOOLEAN /\ FALSE \in BOOLEAN
    OBVIOUS
  <2> HIDE DEF again, tops, musts, M
  <2>2. Picks(ToSet(tops), budget, again, FALSE, onFocus)
    BY <1>2, <1>3, <2>0, PickTakes
  <2> HIDE DEF onFocus
  <2>3. Picks(M, budget, onFocus, TRUE, must)
    <3>1. IsFiniteSet(onFocus) /\ Cardinality(onFocus) <= budget
      BY <2>2 DEF Picks
    <3> QED BY <1>4, <2>0, <3>1, PickTakes
  <2> HIDE DEF must
  <2>4. Picks(C, budget, must, TRUE, newRounds)
    <3>1. IsFiniteSet(must) /\ Cardinality(must) <= budget
      BY <2>3 DEF Picks
    <3> QED BY <2>0, <3>1, PickTakes
  <2> HIDE DEF newRounds
  <2>5. Picks(C, budget, newRounds, FALSE, chosen)
    <3>1. IsFiniteSet(newRounds) /\ Cardinality(newRounds) <= budget
      BY <2>4 DEF Picks
    <3> QED BY <2>0, <3>1, PickTakes
  <2> HIDE DEF chosen
  <2>6. Swept(C, budget, focus, again, ToSet(tops), M, onFocus, must, newRounds, chosen)
    BY <1>2, <1>3, <1>4, <2>1, <2>2, <2>3, <2>4, <2>5 DEF Swept
  <2> QED BY <2>6, Sweeps
<1> HIDE DEF chosen, again, s
<1>6. CASE budget >= Len(ranked) /\ F = {}
  <2>1. s = ranked
    BY <1>1, <1>6
  <2>2. Cardinality(C) = Smaller(budget, Cardinality(C))
    BY <1>0, <1>6 DEF Smaller
  <2>3. Selects(C, budget, focus, reask, C)
    BY <2>2 DEF Selects
  <2> QED BY <1>0, <2>1, <2>3 DEF s
<1>7. CASE ~ (budget >= Len(ranked) /\ F = {})
  <2>1. s = Only(ranked, chosen \cap F) \o Only(ranked, chosen \ F)
    BY <1>1, <1>7
  <2>2. Listing(Only(ranked, chosen \cap F), chosen \cap F)
    <3>1. C \cap (chosen \cap F) = chosen \cap F
      BY <1>5
    <3> HIDE DEF F
    <3> QED BY <3>1, OnlyLists
  <2>3. Listing(Only(ranked, chosen \ F), chosen \ F)
    <3>1. C \cap (chosen \ F) = chosen \ F
      BY <1>5
    <3> HIDE DEF F
    <3> QED BY <3>1, OnlyLists
  <2>4. (chosen \cap F) \cap (chosen \ F) = {} /\ (chosen \cap F) \cup (chosen \ F) = chosen
    OBVIOUS
  <2>5. Listing(s, chosen)
    <3> HIDE DEF F
    <3>1. Listing(Only(ranked, chosen \cap F) \o Only(ranked, chosen \ F),
                  (chosen \cap F) \cup (chosen \ F))
      BY <2>2, <2>3, <2>4, JoinLists
    <3> QED BY <2>1, <2>4, <3>1
  <2>6. ToSet(s) = chosen
    BY <2>5, ListingFacts
  <2>7. Selects(C, budget, focus, reask, chosen)
    BY <1>2, <1>5 DEF Selects
  <2> QED BY <2>5, <2>6, <2>7 DEF s
<1> QED BY <1>6, <1>7

-----------------------------------------------------------------------------
(* A demo, and then the numbers of questions.                               *)

LEMMA DemoEndsOnAGap ==
    ASSUME NEW C, NEW ranked, Listing(ranked, C), NEW D \in SUBSET C, NEW selected,
           Listing(selected, D)
    PROVE  LET r == DemoTargets(ranked, selected) IN
           /\ Listing(r, ToSet(r)) /\ ToSet(r) \subseteq C
           /\ Cardinality(ToSet(r)) = Cardinality(D)
           /\ Cardinality(D) >= 2 /\ (\E t \in C : IsGap(t)) => IsGap(r[Cardinality(D)])
<1> DEFINE n       == Cardinality(D)
           gaps    == {t \in C : IsGap(t)}
           spare   == Only(ranked, Gaps(ranked) \ ToSet(selected))
           swapped == IF Gaps(selected) # {} \/ spare = <<>> THEN selected
                      ELSE [selected EXCEPT ![Len(selected)] = spare[1]]
           r       == DemoTargets(ranked, selected)
<1>1. /\ n \in Nat /\ Len(selected) = n /\ ToSet(selected) = D /\ ToSet(ranked) = C
      /\ DOMAIN selected = 1..n
  BY ListingFacts
<1>2. Gaps(ranked) = gaps /\ Gaps(selected) = {t \in D : IsGap(t)}
  BY <1>1 DEF Gaps
<1>3. r = IF Len(selected) < 2 THEN selected
          ELSE Only(swapped, ToSet(swapped) \ Gaps(swapped)) \o Only(swapped, Gaps(swapped))
  BY DEF DemoTargets
<1>4. Listing(spare, gaps \ D)
  <2>1. C \cap (gaps \ D) = gaps \ D
    OBVIOUS
  <2>2. Listing(Only(ranked, gaps \ D), C \cap (gaps \ D))
    <3> HIDE DEF gaps
    <3> QED BY OnlyLists
  <2>3. spare = Only(ranked, gaps \ D)
    BY <1>1, <1>2
  <2> QED BY <2>1, <2>2, <2>3
<1>5. CASE n < 2
  <2>1. r = selected
    BY <1>1, <1>3, <1>5
  <2> HIDE DEF r
  <2>2. Listing(r, ToSet(r)) /\ ToSet(r) = D
    BY <1>1, <2>1
  <2> QED BY <1>1, <1>5, <2>2 DEF r
<1>6. CASE ~ (n < 2)
  <2> DEFINE E == ToSet(swapped)
  <2>1. r = Only(swapped, E \ Gaps(swapped)) \o Only(swapped, Gaps(swapped))
    BY <1>1, <1>3, <1>6
  <2>2. /\ Listing(swapped, E) /\ E \subseteq C /\ Cardinality(E) = n
        /\ (\E t \in C : IsGap(t)) => Gaps(swapped) # {}
    <3>1. CASE Gaps(selected) # {} \/ spare = <<>>
      <4>1. swapped = selected
        BY <3>1
      <4>2. E = D
        BY <1>1, <4>1
      <4>3. ASSUME Gaps(selected) = {} PROVE gaps = {}
        <5>1. spare = <<>>
          BY <3>1, <4>3
        <5>2. Len(spare) = 0
          BY <5>1
        <5>3. DOMAIN spare = {} /\ ToSet(spare) = gaps \ D
          <6>1. DOMAIN spare = {}
            BY <5>1
          <6> HIDE DEF spare
          <6> QED BY <1>4, <6>1, ListingFacts
        <5>4. gaps \ D = {}
          BY <5>3 DEF ToSet
        <5> QED BY <1>2, <4>3, <5>4
      <4>4. (\E t \in C : IsGap(t)) => Gaps(swapped) # {}
        BY <4>1, <4>3
      <4> QED BY <4>1, <4>2, <4>4
    <3>2. CASE Gaps(selected) = {} /\ spare # <<>>
      <4> DEFINE x == spare[1]
      <4>1. swapped = [selected EXCEPT ![n] = x]
        BY <1>1, <3>2
      <4>2. x \in gaps \ D
        <5> HIDE DEF spare
        <5>1. /\ spare \in [1..Cardinality(gaps \ D) -> gaps \ D]
              /\ spare \in Seq(gaps \ D) /\ Len(spare) = Cardinality(gaps \ D)
          BY <1>4, ListingFacts DEF Listing
        <5>2. Len(spare) \in Nat /\ Len(spare) # 0
          BY <3>2, <5>1
        <5>3. 1 \in 1..Cardinality(gaps \ D)
          BY <5>1, <5>2
        <5> QED BY <5>1, <5>3
      <4> HIDE DEF x, swapped
      <4>3. n \in 1..Cardinality(D) /\ x \notin D
        BY <1>1, <1>6, <4>2
      <4>4. /\ Listing(swapped, (D \ {selected[n]}) \cup {x})
            /\ Cardinality((D \ {selected[n]}) \cup {x}) = n
        <5>1. /\ Listing([selected EXCEPT ![n] = x], (D \ {selected[n]}) \cup {x})
              /\ Cardinality((D \ {selected[n]}) \cup {x}) = Cardinality(D)
          BY <4>3, ReplaceLists
        <5> QED BY <4>1, <5>1
      <4>5. E = (D \ {selected[n]}) \cup {x}
        BY <4>4, ListingFacts
      <4>6. Gaps(swapped) # {}
        BY <4>2, <4>5 DEF Gaps
      <4>7. E \subseteq C
        BY <4>2, <4>5
      <4> HIDE DEF E
      <4> QED BY <4>4, <4>5, <4>6, <4>7
    <3> QED BY <3>1, <3>2
  <2> DEFINE G == Gaps(swapped)
  <2>3. G \subseteq E /\ \A t \in G : IsGap(t)
    BY DEF Gaps
  <2> HIDE DEF swapped, E, G
  <2>4. Listing(Only(swapped, E \ G), E \ G) /\ Listing(Only(swapped, G), G)
    <3>1. E \cap (E \ G) = E \ G /\ E \cap G = G
      BY <2>3
    <3> QED BY <2>2, <3>1, OnlyLists
  <2> DEFINE head == Only(swapped, E \ G)
             tail == Only(swapped, G)
  <2>5. r = head \o tail
    BY <2>1 DEF E, G
  <2> HIDE DEF r, head, tail
  <2>6. (E \ G) \cap G = {} /\ (E \ G) \cup G = E
    BY <2>3
  <2>7. Listing(r, E) /\ Cardinality(E) = Cardinality(E \ G) + Cardinality(G)
    <3>1. /\ Listing(head \o tail, (E \ G) \cup G)
          /\ Cardinality((E \ G) \cup G) = Cardinality(E \ G) + Cardinality(G)
      BY <2>4, <2>6, JoinLists DEF head, tail
    <3> QED BY <2>5, <2>6, <3>1
  <2>8. ToSet(r) = E
    BY <2>7, ListingFacts
  <2>9. ASSUME \E t \in C : IsGap(t) PROVE IsGap(r[n])
    <3>1. G # {}
      BY <2>2, <2>9 DEF G
    <3>2. /\ Cardinality(G) \in Nat /\ Cardinality(E \ G) \in Nat /\ IsFiniteSet(G)
          /\ Len(head) = Cardinality(E \ G) /\ Len(tail) = Cardinality(G)
          /\ head \in Seq(E \ G) /\ tail \in Seq(G)
          /\ tail \in [1..Cardinality(G) -> G]
      <4>1. Listing(head, E \ G) /\ Listing(tail, G)
        BY <2>4 DEF head, tail
      <4>2. /\ Cardinality(E \ G) \in Nat /\ Len(head) = Cardinality(E \ G) /\ head \in Seq(E \ G)
        BY <4>1, ListingFacts
      <4>3. /\ Cardinality(G) \in Nat /\ Len(tail) = Cardinality(G) /\ tail \in Seq(G)
        BY <4>1, ListingFacts
      <4>4. IsFiniteSet(G) /\ tail \in [1..Cardinality(G) -> G]
        BY <4>1 DEF Listing
      <4> QED BY <4>2, <4>3, <4>4
    <3>3. Cardinality(G) # 0
      BY <3>1, <3>2, FS_EmptySet
    <3>4. head \in Seq(E) /\ tail \in Seq(E)
      BY <2>3, <3>2
    <3>5. \A i \in 1..(Len(head) + Len(tail)) :
             (head \o tail)[i] = IF i <= Len(head) THEN head[i] ELSE tail[i - Len(head)]
      BY <3>4, ConcatProperties, Zenon
    <3>6. n = Cardinality(E \ G) + Cardinality(G)
      BY <2>2, <2>7
    <3>7. n \in 1..(Len(head) + Len(tail)) /\ ~ (n <= Len(head)) /\ n - Len(head) = Cardinality(G)
      BY <3>2, <3>3, <3>6
    <3>8. r[n] = tail[Cardinality(G)]
      BY <2>5, <3>5, <3>7
    <3>9. Cardinality(G) \in 1..Cardinality(G)
      BY <3>2, <3>3
    <3>10. tail[Cardinality(G)] \in G
      BY <3>2, <3>9
    <3> QED BY <2>3, <3>8, <3>10
  <2> QED BY <2>2, <2>7, <2>8, <2>9 DEF r
<1> QED BY <1>5, <1>6

-----------------------------------------------------------------------------
(* How many questions each gets.                                            *)

DeficitOf(weights, budget, counts, i) == weights[i] * budget - counts[i] * SumOf(weights)

IsAhead(weights, budget, counts, i, j) ==
    \/ DeficitOf(weights, budget, counts, i) > DeficitOf(weights, budget, counts, j)
    \/ /\ DeficitOf(weights, budget, counts, i) = DeficitOf(weights, budget, counts, j)
       /\ weights[i] > weights[j] \/ (weights[i] = weights[j] /\ i <= j)

Open(weights, counts) == {i \in DOMAIN weights : counts[i] < MaxQuestionsPerTarget}

Neediest(weights, budget, counts) ==
    CHOOSE i \in Open(weights, counts) :
        \A j \in Open(weights, counts) : IsAhead(weights, budget, counts, i, j)

GiveOne(weights, budget, counts) ==
    IF Open(weights, counts) = {} THEN counts
    ELSE [counts EXCEPT ![Neediest(weights, budget, counts)] = @ + 1]

IsGive(weights, budget, give) ==
    give = [n \in 0..Larger(0, budget - Len(weights)) |->
               IF n = 0 THEN [i \in DOMAIN weights |-> 1]
               ELSE GiveOne(weights, budget, give[n - 1])]

LEMMA NeediestIsOpen ==
    ASSUME NEW k \in Nat, NEW weights \in [1..k -> Nat], NEW budget \in Nat,
           NEW counts \in [1..k -> 1..3], Open(weights, counts) # {}
    PROVE  Neediest(weights, budget, counts) \in Open(weights, counts)
<1> DEFINE O == Open(weights, counts)
           before == {p \in O \X O : ~ IsAhead(weights, budget, counts, p[2], p[1])}
<1>1. O \subseteq 1..k
  BY DEF Open
<1>2. IsFiniteSet(O)
  <2>1. IsFiniteSet(1..k)
    BY 1 \in Int /\ k \in Int, FS_Interval, Zenon
  <2> HIDE DEF O
  <2> QED BY <1>1, <2>1, FS_Subset
<1>3. ASSUME NEW i \in 1..k PROVE DeficitOf(weights, budget, counts, i) \in Int
  <2>1. SumOf(weights) \in Int
    <3>1. weights \in Numbers(k)
      BY DEF Numbers
    <3> QED BY <3>1, SumTyped
  <2>2. PICK w \in Int, b \in Int, c \in Int, t \in Int :
           w = weights[i] /\ b = budget /\ c = counts[i] /\ t = SumOf(weights)
    BY <2>1
  <2>3. w * b - c * t \in Int
    OBVIOUS
  <2> QED BY <2>2, <2>3 DEF DeficitOf
<1>4. \A i, j \in O : <<i, j>> \in before <=> ~ IsAhead(weights, budget, counts, j, i)
  OBVIOUS
<1>5. \A i \in O : i \in Int /\ DeficitOf(weights, budget, counts, i) \in Int /\ weights[i] \in Int
  BY <1>1, <1>3
<1> HIDE DEF O, before
<1>6. ASSUME NEW x \in O, NEW y \in O, NEW z \in O, <<x, y>> \in before, <<y, z>> \in before
      PROVE  <<x, z>> \in before
  <2>1. ~ IsAhead(weights, budget, counts, y, x) /\ ~ IsAhead(weights, budget, counts, z, y)
    BY <1>4, <1>6
  <2>2. /\ x \in Int /\ DeficitOf(weights, budget, counts, x) \in Int /\ weights[x] \in Int
        /\ y \in Int /\ DeficitOf(weights, budget, counts, y) \in Int /\ weights[y] \in Int
        /\ z \in Int /\ DeficitOf(weights, budget, counts, z) \in Int /\ weights[z] \in Int
    BY <1>5
  <2>3. ~ IsAhead(weights, budget, counts, z, x)
    <3>1. PICK p \in Int, q \in Int, r \in Int, u \in Int, v \in Int, w \in Int :
             /\ p = DeficitOf(weights, budget, counts, x) /\ u = weights[x]
             /\ q = DeficitOf(weights, budget, counts, y) /\ v = weights[y]
             /\ r = DeficitOf(weights, budget, counts, z) /\ w = weights[z]
      BY <2>2
    <3>2. ~ (q > p \/ (q = p /\ (v > u \/ (v = u /\ y <= x))))
      BY <2>1, <3>1 DEF IsAhead
    <3>3. ~ (r > q \/ (r = q /\ (w > v \/ (w = v /\ z <= y))))
      BY <2>1, <3>1 DEF IsAhead
    <3>4. x \in Int /\ y \in Int /\ z \in Int
      BY <2>2
    <3>5. ~ (r > p \/ (r = p /\ (w > u \/ (w = u /\ z <= x))))
      BY <3>2, <3>3, <3>4
    <3> QED BY <3>1, <3>5 DEF IsAhead
  <2> QED BY <1>4, <2>3
<1>7. \A x \in O : <<x, x>> \notin before
  BY <1>4, <1>5 DEF IsAhead
<1>8. PICK x \in O : \A y \in O \ {x} : <<y, x>> \notin before
  <2>1. O # {}
    BY DEF O
  <2> QED BY <1>2, <1>6, <1>7, <2>1, LeastOf
<1>9. ASSUME NEW y \in O PROVE IsAhead(weights, budget, counts, x, y)
  <2>1. CASE y = x
    BY <1>5, <2>1 DEF IsAhead
  <2>2. CASE y # x
    BY <1>4, <1>8, <2>2
  <2> QED BY <2>1, <2>2
<1>10. \E i \in O : \A j \in O : IsAhead(weights, budget, counts, i, j)
  BY <1>9
<1> QED BY <1>10 DEF Neediest, O

LEMMA FullCounts ==
    ASSUME NEW k \in Nat, NEW c \in Nat, NEW counts \in [1..k -> Int], \A i \in 1..k : counts[i] = c
    PROVE  SumOf(counts) = c * k
<1> DEFINE M == Marks(k, 1..k)
<1>1. 1..k \in SUBSET (1..k) /\ c \in Int
  OBVIOUS
<1>2. M \in Numbers(k) /\ SumOf(M) = Cardinality(1..k)
  BY <1>1, SumOfMarks
<1>3. Cardinality(1..k) = k
  <2>1. Cardinality(1..k) = IF 1 > k THEN 0 ELSE k - 1 + 1
    BY 1 \in Int /\ k \in Int, FS_Interval, Zenon
  <2> QED BY <2>1
<1>4. counts \in Numbers(k)
  BY DEF Numbers
<1>5. \A i \in 1..k : M[i] = 1
  BY DEF Marks
<1> HIDE DEF M
<1>6. \A i \in 1..k : counts[i] = c * M[i]
  BY <1>5
<1>7. SumOf(counts) = c * SumOf(M)
  BY <1>1, <1>2, <1>4, <1>6, SumsScale
<1> QED BY <1>2, <1>3, <1>7

Given(k, n, counts) == counts \in [1..k -> 1..3] /\ SumOf(counts) = Smaller(k + n, 3 * k)

LEMMA GivesOne ==
    ASSUME NEW k \in Nat, NEW weights \in [1..k -> Nat], NEW budget \in Nat, NEW n \in Nat,
           NEW counts, Given(k, n, counts)
    PROVE  Given(k, n + 1, GiveOne(weights, budget, counts))
<1>1. /\ counts \in [1..k -> 1..3] /\ SumOf(counts) = Smaller(k + n, 3 * k)
      /\ counts \in Numbers(k) /\ SumOf(counts) \in Int
  <2>1. counts \in [1..k -> 1..3] /\ SumOf(counts) = Smaller(k + n, 3 * k)
    BY DEF Given
  <2>2. counts \in Numbers(k)
    BY <2>1 DEF Numbers
  <2> QED BY <2>1, <2>2, SumTyped
<1>2. DOMAIN weights = 1..k
  OBVIOUS
<1>3. CASE Open(weights, counts) = {}
  <2>1. \A i \in 1..k : counts[i] = 3
    <3>1. \A i \in 1..k : ~ (counts[i] < 3)
      BY <1>2, <1>3 DEF Open, MaxQuestionsPerTarget
    <3> QED BY <1>1, <3>1
  <2>2. SumOf(counts) = 3 * k
    <3>1. counts \in [1..k -> Int]
      BY <1>1
    <3> QED BY <2>1, <3>1, FullCounts
  <2>3. Smaller(k + n, 3 * k) = Smaller(k + (n + 1), 3 * k)
    BY <1>1, <2>2 DEF Smaller
  <2>4. GiveOne(weights, budget, counts) = counts
    BY <1>3 DEF GiveOne
  <2> QED BY <1>1, <2>3, <2>4 DEF Given
<1>4. CASE Open(weights, counts) # {}
  <2> DEFINE o == Neediest(weights, budget, counts)
             next == [counts EXCEPT ![o] = @ + 1]
             M == Marks(k, {o})
             T == [i \in 1..k |-> 3]
             B == [i \in 1..k |-> 3 - M[i]]
  <2>1. o \in 1..k /\ counts[o] < 3
    <3>1. o \in Open(weights, counts)
      BY <1>1, <1>4, NeediestIsOpen
    <3> QED BY <1>2, <3>1 DEF Open, MaxQuestionsPerTarget
  <2>2. GiveOne(weights, budget, counts) = next
    BY <1>4 DEF GiveOne
  <2> HIDE DEF o
  <2>3. M \in Numbers(k) /\ SumOf(M) = 1
    <3>1. {o} \in SUBSET (1..k)
      BY <2>1
    <3>2. Cardinality({o}) = 1
      BY FS_Singleton
    <3> QED BY <3>1, <3>2, SumOfMarks
  <2>4. \A i \in 1..k : M[i] = IF i = o THEN 1 ELSE 0
    BY DEF Marks
  <2> HIDE DEF M
  <2>5. next \in [1..k -> 1..3] /\ next \in Numbers(k) /\ \A i \in 1..k : next[i] = counts[i] + M[i]
    <3>1. counts[o] + 1 \in 1..3
      <4>1. counts[o] \in 1..3
        BY <1>1, <2>1
      <4> QED BY <2>1, <4>1
    <3>2. next \in [1..k -> 1..3]
      BY <1>1, <3>1
    <3>3. \A i \in 1..k : next[i] = IF i = o THEN counts[i] + 1 ELSE counts[i]
      BY <1>1
    <3>4. \A i \in 1..k : counts[i] \in Int
      BY <1>1
    <3>5. next \in Numbers(k)
      BY <3>2 DEF Numbers
    <3> HIDE DEF next
    <3>6. ASSUME NEW i \in 1..k PROVE next[i] = counts[i] + M[i]
      <4>1. /\ counts[i] \in Int /\ M[i] = IF i = o THEN 1 ELSE 0
            /\ next[i] = IF i = o THEN counts[i] + 1 ELSE counts[i]
        BY <2>4, <3>3, <3>4
      <4> QED BY <4>1
    <3> QED BY <3>2, <3>5, <3>6
  <2> HIDE DEF next
  <2>6. SumOf(next) = SumOf(counts) + 1
    <3>1. /\ counts \in Numbers(k) /\ M \in Numbers(k) /\ next \in Numbers(k)
          /\ \A i \in 1..k : next[i] = counts[i] + M[i]
      BY <1>1, <2>3, <2>5
    <3>2. SumOf(next) = SumOf(counts) + SumOf(M)
      BY <3>1, SumsAdd
    <3> QED BY <2>3, <3>2
  <2>7. SumOf(counts) < 3 * k
    <3>1. T \in Numbers(k) /\ B \in Numbers(k)
      <4>1. \A i \in 1..k : M[i] \in Int
        BY <2>4
      <4> QED BY <4>1 DEF Numbers
    <3>2. SumOf(T) = 3 * k
      <4>1. T \in [1..k -> Int] /\ 3 \in Nat /\ \A i \in 1..k : T[i] = 3
        OBVIOUS
      <4> HIDE DEF T
      <4> QED BY <4>1, FullCounts
    <3>3. \A i \in 1..k : T[i] = 3 /\ B[i] = 3 - M[i]
      OBVIOUS
    <3> HIDE DEF T, B
    <3>4. \A i \in 1..k : T[i] = B[i] + M[i]
      BY <2>4, <3>3
    <3>5. SumOf(T) = SumOf(B) + SumOf(M)
      BY <2>3, <3>1, <3>4, SumsAdd
    <3>6. \A i \in 1..k : counts[i] <= B[i]
      <4> SUFFICES ASSUME NEW i \in 1..k PROVE counts[i] <= B[i]
        OBVIOUS
      <4>1. B[i] = IF i = o THEN 2 ELSE 3
        BY <2>4, <3>3
      <4>2. counts[i] \in 1..3
        BY <1>1
      <4>3. CASE i = o
        <5>1. counts[i] < 3 /\ B[i] = 2
          BY <2>1, <4>1, <4>3
        <5> QED BY <4>2, <5>1
      <4>4. CASE i # o
        BY <4>1, <4>2, <4>4
      <4> QED BY <4>3, <4>4
    <3>7. SumOf(counts) <= SumOf(B) /\ SumOf(B) \in Int
      BY <1>1, <3>1, <3>6, SumsCompare, SumTyped
    <3> QED BY <1>1, <2>3, <3>2, <3>5, <3>7
  <2>8. SumOf(next) = Smaller(k + (n + 1), 3 * k)
    <3>1. SumOf(counts) = k + n /\ k + n < 3 * k
      BY <1>1, <2>7 DEF Smaller
    <3>2. SumOf(next) = k + (n + 1) /\ k + (n + 1) <= 3 * k
      BY <2>6, <3>1
    <3> QED BY <3>2 DEF Smaller
  <2> QED BY <2>2, <2>5, <2>8 DEF Given
<1> QED BY <1>3, <1>4

LEMMA CountsAddUp ==
    ASSUME NEW k \in Nat, NEW weights \in [1..k -> Nat], NEW budget \in Nat, k <= budget
    PROVE  /\ QuestionCounts(weights, budget) \in [1..k -> 1..MaxQuestionsPerTarget]
           /\ SumOf(QuestionCounts(weights, budget)) = Smaller(budget, MaxQuestionsPerTarget * k)
<1> DEFINE n == Larger(0, budget - Len(weights))
           start == [i \in DOMAIN weights |-> 1]
           X == [1..k -> 1..3]
           step == [p \in (1..n) \X X |-> GiveOne(weights, budget, p[2])]
<1>1. Len(weights) = k /\ DOMAIN weights = 1..k /\ n \in Nat /\ n = budget - k
  BY DEF Larger
<1> HIDE DEF n
<1>2. Given(k, 0, start)
  <2>1. start \in [1..k -> Int] /\ (\A i \in 1..k : start[i] = 1) /\ 1 \in Nat /\ start \in X
    BY <1>1
  <2> HIDE DEF start
  <2>2. SumOf(start) = 1 * k
    BY <2>1, FullCounts
  <2>3. 1 * k = Smaller(k + 0, 3 * k)
    BY DEF Smaller
  <2> QED BY <2>1, <2>2, <2>3 DEF Given
<1>3. \A i \in 1..n, x \in X : step[<<i, x>>] = GiveOne(weights, budget, x)
  OBVIOUS
<1> HIDE DEF step, start
<1>4. PICK it : Loop(n, start, step, it)
  BY <1>1, LoopRuns
<1>5. DOMAIN it = 0..n /\ it[0] = start /\ \A i \in 1..n : it[i] = step[<<i, it[i - 1]>>]
  BY <1>1, <1>4, LoopSteps
<1>6. ASSUME NEW f, f[0] = start,
             \A i \in 1..n : f[i - 1] \in X => f[i] = GiveOne(weights, budget, f[i - 1])
      PROVE  \A i \in 0..n : Given(k, i, f[i])
  <2> DEFINE S == {i \in 0..n : Given(k, i, f[i])}
  <2>1. 0 \in S
    BY <1>1, <1>2, <1>6
  <2>2. ASSUME NEW i \in 1..n, i - 1 \in S PROVE i \in S
    <3>1. Given(k, i - 1, f[i - 1]) /\ i \in 0..n
      BY <1>1, <2>2
    <3>2. f[i] = GiveOne(weights, budget, f[i - 1])
      BY <1>6, <3>1 DEF Given
    <3>3. PICK m \in Nat : m = i - 1 /\ i = m + 1
      BY <1>1
    <3>4. Given(k, m, f[m])
      BY <3>1, <3>3
    <3>5. Given(k, m + 1, GiveOne(weights, budget, f[m]))
      BY <3>4, GivesOne
    <3> QED BY <3>1, <3>2, <3>3, <3>5
  <2> HIDE DEF S
  <2>3. 0..n \subseteq S
    BY <1>1, <2>1, <2>2, UpTo
  <2> QED BY <2>3 DEF S
<1>7. \A i \in 0..n : it[i] \in X
  <2>1. \A i \in 1..n : it[i - 1] \in X => it[i] = GiveOne(weights, budget, it[i - 1])
    BY <1>3, <1>5
  <2>2. \A i \in 0..n : Given(k, i, it[i])
    BY <1>5, <1>6, <2>1
  <2> QED BY <2>2 DEF Given
<1>8. IsGive(weights, budget, it)
  <2>1. ASSUME NEW i \in 0..n
        PROVE  (IF i = 0 THEN start ELSE step[<<i, it[i - 1]>>])
               = IF i = 0 THEN start ELSE GiveOne(weights, budget, it[i - 1])
    <3>1. i # 0 => i \in 1..n /\ i - 1 \in 0..n
      BY <1>1
    <3> QED BY <1>3, <1>7, <3>1
  <2>2. it = [i \in 0..n |-> IF i = 0 THEN start ELSE GiveOne(weights, budget, it[i - 1])]
    <3>1. it = [i \in 0..n |-> IF i = 0 THEN start ELSE step[<<i, it[i - 1]>>]]
      BY <1>4 DEF Loop
    <3> QED BY <2>1, <3>1
  <2> QED BY <2>2 DEF IsGive, n, start
<1> DEFINE give == CHOOSE give : IsGive(weights, budget, give)
<1>9. IsGive(weights, budget, give)
  BY <1>8, Zenon
<1>10. QuestionCounts(weights, budget) = give[n]
  BY DEF QuestionCounts, IsGive, GiveOne, Neediest, IsAhead, DeficitOf, Open, n
<1> HIDE DEF give
<1>11. give[0] = start /\ \A i \in 1..n : give[i] = GiveOne(weights, budget, give[i - 1])
  <2>1. give = [i \in 0..n |-> IF i = 0 THEN start ELSE GiveOne(weights, budget, give[i - 1])]
    BY <1>9 DEF IsGive, n, start
  <2>2. \A i \in 0..n : give[i] = IF i = 0 THEN start ELSE GiveOne(weights, budget, give[i - 1])
    BY <2>1
  <2>3. 0 \in 0..n /\ \A i \in 1..n : i \in 0..n /\ i # 0
    BY <1>1
  <2> QED BY <2>2, <2>3
<1>12. Given(k, n, give[n])
  <2>1. n \in 0..n
    BY <1>1
  <2> QED BY <1>6, <1>11, <2>1
<1>13. k + n = budget
  BY <1>1
<1> QED BY <1>10, <1>12, <1>13 DEF Given, MaxQuestionsPerTarget

-----------------------------------------------------------------------------
(* An agenda that counts questions.                                         *)

(* Competencies of the job, none twice, each with a number of questions.    *)
IsAgenda(targets) ==
    /\ Len(targets) \in Nat /\ DOMAIN targets = 1..Len(targets)
    /\ targets = [i \in 1..Len(targets) |-> targets[i]]
    /\ \A i \in 1..Len(targets) : /\ targets[i].concept \in DOMAIN Area
                                 /\ targets[i].count \in Nat \ {0}
                                 /\ targets[i].floor \in Nat /\ targets[i].envelope \in Int
                                 /\ targets[i].most \in Nat
                                 /\ targets[i].career \in BOOLEAN
    /\ \A i, x \in 1..Len(targets) : targets[i].concept = targets[x].concept => i = x

LegacyShape(C, minutes, focus, reask, agenda, sel) ==
    LET budget == QuestionBudget(minutes)
        k      == Cardinality(ToSet(sel))
    IN /\ agenda.policy = "legacy" /\ IsAgenda(agenda.targets)
       /\ CandidateSet(C) /\ Listing(sel, ToSet(sel)) /\ ToSet(sel) \subseteq C
       /\ k \in Nat /\ k = Smaller(budget, Cardinality(C)) /\ budget \in Nat
       /\ DOMAIN agenda.targets = 1..k /\ Len(agenda.targets) = k
       /\ \A i \in 1..k : /\ agenda.targets[i].concept = sel[i].concept
                          /\ agenda.targets[i].gap = IsGap(sel[i])
                          /\ agenda.targets[i].count \in 1..MaxQuestionsPerTarget
       /\ SumOf([i \in 1..k |-> agenda.targets[i].count])
             = Smaller(budget, MaxQuestionsPerTarget * k)
       /\ IF IsDemo(minutes)
          THEN k >= 2 /\ (\E t \in C : IsGap(t)) => IsGap(sel[k])
          ELSE Selects(C, budget, focus, reask, ToSet(sel))

LEMMA LegacyPlanShape ==
    ASSUME NEW j \in Jobs, NEW m \in Matches[j], NEW minutes \in Nat, NEW focus, NEW reask,
           LegacyPlan(j, m, minutes, focus, reask).policy # "none"
    PROVE  \E sel : LegacyShape(WithoutMinor(LegacyCandidates(j, m)), minutes, focus, reask,
                                LegacyPlan(j, m, minutes, focus, reask), sel)
<1> DEFINE agenda  == LegacyPlan(j, m, minutes, focus, reask)
           C       == WithoutMinor(LegacyCandidates(j, m))
           budget  == QuestionBudget(minutes)
           ranked  == Ranked(C)
           across  == SelectAcrossRounds(ranked, budget, focus, reask)
           sel     == IF IsDemo(minutes) THEN DemoTargets(ranked, across) ELSE across
           weights == [i \in DOMAIN sel |-> sel[i].weight]
           counts  == QuestionCounts(weights, budget)
           k       == Cardinality(ToSet(sel))
           targets == [i \in DOMAIN sel |-> Target(sel[i], "any", 0, 0, counts[i], counts[i])]
<1>1. agenda = IF ranked = <<>> THEN NoPlan
               ELSE [NoPlan EXCEPT !.policy = "legacy", !.targets = targets]
  BY DEF LegacyPlan
<1>2. agenda.policy = "legacy" /\ agenda.targets = targets
  BY <1>1 DEF NoPlan
<1>3. CandidateSet(C)
  <2>1. CandidateSet(LegacyCandidates(j, m))
    BY LegacyCandidatesTyped
  <2>2. C \subseteq LegacyCandidates(j, m)
    BY DEF WithoutMinor
  <2> QED BY <2>1, <2>2, SubsetOfCandidates
<1>4. budget \in Nat \ {0}
  BY BudgetIsPositive
<1> HIDE DEF agenda, C, budget
<1>5. Listing(ranked, C)
  BY <1>3, RankedLists
<1> HIDE DEF ranked
<1>6. Listing(across, ToSet(across)) /\ Selects(C, budget, focus, reask, ToSet(across))
  BY <1>3, <1>4, <1>5, SelectionSelects
<1>7. ToSet(across) \subseteq C /\ Cardinality(ToSet(across)) = Smaller(budget, Cardinality(C))
  BY <1>6 DEF Selects
<1>8. /\ Listing(sel, ToSet(sel)) /\ ToSet(sel) \subseteq C /\ k = Smaller(budget, Cardinality(C))
      /\ IF IsDemo(minutes) THEN k >= 2 /\ (\E t \in C : IsGap(t)) => IsGap(sel[k])
                            ELSE Selects(C, budget, focus, reask, ToSet(sel))
  <2>1. CASE ~ IsDemo(minutes)
    <3>1. sel = across
      BY <2>1
    <3> QED BY <1>6, <1>7, <2>1, <3>1
  <2>2. CASE IsDemo(minutes)
    <3> DEFINE r == DemoTargets(ranked, across)
    <3>1. sel = r
      BY <2>2
    <3> HIDE DEF across
    <3>2. /\ Listing(r, ToSet(r)) /\ ToSet(r) \subseteq C
          /\ Cardinality(ToSet(r)) = Cardinality(ToSet(across))
          /\ Cardinality(ToSet(across)) >= 2 /\ (\E t \in C : IsGap(t))
                => IsGap(r[Cardinality(ToSet(across))])
      BY <1>5, <1>6, <1>7, DemoEndsOnAGap
    <3> HIDE DEF r, sel
    <3> QED BY <1>7, <2>2, <3>1, <3>2
  <2> QED BY <2>1, <2>2
<1> HIDE DEF sel, across
<1>9. k \in Nat /\ DOMAIN sel = 1..k /\ sel \in [1..k -> ToSet(sel)]
  BY <1>8, ListingFacts DEF Listing
<1>10. k <= budget
  <2>1. Cardinality(C) \in Nat
    BY <1>3, FS_CardinalityType DEF CandidateSet
  <2> QED BY <1>4, <1>8, <2>1 DEF Smaller
<1> HIDE DEF k
<1>11. weights \in [1..k -> Nat]
  <2>1. \A i \in 1..k : sel[i] \in C
    BY <1>8, <1>9
  <2>2. \A i \in 1..k : sel[i].weight \in Nat
    BY <1>3, <2>1 DEF CandidateSet, IsCandidate
  <2> QED BY <1>9, <2>2
<1> HIDE DEF weights
<1>12. /\ counts \in [1..k -> 1..MaxQuestionsPerTarget]
       /\ SumOf(counts) = Smaller(budget, MaxQuestionsPerTarget * k)
  BY <1>4, <1>9, <1>10, <1>11, CountsAddUp
<1> HIDE DEF counts
<1>13. /\ DOMAIN targets = 1..k /\ Len(targets) = k
       /\ \A i \in 1..k : /\ targets[i].concept = sel[i].concept
                          /\ targets[i].gap = IsGap(sel[i])
                          /\ targets[i].count = counts[i]
                          /\ targets[i].floor = 0 /\ targets[i].envelope = 0
                          /\ targets[i].most = counts[i]
                          /\ targets[i].career = sel[i].career
       /\ targets = [i \in 1..k |-> targets[i]]
  <2>1. DOMAIN targets = 1..k /\ Len(targets) = k
    BY <1>9
  <2> QED BY <1>9, <2>1 DEF Target
<1> HIDE DEF targets
<1>14. [i \in 1..k |-> targets[i].count] = counts
  BY <1>12, <1>13
<1>16. IsAgenda(targets)
  <2>1. \A i, x \in 1..k : sel[i] = sel[x] => i = x
    BY <1>8 DEF Listing, k
  <2>2. \A i \in 1..k : sel[i] \in C
    BY <1>8, <1>9
  <2>3. \A i \in 1..k : sel[i].concept \in DOMAIN Area /\ sel[i].career \in BOOLEAN
    BY <1>3, <2>2 DEF CandidateSet, IsCandidate
  <2>4. \A i, x \in 1..k : sel[i].concept = sel[x].concept => i = x
    BY <1>3, <2>1, <2>2 DEF CandidateSet
  <2>5. \A i \in 1..k : targets[i].count \in Nat \ {0} /\ targets[i].most \in Nat
    BY <1>12, <1>13 DEF MaxQuestionsPerTarget
  <2> QED BY <1>9, <1>13, <2>3, <2>4, <2>5 DEF IsAgenda
<1>15. LegacyShape(C, minutes, focus, reask, agenda, sel)
  <2>1. \A i \in 1..k : targets[i].count \in 1..MaxQuestionsPerTarget
    BY <1>12, <1>13
  <2> QED BY <1>2, <1>3, <1>4, <1>8, <1>9, <1>12, <1>13, <1>14, <1>16, <2>1 DEF LegacyShape, budget, k
<1> QED BY <1>15 DEF agenda, C

-----------------------------------------------------------------------------
(* Archetypes within a pool of seconds.                                     *)

Allots(a, t, pool, job, policy) ==
    IF a.halted THEN a
    ELSE IF Archetype(t, pool - a.used, job, policy) = "omit" THEN [a EXCEPT !.halted = policy.stop]
    ELSE [a EXCEPT !.kept = Append(a.kept, [t |-> t, arch |-> Archetype(t, pool - a.used, job, policy)]),
                   !.used = @ + Floor(Archetype(t, pool - a.used, job, policy), policy)]

IsAlloc(ranked, pool, job, policy, alloc) ==
    alloc = [i \in 0..Len(ranked) |->
                IF i = 0 THEN [kept |-> <<>>, used |-> 0, halted |-> FALSE]
                ELSE Allots(alloc[i - 1], ranked[i], pool, job, policy)]

Allocations(C) == [kept : Seq([t : C, arch : {"TEXT", "CODING"}]), used : Nat, halted : BOOLEAN]

Floors(kept, policy) == [i \in DOMAIN kept |-> Floor(kept[i].arch, policy)]

(* What is kept is from the first i of the ranking, nothing twice.          *)
Apart(ranked, i, kept) ==
    /\ \A n \in 1..Len(kept) : \E x \in 1..i : kept[n].t = ranked[x]
    /\ \A n, o \in 1..Len(kept) : kept[n].t = kept[o].t => n = o

(* What is so after i of the ranking.                                       *)
Alloted(C, ranked, pool, policy, i, a) ==
    /\ a \in Allocations(C)
    /\ a.used = SumOf(Floors(a.kept, policy)) /\ a.used <= pool /\ Apart(ranked, i, a.kept)
    /\ policy.stop => /\ Len(a.kept) <= i /\ (~ a.halted => Len(a.kept) = i)
                      /\ \A n \in 1..Len(a.kept) : a.kept[n].t = ranked[n]

LEMMA FloorsAddUp ==
    ASSUME NEW C, NEW policy, policy.textMin \in Nat \ {0}, policy.codeMin \in Nat \ {0},
           NEW kept \in Seq([t : C, arch : {"TEXT", "CODING"}]),
           NEW x \in [t : C, arch : {"TEXT", "CODING"}]
    PROVE  /\ Floors(kept, policy) \in Numbers(Len(kept)) /\ Len(kept) \in Nat
           /\ SumOf(Floors(Append(kept, x), policy))
                 = SumOf(Floors(kept, policy)) + Floor(x.arch, policy)
<1> DEFINE n == Len(kept)
           more == Append(kept, x)
           K == [t : C, arch : {"TEXT", "CODING"}]
<1>0. kept \in Seq(K) /\ x \in K
  OBVIOUS
<1>4. \A e \in K : Floor(e.arch, policy) \in Int
  BY DEF Floor
<1> HIDE DEF K
<1>1. n \in Nat /\ DOMAIN kept = 1..n /\ \A i \in 1..n : kept[i] \in K
  BY <1>0
<1>2. more \in Seq(K) /\ Len(more) = n + 1 /\ (\A i \in 1..n : more[i] = kept[i]) /\ more[n + 1] = x
  BY <1>0, AppendProperties
<1>3. DOMAIN more = 1..(n + 1) /\ n + 1 \in Nat /\ \A i \in 1..(n + 1) : more[i] \in K
  BY <1>1, <1>2
<1> HIDE DEF more, n
<1>5. Floors(kept, policy) \in Numbers(n)
  <2>1. \A i \in 1..n : Floor(kept[i].arch, policy) \in Int
    BY <1>1, <1>4
  <2> QED BY <1>1, <2>1 DEF Floors, Numbers
<1>6. Floors(more, policy) \in Numbers(n + 1)
  <2>1. \A i \in 1..(n + 1) : Floor(more[i].arch, policy) \in Int
    BY <1>3, <1>4
  <2> QED BY <1>3, <2>1 DEF Floors, Numbers
<1>7. /\ \A i \in 1..n : Floors(more, policy)[i] = Floors(kept, policy)[i]
      /\ Floors(more, policy)[n + 1] = Floor(x.arch, policy)
  <2>1. n + 1 \in 1..(n + 1) /\ \A i \in 1..n : i \in 1..(n + 1)
    BY <1>1
  <2> QED BY <1>1, <1>2, <1>3, <2>1 DEF Floors
<1> DEFINE fk == Floors(kept, policy)
           fm == Floors(more, policy)
<1>8. SumOf(fm) = SumOf(fk) + fm[n + 1]
  <2> HIDE DEF fk, fm
  <2>1. fk \in Numbers(n) /\ fm \in Numbers(n + 1) /\ \A i \in 1..n : fm[i] = fk[i]
    BY <1>5, <1>6, <1>7 DEF fk, fm
  <2> QED BY <1>1, <2>1, SumOfAppended
<1> QED BY <1>1, <1>5, <1>7, <1>8 DEF more, n

LEMMA StaysApart ==
    ASSUME NEW ranked, NEW i \in Nat, NEW kept, Apart(ranked, i, kept)
    PROVE  Apart(ranked, i + 1, kept)
<1>1. \A x \in 1..i : x \in 1..(i + 1)
  OBVIOUS
<1> QED BY <1>1 DEF Apart

LEMMA ApartAppended ==
    ASSUME NEW ranked, NEW i \in Nat, NEW kept, NEW more, Len(kept) \in Nat,
           Apart(ranked, i, kept), \A x \in 1..i : ranked[x] # ranked[i + 1],
           Len(more) = Len(kept) + 1, \A n \in 1..Len(kept) : more[n] = kept[n],
           more[Len(kept) + 1].t = ranked[i + 1]
    PROVE  Apart(ranked, i + 1, more)
<1>1. PICK k \in Nat : k = Len(kept) /\ Len(more) = k + 1
  OBVIOUS
<1>2. \A n \in 1..(k + 1) : n \in 1..k \/ n = k + 1
  OBVIOUS
<1>3. ASSUME NEW n \in 1..k PROVE \E x \in 1..i : more[n].t = ranked[x] /\ x \in 1..(i + 1)
  <2>1. PICK x \in 1..i : kept[n].t = ranked[x]
    BY <1>1 DEF Apart
  <2>2. x \in 1..(i + 1) /\ more[n] = kept[n]
    BY <1>1
  <2> QED BY <2>1, <2>2
<1>4. \A n \in 1..k : more[n].t # more[k + 1].t
  BY <1>1, <1>3
<1>5. \A n \in 1..(k + 1) : \E x \in 1..(i + 1) : more[n].t = ranked[x]
  <2>1. i + 1 \in 1..(i + 1) /\ more[k + 1].t = ranked[i + 1]
    BY <1>1
  <2> QED BY <1>2, <1>3, <2>1
<1>6. ASSUME NEW n \in 1..(k + 1), NEW o \in 1..(k + 1), more[n].t = more[o].t PROVE n = o
  <2>1. \A a, b \in 1..k : more[a].t = more[b].t => a = b
    BY <1>1 DEF Apart
  <2> QED BY <1>2, <1>4, <1>6, <2>1
<1> QED BY <1>1, <1>5, <1>6 DEF Apart

LEMMA AllotsNext ==
    ASSUME NEW C, NEW ranked, NEW pool \in Int, NEW job, NEW policy,
           policy.textMin \in Nat \ {0}, policy.codeMin \in Nat \ {0}, policy.stop \in BOOLEAN,
           NEW i \in Nat, NEW a, Alloted(C, ranked, pool, policy, i, a), ranked[i + 1] \in C,
           \A x \in 1..i : ranked[x] # ranked[i + 1]
    PROVE  Alloted(C, ranked, pool, policy, i + 1, Allots(a, ranked[i + 1], pool, job, policy))
<1> DEFINE t == ranked[i + 1]
           arch == Archetype(t, pool - a.used, job, policy)
           next == Allots(a, t, pool, job, policy)
<1>1. /\ a \in Allocations(C) /\ a.used \in Nat /\ a.halted \in BOOLEAN
      /\ a.kept \in Seq([t : C, arch : {"TEXT", "CODING"}]) /\ Len(a.kept) \in Nat
      /\ a.used = SumOf(Floors(a.kept, policy)) /\ a.used <= pool /\ Apart(ranked, i, a.kept)
      /\ policy.stop => /\ Len(a.kept) <= i /\ (~ a.halted => Len(a.kept) = i)
                        /\ \A n \in 1..Len(a.kept) : a.kept[n].t = ranked[n]
  <2>1. a \in Allocations(C)
    BY DEF Alloted
  <2>2. /\ a.used \in Nat /\ a.halted \in BOOLEAN
        /\ a.kept \in Seq([t : C, arch : {"TEXT", "CODING"}])
    BY <2>1 DEF Allocations
  <2>3. Len(a.kept) \in Nat
    BY <2>2
  <2> QED BY <2>1, <2>2, <2>3 DEF Alloted
<1>0. Apart(ranked, i + 1, a.kept)
  BY <1>1, StaysApart
<1>2. arch \in {"TEXT", "CODING", "omit"} /\ (arch # "omit" => pool - a.used >= Floor(arch, policy))
  BY DEF Archetype, Floor
<1> HIDE DEF arch
<1>3. CASE a.halted
  <2>1. next = a
    BY <1>3 DEF Allots
  <2>2. Alloted(C, ranked, pool, policy, i + 1, a)
    BY <1>0, <1>1, <1>3 DEF Alloted
  <2> QED BY <2>1, <2>2
<1>4. CASE ~ a.halted /\ arch = "omit"
  <2> DEFINE b == [a EXCEPT !.halted = policy.stop]
  <2>1. next = b
    BY <1>4 DEF Allots, arch
  <2>2. b \in Allocations(C) /\ b.kept = a.kept /\ b.used = a.used /\ b.halted = policy.stop
    BY <1>1 DEF Allocations
  <2> HIDE DEF b
  <2>3. Alloted(C, ranked, pool, policy, i + 1, b)
    BY <1>0, <1>1, <2>2 DEF Alloted
  <2> QED BY <2>1, <2>3
<1>5. CASE ~ a.halted /\ arch # "omit"
  <2> DEFINE x == [t |-> t, arch |-> arch]
             b == [a EXCEPT !.kept = Append(a.kept, x), !.used = @ + Floor(arch, policy)]
  <2>1. next = b
    BY <1>5 DEF Allots, arch
  <2>2. x \in [t : C, arch : {"TEXT", "CODING"}] /\ x.t = t /\ x.arch = arch
    BY <1>2, <1>5
  <2> HIDE DEF x
  <2>3. Floor(arch, policy) \in Nat
    BY DEF Floor
  <2> DEFINE kept == a.kept
             more == Append(kept, x)
  <2>4. /\ more \in Seq([t : C, arch : {"TEXT", "CODING"}]) /\ Len(more) = Len(kept) + 1
        /\ (\A n \in 1..Len(kept) : more[n] = kept[n]) /\ more[Len(kept) + 1] = x
    BY <1>1, <2>2, AppendProperties
  <2>5. b.kept = more /\ b.used = a.used + Floor(arch, policy) /\ b.halted = a.halted
        /\ b \in Allocations(C)
    <3> HIDE DEF more
    <3>1. b = [a EXCEPT !.kept = more, !.used = @ + Floor(arch, policy)]
      BY DEF more
    <3> HIDE DEF b
    <3>2. a.used + Floor(arch, policy) \in Nat
      BY <1>1, <2>3
    <3>3. a = [kept |-> a.kept, used |-> a.used, halted |-> a.halted]
      BY <1>1 DEF Allocations
    <3>4. b = [kept |-> more, used |-> a.used + Floor(arch, policy), halted |-> a.halted]
      BY <3>1, <3>3
    <3> QED BY <1>1, <2>4, <3>2, <3>4 DEF Allocations
  <2> HIDE DEF b
  <2>6. SumOf(Floors(more, policy)) = SumOf(Floors(kept, policy)) + Floor(arch, policy)
    BY <1>1, <2>2, FloorsAddUp
  <2> HIDE DEF more
  <2>7. b.used = SumOf(Floors(b.kept, policy)) /\ b.used <= pool
    BY <1>1, <1>2, <1>5, <2>3, <2>5, <2>6
  <2>8. ASSUME policy.stop
        PROVE  /\ Len(b.kept) <= i + 1 /\ (~ b.halted => Len(b.kept) = i + 1)
               /\ \A n \in 1..Len(b.kept) : b.kept[n].t = ranked[n]
    <3>1. Len(kept) = i /\ \A n \in 1..i : kept[n].t = ranked[n]
      BY <1>1, <1>5, <2>8
    <3>2. Len(b.kept) = i + 1
      BY <2>4, <2>5, <3>1
    <3>3. ASSUME NEW n \in 1..(i + 1) PROVE more[n].t = ranked[n]
      <4>1. CASE n = i + 1
        BY <2>2, <2>4, <3>1, <4>1
      <4>2. CASE n # i + 1
        <5>1. n \in 1..i
          BY <4>2
        <5> QED BY <2>4, <3>1, <5>1
      <4> QED BY <4>1, <4>2
    <3> QED BY <2>5, <3>2, <3>3
  <2>9. Apart(ranked, i + 1, more)
    <3>1. Len(kept) \in Nat /\ Apart(ranked, i, kept) /\ more[Len(kept) + 1].t = ranked[i + 1]
      BY <1>1, <2>2, <2>4
    <3> QED BY <2>4, <3>1, ApartAppended
  <2>10. Alloted(C, ranked, pool, policy, i + 1, b)
    BY <2>5, <2>7, <2>8, <2>9 DEF Alloted
  <2> QED BY <2>1, <2>10
<1> QED BY <1>2, <1>3, <1>4, <1>5

WellKept(C, ranked, pool, policy, kept) ==
    /\ kept \in Seq([t : C, arch : {"TEXT", "CODING"}])
    /\ SumOf(Floors(kept, policy)) \in 0..pool
    /\ \A n, o \in 1..Len(kept) : kept[n].t = kept[o].t => n = o
    /\ policy.stop => \A n \in 1..Len(kept) : kept[n].t = ranked[n]

LEMMA EligibleFits ==
    ASSUME NEW C, NEW ranked, Listing(ranked, C), NEW pool \in Nat, NEW job, NEW policy,
           policy.textMin \in Nat \ {0}, policy.codeMin \in Nat \ {0}, policy.stop \in BOOLEAN
    PROVE  WellKept(C, ranked, pool, policy, Eligible(ranked, pool, job, policy))
<1> DEFINE n == Cardinality(C)
           start == [kept |-> <<>>, used |-> 0, halted |-> FALSE]
           X == Allocations(C)
           step == [p \in (1..n) \X X |-> Allots(p[2], ranked[p[1]], pool, job, policy)]
<1>1. n \in Nat /\ DOMAIN ranked = 1..n /\ Len(ranked) = n /\ \A i \in 1..n : ranked[i] \in C
  BY ListingFacts DEF Listing
<1>0. \A i, x \in 1..n : ranked[i] = ranked[x] => i = x
  BY DEF Listing
<1> HIDE DEF n
<1>2. Alloted(C, ranked, pool, policy, 0, start)
  <2>1. start \in Allocations(C) /\ start.kept = <<>> /\ start.used = 0 /\ start.halted = FALSE
    BY DEF Allocations
  <2>2. SumOf(Floors(<<>>, policy)) = 0
    <3>1. Floors(<<>>, policy) \in Numbers(0)
      BY DEF Floors, Numbers
    <3> QED BY <3>1, SumTyped
  <2>3. Len(<<>>) = 0 /\ Apart(ranked, 0, <<>>)
    BY DEF Apart
  <2> HIDE DEF start
  <2> QED BY <2>1, <2>2, <2>3 DEF Alloted
<1>3. \A i \in 1..n, x \in X : step[<<i, x>>] = Allots(x, ranked[i], pool, job, policy)
  OBVIOUS
<1> HIDE DEF step, start
<1>4. PICK it : Loop(n, start, step, it)
  BY <1>1, LoopRuns
<1>5. DOMAIN it = 0..n /\ it[0] = start /\ \A i \in 1..n : it[i] = step[<<i, it[i - 1]>>]
  BY <1>1, <1>4, LoopSteps
<1>6. ASSUME NEW f, f[0] = start,
             \A i \in 1..n : f[i - 1] \in X => f[i] = Allots(f[i - 1], ranked[i], pool, job, policy)
      PROVE  \A i \in 0..n : Alloted(C, ranked, pool, policy, i, f[i])
  <2> DEFINE S == {i \in 0..n : Alloted(C, ranked, pool, policy, i, f[i])}
  <2>1. 0 \in S
    BY <1>1, <1>2, <1>6
  <2>2. ASSUME NEW i \in 1..n, i - 1 \in S PROVE i \in S
    <3>1. Alloted(C, ranked, pool, policy, i - 1, f[i - 1]) /\ i \in 0..n
      BY <1>1, <2>2
    <3>2. f[i] = Allots(f[i - 1], ranked[i], pool, job, policy)
      BY <1>6, <3>1 DEF Alloted
    <3>3. PICK m \in Nat : m = i - 1 /\ i = m + 1
      BY <1>1
    <3>4. /\ Alloted(C, ranked, pool, policy, m, f[m]) /\ ranked[m + 1] \in C /\ pool \in Int
          /\ \A x \in 1..m : ranked[x] # ranked[m + 1]
      <4>1. \A x \in 1..m : x \in 1..n /\ x # m + 1
        BY <1>1, <3>3
      <4> QED BY <1>0, <1>1, <3>1, <3>3, <4>1
    <3>5. Alloted(C, ranked, pool, policy, m + 1, Allots(f[m], ranked[m + 1], pool, job, policy))
      BY <3>4, AllotsNext
    <3> QED BY <3>1, <3>2, <3>3, <3>5
  <2> HIDE DEF S
  <2>3. 0..n \subseteq S
    BY <1>1, <2>1, <2>2, UpTo
  <2> QED BY <2>3 DEF S
<1>7. \A i \in 0..n : it[i] \in X
  <2>1. \A i \in 1..n : it[i - 1] \in X => it[i] = Allots(it[i - 1], ranked[i], pool, job, policy)
    BY <1>3, <1>5
  <2>2. \A i \in 0..n : Alloted(C, ranked, pool, policy, i, it[i])
    BY <1>5, <1>6, <2>1
  <2> QED BY <2>2 DEF Alloted
<1>8. IsAlloc(ranked, pool, job, policy, it)
  <2>1. ASSUME NEW i \in 0..n
        PROVE  (IF i = 0 THEN start ELSE step[<<i, it[i - 1]>>])
               = IF i = 0 THEN start ELSE Allots(it[i - 1], ranked[i], pool, job, policy)
    <3>1. i # 0 => i \in 1..n /\ i - 1 \in 0..n
      BY <1>1
    <3> QED BY <1>3, <1>7, <3>1
  <2>2. it = [i \in 0..n |-> IF i = 0 THEN start
                             ELSE Allots(it[i - 1], ranked[i], pool, job, policy)]
    <3>1. it = [i \in 0..n |-> IF i = 0 THEN start ELSE step[<<i, it[i - 1]>>]]
      BY <1>4 DEF Loop
    <3> QED BY <2>1, <3>1
  <2> QED BY <1>1, <2>2 DEF IsAlloc, start
<1> DEFINE alloc == CHOOSE alloc : IsAlloc(ranked, pool, job, policy, alloc)
<1>9. IsAlloc(ranked, pool, job, policy, alloc)
  BY <1>8, Zenon
<1>10. Eligible(ranked, pool, job, policy) = alloc[n].kept
  <2>1. Eligible(ranked, pool, job, policy) = alloc[Len(ranked)].kept
    BY DEF Eligible, IsAlloc, Allots
  <2> QED BY <1>1, <2>1
<1> HIDE DEF alloc
<1>11. /\ alloc[0] = start
       /\ \A i \in 1..n : alloc[i] = Allots(alloc[i - 1], ranked[i], pool, job, policy)
  <2>1. alloc = [i \in 0..n |-> IF i = 0 THEN start
                                ELSE Allots(alloc[i - 1], ranked[i], pool, job, policy)]
    BY <1>1, <1>9 DEF IsAlloc, start
  <2>2. \A i \in 0..n : alloc[i] = IF i = 0 THEN start
                                   ELSE Allots(alloc[i - 1], ranked[i], pool, job, policy)
    BY <2>1
  <2>3. 0 \in 0..n /\ \A i \in 1..n : i \in 0..n /\ i # 0
    BY <1>1
  <2> QED BY <2>2, <2>3
<1>12. Alloted(C, ranked, pool, policy, n, alloc[n])
  <2>1. n \in 0..n
    BY <1>1
  <2> QED BY <1>6, <1>11, <2>1
<1> DEFINE last == alloc[n]
<1>13. /\ last \in Allocations(C) /\ last.used = SumOf(Floors(last.kept, policy))
       /\ last.used <= pool /\ Apart(ranked, n, last.kept)
       /\ policy.stop => \A i \in 1..Len(last.kept) : last.kept[i].t = ranked[i]
  BY <1>12 DEF Alloted
<1> HIDE DEF last
<1>14. last.kept \in Seq([t : C, arch : {"TEXT", "CODING"}]) /\ last.used \in Nat
  BY <1>13 DEF Allocations
<1>15. SumOf(Floors(last.kept, policy)) \in 0..pool
  BY <1>13, <1>14
<1>16. \A i, x \in 1..Len(last.kept) : last.kept[i].t = last.kept[x].t => i = x
  BY <1>13 DEF Apart
<1>17. WellKept(C, ranked, pool, policy, last.kept)
  BY <1>13, <1>14, <1>15, <1>16 DEF WellKept
<1> QED BY <1>10, <1>17 DEF last

-----------------------------------------------------------------------------
(* Sharing out what is left of the pool.                                    *)

Repeated(k, c) == [i \in 1..k |-> c]

LEMMA SumOfRepeated ==
    ASSUME NEW k \in Nat, NEW c \in Int
    PROVE  Repeated(k, c) \in Numbers(k) /\ SumOf(Repeated(k, c)) = c * k
<1> DEFINE m == Marks(k, 1..k)
           s == Repeated(k, c)
<1>1. s \in Numbers(k)
  BY DEF Repeated, Numbers
<1>2. 1..k \in SUBSET (1..k)
  OBVIOUS
<1>3. m \in Numbers(k) /\ SumOf(m) = Cardinality(1..k)
  BY <1>2, SumOfMarks
<1>4. Cardinality(1..k) = k
  <2>1. Cardinality(1..k) = IF 1 > k THEN 0 ELSE k - 1 + 1
    BY 1 \in Int /\ k \in Int, FS_Interval, Zenon
  <2> QED BY <2>1
<1>5. \A i \in 1..k : s[i] = c * m[i]
  BY DEF Repeated, Marks
<1> HIDE DEF m, s
<1>6. SumOf(s) = c * SumOf(m)
  BY <1>1, <1>3, <1>5, SumsScale
<1> QED BY <1>1, <1>3, <1>4, <1>6 DEF s

Divides(a, b, p, r) == a \div b = p /\ a % b = r /\ a = b * p + r

LEMMA Division ==
    ASSUME NEW a \in Nat, NEW b \in Nat \ {0}
    PROVE  \E p \in Nat, r \in 0..(b - 1) : Divides(a, b, p, r)
<1>1. PICK p \in Int, r \in 0..(b - 1) : a \div b = p /\ a % b = r /\ a = b * p + r
  OBVIOUS
<1>2. ASSUME p <= -1 PROVE FALSE
  <2>1. b * p <= b * (-1) /\ b * (-1) = - b
    BY <1>2
  <2> QED BY <1>1, <2>1
<1> QED BY <1>1, <1>2 DEF Divides

(* Who comes before i when larger rests come first.                         *)
Earlier(k, R, i) == {j \in 1..k : R[j] > R[i] \/ (R[j] = R[i] /\ j < i)}

LEMMA FirstAreAsMany ==
    ASSUME NEW k \in Nat \ {0}, NEW R \in [1..k -> Int], NEW r \in 0..(k - 1)
    PROVE  Cardinality({i \in 1..k : Cardinality(Earlier(k, R, i)) < r}) = r
<1> DEFINE B == [i \in 1..k |-> Cardinality(Earlier(k, R, i))]
           A == {i \in 1..k : B[i] < r}
<1>1. IsFiniteSet(1..k) /\ Cardinality(1..k) = k
  <2>1. IsFiniteSet(1..k) /\ Cardinality(1..k) = IF 1 > k THEN 0 ELSE k - 1 + 1
    BY 1 \in Int /\ k \in Int, FS_Interval, Zenon
  <2> QED BY <2>1
<1>2. IsFiniteSet(0..(k - 1)) /\ Cardinality(0..(k - 1)) = k
  <2>1. PICK h \in Int : h = k - 1
    OBVIOUS
  <2>2. IsFiniteSet(0..h) /\ Cardinality(0..h) = IF 0 > h THEN 0 ELSE h - 0 + 1
    BY 0 \in Int, FS_Interval, Zenon
  <2> QED BY <2>1, <2>2
<1>3. IsFiniteSet(0..(r - 1)) /\ Cardinality(0..(r - 1)) = r
  <2>1. PICK h \in Int : h = r - 1
    OBVIOUS
  <2>2. IsFiniteSet(0..h) /\ Cardinality(0..h) = IF 0 > h THEN 0 ELSE h - 0 + 1
    BY 0 \in Int, FS_Interval, Zenon
  <2> QED BY <2>1, <2>2
<1>4. \A i \in 1..k : Earlier(k, R, i) \subseteq 1..k /\ i \notin Earlier(k, R, i)
  BY DEF Earlier
<1>5. ASSUME NEW i \in 1..k PROVE IsFiniteSet(Earlier(k, R, i)) /\ B[i] \in 0..(k - 1)
  <2>1. IsFiniteSet(Earlier(k, R, i)) /\ Cardinality(Earlier(k, R, i)) \in Nat
    BY <1>1, <1>4, FS_Subset, FS_CardinalityType
  <2>2. IsFiniteSet((1..k) \ {i}) /\ Cardinality((1..k) \ {i}) = k - 1
    <3>1. IsFiniteSet((1..k) \ {i}) /\ Cardinality((1..k) \ {i})
             = IF i \in 1..k THEN Cardinality(1..k) - 1 ELSE Cardinality(1..k)
      BY <1>1, FS_RemoveElement
    <3> QED BY <1>1, <3>1
  <2>3. Earlier(k, R, i) \in SUBSET ((1..k) \ {i})
    BY <1>4
  <2>4. Cardinality(Earlier(k, R, i)) <= Cardinality((1..k) \ {i})
    BY <2>2, <2>3, FS_Subset
  <2> QED BY <2>1, <2>2, <2>4
<1>6. ASSUME NEW i \in 1..k, NEW j \in 1..k, i \in Earlier(k, R, j) PROVE B[i] < B[j]
  <2>1. Earlier(k, R, i) \in SUBSET Earlier(k, R, j)
    <3>1. R[i] > R[j] \/ (R[i] = R[j] /\ i < j)
      BY <1>6 DEF Earlier
    <3>2. ASSUME NEW x \in 1..k, R[x] > R[i] \/ (R[x] = R[i] /\ x < i)
          PROVE  R[x] > R[j] \/ (R[x] = R[j] /\ x < j)
      <4>1. R[x] \in Int /\ R[i] \in Int /\ R[j] \in Int
        OBVIOUS
      <4> QED BY <3>1, <3>2, <4>1
    <3> QED BY <3>2 DEF Earlier
  <2>2. Earlier(k, R, i) # Earlier(k, R, j)
    BY <1>4, <1>6
  <2>3. /\ Cardinality(Earlier(k, R, i)) <= Cardinality(Earlier(k, R, j))
        /\ Cardinality(Earlier(k, R, i)) # Cardinality(Earlier(k, R, j))
    BY <1>5, <2>1, <2>2, FS_Subset
  <2>4. B[i] \in Int /\ B[j] \in Int
    BY <1>5
  <2> QED BY <2>3, <2>4
<1>7. ASSUME NEW i \in 1..k, NEW j \in 1..k, i # j PROVE B[i] # B[j]
  <2>1. i \in Earlier(k, R, j) \/ j \in Earlier(k, R, i)
    <3>1. R[i] \in Int /\ R[j] \in Int
      OBVIOUS
    <3> QED BY <1>7, <3>1 DEF Earlier
  <2>2. B[i] \in Int /\ B[j] \in Int
    BY <1>5
  <2> QED BY <1>6, <2>1, <2>2
<1>8. B \in Injection(1..k, 0..(k - 1))
  <2>1. B \in [1..k -> 0..(k - 1)]
    BY <1>5
  <2> HIDE DEF B
  <2> QED BY <1>7, <2>1 DEF Injection, IsInjective
<1>9. \A v \in 0..(k - 1) : \E i \in 1..k : B[i] = v
  <2> HIDE DEF B
  <2>1. B \in Surjection(1..k, 0..(k - 1))
    BY <1>1, <1>2, <1>8, FS_Injection
  <2> QED BY <2>1 DEF Surjection
<1> DEFINE f == [i \in A |-> B[i]]
<1>10. f \in Bijection(A, 0..(r - 1))
  <2>1. ASSUME NEW i \in A PROVE B[i] \in 0..(r - 1) /\ i \in 1..k
    <3>1. i \in 1..k /\ B[i] < r
      OBVIOUS
    <3>2. B[i] \in 0..(k - 1)
      BY <1>5, <3>1
    <3> HIDE DEF B
    <3> QED BY <3>1, <3>2
  <2>2. \A v \in 0..(r - 1) : \E i \in A : B[i] = v
    <3> HIDE DEF B
    <3>1. \A v \in 0..(r - 1) : v \in 0..(k - 1) /\ v < r
      OBVIOUS
    <3> QED BY <1>9, <3>1
  <2> HIDE DEF A, B
  <2>3. f \in [A -> 0..(r - 1)] /\ \A i \in A : f[i] = B[i]
    BY <2>1
  <2> HIDE DEF f
  <2>4. f \in Injection(A, 0..(r - 1))
    BY <1>7, <2>1, <2>3 DEF Injection, IsInjective
  <2>5. f \in Surjection(A, 0..(r - 1))
    BY <2>2, <2>3 DEF Surjection
  <2> QED BY <2>4, <2>5 DEF Bijection
<1>11. IsFiniteSet(A)
  BY <1>1, FS_Subset
<1>12. Cardinality(0..(r - 1)) = Cardinality(A)
  <2> HIDE DEF A, f
  <2>1. ExistsBijection(A, 0..(r - 1))
    BY <1>10 DEF ExistsBijection
  <2> QED BY <1>11, <2>1, FS_Bijection
<1>13. A = {i \in 1..k : Cardinality(Earlier(k, R, i)) < r}
  OBVIOUS
<1> HIDE DEF A
<1> QED BY <1>3, <1>12, <1>13

LEMMA QuotientFits ==
    ASSUME NEW of \in Nat \ {0}, NEW k \in Nat \ {0}, NEW r \in Int, NEW T \in Int,
           of * r = T, 0 <= T, T <= (of - 1) * k
    PROVE  r \in 0..(k - 1)
<1>1. ASSUME r <= -1 PROVE FALSE
  <2>1. PICK q \in Nat : q = -1 - r /\ r = -1 - q
    BY <1>1
  <2>2. of * (-1 - q) = - of - of * q
    OBVIOUS
  <2>3. PICK x \in Nat : x = of * q
    OBVIOUS
  <2>4. T = - of - x
    BY <2>1, <2>2, <2>3, Zenon
  <2> QED BY <2>4
<1>2. ASSUME r >= k PROVE FALSE
  <2>1. PICK q \in Nat : q = r - k /\ r = k + q
    BY <1>2
  <2>2. of * (k + q) = of * k + of * q /\ (of - 1) * k = of * k - k
    OBVIOUS
  <2>3. PICK x \in Nat, y \in Nat : x = of * q /\ y = of * k
    OBVIOUS
  <2>4. T = y + x /\ T <= y - k
    BY <2>1, <2>2, <2>3, Zenon
  <2> QED BY <2>3, <2>4
<1> QED BY <1>1, <1>2

WholeShares(k, surplus, w, of) == [i \in 1..k |-> (surplus * w[i]) \div of]

Rests(k, surplus, w, of) == [i \in 1..k |-> (surplus * w[i]) % of]

(* Rounding down leaves fewer seconds than there are shares.                *)
LEMMA RestIsSmall ==
    ASSUME NEW k \in Nat \ {0}, NEW surplus \in Nat, NEW w \in [1..k -> Nat],
           NEW of \in Nat \ {0}, of = SumOf(w)
    PROVE  /\ WholeShares(k, surplus, w, of) \in [1..k -> Nat]
           /\ Rests(k, surplus, w, of) \in [1..k -> Int]
           /\ surplus - SumOf(WholeShares(k, surplus, w, of)) \in 0..(k - 1)
<1> DEFINE W == WholeShares(k, surplus, w, of)
           R == Rests(k, surplus, w, of)
           V == [i \in 1..k |-> surplus * w[i]]
           O == [i \in 1..k |-> of * W[i]]
<1>1. ASSUME NEW i \in 1..k
      PROVE  W[i] \in Nat /\ R[i] \in 0..(of - 1) /\ V[i] \in Nat /\ V[i] = of * W[i] + R[i]
  <2>1. PICK a \in Nat : a = surplus * w[i]
    OBVIOUS
  <2>2. PICK p \in Nat, r \in 0..(of - 1) : Divides(a, of, p, r)
    BY Division
  <2>3. W[i] = p /\ R[i] = r /\ V[i] = a
    BY <2>1, <2>2 DEF Divides, WholeShares, Rests
  <2> HIDE DEF W, R, V
  <2> QED BY <2>2, <2>3 DEF Divides
<1>2. W \in [1..k -> Nat] /\ R \in [1..k -> Int] /\ V \in [1..k -> Int]
  <2>1. /\ W = [i \in 1..k |-> W[i]] /\ R = [i \in 1..k |-> R[i]] /\ V = [i \in 1..k |-> V[i]]
    BY DEF WholeShares, Rests
  <2> HIDE DEF W, R, V
  <2>2. \A i \in 1..k : W[i] \in Nat /\ R[i] \in Int /\ V[i] \in Int
    BY <1>1
  <2>3. \A f, X : f = [i \in 1..k |-> f[i]] /\ (\A i \in 1..k : f[i] \in X) => f \in [1..k -> X]
    OBVIOUS
  <2> QED BY <2>1, <2>2, <2>3, Zenon
<1>3. V \in Numbers(k) /\ w \in Numbers(k) /\ W \in Numbers(k) /\ R \in Numbers(k)
  <2> HIDE DEF W, R, V
  <2>1. ASSUME NEW f \in [1..k -> Nat] PROVE f \in Numbers(k)
    BY DEF Numbers
  <2>2. V \in Numbers(k) /\ R \in Numbers(k)
    BY <1>2 DEF Numbers
  <2> QED BY <1>2, <2>1, <2>2
<1>4. \A i \in 1..k : O[i] \in Int /\ O[i] = of * W[i]
  <2> HIDE DEF W
  <2>1. ASSUME NEW i \in 1..k PROVE of * W[i] \in Int
    <3>1. PICK x \in Nat : x = W[i]
      BY <1>2
    <3>2. of * x \in Int
      OBVIOUS
    <3> QED BY <3>1, <3>2, Zenon
  <2> QED BY <2>1
<1>5. O \in Numbers(k)
  BY <1>4 DEF Numbers
<1>6. \A i \in 1..k : V[i] = O[i] + R[i]
  BY <1>1, <1>4
<1>7. \A i \in 1..k : V[i] = surplus * w[i]
  OBVIOUS
<1>8. \A i \in 1..k : 0 <= R[i] /\ R[i] <= of - 1
  BY <1>1, SMTT(30)
<1> HIDE DEF W, R, V, O
<1>9. SumOf(V) = surplus * SumOf(w)
  BY <1>3, <1>7, SumsScale
<1>10. SumOf(O) = of * SumOf(W)
  BY <1>3, <1>4, <1>5, SumsScale
<1>11. SumOf(V) = SumOf(O) + SumOf(R)
  BY <1>3, <1>5, <1>6, SumsAdd
<1>12. 0 <= SumOf(R) /\ SumOf(R) <= (of - 1) * k
  <2> DEFINE low == Repeated(k, 0)
             high == Repeated(k, of - 1)
  <2>1. low \in Numbers(k) /\ SumOf(low) = 0
    <3>1. 0 * k = 0
      OBVIOUS
    <3> QED BY <3>1, SumOfRepeated
  <2>2. high \in Numbers(k) /\ SumOf(high) = (of - 1) * k
    <3>1. of - 1 \in Int
      OBVIOUS
    <3> QED BY <3>1, SumOfRepeated, Zenon
  <2>3. \A i \in 1..k : low[i] <= R[i] /\ R[i] <= high[i]
    BY <1>8 DEF Repeated
  <2> HIDE DEF low, high
  <2>4. SumOf(low) <= SumOf(R) /\ SumOf(R) <= SumOf(high)
    BY <1>3, <2>1, <2>2, <2>3, SumsCompare
  <2> QED BY <2>1, <2>2, <2>4
<1>13. SumOf(W) \in Int /\ SumOf(R) \in Int
  BY <1>3, SumTyped
<1>14. PICK S \in Int, T \in Int : S = SumOf(W) /\ T = SumOf(R)
  BY <1>13
<1>15. surplus * of = of * S + T /\ 0 <= T /\ T <= (of - 1) * k
  BY <1>9, <1>10, <1>11, <1>12, <1>14
<1>16. surplus - S \in 0..(k - 1)
  <2>1. PICK r \in Int : r = surplus - S /\ surplus = r + S
    OBVIOUS
  <2>2. (r + S) * of = of * r + of * S
    OBVIOUS
  <2>3. PICK x \in Int, y \in Int : x = of * r /\ y = of * S
    OBVIOUS
  <2>4. x + y = y + T
    BY <1>15, <2>1, <2>2, <2>3, Zenon
  <2>5. of * r = T
    BY <2>3, <2>4, SMTT(30)
  <2>6. r \in 0..(k - 1)
    BY <1>15, <2>5, QuotientFits, Zenon
  <2> QED BY <2>1, <2>6
<1> QED BY <1>2, <1>14, <1>16 DEF W, R

(* Every second of what is left is in one share.                            *)
LEMMA SharesAddUp ==
    ASSUME NEW k \in Nat \ {0}, NEW surplus \in Nat, NEW weights \in [1..k -> Nat]
    PROVE  Shares(surplus, weights) \in [1..k -> Nat] /\ SumOf(Shares(surplus, weights)) = surplus
<1> DEFINE total == SumOf(weights)
           w  == IF total = 0 THEN [i \in DOMAIN weights |-> 1] ELSE weights
           of == IF total = 0 THEN Len(weights) ELSE total
<1>1. DOMAIN weights = 1..k /\ Len(weights) = k /\ weights \in Numbers(k)
  BY DEF Numbers
<1>2. total \in Nat
  <2> DEFINE low == Repeated(k, 0)
  <2>1. low \in Numbers(k) /\ SumOf(low) = 0
    <3>1. 0 * k = 0
      OBVIOUS
    <3> QED BY <3>1, SumOfRepeated
  <2>2. \A i \in 1..k : low[i] <= weights[i]
    BY DEF Repeated
  <2>3. SumOf(weights) \in Int
    BY <1>1, SumTyped
  <2> HIDE DEF low
  <2>4. SumOf(low) <= SumOf(weights)
    BY <1>1, <2>1, <2>2, SumsCompare
  <2> QED BY <2>1, <2>3, <2>4
<1>3. w \in [1..k -> Nat] /\ of \in Nat \ {0} /\ of = SumOf(w)
  <2>1. CASE total = 0
    <3>1. w = Repeated(k, 1) /\ of = k
      BY <1>1, <2>1 DEF Repeated
    <3>2. Repeated(k, 1) \in [1..k -> Nat]
      BY DEF Repeated
    <3>3. SumOf(Repeated(k, 1)) = 1 * k /\ 1 * k = k
      BY SumOfRepeated
    <3> HIDE DEF w, of
    <3> QED BY <3>1, <3>2, <3>3
  <2>2. CASE total # 0
    <3>1. w = weights /\ of = total
      BY <2>2
    <3> HIDE DEF w, of
    <3> QED BY <1>2, <2>2, <3>1
  <2> QED BY <2>1, <2>2
<1> DEFINE W == WholeShares(k, surplus, w, of)
           R == Rests(k, surplus, w, of)
           r == surplus - SumOf(W)
           A == {i \in 1..k : Cardinality(Earlier(k, R, i)) < r}
           shares == Shares(surplus, weights)
           m == Marks(k, A)
<1>4. W \in [1..k -> Nat] /\ R \in [1..k -> Int] /\ r \in 0..(k - 1)
  <2> HIDE DEF w, of
  <2> QED BY <1>3, RestIsSmall
<1>5. \A i \in 1..k : shares[i] = W[i] + m[i]
  <2>0. DOMAIN w = 1..k
    BY <1>1
  <2>1. ASSUME NEW i \in 1..k
        PROVE  {j \in 1..k : \/ (surplus * w[j]) % of > (surplus * w[i]) % of
                             \/ ((surplus * w[j]) % of = (surplus * w[i]) % of /\ j < i)}
                  = Earlier(k, R, i)
    BY DEF Earlier, Rests
  <2>2. W = [i \in 1..k |-> (surplus * w[i]) \div of]
    BY DEF WholeShares
  <2>3. shares = [i \in 1..k |-> W[i] + IF Cardinality(Earlier(k, R, i)) < r THEN 1 ELSE 0]
    <3>1. shares = [i \in DOMAIN w |->
              [n \in DOMAIN w |-> (surplus * w[n]) \div of][i]
              + IF Cardinality({j \in DOMAIN w :
                      \/ (surplus * w[j]) % of > (surplus * w[i]) % of
                      \/ ((surplus * w[j]) % of = (surplus * w[i]) % of /\ j < i)})
                   < surplus - SumOf([n \in DOMAIN w |-> (surplus * w[n]) \div of])
                THEN 1 ELSE 0]
      BY DEF Shares
    <3> HIDE DEF shares, w, of, R
    <3> QED BY <2>0, <2>1, <2>2, <3>1
  <2> HIDE DEF W, R, r, shares
  <2>4. \A i \in 1..k : m[i] = IF Cardinality(Earlier(k, R, i)) < r THEN 1 ELSE 0
    BY DEF Marks
  <2> HIDE DEF m
  <2> QED BY <2>3, <2>4
<1>6. DOMAIN shares = 1..k
  <2>1. DOMAIN w = 1..k
    BY <1>1
  <2>2. DOMAIN shares = DOMAIN w
    BY DEF Shares
  <2> QED BY <2>1, <2>2
<1>7. Cardinality(A) = r
  <2> HIDE DEF R, r
  <2> QED BY <1>4, FirstAreAsMany
<1>8. m \in Numbers(k) /\ SumOf(m) = r /\ \A i \in 1..k : m[i] \in Nat
  <2>1. A \in SUBSET (1..k)
    OBVIOUS
  <2> HIDE DEF A, r
  <2>2. m \in Numbers(k) /\ SumOf(m) = Cardinality(A)
    BY <2>1, SumOfMarks
  <2>3. \A i \in 1..k : m[i] \in Nat
    BY DEF Marks
  <2> QED BY <1>7, <2>2, <2>3
<1>9. W \in Numbers(k)
  <2> HIDE DEF W
  <2> QED BY <1>4 DEF Numbers
<1> HIDE DEF W, m, shares
<1>10. shares \in [1..k -> Nat]
  <2>1. shares = [i \in 1..k |-> shares[i]]
    <3>1. shares = [i \in DOMAIN shares |-> shares[i]]
      BY DEF shares, Shares
    <3> QED BY <1>6, <3>1
  <2>2. ASSUME NEW i \in 1..k PROVE shares[i] \in Nat
    <3>1. W[i] \in Nat /\ m[i] \in Nat /\ shares[i] = W[i] + m[i]
      BY <1>4, <1>5, <1>8
    <3> QED BY <3>1
  <2> QED BY <2>1, <2>2
<1>11. SumOf(shares) = SumOf(W) + SumOf(m)
  <2>1. shares \in Numbers(k)
    BY <1>10 DEF Numbers
  <2> QED BY <1>5, <1>8, <1>9, <2>1, SumsAdd
<1>12. SumOf(W) \in Int
  BY <1>9, SumTyped
<1>13. SumOf(shares) = surplus
  BY <1>8, <1>11, <1>12
<1> QED BY <1>10, <1>13 DEF shares

-----------------------------------------------------------------------------
(* An agenda of envelopes.                                                  *)

LEMMA CountsAreFew ==
    ASSUME NEW e \in Nat, NEW f \in Nat \ {0}, NEW l \in Nat, f <= l
    PROVE  Larger(1, e \div l) \in 1..Larger(1, CeilDiv(e, f))
<1>1. PICK p \in Nat, r \in 0..(l - 1) : Divides(e, l, p, r)
  <2>1. l \in Nat \ {0}
    OBVIOUS
  <2> QED BY <2>1, Division
<1>2. PICK q \in Nat, u \in 0..(f - 1) : Divides(e + f - 1, f, q, u)
  <2>1. e + f - 1 \in Nat
    OBVIOUS
  <2> QED BY <2>1, Division
<1>3. e \div l = p /\ e = l * p + r /\ CeilDiv(e, f) = q /\ e + f - 1 = f * q + u
  BY <1>1, <1>2 DEF Divides, CeilDiv
<1>4. ASSUME p >= q + 1 PROVE FALSE
  <2>1. PICK g \in Nat, h \in Nat : g = l - f /\ l = f + g /\ h = p - (q + 1) /\ p = (q + 1) + h
    BY <1>4
  <2>2. l * p = f * p + g * p
    BY <2>1
  <2>3. f * p = f * (q + 1) + f * h
    BY <2>1
  <2>4. f * (q + 1) = f * q + f
    OBVIOUS
  <2>5. g * p \in Nat /\ f * h \in Nat /\ f * q \in Nat
    OBVIOUS
  <2>6. PICK a \in Nat, b \in Nat, c \in Nat : a = g * p /\ b = f * h /\ c = f * q
    BY <2>5
  <2>7. l * p = ((c + f) + b) + a
    BY <2>2, <2>3, <2>4, <2>6, Zenon
  <2>8. e = (((c + f) + b) + a) + r /\ e + f - 1 = c + u
    BY <1>3, <2>6, <2>7, Zenon
  <2> QED BY <2>6, <2>8
<1>5. p <= q
  BY <1>4
<1> QED BY <1>3, <1>5 DEF Larger

DynamicFits(j, m, policy, agenda) ==
    LET targets == agenda.targets
        ranked  == Ranked({t \in DynamicCandidates(j, m) : t.statuses # {"not_applicable"}})
    IN /\ agenda.policy = "dynamic" /\ IsAgenda(agenda.targets)
       /\ SumOf([i \in DOMAIN targets |-> targets[i].envelope]) + agenda.spare = agenda.pool
       /\ \A i \in DOMAIN targets :
             targets[i].envelope >= targets[i].floor /\ targets[i].count \in 1..targets[i].most
       /\ policy.stop => \A i \in DOMAIN targets : targets[i].concept = ranked[i].concept

LEMMA DynamicTargetFits ==
    ASSUME NEW policy \in Policies, NEW share \in Nat,
           NEW kept, kept.arch \in {"TEXT", "CODING"}
    PROVE  LET target == DynamicTarget(kept, share, policy) IN
           /\ target.concept = kept.t.concept /\ target.envelope = target.floor + share
           /\ target.floor = Floor(kept.arch, policy) /\ target.floor \in Nat
           /\ target.envelope \in Int /\ target.count \in Nat \ {0}
           /\ target.career = kept.t.career /\ target.most \in Nat
           /\ target.envelope >= target.floor /\ target.count \in 1..target.most
<1> DEFINE f == Floor(kept.arch, policy)
           l == IF kept.arch = "CODING" THEN policy.codeMax ELSE policy.textMax
           e == f + share
<1>1. f \in Nat \ {0} /\ l \in Nat /\ f <= l
  BY PoliciesAssumption DEF Floor
<1>2. DynamicTarget(kept, share, policy)
         = Target(kept.t, kept.arch, f, e, Larger(1, e \div l), Larger(1, CeilDiv(e, f)))
  BY DEF DynamicTarget
<1> HIDE DEF f, l
<1>3. e \in Nat /\ e >= f
  BY <1>1
<1> HIDE DEF e
<1>4. Larger(1, e \div l) \in 1..Larger(1, CeilDiv(e, f))
  BY <1>1, <1>3, CountsAreFew
<1>5. e = f + share
  BY DEF e
<1>6. Larger(1, e \div l) \in Nat \ {0}
  <2>1. \A x : x \in 1..Larger(1, CeilDiv(e, f)) => x \in Nat \ {0}
    OBVIOUS
  <2> QED BY <1>4, <2>1
<1>7. Larger(1, CeilDiv(e, f)) \in Nat
  <2>1. (e + f - 1) \div f \in Int
    BY <1>1, <1>3
  <2> QED BY <2>1 DEF Larger, CeilDiv
<1> QED BY <1>1, <1>2, <1>3, <1>4, <1>5, <1>6, <1>7 DEF Target, f

LEMMA DynamicPlanFits ==
    ASSUME NEW j \in Jobs, NEW m \in Matches[j], NEW minutes \in Nat, NEW policy \in Policies,
           DynamicPlan(j, m, minutes, policy).policy # "none"
    PROVE  DynamicFits(j, m, policy, DynamicPlan(j, m, minutes, policy))
<1> DEFINE agenda  == DynamicPlan(j, m, minutes, policy)
           all     == DynamicCandidates(j, m)
           C       == {t \in all : t.statuses # {"not_applicable"}}
           pool    == TechPool(minutes, policy)
           ranked  == Ranked(C)
           kept    == Eligible(ranked, pool, j, policy)
           k       == Len(kept)
           K       == [t : C, arch : {"TEXT", "CODING"}]
           fl      == Floors(kept, policy)
           weights == [i \in DOMAIN kept |-> kept[i].t.weight]
           shares  == Shares(pool - SumOf(fl), weights)
           targets == [i \in DOMAIN kept |-> DynamicTarget(kept[i], shares[i], policy)]
           env     == [i \in DOMAIN targets |-> targets[i].envelope]
<1>1. /\ pool >= 0 /\ agenda.policy = "dynamic" /\ agenda.pool = pool
      /\ agenda.targets = targets /\ agenda.spare = IF kept = <<>> THEN pool ELSE 0
  <2>1. fl = [i \in DOMAIN kept |-> Floor(kept[i].arch, policy)]
    BY DEF Floors
  <2> DEFINE dynamic == [policy  |-> "dynamic", targets |-> targets,
                         omitted |-> {t.concept : t \in all} \ Concepts(targets),
                         pool    |-> pool, spare |-> IF kept = <<>> THEN pool ELSE 0]
  <2>2. agenda = IF all = {} \/ pool < 0 THEN NoPlan ELSE dynamic
    BY <2>1, Zenon DEF DynamicPlan
  <2>3. pool \in Int
    <3>1. policy.reserves \in Int /\ policy.probe \in Int
      BY PoliciesAssumption
    <3>2. PICK a \in Int, b \in Int : a = 2 * policy.probe * 60 * minutes + 100 /\ b = 60 * minutes
      BY <3>1
    <3>3. PICK c \in Int : c = a \div 200
      OBVIOUS
    <3>4. pool = b - policy.reserves - c
      BY <3>2, <3>3 DEF TechPool
    <3> QED BY <3>1, <3>2, <3>3, <3>4
  <2> HIDE DEF pool, targets, all, kept, agenda
  <2>4. agenda.policy # "none"
    BY DEF agenda
  <2>5. NoPlan.policy = "none"
    BY DEF NoPlan
  <2>6. ~ (all = {} \/ pool < 0) /\ agenda = dynamic
    BY <2>2, <2>4, <2>5, Zenon
  <2> QED BY <2>3, <2>6
<1>2. pool \in Nat
  <2>1. pool \in Int
    <3>1. policy.reserves \in Int /\ policy.probe \in Int
      BY PoliciesAssumption
    <3>2. PICK a \in Int, b \in Int : a = 2 * policy.probe * 60 * minutes + 100 /\ b = 60 * minutes
      BY <3>1
    <3>3. PICK c \in Int : c = a \div 200
      OBVIOUS
    <3>4. pool = b - policy.reserves - c
      BY <3>2, <3>3 DEF TechPool
    <3> QED BY <3>1, <3>2, <3>3, <3>4
  <2> HIDE DEF pool
  <2> QED BY <1>1, <2>1
<1>3. CandidateSet(C)
  <2>1. CandidateSet(all)
    BY DynamicCandidatesTyped
  <2>2. C \in SUBSET all
    OBVIOUS
  <2> HIDE DEF C, all
  <2> QED BY <2>1, <2>2, SubsetOfCandidates
<1> HIDE DEF agenda, all, pool
<1>4. Listing(ranked, C)
  <2> HIDE DEF C
  <2> QED BY <1>3, RankedLists
<1>5. DynamicCandidates(j, m) = all
  BY DEF all
<1>6. ranked = Ranked({t \in DynamicCandidates(j, m) : t.statuses # {"not_applicable"}})
  BY <1>5
<1> HIDE DEF C, ranked
<1>7. /\ policy.textMin \in Nat \ {0} /\ policy.codeMin \in Nat \ {0} /\ policy.stop \in BOOLEAN
  BY PoliciesAssumption
<1>8. /\ kept \in Seq(K) /\ SumOf(fl) \in 0..pool
      /\ policy.stop => \A n \in 1..k : kept[n].t = ranked[n]
      /\ \A n, o \in 1..k : kept[n].t = kept[o].t => n = o
  <2>1. WellKept(C, ranked, pool, policy, kept)
    BY <1>2, <1>4, <1>7, EligibleFits
  <2> HIDE DEF kept
  <2> QED BY <2>1 DEF WellKept
<1> HIDE DEF kept
<1>9. k \in Nat /\ DOMAIN kept = 1..k /\ \A i \in 1..k : kept[i] \in K
  <2> HIDE DEF K
  <2> QED BY <1>8
<1>10. \A i \in 1..k : kept[i].t \in C /\ kept[i].arch \in {"TEXT", "CODING"}
  BY <1>9
<1>11. weights \in [1..k -> Nat]
  <2>1. \A i \in 1..k : kept[i].t.weight \in Nat
    BY <1>3, <1>10 DEF CandidateSet, IsCandidate
  <2> QED BY <1>9, <2>1
<1>15. /\ \A i \in 1..k : kept[i].t.concept \in DOMAIN Area /\ kept[i].t.career \in BOOLEAN
       /\ \A i, x \in 1..k : kept[i].t.concept = kept[x].t.concept => i = x
  <2>1. \A t \in C : t.concept \in DOMAIN Area /\ t.career \in BOOLEAN
    BY <1>3 DEF CandidateSet, IsCandidate
  <2>2. \A t, u \in C : t.concept = u.concept => t = u
    BY <1>3 DEF CandidateSet
  <2> QED BY <1>8, <1>10, <2>1, <2>2
<1> HIDE DEF K, k
<1>12. DOMAIN targets = 1..k /\ DOMAIN env = 1..k
  BY <1>9
<1>13. ASSUME k = 0 PROVE DynamicFits(j, m, policy, agenda)
  <2>1. kept = <<>>
    BY <1>8, <1>13, EmptySeq DEF k
  <2>2. SumOf(env) = 0
    <3>1. env \in Numbers(0)
      BY <1>12, <1>13 DEF Numbers
    <3> HIDE DEF env
    <3> QED BY <3>1, SumTyped
  <2>3. agenda.spare = pool
    BY <1>1, <2>1
  <2>4. DOMAIN targets = {}
    BY <1>12, <1>13
  <2>5. env = [i \in DOMAIN agenda.targets |-> agenda.targets[i].envelope]
    BY <1>1
  <2> HIDE DEF targets, env
  <2>6. SumOf(env) + agenda.spare = agenda.pool
    BY <1>1, <1>2, <2>2, <2>3
  <2>7. DOMAIN agenda.targets = {} /\ IsAgenda(agenda.targets)
    <3>1. targets = <<>> /\ agenda.targets = targets
      BY <1>1, <2>1 DEF targets
    <3> QED BY <2>4, <3>1 DEF IsAgenda
  <2> QED BY <1>1, <2>5, <2>6, <2>7 DEF DynamicFits
<1>14. ASSUME k # 0 PROVE DynamicFits(j, m, policy, agenda)
  <2> DEFINE left == pool - SumOf(fl)
  <2>1. left \in Nat /\ k \in Nat \ {0} /\ SumOf(fl) \in Int
    <3> HIDE DEF fl
    <3> QED BY <1>2, <1>8, <1>9, <1>14
  <2>2. shares \in [1..k -> Nat] /\ SumOf(shares) = left
    <3> HIDE DEF weights, left
    <3>1. Shares(left, weights) \in [1..k -> Nat] /\ SumOf(Shares(left, weights)) = left
      BY <1>11, <2>1, SharesAddUp
    <3> QED BY <3>1 DEF left
  <2> HIDE DEF shares
  <2>3. ASSUME NEW i \in 1..k
        PROVE  /\ targets[i].concept = kept[i].t.concept
               /\ env[i] = fl[i] + shares[i] /\ fl[i] \in Nat /\ targets[i].envelope = env[i]
               /\ targets[i].envelope >= targets[i].floor /\ targets[i].count \in 1..targets[i].most
               /\ targets[i].envelope \in Int /\ targets[i].count \in Nat \ {0}
               /\ targets[i].floor \in Nat /\ targets[i].most \in Nat
               /\ targets[i].career = kept[i].t.career
    <3>1. PICK share \in Nat : share = shares[i]
      BY <2>2
    <3>2. PICK one : one = kept[i] /\ one.arch \in {"TEXT", "CODING"}
      BY <1>10
    <3> DEFINE target == DynamicTarget(one, share, policy)
    <3>3. /\ target.concept = one.t.concept /\ target.envelope = target.floor + share
          /\ target.floor = Floor(one.arch, policy) /\ target.floor \in Nat
          /\ target.envelope >= target.floor /\ target.count \in 1..target.most
          /\ target.envelope \in Int /\ target.count \in Nat \ {0}
          /\ target.most \in Nat /\ target.career = one.t.career
      BY <3>1, <3>2, DynamicTargetFits
    <3>4. targets[i] = target
      BY <1>9, <3>1, <3>2
    <3>5. env[i] = targets[i].envelope
      BY <1>12
    <3>6. fl[i] = Floor(one.arch, policy)
      BY <1>9, <3>2 DEF Floors
    <3> HIDE DEF target, targets, env, fl
    <3> QED BY <3>1, <3>2, <3>3, <3>4, <3>5, <3>6
  <2>4. fl \in Numbers(k) /\ env \in Numbers(k) /\ shares \in Numbers(k)
    <3>1. DOMAIN fl = 1..k /\ fl = [i \in 1..k |-> fl[i]] /\ env = [i \in 1..k |-> env[i]]
      BY <1>9, <1>12 DEF Floors
    <3> HIDE DEF fl, env, targets
    <3>2. \A i \in 1..k : fl[i] \in Int /\ env[i] \in Int
      <4>1. ASSUME NEW i \in 1..k PROVE fl[i] \in Int /\ env[i] \in Int
        <5>1. shares[i] \in Nat /\ fl[i] \in Nat /\ env[i] = fl[i] + shares[i]
          BY <2>2, <2>3
        <5> QED BY <5>1
      <4> QED BY <4>1
    <3> QED BY <2>2, <3>1, <3>2 DEF Numbers
  <2>5. SumOf(env) = pool
    <3> HIDE DEF env, fl, targets
    <3>1. SumOf(env) = SumOf(fl) + SumOf(shares)
      <4>1. \A i \in 1..k : env[i] = fl[i] + shares[i]
        BY <2>3
      <4> QED BY <1>9, <2>4, <4>1, SumsAdd
    <3> QED BY <1>2, <2>1, <2>2, <3>1
  <2>6. kept # <<>>
    BY <1>9, <1>14
  <2>7. agenda.spare = 0
    BY <1>1, <2>6
  <2>8. env = [i \in DOMAIN agenda.targets |-> agenda.targets[i].envelope]
    BY <1>1
  <2>9. policy.stop => \A i \in 1..k : agenda.targets[i].concept = ranked[i].concept
    <3>1. policy.stop => \A i \in 1..k : kept[i].t = ranked[i]
      BY <1>8
    <3> HIDE DEF targets, env, fl
    <3> QED BY <1>1, <2>3, <3>1
  <2>10. /\ DOMAIN agenda.targets = 1..k
         /\ \A i \in 1..k : /\ agenda.targets[i].envelope >= agenda.targets[i].floor
                            /\ agenda.targets[i].count \in 1..agenda.targets[i].most
    <3> HIDE DEF env, fl
    <3>1. \A i \in 1..k : /\ targets[i].envelope >= targets[i].floor
                          /\ targets[i].count \in 1..targets[i].most
      BY <2>3, Zenon
    <3> HIDE DEF targets
    <3> QED BY <1>1, <1>12, <3>1
  <2>12. IsAgenda(agenda.targets)
    <3>1. targets = [i \in 1..k |-> targets[i]] /\ Len(targets) = k
      BY <1>9
    <3>2. \A i \in 1..k : /\ targets[i].concept = kept[i].t.concept
                          /\ targets[i].envelope \in Int /\ targets[i].count \in Nat \ {0}
                          /\ targets[i].floor \in Nat /\ targets[i].most \in Nat
                          /\ targets[i].career = kept[i].t.career
      BY <2>3, Zenon
    <3> HIDE DEF targets
    <3> QED BY <1>1, <1>9, <1>12, <1>15, <3>1, <3>2 DEF IsAgenda
  <2> HIDE DEF targets, env
  <2>11. SumOf(env) + agenda.spare = agenda.pool
    BY <1>1, <1>2, <2>5, <2>7
  <2> QED BY <1>1, <1>6, <2>8, <2>9, <2>10, <2>11, <2>12 DEF DynamicFits
<1> QED BY <1>13, <1>14, Zenon DEF agenda

-----------------------------------------------------------------------------
(* Agendas of the planner.                                                  *)

BuiltBy(j, package, agenda, context) ==
    /\ context.match \in Matches[j] /\ context.policy \in Policies /\ package \in Packages
    /\ agenda = PlanOf[j][context.match][package][context.policy]
    /\ agenda.policy # "none"

PlanFields == {"status", "agenda", "level", "context"}

FromPlanner ==
    /\ jd \in Jobs
    /\ \A s \in Sessions : session[s] \in Packages \cup {NoPackage} /\ DOMAIN plan[s] = PlanFields
    /\ \A s \in Planned : BuiltBy(jd, session[s], plan[s].agenda, plan[s].context)
    /\ \A r \in Requests :
          call[r].at = "planned" => BuiltBy(jd, session[call[r].s], call[r].agenda, call[r].context)

LEMMA InitFromPlanner == Init => FromPlanner
<1> SUFFICES ASSUME Init PROVE FromPlanner
  OBVIOUS
<1>1. \A r \in Requests : call[r].at = "idle"
  BY IdleRecord DEF Init
<1>2. \A s \in Sessions : DOMAIN plan[s] = PlanFields /\ plan[s].status = "none"
  BY DEF Init, PlanFields
<1>3. jd \in Jobs /\ \A s \in Sessions : session[s] = NoPackage
  BY DEF Init
<1> QED BY <1>1, <1>2, <1>3 DEF FromPlanner, Planned

(* No more is asked of the plans and the calls after a step than that each  *)
(* is what it was or built by the planner.                                  *)
LEMMA StaysFromPlanner ==
    ASSUME Building, FromPlanner, UNCHANGED jd,
           \A s \in Sessions :
              /\ session[s] \in Packages => session'[s] = session[s]
              /\ session'[s] \in Packages \cup {NoPackage} /\ DOMAIN plan'[s] = PlanFields
              /\ \/ plan'[s].status \notin {"READY", "LOCKED"}
                 \/ BuiltBy(jd, session[s], plan'[s].agenda, plan'[s].context),
           \A r \in Requests :
              \/ call'[r].at # "planned"
              \/ call'[r] = call[r]
              \/ call'[r].s \in Sessions
                 /\ BuiltBy(jd, session[call'[r].s], call'[r].agenda, call'[r].context)
    PROVE  FromPlanner'
<1>1. ASSUME NEW s \in Sessions, NEW a, NEW c, BuiltBy(jd, session[s], a, c)
      PROVE  BuiltBy(jd', session'[s], a, c)
  <2>1. session'[s] = session[s]
    BY <1>1 DEF BuiltBy
  <2> QED BY <1>1, <2>1
<1>2. jd' \in Jobs
  BY DEF FromPlanner
<1>3. ASSUME NEW s \in Sessions, plan'[s].status \in {"READY", "LOCKED"}
      PROVE  BuiltBy(jd', session'[s], plan'[s].agenda, plan'[s].context)
  BY <1>1, <1>3
<1>4. ASSUME NEW r \in Requests, call'[r].at = "planned"
      PROVE  BuiltBy(jd', session'[call'[r].s], call'[r].agenda, call'[r].context)
  <2>1. CASE call'[r] = call[r]
    <3>1. call[r].s \in Sessions
      BY <1>4, <2>1 DEF Building
    <3>2. BuiltBy(jd, session[call[r].s], call[r].agenda, call[r].context)
      BY <1>4, <2>1 DEF FromPlanner
    <3>3. BuiltBy(jd', session'[call[r].s], call[r].agenda, call[r].context)
      BY <1>1, <3>1, <3>2
    <3> QED BY <2>1, <3>3
  <2>2. CASE call'[r].s \in Sessions
             /\ BuiltBy(jd, session[call'[r].s], call'[r].agenda, call'[r].context)
    BY <1>1, <2>2
  <2> QED BY <1>4, <2>1, <2>2
<1>5. /\ jd' \in Jobs
      /\ \A s \in Sessions : session'[s] \in Packages \cup {NoPackage} /\ DOMAIN plan'[s] = PlanFields
      /\ \A s \in {x \in Sessions : plan'[x].status \in {"READY", "LOCKED"}} :
            BuiltBy(jd', session'[s], plan'[s].agenda, plan'[s].context)
      /\ \A r \in Requests : call'[r].at = "planned"
            => BuiltBy(jd', session'[call'[r].s], call'[r].agenda, call'[r].context)
  BY <1>2, <1>3, <1>4
<1> QED BY <1>5 DEF FromPlanner, Planned

LEMMA SamePlans ==
    ASSUME FromPlanner, UNCHANGED <<jd, session, plan>>
    PROVE  \A s \in Sessions :
              /\ session[s] \in Packages => session'[s] = session[s]
              /\ session'[s] \in Packages \cup {NoPackage} /\ DOMAIN plan'[s] = PlanFields
              /\ \/ plan'[s].status \notin {"READY", "LOCKED"}
                 \/ BuiltBy(jd, session[s], plan'[s].agenda, plan'[s].context)
BY DEF FromPlanner, Planned

LEMMA SameCalls ==
    ASSUME UNCHANGED call
    PROVE  \A r \in Requests : \/ call'[r].at # "planned"
                               \/ call'[r] = call[r]
                               \/ call'[r].s \in Sessions
                                  /\ BuiltBy(jd, session[call'[r].s], call'[r].agenda, call'[r].context)
OBVIOUS

(* One request does something else, and is not left with a plan.            *)
LEMMA OtherCall ==
    ASSUME Building, NEW r \in Requests, NEW c, call' = [call EXCEPT ![r] = c], c.at # "planned"
    PROVE  \A x \in Requests : \/ call'[x].at # "planned"
                               \/ call'[x] = call[x]
                               \/ call'[x].s \in Sessions
                                  /\ BuiltBy(jd, session[call'[x].s], call'[x].agenda, call'[x].context)
BY DEF Building

LEMMA CreateFromPlanner ==
    ASSUME Packaged, Building, FromPlanner, NEW s \in Sessions, CreateSession(s)
    PROVE  FromPlanner'
<1>1. PICK p \in Packages : session' = [session EXCEPT ![s] = p]
  BY DEF CreateSession
<1>2. /\ session[s] = NoPackage /\ plan' = [plan EXCEPT ![s].status = "DRAFT"]
      /\ UNCHANGED <<jd, call>>
  BY DEF CreateSession
<1>3. ASSUME NEW x \in Sessions
      PROVE  /\ session[x] \in Packages => session'[x] = session[x]
             /\ session'[x] \in Packages \cup {NoPackage} /\ DOMAIN plan'[x] = PlanFields
             /\ \/ plan'[x].status \notin {"READY", "LOCKED"}
                \/ BuiltBy(jd, session[x], plan'[x].agenda, plan'[x].context)
  <2>1. CASE x = s
    <3>1. session'[x] = p /\ session[x] \notin Packages
      BY <1>1, <1>2, <2>1, RealPackages DEF Packaged
    <3>2. plan'[x] = [plan[x] EXCEPT !.status = "DRAFT"]
      BY <1>2, <2>1 DEF Packaged
    <3>3. DOMAIN plan[x] = PlanFields
      BY DEF FromPlanner
    <3>4. DOMAIN plan'[x] = PlanFields /\ plan'[x].status = "DRAFT"
      BY <3>2, <3>3 DEF PlanFields
    <3> QED BY <3>1, <3>4
  <2>2. CASE x # s
    <3>1. session'[x] = session[x] /\ plan'[x] = plan[x]
      BY <1>1, <1>2, <2>2 DEF Packaged
    <3> QED BY <3>1 DEF FromPlanner, Planned
  <2> QED BY <2>1, <2>2
<1> QED BY <1>2, <1>3, SameCalls, StaysFromPlanner

LEMMA StartFromPlanner ==
    ASSUME Packaged, Building, FromPlanner, NEW r \in Requests, NEW s \in Sessions, StartPlan(r, s)
    PROVE  FromPlanner'
<1>1. PICK m \in Matches[jd], p \in Policies :
         /\ PlanOf[jd][m][session[s]][p].policy # "none"
         /\ call' = [call EXCEPT ![r] =
                [IdleCall EXCEPT !.at = "planned", !.s = s,
                                 !.agenda = PlanOf[jd][m][session[s]][p],
                                 !.context = [match |-> m, policy |-> p],
                                 !.level = FitAdjusted(jd.level, Tier(m, Gate))]]
  BY Zenon DEF StartPlan
<1>2. plan[s].status # "none" /\ UNCHANGED <<jd, session, plan>>
  BY DEF StartPlan
<1>3. session[s] \in Packages
  BY <1>2 DEF Packaged, FromPlanner
<1>4. PICK a, c, l : /\ a = PlanOf[jd][m][session[s]][p] /\ c = [match |-> m, policy |-> p]
                     /\ l = FitAdjusted(jd.level, Tier(m, Gate))
  OBVIOUS
<1> DEFINE d == [IdleCall EXCEPT !.at = "planned", !.s = s, !.agenda = a, !.context = c, !.level = l]
<1>5. call' = [call EXCEPT ![r] = d]
  BY <1>1, <1>4, Zenon
<1>6. d.s = s /\ d.agenda = a /\ d.context = c
  BY IdleRecord
<1>7. BuiltBy(jd, session[s], a, c)
  <2>1. c.match = m /\ c.policy = p
    BY <1>4
  <2> QED BY <1>1, <1>3, <1>4, <2>1, Zenon DEF BuiltBy
<1> HIDE DEF d
<1>8. \A x \in Requests : \/ call'[x].at # "planned"
                          \/ call'[x] = call[x]
                          \/ call'[x].s \in Sessions
                             /\ BuiltBy(jd, session[call'[x].s], call'[x].agenda, call'[x].context)
  <2>1. call'[r] = d /\ \A x \in Requests \ {r} : call'[x] = call[x]
    BY <1>5 DEF Building
  <2> QED BY <1>6, <1>7, <2>1
<1> QED BY <1>2, <1>8, SamePlans, StaysFromPlanner

LEMMA PersistFromPlanner ==
    ASSUME Packaged, Building, FromPlanner, NEW r \in Requests, PersistPlan(r)
    PROVE  FromPlanner'
<1> DEFINE s == call[r].s
           written == [status |-> "READY", agenda |-> call[r].agenda, level |-> call[r].level,
                       context |-> call[r].context]
<1>1. /\ UNCHANGED <<jd, session>> /\ call' = [call EXCEPT ![r] = IdleCall]
      /\ call[r].at = "planned"
      /\ plan' = plan \/ plan' = [plan EXCEPT ![s] = written]
  BY DEF PersistPlan
<1>2. BuiltBy(jd, session[s], call[r].agenda, call[r].context) /\ s \in Sessions
  BY <1>1 DEF FromPlanner, Building
<1>3. /\ written.status = "READY" /\ written.agenda = call[r].agenda
      /\ written.context = call[r].context /\ DOMAIN written = PlanFields
  BY DEF PlanFields
<1> HIDE DEF written
<1>4. ASSUME NEW x \in Sessions
      PROVE  /\ session[x] \in Packages => session'[x] = session[x]
             /\ session'[x] \in Packages \cup {NoPackage} /\ DOMAIN plan'[x] = PlanFields
             /\ \/ plan'[x].status \notin {"READY", "LOCKED"}
                \/ BuiltBy(jd, session[x], plan'[x].agenda, plan'[x].context)
  <2>1. plan'[x] = plan[x] \/ (x = s /\ plan'[x] = written)
    BY <1>1 DEF Packaged
  <2>2. CASE plan'[x] = plan[x]
    BY <1>1, <2>2 DEF FromPlanner, Planned
  <2>3. CASE x = s /\ plan'[x] = written
    BY <1>1, <1>2, <1>3, <2>3 DEF FromPlanner
  <2> QED BY <2>1, <2>2, <2>3
<1>5. IdleCall.at # "planned"
  BY IdleRecord
<1> QED BY <1>1, <1>4, <1>5, OtherCall, StaysFromPlanner

LEMMA FreezeFromPlanner ==
    ASSUME Packaged, Building, FromPlanner, NEW r \in Requests, SelectAndFreeze(r)
    PROVE  FromPlanner'
<1> DEFINE s == call[r].s
<1>1. /\ UNCHANGED <<jd, session>> /\ call' = [call EXCEPT ![r] = IdleCall]
      /\ \/ plan' = plan
         \/ plan[s].status = "READY" /\ plan' = [plan EXCEPT ![s].status = "LOCKED"]
  BY DEF SelectAndFreeze
<1>2. ASSUME NEW x \in Sessions
      PROVE  /\ session[x] \in Packages => session'[x] = session[x]
             /\ session'[x] \in Packages \cup {NoPackage} /\ DOMAIN plan'[x] = PlanFields
             /\ \/ plan'[x].status \notin {"READY", "LOCKED"}
                \/ BuiltBy(jd, session[x], plan'[x].agenda, plan'[x].context)
  <2>1. \/ plan'[x] = plan[x]
        \/ plan[x].status = "READY" /\ plan'[x] = [plan[x] EXCEPT !.status = "LOCKED"]
    BY <1>1 DEF Packaged
  <2>2. CASE plan'[x] = plan[x]
    BY <1>1, <2>2 DEF FromPlanner, Planned
  <2>3. CASE plan[x].status = "READY" /\ plan'[x] = [plan[x] EXCEPT !.status = "LOCKED"]
    <3>1. DOMAIN plan[x] = PlanFields
      BY DEF FromPlanner
    <3>2. /\ DOMAIN plan'[x] = PlanFields /\ plan'[x].agenda = plan[x].agenda
          /\ plan'[x].context = plan[x].context
      BY <2>3, <3>1 DEF PlanFields
    <3>3. BuiltBy(jd, session[x], plan[x].agenda, plan[x].context)
      BY <2>3 DEF FromPlanner, Planned
    <3> QED BY <1>1, <3>2, <3>3 DEF FromPlanner
  <2> QED BY <2>1, <2>2, <2>3
<1>3. IdleCall.at # "planned"
  BY IdleRecord
<1> QED BY <1>1, <1>2, <1>3, OtherCall, StaysFromPlanner

LEMMA NextFromPlanner ==
    ASSUME Packaged, Building, FromPlanner, [Next]_vars
    PROVE  FromPlanner'
<1>1. CASE (\E s \in Sessions : AskTurn(s)) \/ (\E q \in Reviewed : ReviewQuestion(q)) \/ UNCHANGED vars
  <2>1. UNCHANGED <<jd, session, plan, call>>
    BY <1>1 DEF AskTurn, ReviewQuestion, vars
  <2> QED BY <2>1, SamePlans, SameCalls, StaysFromPlanner
<1>2. ASSUME NEW r \in Requests, NEW s \in Sessions, StartFreeze(r, s) PROVE FromPlanner'
  <2>1. UNCHANGED <<jd, session, plan>>
    BY <1>2, Zenon DEF StartFreeze
  <2>2. \E l, w : call' = [call EXCEPT ![r] =
           [IdleCall EXCEPT !.at = "freezing", !.s = s, !.level = l, !.left = w]]
    BY <1>2, Zenon DEF StartFreeze
  <2>3. PICK l, w : call' = [call EXCEPT ![r] =
           [IdleCall EXCEPT !.at = "freezing", !.s = s, !.level = l, !.left = w]]
    BY <2>2, Zenon
  <2>4. [IdleCall EXCEPT !.at = "freezing", !.s = s, !.level = l, !.left = w].at = "freezing"
    BY BeginsFreezing, Zenon
  <2>5. PICK d : call' = [call EXCEPT ![r] = d] /\ d.at = "freezing"
    BY <2>3, <2>4, Zenon
  <2> QED BY <2>1, <2>5, SamePlans, OtherCall, StaysFromPlanner
<1>3. ASSUME NEW r \in Requests, StartCoverage(r) PROVE FromPlanner'
  <2>1. UNCHANGED <<jd, session, plan>>
    BY <1>3, Zenon DEF StartCoverage
  <2>2. \E l, w : call' = [call EXCEPT ![r] =
           [IdleCall EXCEPT !.at = "covering", !.level = l, !.left = w]]
    BY <1>3, Zenon DEF StartCoverage
  <2>3. PICK l, w : call' = [call EXCEPT ![r] =
           [IdleCall EXCEPT !.at = "covering", !.level = l, !.left = w]]
    BY <2>2, Zenon
  <2>4. [IdleCall EXCEPT !.at = "covering", !.level = l, !.left = w].at = "covering"
    BY BeginsCovering, Zenon
  <2>5. PICK d : call' = [call EXCEPT ![r] = d] /\ d.at = "covering"
    BY <2>3, <2>4, Zenon
  <2> QED BY <2>1, <2>5, SamePlans, OtherCall, StaysFromPlanner
<1>4. ASSUME NEW r \in Requests, EndCoverage(r) \/ Die(r) PROVE FromPlanner'
  <2>1. UNCHANGED <<jd, session, plan>> /\ call' = [call EXCEPT ![r] = IdleCall]
    BY <1>4, Zenon DEF EndCoverage, Die
  <2>2. IdleCall.at # "planned"
    BY IdleRecord
  <2> QED BY <2>1, <2>2, SamePlans, OtherCall, StaysFromPlanner
<1>5. ASSUME NEW r \in Requests, CountUnderLock(r) \/ FileDrafts(r) PROVE FromPlanner'
  <2>1. UNCHANGED <<jd, session, plan>> /\ call[r].at \in {"freezing", "covering"}
    BY <1>5 DEF CountUnderLock, FileDrafts, Working
  <2>2. \/ \E w : call' = [call EXCEPT ![r].left = w]
        \/ \E w : call' = [call EXCEPT ![r].want = w]
        \/ \E w, n : call' = [call EXCEPT ![r].left = w, ![r].want = n]
    BY <1>5 DEF CountUnderLock, FileDrafts
  <2> DEFINE Alike == call'[r].at = call[r].at /\ \A x \in Requests \ {r} : call'[x] = call[x]
  <2>3. DOMAIN call = Requests
    BY DEF Building
  <2>4. ASSUME NEW w, call' = [call EXCEPT ![r].left = w] PROVE Alike
    BY <2>3, <2>4
  <2>5. ASSUME NEW w, call' = [call EXCEPT ![r].want = w] PROVE Alike
    BY <2>3, <2>5
  <2>6. ASSUME NEW w, NEW n, call' = [call EXCEPT ![r].left = w, ![r].want = n] PROVE Alike
    BY <2>3, <2>6
  <2>7. Alike
    BY <2>2, <2>4, <2>5, <2>6
  <2>8. \A x \in Requests : call'[x].at # "planned" \/ call'[x] = call[x]
    BY <2>1, <2>7
  <2> QED BY <2>1, <2>8, SamePlans, StaysFromPlanner
<1>6. ASSUME NEW s \in Sessions, CreateSession(s) PROVE FromPlanner'
  BY <1>6, CreateFromPlanner
<1>7. ASSUME NEW r \in Requests, NEW s \in Sessions, StartPlan(r, s) PROVE FromPlanner'
  BY <1>7, StartFromPlanner
<1>8. ASSUME NEW r \in Requests, PersistPlan(r) PROVE FromPlanner'
  BY <1>8, PersistFromPlanner
<1>9. ASSUME NEW r \in Requests, SelectAndFreeze(r) PROVE FromPlanner'
  BY <1>9, FreezeFromPlanner
<1> QED BY <1>1, <1>2, <1>3, <1>4, <1>5, <1>6, <1>7, <1>8, <1>9 DEF Next

-----------------------------------------------------------------------------
(* What the planner promises of every agenda it builds.                     *)

LEMMA BuiltByPlan ==
    ASSUME NEW j \in Jobs, NEW p, NEW a, NEW c, BuiltBy(j, p, a, c)
    PROVE  \/ DynamicFits(j, c.match, c.policy, a)
           \/ \E sel : LegacyShape(WithoutMinor(LegacyCandidates(j, c.match)), p.minutes, p.focus,
                                   p.reask, a, sel)
<1> DEFINE m == c.match
           policy == c.policy
<1>1. /\ m \in Matches[j] /\ policy \in Policies /\ p \in Packages
      /\ a = PlanOf[j][m][p][policy] /\ a.policy # "none"
  BY DEF BuiltBy
<1>2. p.minutes \in Nat
  BY <1>1, PackagesAssumption
<1> HIDE DEF m, policy
<1>3. a = Plan(j, m, p.minutes, policy, p.focus, p.reask)
  BY <1>1 DEF PlanOf
<1>4. CASE policy.on
  <2>1. a = DynamicPlan(j, m, p.minutes, policy)
    BY <1>3, <1>4 DEF Plan
  <2>2. DynamicFits(j, m, policy, a)
    BY <1>1, <1>2, <2>1, DynamicPlanFits
  <2> QED BY <1>4, <2>2 DEF DynamicFits, m, policy
<1>5. CASE ~ policy.on
  <2>1. a = LegacyPlan(j, m, p.minutes, p.focus, p.reask)
    BY <1>3, <1>5 DEF Plan
  <2>2. \E sel : LegacyShape(WithoutMinor(LegacyCandidates(j, m)), p.minutes, p.focus, p.reask, a, sel)
    BY <1>1, <1>2, <2>1, LegacyPlanShape
  <2> QED BY <2>2 DEF m
<1> QED BY <1>4, <1>5

LEMMA BuiltAgenda ==
    ASSUME NEW j \in Jobs, NEW p, NEW a, NEW c, BuiltBy(j, p, a, c)
    PROVE  IsAgenda(a.targets) /\ a.policy \in {"legacy", "dynamic"}
BY BuiltByPlan DEF DynamicFits, LegacyShape

LEMMA EnvelopesOfPlan ==
    ASSUME NEW s \in Sessions,
           DynamicFits(jd, plan[s].context.match, plan[s].context.policy, plan[s].agenda)
    PROVE  ~ Counted(s) /\ EnvelopesFit(s)
BY DEF DynamicFits, Counted, EnvelopesFit

ShapeOf(s, sel) ==
    LegacyShape(CandidatesOf(s), session[s].minutes, session[s].focus, session[s].reask,
                plan[s].agenda, sel)

LEMMA CountsOfPlan ==
    ASSUME NEW s \in Sessions, NEW sel, ShapeOf(s, sel)
    PROVE  Counted(s) /\ CountsFit(s)
<1> DEFINE targets == plan[s].agenda.targets
           k == Cardinality(ToSet(sel))
           budget == QuestionBudget(session[s].minutes)
<1>1. /\ plan[s].agenda.policy = "legacy" /\ k = Smaller(budget, Cardinality(CandidatesOf(s)))
      /\ DOMAIN targets = 1..k /\ Len(targets) = k
      /\ \A i \in 1..k : targets[i].count \in 1..MaxQuestionsPerTarget
      /\ SumOf([i \in 1..k |-> targets[i].count]) = Smaller(budget, MaxQuestionsPerTarget * k)
  BY DEF ShapeOf, LegacyShape
<1> HIDE DEF k
<1> QED BY <1>1 DEF Counted, CountsFit

(* Whom an agenda asks about.                                               *)
LEMMA ConceptsOfPlan ==
    ASSUME NEW s \in Sessions, NEW sel, ShapeOf(s, sel)
    PROVE  /\ Concepts(plan[s].agenda.targets) = {t.concept : t \in ToSet(sel)}
           /\ {t \in CandidatesOf(s) : t.concept \in Concepts(plan[s].agenda.targets)} = ToSet(sel)
<1> DEFINE targets == plan[s].agenda.targets
           C == CandidatesOf(s)
           D == ToSet(sel)
           k == Cardinality(D)
<1>1. /\ CandidateSet(C) /\ Listing(sel, D) /\ D \subseteq C
      /\ DOMAIN targets = 1..k /\ \A i \in 1..k : targets[i].concept = sel[i].concept
  BY DEF ShapeOf, LegacyShape
<1> HIDE DEF D, k
<1>2. DOMAIN sel = 1..k /\ (\A i \in 1..k : sel[i] \in D) /\ \A t \in D : \E i \in 1..k : t = sel[i]
  BY <1>1, ListingFacts DEF Listing, k
<1>3. Concepts(targets) = {t.concept : t \in D}
  BY <1>1, <1>2 DEF Concepts
<1>4. \A t, u \in C : t.concept = u.concept => t = u
  BY <1>1 DEF CandidateSet
<1>5. {t \in C : t.concept \in Concepts(targets)} = D
  <2> HIDE DEF C, targets
  <2>1. ASSUME NEW t \in C, t.concept \in Concepts(targets) PROVE t \in D
    <3>1. PICK u \in D : t.concept = u.concept
      BY <1>3, <2>1
    <3> QED BY <1>1, <1>4, <3>1
  <2>2. ASSUME NEW t \in D PROVE t \in C /\ t.concept \in Concepts(targets)
    BY <1>1, <1>3, <2>2
  <2> QED BY <2>1, <2>2
<1> QED BY <1>3, <1>5 DEF D

LEMMA RightOfPlan ==
    ASSUME NEW s \in Sessions, NEW sel, ShapeOf(s, sel), NEW chosen,
           chosen = {t \in CandidatesOf(s) : t.concept \in Concepts(plan[s].agenda.targets)}
    PROVE  /\ ~ IsDemo(session[s].minutes) =>
                 /\ \A a, b \in chosen :
                       a # b /\ SpreadKey(a) = SpreadKey(b) /\ ~ InFocus(a, session[s].focus)
                          => Keys(CandidatesOf(s)) = Keys(chosen)
                 /\ LET due == session[s].reask \cap {t.concept : t \in CandidatesOf(s)}
                    IN due = {} \/ due \cap Concepts(plan[s].agenda.targets) # {}
           /\ IsDemo(session[s].minutes) =>
                 (Len(plan[s].agenda.targets) >= 2 /\ (\E t \in CandidatesOf(s) : IsGap(t))
                     => plan[s].agenda.targets[Len(plan[s].agenda.targets)].gap)
<1> DEFINE targets == plan[s].agenda.targets
           C == CandidatesOf(s)
           D == ToSet(sel)
           k == Cardinality(D)
           reask == session[s].reask
<1>1. chosen = D /\ Concepts(targets) = {t.concept : t \in D}
  BY ConceptsOfPlan
<1>2. ASSUME ~ IsDemo(session[s].minutes)
      PROVE  Selects(C, QuestionBudget(session[s].minutes), session[s].focus, reask, D)
  BY <1>2 DEF ShapeOf, LegacyShape
<1>3. ASSUME ~ IsDemo(session[s].minutes)
      PROVE  \A a, b \in chosen :
                a # b /\ SpreadKey(a) = SpreadKey(b) /\ ~ InFocus(a, session[s].focus)
                   => Keys(C) = Keys(chosen)
  <2> HIDE DEF C, D
  <2>1. \A a, b \in D : a # b /\ SpreadKey(a) = SpreadKey(b) /\ ~ InFocus(a, session[s].focus)
                           => Keys(C) = Keys(D)
    BY <1>2, <1>3, Zenon DEF Selects
  <2> QED BY <1>1, <2>1, Zenon
<1>4. ASSUME ~ IsDemo(session[s].minutes)
      PROVE  LET due == reask \cap {t.concept : t \in C} IN due = {} \/ due \cap Concepts(targets) # {}
  <2> HIDE DEF C, D, reask, targets
  <2>1. {t \in C : t.concept \in reask} = {} \/ {t \in D : t.concept \in reask} # {}
    BY <1>2, <1>4, Zenon DEF Selects
  <2>2. D \subseteq C
    BY <1>2, <1>4, Zenon DEF Selects
  <2>3. CASE {t \in C : t.concept \in reask} = {}
    <3>1. reask \cap {t.concept : t \in C} = {}
      BY <2>3
    <3> QED BY <3>1
  <2>4. CASE {t \in D : t.concept \in reask} # {}
    <3>1. PICK t \in D : t.concept \in reask
      BY <2>4
    <3>2. t.concept \in reask \cap {u.concept : u \in C} /\ t.concept \in Concepts(targets)
      BY <1>1, <2>2, <3>1
    <3> QED BY <3>2
  <2> QED BY <2>1, <2>3, <2>4
<1>5. ASSUME IsDemo(session[s].minutes), Len(targets) >= 2, \E t \in C : IsGap(t)
      PROVE  targets[Len(targets)].gap
  <2>1. /\ Len(targets) = k /\ k \in Nat /\ (\A i \in 1..k : targets[i].gap = IsGap(sel[i]))
        /\ IF IsDemo(session[s].minutes)
           THEN k >= 2 /\ (\E t \in C : IsGap(t)) => IsGap(sel[k])
           ELSE Selects(C, QuestionBudget(session[s].minutes), session[s].focus, reask, D)
    BY DEF ShapeOf, LegacyShape
  <2> HIDE DEF C, D, k, targets
  <2>2. k \in 1..k /\ IsGap(sel[k])
    BY <1>5, <2>1
  <2> QED BY <2>1, <2>2
<1> QED BY <1>3, <1>4, <1>5

LEMMA PlannedFit ==
    ASSUME FromPlanner
    PROVE  PlanFits /\ RightCompetencies
<1>1. ASSUME NEW s \in Planned
      PROVE  \/ ~ Counted(s) /\ EnvelopesFit(s)
             \/ \E sel : ShapeOf(s, sel)
  <2>1. s \in Sessions /\ jd \in Jobs
        /\ BuiltBy(jd, session[s], plan[s].agenda, plan[s].context)
    BY DEF FromPlanner, Planned
  <2>2. PICK j, p, a, c : j = jd /\ p = session[s] /\ a = plan[s].agenda /\ c = plan[s].context
    OBVIOUS
  <2>3. \/ DynamicFits(j, c.match, c.policy, a)
        \/ \E sel : LegacyShape(WithoutMinor(LegacyCandidates(j, c.match)), p.minutes, p.focus,
                                p.reask, a, sel)
    <3>1. j \in Jobs /\ BuiltBy(j, p, a, c)
      BY <2>1, <2>2
    <3> QED BY <3>1, BuiltByPlan
  <2>4. CASE DynamicFits(j, c.match, c.policy, a)
    BY <2>1, <2>2, <2>4, EnvelopesOfPlan
  <2>5. CASE \E sel : LegacyShape(WithoutMinor(LegacyCandidates(j, c.match)), p.minutes, p.focus,
                                  p.reask, a, sel)
    BY <2>2, <2>5 DEF ShapeOf, CandidatesOf
  <2> QED BY <2>3, <2>4, <2>5
<1>2. PlanFits
  <2>1. \A s \in Planned : s \in Sessions
    BY DEF Planned
  <2> QED BY <1>1, <2>1, CountsOfPlan DEF PlanFits
<1>3. ASSUME NEW s \in Planned, Counted(s) PROVE \E sel : ShapeOf(s, sel)
  BY <1>1, <1>3
<1>4. RoundsBeforeRepeats
  <2> SUFFICES ASSUME NEW s \in Planned, Counted(s), ~ IsDemo(session[s].minutes), NEW chosen,
                      chosen = {t \in CandidatesOf(s) : t.concept \in Concepts(plan[s].agenda.targets)}
               PROVE  \A a, b \in chosen :
                         a # b /\ SpreadKey(a) = SpreadKey(b) /\ ~ InFocus(a, session[s].focus)
                            => Keys(CandidatesOf(s)) = Keys(chosen)
    BY DEF RoundsBeforeRepeats
  <2>1. PICK sel : ShapeOf(s, sel)
    BY <1>3
  <2>2. s \in Sessions
    BY DEF Planned
  <2> QED BY <2>1, <2>2, RightOfPlan, Zenon
<1>5. DueAndGapsAreAsked
  <2> SUFFICES ASSUME NEW s \in Planned, Counted(s)
               PROVE  IF ~ IsDemo(session[s].minutes)
                      THEN LET due == session[s].reask \cap {t.concept : t \in CandidatesOf(s)}
                           IN due = {} \/ due \cap Concepts(plan[s].agenda.targets) # {}
                      ELSE Len(plan[s].agenda.targets) >= 2 /\ (\E t \in CandidatesOf(s) : IsGap(t))
                              => plan[s].agenda.targets[Len(plan[s].agenda.targets)].gap
    BY DEF DueAndGapsAreAsked
  <2>1. PICK sel : ShapeOf(s, sel)
    BY <1>3
  <2>2. s \in Sessions
    BY DEF Planned
  <2>3. PICK chosen :
           chosen = {t \in CandidatesOf(s) : t.concept \in Concepts(plan[s].agenda.targets)}
    OBVIOUS
  <2> QED BY <2>1, <2>2, <2>3, RightOfPlan, Zenon
<1> QED BY <1>2, <1>4, <1>5 DEF RightCompetencies

(* An agenda that counts questions has as many competencies and questions   *)
(* as its budget allows, one to three each; one of envelopes uses up the    *)
(* pool, no envelope below its floor, and a strict policy asks nothing past *)
(* the first competency left out.                                           *)
THEOREM PlansFit == Spec => []PlanFits
<1>1. Init => Packaged /\ Building /\ FromPlanner
  BY InitPackaged, InitBuilding, InitFromPlanner
<1>2. Packaged /\ Building /\ FromPlanner /\ [Next]_vars => (Packaged /\ Building /\ FromPlanner)'
  BY NextStands, NextFromPlanner
<1>3. FromPlanner => PlanFits
  BY PlannedFit
<1> QED BY <1>1, <1>2, <1>3, PTL DEF Spec

(* Two questions fall into one round only when every round that the job     *)
(* could fill has one; a skill due again keeps a slot; a demo of two        *)
(* questions ends on a gap when the job has one.                            *)
THEOREM RightCompetenciesChosen == Spec => []RightCompetencies
<1>1. Init => Packaged /\ Building /\ FromPlanner
  BY InitPackaged, InitBuilding, InitFromPlanner
<1>2. Packaged /\ Building /\ FromPlanner /\ [Next]_vars => (Packaged /\ Building /\ FromPlanner)'
  BY NextStands, NextFromPlanner
<1>3. FromPlanner => RightCompetencies
  BY PlannedFit
<1> QED BY <1>1, <1>2, <1>3, PTL DEF Spec

-----------------------------------------------------------------------------
(* What a call still has to do, and when a question was asked.              *)

WishLists == Seq([concept : DOMAIN Area, desired : Nat])

CallFields == {"at", "s", "agenda", "level", "context", "left", "want"}

IsCall(c) ==
    /\ DOMAIN c = CallFields /\ c.level \in Int /\ c.left \in WishLists
    /\ c.left = <<>> => c.want = 0

Kept ==
    /\ \A s \in Sessions : plan[s].level \in Int
    /\ \A r \in Requests : IsCall(call[r])
    /\ \E S : asked \in Seq(S)

LEMMA OnlyPicks ==
    ASSUME NEW n \in Nat, NEW s, DOMAIN s = 1..n, Len(s) = n, NEW T
    PROVE  \E k \in Nat :
              /\ DOMAIN Only(s, T) = 1..k /\ Len(Only(s, T)) = k
              /\ \A a \in 1..k : \E j \in 1..n : Only(s, T)[a] = s[j] /\ s[j] \in T
<1>1. Subsequence(s, T, n, Only(s, T))
  BY OnlySelects
<1> DEFINE o == Only(s, T)
<1> HIDE DEF o
<1>2. PICK k \in 0..n : \E pos \in [1..k -> 1..n] :
         Positions(s, T, n, k, pos) /\ o = [a \in 1..k |-> s[pos[a]]]
  BY <1>1 DEF Subsequence, o
<1>3. PICK pos \in [1..k -> 1..n] : Positions(s, T, n, k, pos) /\ o = [a \in 1..k |-> s[pos[a]]]
  BY <1>2
<1>4. k \in Nat /\ DOMAIN o = 1..k /\ Len(o) = k /\ \A a \in 1..k : o[a] = s[pos[a]]
  BY <1>3
<1>5. \A a \in 1..k : pos[a] \in 1..n /\ s[pos[a]] \in T
  BY <1>3 DEF Positions
<1> QED BY <1>4, <1>5 DEF o

LEMMA LackingTyped ==
    ASSUME FromPlanner, NEW s \in Sessions
    PROVE  Lacking(s) \in WishLists
<1>1. CASE plan[s].status # "READY"
  BY <1>1 DEF Lacking, WishLists
<1>2. CASE plan[s].status = "READY"
  <2> DEFINE targets == plan[s].agenda.targets
             ts      == Only(targets, {t \in ToSet(targets) : ~ t.career})
             wishes  == [i \in DOMAIN ts |-> [concept |-> ts[i].concept, desired |-> ts[i].count]]
  <2>1. Lacking(s) = wishes
    BY <1>2 DEF Lacking
  <2>2. IsAgenda(targets)
    <3>1. jd \in Jobs /\ BuiltBy(jd, session[s], plan[s].agenda, plan[s].context)
      BY <1>2 DEF FromPlanner, Planned
    <3> QED BY <3>1, BuiltAgenda
  <2> HIDE DEF targets
  <2>3. PICK n \in Nat : /\ n = Len(targets) /\ DOMAIN targets = 1..n
                         /\ \A i \in 1..n : targets[i].concept \in DOMAIN Area /\ targets[i].count \in Nat
    BY <2>2 DEF IsAgenda
  <2>4. PICK k \in Nat : /\ DOMAIN ts = 1..k /\ Len(ts) = k
                         /\ \A a \in 1..k : \E j \in 1..n : ts[a] = targets[j]
    <3> DEFINE T == {t \in ToSet(targets) : ~ t.career}
    <3> HIDE DEF T
    <3>1. \E k \in Nat :
             /\ DOMAIN Only(targets, T) = 1..k /\ Len(Only(targets, T)) = k
             /\ \A a \in 1..k : \E j \in 1..n : Only(targets, T)[a] = targets[j] /\ targets[j] \in T
      BY <2>3, OnlyPicks
    <3> QED BY <3>1 DEF T
  <2> HIDE DEF ts
  <2>5. \A a \in 1..k : ts[a].concept \in DOMAIN Area /\ ts[a].count \in Nat
    BY <2>3, <2>4
  <2>6. wishes \in Seq([concept : DOMAIN Area, desired : Nat])
    BY <2>4, <2>5
  <2> QED BY <2>1, <2>6 DEF WishLists
<1> QED BY <1>1, <1>2

LEMMA MustHavesListed ==
    ASSUME jd \in Jobs
    PROVE  \E C \in SUBSET (DOMAIN Area) : Listing(MustHaves, C)
<1> DEFINE C      == UNION {jd.reqs[r].skills : r \in {x \in DOMAIN jd.reqs :
                                                         jd.reqs[x].priority = "must_have"}}
<1>1. C \subseteq Required(jd)
  BY DEF Required
<1>2. IsFiniteSet(C) /\ C \subseteq DOMAIN Area
  BY <1>1, JobTyped, FS_Subset
<1>3. \A c \in C : c \in Int
  BY <1>2, AreaAssumption
<1> DEFINE first  == [T \in SUBSET C |-> CHOOSE x \in T : \A y \in T \ {x} : ~ (y < x)]
           before == {p \in C \X C : p[1] < p[2]}
<1>4. MustHaves = Listed(C, first)
  BY DEF MustHaves, InOrderOf
<1> HIDE DEF C
<1>5. IsStrict(C, before)
  BY <1>3 DEF IsStrict
<1>6. \A x, y \in C : <<x, y>> \in before <=> x < y
  OBVIOUS
<1> HIDE DEF before
<1>7. ASSUME NEW T \in SUBSET C, \E x \in T : IsFirst(T, before, x)
      PROVE  IsFirst(T, before, first[T])
  <2>1. \A x \in T : IsFirst(T, before, x) <=> \A y \in T \ {x} : ~ (y < x)
    BY <1>6 DEF IsFirst
  <2>2. \E x \in T : \A y \in T \ {x} : ~ (y < x)
    BY <1>7, <2>1
  <2>3. first[T] = CHOOSE x \in T : \A y \in T \ {x} : ~ (y < x)
    OBVIOUS
  <2> HIDE DEF first
  <2>4. first[T] \in T /\ \A y \in T \ {first[T]} : ~ (y < first[T])
    BY <2>2, <2>3, Zenon
  <2> QED BY <2>1, <2>4
<1> HIDE DEF first
<1>8. Listing(Listed(C, first), C)
  BY <1>2, <1>5, <1>7, InOrderLists
<1> QED BY <1>2, <1>4, <1>8

LEMMA CoverageTyped ==
    ASSUME jd \in Jobs
    PROVE  [i \in DOMAIN MustHaves |-> [concept |-> MustHaves[i], desired |-> MinPerSkill]]
              \in WishLists
<1>1. PICK C \in SUBSET (DOMAIN Area) : Listing(MustHaves, C)
  BY MustHavesListed
<1>2. PICK n \in Nat : DOMAIN MustHaves = 1..n /\ Len(MustHaves) = n /\ MustHaves \in Seq(C)
  BY <1>1, ListingFacts
<1>3. \A i \in 1..n : MustHaves[i] \in DOMAIN Area
  BY <1>2
<1> QED BY <1>2, <1>3, MinPerSkillAssumption DEF WishLists

LEMMA IdleIsCall == IsCall(IdleCall)
<1>1. PICK s, a, c : IdleCall = [at |-> "idle", s |-> s, agenda |-> a, level |-> 1, context |-> c,
                                 left |-> <<>>, want |-> 0]
  BY IdleRecord
<1> QED BY <1>1 DEF IsCall, CallFields, WishLists

LEMMA BegunIsCall ==
    ASSUME NEW s, NEW a, NEW c, NEW l \in Int, NEW w \in WishLists
    PROVE  /\ IsCall([IdleCall EXCEPT !.at = "planned", !.s = s, !.agenda = a, !.context = c,
                                      !.level = l])
           /\ IsCall([IdleCall EXCEPT !.at = "freezing", !.s = s, !.level = l, !.left = w])
           /\ IsCall([IdleCall EXCEPT !.at = "covering", !.level = l, !.left = w])
<1>1. PICK t, b, d : IdleCall = [at |-> "idle", s |-> t, agenda |-> b, level |-> 1, context |-> d,
                                 left |-> <<>>, want |-> 0]
  BY IdleRecord
<1>2. <<>> \in WishLists
  BY DEF WishLists
<1> QED BY <1>1, <1>2 DEF IsCall, CallFields

LEMMA InitKept == Init => Kept
<1> SUFFICES ASSUME Init PROVE Kept
  OBVIOUS
<1>1. asked \in Seq({})
  BY DEF Init
<1>2. \A s \in Sessions : plan[s].level \in Int
  BY DEF Init
<1>3. \A r \in Requests : IsCall(call[r])
  BY IdleIsCall DEF Init
<1> QED BY <1>1, <1>2, <1>3 DEF Kept

(* A call that goes on has less to do.                                      *)
LEMMA GoesOnIsCall ==
    ASSUME NEW c, IsCall(c), c.left # <<>>
    PROVE  /\ c.want = 0 => IsCall([c EXCEPT !.left = Tail(c.left)])
           /\ \A w : IsCall([c EXCEPT !.want = w])
           /\ IsCall([c EXCEPT !.left = Tail(c.left), !.want = 0])
<1>1. Tail(c.left) \in WishLists
  BY DEF IsCall, WishLists
<1>2. PICK t : t = Tail(c.left) /\ t \in WishLists
  BY <1>1
<1>3. DOMAIN c = CallFields /\ c.level \in Int /\ c.left \in WishLists
  BY DEF IsCall
<1>5. /\ DOMAIN [c EXCEPT !.left = t] = CallFields /\ [c EXCEPT !.left = t].level = c.level
      /\ [c EXCEPT !.left = t].left = t /\ [c EXCEPT !.left = t].want = c.want
  BY <1>3 DEF CallFields
<1>6. ASSUME NEW w
      PROVE  /\ DOMAIN [c EXCEPT !.want = w] = CallFields /\ [c EXCEPT !.want = w].level = c.level
             /\ [c EXCEPT !.want = w].left = c.left
  BY <1>3 DEF CallFields
<1>7. /\ DOMAIN [c EXCEPT !.left = t, !.want = 0] = CallFields
      /\ [c EXCEPT !.left = t, !.want = 0].level = c.level
      /\ [c EXCEPT !.left = t, !.want = 0].left = t
      /\ [c EXCEPT !.left = t, !.want = 0].want = 0
  BY <1>3 DEF CallFields
<1>8. c.want = 0 => IsCall([c EXCEPT !.left = t])
  <2>1. PICK d : d = [c EXCEPT !.left = t]
    OBVIOUS
  <2> QED BY <1>2, <1>3, <1>5, <2>1 DEF IsCall
<1>9. ASSUME NEW w PROVE IsCall([c EXCEPT !.want = w])
  <2>1. PICK d : d = [c EXCEPT !.want = w]
    OBVIOUS
  <2> QED BY <1>3, <1>6, <2>1 DEF IsCall
<1>10. IsCall([c EXCEPT !.left = t, !.want = 0])
  <2>1. PICK d : d = [c EXCEPT !.left = t, !.want = 0]
    OBVIOUS
  <2> QED BY <1>2, <1>3, <1>7, <2>1 DEF IsCall
<1> QED BY <1>2, <1>8, <1>9, <1>10

(* One request takes a step.                                                *)
LEMMA StaysKept ==
    ASSUME Building, Kept, NEW r \in Requests, NEW c, call' = [call EXCEPT ![r] = c], IsCall(c),
           UNCHANGED asked, \A s \in Sessions : plan'[s].level \in Int
    PROVE  Kept'
<1>1. \A x \in Requests : call'[x] = c \/ call'[x] = call[x]
  BY DEF Building
<1>2. \A x \in Requests : IsCall(call'[x])
  BY <1>1 DEF Kept
<1>3. \E S : asked' \in Seq(S)
  BY DEF Kept
<1> QED BY <1>2, <1>3 DEF Kept

LEMMA NextKept ==
    ASSUME Packaged, Building, FromPlanner, Kept, [Next]_vars
    PROVE  Kept'
<1>1. CASE (\E q \in Reviewed : ReviewQuestion(q)) \/ UNCHANGED vars
  <2>1. UNCHANGED <<plan, call, asked>>
    BY <1>1 DEF ReviewQuestion, vars
  <2> QED BY <2>1 DEF Kept, IsCall
<1>2. ASSUME NEW s \in Sessions, AskTurn(s) PROVE Kept'
  <2>1. UNCHANGED <<plan, call>>
    BY <1>2 DEF AskTurn
  <2>2. PICK S : asked \in Seq(S)
    BY DEF Kept
  <2>3. PICK e : asked' = Append(asked, e)
    BY <1>2 DEF AskTurn
  <2>4. asked \in Seq(S \cup {e}) /\ e \in S \cup {e}
    BY <2>2
  <2>5. asked' \in Seq(S \cup {e})
    BY <2>3, <2>4, AppendProperties
  <2> QED BY <2>1, <2>5 DEF Kept, IsCall
<1>3. ASSUME NEW s \in Sessions, CreateSession(s) PROVE Kept'
  <2>1. UNCHANGED <<call, asked>> /\ plan' = [plan EXCEPT ![s].status = "DRAFT"]
    BY <1>3 DEF CreateSession
  <2>2. ASSUME NEW x \in Sessions PROVE plan'[x].level \in Int
    <3>1. plan'[x] = plan[x] \/ plan'[x] = [plan[x] EXCEPT !.status = "DRAFT"]
      BY <2>1 DEF Packaged
    <3>2. DOMAIN plan[x] = PlanFields /\ plan[x].level \in Int
      BY DEF FromPlanner, Kept
    <3> QED BY <3>1, <3>2 DEF PlanFields
  <2> QED BY <2>1, <2>2 DEF Kept, IsCall
<1>4. \A s \in Sessions : plan[s].level \in Int
  BY DEF Kept
<1>5. jd \in Jobs
  BY DEF FromPlanner
<1>6. ASSUME NEW r \in Requests, NEW s \in Sessions, StartPlan(r, s) PROVE Kept'
  <2>1. UNCHANGED <<plan, asked>>
    BY <1>6, Zenon DEF StartPlan
  <2>2. \E m, p : call' = [call EXCEPT ![r] =
                [IdleCall EXCEPT !.at = "planned", !.s = s,
                                 !.agenda = PlanOf[jd][m][session[s]][p],
                                 !.context = [match |-> m, policy |-> p],
                                 !.level = FitAdjusted(jd.level, Tier(m, Gate))]]
    BY <1>6, Zenon DEF StartPlan
  <2>3. PICK m, p : call' = [call EXCEPT ![r] =
                [IdleCall EXCEPT !.at = "planned", !.s = s,
                                 !.agenda = PlanOf[jd][m][session[s]][p],
                                 !.context = [match |-> m, policy |-> p],
                                 !.level = FitAdjusted(jd.level, Tier(m, Gate))]]
    BY <2>2, Zenon
  <2>4. FitAdjusted(jd.level, Tier(m, Gate)) \in Int
    <3>1. jd.level \in 1..3
      BY <1>5, JobsAssumption
    <3> QED BY <3>1 DEF FitAdjusted, Larger, Smaller
  <2>9. PICK l \in Int : l = FitAdjusted(jd.level, Tier(m, Gate))
    BY <2>4
  <2>5. PICK a, c : a = PlanOf[jd][m][session[s]][p] /\ c = [match |-> m, policy |-> p]
    BY Zenon
  <2> DEFINE d == [IdleCall EXCEPT !.at = "planned", !.s = s, !.agenda = a, !.context = c, !.level = l]
  <2>6. call' = [call EXCEPT ![r] = d]
    BY <2>3, <2>5, <2>9, Zenon
  <2>7. <<>> \in WishLists
    BY DEF WishLists
  <2>8. IsCall(d)
    BY <2>7, BegunIsCall, Zenon
  <2> HIDE DEF d
  <2> QED BY <1>4, <2>1, <2>6, <2>8, StaysKept
<1>7. ASSUME NEW r \in Requests, NEW s \in Sessions, StartFreeze(r, s) PROVE Kept'
  <2>1. UNCHANGED <<plan, asked>> /\ call' = [call EXCEPT ![r] =
           [IdleCall EXCEPT !.at = "freezing", !.s = s, !.level = plan[s].level, !.left = Lacking(s)]]
    BY <1>7, Zenon DEF StartFreeze
  <2>2. PICK l \in Int, w \in WishLists : l = plan[s].level /\ w = Lacking(s)
    BY <1>4, LackingTyped
  <2> DEFINE d == [IdleCall EXCEPT !.at = "freezing", !.s = s, !.level = l, !.left = w]
  <2>3. call' = [call EXCEPT ![r] = d]
    BY <2>1, <2>2, Zenon
  <2>4. IsCall(d)
    BY BegunIsCall
  <2> HIDE DEF d
  <2> QED BY <1>4, <2>1, <2>3, <2>4, StaysKept
<1>8. ASSUME NEW r \in Requests, StartCoverage(r) PROVE Kept'
  <2>1. UNCHANGED <<plan, asked>> /\ call' = [call EXCEPT ![r] =
           [IdleCall EXCEPT !.at = "covering", !.level = jd.level,
                       !.left = [i \in DOMAIN MustHaves |->
                                    [concept |-> MustHaves[i], desired |-> MinPerSkill]]]]
    BY <1>8, Zenon DEF StartCoverage
  <2>2. PICK l \in Int, w \in WishLists :
           l = jd.level /\ w = [i \in DOMAIN MustHaves |->
                                   [concept |-> MustHaves[i], desired |-> MinPerSkill]]
    <3>1. jd.level \in Int
      BY <1>5, JobsAssumption
    <3> QED BY <1>5, <3>1, CoverageTyped
  <2> DEFINE d == [IdleCall EXCEPT !.at = "covering", !.level = l, !.left = w]
  <2>3. call' = [call EXCEPT ![r] = d]
    BY <2>1, <2>2, Zenon
  <2>4. IsCall(d)
    BY BegunIsCall
  <2> HIDE DEF d
  <2> QED BY <1>4, <2>1, <2>3, <2>4, StaysKept
<1>9. ASSUME NEW r \in Requests, EndCoverage(r) \/ Die(r) PROVE Kept'
  <2>1. UNCHANGED <<plan, asked>> /\ call' = [call EXCEPT ![r] = IdleCall]
    BY <1>9, Zenon DEF EndCoverage, Die
  <2> QED BY <1>4, <2>1, IdleIsCall, StaysKept
<1>10. ASSUME NEW r \in Requests, CountUnderLock(r) \/ FileDrafts(r) PROVE Kept'
  <2>1. IsCall(call[r]) /\ DOMAIN call = Requests
    BY DEF Kept, Building
  <2>2. UNCHANGED <<plan, asked>>
    BY <1>10 DEF CountUnderLock, FileDrafts
  <2>3. \/ /\ call[r].left # <<>> /\ call[r].want = 0
           /\ \/ call' = [call EXCEPT ![r].left = Tail(@)]
              \/ \E w : call' = [call EXCEPT ![r].want = w]
        \/ call[r].want # 0 /\ call' = [call EXCEPT ![r].left = Tail(@), ![r].want = 0]
    <3>1. CASE FileDrafts(r)
      <4>1. call' = [call EXCEPT ![r].left = Tail(@), ![r].want = 0]
        BY <3>1, Zenon DEF FileDrafts
      <4>2. call[r].want > 0
        BY <3>1, Zenon DEF FileDrafts
      <4>3. call[r].want # 0
        BY <4>2
      <4> QED BY <4>1, <4>3, Zenon
    <3>2. CASE CountUnderLock(r)
      <4>1. call[r].left # <<>> /\ call[r].want = 0
        BY <3>2, Zenon DEF CountUnderLock
      <4>2. \/ call' = [call EXCEPT ![r].left = Tail(@)]
            \/ \E w : call' = [call EXCEPT ![r].want = w]
        BY <3>2, Zenon DEF CountUnderLock
      <4> QED BY <4>1, <4>2, Zenon
    <3> QED BY <1>10, <3>1, <3>2
  <2>4. call[r].left # <<>>
    BY <2>1, <2>3 DEF IsCall
  <2>5. PICK c : c = call[r] /\ IsCall(c) /\ c.left # <<>>
    BY <2>1, <2>4
  <2>6. CASE call' = [call EXCEPT ![r].left = Tail(@)] /\ c.want = 0
    <3>1. call'[r] = [c EXCEPT !.left = Tail(c.left)] /\ \A x \in Requests \ {r} : call'[x] = call[x]
      BY <2>1, <2>5, <2>6
    <3>2. IsCall([c EXCEPT !.left = Tail(c.left)])
      BY <2>5, <2>6, GoesOnIsCall
    <3> QED BY <2>2, <3>1, <3>2 DEF Kept
  <2>7. CASE \E w : call' = [call EXCEPT ![r].want = w]
    <3>1. PICK w : call' = [call EXCEPT ![r].want = w]
      BY <2>7
    <3>2. call'[r] = [c EXCEPT !.want = w] /\ \A x \in Requests \ {r} : call'[x] = call[x]
      BY <2>1, <2>5, <3>1
    <3>3. IsCall([c EXCEPT !.want = w])
      BY <2>5, GoesOnIsCall
    <3> QED BY <2>2, <3>2, <3>3 DEF Kept
  <2>8. CASE call' = [call EXCEPT ![r].left = Tail(@), ![r].want = 0]
    <3>1. call'[r] = [c EXCEPT !.left = Tail(c.left), !.want = 0] /\ \A x \in Requests \ {r} : call'[x] = call[x]
      BY <2>1, <2>5, <2>8
    <3>2. IsCall([c EXCEPT !.left = Tail(c.left), !.want = 0])
      BY <2>5, GoesOnIsCall
    <3> QED BY <2>2, <3>1, <3>2 DEF Kept
  <2> QED BY <2>3, <2>5, <2>6, <2>7, <2>8
<1>11. ASSUME NEW r \in Requests, PersistPlan(r) PROVE Kept'
  <2>1. UNCHANGED asked /\ call' = [call EXCEPT ![r] = IdleCall]
        /\ \/ plan' = plan
           \/ plan' = [plan EXCEPT ![call[r].s] =
                        [status |-> "READY", agenda |-> call[r].agenda, level |-> call[r].level,
                         context |-> call[r].context]]
    BY <1>11, Zenon DEF PersistPlan
  <2>2. \A s \in Sessions : plan'[s].level = plan[s].level \/ plan'[s].level = call[r].level
    BY <2>1 DEF Packaged
  <2>3. call[r].level \in Int
    BY DEF Kept, IsCall
  <2>4. \A s \in Sessions : plan'[s].level \in Int
    BY <1>4, <2>2, <2>3
  <2> QED BY <2>1, <2>4, IdleIsCall, StaysKept
<1>12. ASSUME NEW r \in Requests, SelectAndFreeze(r) PROVE Kept'
  <2>1. UNCHANGED asked /\ call' = [call EXCEPT ![r] = IdleCall]
        /\ (plan' = plan \/ plan' = [plan EXCEPT ![call[r].s].status = "LOCKED"])
    BY <1>12 DEF SelectAndFreeze
  <2>2. ASSUME NEW x \in Sessions PROVE plan'[x].level \in Int
    <3>1. plan'[x] = plan[x] \/ plan'[x] = [plan[x] EXCEPT !.status = "LOCKED"]
      BY <2>1 DEF Packaged
    <3>2. DOMAIN plan[x] = PlanFields /\ plan[x].level \in Int
      BY DEF FromPlanner, Kept
    <3> QED BY <3>1, <3>2 DEF PlanFields
  <2> QED BY <2>1, <2>2, IdleIsCall, StaysKept
<1> QED BY <1>1, <1>2, <1>3, <1>6, <1>7, <1>8, <1>9, <1>10, <1>11, <1>12 DEF Next

-----------------------------------------------------------------------------
(* Drafts.  A lock is on a skill and a level, and nothing locks the review  *)
(* of the bank: what is filed is only bounded while no two requests work on *)
(* one skill at two levels, and while nobody approves a draft that could    *)
(* stand for a skill that a request counted.                                *)

Holds(r) == Working(r) /\ call[r].want > 0

Skill(r) == Head(call[r].left).concept

OneLevelEach ==
    \A r, x \in Requests : Holds(r) /\ Holds(x) /\ Skill(r) = Skill(x) => call[r].level = call[x].level

(* A question on another skill that could be asked for c once it is approved. *)
StandsFor(q, c) ==
    /\ q.skill # c
    /\ \/ \E i \in DOMAIN Broader[c] : q.skill = Broader[c][i]
       \/ q.skill \in JobConcepts /\ \E i \in DOMAIN RolesOf[c] : q.role = RolesOf[c][i]

ReviewsLeaveAlone ==
    \A r \in Requests, q \in Questions :
        Holds(r) /\ bank[q] = "draft" /\ bank'[q] = "approved" => ~ StandsFor(q, Skill(r))

(* How many questions a competency is to get is a number.                   *)
WantsNumbers == \A r \in Requests : call[r].left # <<>> => Head(call[r].left).desired \in Nat

LEMMA KeptWantsNumbers == Kept => WantsNumbers
<1> SUFFICES ASSUME Kept, NEW r \in Requests, call[r].left # <<>>
             PROVE  Head(call[r].left).desired \in Nat
  BY DEF WantsNumbers
<1>1. call[r].left \in Seq([concept : DOMAIN Area, desired : Nat])
  BY DEF Kept, IsCall, WishLists
<1>2. PICK W, w : W = [concept : DOMAIN Area, desired : Nat] /\ w = call[r].left /\ w \in Seq(W)
  BY <1>1
<1>3. Head(w) \in W
  BY <1>2, HeadTailProperties
<1> QED BY <1>2, <1>3

(* What could be asked at all: selection reaches some of these.             *)
Everything(c) ==
    OnSkill(c, {"approved"}, FALSE) \cup OnSkill(c, {"draft"}, FALSE)
    \cup {q \in UNION {OnRole(RolesOf[c][i], FALSE) : i \in DOMAIN RolesOf[c]} :
                     q.skill \in JobConcepts}
    \cup UNION {OnSkill(Broader[c][i], {"approved"}, FALSE) : i \in DOMAIN Broader[c]}

(* A request that holds a lock asked for no more than what is missing.      *)
Short(r) ==
    call[r].left # <<>> /\ Cardinality(Everything(Skill(r))) + call[r].want <= Head(call[r].left).desired

Wanting ==
    /\ DOMAIN call = Requests /\ DOMAIN bank = Questions
    /\ \A r \in Requests : call[r].want \in Nat /\ (Holds(r) => Short(r))
    /\ \A r, x \in Requests : r # x /\ Holds(r) /\ Holds(x) => Key(call[r]) # Key(call[x])

LEMMA Countable ==
    ASSUME NEW c
    PROVE  /\ Everything(c) \subseteq Questions /\ IsFiniteSet(Everything(c))
           /\ Cardinality(Everything(c)) \in Nat
<1>1. Everything(c) \subseteq Questions
  BY DEF Everything, OnSkill, OnRole
<1>2. IsFiniteSet(Questions)
  BY QuestionsAssumption
<1>3. IsFiniteSet(Everything(c))
  BY <1>1, <1>2, FS_Subset
<1> QED BY <1>1, <1>3, FS_CardinalityType

(* What selection reaches, and that it reaches everything when it falls short. *)
LEMMA ReachIsPart ==
    ASSUME NEW c, NEW desired \in Nat
    PROVE  /\ Reachable(c, desired) \subseteq Everything(c)
           /\ Cardinality(Reachable(c, desired)) < desired => Reachable(c, desired) = Everything(c)
<1> DEFINE exact == OnSkill(c, {"approved"}, FALSE)
<1>1. Reachable(c, desired) = IF Cardinality(exact) >= desired THEN exact ELSE Everything(c)
  BY DEF Reachable, Everything
<1>2. exact \subseteq Everything(c)
  BY DEF Everything
<1>3. IsFiniteSet(exact)
  BY <1>2, Countable, FS_Subset
<1>4. Cardinality(exact) \in Nat
  BY <1>3, FS_CardinalityType
<1> HIDE DEF exact
<1> QED BY <1>1, <1>2, <1>4

LEMMA InitWanting == Init => Wanting
<1>1. IdleCall.at = "idle" /\ IdleCall.want = 0
  BY IdleRecord
<1> QED BY <1>1 DEF Init, Wanting, Holds, Working

LEMMA SameBank ==
    ASSUME UNCHANGED <<jd, bank>>, NEW c
    PROVE  Everything(c)' = Everything(c)
BY DEF Everything, OnSkill, OnRole, Askable, JobConcepts

(* A request other than the one that takes a step, when the bank stays.     *)
LEMMA OthersWait ==
    ASSUME Wanting, UNCHANGED <<jd, bank>>, NEW x \in Requests, call'[x] = call[x]
    PROVE  call'[x].want \in Nat /\ (Holds(x)' => Holds(x) /\ Short(x)') /\ Skill(x)' = Skill(x)
<1>1. Holds(x)' = Holds(x) /\ Skill(x)' = Skill(x)
  BY DEF Holds, Working, Skill
<1>2. Everything(Skill(x))' = Everything(Skill(x))
  <2>1. \A c : Everything(c)' = Everything(c)
    BY SameBank
  <2> QED BY <2>1, <1>1 DEF Everything, OnSkill, OnRole, Askable, JobConcepts
<1>3. Short(x)' = Short(x)
  BY <1>1, <1>2 DEF Short
<1> QED BY <1>1, <1>3 DEF Wanting

LEMMA LetsGo ==
    ASSUME Wanting, UNCHANGED <<jd, bank>>, NEW r \in Requests, DOMAIN call' = Requests,
           \A x \in Requests \ {r} : call'[x] = call[x], call'[r].want = 0
    PROVE  Wanting'
<1>1. ~ Holds(r)'
  BY DEF Holds
<1>2. \A x \in Requests \ {r} :
         call'[x].want \in Nat /\ (Holds(x)' => Holds(x) /\ Short(x)')
  BY OthersWait
<1>3. \A x, y \in Requests : x # y /\ Holds(x)' /\ Holds(y)' => Key(call[x])' # Key(call[y])'
  BY <1>1, <1>2 DEF Wanting, Key
<1> QED BY <1>1, <1>2, <1>3 DEF Wanting

LEMMA FreezingWantsNothing ==
    ASSUME NEW s, NEW l, NEW w
    PROVE  [IdleCall EXCEPT !.at = "freezing", !.s = s, !.level = l, !.left = w].want = 0
BY IdleRecord

LEMMA CoveringWantsNothing ==
    ASSUME NEW l, NEW w
    PROVE  [IdleCall EXCEPT !.at = "covering", !.level = l, !.left = w].want = 0
BY IdleRecord

(* Every request that begins or ends a call wants nothing.                  *)
LEMMA BeginsOrEnds ==
    ASSUME Wanting, NEW r \in Requests,
           \/ \E s \in Sessions : StartPlan(r, s) \/ StartFreeze(r, s)
           \/ PersistPlan(r) \/ StartCoverage(r) \/ EndCoverage(r) \/ SelectAndFreeze(r) \/ Die(r)
    PROVE  Wanting'
<1>1. UNCHANGED <<jd, bank>>
  <2>1. CASE \E s \in Sessions : StartPlan(r, s)
    BY <2>1, Zenon DEF StartPlan
  <2>2. CASE \E s \in Sessions : StartFreeze(r, s)
    BY <2>2, Zenon DEF StartFreeze
  <2>3. CASE SelectAndFreeze(r)
    BY <2>3 DEF SelectAndFreeze
  <2>4. CASE PersistPlan(r) \/ StartCoverage(r) \/ EndCoverage(r) \/ Die(r)
    BY <2>4, Zenon DEF PersistPlan, StartCoverage, EndCoverage, Die
  <2> QED BY <2>1, <2>2, <2>3, <2>4
<1>2. ASSUME NEW d, call' = [call EXCEPT ![r] = d], d.want = 0 PROVE Wanting'
  <2>1. DOMAIN call' = Requests /\ call'[r] = d /\ \A x \in Requests \ {r} : call'[x] = call[x]
    BY <1>2 DEF Wanting
  <2> QED BY <1>1, <1>2, <2>1, LetsGo
<1>3. ASSUME NEW s \in Sessions, StartPlan(r, s) PROVE Wanting'
  <2>1. PICK m, p : call' = [call EXCEPT ![r] =
                [IdleCall EXCEPT !.at = "planned", !.s = s,
                                 !.agenda = PlanOf[jd][m][session[s]][p],
                                 !.context = [match |-> m, policy |-> p],
                                 !.level = FitAdjusted(jd.level, Tier(m, Gate))]]
    BY <1>3, Zenon DEF StartPlan
  <2>2. PICK a, c, l : call' = [call EXCEPT ![r] =
           [IdleCall EXCEPT !.at = "planned", !.s = s, !.agenda = a, !.context = c, !.level = l]]
    BY <2>1, Zenon
  <2>3. [IdleCall EXCEPT !.at = "planned", !.s = s, !.agenda = a, !.context = c, !.level = l].want = 0
    BY IdleRecord
  <2>4. PICK d : call' = [call EXCEPT ![r] = d] /\ d.want = 0
    BY <2>2, <2>3, Zenon
  <2> QED BY <1>2, <2>4
<1>4. ASSUME NEW s \in Sessions, StartFreeze(r, s) PROVE Wanting'
  <2>1. \E l, w : call' = [call EXCEPT ![r] =
           [IdleCall EXCEPT !.at = "freezing", !.s = s, !.level = l, !.left = w]]
    BY <1>4, Zenon DEF StartFreeze
  <2>2. PICK l, w : call' = [call EXCEPT ![r] =
           [IdleCall EXCEPT !.at = "freezing", !.s = s, !.level = l, !.left = w]]
    BY <2>1, Zenon
  <2>3. [IdleCall EXCEPT !.at = "freezing", !.s = s, !.level = l, !.left = w].want = 0
    BY FreezingWantsNothing, Zenon
  <2>4. PICK d : call' = [call EXCEPT ![r] = d] /\ d.want = 0
    BY <2>2, <2>3, Zenon
  <2> QED BY <1>2, <2>4
<1>5. CASE StartCoverage(r)
  <2>1. \E l, w : call' = [call EXCEPT ![r] =
           [IdleCall EXCEPT !.at = "covering", !.level = l, !.left = w]]
    BY <1>5, Zenon DEF StartCoverage
  <2>2. PICK l, w : call' = [call EXCEPT ![r] =
           [IdleCall EXCEPT !.at = "covering", !.level = l, !.left = w]]
    BY <2>1, Zenon
  <2>3. [IdleCall EXCEPT !.at = "covering", !.level = l, !.left = w].want = 0
    BY CoveringWantsNothing, Zenon
  <2>4. PICK d : call' = [call EXCEPT ![r] = d] /\ d.want = 0
    BY <2>2, <2>3, Zenon
  <2> QED BY <1>2, <2>4
<1>6. CASE PersistPlan(r) \/ EndCoverage(r) \/ SelectAndFreeze(r) \/ Die(r)
  <2>1. call' = [call EXCEPT ![r] = IdleCall]
    BY <1>6 DEF PersistPlan, EndCoverage, SelectAndFreeze, Die
  <2>2. IdleCall.want = 0
    BY IdleRecord
  <2> QED BY <1>2, <2>1, <2>2
<1> QED BY <1>3, <1>4, <1>5, <1>6

(* A count that finds questions missing takes a lock nobody holds.          *)
LEMMA CountsUnderLock ==
    ASSUME Wanting, WantsNumbers, NEW r \in Requests, CountUnderLock(r)
    PROVE  Wanting'
<1> DEFINE next    == Head(call[r].left)
           missing == next.desired - Cardinality(Reachable(next.concept, next.desired))
<1>1. /\ UNCHANGED <<jd, bank>> /\ Working(r) /\ call[r].left # <<>> /\ call[r].want = 0
      /\ ~ Locked(Key(call[r]))
      /\ call' = IF missing <= 0 THEN [call EXCEPT ![r].left = Tail(@)]
                 ELSE [call EXCEPT ![r].want = Smaller(missing, MaxGenerated(call[r].at))]
  BY DEF CountUnderLock
<1>2. CASE missing <= 0
  <2>1. /\ DOMAIN call' = Requests /\ \A x \in Requests \ {r} : call'[x] = call[x]
        /\ call'[r].want = 0
    BY <1>1, <1>2 DEF Wanting
  <2> QED BY <1>1, <2>1, LetsGo
<1>3. CASE ~ (missing <= 0)
  <2> DEFINE all == Everything(next.concept)
             n   == Smaller(missing, MaxGenerated(call[r].at))
  <2>1. next.desired \in Nat
    BY <1>1 DEF WantsNumbers
  <2>2. /\ IsFiniteSet(all) /\ Cardinality(all) \in Nat
        /\ Reachable(next.concept, next.desired) \subseteq all
    BY <2>1, Countable, ReachIsPart
  <2>3. Cardinality(Reachable(next.concept, next.desired)) \in Nat
    BY <2>2, FS_Subset, FS_CardinalityType
  <2>4. Reachable(next.concept, next.desired) = all
    BY <1>3, <2>1, <2>3, ReachIsPart
  <2>5. n \in Nat /\ Cardinality(all) + n <= next.desired
    BY <1>3, <2>1, <2>2, <2>3, <2>4 DEF Smaller, MaxGenerated
  <2>6. call' = [call EXCEPT ![r].want = n]
    BY <1>1, <1>3
  <2> HIDE DEF missing, n
  <2>7. /\ DOMAIN call' = Requests /\ \A x \in Requests \ {r} : call'[x] = call[x]
        /\ call'[r] = [call[r] EXCEPT !.want = n]
    BY <2>6 DEF Wanting
  <2>8. call'[r].left = call[r].left /\ call'[r].level = call[r].level /\ call'[r].at = call[r].at
    BY <2>7
  <2>9. call'[r].want = n \/ call'[r].want = call[r].want
    BY <2>7
  <2>10. Skill(r)' = next.concept /\ Head(call'[r].left) = next /\ Key(call[r])' = Key(call[r])
    BY <2>8 DEF Skill, Key
  <2>11. Everything(Skill(r))' = all
    BY <1>1, <2>10 DEF Everything, OnSkill, OnRole, Askable, JobConcepts
  <2>12. Short(r)' /\ call'[r].want \in Nat
    <3>1. call'[r].want \in 0..n
      BY <1>1, <2>5, <2>9
    <3>2. Cardinality(all) + call'[r].want <= next.desired
      BY <2>1, <2>2, <2>5, <3>1
    <3> HIDE DEF next, all
    <3>3. Cardinality(Everything(Skill(r)))' = Cardinality(all)
      BY <2>11
    <3>4. Short(r)' <=> /\ call'[r].left # <<>>
                        /\ Cardinality(Everything(Skill(r)))' + call'[r].want
                              <= Head(call'[r].left).desired
      BY DEF Short
    <3>5. call'[r].left # <<>>
      BY <1>1, <2>8
    <3> QED BY <2>10, <3>1, <3>2, <3>3, <3>4, <3>5
  <2>13. \A x \in Requests \ {r} :
            call'[x].want \in Nat /\ (Holds(x)' => Holds(x) /\ Short(x)')
    BY <1>1, <2>7, OthersWait
  <2>14. \A x \in Requests \ {r} : Holds(x)' => Key(call[x])' # Key(call[r])'
    <3>1. \A x \in Requests : Holds(x) => Key(call[x]) # Key(call[r])
      BY <1>1 DEF Locked, Holds
    <3> QED BY <2>7, <2>10, <2>13, <3>1 DEF Key
  <2>15. \A x, y \in Requests \ {r} : x # y /\ Holds(x)' /\ Holds(y)' => Key(call[x])' # Key(call[y])'
    BY <2>7, <2>13 DEF Wanting, Key
  <2> QED BY <1>1, <2>7, <2>12, <2>13, <2>14, <2>15 DEF Wanting
<1> QED BY <1>2, <1>3

(* What is filed is on the skill of the lock, and was not there before.     *)
LEMMA WhatIsFiled ==
    ASSUME Wanting, NEW r \in Requests, FileDrafts(r)
    PROVE  \E filed \in SUBSET Questions :
              /\ Cardinality(filed) <= call[r].want
              /\ \A q \in filed : q.skill = Skill(r) /\ bank[q] = "absent"
              /\ {q \in Questions : bank'[q] # bank[q]} = filed
              /\ \A q \in filed : bank'[q] = "draft"
<1>1. PICK filed \in SUBSET Blank(Key(call[r])) :
         /\ Cardinality(filed) <= call[r].want
         /\ bank' = [q \in Questions |-> IF q \in filed THEN "draft" ELSE bank[q]]
  BY DEF FileDrafts
<1>2. \A q \in filed : q \in Questions /\ q.skill = Skill(r) /\ bank[q] = "absent"
  BY <1>1 DEF Blank, Key, Skill
<1>3. \A q \in Questions : bank'[q] = IF q \in filed THEN "draft" ELSE bank[q]
  BY <1>1
<1>4. {q \in Questions : bank'[q] # bank[q]} = filed
  BY <1>2, <1>3
<1> QED BY <1>1, <1>2, <1>3, <1>4

(* Drafts of one skill are not asked for another.                           *)
LEMMA DraftsOfOneSkill ==
    ASSUME NEW c, UNCHANGED jd,
           \A q \in Questions : bank'[q] # bank[q] =>
                                   bank[q] = "absent" /\ bank'[q] = "draft" /\ q.skill # c
    PROVE  Everything(c)' = Everything(c)
<1>1. OnSkill(c, {"approved"}, FALSE)' = OnSkill(c, {"approved"}, FALSE)
  BY DEF OnSkill, Askable
<1>2. OnSkill(c, {"draft"}, FALSE)' = OnSkill(c, {"draft"}, FALSE)
  BY DEF OnSkill, Askable
<1>3. UNION {OnSkill(Broader[c][i], {"approved"}, FALSE) : i \in DOMAIN Broader[c]}'
       = UNION {OnSkill(Broader[c][i], {"approved"}, FALSE) : i \in DOMAIN Broader[c]}
  <2>1. \A i : OnSkill(Broader[c][i], {"approved"}, FALSE)' = OnSkill(Broader[c][i], {"approved"}, FALSE)
    BY DEF OnSkill, Askable
  <2> QED BY <2>1
<1>4. UNION {OnRole(RolesOf[c][i], FALSE) : i \in DOMAIN RolesOf[c]}'
       = UNION {OnRole(RolesOf[c][i], FALSE) : i \in DOMAIN RolesOf[c]}
  <2>1. \A i : OnRole(RolesOf[c][i], FALSE)' = OnRole(RolesOf[c][i], FALSE)
    BY DEF OnRole, Askable
  <2> QED BY <2>1
<1>5. {q \in UNION {OnRole(RolesOf[c][i], FALSE) : i \in DOMAIN RolesOf[c]} : q.skill \in JobConcepts}'
       = {q \in UNION {OnRole(RolesOf[c][i], FALSE) : i \in DOMAIN RolesOf[c]} : q.skill \in JobConcepts}
  BY <1>4 DEF JobConcepts
<1> QED BY <1>1, <1>2, <1>3, <1>5, Zenon DEF Everything

LEMMA FilesUnderLock ==
    ASSUME Wanting, WantsNumbers, OneLevelEach, NEW r \in Requests, FileDrafts(r)
    PROVE  /\ Wanting'
           /\ Cardinality(Reachable(Skill(r), Head(call[r].left).desired))
                + Cardinality({q \in Questions : bank'[q] # bank[q]}) <= Head(call[r].left).desired
<1> DEFINE desired == Head(call[r].left).desired
<1>1. Holds(r) /\ UNCHANGED jd /\ call' = [call EXCEPT ![r].left = Tail(@), ![r].want = 0]
  BY DEF FileDrafts, Holds
<1>2. PICK filed \in SUBSET Questions :
         /\ Cardinality(filed) <= call[r].want
         /\ \A q \in filed : q.skill = Skill(r) /\ bank[q] = "absent" /\ bank'[q] = "draft"
         /\ {q \in Questions : bank'[q] # bank[q]} = filed
  BY WhatIsFiled
<1>3. Short(r) /\ desired \in Nat /\ call[r].want \in Nat
  BY <1>1 DEF Wanting, WantsNumbers, Short
<1>4. Cardinality(Reachable(Skill(r), desired)) + Cardinality(filed) <= desired
  <2>1. IsFiniteSet(filed) /\ IsFiniteSet(Everything(Skill(r)))
    BY Countable, FS_Subset, QuestionsAssumption
  <2>2. Reachable(Skill(r), desired) \subseteq Everything(Skill(r))
    BY <1>3, ReachIsPart
  <2>3. /\ Cardinality(filed) \in Nat /\ Cardinality(Everything(Skill(r))) \in Nat
        /\ Cardinality(Reachable(Skill(r), desired)) \in Nat
        /\ Cardinality(Reachable(Skill(r), desired)) <= Cardinality(Everything(Skill(r)))
    BY <2>1, <2>2, FS_Subset, FS_CardinalityType
  <2>4. Cardinality(Everything(Skill(r))) + call[r].want <= desired
    BY <1>3 DEF Short
  <2> HIDE DEF desired
  <2> QED BY <1>2, <1>3, <2>3, <2>4
<1>5. /\ DOMAIN call' = Requests /\ \A x \in Requests \ {r} : call'[x] = call[x]
      /\ call'[r].want = 0
  BY <1>1 DEF Wanting
<1>6. \A x \in Requests \ {r} :
         call'[x].want \in Nat /\ (Holds(x)' => Holds(x) /\ Short(x)')
  <2> SUFFICES ASSUME NEW x \in Requests \ {r}
               PROVE  call'[x].want \in Nat /\ (Holds(x)' => Holds(x) /\ Short(x)')
    OBVIOUS
  <2>1. call'[x] = call[x] /\ Holds(x)' = Holds(x) /\ call'[x].want \in Nat
    BY <1>5 DEF Holds, Working, Wanting
  <2>2. ASSUME Holds(x) PROVE Short(x)'
    <3>1. Skill(x) # Skill(r)
      BY <1>1, <2>2 DEF OneLevelEach, Wanting, Key, Skill
    <3>2. Everything(Skill(x))' = Everything(Skill(x))
      <4>1. PICK c : c = Skill(x)
        OBVIOUS
      <4>2. Skill(x)' = c
        BY <2>1, <4>1 DEF Skill
      <4>3. \A q \in Questions : bank'[q] # bank[q] =>
                                   bank[q] = "absent" /\ bank'[q] = "draft" /\ q.skill # c
        BY <1>2, <3>1, <4>1
      <4>4. Everything(c)' = Everything(c)
        BY <1>1, <4>3, DraftsOfOneSkill
      <4> QED BY <4>1, <4>2, <4>4 DEF Everything, OnSkill, OnRole, Askable, JobConcepts
    <3>3. Short(x) /\ Skill(x)' = Skill(x)
      BY <2>1, <2>2 DEF Wanting, Skill
    <3> QED BY <2>1, <3>2, <3>3 DEF Short
  <2> QED BY <2>1, <2>2
<1>7. ~ Holds(r)' /\ DOMAIN bank' = Questions
  BY <1>5 DEF Holds, FileDrafts
<1>8. \A x, y \in Requests : x # y /\ Holds(x)' /\ Holds(y)' => Key(call[x])' # Key(call[y])'
  BY <1>5, <1>6, <1>7 DEF Wanting, Key
<1>9. Wanting'
  BY <1>5, <1>6, <1>7, <1>8 DEF Wanting
<1> QED BY <1>2, <1>4, <1>9

(* A review takes from what could be asked, or approves what could be asked *)
(* already.                                                                 *)
LEMMA ReviewTakes ==
    ASSUME NEW c, UNCHANGED jd,
           \A q \in Questions : bank'[q] # bank[q] =>
               \/ bank'[q] = "retired"
               \/ bank[q] = "draft" /\ bank'[q] = "approved" /\ ~ StandsFor(q, c)
    PROVE  Everything(c)' \subseteq Everything(c)
<1> SUFFICES ASSUME NEW q \in Everything(c)', q \notin Everything(c) PROVE FALSE
  OBVIOUS
<1>1. q \in Questions
  BY DEF Everything, OnSkill, OnRole
<1>2. CASE bank'[q] = bank[q]
  BY <1>2 DEF Everything, OnSkill, OnRole, Askable, JobConcepts
<1>3. CASE bank'[q] = "retired"
  BY <1>3 DEF Everything, OnSkill, OnRole, Askable
<1>4. CASE bank[q] = "draft" /\ bank'[q] = "approved" /\ ~ StandsFor(q, c)
  <2>1. q.skill # c
    BY <1>1, <1>4 DEF Everything, OnSkill, Askable
  <2>2. ~ (\E i \in DOMAIN Broader[c] : q.skill = Broader[c][i])
    BY <1>4, <2>1 DEF StandsFor
  <2>3. ~ (q.skill \in JobConcepts /\ \E i \in DOMAIN RolesOf[c] : q.role = RolesOf[c][i])
    BY <1>4, <2>1 DEF StandsFor
  <2> QED BY <2>1, <2>2, <2>3 DEF Everything, OnSkill, OnRole, JobConcepts
<1> QED BY <1>1, <1>2, <1>3, <1>4

LEMMA ReviewsWant ==
    ASSUME Wanting, WantsNumbers, ReviewsLeaveAlone, NEW z \in Reviewed, ReviewQuestion(z)
    PROVE  Wanting'
<1>1. UNCHANGED <<jd, call>>
  BY DEF ReviewQuestion
<1>2. /\ DOMAIN bank' = Questions
      /\ \A q \in Questions : bank'[q] # bank[q] =>
            bank'[q] = "retired" \/ (bank[q] = "draft" /\ bank'[q] = "approved")
  BY DEF ReviewQuestion, Wanting
<1>3. ASSUME NEW x \in Requests, Holds(x) PROVE Short(x)'
  <2>1. PICK c : c = Skill(x)
    OBVIOUS
  <2>2. Skill(x)' = c
    BY <1>1, <2>1 DEF Skill
  <2>3. \A q \in Questions : bank'[q] # bank[q] =>
            \/ bank'[q] = "retired"
            \/ bank[q] = "draft" /\ bank'[q] = "approved" /\ ~ StandsFor(q, c)
    BY <1>2, <1>3, <2>1 DEF ReviewsLeaveAlone
  <2>4. Everything(c)' \subseteq Everything(c)
    BY <1>1, <2>3, ReviewTakes
  <2>5. PICK before, after : before = Everything(c) /\ after = Everything(c)'
    OBVIOUS
  <2>6. IsFiniteSet(before) /\ after \subseteq before
    BY <2>4, <2>5, Countable
  <2>7. /\ Cardinality(before) \in Nat /\ Cardinality(after) \in Nat
        /\ Cardinality(after) <= Cardinality(before)
    BY <2>6, FS_Subset, FS_CardinalityType
  <2>8. Short(x) /\ call[x].want \in Nat /\ Head(call[x].left).desired \in Nat
    BY <1>3 DEF Wanting, WantsNumbers, Short
  <2>9. Cardinality(before) + call[x].want <= Head(call[x].left).desired
    BY <2>1, <2>5, <2>8 DEF Short
  <2>10. Cardinality(after) + call[x].want <= Head(call[x].left).desired
    BY <2>7, <2>8, <2>9
  <2>11. Everything(Skill(x))' = after
    BY <2>2, <2>5 DEF Everything, OnSkill, OnRole, Askable, JobConcepts
  <2> QED BY <1>1, <2>8, <2>10, <2>11 DEF Short
<1>4. \A x \in Requests : Holds(x)' = Holds(x) /\ Key(call[x])' = Key(call[x])
  BY <1>1 DEF Holds, Working, Key
<1> QED BY <1>1, <1>2, <1>3, <1>4 DEF Wanting

LEMMA NextWanting ==
    ASSUME Wanting, WantsNumbers, OneLevelEach, [Next]_vars, [ReviewsLeaveAlone]_vars
    PROVE  /\ Wanting'
           /\ \A r \in Requests : Files(r) =>
                 Cardinality(Reachable(Skill(r), Head(call[r].left).desired))
                   + Cardinality({q \in Questions : bank'[q] # bank[q]}) <= Head(call[r].left).desired
<1>1. CASE UNCHANGED vars
  <2>1. UNCHANGED <<jd, bank, call>>
    BY <1>1 DEF vars
  <2>2. \A x \in Requests : call'[x].want \in Nat /\ (Holds(x)' => Holds(x) /\ Short(x)')
    BY <2>1, OthersWait
  <2>3. Wanting'
    BY <2>1, <2>2 DEF Wanting, Key
  <2> QED BY <2>1, <2>3 DEF Files
<1>2. ASSUME NEW s \in Sessions, CreateSession(s) \/ AskTurn(s) PROVE UNCHANGED <<jd, bank, call>>
  BY <1>2 DEF CreateSession, AskTurn
<1>3. CASE \E s \in Sessions : CreateSession(s) \/ AskTurn(s)
  <2>1. UNCHANGED <<jd, bank, call>>
    BY <1>2, <1>3
  <2>2. \A x \in Requests : call'[x].want \in Nat /\ (Holds(x)' => Holds(x) /\ Short(x)')
    BY <2>1, OthersWait
  <2>3. Wanting'
    BY <2>1, <2>2 DEF Wanting, Key
  <2> QED BY <2>1, <2>3 DEF Files
<1>4. ASSUME NEW r \in Requests,
             \/ \E s \in Sessions : StartPlan(r, s) \/ StartFreeze(r, s)
             \/ PersistPlan(r) \/ StartCoverage(r) \/ EndCoverage(r) \/ SelectAndFreeze(r) \/ Die(r)
      PROVE  Wanting' /\ UNCHANGED bank
  <2>1. Wanting'
    BY <1>4, BeginsOrEnds
  <2>2. UNCHANGED bank
    <3>1. CASE \E s \in Sessions : StartPlan(r, s)
      BY <3>1, Zenon DEF StartPlan
    <3>2. CASE \E s \in Sessions : StartFreeze(r, s)
      BY <3>2, Zenon DEF StartFreeze
    <3>3. CASE SelectAndFreeze(r)
      BY <3>3 DEF SelectAndFreeze
    <3>4. CASE PersistPlan(r) \/ StartCoverage(r) \/ EndCoverage(r) \/ Die(r)
      BY <3>4, Zenon DEF PersistPlan, StartCoverage, EndCoverage, Die
    <3> QED BY <1>4, <3>1, <3>2, <3>3, <3>4
  <2> QED BY <2>1, <2>2
<1>5. ASSUME NEW r \in Requests, CountUnderLock(r) PROVE Wanting' /\ UNCHANGED bank
  BY <1>5, CountsUnderLock DEF CountUnderLock
<1>6. ASSUME NEW r \in Requests, FileDrafts(r)
      PROVE  /\ Wanting'
             /\ \A x \in Requests : Files(x) =>
                   Cardinality(Reachable(Skill(x), Head(call[x].left).desired))
                     + Cardinality({q \in Questions : bank'[q] # bank[q]}) <= Head(call[x].left).desired
  <2>1. \A x \in Requests : Files(x) => x = r
    BY <1>6 DEF Files, FileDrafts, Wanting
  <2> QED BY <1>6, <2>1, FilesUnderLock
<1>7. ASSUME NEW z \in Reviewed, ReviewQuestion(z)
      PROVE  Wanting' /\ UNCHANGED call
  <2>1. UNCHANGED call
    BY <1>7 DEF ReviewQuestion
  <2>2. CASE ReviewsLeaveAlone
    BY <1>7, <2>1, <2>2, ReviewsWant
  <2>3. CASE UNCHANGED vars
    <3>1. UNCHANGED <<jd, bank>>
      BY <2>3 DEF vars
    <3>2. \A x \in Requests : call'[x].want \in Nat /\ (Holds(x)' => Holds(x) /\ Short(x)')
      BY <2>1, <3>1, OthersWait
    <3> QED BY <2>1, <3>1, <3>2 DEF Wanting, Key
  <2> QED BY <2>1, <2>2, <2>3
<1>8. CASE \E r \in Requests :
              \/ \E s \in Sessions : StartPlan(r, s) \/ StartFreeze(r, s)
              \/ PersistPlan(r) \/ StartCoverage(r) \/ EndCoverage(r) \/ SelectAndFreeze(r) \/ Die(r)
              \/ CountUnderLock(r)
  <2>1. Wanting' /\ UNCHANGED bank
    BY <1>4, <1>5, <1>8
  <2> QED BY <2>1 DEF Files
<1>9. CASE \E z \in Reviewed : ReviewQuestion(z)
  BY <1>7, <1>9 DEF Files
<1>10. CASE \E r \in Requests : FileDrafts(r)
  BY <1>6, <1>10
<1> QED BY <1>1, <1>3, <1>8, <1>9, <1>10 DEF Next

(* The advisory locks do what they are for: however many requests find the  *)
(* same skill lacking at once, what they file and what could be asked       *)
(* already do not exceed what is wanted, as long as no two of them work on  *)
(* one skill at two levels and nobody approves a draft that could stand for *)
(* a skill that was counted.                                                *)
THEOREM DraftsAreNotSpare ==
    Spec /\ []OneLevelEach /\ [][ReviewsLeaveAlone]_vars => NoSpareDraft
<1>1. Init => Packaged /\ Building /\ FromPlanner /\ Kept
  BY InitPackaged, InitBuilding, InitFromPlanner, InitKept
<1>2. Packaged /\ Building /\ FromPlanner /\ Kept /\ [Next]_vars
        => (Packaged /\ Building /\ FromPlanner /\ Kept)'
  BY NextStands, NextFromPlanner, NextKept
<1>3. Kept /\ Wanting /\ OneLevelEach /\ [Next]_vars /\ [ReviewsLeaveAlone]_vars
        => /\ Wanting'
           /\ [\A r \in Requests : Files(r) =>
                  LET next == Head(call[r].left)
                  IN Cardinality(Reachable(next.concept, next.desired))
                        + Cardinality({q \in Questions : bank'[q] # bank[q]}) <= next.desired]_vars
  <2> SUFFICES ASSUME Wanting, WantsNumbers, OneLevelEach, [Next]_vars, [ReviewsLeaveAlone]_vars
               PROVE  /\ Wanting'
                      /\ [\A r \in Requests : Files(r) =>
                             LET next == Head(call[r].left)
                             IN Cardinality(Reachable(next.concept, next.desired))
                                   + Cardinality({q \in Questions : bank'[q] # bank[q]})
                                      <= next.desired]_vars
    BY KeptWantsNumbers
  <2> QED BY NextWanting DEF Skill
<1> QED BY <1>1, <1>2, <1>3, InitWanting, PTL DEF Spec, NoSpareDraft

-----------------------------------------------------------------------------
(* The order in which questions are ranked.                                 *)

(* Keys are compared where they first differ.                               *)
LEMMA FirstBeforeIsStrict ==
    ASSUME NEW n \in Nat, NEW a \in Numbers(n), NEW b \in Numbers(n), NEW c \in Numbers(n)
    PROVE  /\ ~ FirstBefore(a, a)
           /\ FirstBefore(a, b) /\ FirstBefore(b, c) => FirstBefore(a, c)
<1>1. /\ DOMAIN a = 1..n /\ DOMAIN b = 1..n
      /\ \A i \in 1..n : a[i] \in Int /\ b[i] \in Int /\ c[i] \in Int
  BY DEF Numbers
<1>2. ~ FirstBefore(a, a)
  BY <1>1 DEF FirstBefore
<1>3. ASSUME FirstBefore(a, b), FirstBefore(b, c) PROVE FirstBefore(a, c)
  <2>1. PICK i \in 1..n : a[i] < b[i] /\ \A j \in 1..(i - 1) : a[j] = b[j]
    BY <1>1, <1>3 DEF FirstBefore
  <2>2. PICK k \in 1..n : b[k] < c[k] /\ \A j \in 1..(k - 1) : b[j] = c[j]
    BY <1>1, <1>3 DEF FirstBefore
  <2>3. CASE i <= k
    <3>1. \A j \in 1..(i - 1) : j \in 1..(k - 1) /\ j \in 1..n
      BY <2>3
    <3>2. \A j \in 1..(i - 1) : a[j] = c[j]
      BY <2>1, <2>2, <3>1
    <3>3. i = k \/ i \in 1..(k - 1)
      BY <2>3
    <3>4. a[i] < c[i]
      BY <1>1, <2>1, <2>2, <3>3
    <3> QED BY <1>1, <3>2, <3>4 DEF FirstBefore
  <2>4. CASE k < i
    <3>1. a[k] < c[k] /\ \A j \in 1..(k - 1) : a[j] = c[j]
      BY <1>1, <2>1, <2>2, <2>4
    <3> QED BY <1>1, <3>1 DEF FirstBefore
  <2> QED BY <2>3, <2>4
<1> QED BY <1>2, <1>3

(* x may come before any other element of T.                                *)
IsBest(T, key, x) == x \in T /\ \A y \in T \ {x} : ~ FirstBefore(key[y], key[x])

Keyed(S, key) == {p \in S \X S : FirstBefore(key[p[1]], key[p[2]])}

LEMMA KeyedIsStrict ==
    ASSUME NEW S, NEW n \in Nat, NEW key \in [S -> Numbers(n)]
    PROVE  /\ IsStrict(S, Keyed(S, key))
           /\ \A x, y \in S : <<x, y>> \in Keyed(S, key) <=> FirstBefore(key[x], key[y])
<1>1. \A x, y \in S : <<x, y>> \in Keyed(S, key) <=> FirstBefore(key[x], key[y])
  BY DEF Keyed
<1>2. \A x \in S : key[x] \in Numbers(n)
  OBVIOUS
<1>3. ASSUME NEW x \in S, NEW y \in S, NEW z \in S,
             <<x, y>> \in Keyed(S, key), <<y, z>> \in Keyed(S, key)
      PROVE  <<x, z>> \in Keyed(S, key)
  BY <1>1, <1>2, <1>3, FirstBeforeIsStrict
<1>4. \A x \in S : <<x, x>> \notin Keyed(S, key)
  BY <1>1, <1>2, FirstBeforeIsStrict
<1> QED BY <1>1, <1>3, <1>4 DEF IsStrict

(* No element comes before one that is listed ahead of it.                  *)
InKeyOrder(list, key) ==
    \A i, j \in DOMAIN list : i < j => ~ FirstBefore(key[list[j]], key[list[i]])

LEMMA KeyedLists ==
    ASSUME NEW S, IsFiniteSet(S), NEW n \in Nat, NEW key \in [S -> Numbers(n)], NEW first,
           \A T \in SUBSET S : (\E x \in T : IsBest(T, key, x)) => IsBest(T, key, first[T])
    PROVE  Listing(Listed(S, first), S) /\ InKeyOrder(Listed(S, first), key)
<1>1. PICK before : before = Keyed(S, key)
  OBVIOUS
<1>2. /\ IsStrict(S, before)
      /\ \A x, y \in S : <<x, y>> \in before <=> FirstBefore(key[x], key[y])
  BY <1>1, KeyedIsStrict
<1>3. \A T \in SUBSET S : \A x \in T : IsBest(T, key, x) <=> IsFirst(T, before, x)
  BY <1>2 DEF IsBest, IsFirst
<1>4. ASSUME NEW T \in SUBSET S, \E x \in T : IsFirst(T, before, x)
      PROVE  IsFirst(T, before, first[T])
  <2>1. IsBest(T, key, first[T])
    BY <1>3, <1>4
  <2>2. first[T] \in T
    BY <2>1 DEF IsBest
  <2> QED BY <1>3, <2>1, <2>2
<1>5. /\ Listing(Listed(S, first), S)
      /\ \A a, b \in 1..Cardinality(S) :
            a < b => <<Listed(S, first)[b], Listed(S, first)[a]>> \notin before
  BY <1>2, <1>4, InOrderLists
<1>6. PICK o : o = Listed(S, first)
  OBVIOUS
<1>7. DOMAIN o = 1..Cardinality(S) /\ \A a \in 1..Cardinality(S) : o[a] \in S
  BY <1>5, <1>6, ListingFacts
<1>8. InKeyOrder(o, key)
  BY <1>2, <1>5, <1>6, <1>7 DEF InKeyOrder
<1> QED BY <1>5, <1>6, <1>8

LEMMA LastSeenTyped ==
    ASSUME Kept, NEW s, NEW q
    PROVE  LastSeen(s, q) \in Nat
<1> DEFINE when == {i \in DOMAIN asked : asked[i].s # s /\ asked[i].question = q}
           last == CHOOSE i \in when : \A j \in when : j <= i
<1>1. LastSeen(s, q) = IF when = {} \/ IsDemo(session[s].minutes) THEN 0 ELSE last
  BY DEF LastSeen
<1>2. PICK n \in Nat : when \subseteq 1..n
  <2>1. PICK S : asked \in Seq(S)
    BY DEF Kept
  <2> QED BY <2>1
<1> HIDE DEF when
<1>3. ASSUME when # {} PROVE \E i \in when : \A j \in when : j <= i
  <2> DEFINE after == {p \in when \X when : p[1] > p[2]}
  <2>1. \A x, y \in when : <<x, y>> \in after <=> x > y
    OBVIOUS
  <2> HIDE DEF after
  <2>2. \A x \in when : x \in Int
    BY <1>2
  <2>3. /\ \A x, y, z \in when : <<x, y>> \in after /\ <<y, z>> \in after => <<x, z>> \in after
        /\ \A x \in when : <<x, x>> \notin after
    BY <2>1, <2>2
  <2>4. IsFiniteSet(when)
    <3>1. 1 \in Int /\ n \in Int
      OBVIOUS
    <3>2. IsFiniteSet(1..n)
      BY <3>1, FS_Interval, Zenon
    <3> QED BY <1>2, <3>2, FS_Subset
  <2>5. PICK x \in when : \A y \in when \ {x} : <<y, x>> \notin after
    BY <1>3, <2>3, <2>4, LeastOf
  <2>6. ASSUME NEW y \in when PROVE y <= x
    <3>1. y = x \/ ~ (y > x)
      BY <2>1, <2>5
    <3> QED BY <2>2, <3>1
  <2> QED BY <2>6
<1>4. when # {} => last \in when
  BY <1>3
<1> HIDE DEF last
<1>5. \A i \in when : i \in Nat
  BY <1>2
<1>6. when # {} => last \in Nat
  BY <1>4, <1>5, Zenon
<1> QED BY <1>1, <1>6

RankNumbers == Numbers(6)

LEMMA RankTyped ==
    ASSUME NEW s \in Sessions, NEW c, c.q \in Questions, c.role \in BOOLEAN,
           NEW level \in Int, NEW seen \in Int
    PROVE  CandidateRank(s, c, level, seen) \in RankNumbers
<1>1. /\ c.q.n \in Nat /\ c.q.level \in Int /\ c.q.purpose \in Int /\ c.q.relevance \in Nat
      /\ Salt[s][c.q.n] \in Nat
  BY QuestionsAssumption, SaltAssumption
<1>2. Distance(c.q, level) \in Int
  BY <1>1 DEF Distance
<1>3. Purpose(c) \in Int
  BY <1>1 DEF Purpose
<1>4. Tie(s, c.q) \in Int
  BY <1>1 DEF Tie
<1>5. -c.q.relevance \in Int
  BY <1>1
<1>6. \A a \in Int, b \in Int, d \in Int, e \in Int, f \in Int, g \in Int :
         <<a, b, d, e, f, g>> \in [1..6 -> Int]
  OBVIOUS
<1>7. (IF c.q.far /\ ~ c.q.localized THEN 1 ELSE 0) \in Int
  OBVIOUS
<1> QED BY <1>2, <1>3, <1>4, <1>5, <1>6, <1>7 DEF CandidateRank, RankNumbers, Numbers

-----------------------------------------------------------------------------
(* Candidates, each for a question of its own.                              *)

OneEach(C) ==
    /\ \A c \in C : c.q \in Questions /\ c.role \in BOOLEAN
    /\ \A c, d \in C : c.q = d.q => c = d

(* One rung of the ladder of candidates, or several.                        *)
Rung(l) == Listing(l, ToSet(l)) /\ OneEach(ToSet(l))

CandidatesFrom(S, role) == {[q |-> q, role |-> role] : q \in S}

Ranks(s, C, level) == [c \in C |-> CandidateRank(s, c, level, LastSeen(s, c.q))]

LEMMA AskedByRung ==
    ASSUME NEW l, Rung(l)
    PROVE  QuestionsOf(l) = Asks(ToSet(l))
BY DEF QuestionsOf, Asks, ToSet

LEMMA FromIsOneEach ==
    ASSUME NEW S \in SUBSET Questions, NEW role \in BOOLEAN
    PROVE  /\ OneEach(CandidatesFrom(S, role)) /\ IsFiniteSet(CandidatesFrom(S, role))
           /\ Asks(CandidatesFrom(S, role)) = S
<1> DEFINE C == CandidatesFrom(S, role)
<1>0. \A c \in C : \E q \in S : c = [q |-> q, role |-> role] /\ c.q = q /\ c.role = role
  BY DEF CandidatesFrom
<1>1. OneEach(C) /\ Asks(C) = S
  <2>1. OneEach(C)
    <3> HIDE DEF C
    <3> QED BY <1>0 DEF OneEach
  <2>2. ASSUME NEW q \in S PROVE \E c \in C : c.q = q
    <3>1. PICK c : c = [q |-> q, role |-> role]
      OBVIOUS
    <3>2. c \in C /\ c.q = q
      BY <3>1 DEF CandidatesFrom
    <3> QED BY <3>2
  <2> HIDE DEF C
  <2>3. Asks(C) = S
    BY <1>0, <2>2 DEF Asks
  <2> QED BY <2>1, <2>3
<1>2. PICK f : f = [q \in S |-> [q |-> q, role |-> role]]
  OBVIOUS
<1>3. CandidatesFrom(S, role) = {f[q] : q \in S}
  BY <1>2 DEF CandidatesFrom
<1>4. IsFiniteSet(S)
  BY QuestionsAssumption, FS_Subset
<1>5. IsFiniteSet({f[q] : q \in S})
  BY <1>4, ImageIsFinite
<1> QED BY <1>1, <1>3, <1>5

LEMMA RanksTyped ==
    ASSUME Kept, NEW s \in Sessions, NEW level \in Int, NEW C, OneEach(C)
    PROVE  Ranks(s, C, level) \in [C -> RankNumbers]
<1>1. ASSUME NEW c \in C PROVE CandidateRank(s, c, level, LastSeen(s, c.q)) \in RankNumbers
  <2>1. PICK seen \in Int : seen = LastSeen(s, c.q)
    BY LastSeenTyped
  <2> QED BY <2>1, RankTyped DEF OneEach
<1> QED BY <1>1 DEF Ranks

LEMMA InOrderRanks ==
    ASSUME Kept, NEW s \in Sessions, NEW level \in Int, NEW S \in SUBSET Questions,
           NEW role \in BOOLEAN, NEW C, C = CandidatesFrom(S, role)
    PROVE  /\ Listing(InOrder(s, S, role, level), C)
           /\ InKeyOrder(InOrder(s, S, role, level), Ranks(s, C, level))
<1> DEFINE key == Ranks(s, C, level)
           first == [T \in SUBSET C |->
                        CHOOSE x \in T : \A y \in T \ {x} :
                           ~ FirstBefore(CandidateRank(s, y, level, LastSeen(s, y.q)),
                                         CandidateRank(s, x, level, LastSeen(s, x.q)))]
<1>1. InOrder(s, S, role, level) = Listed(C, first)
  BY DEF InOrder, InOrderOf, CandidatesFrom
<1>2. OneEach(C) /\ IsFiniteSet(C)
  BY FromIsOneEach
<1>3. key \in [C -> Numbers(6)]
  BY <1>2, RanksTyped DEF RankNumbers
<1>4. \A c \in C : key[c] = CandidateRank(s, c, level, LastSeen(s, c.q))
  BY DEF Ranks
<1> HIDE DEF key
<1>5. ASSUME NEW T \in SUBSET C, \E x \in T : IsBest(T, key, x)
      PROVE  IsBest(T, key, first[T])
  <2>1. \A x \in T : IsBest(T, key, x) <=>
           \A y \in T \ {x} : ~ FirstBefore(CandidateRank(s, y, level, LastSeen(s, y.q)),
                                            CandidateRank(s, x, level, LastSeen(s, x.q)))
    BY <1>4 DEF IsBest
  <2>2. first[T] = CHOOSE x \in T : \A y \in T \ {x} :
                           ~ FirstBefore(CandidateRank(s, y, level, LastSeen(s, y.q)),
                                         CandidateRank(s, x, level, LastSeen(s, x.q)))
    OBVIOUS
  <2> HIDE DEF first
  <2>3. first[T] \in T /\ \A y \in T \ {first[T]} :
           ~ FirstBefore(CandidateRank(s, y, level, LastSeen(s, y.q)),
                         CandidateRank(s, first[T], level, LastSeen(s, first[T].q)))
    BY <1>5, <2>1, <2>2, Zenon
  <2> QED BY <2>1, <2>3
<1> HIDE DEF first
<1>6. Listing(Listed(C, first), C) /\ InKeyOrder(Listed(C, first), key)
  BY <1>2, <1>3, <1>5, KeyedLists
<1> QED BY <1>1, <1>6 DEF key

LEMMA InOrderIsRung ==
    ASSUME Kept, NEW s \in Sessions, NEW level \in Int, NEW S \in SUBSET Questions,
           NEW role \in BOOLEAN
    PROVE  /\ Rung(InOrder(s, S, role, level)) /\ QuestionsOf(InOrder(s, S, role, level)) = S
           /\ ToSet(InOrder(s, S, role, level)) = CandidatesFrom(S, role)
<1>1. PICK C : C = CandidatesFrom(S, role)
  OBVIOUS
<1>2. PICK o : o = InOrder(s, S, role, level)
  OBVIOUS
<1>3. Listing(o, C)
  BY <1>1, <1>2, InOrderRanks
<1>4. ToSet(o) = C
  BY <1>3, ListingFacts
<1>5. Rung(o)
  BY <1>1, <1>3, <1>4, FromIsOneEach DEF Rung
<1>6. QuestionsOf(o) = S
  BY <1>1, <1>4, <1>5, AskedByRung, FromIsOneEach
<1> QED BY <1>1, <1>2, <1>4, <1>5, <1>6

(* Leaving out what is asked already.                                       *)
LEMMA WithoutIsRung ==
    ASSUME NEW l, Rung(l), NEW U
    PROVE  /\ Rung(Without(l, U)) /\ QuestionsOf(Without(l, U)) = QuestionsOf(l) \ U
           /\ ToSet(Without(l, U)) = {c \in ToSet(l) : c.q \notin U}
<1> DEFINE T == {c \in ToSet(l) : c.q \notin U}
<1>1. Without(l, U) = Only(l, T)
  BY DEF Without
<1>2. Listing(l, ToSet(l)) /\ OneEach(ToSet(l))
  BY DEF Rung
<1>3. Listing(Only(l, T), ToSet(l) \cap T)
  <2> HIDE DEF T
  <2> QED BY <1>2, OnlyLists
<1>4. ToSet(l) \cap T = T
  OBVIOUS
<1>5. PICK o : o = Only(l, T)
  OBVIOUS
<1>6. Listing(o, T) /\ ToSet(o) = T
  BY <1>3, <1>4, <1>5, ListingFacts
<1>7. OneEach(T)
  BY <1>2 DEF OneEach
<1>8. Rung(o)
  BY <1>6, <1>7 DEF Rung
<1>9. QuestionsOf(o) = QuestionsOf(l) \ U
  BY <1>6, <1>8, AskedByRung DEF Asks
<1> QED BY <1>1, <1>5, <1>6, <1>8, <1>9

(* What Only keeps stays in order.                                          *)
LEMMA OnlyKeepsOrder ==
    ASSUME NEW l, Listing(l, ToSet(l)), NEW key, InKeyOrder(l, key), NEW T
    PROVE  InKeyOrder(Only(l, T), key)
<1>1. PICK n \in Nat : n = Cardinality(ToSet(l)) /\ DOMAIN l = 1..n /\ Len(l) = n
  BY ListingFacts
<1>2. PICK o : o = Only(l, T)
  OBVIOUS
<1>3. Subsequence(l, T, n, o)
  BY <1>1, <1>2, OnlySelects
<1>4. PICK k \in 0..n : \E pos \in [1..k -> 1..n] :
         Positions(l, T, n, k, pos) /\ o = [a \in 1..k |-> l[pos[a]]]
  BY <1>3 DEF Subsequence
<1>5. PICK pos \in [1..k -> 1..n] :
         Positions(l, T, n, k, pos) /\ o = [a \in 1..k |-> l[pos[a]]]
  BY <1>4
<1>6. DOMAIN o = 1..k /\ \A a \in 1..k : o[a] = l[pos[a]]
  BY <1>5
<1>7. \A a, b \in 1..k : a < b => pos[a] < pos[b]
  BY <1>5 DEF Positions
<1>8. InKeyOrder(o, key)
  BY <1>1, <1>6, <1>7 DEF InKeyOrder
<1> QED BY <1>2, <1>8

(* The first of a list in order leave out none that comes before them.      *)
LEMMA FirstComeFirst ==
    ASSUME NEW l, Listing(l, ToSet(l)), NEW key, InKeyOrder(l, key), NEW k \in Nat,
           NEW x \in ToSet(l), x \notin ToSet(FirstOf(l, k)), NEW y \in ToSet(FirstOf(l, k))
    PROVE  ~ FirstBefore(key[x], key[y])
<1>1. PICK n \in Nat : n = Cardinality(ToSet(l)) /\ DOMAIN l = 1..n /\ Len(l) = n
  BY ListingFacts
<1>2. PICK m \in Nat : m = Smaller(k, n) /\ m <= n
  BY DEF Smaller
<1>3. PICK f : f = FirstOf(l, k)
  OBVIOUS
<1>4. DOMAIN f = 1..m /\ \A i \in 1..m : f[i] = l[i]
  BY <1>1, <1>2, <1>3 DEF FirstOf
<1>5. ToSet(f) = {f[i] : i \in 1..m} /\ ToSet(l) = {l[i] : i \in 1..n}
  BY <1>1, <1>4 DEF ToSet
<1>6. PICK i \in 1..m : y = l[i]
  BY <1>3, <1>4, <1>5
<1>7. PICK j \in 1..n : x = l[j]
  BY <1>5
<1>8. j \notin 1..m
  BY <1>3, <1>4, <1>5, <1>7
<1>9. i < j /\ i \in 1..n
  BY <1>2, <1>8
<1> QED BY <1>1, <1>6, <1>7, <1>9 DEF InKeyOrder

-----------------------------------------------------------------------------
(* The ladder of a target.                                                  *)

LEMMA RungFacts ==
    ASSUME NEW l, Rung(l)
    PROVE  \E n \in Nat : /\ n = Len(l) /\ n = Cardinality(ToSet(l)) /\ DOMAIN l = 1..n
                          /\ l = [i \in 1..n |-> l[i]] /\ l \in Seq(ToSet(l))
<1>1. Listing(l, ToSet(l))
  BY DEF Rung
<1>2. l \in [1..Cardinality(ToSet(l)) -> ToSet(l)]
  BY <1>1 DEF Listing
<1> QED BY <1>1, <1>2, ListingFacts

LEMMA JoinRungs ==
    ASSUME NEW a, NEW b, Rung(a), Rung(b), QuestionsOf(a) \cap QuestionsOf(b) = {}
    PROVE  /\ Rung(a \o b) /\ Len(a \o b) = Len(a) + Len(b)
           /\ ToSet(a \o b) = ToSet(a) \cup ToSet(b)
           /\ QuestionsOf(a \o b) = QuestionsOf(a) \cup QuestionsOf(b)
<1>1. PICK A, B : A = ToSet(a) /\ B = ToSet(b)
  OBVIOUS
<1>2. Listing(a, A) /\ Listing(b, B) /\ OneEach(A) /\ OneEach(B)
  BY <1>1 DEF Rung
<1>3. QuestionsOf(a) = Asks(A) /\ QuestionsOf(b) = Asks(B)
  BY <1>1, AskedByRung
<1>4. \A c \in A, d \in B : c.q # d.q
  BY <1>3 DEF Asks
<1>5. A \cap B = {}
  BY <1>4
<1>6. PICK c : c = a \o b
  OBVIOUS
<1>7. Listing(c, A \cup B)
  BY <1>2, <1>5, <1>6, JoinLists
<1>8. ToSet(c) = A \cup B
  BY <1>7, ListingFacts
<1>9. OneEach(A \cup B)
  BY <1>2, <1>4 DEF OneEach
<1>10. Rung(c)
  BY <1>7, <1>8, <1>9 DEF Rung
<1>11. QuestionsOf(c) = QuestionsOf(a) \cup QuestionsOf(b)
  <2>1. QuestionsOf(c) = Asks(A \cup B)
    BY <1>8, <1>10, AskedByRung
  <2> QED BY <1>3, <2>1 DEF Asks
<1>12. Len(c) = Len(a) + Len(b)
  BY <1>1, <1>2, <1>6, ListingFacts
<1> QED BY <1>1, <1>6, <1>8, <1>10, <1>11, <1>12

IsJoin(lists, join) ==
    join = [i \in 0..Len(lists) |->
               IF i = 0 THEN <<>>
               ELSE join[i - 1] \o Without(lists[i], QuestionsOf(join[i - 1]))]

(* The first i lists, one after another.                                    *)
Joined(lists, i, l) ==
    /\ Rung(l) /\ QuestionsOf(l) = UNION {QuestionsOf(lists[k]) : k \in 1..i}
    /\ \A c \in ToSet(l) : \E k \in 1..i : c \in ToSet(lists[k])

Rungs(n, lists) == DOMAIN lists = 1..n /\ Len(lists) = n /\ \A k \in 1..n : Rung(lists[k])

LEMMA NoRung ==
    ASSUME NEW lists
    PROVE  Joined(lists, 0, <<>>) /\ QuestionsOf(<<>>) = {}
<1>1. PICK e : e = <<>>
  OBVIOUS
<1>2. DOMAIN e = 1..0 /\ e = [i \in 1..0 |-> e[i]] /\ ToSet(e) = {}
  BY <1>1 DEF ToSet
<1>3. Listing(e, ToSet(e))
  <2>1. PICK n \in Nat : n = 0
    OBVIOUS
  <2>2. /\ DOMAIN e = 1..n /\ e = [i \in 1..n |-> e[i]]
        /\ \A i, j \in 1..n : e[i] = e[j] => i = j
    BY <1>2, <2>1
  <2> QED BY <2>2, ListingOf
<1>4. OneEach(ToSet(e)) /\ QuestionsOf(e) = {}
  BY <1>2 DEF OneEach, QuestionsOf
<1>5. UNION {QuestionsOf(lists[k]) : k \in 1..0} = {}
  OBVIOUS
<1> QED BY <1>1, <1>2, <1>3, <1>4, <1>5 DEF Joined, Rung

LEMMA JoinsNext ==
    ASSUME NEW n \in Nat, NEW lists, Rungs(n, lists), NEW i \in 1..n, NEW l, Joined(lists, i - 1, l)
    PROVE  Joined(lists, i, l \o Without(lists[i], QuestionsOf(l)))
<1>1. PICK w : w = Without(lists[i], QuestionsOf(l))
  OBVIOUS
<1>2. PICK o : o = l \o w
  OBVIOUS
<1>3. Rung(lists[i])
  BY DEF Rungs
<1>4. /\ Rung(w) /\ QuestionsOf(w) = QuestionsOf(lists[i]) \ QuestionsOf(l)
      /\ ToSet(w) \subseteq ToSet(lists[i])
  <2>1. PICK m : m = lists[i]
    OBVIOUS
  <2>2. Rung(m)
    BY <1>3, <2>1
  <2>3. /\ Rung(Without(m, QuestionsOf(l)))
        /\ QuestionsOf(Without(m, QuestionsOf(l))) = QuestionsOf(m) \ QuestionsOf(l)
        /\ ToSet(Without(m, QuestionsOf(l))) = {c \in ToSet(m) : c.q \notin QuestionsOf(l)}
    BY <2>2, WithoutIsRung
  <2> QED BY <1>1, <2>1, <2>3
<1>5. Rung(l) /\ QuestionsOf(l) = UNION {QuestionsOf(lists[k]) : k \in 1..(i - 1)}
  BY DEF Joined
<1>6. /\ Rung(o) /\ ToSet(o) = ToSet(l) \cup ToSet(w)
      /\ QuestionsOf(o) = QuestionsOf(l) \cup QuestionsOf(w)
  <2>1. QuestionsOf(l) \cap QuestionsOf(w) = {}
    BY <1>4
  <2> QED BY <1>2, <1>4, <1>5, <2>1, JoinRungs
<1>7. 1..i = 1..(i - 1) \cup {i}
  OBVIOUS
<1>8. QuestionsOf(o) = UNION {QuestionsOf(lists[k]) : k \in 1..i}
  <2>1. QuestionsOf(o) = QuestionsOf(l) \cup QuestionsOf(lists[i])
    BY <1>4, <1>6
  <2> QED BY <1>5, <1>7, <2>1
<1>9. ASSUME NEW c \in ToSet(o) PROVE \E k \in 1..i : c \in ToSet(lists[k])
  <2>1. CASE c \in ToSet(w)
    BY <1>4, <1>7, <2>1
  <2>2. CASE c \in ToSet(l)
    BY <1>7, <2>2 DEF Joined
  <2> QED BY <1>6, <2>1, <2>2
<1> QED BY <1>1, <1>2, <1>6, <1>8, <1>9 DEF Joined

(* The ladder is what its lists but the last make, and then the last.       *)
LEMMA LadderJoins ==
    ASSUME NEW n \in Nat, n > 0, NEW lists, Rungs(n, lists)
    PROVE  /\ Joined(lists, n, Ladder(lists))
           /\ \E l : /\ Joined(lists, n - 1, l)
                     /\ Ladder(lists) = l \o Without(lists[n], QuestionsOf(l))
<1> DEFINE K == UNION {ToSet(lists[k]) : k \in 1..n}
           X == Seq(K)
           step == [p \in (1..n) \X X |-> p[2] \o Without(lists[p[1]], QuestionsOf(p[2]))]
<1>1. ASSUME NEW i \in 1..n, NEW x \in X PROVE x \o Without(lists[i], QuestionsOf(x)) \in X
  <2>1. PICK m, U : m = lists[i] /\ U = QuestionsOf(x)
    OBVIOUS
  <2>2. PICK w : w = Without(m, U)
    OBVIOUS
  <2>3. Rung(m)
    BY <2>1 DEF Rungs
  <2>4. Rung(w) /\ ToSet(w) \subseteq ToSet(m)
    BY <2>2, <2>3, WithoutIsRung
  <2>5. w \in Seq(ToSet(w)) /\ ToSet(w) \subseteq K
    BY <2>1, <2>4, RungFacts
  <2>6. w \in Seq(K)
    <3> HIDE DEF K
    <3>1. PICK k \in Nat : w \in [1..k -> ToSet(w)] /\ w = [j \in 1..k |-> w[j]]
      BY <2>5
    <3>2. w \in [1..k -> K]
      BY <2>5, <3>1
    <3> QED BY <3>2
  <2>7. x \o w \in Seq(K)
    <3> HIDE DEF K
    <3> QED BY <2>6, ConcatProperties
  <2> QED BY <2>1, <2>2, <2>7
<1>2. /\ \A p \in (1..n) \X X : step[p] = p[2] \o Without(lists[p[1]], QuestionsOf(p[2]))
      /\ step = [p \in (1..n) \X X |-> step[p]]
  OBVIOUS
<1>3. <<>> \in X
  OBVIOUS
<1> HIDE DEF step, X
<1>4. step \in [(1..n) \X X -> X]
  <2>1. ASSUME NEW p \in (1..n) \X X PROVE step[p] \in X
    <3>1. p[1] \in 1..n /\ p[2] \in X
      OBVIOUS
    <3> QED BY <1>1, <1>2, <3>1
  <2> QED BY <1>2, <2>1
<1>5. PICK it \in [0..n -> X] : Loop(n, <<>>, step, it)
  BY <1>3, <1>4, LoopTyped
<1>6. IsJoin(lists, it)
  <2>1. Len(lists) = n
    BY DEF Rungs
  <2>2. ASSUME NEW i \in 0..n
        PROVE  (IF i = 0 THEN <<>> ELSE step[<<i, it[i - 1]>>])
               = IF i = 0 THEN <<>> ELSE it[i - 1] \o Without(lists[i], QuestionsOf(it[i - 1]))
    <3>1. i # 0 => <<i, it[i - 1]>> \in (1..n) \X X
      OBVIOUS
    <3>2. <<i, it[i - 1]>>[1] = i /\ <<i, it[i - 1]>>[2] = it[i - 1]
      OBVIOUS
    <3> QED BY <1>2, <3>1, <3>2
  <2>3. it = [i \in 0..n |-> IF i = 0 THEN <<>> ELSE step[<<i, it[i - 1]>>]]
    BY <1>5 DEF Loop
  <2>4. it = [i \in 0..n |-> IF i = 0 THEN <<>>
                             ELSE it[i - 1] \o Without(lists[i], QuestionsOf(it[i - 1]))]
    BY <2>2, <2>3
  <2> QED BY <2>1, <2>4 DEF IsJoin
<1> DEFINE join == CHOOSE join : IsJoin(lists, join)
<1>7. IsJoin(lists, join)
  BY <1>6, Zenon
<1>8. Ladder(lists) = join[Len(lists)]
  BY DEF Ladder, IsJoin
<1> HIDE DEF join
<1>9. Len(lists) = n
  BY DEF Rungs
<1>10. /\ Ladder(lists) = join[n] /\ join[0] = <<>>
       /\ \A i \in 1..n : join[i] = join[i - 1] \o Without(lists[i], QuestionsOf(join[i - 1]))
  <2>1. join = [i \in 0..n |-> IF i = 0 THEN <<>>
                               ELSE join[i - 1] \o Without(lists[i], QuestionsOf(join[i - 1]))]
    BY <1>7, <1>9 DEF IsJoin
  <2>2. \A i \in 0..n : join[i] = IF i = 0 THEN <<>>
                              ELSE join[i - 1] \o Without(lists[i], QuestionsOf(join[i - 1]))
    BY <2>1
  <2>3. 0 \in 0..n /\ \A i \in 1..n : i \in 0..n /\ i # 0
    OBVIOUS
  <2> QED BY <1>8, <1>9, <2>2, <2>3
<1> DEFINE J == {i \in 0..n : Joined(lists, i, join[i])}
<1>11. 0 \in J
  BY <1>10, NoRung
<1>12. ASSUME NEW i \in 1..n, i - 1 \in J PROVE i \in J
  <2>1. PICK l : l = join[i - 1]
    OBVIOUS
  <2>2. Joined(lists, i - 1, l)
    BY <1>12, <2>1
  <2>3. Joined(lists, i, l \o Without(lists[i], QuestionsOf(l)))
    BY <2>2, JoinsNext
  <2> QED BY <1>10, <2>1, <2>3
<1> HIDE DEF J
<1>13. \A i \in 0..n : i \in J
  BY <1>11, <1>12, UpTo
<1>14. Joined(lists, n, join[n]) /\ Joined(lists, n - 1, join[n - 1])
  BY <1>13 DEF J
<1>15. n \in 1..n
  OBVIOUS
<1> QED BY <1>10, <1>14, <1>15

Piled(m, n, a, b, d) ==
    /\ a = [i \in 1..m |-> a[i]] /\ b = [i \in 1..n |-> b[i]]
    /\ \A i \in 1..m : Rung(a[i])
    /\ \A i \in 1..n : Rung(b[i])
    /\ Rung(d)

Stack(m, n, a, b, d, all) ==
    /\ Rungs(m + n + 1, all) /\ all[m + n + 1] = d
    /\ \A i \in 1..m : i \in 1..(m + n) /\ all[i] = a[i]
    /\ \A i \in 1..n : m + i \in 1..(m + n) /\ all[m + i] = b[i]
    /\ \A k \in 1..(m + n) : (\E i \in 1..m : all[k] = a[i]) \/ \E i \in 1..n : all[k] = b[i]

LEMMA Stacked ==
    ASSUME NEW m \in Nat, NEW n \in Nat, NEW a, NEW b, NEW d, Piled(m, n, a, b, d)
    PROVE  Stack(m, n, a, b, d, a \o b \o <<d>>)
<1>i. /\ a = [i \in 1..m |-> a[i]] /\ b = [i \in 1..n |-> b[i]]
      /\ \A i \in 1..m : Rung(a[i])
      /\ \A i \in 1..n : Rung(b[i])
      /\ Rung(d)
  BY DEF Piled
<1> DEFINE S == {a[i] : i \in 1..m} \cup {b[i] : i \in 1..n} \cup {d}
<1>1. a \in [1..m -> S] /\ b \in [1..n -> S] /\ d \in S
  BY <1>i
<1>2. \A x \in S : Rung(x)
  BY <1>i
<1> HIDE DEF S
<1>3. a \in Seq(S) /\ Len(a) = m /\ b \in Seq(S) /\ Len(b) = n /\ <<d>> \in Seq(S) /\ Len(<<d>>) = 1
  BY <1>1
<1>4. PICK c : c = a \o b
  OBVIOUS
<1>5. /\ c \in Seq(S) /\ Len(c) = m + n
      /\ \A i \in 1..(m + n) : c[i] = IF i <= m THEN a[i] ELSE b[i - m]
  BY <1>3, <1>4, ConcatProperties
<1>6. PICK lists : lists = c \o <<d>>
  OBVIOUS
<1>7. /\ lists \in Seq(S) /\ Len(lists) = m + n + 1 /\ lists[m + n + 1] = d
      /\ \A i \in 1..(m + n) : lists[i] = c[i]
  BY <1>3, <1>5, <1>6, ConcatProperties
<1>8. DOMAIN lists = 1..(m + n + 1) /\ \A k \in 1..(m + n + 1) : lists[k] \in S
  BY <1>7
<1>9. Rungs(m + n + 1, lists)
  BY <1>2, <1>7, <1>8 DEF Rungs
<1> DEFINE at(i) == IF i <= m THEN a[i] ELSE b[i - m]
<1>0. \A i \in 1..(m + n) : lists[i] = at(i)
  BY <1>5, <1>7
<1>10. ASSUME NEW i \in 1..m PROVE i \in 1..(m + n) /\ lists[i] = a[i]
  <2>1. i \in 1..(m + n) /\ at(i) = a[i]
    OBVIOUS
  <2> HIDE DEF at
  <2> QED BY <1>0, <2>1
<1>11. ASSUME NEW i \in 1..n PROVE m + i \in 1..(m + n) /\ lists[m + i] = b[i]
  <2>1. PICK k \in Nat : k = m + i /\ k \in 1..(m + n) /\ ~ (k <= m) /\ k - m = i
    OBVIOUS
  <2>2. at(k) = b[i]
    BY <2>1
  <2> HIDE DEF at
  <2> QED BY <1>0, <2>1, <2>2
<1>12. \A k \in 1..(m + n) : (\E i \in 1..m : lists[k] = a[i]) \/ \E i \in 1..n : lists[k] = b[i]
  <2> SUFFICES ASSUME NEW k \in 1..(m + n)
               PROVE  (\E i \in 1..m : lists[k] = a[i]) \/ \E i \in 1..n : lists[k] = b[i]
    OBVIOUS
  <2>1. CASE k <= m
    <3>1. k \in 1..m /\ at(k) = a[k]
      BY <2>1
    <3> HIDE DEF at
    <3> QED BY <1>0, <3>1
  <2>2. CASE k > m
    <3>1. PICK i : i = k - m
      OBVIOUS
    <3>2. i \in 1..n /\ at(k) = b[i]
      BY <2>2, <3>1
    <3> HIDE DEF at
    <3> QED BY <1>0, <3>2
  <2> QED BY <2>1, <2>2
<1> QED BY <1>4, <1>6, <1>7, <1>9, <1>10, <1>11, <1>12 DEF Stack

IsTarget(t) == t.concept \in DOMAIN Area /\ t.career \in BOOLEAN

LEMMA CandidatesFound ==
    ASSUME Kept, NEW s \in Sessions, NEW level \in Int, NEW t, IsTarget(t)
    PROVE  /\ Rung(Candidates(s, t, level))
           /\ QuestionsOf(Candidates(s, t, level)) = Exact(t, session[s].voice)
           /\ InKeyOrder(Candidates(s, t, level), Ranks(s, ToSet(Candidates(s, t, level)), level))
           /\ \A c \in ToSet(Candidates(s, t, level)) : c.role = t.career
<1>1. PICK S : S = Exact(t, session[s].voice)
  OBVIOUS
<1>2. S \in SUBSET Questions
  BY <1>1 DEF Exact, OnRole, OnSkill
<1>3. PICK role \in BOOLEAN : role = t.career
  BY DEF IsTarget
<1>4. PICK o : o = InOrder(s, S, role, level)
  OBVIOUS
<1>5. Candidates(s, t, level) = o
  BY <1>1, <1>3, <1>4 DEF Candidates
<1>6. Rung(o) /\ QuestionsOf(o) = S /\ ToSet(o) = CandidatesFrom(S, role)
  BY <1>2, <1>4, InOrderIsRung
<1>7. InKeyOrder(o, Ranks(s, ToSet(o), level))
  BY <1>2, <1>4, <1>6, InOrderRanks
<1>8. \A c \in ToSet(o) : c.role = role
  BY <1>6 DEF CandidatesFrom
<1> QED BY <1>1, <1>3, <1>5, <1>6, <1>7, <1>8

DraftRank(C) == [c \in C |-> <<IF bank[c.q] = "draft" THEN 1 ELSE 0>>]

(* What an interview can ask in the room of s.                              *)
CanAsk(s, q) == bank[q] \in {"approved", "draft"} /\ ~ (session[s].voice /\ q.coding)

DraftsAfter(l, w) ==
    /\ \A c \in ToSet(l) : bank[c.q] = "approved"
    /\ \A c \in ToSet(w) : bank[c.q] = "draft"

LEMMA DraftsComeLast ==
    ASSUME NEW l, NEW w, Rung(l), Rung(w), DraftsAfter(l, w)
    PROVE  InKeyOrder(l \o w, DraftRank(ToSet(l \o w)))
<1>1. PICK m \in Nat : m = Len(l) /\ DOMAIN l = 1..m /\ l \in Seq(ToSet(l))
  BY RungFacts
<1>2. PICK n \in Nat : n = Len(w) /\ DOMAIN w = 1..n /\ w \in Seq(ToSet(w))
  BY RungFacts
<1>3. PICK S : S = ToSet(l) \cup ToSet(w)
  OBVIOUS
<1>4. l \in Seq(S) /\ w \in Seq(S)
  BY <1>1, <1>2, <1>3
<1>5. PICK o : o = l \o w
  OBVIOUS
<1>6. /\ DOMAIN o = 1..(m + n)
      /\ \A i \in 1..(m + n) : o[i] = IF i <= m THEN l[i] ELSE w[i - m]
  BY <1>1, <1>2, <1>4, <1>5, ConcatProperties
<1>7. ASSUME NEW i \in 1..(m + n), NEW j \in 1..(m + n), i < j, bank[o[i].q] = "draft"
      PROVE  bank[o[j].q] = "draft"
  <2>1. i > m
    <3>1. ASSUME i <= m PROVE FALSE
      <4>1. o[i] = l[i] /\ i \in 1..m
        BY <1>6, <3>1
      <4>2. l[i] \in ToSet(l)
        BY <1>1, <4>1 DEF ToSet
      <4> QED BY <1>7, <4>1, <4>2 DEF DraftsAfter
    <3> QED BY <3>1
  <2>2. o[j] = w[j - m] /\ j - m \in 1..n
    BY <1>6, <1>7, <2>1
  <2>3. w[j - m] \in ToSet(w)
    BY <1>2, <2>2 DEF ToSet
  <2> QED BY <2>2, <2>3 DEF DraftsAfter
<1>8. \A i \in 1..(m + n) : o[i] \in ToSet(o)
  BY <1>6 DEF ToSet
<1> DEFINE key == DraftRank(ToSet(o))
<1>9. ASSUME NEW i \in 1..(m + n), NEW j \in 1..(m + n), i < j, FirstBefore(key[o[j]], key[o[i]])
      PROVE  FALSE
  <2>1. PICK a : a = key[o[i]] /\ a = <<IF bank[o[i].q] = "draft" THEN 1 ELSE 0>>
    BY <1>8 DEF DraftRank
  <2>2. PICK b : b = key[o[j]] /\ b = <<IF bank[o[j].q] = "draft" THEN 1 ELSE 0>>
    BY <1>8 DEF DraftRank
  <2>3. b[1] < a[1]
    BY <1>9, <2>1, <2>2 DEF FirstBefore
  <2>4. bank[o[i].q] = "draft" /\ bank[o[j].q] # "draft"
    BY <2>1, <2>2, <2>3
  <2> QED BY <1>7, <1>9, <2>4
<1>10. InKeyOrder(o, key)
  BY <1>6, <1>9 DEF InKeyOrder
<1> QED BY <1>5, <1>10

Stand(s, t, l) ==
    /\ Rung(l) /\ InKeyOrder(l, DraftRank(ToSet(l)))
    /\ StandIns(s, t) \subseteq Exact(t, session[s].voice) \cup QuestionsOf(l)
    /\ \A c \in ToSet(l) : CanAsk(s, c.q)

LEMMA FallbackStands ==
    ASSUME Kept, NEW s \in Sessions, NEW level \in Int, NEW t, IsTarget(t)
    PROVE  Stand(s, t, Fallback(s, t, level))
<1>1. PICK voice : voice = session[s].voice
  OBVIOUS
<1>2. PICK m \in Nat : Len(Broader[t.concept]) = m /\ DOMAIN Broader[t.concept] = 1..m
  BY LadderAssumption DEF IsTarget
<1>3. PICK n \in Nat : Len(RolesOf[t.concept]) = n /\ DOMAIN RolesOf[t.concept] = 1..n
  BY LadderAssumption DEF IsTarget
<1>4. PICK B : B = [i \in 1..m |-> OnSkill(Broader[t.concept][i], {"approved"}, voice)]
  OBVIOUS
<1>5. PICK R : R = [i \in 1..n |-> {q \in OnRole(RolesOf[t.concept][i], voice) : q.skill \in JobConcepts}]
  OBVIOUS
<1>6. PICK D : D = OnSkill(t.concept, {"draft"}, voice)
  OBVIOUS
<1>7. /\ \A i \in 1..m : B[i] \in SUBSET Questions /\ \A q \in B[i] : Askable(q, {"approved"}, voice)
      /\ \A i \in 1..n : R[i] \in SUBSET Questions /\ \A q \in R[i] : Askable(q, {"approved"}, voice)
      /\ D \in SUBSET Questions /\ \A q \in D : Askable(q, {"draft"}, voice)
  BY <1>4, <1>5, <1>6 DEF OnSkill, OnRole
<1>8. PICK a : a = [i \in 1..m |-> InOrder(s, B[i], FALSE, level)]
  OBVIOUS
<1>9. PICK b : b = [i \in 1..n |-> InOrder(s, R[i], TRUE, level)]
  OBVIOUS
<1>10. PICK d : d = InOrder(s, D, FALSE, level)
  OBVIOUS
<1>11. PICK lists : lists = a \o b \o <<d>>
  OBVIOUS
<1>12. PICK f : f = Fallback(s, t, level)
  OBVIOUS
<1>13. f = Ladder(lists)
  BY <1>1, <1>2, <1>3, <1>4, <1>5, <1>6, <1>8, <1>9, <1>10, <1>11, <1>12 DEF Fallback
<1>14. /\ \A i \in 1..m : Rung(a[i]) /\ QuestionsOf(a[i]) = B[i]
       /\ \A i \in 1..n : Rung(b[i]) /\ QuestionsOf(b[i]) = R[i]
       /\ Rung(d) /\ QuestionsOf(d) = D
  BY <1>7, <1>8, <1>9, <1>10, InOrderIsRung
<1>15. /\ Rungs(m + n + 1, lists) /\ lists[m + n + 1] = d
       /\ \A i \in 1..m : i \in 1..(m + n) /\ lists[i] = a[i]
       /\ \A i \in 1..n : m + i \in 1..(m + n) /\ lists[m + i] = b[i]
       /\ \A k \in 1..(m + n) : (\E i \in 1..m : lists[k] = a[i]) \/ \E i \in 1..n : lists[k] = b[i]
  <2>1. Piled(m, n, a, b, d)
    BY <1>8, <1>9, <1>14 DEF Piled
  <2>2. Stack(m, n, a, b, d, a \o b \o <<d>>)
    BY <2>1, Stacked
  <2> QED BY <1>11, <2>2 DEF Stack
<1>16. PICK K \in Nat : K = m + n + 1 /\ K - 1 = m + n /\ K > 0
  OBVIOUS
<1>17. /\ Joined(lists, K, f)
       /\ \E l : Joined(lists, K - 1, l) /\ f = l \o Without(lists[K], QuestionsOf(l))
  <2>1. Rungs(K, lists)
    BY <1>15, <1>16
  <2>2. /\ Joined(lists, K, Ladder(lists))
        /\ \E l : /\ Joined(lists, K - 1, l)
                  /\ Ladder(lists) = l \o Without(lists[K], QuestionsOf(l))
    BY <1>16, <2>1, LadderJoins, Zenon
  <2> QED BY <1>13, <2>2, Zenon
<1>18. PICK l : Joined(lists, K - 1, l) /\ f = l \o Without(lists[K], QuestionsOf(l))
  BY <1>17, Zenon
<1>19. PICK w : w = Without(d, QuestionsOf(l))
  OBVIOUS
<1>20. f = l \o w
  BY <1>15, <1>16, <1>18, <1>19
<1>21. Rung(w) /\ ToSet(w) \subseteq ToSet(d)
  BY <1>14, <1>19, WithoutIsRung
<1>22. Rung(l) /\ \A c \in ToSet(l) : \E k \in 1..(m + n) : c \in ToSet(lists[k])
  BY <1>16, <1>18 DEF Joined
<1>23. /\ \A i \in 1..m : \A c \in ToSet(a[i]) : c.q \in B[i]
       /\ \A i \in 1..n : \A c \in ToSet(b[i]) : c.q \in R[i]
       /\ \A c \in ToSet(d) : c.q \in D
  BY <1>14, AskedByRung DEF Asks
<1>24. \A c \in ToSet(l) : Askable(c.q, {"approved"}, voice)
  <2> SUFFICES ASSUME NEW c \in ToSet(l) PROVE Askable(c.q, {"approved"}, voice)
    OBVIOUS
  <2>1. PICK k \in 1..(m + n) : c \in ToSet(lists[k])
    BY <1>22
  <2>2. CASE \E i \in 1..m : lists[k] = a[i]
    BY <1>7, <1>23, <2>1, <2>2
  <2>3. CASE \E i \in 1..n : lists[k] = b[i]
    BY <1>7, <1>23, <2>1, <2>3
  <2> QED BY <1>15, <2>2, <2>3
<1>25. \A c \in ToSet(w) : Askable(c.q, {"draft"}, voice)
  BY <1>7, <1>21, <1>23
<1>26. InKeyOrder(f, DraftRank(ToSet(f)))
  <2>1. DraftsAfter(l, w)
    BY <1>24, <1>25 DEF DraftsAfter, Askable
  <2> QED BY <1>20, <1>21, <1>22, <2>1, DraftsComeLast
<1>27. \A c \in ToSet(f) : CanAsk(s, c.q)
  <2>1. ToSet(f) \subseteq ToSet(l) \cup ToSet(d)
    <3> SUFFICES ASSUME NEW c \in ToSet(f) PROVE c \in ToSet(l) \cup ToSet(w)
      BY <1>21
    <3>1. PICK x \in Nat : x = Len(l) /\ DOMAIN l = 1..x /\ l \in Seq(ToSet(l))
      BY <1>22, RungFacts
    <3>2. PICK y \in Nat : y = Len(w) /\ DOMAIN w = 1..y /\ w \in Seq(ToSet(w))
      BY <1>21, RungFacts
    <3>3. PICK S : S = ToSet(l) \cup ToSet(w)
      OBVIOUS
    <3>4. l \in Seq(S) /\ w \in Seq(S)
      BY <3>1, <3>2, <3>3
    <3>5. f \in Seq(S)
      BY <1>20, <3>4, ConcatProperties
    <3> QED BY <3>3, <3>5 DEF ToSet
  <2>2. \A c \in ToSet(d) : Askable(c.q, {"draft"}, voice)
    BY <1>7, <1>23
  <2> QED BY <1>1, <1>24, <2>1, <2>2 DEF Askable, CanAsk
<1>28. StandIns(s, t) \subseteq Exact(t, voice) \cup QuestionsOf(f)
  <2>1. QuestionsOf(f) = UNION {QuestionsOf(lists[k]) : k \in 1..K}
    BY <1>17 DEF Joined
  <2>2. \A i \in 1..m : B[i] \subseteq QuestionsOf(f)
    <3> SUFFICES ASSUME NEW i \in 1..m PROVE B[i] \subseteq QuestionsOf(f)
      OBVIOUS
    <3>1. i \in 1..K /\ QuestionsOf(lists[i]) = B[i]
      BY <1>14, <1>15, <1>16
    <3> QED BY <2>1, <3>1
  <2>3. \A i \in 1..n : R[i] \subseteq QuestionsOf(f)
    <3> SUFFICES ASSUME NEW i \in 1..n PROVE R[i] \subseteq QuestionsOf(f)
      OBVIOUS
    <3>1. m + i \in 1..K /\ QuestionsOf(lists[m + i]) = R[i]
      BY <1>14, <1>15, <1>16
    <3> QED BY <2>1, <3>1
  <2>4. PICK X : X = UNION {OnSkill(Broader[t.concept][i], {"approved"}, session[s].voice) :
                              i \in DOMAIN Broader[t.concept]}
    OBVIOUS
  <2>5. PICK Y : Y = {x \in UNION {OnRole(RolesOf[t.concept][i], session[s].voice) :
                                      i \in DOMAIN RolesOf[t.concept]} : x.skill \in JobConcepts}
    OBVIOUS
  <2>6. StandIns(s, t) = Exact(t, session[s].voice) \cup X \cup Y
    BY <2>4, <2>5, Zenon DEF StandIns
  <2>7. \A q \in X : \E i \in 1..m : q \in OnSkill(Broader[t.concept][i], {"approved"}, voice)
    BY <1>1, <1>2, <2>4
  <2>8. X \subseteq QuestionsOf(f)
    BY <1>4, <2>2, <2>7
  <2>9. \A q \in Y : /\ q.skill \in JobConcepts
                     /\ \E i \in 1..n : q \in OnRole(RolesOf[t.concept][i], voice)
    BY <1>1, <1>3, <2>5
  <2>10. Y \subseteq QuestionsOf(f)
    BY <1>5, <2>3, <2>9
  <2> QED BY <1>1, <2>6, <2>8, <2>10
<1> QED BY <1>1, <1>12, <1>17, <1>26, <1>27, <1>28 DEF Stand, Joined

-----------------------------------------------------------------------------
(* What a target that counts questions is served.                           *)

LEMMA FirstOfRung ==
    ASSUME NEW l, Rung(l), NEW k \in Nat
    PROVE  /\ Rung(FirstOf(l, k)) /\ ToSet(FirstOf(l, k)) \subseteq ToSet(l)
           /\ Len(FirstOf(l, k)) \in Nat /\ Len(FirstOf(l, k)) <= k
           /\ Len(FirstOf(l, k)) # k => ToSet(FirstOf(l, k)) = ToSet(l)
<1>1. PICK n \in Nat : n = Len(l) /\ DOMAIN l = 1..n
  BY RungFacts
<1>2. PICK f, S : f = FirstOf(l, k) /\ S = ToSet(l)
  OBVIOUS
<1>3. Listing(l, S) /\ OneEach(S)
  BY <1>2 DEF Rung
<1>4. Listing(f, ToSet(f)) /\ ToSet(f) \subseteq S
  BY <1>2, <1>3, FirstOfLists
<1>5. OneEach(ToSet(f))
  BY <1>3, <1>4 DEF OneEach
<1>6. Rung(f)
  BY <1>4, <1>5 DEF Rung
<1>7. PICK m \in Nat : m = Smaller(k, n) /\ m <= k /\ (m # k => m = n)
  BY DEF Smaller
<1>8. f = [i \in 1..m |-> l[i]]
  BY <1>1, <1>2, <1>7 DEF FirstOf
<1>9. Len(f) = m /\ DOMAIN f = 1..m
  BY <1>8
<1>10. m = n => ToSet(f) = S
  BY <1>1, <1>2, <1>8 DEF ToSet
<1> QED BY <1>2, <1>4, <1>6, <1>7, <1>9, <1>10

(* The first of the questions that are not used, of a list in order.        *)
Unused(l, key, used, k, f) ==
    /\ Rung(f) /\ ToSet(f) \subseteq ToSet(l) /\ QuestionsOf(f) \cap used = {}
    /\ Len(f) \in Nat /\ Len(f) <= k
    /\ Len(f) # k => QuestionsOf(l) \subseteq used \cup QuestionsOf(f)
    /\ \A x \in ToSet(l), y \in ToSet(f) :
          x.q \in used \cup QuestionsOf(f) \/ ~ FirstBefore(key[x], key[y])

LEMMA FirstUnused ==
    ASSUME NEW l, Rung(l), NEW key, InKeyOrder(l, key), NEW used, NEW k \in Nat,
           NEW f, f = FirstOf(Without(l, used), k)
    PROVE  Unused(l, key, used, k, f)
<1>1. PICK w : w = Without(l, used)
  OBVIOUS
<1>2. /\ Rung(w) /\ QuestionsOf(w) = QuestionsOf(l) \ used
      /\ ToSet(w) = {c \in ToSet(l) : c.q \notin used}
  BY <1>1, WithoutIsRung
<1>3. f = FirstOf(w, k)
  BY <1>1
<1>4. /\ Rung(f) /\ ToSet(f) \subseteq ToSet(w) /\ Len(f) \in Nat /\ Len(f) <= k
      /\ Len(f) # k => ToSet(f) = ToSet(w)
  <2>1. /\ Rung(FirstOf(w, k)) /\ ToSet(FirstOf(w, k)) \subseteq ToSet(w)
        /\ Len(FirstOf(w, k)) \in Nat /\ Len(FirstOf(w, k)) <= k
        /\ Len(FirstOf(w, k)) # k => ToSet(FirstOf(w, k)) = ToSet(w)
    BY <1>2, FirstOfRung
  <2> QED BY <1>3, <2>1
<1>5. QuestionsOf(f) = Asks(ToSet(f)) /\ QuestionsOf(w) = Asks(ToSet(w))
  BY <1>2, <1>4, AskedByRung
<1>6. QuestionsOf(f) \cap used = {}
  BY <1>2, <1>4, <1>5 DEF Asks
<1>7. Len(f) # k => QuestionsOf(l) \subseteq used \cup QuestionsOf(f)
  BY <1>2, <1>4, <1>5
<1>8. InKeyOrder(w, key) /\ Listing(w, ToSet(w))
  <2>1. Listing(l, ToSet(l)) /\ Listing(w, ToSet(w))
    BY <1>2 DEF Rung
  <2>2. PICK T : T = {c \in ToSet(l) : c.q \notin used}
    OBVIOUS
  <2>3. w = Only(l, T)
    BY <1>1, <2>2 DEF Without
  <2> QED BY <2>1, <2>3, OnlyKeepsOrder
<1>9. ASSUME NEW x \in ToSet(l), NEW y \in ToSet(f), x.q \notin used \cup QuestionsOf(f)
      PROVE  ~ FirstBefore(key[x], key[y])
  <2>1. x \in ToSet(w)
    BY <1>2, <1>9
  <2>2. x \notin ToSet(f)
    BY <1>5, <1>9 DEF Asks
  <2> QED BY <1>3, <1>8, <2>1, <2>2, FirstComeFirst
<1> QED BY <1>2, <1>4, <1>6, <1>7, <1>9 DEF Unused

Serve(s, t, level, used) ==
    LET exact == FirstOf(Without(Candidates(s, t, level), used), t.count)
    IN IF Len(exact) = t.count THEN exact
       ELSE exact \o FirstOf(Without(Fallback(s, t, level), used \cup QuestionsOf(exact)),
                             t.count - Len(exact))

(* A question on the skill gives way to another of the same standing that   *)
(* the candidate has not met.                                               *)
Rotates(s, t, level, q, taken) ==
    LastSeen(s, q) > 0 =>
        \A o \in Exact(t, session[s].voice) :
            SameStanding(o, q, level) /\ LastSeen(s, o) = 0 => o \in taken

Served(s, t, level, used, got) ==
    /\ Rung(got) /\ Len(got) \in Nat /\ Len(got) <= t.count /\ QuestionsOf(got) \cap used = {}
    /\ \A q \in QuestionsOf(got) :
          /\ CanAsk(s, q)
          /\ bank[q] = "draft" => StandIns(s, t) \subseteq used \cup QuestionsOf(got)
          /\ q \in Exact(t, session[s].voice) => Rotates(s, t, level, q, used \cup QuestionsOf(got))

LEMMA SeenComesLater ==
    ASSUME Kept, NEW s \in Sessions, NEW level \in Int, NEW c, NEW d, c.role = d.role,
           c.q \in Questions, d.q \in Questions, SameStanding(d.q, c.q, level),
           NEW seen \in Int, seen > 0
    PROVE  FirstBefore(CandidateRank(s, d, level, 0), CandidateRank(s, c, level, seen))
<1>1. /\ c.q.far \in BOOLEAN /\ c.q.localized \in BOOLEAN
      /\ d.q.far \in BOOLEAN /\ d.q.localized \in BOOLEAN
  BY QuestionsAssumption
<1>2. PICK a : a = CandidateRank(s, d, level, 0)
  OBVIOUS
<1>3. PICK b : b = CandidateRank(s, c, level, seen)
  OBVIOUS
<1>4. /\ DOMAIN a = 1..6 /\ a[1] = (IF d.q.far /\ ~ d.q.localized THEN 1 ELSE 0)
      /\ a[2] = Distance(d.q, level) /\ a[3] = Purpose(d) /\ a[4] = 0
  BY <1>2 DEF CandidateRank
<1>5. /\ b[1] = (IF c.q.far /\ ~ c.q.localized THEN 1 ELSE 0)
      /\ b[2] = Distance(c.q, level) /\ b[3] = Purpose(c) /\ b[4] = seen
  BY <1>3 DEF CandidateRank
<1>6. a[1] = b[1] /\ a[2] = b[2]
  BY <1>1, <1>4, <1>5 DEF SameStanding
<1>7. a[3] = b[3]
  BY <1>4, <1>5 DEF SameStanding, Purpose
<1>8. 4 \in DOMAIN a /\ a[4] < b[4] /\ \A j \in 1..(4 - 1) : a[j] = b[j]
  BY <1>4, <1>5, <1>6, <1>7
<1>9. FirstBefore(a, b)
  BY <1>8 DEF FirstBefore
<1> QED BY <1>2, <1>3, <1>9

LEMMA ServesTarget ==
    ASSUME Kept, NEW s \in Sessions, NEW level \in Int, NEW t, IsTarget(t), t.count \in Nat, NEW used
    PROVE  Served(s, t, level, used, Serve(s, t, level, used))
<1>1. PICK C : C = Candidates(s, t, level)
  OBVIOUS
<1>2. PICK E : E = Exact(t, session[s].voice)
  OBVIOUS
<1>3. /\ Rung(C) /\ QuestionsOf(C) = E /\ InKeyOrder(C, Ranks(s, ToSet(C), level))
      /\ \A c \in ToSet(C) : c.role = t.career
  BY <1>1, <1>2, CandidatesFound
<1>4. PICK ranks : ranks = Ranks(s, ToSet(C), level)
  OBVIOUS
<1>5. PICK exact : exact = FirstOf(Without(C, used), t.count)
  OBVIOUS
<1>6. /\ Rung(exact) /\ ToSet(exact) \subseteq ToSet(C) /\ QuestionsOf(exact) \cap used = {}
      /\ Len(exact) \in Nat /\ Len(exact) <= t.count
      /\ Len(exact) # t.count => E \subseteq used \cup QuestionsOf(exact)
      /\ \A x \in ToSet(C), y \in ToSet(exact) :
            x.q \in used \cup QuestionsOf(exact) \/ ~ FirstBefore(ranks[x], ranks[y])
  <2>1. Unused(C, ranks, used, t.count, exact)
    <3>1. InKeyOrder(C, ranks)
      BY <1>3, <1>4
    <3> QED BY <1>3, <1>5, <3>1, FirstUnused
  <2> QED BY <1>3, <2>1 DEF Unused
<1>7. E = Asks(ToSet(C)) /\ QuestionsOf(exact) = Asks(ToSet(exact))
  BY <1>3, <1>6, AskedByRung
<1>8. \A q \in QuestionsOf(exact) : q \in E
  BY <1>6, <1>7 DEF Asks
<1>9. \A q \in E : q \in Questions /\ CanAsk(s, q) /\ bank[q] # "draft"
  BY <1>2 DEF Exact, OnRole, OnSkill, Askable, CanAsk
<1>10. ASSUME NEW q \in QuestionsOf(exact)
       PROVE  Rotates(s, t, level, q, used \cup QuestionsOf(exact))
  <2>1. SUFFICES ASSUME LastSeen(s, q) > 0, NEW o \in E, SameStanding(o, q, level), LastSeen(s, o) = 0
                 PROVE  o \in used \cup QuestionsOf(exact)
    BY <1>2 DEF Rotates
  <2>2. PICK y \in ToSet(exact) : y.q = q
    BY <1>7 DEF Asks
  <2>3. PICK x \in ToSet(C) : x.q = o
    BY <1>7 DEF Asks
  <2>4. y \in ToSet(C) /\ x.role = y.role /\ q \in E
    BY <1>3, <1>6, <1>8, <2>2
  <2>5. PICK seen \in Int : seen = LastSeen(s, q)
    BY LastSeenTyped
  <2>6. ranks[x] = CandidateRank(s, x, level, 0) /\ ranks[y] = CandidateRank(s, y, level, seen)
    BY <1>4, <2>1, <2>2, <2>3, <2>4, <2>5 DEF Ranks
  <2>7. FirstBefore(CandidateRank(s, x, level, 0), CandidateRank(s, y, level, seen))
    <3>1. /\ x.role = y.role /\ y.q \in Questions /\ x.q \in Questions
          /\ SameStanding(x.q, y.q, level) /\ seen > 0
      BY <1>9, <2>1, <2>2, <2>3, <2>4, <2>5
    <3> QED BY <3>1, SeenComesLater
  <2> QED BY <1>6, <2>2, <2>3, <2>6, <2>7
<1>11. CASE Len(exact) = t.count
  <2>1. Serve(s, t, level, used) = exact
    BY <1>1, <1>5, <1>11 DEF Serve
  <2>2. Served(s, t, level, used, exact)
    BY <1>6, <1>8, <1>9, <1>10 DEF Served
  <2> QED BY <2>1, <2>2
<1>12. CASE Len(exact) # t.count
  <2>1. PICK F : F = Fallback(s, t, level)
    OBVIOUS
  <2>2. /\ Rung(F) /\ InKeyOrder(F, DraftRank(ToSet(F))) /\ StandIns(s, t) \subseteq E \cup QuestionsOf(F)
        /\ \A c \in ToSet(F) : CanAsk(s, c.q)
    BY <1>2, <2>1, FallbackStands DEF Stand
  <2>3. PICK key : key = DraftRank(ToSet(F))
    OBVIOUS
  <2>4. PICK taken : taken = used \cup QuestionsOf(exact)
    OBVIOUS
  <2>5. PICK k \in Nat : k = t.count - Len(exact)
    BY <1>6
  <2>6. PICK extra : extra = FirstOf(Without(F, taken), k)
    OBVIOUS
  <2>7. /\ Rung(extra) /\ ToSet(extra) \subseteq ToSet(F) /\ QuestionsOf(extra) \cap taken = {}
        /\ Len(extra) \in Nat /\ Len(extra) <= k
        /\ \A x \in ToSet(F), y \in ToSet(extra) :
              x.q \in taken \cup QuestionsOf(extra) \/ ~ FirstBefore(key[x], key[y])
    <3>1. InKeyOrder(F, key)
      BY <2>2, <2>3
    <3>2. Unused(F, key, taken, k, extra)
      BY <2>2, <2>6, <3>1, FirstUnused
    <3> QED BY <3>2 DEF Unused
  <2>8. PICK got : got = exact \o extra
    OBVIOUS
  <2>9. Serve(s, t, level, used) = got
    BY <1>1, <1>5, <1>12, <2>1, <2>4, <2>5, <2>6, <2>8 DEF Serve
  <2>10. /\ Rung(got) /\ Len(got) = Len(exact) + Len(extra)
         /\ QuestionsOf(got) = QuestionsOf(exact) \cup QuestionsOf(extra)
    <3>1. QuestionsOf(exact) \cap QuestionsOf(extra) = {}
      BY <2>4, <2>7
    <3> QED BY <1>6, <2>7, <2>8, <3>1, JoinRungs
  <2>11. E \subseteq taken
    BY <1>6, <1>12, <2>4
  <2>12. QuestionsOf(extra) = Asks(ToSet(extra)) /\ QuestionsOf(F) = Asks(ToSet(F))
    BY <2>2, <2>7, AskedByRung
  <2>13. ASSUME NEW q \in QuestionsOf(extra)
         PROVE  CanAsk(s, q) /\ q \notin E /\ (bank[q] = "draft" => StandIns(s, t) \subseteq used \cup QuestionsOf(got))
    <3>1. PICK y \in ToSet(extra) : y.q = q
      BY <2>12 DEF Asks
    <3>2. CanAsk(s, q) /\ q \notin E /\ y \in ToSet(F)
      BY <2>2, <2>7, <2>11, <3>1
    <3>3. ASSUME bank[q] = "draft", NEW o \in StandIns(s, t), o \notin used \cup QuestionsOf(got)
          PROVE  FALSE
      <4>1. o \notin taken \cup QuestionsOf(extra)
        BY <2>4, <2>10, <3>3
      <4>2. o \in QuestionsOf(F)
        BY <2>2, <2>11, <3>3, <4>1
      <4>3. PICK x \in ToSet(F) : x.q = o
        BY <2>12, <4>2 DEF Asks
      <4>4. bank[o] # "draft"
        BY <3>3 DEF StandIns, Exact, OnSkill, OnRole, Askable
      <4>5. key[x] = <<0>> /\ key[y] = <<1>>
        BY <2>3, <3>1, <3>2, <3>3, <4>3, <4>4 DEF DraftRank
      <4>6. FirstBefore(<<0>>, <<1>>)
        BY DEF FirstBefore
      <4> QED BY <2>7, <3>1, <4>1, <4>3, <4>5, <4>6
    <3> QED BY <3>2, <3>3
  <2>14. ASSUME NEW q \in QuestionsOf(exact)
         PROVE  /\ CanAsk(s, q) /\ bank[q] # "draft"
                /\ Rotates(s, t, level, q, used \cup QuestionsOf(got))
    <3>1. Rotates(s, t, level, q, used \cup QuestionsOf(exact))
      BY <1>10
    <3>2. Rotates(s, t, level, q, used \cup QuestionsOf(got))
      BY <2>10, <3>1 DEF Rotates
    <3> QED BY <1>8, <1>9, <3>2
  <2>15. Len(got) \in Nat /\ Len(got) <= t.count /\ QuestionsOf(got) \cap used = {}
    BY <1>6, <2>4, <2>5, <2>7, <2>10
  <2>16. ASSUME NEW q \in QuestionsOf(got)
         PROVE  /\ CanAsk(s, q)
                /\ bank[q] = "draft" => StandIns(s, t) \subseteq used \cup QuestionsOf(got)
                /\ q \in E => Rotates(s, t, level, q, used \cup QuestionsOf(got))
    <3>1. CASE q \in QuestionsOf(exact)
      BY <2>14, <3>1
    <3>2. CASE q \in QuestionsOf(extra)
      BY <2>13, <3>2
    <3> QED BY <2>10, <3>1, <3>2
  <2>17. Served(s, t, level, used, got)
    BY <1>2, <2>10, <2>15, <2>16 DEF Served
  <2> QED BY <2>9, <2>17
<1> QED BY <1>11, <1>12

-----------------------------------------------------------------------------
(* Turns in the order of an agenda.                                         *)

QuestionsIn(F) == {F[k].question : k \in DOMAIN F}

(* The turns of the first i targets: target j asks Q[j].                    *)
Blocks(targets, i, F, Q) ==
    /\ Len(F) \in Nat /\ DOMAIN F = 1..Len(F) /\ F = [k \in 1..Len(F) |-> F[k]]
    /\ \A k \in DOMAIN F : \E j \in 1..i : F[k].concept = targets[j].concept /\ F[k].question \in Q[j]
    /\ \A j \in 1..i : \A q \in Q[j] :
          \E k \in DOMAIN F : F[k].concept = targets[j].concept /\ F[k].question = q
    /\ \A k, l \in DOMAIN F : F[k].question = F[l].question => k = l
    /\ \A k, l \in DOMAIN F : \A j, h \in 1..i :
          k < l /\ F[k].concept = targets[j].concept /\ F[l].concept = targets[h].concept => j <= h

LEMMA NoBlocks ==
    ASSUME NEW targets, NEW Q
    PROVE  Blocks(targets, 0, <<>>, Q) /\ QuestionsIn(<<>>) = {}
<1>1. PICK F : F = <<>>
  OBVIOUS
<1>2. Len(F) = 0 /\ DOMAIN F = 1..0 /\ DOMAIN F = {} /\ F = [k \in 1..0 |-> F[k]]
  BY <1>1
<1>3. Blocks(targets, 0, F, Q)
  BY <1>2 DEF Blocks
<1>4. QuestionsIn(F) = {}
  BY <1>2 DEF QuestionsIn
<1> QED BY <1>1, <1>3, <1>4

(* m turns on the competency of t, one for each of the questions.           *)
Block(t, questions, m, T) ==
    /\ Len(T) = m /\ DOMAIN T = 1..m /\ T = [k \in 1..m |-> T[k]]
    /\ \A k \in 1..m : T[k].concept = t.concept /\ T[k].question \in questions
    /\ \A q \in questions : \E k \in 1..m : T[k].question = q
    /\ \A k, l \in 1..m : T[k].question = T[l].question => k = l

LEMMA TurnsOfRung ==
    ASSUME NEW t, NEW got, Rung(got)
    PROVE  \E m \in Nat : Block(t, QuestionsOf(got), m, TurnsOf(t, got))
<1>1. PICK m \in Nat : m = Cardinality(ToSet(got)) /\ DOMAIN got = 1..m
  BY RungFacts
<1>2. PICK T : T = TurnsOf(t, got)
  OBVIOUS
<1>3. T = [k \in 1..m |-> Turn(t, got[k])]
  BY <1>1, <1>2 DEF TurnsOf
<1>4. /\ Len(T) = m /\ DOMAIN T = 1..m /\ T = [k \in 1..m |-> T[k]]
      /\ \A k \in 1..m : T[k].concept = t.concept /\ T[k].question = got[k].q
  BY <1>3 DEF Turn
<1>5. \A k \in 1..m : got[k].q \in QuestionsOf(got)
  BY <1>1 DEF QuestionsOf
<1>6. \A q \in QuestionsOf(got) : \E k \in 1..m : got[k].q = q
  BY <1>1 DEF QuestionsOf
<1>7. \A k, l \in 1..m : got[k].q = got[l].q => k = l
  <2>1. /\ \A k \in 1..m : got[k] \in ToSet(got)
        /\ \A c, d \in ToSet(got) : c.q = d.q => c = d
    BY <1>1 DEF ToSet, Rung, OneEach
  <2>2. \A k, l \in 1..m : got[k] = got[l] => k = l
    BY <1>1 DEF Rung, Listing
  <2> QED BY <2>1, <2>2
<1> QED BY <1>2, <1>4, <1>5, <1>6, <1>7 DEF Block

LEMMA NextBlock ==
    ASSUME NEW targets, IsAgenda(targets), NEW i \in 1..Len(targets), NEW F, NEW Q,
           Blocks(targets, i - 1, F, Q), NEW got, Rung(got), QuestionsOf(got) = Q[i],
           QuestionsOf(got) \cap QuestionsIn(F) = {}
    PROVE  /\ Blocks(targets, i, F \o TurnsOf(targets[i], got), Q)
           /\ QuestionsIn(F \o TurnsOf(targets[i], got)) = QuestionsIn(F) \cup QuestionsOf(got)
<1>0. Len(targets) \in Nat /\ i \in Nat /\ i > 0
  BY DEF IsAgenda
<1>1. PICK n \in Nat : n = Len(F) /\ DOMAIN F = 1..n
  BY DEF Blocks
<1>2. PICK T : T = TurnsOf(targets[i], got)
  OBVIOUS
<1>3. PICK m \in Nat : Block(targets[i], QuestionsOf(got), m, T)
  BY <1>2, TurnsOfRung
<1>a. /\ Len(T) = m /\ DOMAIN T = 1..m
      /\ \A k \in 1..m : T[k].concept = targets[i].concept /\ T[k].question \in QuestionsOf(got)
  BY <1>3 DEF Block
<1>b. \A q \in QuestionsOf(got) : \E k \in 1..m : T[k].question = q
  BY <1>3 DEF Block
<1>c. \A k, l \in 1..m : T[k].question = T[l].question => k = l
  BY <1>3 DEF Block
<1>4. PICK S : S = {F[k] : k \in 1..n} \cup {T[k] : k \in 1..m}
  OBVIOUS
<1>5. F \in Seq(S) /\ T \in Seq(S)
  <2>1. F = [k \in 1..n |-> F[k]] /\ T = [k \in 1..m |-> T[k]]
    BY <1>1, <1>3 DEF Block, Blocks
  <2>2. F \in [1..n -> S]
    BY <1>4, <2>1
  <2>3. T \in [1..m -> S]
    BY <1>4, <2>1
  <2> QED BY <2>2, <2>3
<1>h. Len(F) = n
  BY <1>1
<1>6. PICK G : G = F \o T
  OBVIOUS
<1> DEFINE at(k) == IF k <= n THEN F[k] ELSE T[k - n]
<1>7. /\ G \in Seq(S) /\ Len(G) = n + m /\ DOMAIN G = 1..(n + m)
      /\ \A k \in 1..(n + m) : G[k] = at(k)
  BY <1>a, <1>h, <1>5, <1>6, ConcatProperties
<1>8. G = [k \in 1..(n + m) |-> G[k]]
  BY <1>7
<1>9. \A k \in 1..n : k \in 1..(n + m) /\ G[k] = F[k]
  <2>1. \A k \in 1..n : k \in 1..(n + m) /\ at(k) = F[k]
    OBVIOUS
  <2> HIDE DEF at
  <2> QED BY <1>7, <2>1
<1>10. \A k \in 1..m : n + k \in 1..(n + m) /\ G[n + k] = T[k]
  <2> SUFFICES ASSUME NEW k \in 1..m PROVE n + k \in 1..(n + m) /\ G[n + k] = T[k]
    OBVIOUS
  <2>1. PICK x \in Nat : x = n + k /\ x \in 1..(n + m) /\ ~ (x <= n) /\ x - n = k
    OBVIOUS
  <2>2. at(x) = T[k]
    BY <2>1
  <2> HIDE DEF at
  <2> QED BY <1>7, <2>1, <2>2
<1>11. \A k \in 1..(n + m) : k \in 1..n \/ \E x \in 1..m : k = n + x
  <2> SUFFICES ASSUME NEW k \in 1..(n + m), k \notin 1..n PROVE \E x \in 1..m : k = n + x
    OBVIOUS
  <2>1. k - n \in 1..m /\ k = n + (k - n)
    OBVIOUS
  <2> QED BY <2>1
<1> HIDE DEF at
<1>d. \A k \in 1..n : \E j \in 1..(i - 1) :
         F[k].concept = targets[j].concept /\ F[k].question \in Q[j]
  BY <1>1 DEF Blocks
<1>e. \A j \in 1..(i - 1) : \A q \in Q[j] :
         \E k \in 1..n : F[k].concept = targets[j].concept /\ F[k].question = q
  BY <1>1 DEF Blocks
<1>f. \A k, l \in 1..n : F[k].question = F[l].question => k = l
  BY <1>1 DEF Blocks
<1>g. \A k, l \in 1..n : \A j, h \in 1..(i - 1) :
         k < l /\ F[k].concept = targets[j].concept /\ F[l].concept = targets[h].concept => j <= h
  BY <1>1 DEF Blocks
<1>13. \A j \in 1..i : j \in 1..(i - 1) \/ j = i
  BY <1>0
<1>14. \A j \in 1..(i - 1) : j \in 1..i /\ j \in 1..Len(targets) /\ j # i
  BY <1>0
<1>15. \A j, h \in 1..Len(targets) : targets[j].concept = targets[h].concept => j = h
  BY DEF IsAgenda
<1>16. QuestionsIn(F) = {F[k].question : k \in 1..n}
  BY <1>1 DEF QuestionsIn
<1>17. \A k \in 1..n, x \in 1..m : F[k].question # T[x].question
  BY <1>a, <1>16
<1>18. ASSUME NEW k \in 1..(n + m)
       PROVE  \E j \in 1..i : G[k].concept = targets[j].concept /\ G[k].question \in Q[j]
  <2>1. CASE k \in 1..n
    <3>1. PICK j \in 1..(i - 1) : F[k].concept = targets[j].concept /\ F[k].question \in Q[j]
      BY <1>d, <2>1
    <3>2. j \in 1..i /\ G[k] = F[k]
      BY <1>9, <1>14, <2>1
    <3> QED BY <3>1, <3>2
  <2>2. CASE \E x \in 1..m : k = n + x
    <3>1. PICK x \in 1..m : k = n + x
      BY <2>2
    <3>2. G[k] = T[x] /\ i \in 1..i
      BY <1>0, <1>10, <3>1
    <3>3. T[x].concept = targets[i].concept /\ T[x].question \in Q[i]
      BY <1>a
    <3> QED BY <3>2, <3>3
  <2> QED BY <1>11, <2>1, <2>2
<1>19. ASSUME NEW j \in 1..i, NEW q \in Q[j]
       PROVE  \E k \in 1..(n + m) : G[k].concept = targets[j].concept /\ G[k].question = q
  <2>1. CASE j \in 1..(i - 1)
    <3>1. PICK k \in 1..n : F[k].concept = targets[j].concept /\ F[k].question = q
      BY <1>e, <2>1
    <3>2. k \in 1..(n + m) /\ G[k] = F[k]
      BY <1>9
    <3> QED BY <3>1, <3>2
  <2>2. CASE j = i
    <3>1. PICK k \in 1..m : T[k].question = q
      BY <1>b, <2>2
    <3>2. n + k \in 1..(n + m) /\ G[n + k] = T[k] /\ T[k].concept = targets[j].concept
      BY <1>a, <1>10, <2>2
    <3> QED BY <3>1, <3>2
  <2> QED BY <1>13, <2>1, <2>2
<1>20. ASSUME NEW k \in 1..(n + m), NEW l \in 1..(n + m), G[k].question = G[l].question
       PROVE  k = l
  <2>1. CASE k \in 1..n /\ l \in 1..n
    BY <1>9, <1>f, <1>20, <2>1
  <2>2. CASE k \in 1..n /\ \E x \in 1..m : l = n + x
    <3>1. PICK x \in 1..m : l = n + x
      BY <2>2
    <3>2. G[k] = F[k] /\ G[l] = T[x]
      BY <1>9, <1>10, <2>2, <3>1
    <3> QED BY <1>17, <1>20, <2>2, <3>2
  <2>3. CASE l \in 1..n /\ \E x \in 1..m : k = n + x
    <3>1. PICK x \in 1..m : k = n + x
      BY <2>3
    <3>2. G[l] = F[l] /\ G[k] = T[x]
      BY <1>9, <1>10, <2>3, <3>1
    <3> QED BY <1>17, <1>20, <2>3, <3>2
  <2>4. CASE (\E x \in 1..m : k = n + x) /\ \E x \in 1..m : l = n + x
    <3>1. PICK x \in 1..m : k = n + x
      BY <2>4
    <3>2. PICK y \in 1..m : l = n + y
      BY <2>4
    <3>3. G[k] = T[x] /\ G[l] = T[y]
      BY <1>10, <3>1, <3>2
    <3>4. x = y
      BY <1>c, <1>20, <3>3
    <3> QED BY <3>1, <3>2, <3>4
  <2> QED BY <1>11, <2>1, <2>2, <2>3, <2>4
<1>21. ASSUME NEW k \in 1..n, NEW j \in 1..i, F[k].concept = targets[j].concept
       PROVE  j \in 1..(i - 1)
  <2>1. PICK x \in 1..(i - 1) : F[k].concept = targets[x].concept
    BY <1>d
  <2>2. x \in 1..Len(targets) /\ j \in 1..Len(targets)
    BY <1>0, <1>14
  <2>3. x = j
    BY <1>15, <1>21, <2>1, <2>2
  <2> QED BY <2>3
<1>22. ASSUME NEW x \in 1..m, NEW j \in 1..i, G[n + x].concept = targets[j].concept
       PROVE  j = i
  <2>1. j \in 1..Len(targets)
    BY <1>0
  <2>2. G[n + x].concept = targets[i].concept
    BY <1>a, <1>10
  <2> QED BY <1>15, <1>22, <2>1, <2>2
<1>23. ASSUME NEW k \in 1..(n + m), NEW l \in 1..(n + m), NEW j \in 1..i, NEW h \in 1..i, k < l,
              G[k].concept = targets[j].concept, G[l].concept = targets[h].concept
       PROVE  j <= h
  <2>1. CASE \E x \in 1..m : l = n + x
    <3>1. h = i
      BY <1>22, <1>23, <2>1
    <3> QED BY <1>0, <3>1
  <2>2. CASE l \in 1..n
    <3>1. k \in 1..n
      BY <1>23, <2>2
    <3>2. F[k].concept = targets[j].concept /\ F[l].concept = targets[h].concept
      BY <1>9, <1>23, <2>2, <3>1
    <3>3. j \in 1..(i - 1) /\ h \in 1..(i - 1)
      BY <1>21, <2>2, <3>1, <3>2
    <3> QED BY <1>g, <1>23, <2>2, <3>1, <3>2, <3>3
  <2> QED BY <1>11, <2>1, <2>2
<1>24. Blocks(targets, i, G, Q)
  <2>1. PICK x \in Nat : x = n + m
    OBVIOUS
  <2>2. Len(G) = x /\ DOMAIN G = 1..x /\ G = [k \in 1..x |-> G[k]]
    BY <1>7, <1>8, <2>1
  <2>3. /\ \A k \in 1..x : \E j \in 1..i :
              G[k].concept = targets[j].concept /\ G[k].question \in Q[j]
        /\ \A j \in 1..i : \A q \in Q[j] :
              \E k \in 1..x : G[k].concept = targets[j].concept /\ G[k].question = q
        /\ \A k, l \in 1..x : G[k].question = G[l].question => k = l
    BY <1>18, <1>19, <1>20, <2>1
  <2>4. \A k, l \in 1..x : \A j, h \in 1..i :
           k < l /\ G[k].concept = targets[j].concept /\ G[l].concept = targets[h].concept => j <= h
    BY <1>23, <2>1
  <2> QED BY <2>2, <2>3, <2>4 DEF Blocks
<1>25. QuestionsIn(G) = QuestionsIn(F) \cup QuestionsOf(got)
  <2>1. QuestionsIn(G) = {G[k].question : k \in 1..(n + m)}
    BY <1>7 DEF QuestionsIn
  <2>2. ASSUME NEW q \in QuestionsIn(G) PROVE q \in QuestionsIn(F) \cup QuestionsOf(got)
    <3>1. PICK k \in 1..(n + m) : q = G[k].question
      BY <2>1
    <3>2. CASE k \in 1..n
      BY <1>9, <1>16, <3>1, <3>2
    <3>3. CASE \E x \in 1..m : k = n + x
      <4>1. PICK x \in 1..m : k = n + x
        BY <3>3
      <4>2. G[k] = T[x]
        BY <1>10, <4>1
      <4> QED BY <1>a, <3>1, <4>2
    <3> QED BY <1>11, <3>2, <3>3
  <2>3. \A q \in QuestionsIn(F) : q \in QuestionsIn(G)
    BY <1>9, <1>16, <2>1
  <2>4. ASSUME NEW q \in QuestionsOf(got) PROVE q \in QuestionsIn(G)
    <3>1. PICK k \in 1..m : T[k].question = q
      BY <1>b
    <3>2. n + k \in 1..(n + m) /\ G[n + k] = T[k]
      BY <1>10
    <3> QED BY <2>1, <3>1, <3>2
  <2> QED BY <2>2, <2>3, <2>4
<1> QED BY <1>2, <1>6, <1>24, <1>25

-----------------------------------------------------------------------------
(* The turns of an agenda that counts questions.                            *)

LEMMA AsksAsMany ==
    ASSUME NEW C, OneEach(C), IsFiniteSet(C)
    PROVE  IsFiniteSet(Asks(C)) /\ Cardinality(Asks(C)) = Cardinality(C)
<1>1. PICK f : f = [c \in C |-> c.q]
  OBVIOUS
<1>2. f \in Bijection(C, Asks(C))
  <2>1. f \in [C -> Asks(C)]
    BY <1>1 DEF Asks
  <2>2. \A c, d \in C : f[c] = f[d] => c = d
    BY <1>1 DEF OneEach
  <2>3. \A q \in Asks(C) : \E c \in C : f[c] = q
    BY <1>1 DEF Asks
  <2> QED BY <2>1, <2>2, <2>3 DEF Bijection, Injection, Surjection, IsInjective
<1>3. ExistsBijection(C, Asks(C))
  BY <1>2 DEF ExistsBijection
<1> QED BY <1>3, FS_Bijection

LEMMA RungAsks ==
    ASSUME NEW l, Rung(l)
    PROVE  IsFiniteSet(QuestionsOf(l)) /\ Cardinality(QuestionsOf(l)) = Len(l)
<1>1. IsFiniteSet(ToSet(l)) /\ OneEach(ToSet(l)) /\ Len(l) = Cardinality(ToSet(l))
  BY RungFacts DEF Rung, Listing
<1>2. QuestionsOf(l) = Asks(ToSet(l))
  BY AskedByRung
<1> QED BY <1>1, <1>2, AsksAsMany

FillStep(s, level, t, before) ==
    LET got == Serve(s, t, level, {before.frozen[k].question : k \in DOMAIN before.frozen})
    IN [frozen |-> before.frozen \o TurnsOf(t, got),
        short  |-> before.short \cup IF Len(got) < t.count THEN {t.concept} ELSE {}]

IsFill(s, level, targets, fill) ==
    fill = [i \in 0..Len(targets) |->
               IF i = 0 THEN [frozen |-> <<>>, short |-> {}]
               ELSE FillStep(s, level, targets[i], fill[i - 1])]

FillRun(s, n, level, targets, fill) ==
    /\ FreezeCounted(s) = IF fill[n].frozen = <<>> THEN Refused
                          ELSE [refused |-> FALSE, frozen |-> fill[n].frozen, short |-> fill[n].short]
    /\ fill[0] = [frozen |-> <<>>, short |-> {}]
    /\ \A i \in 1..n : fill[i] = FillStep(s, level, targets[i], fill[i - 1])

(* Every target of an agenda can be asked about.                            *)
LEMMA AgendaTargets ==
    ASSUME NEW targets, IsAgenda(targets)
    PROVE  /\ Len(targets) \in Nat
           /\ \A i \in 1..Len(targets) : IsTarget(targets[i]) /\ targets[i].count \in Nat
BY DEF IsAgenda, IsTarget

LEMMA FillSteps ==
    ASSUME Kept, NEW s \in Sessions, NEW targets, targets = plan[s].agenda.targets,
           IsAgenda(targets), NEW n \in Nat, n = Len(targets), NEW level \in Int, level = plan[s].level
    PROVE  \E fill : FillRun(s, n, level, targets, fill)
<1> DEFINE K == [concept : DOMAIN Area, question : Questions, gap : {targets[j].gap : j \in 1..n}]
           X == [frozen : Seq(K), short : SUBSET DOMAIN Area]
           start == [frozen |-> <<>>, short |-> {}]
           step == [p \in (1..n) \X X |-> FillStep(s, level, targets[p[1]], p[2])]
<1>1. ASSUME NEW i \in 1..n, NEW x \in X PROVE FillStep(s, level, targets[i], x) \in X
  <2>1. IsTarget(targets[i]) /\ targets[i].count \in Nat
    BY AgendaTargets
  <2>2. PICK used : used = {x.frozen[k].question : k \in DOMAIN x.frozen}
    OBVIOUS
  <2>3. PICK got : got = Serve(s, targets[i], level, used)
    OBVIOUS
  <2>4. Rung(got)
    <3>1. Served(s, targets[i], level, used, Serve(s, targets[i], level, used))
      BY <2>1, ServesTarget
    <3> QED BY <2>3, <3>1 DEF Served
  <2>5. PICK m \in Nat : m = Cardinality(ToSet(got)) /\ DOMAIN got = 1..m
    BY <2>4, RungFacts
  <2>6. \A k \in 1..m : got[k].q \in Questions
    BY <2>4, <2>5 DEF ToSet, Rung, OneEach
  <2>7. TurnsOf(targets[i], got) \in Seq(K)
    <3>1. ASSUME NEW k \in 1..m PROVE Turn(targets[i], got[k]) \in K
      BY <2>1, <2>6 DEF Turn, IsTarget
    <3>2. TurnsOf(targets[i], got) = [k \in 1..m |-> Turn(targets[i], got[k])]
      BY <2>5 DEF TurnsOf
    <3> HIDE DEF K
    <3>3. TurnsOf(targets[i], got) \in [1..m -> K]
      BY <3>1, <3>2
    <3> QED BY <3>3
  <2>8. x.frozen \in Seq(K) /\ x.short \in SUBSET DOMAIN Area
    OBVIOUS
  <2> HIDE DEF K
  <2>9. x.frozen \o TurnsOf(targets[i], got) \in Seq(K)
    BY <2>7, <2>8, ConcatProperties
  <2>10. PICK lack : lack = IF Len(got) < targets[i].count THEN {targets[i].concept} ELSE {}
    OBVIOUS
  <2>11. x.short \cup lack \in SUBSET DOMAIN Area
    BY <2>1, <2>8, <2>10 DEF IsTarget
  <2>12. FillStep(s, level, targets[i], x)
            = [frozen |-> x.frozen \o TurnsOf(targets[i], got), short |-> x.short \cup lack]
    BY <2>2, <2>3, <2>10 DEF FillStep
  <2> QED BY <2>9, <2>11, <2>12
<1>2. start \in X
  OBVIOUS
<1>3. /\ step = [p \in (1..n) \X X |-> step[p]]
      /\ \A p \in (1..n) \X X : step[p] = FillStep(s, level, targets[p[1]], p[2])
  OBVIOUS
<1> HIDE DEF X, step, start
<1>4. step \in [(1..n) \X X -> X]
  <2>1. ASSUME NEW p \in (1..n) \X X PROVE step[p] \in X
    <3>1. p[1] \in 1..n /\ p[2] \in X
      OBVIOUS
    <3> QED BY <1>1, <1>3, <3>1
  <2> QED BY <1>3, <2>1
<1>5. PICK it \in [0..n -> X] : Loop(n, start, step, it)
  BY <1>2, <1>4, LoopTyped
<1>6. IsFill(s, level, targets, it)
  <2>1. ASSUME NEW i \in 0..n
        PROVE  (IF i = 0 THEN start ELSE step[<<i, it[i - 1]>>])
               = IF i = 0 THEN start ELSE FillStep(s, level, targets[i], it[i - 1])
    <3>1. i # 0 => <<i, it[i - 1]>> \in (1..n) \X X
      BY SMTT(30)
    <3>2. <<i, it[i - 1]>>[1] = i /\ <<i, it[i - 1]>>[2] = it[i - 1]
      OBVIOUS
    <3> QED BY <1>3, <3>1, <3>2
  <2>2. it = [i \in 0..n |-> IF i = 0 THEN start ELSE step[<<i, it[i - 1]>>]]
    BY <1>5 DEF Loop
  <2>3. it = [i \in 0..n |-> IF i = 0 THEN start ELSE FillStep(s, level, targets[i], it[i - 1])]
    BY <2>1, <2>2
  <2> QED BY <2>3 DEF IsFill, start
<1> DEFINE fill == CHOOSE fill : IsFill(s, level, targets, fill)
<1>7. IsFill(s, level, targets, fill)
  BY <1>6, Zenon
<1>8. FreezeCounted(s) = IF fill[Len(targets)].frozen = <<>> THEN Refused
                         ELSE [refused |-> FALSE, frozen |-> fill[Len(targets)].frozen,
                               short |-> fill[Len(targets)].short]
  BY DEF FreezeCounted, IsFill, FillStep, Serve
<1> HIDE DEF fill
<1>9. /\ fill[0] = start
      /\ \A i \in 1..n : fill[i] = FillStep(s, level, targets[i], fill[i - 1])
  <2>1. fill = [i \in 0..n |-> IF i = 0 THEN start
                               ELSE FillStep(s, level, targets[i], fill[i - 1])]
    BY <1>7 DEF IsFill, start
  <2>2. \A i \in 0..n : fill[i] = IF i = 0 THEN start
                                  ELSE FillStep(s, level, targets[i], fill[i - 1])
    BY <2>1
  <2>3. 0 \in 0..n /\ \A i \in 1..n : i \in 0..n /\ i # 0
    OBVIOUS
  <2> QED BY <2>2, <2>3
<1> QED BY <1>8, <1>9 DEF FillRun, start

(* Q[j] is what target j asks: what it is served when the targets before it *)
(* have asked their questions.                                              *)
AskedFor(s, n, level, targets, fill) ==
    [j \in 1..n |-> QuestionsOf(Serve(s, targets[j], level, QuestionsIn(fill[j - 1].frozen)))]

Filled(s, targets, i, Q, all) ==
    /\ Blocks(targets, i, all.frozen, Q)
    /\ \A j \in 1..i : Q[j] \subseteq QuestionsIn(all.frozen)
    /\ all.short \subseteq {targets[j].concept : j \in 1..i}
    /\ \A j \in 1..i : targets[j].concept \in all.short <=> Cardinality(Q[j]) < targets[j].count

LEMMA FillsNext ==
    ASSUME Kept, NEW s \in Sessions, NEW targets, IsAgenda(targets), NEW level \in Int,
           NEW i \in 1..Len(targets), NEW Q, NEW before, Filled(s, targets, i - 1, Q, before),
           Q[i] = QuestionsOf(Serve(s, targets[i], level, QuestionsIn(before.frozen)))
    PROVE  /\ Filled(s, targets, i, Q, FillStep(s, level, targets[i], before))
           /\ QuestionsIn(before.frozen)
                 \subseteq QuestionsIn(FillStep(s, level, targets[i], before).frozen)
<1>1. Len(targets) \in Nat /\ IsTarget(targets[i]) /\ targets[i].count \in Nat
  BY AgendaTargets
<1>2. PICK used : used = QuestionsIn(before.frozen)
  OBVIOUS
<1>3. PICK got : got = Serve(s, targets[i], level, used)
  OBVIOUS
<1>4. Rung(got) /\ QuestionsOf(got) \cap used = {}
  <2>1. Served(s, targets[i], level, used, Serve(s, targets[i], level, used))
    BY <1>1, ServesTarget
  <2> QED BY <1>3, <2>1 DEF Served
<1>5. Q[i] = QuestionsOf(got) /\ Cardinality(Q[i]) = Len(got)
  BY <1>2, <1>3, <1>4, RungAsks
<1>6. PICK lack : lack = IF Len(got) < targets[i].count THEN {targets[i].concept} ELSE {}
  OBVIOUS
<1>7. PICK all : all = FillStep(s, level, targets[i], before)
  OBVIOUS
<1>8. all = [frozen |-> before.frozen \o TurnsOf(targets[i], got), short |-> before.short \cup lack]
  BY <1>2, <1>3, <1>6, <1>7 DEF FillStep, QuestionsIn
<1>9. all.frozen = before.frozen \o TurnsOf(targets[i], got) /\ all.short = before.short \cup lack
  BY <1>8
<1>10. /\ Blocks(targets, i, all.frozen, Q)
       /\ QuestionsIn(all.frozen) = QuestionsIn(before.frozen) \cup QuestionsOf(got)
  <2>1. Blocks(targets, i - 1, before.frozen, Q)
    BY DEF Filled
  <2> QED BY <1>2, <1>4, <1>5, <1>9, <2>1, NextBlock
<1>11. \A j \in 1..i : j = i \/ (j \in 1..(i - 1) /\ j # i)
  BY <1>1
<1>12. \A j \in 1..(i - 1) : j \in 1..i /\ j \in 1..Len(targets)
  BY <1>1
<1>13. \A j \in 1..i : Q[j] \subseteq QuestionsIn(all.frozen)
  BY <1>5, <1>10, <1>11 DEF Filled
<1>14. before.short \subseteq {targets[j].concept : j \in 1..(i - 1)}
  BY DEF Filled
<1>15. i \in 1..i /\ i \in 1..Len(targets)
  BY <1>1
<1>16. all.short \subseteq {targets[j].concept : j \in 1..i}
  BY <1>6, <1>9, <1>12, <1>14, <1>15
<1>17. \A j, h \in 1..Len(targets) : targets[j].concept = targets[h].concept => j = h
  BY DEF IsAgenda
<1>18. ASSUME NEW j \in 1..i
       PROVE  targets[j].concept \in all.short <=> Cardinality(Q[j]) < targets[j].count
  <2>1. CASE j = i
    <3>1. targets[i].concept \notin before.short
      BY <1>11, <1>12, <1>14, <1>15, <1>17
    <3> QED BY <1>5, <1>6, <1>9, <2>1, <3>1
  <2>2. CASE j \in 1..(i - 1) /\ j # i
    <3>1. targets[j].concept # targets[i].concept
      BY <1>12, <1>15, <1>17, <2>2
    <3>2. targets[j].concept \in all.short <=> targets[j].concept \in before.short
      BY <1>6, <1>9, <3>1
    <3> QED BY <2>2, <3>2 DEF Filled
  <2> QED BY <1>11, <2>1, <2>2
<1> QED BY <1>7, <1>10, <1>13, <1>16, <1>18 DEF Filled

(* What the questions of target j are to the frozen ones.                   *)
Entitled(s, level, t, questions, frozen) ==
    \A q \in questions :
        /\ CanAsk(s, q)
        /\ bank[q] = "draft" => StandIns(s, t) \subseteq frozen
        /\ q \in Exact(t, session[s].voice) => Rotates(s, t, level, q, frozen)

CountedFit(s, level, targets, F, short) ==
    \E Q : /\ Blocks(targets, Len(targets), F, Q)
           /\ \A j \in 1..Len(targets) :
                 /\ IsFiniteSet(Q[j]) /\ Cardinality(Q[j]) <= targets[j].count
                 /\ targets[j].concept \in short <=> Cardinality(Q[j]) < targets[j].count
                 /\ Entitled(s, level, targets[j], Q[j], QuestionsIn(F))

LEMMA CountedIsFit ==
    ASSUME Kept, NEW s \in Sessions, IsAgenda(plan[s].agenda.targets), ~ FreezeCounted(s).refused
    PROVE  CountedFit(s, plan[s].level, plan[s].agenda.targets, FreezeCounted(s).frozen,
                      FreezeCounted(s).short)
<1>1. PICK targets : targets = plan[s].agenda.targets
  OBVIOUS
<1>2. PICK n \in Nat : n = Len(targets)
  BY <1>1, AgendaTargets
<1>3. PICK level \in Int : level = plan[s].level
  BY DEF Kept
<1>4. PICK fill : FillRun(s, n, level, targets, fill)
  <2>1. IsAgenda(targets)
    BY <1>1
  <2> QED BY <1>1, <1>2, <1>3, <2>1, FillSteps
<1>5. PICK Q : Q = AskedFor(s, n, level, targets, fill)
  OBVIOUS
<1>6. IsAgenda(targets) /\ \A j \in 1..n : IsTarget(targets[j]) /\ targets[j].count \in Nat
  BY <1>1, <1>2, AgendaTargets
<1>7. \A j \in 1..n : Q[j] = QuestionsOf(Serve(s, targets[j], level, QuestionsIn(fill[j - 1].frozen)))
  BY <1>5 DEF AskedFor
<1>8. /\ fill[0] = [frozen |-> <<>>, short |-> {}]
      /\ \A i \in 1..n : fill[i] = FillStep(s, level, targets[i], fill[i - 1])
  BY <1>4 DEF FillRun
<1> DEFINE Ok == {i \in 0..n : Filled(s, targets, i, Q, fill[i])}
<1>9. 0 \in Ok
  <2>1. fill[0].frozen = <<>> /\ fill[0].short = {}
    BY <1>8
  <2>2. Blocks(targets, 0, fill[0].frozen, Q)
    BY <2>1, NoBlocks
  <2> QED BY <2>1, <2>2 DEF Filled
<1>10. ASSUME NEW i \in 1..n, Filled(s, targets, i - 1, Q, fill[i - 1])
       PROVE  /\ Filled(s, targets, i, Q, fill[i])
              /\ QuestionsIn(fill[i - 1].frozen) \subseteq QuestionsIn(fill[i].frozen)
  <2>1. PICK before : before = fill[i - 1]
    OBVIOUS
  <2>2. Filled(s, targets, i - 1, Q, before)
    BY <1>10, <2>1
  <2>3. Q[i] = QuestionsOf(Serve(s, targets[i], level, QuestionsIn(before.frozen)))
    BY <1>7, <2>1
  <2>4. i \in 1..Len(targets)
    BY <1>2
  <2>5. /\ Filled(s, targets, i, Q, FillStep(s, level, targets[i], before))
        /\ QuestionsIn(before.frozen)
              \subseteq QuestionsIn(FillStep(s, level, targets[i], before).frozen)
    BY <1>6, <2>2, <2>3, <2>4, FillsNext
  <2>6. fill[i] = FillStep(s, level, targets[i], before)
    BY <1>8, <2>1
  <2> QED BY <2>1, <2>5, <2>6
<1>11. \A i \in 1..n : i - 1 \in Ok => i \in Ok
  BY <1>10
<1> HIDE DEF Ok
<1>12. \A i \in 0..n : i \in Ok
  BY <1>9, <1>11, UpTo
<1>13. \A i \in 0..n : Filled(s, targets, i, Q, fill[i])
  BY <1>12 DEF Ok
<1>14. PICK F, short : F = fill[n].frozen /\ short = fill[n].short
  OBVIOUS
<1>15. Filled(s, targets, n, Q, fill[n])
  BY <1>13
<1>16. \A i \in 1..n : QuestionsIn(fill[i - 1].frozen) \subseteq QuestionsIn(fill[i].frozen)
  BY <1>10, <1>13
<1> DEFINE In == {i \in 0..n : \A j \in 0..i :
                     QuestionsIn(fill[j].frozen) \subseteq QuestionsIn(fill[i].frozen)}
<1>17. 0 \in In
  OBVIOUS
<1>18. ASSUME NEW i \in 1..n, i - 1 \in In PROVE i \in In
  <2>1. \A j \in 0..i : j = i \/ j \in 0..(i - 1)
    OBVIOUS
  <2>2. i \in 0..n
    OBVIOUS
  <2> QED BY <1>16, <1>18, <2>1, <2>2
<1> HIDE DEF In
<1>19. \A i \in 0..n : i \in In
  BY <1>17, <1>18, UpTo
<1>20. \A j \in 1..n : QuestionsIn(fill[j - 1].frozen) \subseteq QuestionsIn(F)
  <2>1. n \in In
    BY <1>19
  <2>2. \A j \in 0..n : QuestionsIn(fill[j].frozen) \subseteq QuestionsIn(fill[n].frozen)
    BY <2>1 DEF In
  <2>3. \A j \in 1..n : j - 1 \in 0..n
    OBVIOUS
  <2> QED BY <1>14, <2>2, <2>3
<1>21. ASSUME NEW j \in 1..n
       PROVE  /\ IsFiniteSet(Q[j]) /\ Cardinality(Q[j]) <= targets[j].count
              /\ targets[j].concept \in short <=> Cardinality(Q[j]) < targets[j].count
              /\ Entitled(s, level, targets[j], Q[j], QuestionsIn(F))
  <2>1. PICK used : used = QuestionsIn(fill[j - 1].frozen)
    OBVIOUS
  <2>2. PICK got : got = Serve(s, targets[j], level, used)
    OBVIOUS
  <2>3. Served(s, targets[j], level, used, got)
    <3>1. Served(s, targets[j], level, used, Serve(s, targets[j], level, used))
      BY <1>6, ServesTarget
    <3> QED BY <2>2, <3>1
  <2>4. Q[j] = QuestionsOf(got)
    BY <1>7, <2>1, <2>2
  <2>5. Rung(got) /\ Len(got) <= targets[j].count
    BY <2>3 DEF Served
  <2>6. IsFiniteSet(Q[j]) /\ Cardinality(Q[j]) = Len(got)
    BY <2>4, <2>5, RungAsks
  <2>7. used \cup Q[j] \subseteq QuestionsIn(F)
    BY <1>14, <1>15, <1>20, <2>1 DEF Filled
  <2>8. Entitled(s, level, targets[j], Q[j], QuestionsIn(F))
    <3> SUFFICES ASSUME NEW q \in Q[j]
                 PROVE  /\ CanAsk(s, q)
                        /\ bank[q] = "draft" => StandIns(s, targets[j]) \subseteq QuestionsIn(F)
                        /\ q \in Exact(targets[j], session[s].voice)
                              => Rotates(s, targets[j], level, q, QuestionsIn(F))
      BY DEF Entitled
    <3>1. /\ CanAsk(s, q)
          /\ bank[q] = "draft" => StandIns(s, targets[j]) \subseteq used \cup Q[j]
          /\ q \in Exact(targets[j], session[s].voice)
                => Rotates(s, targets[j], level, q, used \cup Q[j])
      BY <2>3, <2>4 DEF Served
    <3>2. Rotates(s, targets[j], level, q, used \cup Q[j])
             => Rotates(s, targets[j], level, q, QuestionsIn(F))
      BY <2>7 DEF Rotates
    <3> QED BY <2>7, <3>1, <3>2
  <2>9. targets[j].concept \in short <=> Cardinality(Q[j]) < targets[j].count
    BY <1>14, <1>15 DEF Filled
  <2> QED BY <2>5, <2>6, <2>8, <2>9
<1>22. CountedFit(s, level, targets, F, short)
  <2>1. Blocks(targets, Len(targets), F, Q)
    BY <1>2, <1>14, <1>15 DEF Filled
  <2> QED BY <1>2, <1>21, <2>1 DEF CountedFit
<1>23. FreezeCounted(s).frozen = F /\ FreezeCounted(s).short = short
  <2>1. FreezeCounted(s) = IF F = <<>> THEN Refused
                           ELSE [refused |-> FALSE, frozen |-> F, short |-> short]
    BY <1>4, <1>14 DEF FillRun
  <2>2. Refused.refused = TRUE
    BY DEF Refused
  <2>3. F # <<>>
    BY <2>1, <2>2
  <2>4. FreezeCounted(s) = [refused |-> FALSE, frozen |-> F, short |-> short]
    BY <2>1, <2>3
  <2> QED BY <2>4
<1> QED BY <1>1, <1>3, <1>22, <1>23

-----------------------------------------------------------------------------
(* What the turns of an agenda say of the agenda.                           *)

PlaceOf(targets, c) == CHOOSE i \in DOMAIN targets : targets[i].concept = c

LEMMA PlaceOfTarget ==
    ASSUME NEW targets, IsAgenda(targets), NEW i \in 1..Len(targets)
    PROVE  PlaceOf(targets, targets[i].concept) = i
<1>1. i \in DOMAIN targets
  BY DEF IsAgenda
<1>2. \A x \in DOMAIN targets : targets[x].concept = targets[i].concept => x = i
  BY <1>1 DEF IsAgenda
<1>3. PICK p : p = PlaceOf(targets, targets[i].concept)
  OBVIOUS
<1>4. p \in DOMAIN targets /\ targets[p].concept = targets[i].concept
  BY <1>1, <1>3, Zenon DEF PlaceOf
<1> QED BY <1>2, <1>3, <1>4

(* The turns on a competency.                                               *)
On(T, c) == {k \in DOMAIN T : T[k].concept = c}

(* The turns T ask what F asks, in the same order.                          *)
SameTurns(T, F) ==
    /\ DOMAIN T = DOMAIN F
    /\ \A k \in DOMAIN F : T[k].concept = F[k].concept /\ T[k].question = F[k].question

AsksInOrder(targets, Q, T) ==
    /\ \A k, l \in DOMAIN T :
          k < l => /\ T[k].question # T[l].question
                   /\ PlaceOf(targets, T[k].concept) <= PlaceOf(targets, T[l].concept)
    /\ \A k \in DOMAIN T : \E j \in 1..Len(targets) :
          /\ PlaceOf(targets, T[k].concept) = j /\ T[k].question \in Q[j]
    /\ \A j \in 1..Len(targets) :
          /\ {T[k].question : k \in On(T, targets[j].concept)} = Q[j]
          /\ IsFiniteSet(Q[j]) => /\ IsFiniteSet(On(T, targets[j].concept))
                                  /\ Cardinality(On(T, targets[j].concept)) = Cardinality(Q[j])

LEMMA BlocksInOrder ==
    ASSUME NEW targets, IsAgenda(targets), NEW F, NEW Q, Blocks(targets, Len(targets), F, Q),
           NEW T, SameTurns(T, F)
    PROVE  AsksInOrder(targets, Q, T)
<1>1. PICK n \in Nat : n = Len(targets)
  BY DEF IsAgenda
<1>2. PICK m \in Nat : m = Len(F) /\ DOMAIN F = 1..m
  BY DEF Blocks
<1>3. /\ DOMAIN T = 1..m
      /\ \A k \in 1..m : T[k].concept = F[k].concept /\ T[k].question = F[k].question
  BY <1>2 DEF SameTurns
<1>4. \A k \in 1..m : \E j \in 1..n : T[k].concept = targets[j].concept /\ T[k].question \in Q[j]
  BY <1>1, <1>2, <1>3 DEF Blocks
<1>5. \A j \in 1..n : \A q \in Q[j] :
         \E k \in 1..m : T[k].concept = targets[j].concept /\ T[k].question = q
  <2>1. \A j \in 1..n : \A q \in Q[j] :
           \E k \in 1..m : F[k].concept = targets[j].concept /\ F[k].question = q
    BY <1>1, <1>2 DEF Blocks
  <2> SUFFICES ASSUME NEW j \in 1..n, NEW q \in Q[j]
               PROVE  \E k \in 1..m : T[k].concept = targets[j].concept /\ T[k].question = q
    OBVIOUS
  <2>2. PICK k \in 1..m : F[k].concept = targets[j].concept /\ F[k].question = q
    BY <2>1
  <2> QED BY <1>3, <2>2
<1>6. \A k, l \in 1..m : T[k].question = T[l].question => k = l
  BY <1>2, <1>3 DEF Blocks
<1>7. \A k, l \in 1..m : \A j, h \in 1..n :
         k < l /\ T[k].concept = targets[j].concept /\ T[l].concept = targets[h].concept => j <= h
  BY <1>1, <1>2, <1>3 DEF Blocks
<1>8. \A j \in 1..n : PlaceOf(targets, targets[j].concept) = j
  BY <1>1, PlaceOfTarget
<1>9. \A k \in 1..m : \E j \in 1..n :
         /\ T[k].concept = targets[j].concept /\ T[k].question \in Q[j]
         /\ PlaceOf(targets, T[k].concept) = j
  <2> SUFFICES ASSUME NEW k \in 1..m
               PROVE  \E j \in 1..n : /\ T[k].concept = targets[j].concept /\ T[k].question \in Q[j]
                                      /\ PlaceOf(targets, T[k].concept) = j
    OBVIOUS
  <2>1. PICK j \in 1..n : T[k].concept = targets[j].concept /\ T[k].question \in Q[j]
    BY <1>4
  <2>2. PlaceOf(targets, T[k].concept) = j
    BY <1>8, <2>1
  <2> QED BY <2>1, <2>2
<1>10. ASSUME NEW k \in 1..m, NEW l \in 1..m, k < l
       PROVE  /\ T[k].question # T[l].question
              /\ PlaceOf(targets, T[k].concept) <= PlaceOf(targets, T[l].concept)
  <2>1. PICK j \in 1..n : T[k].concept = targets[j].concept /\ PlaceOf(targets, T[k].concept) = j
    BY <1>9
  <2>2. PICK h \in 1..n : T[l].concept = targets[h].concept /\ PlaceOf(targets, T[l].concept) = h
    BY <1>9
  <2>3. j <= h
    BY <1>7, <1>10, <2>1, <2>2
  <2>4. k # l
    BY <1>10
  <2> QED BY <1>6, <2>1, <2>2, <2>3, <2>4
<1>11. ASSUME NEW j \in 1..n
       PROVE  /\ {T[k].question : k \in On(T, targets[j].concept)} = Q[j]
              /\ IsFiniteSet(Q[j]) => /\ IsFiniteSet(On(T, targets[j].concept))
                                      /\ Cardinality(On(T, targets[j].concept)) = Cardinality(Q[j])
  <2>1. PICK on : on = On(T, targets[j].concept)
    OBVIOUS
  <2>2. on = {k \in 1..m : T[k].concept = targets[j].concept}
    BY <1>3, <2>1 DEF On
  <2>3. \A i \in 1..n : targets[i].concept = targets[j].concept => i = j
    BY <1>8
  <2>4. \A k \in on : T[k].question \in Q[j]
    BY <1>4, <2>2, <2>3
  <2>5. \A q \in Q[j] : \E k \in on : T[k].question = q
    BY <1>5, <2>2
  <2>6. {T[k].question : k \in on} = Q[j]
    BY <2>4, <2>5
  <2>7. PICK f : f = [q \in Q[j] |-> CHOOSE k \in on : T[k].question = q]
    OBVIOUS
  <2>8. \A q \in Q[j] : f[q] \in on /\ T[f[q]].question = q
    BY <2>5, <2>7
  <2>9. f \in Bijection(Q[j], on)
    <3>1. f \in [Q[j] -> on]
      BY <2>7, <2>8
    <3>2. \A q, r \in Q[j] : f[q] = f[r] => q = r
      BY <2>8
    <3>3. \A k \in on : \E q \in Q[j] : f[q] = k
      BY <1>6, <2>2, <2>4, <2>8
    <3> QED BY <3>1, <3>2, <3>3 DEF Bijection, Injection, Surjection, IsInjective
  <2>10. ExistsBijection(Q[j], on)
    BY <2>9 DEF ExistsBijection
  <2>11. IsFiniteSet(Q[j]) => IsFiniteSet(on) /\ Cardinality(on) = Cardinality(Q[j])
    BY <2>10, FS_Bijection
  <2> QED BY <2>1, <2>6, <2>11
<1> QED BY <1>1, <1>3, <1>9, <1>10, <1>11 DEF AsksInOrder

AsPlanned(agenda, T, short, t) ==
    LET on   == On(T, t.concept)
        cost == Cost({T[k].question : k \in on})
    IN IF agenda.policy = "legacy"
       THEN IF t.concept \in short THEN Cardinality(on) < t.count ELSE Cardinality(on) = t.count
       ELSE IF t.concept \in short THEN on = {}
            ELSE Cardinality(on) \in 1..t.most /\ cost \in t.floor..t.envelope

(* FrozenFitsPlan, of the turns of one session.                             *)
Fits(agenda, voice, T, short) ==
    /\ \A k, l \in DOMAIN T :
          k < l => /\ T[k].question # T[l].question
                   /\ PlaceOf(agenda.targets, T[k].concept) <= PlaceOf(agenda.targets, T[l].concept)
    /\ \A i \in DOMAIN agenda.targets : AsPlanned(agenda, T, short, agenda.targets[i])
    /\ voice => \A k \in DOMAIN T : ~ T[k].question.coding

LastResort(s, targets, T) ==
    \A k \in DOMAIN T :
        bank[T[k].question] = "draft" =>
            StandIns(s, targets[PlaceOf(targets, T[k].concept)]) \subseteq QuestionsIn(T)

Rotating(s, level, targets, T) ==
    \A k \in DOMAIN T :
        LET t == targets[PlaceOf(targets, T[k].concept)]
        IN T[k].question \in Exact(t, session[s].voice)
              => Rotates(s, t, level, T[k].question, QuestionsIn(T))

LEMMA SameAsked ==
    ASSUME NEW T, NEW F, SameTurns(T, F)
    PROVE  QuestionsIn(T) = QuestionsIn(F)
BY DEF SameTurns, QuestionsIn

LEMMA CountedTurns ==
    ASSUME NEW s \in Sessions, NEW level, NEW agenda, agenda.policy = "legacy",
           IsAgenda(agenda.targets), NEW F, NEW short,
           CountedFit(s, level, agenda.targets, F, short), NEW T, SameTurns(T, F)
    PROVE  /\ Fits(agenda, session[s].voice, T, short)
           /\ LastResort(s, agenda.targets, T) /\ Rotating(s, level, agenda.targets, T)
<1>1. PICK targets : targets = agenda.targets
  OBVIOUS
<1>2. IsAgenda(targets)
  BY <1>1
<1>3. PICK n \in Nat : n = Len(targets) /\ DOMAIN targets = 1..n
  BY <1>2 DEF IsAgenda
<1>4. CountedFit(s, level, targets, F, short)
  BY <1>1
<1>5. PICK Q : /\ Blocks(targets, n, F, Q)
               /\ \A j \in 1..n :
                     /\ IsFiniteSet(Q[j]) /\ Cardinality(Q[j]) <= targets[j].count
                     /\ targets[j].concept \in short <=> Cardinality(Q[j]) < targets[j].count
                     /\ Entitled(s, level, targets[j], Q[j], QuestionsIn(F))
  BY <1>3, <1>4 DEF CountedFit
<1>6. AsksInOrder(targets, Q, T)
  BY <1>2, <1>3, <1>5, BlocksInOrder
<1>7. \A j \in 1..n : targets[j].count \in Nat
  BY <1>2, <1>3, AgendaTargets
<1>8. QuestionsIn(T) = QuestionsIn(F)
  BY SameAsked
<1>9. \A k \in DOMAIN T : \E j \in 1..n : PlaceOf(targets, T[k].concept) = j /\ T[k].question \in Q[j]
  BY <1>3, <1>6 DEF AsksInOrder
<1>10. \A j \in 1..n : \A q \in Q[j] :
         /\ CanAsk(s, q)
         /\ bank[q] = "draft" => StandIns(s, targets[j]) \subseteq QuestionsIn(T)
         /\ q \in Exact(targets[j], session[s].voice)
               => Rotates(s, targets[j], level, q, QuestionsIn(T))
  BY <1>5, <1>8 DEF Entitled
<1>11. ASSUME NEW j \in 1..n PROVE AsPlanned(agenda, T, short, targets[j])
  <2>1. PICK on : on = On(T, targets[j].concept)
    OBVIOUS
  <2>2. Cardinality(on) = Cardinality(Q[j])
    BY <1>3, <1>5, <1>6, <2>1 DEF AsksInOrder
  <2>3. Cardinality(Q[j]) \in Nat
    BY <1>5, FS_CardinalityType
  <2>4. IF targets[j].concept \in short THEN Cardinality(on) < targets[j].count
        ELSE Cardinality(on) = targets[j].count
    BY <1>5, <1>7, <2>2, <2>3
  <2> QED BY <2>1, <2>4 DEF AsPlanned
<1>12. Fits(agenda, session[s].voice, T, short)
  <2>1. \A k, l \in DOMAIN T :
           k < l => /\ T[k].question # T[l].question
                    /\ PlaceOf(targets, T[k].concept) <= PlaceOf(targets, T[l].concept)
    BY <1>6 DEF AsksInOrder
  <2>2. session[s].voice => \A k \in DOMAIN T : ~ T[k].question.coding
    BY <1>9, <1>10 DEF CanAsk
  <2> QED BY <1>1, <1>3, <1>11, <2>1, <2>2 DEF Fits
<1>13. LastResort(s, targets, T)
  <2> SUFFICES ASSUME NEW k \in DOMAIN T, bank[T[k].question] = "draft"
               PROVE  StandIns(s, targets[PlaceOf(targets, T[k].concept)]) \subseteq QuestionsIn(T)
    BY DEF LastResort
  <2>1. PICK j \in 1..n : PlaceOf(targets, T[k].concept) = j /\ T[k].question \in Q[j]
    BY <1>9
  <2>2. StandIns(s, targets[j]) \subseteq QuestionsIn(T)
    BY <1>10, <2>1
  <2> QED BY <2>1, <2>2
<1>14. Rotating(s, level, targets, T)
  <2> SUFFICES ASSUME NEW k \in DOMAIN T, NEW t, t = targets[PlaceOf(targets, T[k].concept)],
                      T[k].question \in Exact(t, session[s].voice)
               PROVE  Rotates(s, t, level, T[k].question, QuestionsIn(T))
    BY DEF Rotating
  <2>1. PICK j \in 1..n : PlaceOf(targets, T[k].concept) = j /\ T[k].question \in Q[j]
    BY <1>9
  <2>2. t = targets[j]
    BY <2>1
  <2> QED BY <1>10, <2>1, <2>2
<1> QED BY <1>1, <1>12, <1>13, <1>14

-----------------------------------------------------------------------------
(* The step that freezes.                                                   *)

Written == DOMAIN turns = Sessions /\ DOMAIN uncovered = Sessions

(* What the plan is once it is locked, and what is asked of it.             *)
Locks(s, frozen, short) ==
    /\ plan[s].status = "READY" /\ plan'[s].status = "LOCKED"
    /\ plan'[s].agenda = plan[s].agenda /\ plan'[s].level = plan[s].level
    /\ turns'[s] = FrozenTurns(s, frozen) /\ uncovered'[s] = short /\ session' = session

LEMMA InitWritten == Init => Written
BY DEF Init, Written

LEMMA NextWritten ==
    ASSUME Written, [Next]_vars
    PROVE  Written'
<1>1. ASSUME UNCHANGED <<turns, uncovered>> PROVE Written'
  BY <1>1 DEF Written
<1>2. ASSUME NEW r \in Requests, SelectAndFreeze(r) PROVE Written'
  <2>1. CASE UNCHANGED <<jd, plan, turns, uncovered>>
    BY <1>1, <2>1
  <2>2. CASE ~ UNCHANGED <<jd, plan, turns, uncovered>>
    <3>1. /\ \E put : turns' = [turns EXCEPT ![call[r].s] = put]
          /\ \E short : uncovered' = [uncovered EXCEPT ![call[r].s] = short]
      BY <1>2, <2>2 DEF SelectAndFreeze
    <3> QED BY <3>1 DEF Written
  <2> QED BY <2>1, <2>2
<1>3. CASE UNCHANGED vars
  BY <1>1, <1>3 DEF vars
<1>4. ASSUME NEW s \in Sessions, CreateSession(s) \/ AskTurn(s) PROVE Written'
  BY <1>1, <1>4 DEF CreateSession, AskTurn
<1>5. ASSUME NEW r \in Requests,
             \/ \E s \in Sessions : StartPlan(r, s) \/ StartFreeze(r, s)
             \/ PersistPlan(r) \/ StartCoverage(r) \/ CountUnderLock(r) \/ FileDrafts(r)
             \/ EndCoverage(r) \/ Die(r)
      PROVE  Written'
  <2>1. UNCHANGED <<turns, uncovered>>
    BY <1>5 DEF StartPlan, StartFreeze, PersistPlan, StartCoverage, CountUnderLock, FileDrafts,
                EndCoverage, Die
  <2> QED BY <1>1, <2>1
<1>6. ASSUME NEW q \in Reviewed, ReviewQuestion(q) PROVE Written'
  BY <1>1, <1>6 DEF ReviewQuestion
<1> QED BY <1>2, <1>3, <1>4, <1>5, <1>6 DEF Next

(* Only a selection that was not refused locks a plan.                      *)
LEMMA WhoFreezes ==
    ASSUME Packaged, Written, [Next]_vars, NEW s \in Sessions, Freezes(s)
    PROVE  /\ ~ Selection(s).refused
           /\ Locks(s, Selection(s).frozen, Selection(s).short)
<1>1. plan[s].status # "LOCKED" /\ plan'[s].status = "LOCKED"
  BY DEF Freezes, Frozen
<1>2. plan' # plan
  BY <1>1
<1>3. ~ (\E x \in Sessions : AskTurn(x)) /\ ~ (\E q \in Reviewed : ReviewQuestion(q))
      /\ ~ UNCHANGED vars
  BY <1>2 DEF AskTurn, ReviewQuestion, vars
<1>4. ASSUME NEW x \in Sessions, CreateSession(x) PROVE FALSE
  <2>1. plan' = [plan EXCEPT ![x].status = "DRAFT"]
    BY <1>4 DEF CreateSession
  <2>2. plan'[s] = plan[s] \/ plan'[s] = [plan[s] EXCEPT !.status = "DRAFT"]
    BY <2>1 DEF Packaged
  <2>3. plan'[s] = [plan[s] EXCEPT !.status = "DRAFT"]
    BY <1>1, <2>2
  <2>4. plan'[s].status = "DRAFT" \/ plan'[s].status = plan[s].status
    BY <2>3
  <2> QED BY <1>1, <2>4
<1>5. ASSUME NEW r \in Requests, PersistPlan(r) PROVE FALSE
  <2>1. PICK a, l, c, x : plan' = plan \/ plan' = [plan EXCEPT ![x] =
                [status |-> "READY", agenda |-> a, level |-> l, context |-> c]]
    BY <1>5 DEF PersistPlan
  <2>2. plan'[s] = plan[s]
        \/ plan'[s] = [status |-> "READY", agenda |-> a, level |-> l, context |-> c]
    BY <2>1 DEF Packaged
  <2> QED BY <1>1, <2>2
<1>6. ASSUME NEW r \in Requests,
             \/ \E x \in Sessions : StartPlan(r, x) \/ StartFreeze(r, x)
             \/ StartCoverage(r) \/ CountUnderLock(r) \/ FileDrafts(r) \/ EndCoverage(r) \/ Die(r)
      PROVE  FALSE
  <2>1. plan' = plan
    BY <1>6 DEF StartPlan, StartFreeze, StartCoverage, CountUnderLock, FileDrafts, EndCoverage, Die
  <2> QED BY <1>2, <2>1
<1>7. PICK r \in Requests : SelectAndFreeze(r)
  BY <1>2, <1>3, <1>4, <1>5, <1>6 DEF Next, vars
<1>8. PICK x : x = call[r].s
  OBVIOUS
<1>9. /\ plan[x].status = "READY" /\ ~ Selection(x).refused
      /\ turns' = [turns EXCEPT ![x] = FrozenTurns(x, Selection(x).frozen)]
      /\ uncovered' = [uncovered EXCEPT ![x] = Selection(x).short]
      /\ plan' = [plan EXCEPT ![x].status = "LOCKED"] /\ session' = session
  BY <1>2, <1>7, <1>8 DEF SelectAndFreeze
<1>10. s = x
  <2>1. s # x => plan'[s] = plan[s]
    BY <1>9 DEF Packaged
  <2> QED BY <1>1, <2>1
<1>11. plan'[s] = [plan[s] EXCEPT !.status = "LOCKED"]
  BY <1>9, <1>10 DEF Packaged
<1>12. plan'[s].agenda = plan[s].agenda /\ plan'[s].level = plan[s].level
  BY <1>11
<1>13. turns'[s] = FrozenTurns(s, Selection(s).frozen) /\ uncovered'[s] = Selection(s).short
  BY <1>9, <1>10 DEF Written
<1> QED BY <1>1, <1>9, <1>10, <1>12, <1>13 DEF Locks

LEMMA FrozenAreSame ==
    ASSUME NEW s, NEW F
    PROVE  SameTurns(FrozenTurns(s, F), F)
BY DEF FrozenTurns, SameTurns

(* A plan that is ready has an agenda of the job.                           *)
LEMMA ReadyAgenda ==
    ASSUME FromPlanner, NEW s \in Sessions, plan[s].status = "READY"
    PROVE  IsAgenda(plan[s].agenda.targets) /\ plan[s].agenda.policy \in {"legacy", "dynamic"}
<1>1. jd \in Jobs /\ BuiltBy(jd, session[s], plan[s].agenda, plan[s].context)
  BY DEF FromPlanner, Planned
<1> QED BY <1>1, BuiltAgenda

LEMMA CountedFreeze ==
    ASSUME Kept, FromPlanner, NEW s \in Sessions, plan[s].status = "READY", Counted(s),
           ~ Selection(s).refused
    PROVE  LET T == FrozenTurns(s, Selection(s).frozen)
           IN /\ Fits(plan[s].agenda, session[s].voice, T, Selection(s).short)
              /\ LastResort(s, plan[s].agenda.targets, T)
              /\ Rotating(s, plan[s].level, plan[s].agenda.targets, T)
<1>1. PICK agenda : agenda = plan[s].agenda
  OBVIOUS
<1>2. agenda.policy = "legacy" /\ IsAgenda(agenda.targets)
  BY <1>1, ReadyAgenda DEF Counted
<1>3. Selection(s) = FreezeCounted(s)
  BY <1>1, <1>2 DEF Selection
<1>4. PICK F, short : F = Selection(s).frozen /\ short = Selection(s).short
  OBVIOUS
<1>5. CountedFit(s, plan[s].level, agenda.targets, F, short)
  BY <1>1, <1>2, <1>3, <1>4, CountedIsFit
<1>6. PICK T : T = FrozenTurns(s, F)
  OBVIOUS
<1>7. SameTurns(T, F)
  BY <1>6, FrozenAreSame
<1>8. /\ Fits(agenda, session[s].voice, T, short)
      /\ LastResort(s, agenda.targets, T) /\ Rotating(s, plan[s].level, agenda.targets, T)
  BY <1>2, <1>5, <1>7, CountedTurns
<1> QED BY <1>1, <1>4, <1>6, <1>8

LEMMA FreezesWell ==
    ASSUME Packaged, Written, Kept, FromPlanner, [Next]_vars, NEW s \in Sessions, Freezes(s),
           Counted(s)
    PROVE  /\ LastResort(s, plan[s].agenda.targets, turns'[s])
           /\ Rotating(s, plan[s].level, plan[s].agenda.targets, turns'[s])
           /\ turns'[s] = FrozenTurns(s, Selection(s).frozen)
<1>1. ~ Selection(s).refused /\ Locks(s, Selection(s).frozen, Selection(s).short)
  BY WhoFreezes
<1>2. plan[s].status = "READY" /\ turns'[s] = FrozenTurns(s, Selection(s).frozen)
  BY <1>1 DEF Locks
<1> QED BY <1>1, <1>2, CountedFreeze

LEMMA NextDrafts ==
    ASSUME Packaged, Written, Kept, FromPlanner, [Next]_vars, NEW s \in Sessions, Freezes(s),
           Counted(s), NEW i \in DOMAIN turns'[s], turns'[s][i].source = "draft"
    PROVE  StandIns(s, plan[s].agenda.targets[Position(s, turns'[s][i].concept)])
              \subseteq {turns'[s][k].question : k \in DOMAIN turns'[s]}
<1>1. LastResort(s, plan[s].agenda.targets, turns'[s])
  BY FreezesWell
<1>2. turns'[s] = FrozenTurns(s, Selection(s).frozen)
  BY FreezesWell
<1>3. bank[turns'[s][i].question] = "draft"
  BY <1>2 DEF FrozenTurns
<1>4. StandIns(s, plan[s].agenda.targets[PlaceOf(plan[s].agenda.targets, turns'[s][i].concept)])
         \subseteq QuestionsIn(turns'[s])
  BY <1>1, <1>3 DEF LastResort
<1>5. Position(s, turns'[s][i].concept) = PlaceOf(plan[s].agenda.targets, turns'[s][i].concept)
  BY DEF Position, PlaceOf
<1> QED BY <1>4, <1>5 DEF QuestionsIn

LEMMA NextRotates ==
    ASSUME Packaged, Written, Kept, FromPlanner, [Next]_vars, NEW s \in Sessions, Freezes(s),
           Counted(s), NEW i \in DOMAIN turns'[s], NEW q, q = turns'[s][i].question,
           NEW t, t = plan[s].agenda.targets[Position(s, turns'[s][i].concept)],
           NEW exact, exact = Exact(t, session[s].voice), q \in exact, LastSeen(s, q) > 0,
           NEW o \in exact, SameStanding(o, q, plan[s].level), LastSeen(s, o) = 0
    PROVE  o \in {turns'[s][k].question : k \in DOMAIN turns'[s]}
<1>1. Rotating(s, plan[s].level, plan[s].agenda.targets, turns'[s])
  BY FreezesWell
<1>2. t = plan[s].agenda.targets[PlaceOf(plan[s].agenda.targets, turns'[s][i].concept)]
  BY DEF Position, PlaceOf
<1>3. Rotates(s, t, plan[s].level, q, QuestionsIn(turns'[s]))
  BY <1>1, <1>2 DEF Rotating
<1>4. o \in QuestionsIn(turns'[s])
  BY <1>3 DEF Rotates
<1> QED BY <1>4 DEF QuestionsIn

(* In a session that counts questions, a draft that nobody reviewed is only *)
(* asked when every reviewed question that could stand for its competency   *)
(* is asked in the session as well.                                         *)
THEOREM DraftsComeAsLastResort == Spec => DraftsAreLastResort
<1>1. Init => Packaged /\ Building /\ FromPlanner /\ Kept /\ Written
  BY InitPackaged, InitBuilding, InitFromPlanner, InitKept, InitWritten
<1>2. Packaged /\ Building /\ FromPlanner /\ Kept /\ Written /\ [Next]_vars
        => (Packaged /\ Building /\ FromPlanner /\ Kept /\ Written)'
  BY NextStands, NextFromPlanner, NextKept, NextWritten
<1>3. Packaged /\ FromPlanner /\ Kept /\ Written /\ [Next]_vars
        => [\A s \in Sessions : Freezes(s) /\ Counted(s) =>
              \A i \in DOMAIN turns'[s] : turns'[s][i].source = "draft" =>
                  StandIns(s, plan[s].agenda.targets[Position(s, turns'[s][i].concept)])
                     \subseteq {turns'[s][k].question : k \in DOMAIN turns'[s]}]_vars
  BY NextDrafts
<1> QED BY <1>1, <1>2, <1>3, PTL DEF Spec, DraftsAreLastResort

(* A question on the skill that the candidate met in another session is     *)
(* only asked again when every other of the same standing was met too or is *)
(* asked in this session.                                                   *)
THEOREM QuestionsRotate == Spec => RotatesQuestions
<1>1. Init => Packaged /\ Building /\ FromPlanner /\ Kept /\ Written
  BY InitPackaged, InitBuilding, InitFromPlanner, InitKept, InitWritten
<1>2. Packaged /\ Building /\ FromPlanner /\ Kept /\ Written /\ [Next]_vars
        => (Packaged /\ Building /\ FromPlanner /\ Kept /\ Written)'
  BY NextStands, NextFromPlanner, NextKept, NextWritten
<1>3. Packaged /\ FromPlanner /\ Kept /\ Written /\ [Next]_vars
        => [\A s \in Sessions : Freezes(s) /\ Counted(s) /\ ~ IsDemo(session[s].minutes) =>
              \A i \in DOMAIN turns'[s] :
                  LET q     == turns'[s][i].question
                      t     == plan[s].agenda.targets[Position(s, turns'[s][i].concept)]
                      exact == Exact(t, session[s].voice)
                  IN q \in exact /\ LastSeen(s, q) > 0 =>
                        \A o \in exact : SameStanding(o, q, plan[s].level) /\ LastSeen(s, o) = 0
                            => o \in {turns'[s][k].question : k \in DOMAIN turns'[s]}]_vars
  BY NextRotates
<1> QED BY <1>1, <1>2, <1>3, PTL DEF Spec, RotatesQuestions

-----------------------------------------------------------------------------
(* Sets of questions that fit an envelope.                                  *)

LEMMA SetListed ==
    ASSUME NEW S, IsFiniteSet(S)
    PROVE  \E n \in Nat : n = Cardinality(S) /\ SetToSeq(S) \in [1..n -> S]
<1>1. PICK n \in Nat : n = Cardinality(S)
  BY FS_CardinalityType
<1>2. \E f : f \in [1..n -> S] /\ IsInjective(f)
  <2>1. ExistsBijection(1..n, S)
    BY <1>1, FS_CardinalityType
  <2> QED BY <2>1 DEF ExistsBijection, Bijection, Injection
<1>3. SetToSeq(S) = CHOOSE f \in [1..n -> S] : IsInjective(f)
  BY <1>1 DEF SetToSeq
<1>4. SetToSeq(S) \in [1..n -> S]
  BY <1>2, <1>3, Zenon
<1> QED BY <1>1, <1>4

(* A set of candidates that can be judged.                                  *)
Judged(t, S) ==
    /\ OneEach(S) /\ IsFiniteSet(S) /\ Cardinality(S) \in Nat \ {0}
    /\ Cost(Asks(S)) \in Int /\ t.envelope \in Int

LEMMA ObjectiveTyped ==
    ASSUME NEW s \in Sessions, NEW t, NEW level \in Int, NEW S, Judged(t, S)
    PROVE  SubsetObjective(s, t, level, S) \in Numbers(6)
<1>1. PICK n \in Nat : n = Cardinality(S) /\ SetToSeq(S) \in [1..n -> S]
  BY SetListed DEF Judged
<1>2. PICK l : l = SetToSeq(S)
  OBVIOUS
<1>3. l \in [1..n -> S] /\ DOMAIN l = 1..n /\ n \in Nat \ {0}
  BY <1>1, <1>2 DEF Judged
<1>4. \A i \in 1..n : l[i].q \in Questions /\ l[i].role \in BOOLEAN
  BY <1>3 DEF Judged, OneEach
<1>5. ASSUME NEW i \in 1..n
      PROVE  /\ Distance(l[i].q, level) \in Int /\ Purpose(l[i]) \in Int
             /\ l[i].q.relevance \in Int /\ Tie(s, l[i].q) \in Int
  <2>1. PICK c : c = l[i]
    OBVIOUS
  <2>2. c.q \in Questions
    BY <1>4, <2>1
  <2>3. /\ c.q.n \in Nat /\ c.q.level \in Int /\ c.q.purpose \in Int /\ c.q.relevance \in Int
        /\ Salt[s][c.q.n] \in Nat
    BY <2>2, QuestionsAssumption, SaltAssumption
  <2>4. Distance(c.q, level) \in Int
    BY <2>3 DEF Distance
  <2>5. Purpose(c) \in Int
    BY <2>3 DEF Purpose
  <2>6. Tie(s, c.q) \in Int
    BY <2>3 DEF Tie
  <2> QED BY <2>1, <2>3, <2>4, <2>5, <2>6
<1>6. PICK away, purpose, relevance, tie :
         /\ away = [i \in 1..n |-> Distance(l[i].q, level)]
         /\ purpose = [i \in 1..n |-> Purpose(l[i])]
         /\ relevance = [i \in 1..n |-> l[i].q.relevance]
         /\ tie = [i \in 1..n |-> Tie(s, l[i].q)]
  OBVIOUS
<1>7. away \in Numbers(n) /\ purpose \in Numbers(n) /\ relevance \in Numbers(n) /\ tie \in Numbers(n)
  BY <1>5, <1>6 DEF Numbers
<1>8. SumOf(away) \in Int /\ SumOf(purpose) \in Int /\ SumOf(relevance) \in Int /\ SumOf(tie) \in Int
  BY <1>7, SumTyped
<1>9. Average(S, LAMBDA c : Distance(c.q, level)) = (60 * SumOf(away)) \div n
  BY <1>1, <1>2, <1>3, <1>6 DEF Average, SumOver
<1>10. Average(S, Purpose) = (60 * SumOf(purpose)) \div n
  BY <1>1, <1>2, <1>3, <1>6 DEF Average, SumOver
<1>11. SumOver(S, LAMBDA c : c.q.relevance) = SumOf(relevance)
  BY <1>1, <1>2, <1>3, <1>6 DEF SumOver
<1>12. SumOver(S, LAMBDA c : Tie(s, c.q)) = SumOf(tie)
  BY <1>1, <1>2, <1>3, <1>6 DEF SumOver
<1>13. \A x \in Int : (60 * x) \div n \in Int
  BY <1>3
<1>14. PICK far \in Int : far = IF \E c \in S : c.q.far THEN 1 ELSE 0
  OBVIOUS
<1>15. PICK spare \in Int : spare = t.envelope - Cost(Asks(S))
  BY DEF Judged
<1>16. SubsetObjective(s, t, level, S)
          = <<far, (60 * SumOf(away)) \div n, (60 * SumOf(purpose)) \div n, -SumOf(relevance),
              spare, SumOf(tie)>>
  BY <1>9, <1>10, <1>11, <1>12, <1>14, <1>15 DEF SubsetObjective
<1>18. -SumOf(relevance) \in Int
  BY <1>8
<1>19. (60 * SumOf(away)) \div n \in Int /\ (60 * SumOf(purpose)) \div n \in Int
  BY <1>8, <1>13
<1>20. PICK b \in Int, d \in Int, e \in Int, g \in Int :
          /\ b = (60 * SumOf(away)) \div n /\ d = (60 * SumOf(purpose)) \div n
          /\ e = -SumOf(relevance) /\ g = SumOf(tie)
  BY <1>8, <1>18, <1>19
<1>21. SubsetObjective(s, t, level, S) = <<far, b, d, e, spare, g>>
  BY <1>16, <1>20, Zenon
<1>22. <<far, b, d, e, spare, g>> \in [1..6 -> Int]
  OBVIOUS
<1> QED BY <1>21, <1>22 DEF Numbers

LEMMA RankOnlyIsRung ==
    ASSUME NEW s \in Sessions, NEW level \in Int, NEW C, OneEach(C), IsFiniteSet(C)
    PROVE  Rung(RankOnly(s, C, level)) /\ ToSet(RankOnly(s, C, level)) = C
<1> DEFINE key == [c \in C |-> CandidateRank(s, c, level, 0)]
           first == [T \in SUBSET C |->
                        CHOOSE x \in T : \A y \in T \ {x} :
                           ~ FirstBefore(CandidateRank(s, y, level, 0),
                                         CandidateRank(s, x, level, 0))]
<1>1. RankOnly(s, C, level) = Listed(C, first)
  BY DEF RankOnly, InOrderOf
<1>2. ASSUME NEW c \in C PROVE CandidateRank(s, c, level, 0) \in RankNumbers
  BY RankTyped DEF OneEach
<1>3. key \in [C -> Numbers(6)]
  BY <1>2 DEF RankNumbers
<1>4. \A c \in C : key[c] = CandidateRank(s, c, level, 0)
  OBVIOUS
<1> HIDE DEF key
<1>5. ASSUME NEW T \in SUBSET C, \E x \in T : IsBest(T, key, x)
      PROVE  IsBest(T, key, first[T])
  <2>1. \A x \in T : IsBest(T, key, x) <=>
           \A y \in T \ {x} : ~ FirstBefore(CandidateRank(s, y, level, 0),
                                            CandidateRank(s, x, level, 0))
    BY <1>4 DEF IsBest
  <2>2. first[T] = CHOOSE x \in T : \A y \in T \ {x} :
                           ~ FirstBefore(CandidateRank(s, y, level, 0),
                                         CandidateRank(s, x, level, 0))
    OBVIOUS
  <2> HIDE DEF first
  <2>3. first[T] \in T /\ \A y \in T \ {first[T]} :
           ~ FirstBefore(CandidateRank(s, y, level, 0), CandidateRank(s, first[T], level, 0))
    BY <1>5, <2>1, <2>2, Zenon
  <2> QED BY <2>1, <2>3
<1> HIDE DEF first
<1>6. Listing(Listed(C, first), C)
  BY <1>3, <1>5, KeyedLists
<1>7. PICK l : l = RankOnly(s, C, level)
  OBVIOUS
<1>8. Listing(l, C) /\ ToSet(l) = C
  BY <1>1, <1>6, <1>7, ListingFacts
<1>9. Rung(l)
  BY <1>8 DEF Rung
<1> QED BY <1>7, <1>8, <1>9

LEMMA BestFirstLists ==
    ASSUME NEW s \in Sessions, NEW t, NEW level \in Int, NEW SS, IsFiniteSet(SS),
           \A A \in SS : Judged(t, A)
    PROVE  Listing(BestFirst(s, t, level, SS), SS)
<1> DEFINE key == [A \in SS |-> SubsetObjective(s, t, level, A)]
           first == [T \in SUBSET SS |->
                        CHOOSE x \in T : \A y \in T \ {x} :
                           ~ FirstBefore(SubsetObjective(s, t, level, y),
                                         SubsetObjective(s, t, level, x))]
<1>1. BestFirst(s, t, level, SS) = Listed(SS, first)
  BY DEF BestFirst, InOrderOf
<1>2. ASSUME NEW A \in SS PROVE SubsetObjective(s, t, level, A) \in Numbers(6)
  BY ObjectiveTyped
<1>3. key \in [SS -> Numbers(6)]
  BY <1>2
<1>4. \A A \in SS : key[A] = SubsetObjective(s, t, level, A)
  OBVIOUS
<1> HIDE DEF key
<1>5. ASSUME NEW T \in SUBSET SS, \E x \in T : IsBest(T, key, x)
      PROVE  IsBest(T, key, first[T])
  <2>1. \A x \in T : IsBest(T, key, x) <=>
           \A y \in T \ {x} : ~ FirstBefore(SubsetObjective(s, t, level, y),
                                            SubsetObjective(s, t, level, x))
    BY <1>4 DEF IsBest
  <2>2. first[T] = CHOOSE x \in T : \A y \in T \ {x} :
                           ~ FirstBefore(SubsetObjective(s, t, level, y),
                                         SubsetObjective(s, t, level, x))
    OBVIOUS
  <2> HIDE DEF first
  <2>3. first[T] \in T /\ \A y \in T \ {first[T]} :
           ~ FirstBefore(SubsetObjective(s, t, level, y), SubsetObjective(s, t, level, first[T]))
    BY <1>5, <2>1, <2>2, Zenon
  <2> QED BY <2>1, <2>3
<1> HIDE DEF first
<1>6. Listing(Listed(SS, first), SS)
  BY <1>3, <1>5, KeyedLists
<1> QED BY <1>1, <1>6

(* A target with an envelope for its questions.                             *)
IsEnvelope(t) == IsTarget(t) /\ t.floor \in Nat /\ t.envelope \in Int /\ t.most \in Nat

Feasible(s, t, S) ==
    /\ OneEach(S) /\ IsFiniteSet(S) /\ Cardinality(S) \in 1..t.most
    /\ Cost(Asks(S)) \in t.floor..t.envelope
    /\ \A c \in S : CanAsk(s, c.q)

LEMMA FeasibleIsJudged ==
    ASSUME NEW s, NEW t, IsEnvelope(t), NEW S, Feasible(s, t, S)
    PROVE  Judged(t, S)
<1>1. t.floor \in Int /\ t.envelope \in Int /\ t.most \in Int
  BY DEF IsEnvelope
<1>2. OneEach(S) /\ IsFiniteSet(S) /\ Cardinality(S) \in 1..t.most
      /\ Cost(Asks(S)) \in t.floor..t.envelope
  BY DEF Feasible
<1>3. PICK n, c : n = Cardinality(S) /\ c = Cost(Asks(S))
  OBVIOUS
<1>4. n \in 1..t.most /\ c \in t.floor..t.envelope
  BY <1>2, <1>3
<1>5. n \in Nat \ {0} /\ c \in Int
  BY <1>1, <1>4
<1> QED BY <1>1, <1>2, <1>3, <1>5 DEF Judged

LEMMA SubsetsAreFeasible ==
    ASSUME NEW s \in Sessions, NEW level \in Int, NEW t, IsEnvelope(t), NEW cs, Rung(cs),
           \A c \in ToSet(cs) : CanAsk(s, c.q)
    PROVE  /\ IsFiniteSet(FeasibleSubsets(s, cs, t, level))
           /\ \A S \in FeasibleSubsets(s, cs, t, level) : Feasible(s, t, S)
<1> DEFINE fitting == {c \in ToSet(cs) : c.q.coding <=> t.arch = "CODING"}
           pool    == ToSet(FirstOf(RankOnly(s, fitting, level), SubsetPool))
<1>1. FeasibleSubsets(s, cs, t, level)
         = {S \in SUBSET pool : Cardinality(S) \in 1..t.most /\ Cost(Asks(S)) \in t.floor..t.envelope}
  BY DEF FeasibleSubsets
<1>2. IsFiniteSet(ToSet(cs)) /\ OneEach(ToSet(cs))
  BY DEF Rung, Listing
<1>3. fitting \subseteq ToSet(cs)
  OBVIOUS
<1> HIDE DEF fitting
<1>4. IsFiniteSet(fitting) /\ OneEach(fitting)
  BY <1>2, <1>3, FS_Subset DEF OneEach
<1>5. PICK l : l = RankOnly(s, fitting, level)
  OBVIOUS
<1>6. Rung(l) /\ ToSet(l) = fitting
  BY <1>4, <1>5, RankOnlyIsRung
<1>7. SubsetPool \in Nat
  BY DEF SubsetPool
<1>8. pool \subseteq fitting
  BY <1>5, <1>6, <1>7, FirstOfRung
<1> HIDE DEF pool
<1>9. IsFiniteSet(pool) /\ OneEach(pool) /\ \A c \in pool : CanAsk(s, c.q)
  BY <1>3, <1>4, <1>8, FS_Subset DEF OneEach
<1>10. IsFiniteSet(SUBSET pool)
  BY <1>9, FS_SUBSET
<1>11. FeasibleSubsets(s, cs, t, level) \in SUBSET SUBSET pool
  BY <1>1
<1>12. IsFiniteSet(FeasibleSubsets(s, cs, t, level))
  BY <1>10, <1>11, FS_Subset
<1>13. ASSUME NEW S \in FeasibleSubsets(s, cs, t, level) PROVE Feasible(s, t, S)
  <2>1. S \subseteq pool /\ Cardinality(S) \in 1..t.most /\ Cost(Asks(S)) \in t.floor..t.envelope
    BY <1>1
  <2>2. IsFiniteSet(S) /\ OneEach(S) /\ \A c \in S : CanAsk(s, c.q)
    BY <1>9, <2>1, FS_Subset DEF OneEach
  <2> QED BY <2>1, <2>2 DEF Feasible
<1> QED BY <1>12, <1>13

(* What a target can choose from.                                           *)
IsDomain(s, t, D) ==
    /\ Listing(D, ToSet(D))
    /\ \A S \in ToSet(D) : Feasible(s, t, S)

LEMMA DomainIsFeasible ==
    ASSUME Kept, NEW s \in Sessions, NEW level \in Int, NEW t, IsEnvelope(t)
    PROVE  IsDomain(s, t, Domain(s, t, level))
<1> DEFINE exact == Candidates(s, t, level)
           wide  == exact \o Without(Fallback(s, t, level), QuestionsOf(exact))
           own   == FeasibleSubsets(s, exact, t, level)
           more  == FeasibleSubsets(s, wide, t, level)
<1>1. Domain(s, t, level) = BestFirst(s, t, level, IF own # {} THEN own ELSE more)
  BY DEF Domain
<1>2. IsTarget(t)
  BY DEF IsEnvelope
<1>3. Rung(exact) /\ QuestionsOf(exact) = Exact(t, session[s].voice)
  BY <1>2, CandidatesFound
<1>4. \A q \in Exact(t, session[s].voice) : CanAsk(s, q)
  BY DEF Exact, OnRole, OnSkill, Askable, CanAsk
<1> HIDE DEF exact
<1>5. \A c \in ToSet(exact) : CanAsk(s, c.q)
  <2>1. QuestionsOf(exact) = Asks(ToSet(exact))
    BY <1>3, AskedByRung
  <2> QED BY <1>3, <1>4, <2>1 DEF Asks
<1>6. PICK back : back = Fallback(s, t, level)
  OBVIOUS
<1>7. Rung(back) /\ \A c \in ToSet(back) : CanAsk(s, c.q)
  BY <1>2, <1>6, FallbackStands DEF Stand
<1>8. PICK rest : rest = Without(back, QuestionsOf(exact))
  OBVIOUS
<1>9. /\ Rung(rest) /\ QuestionsOf(rest) \cap QuestionsOf(exact) = {}
      /\ ToSet(rest) \subseteq ToSet(back)
  BY <1>7, <1>8, WithoutIsRung
<1>10. wide = exact \o rest
  BY <1>6, <1>8
<1> HIDE DEF wide
<1>11. Rung(wide) /\ ToSet(wide) = ToSet(exact) \cup ToSet(rest)
  BY <1>3, <1>9, <1>10, JoinRungs
<1>12. \A c \in ToSet(wide) : CanAsk(s, c.q)
  BY <1>5, <1>7, <1>9, <1>11
<1>13. IsFiniteSet(own) /\ \A S \in own : Feasible(s, t, S)
  BY <1>3, <1>5, SubsetsAreFeasible
<1>14. IsFiniteSet(more) /\ \A S \in more : Feasible(s, t, S)
  BY <1>11, <1>12, SubsetsAreFeasible
<1> HIDE DEF own, more
<1>15. PICK SS : SS = IF own # {} THEN own ELSE more
  OBVIOUS
<1>16. IsFiniteSet(SS) /\ \A S \in SS : Feasible(s, t, S)
  BY <1>13, <1>14, <1>15
<1>17. \A S \in SS : Judged(t, S)
  BY <1>16, FeasibleIsJudged
<1>18. Listing(BestFirst(s, t, level, SS), SS)
  BY <1>16, <1>17, BestFirstLists
<1>19. PICK D : D = Domain(s, t, level)
  OBVIOUS
<1>20. Listing(D, SS)
  BY <1>1, <1>15, <1>18, <1>19
<1>21. ToSet(D) = SS
  BY <1>20, ListingFacts
<1> QED BY <1>16, <1>19, <1>20, <1>21 DEF IsDomain

-----------------------------------------------------------------------------
(* One choice for every target.                                             *)

IsDomains(n, domains) ==
    /\ DOMAIN domains = 1..n /\ Len(domains) = n
    /\ \A i \in 1..n : \E k \in Nat : DOMAIN domains[i] = 1..k

UsedBy(domains, a) == UNION {Asks(domains[i][a[i]]) : i \in DOMAIN a}

Assign(domains, i, A) ==
    UNION {{Append(a, k) : k \in {x \in DOMAIN domains[i] :
                                      Asks(domains[i][x]) \cap UsedBy(domains, a) = {}}} : a \in A}

IsAssign(domains, choices) ==
    choices = [i \in 0..Len(domains) |->
                  IF i = 0 THEN {<<>>} ELSE Assign(domains, i, choices[i - 1])]

AssignRun(n, domains, choices) ==
    /\ Assignments(domains) = choices[n] /\ choices[0] = {<<>>}
    /\ \A i \in 1..n : choices[i] = Assign(domains, i, choices[i - 1])

LEMMA AssignSteps ==
    ASSUME NEW n \in Nat, NEW domains, IsDomains(n, domains)
    PROVE  \E choices : AssignRun(n, domains, choices)
<1> DEFINE X == SUBSET Seq(Nat)
           start == {<<>>}
           step == [p \in (1..n) \X X |-> Assign(domains, p[1], p[2])]
<1>1. ASSUME NEW i \in 1..n, NEW A \in X PROVE Assign(domains, i, A) \in X
  <2>1. DOMAIN domains[i] \subseteq Nat
    <3>1. PICK k \in Nat : DOMAIN domains[i] = 1..k
      BY DEF IsDomains
    <3> QED BY <3>1
  <2>2. \A a \in A, k \in DOMAIN domains[i] : Append(a, k) \in Seq(Nat)
    BY <2>1
  <2> QED BY <2>2, SMTT(30) DEF Assign
<1>2. start \in X
  OBVIOUS
<1>3. /\ step = [p \in (1..n) \X X |-> step[p]]
      /\ \A p \in (1..n) \X X : step[p] = Assign(domains, p[1], p[2])
  OBVIOUS
<1> HIDE DEF X, step, start
<1>4. step \in [(1..n) \X X -> X]
  <2>1. ASSUME NEW p \in (1..n) \X X PROVE step[p] \in X
    <3>1. p[1] \in 1..n /\ p[2] \in X
      OBVIOUS
    <3> QED BY <1>1, <1>3, <3>1
  <2> QED BY <1>3, <2>1
<1>5. PICK it \in [0..n -> X] : Loop(n, start, step, it)
  BY <1>2, <1>4, LoopTyped
<1>6. IsAssign(domains, it)
  <2>1. ASSUME NEW i \in 0..n
        PROVE  (IF i = 0 THEN start ELSE step[<<i, it[i - 1]>>])
               = IF i = 0 THEN start ELSE Assign(domains, i, it[i - 1])
    <3>1. i # 0 => <<i, it[i - 1]>> \in (1..n) \X X
      OBVIOUS
    <3>2. <<i, it[i - 1]>>[1] = i /\ <<i, it[i - 1]>>[2] = it[i - 1]
      OBVIOUS
    <3> QED BY <1>3, <3>1, <3>2
  <2>2. it = [i \in 0..n |-> IF i = 0 THEN start ELSE step[<<i, it[i - 1]>>]]
    BY <1>5 DEF Loop
  <2>3. it = [i \in 0..n |-> IF i = 0 THEN start ELSE Assign(domains, i, it[i - 1])]
    BY <2>1, <2>2
  <2>4. Len(domains) = n
    BY DEF IsDomains
  <2> QED BY <2>3, <2>4 DEF IsAssign, start
<1> DEFINE choices == CHOOSE choices : IsAssign(domains, choices)
<1>7. IsAssign(domains, choices)
  BY <1>6, Zenon
<1>8. Assignments(domains) = choices[Len(domains)]
  BY DEF Assignments, IsAssign, Assign, UsedBy
<1> HIDE DEF choices
<1>9. /\ choices[0] = start
      /\ \A i \in 1..n : choices[i] = Assign(domains, i, choices[i - 1])
  <2>1. choices = [i \in 0..n |-> IF i = 0 THEN start ELSE Assign(domains, i, choices[i - 1])]
    BY <1>7 DEF IsAssign, start, IsDomains
  <2>2. \A i \in 0..n : choices[i] = IF i = 0 THEN start ELSE Assign(domains, i, choices[i - 1])
    BY <2>1
  <2>3. 0 \in 0..n /\ \A i \in 1..n : i \in 0..n /\ i # 0
    OBVIOUS
  <2> QED BY <2>2, <2>3
<1>10. Len(domains) = n
  BY DEF IsDomains
<1> QED BY <1>8, <1>9, <1>10 DEF AssignRun, start

(* No two targets choose the same question.                                 *)
Chosen(domains, i, a) ==
    /\ Len(a) = i /\ a \in Seq(Nat)
    /\ \A j \in 1..i : a[j] \in DOMAIN domains[j]
    /\ \A j, h \in 1..i : j # h => Asks(domains[j][a[j]]) \cap Asks(domains[h][a[h]]) = {}

LEMMA AssignsNext ==
    ASSUME NEW n \in Nat, NEW domains, IsDomains(n, domains), NEW i \in 1..n, NEW A,
           IsFiniteSet(A), \A a \in A : Chosen(domains, i - 1, a)
    PROVE  /\ IsFiniteSet(Assign(domains, i, A))
           /\ \A b \in Assign(domains, i, A) : Chosen(domains, i, b)
<1>1. PICK m \in Nat : DOMAIN domains[i] = 1..m
  BY DEF IsDomains
<1> DEFINE Free(a) == {x \in DOMAIN domains[i] : Asks(domains[i][x]) \cap UsedBy(domains, a) = {}}
           With(a) == {Append(a, k) : k \in Free(a)}
<1>2. ASSUME NEW a \in A PROVE IsFiniteSet(With(a))
  <2>1. 1 \in Int /\ m \in Int
    OBVIOUS
  <2>2. IsFiniteSet(1..m)
    BY <2>1, FS_Interval, Zenon
  <2>3. Free(a) \in SUBSET (1..m)
    BY <1>1
  <2>4. IsFiniteSet(Free(a))
    BY <2>2, <2>3, FS_Subset
  <2>5. PICK K : K = Free(a)
    OBVIOUS
  <2>6. PICK f : f = [k \in K |-> Append(a, k)]
    OBVIOUS
  <2>7. With(a) = {f[k] : k \in K}
    BY <2>5, <2>6
  <2> HIDE DEF With, Free
  <2>8. IsFiniteSet({f[k] : k \in K})
    BY <2>4, <2>5, ImageIsFinite
  <2> QED BY <2>7, <2>8
<1>3. Assign(domains, i, A) = UNION {With(a) : a \in A}
  BY DEF Assign
<1>4. IsFiniteSet(Assign(domains, i, A))
  <2> HIDE DEF With
  <2>1. PICK g : g = [a \in A |-> With(a)]
    OBVIOUS
  <2>2. {With(a) : a \in A} = {g[a] : a \in A}
    BY <2>1
  <2>3. PICK G : G = {g[a] : a \in A}
    OBVIOUS
  <2>4. IsFiniteSet(G)
    BY <2>3, ImageIsFinite
  <2>5. \A T \in G : IsFiniteSet(T)
    BY <1>2, <2>1, <2>3
  <2>6. IsFiniteSet(UNION G)
    BY <2>4, <2>5, FS_UNION
  <2> QED BY <1>3, <2>2, <2>3, <2>6
<1>5. ASSUME NEW b \in Assign(domains, i, A) PROVE Chosen(domains, i, b)
  <2>0. PICK a \in A : b \in With(a)
    BY <1>3
  <2>1. PICK k \in Free(a) : b = Append(a, k)
    BY <2>0
  <2>2. Len(a) = i - 1 /\ a \in Seq(Nat) /\ Chosen(domains, i - 1, a)
    BY DEF Chosen
  <2>3. k \in DOMAIN domains[i] /\ k \in Nat /\ Asks(domains[i][k]) \cap UsedBy(domains, a) = {}
    BY <1>1
  <2> HIDE DEF Free, With
  <2>4. /\ b \in Seq(Nat) /\ Len(b) = i /\ b[i] = k
        /\ \A j \in 1..(i - 1) : b[j] = a[j]
    BY <2>1, <2>2, <2>3, AppendProperties
  <2>5. \A j \in 1..i : j = i \/ j \in 1..(i - 1)
    OBVIOUS
  <2>6. /\ \A j \in 1..(i - 1) : a[j] \in DOMAIN domains[j]
        /\ \A j, h \in 1..(i - 1) :
              j # h => Asks(domains[j][a[j]]) \cap Asks(domains[h][a[h]]) = {}
    BY <2>2 DEF Chosen
  <2>7. \A j \in 1..i : b[j] \in DOMAIN domains[j]
    BY <2>3, <2>4, <2>5, <2>6
  <2>8. \A j \in 1..(i - 1) : Asks(domains[j][a[j]]) \subseteq UsedBy(domains, a)
    <3>1. DOMAIN a = 1..(i - 1)
      BY <2>2
    <3> QED BY <3>1 DEF UsedBy
  <2>9. \A j \in 1..(i - 1) : Asks(domains[j][b[j]]) \cap Asks(domains[i][b[i]]) = {}
    BY <2>3, <2>4, <2>8
  <2>10. ASSUME NEW j \in 1..i, NEW h \in 1..i, j # h
         PROVE  Asks(domains[j][b[j]]) \cap Asks(domains[h][b[h]]) = {}
    <3>1. CASE j = i
      <4>1. h \in 1..(i - 1)
        BY <2>5, <2>10, <3>1
      <4> QED BY <2>9, <3>1, <4>1
    <3>2. CASE h = i
      <4>1. j \in 1..(i - 1)
        BY <2>5, <2>10, <3>2
      <4> QED BY <2>9, <3>2, <4>1
    <3>3. CASE j # i /\ h # i
      <4>1. j \in 1..(i - 1) /\ h \in 1..(i - 1)
        BY <2>5, <3>3
      <4> QED BY <2>4, <2>6, <2>10, <4>1
    <3> QED BY <3>1, <3>2, <3>3
  <2> QED BY <2>4, <2>7, <2>10 DEF Chosen
<1> QED BY <1>4, <1>5

LEMMA AssignmentsChosen ==
    ASSUME NEW n \in Nat, NEW domains, IsDomains(n, domains)
    PROVE  /\ IsFiniteSet(Assignments(domains))
           /\ \A a \in Assignments(domains) : Chosen(domains, n, a)
<1>1. PICK choices : AssignRun(n, domains, choices)
  BY AssignSteps
<1>2. /\ Assignments(domains) = choices[n] /\ choices[0] = {<<>>}
      /\ \A i \in 1..n : choices[i] = Assign(domains, i, choices[i - 1])
  BY <1>1 DEF AssignRun
<1> DEFINE Ok == {i \in 0..n : IsFiniteSet(choices[i]) /\ \A a \in choices[i] : Chosen(domains, i, a)}
<1>3. 0 \in Ok
  <2>1. IsFiniteSet({<<>>})
    BY FS_Singleton
  <2>2. Chosen(domains, 0, <<>>)
    BY DEF Chosen
  <2>3. IsFiniteSet(choices[0]) /\ \A a \in choices[0] : Chosen(domains, 0, a)
    BY <1>2, <2>1, <2>2
  <2> QED BY <2>3
<1>4. ASSUME NEW i \in 1..n, i - 1 \in Ok PROVE i \in Ok
  <2>1. PICK A : A = choices[i - 1]
    OBVIOUS
  <2>2. IsFiniteSet(A) /\ \A a \in A : Chosen(domains, i - 1, a)
    BY <1>4, <2>1
  <2>3. /\ IsFiniteSet(Assign(domains, i, A))
        /\ \A b \in Assign(domains, i, A) : Chosen(domains, i, b)
    BY <2>2, AssignsNext
  <2>4. choices[i] = Assign(domains, i, A) /\ i \in 0..n
    BY <1>2, <2>1
  <2> QED BY <2>3, <2>4
<1> HIDE DEF Ok
<1>5. \A i \in 0..n : i \in Ok
  BY <1>3, <1>4, UpTo
<1>6. n \in Ok
  BY <1>5
<1> QED BY <1>2, <1>6 DEF Ok

LEMMA GlobalChosen ==
    ASSUME NEW n \in Nat, NEW domains, IsDomains(n, domains), Assignments(domains) # {}
    PROVE  Chosen(domains, n, GlobalAssignment(domains))
<1>1. PICK A : A = Assignments(domains)
  OBVIOUS
<1>2. IsFiniteSet(A) /\ A # {} /\ \A a \in A : Chosen(domains, n, a)
  BY <1>1, AssignmentsChosen
<1>3. ASSUME NEW a \in A PROVE a \in Numbers(n)
  <2>1. Len(a) = n /\ a \in Seq(Nat)
    BY <1>2 DEF Chosen
  <2>2. a \in [1..n -> Nat]
    BY <2>1
  <2> QED BY <2>2 DEF Numbers
<1>4. PICK key : key = [a \in A |-> a]
  OBVIOUS
<1>5. key \in [A -> Numbers(n)]
  BY <1>3, <1>4
<1>6. PICK before : before = Keyed(A, key)
  OBVIOUS
<1>7. /\ IsStrict(A, before)
      /\ \A x, y \in A : <<x, y>> \in before <=> FirstBefore(x, y)
  <2>1. /\ IsStrict(A, Keyed(A, key))
        /\ \A x, y \in A : <<x, y>> \in Keyed(A, key) <=> FirstBefore(key[x], key[y])
    BY <1>5, KeyedIsStrict
  <2> QED BY <1>4, <1>6, <2>1
<1>8. PICK a \in A : \A b \in A \ {a} : <<b, a>> \notin before
  BY <1>2, <1>7, LeastOf DEF IsStrict
<1>9. \A b \in A : ~ FirstBefore(b, a)
  BY <1>7, <1>8 DEF IsStrict
<1>10. GlobalAssignment(domains) = CHOOSE x \in A : \A b \in A : ~ FirstBefore(b, x)
  BY <1>1 DEF GlobalAssignment
<1>11. GlobalAssignment(domains) \in A
  BY <1>9, <1>10, Zenon
<1> QED BY <1>2, <1>11

-----------------------------------------------------------------------------
(* The turns of an agenda of envelopes.                                     *)

FreezeStep(s, level, t, S, before) == before \o TurnsOf(t, RankOnly(s, S, level))

IsFreeze(s, level, covered, domains, choice, freeze) ==
    freeze = [i \in 0..Len(covered) |->
                 IF i = 0 THEN <<>>
                 ELSE FreezeStep(s, level, covered[i], domains[i][choice[i]], freeze[i - 1])]

(* What every covered target chose.                                         *)
Decided(s, k, covered, domains, choice) ==
    /\ IsAgenda(covered) /\ Len(covered) = k
    /\ \A i \in 1..k : Feasible(s, covered[i], domains[i][choice[i]])
    /\ \A i, j \in 1..k :
          i # j => Asks(domains[i][choice[i]]) \cap Asks(domains[j][choice[j]]) = {}

FreezeRun(s, k, level, covered, domains, choice, freeze) ==
    /\ freeze[0] = <<>>
    /\ \A i \in 1..k : freeze[i] = FreezeStep(s, level, covered[i], domains[i][choice[i]], freeze[i - 1])

LEMMA RankedTurns ==
    ASSUME NEW s \in Sessions, NEW level \in Int, NEW t, NEW S, Feasible(s, t, S), NEW got,
           got = RankOnly(s, S, level)
    PROVE  Rung(got) /\ ToSet(got) = S /\ QuestionsOf(got) = Asks(S)
<1>1. Rung(got) /\ ToSet(got) = S
  BY RankOnlyIsRung DEF Feasible
<1> QED BY <1>1, AskedByRung

LEMMA FreezeSteps ==
    ASSUME NEW s \in Sessions, NEW level \in Int, NEW k \in Nat, NEW covered, NEW domains, NEW choice,
           Decided(s, k, covered, domains, choice)
    PROVE  \E freeze : IsFreeze(s, level, covered, domains, choice, freeze)
<1> DEFINE K == [concept : DOMAIN Area, question : Questions, gap : {covered[j].gap : j \in 1..k}]
           X == Seq(K)
           start == <<>>
           step == [p \in (1..k) \X X |->
                       FreezeStep(s, level, covered[p[1]], domains[p[1]][choice[p[1]]], p[2])]
<1>0. IsAgenda(covered) /\ Len(covered) = k
  BY DEF Decided
<1>1. ASSUME NEW i \in 1..k, NEW x \in X
      PROVE  FreezeStep(s, level, covered[i], domains[i][choice[i]], x) \in X
  <2>1. IsTarget(covered[i])
    BY <1>0, AgendaTargets
  <2>2. PICK S : S = domains[i][choice[i]]
    OBVIOUS
  <2>3. PICK got : got = RankOnly(s, S, level)
    OBVIOUS
  <2>4. Feasible(s, covered[i], S)
    BY <2>2 DEF Decided
  <2>5. Rung(got)
    BY <2>3, <2>4, RankedTurns
  <2>6. PICK m \in Nat : m = Cardinality(ToSet(got)) /\ DOMAIN got = 1..m
    BY <2>5, RungFacts
  <2>7. \A j \in 1..m : got[j].q \in Questions
    BY <2>5, <2>6 DEF ToSet, Rung, OneEach
  <2>8. TurnsOf(covered[i], got) \in Seq(K)
    <3>1. ASSUME NEW j \in 1..m PROVE Turn(covered[i], got[j]) \in K
      BY <2>1, <2>7 DEF Turn, IsTarget
    <3>2. TurnsOf(covered[i], got) = [j \in 1..m |-> Turn(covered[i], got[j])]
      BY <2>6 DEF TurnsOf
    <3> HIDE DEF K
    <3>3. TurnsOf(covered[i], got) \in [1..m -> K]
      BY <3>1, <3>2
    <3> QED BY <3>3
  <2>9. x \in Seq(K)
    OBVIOUS
  <2> HIDE DEF K
  <2>10. x \o TurnsOf(covered[i], got) \in Seq(K)
    BY <2>8, <2>9, ConcatProperties
  <2> QED BY <2>2, <2>3, <2>10 DEF FreezeStep
<1>2. start \in X
  OBVIOUS
<1>3. /\ step = [p \in (1..k) \X X |-> step[p]]
      /\ \A p \in (1..k) \X X :
            step[p] = FreezeStep(s, level, covered[p[1]], domains[p[1]][choice[p[1]]], p[2])
  OBVIOUS
<1> HIDE DEF X, step, start
<1>4. step \in [(1..k) \X X -> X]
  <2>1. ASSUME NEW p \in (1..k) \X X PROVE step[p] \in X
    <3>1. p[1] \in 1..k /\ p[2] \in X
      OBVIOUS
    <3> QED BY <1>1, <1>3, <3>1
  <2> QED BY <1>3, <2>1
<1>5. PICK it \in [0..k -> X] : Loop(k, start, step, it)
  BY <1>2, <1>4, LoopTyped
<1>6. ASSUME NEW i \in 0..k
      PROVE  (IF i = 0 THEN start ELSE step[<<i, it[i - 1]>>])
             = IF i = 0 THEN start
               ELSE FreezeStep(s, level, covered[i], domains[i][choice[i]], it[i - 1])
  <2>1. i # 0 => <<i, it[i - 1]>> \in (1..k) \X X
    OBVIOUS
  <2>2. <<i, it[i - 1]>>[1] = i /\ <<i, it[i - 1]>>[2] = it[i - 1]
    OBVIOUS
  <2> QED BY <1>3, <2>1, <2>2
<1>7. it = [i \in 0..k |-> IF i = 0 THEN start ELSE step[<<i, it[i - 1]>>]]
  BY <1>5 DEF Loop
<1>8. it = [i \in 0..k |->
               IF i = 0 THEN start
               ELSE FreezeStep(s, level, covered[i], domains[i][choice[i]], it[i - 1])]
  BY <1>6, <1>7
<1> QED BY <1>0, <1>8 DEF IsFreeze, start

LEMMA FreezeRuns ==
    ASSUME NEW s, NEW level, NEW k \in Nat, NEW covered, NEW domains, NEW choice, NEW freeze,
           Len(covered) = k, IsFreeze(s, level, covered, domains, choice, freeze)
    PROVE  FreezeRun(s, k, level, covered, domains, choice, freeze)
<1>1. freeze = [i \in 0..k |->
                  IF i = 0 THEN <<>>
                  ELSE FreezeStep(s, level, covered[i], domains[i][choice[i]], freeze[i - 1])]
  BY DEF IsFreeze
<1>2. \A i \in 0..k : freeze[i] =
         IF i = 0 THEN <<>>
         ELSE FreezeStep(s, level, covered[i], domains[i][choice[i]], freeze[i - 1])
  BY <1>1
<1>3. 0 \in 0..k /\ \A i \in 1..k : i \in 0..k /\ i # 0
  OBVIOUS
<1> QED BY <1>2, <1>3 DEF FreezeRun

AskedBy(k, domains, choice) == [i \in 1..k |-> Asks(domains[i][choice[i]])]

LEMMA FreezeBlocks ==
    ASSUME NEW s \in Sessions, NEW level \in Int, NEW k \in Nat, NEW covered, NEW domains, NEW choice,
           Decided(s, k, covered, domains, choice), NEW freeze,
           FreezeRun(s, k, level, covered, domains, choice, freeze)
    PROVE  Blocks(covered, k, freeze[k], AskedBy(k, domains, choice))
<1>1. PICK Q : Q = AskedBy(k, domains, choice)
  OBVIOUS
<1>2. IsAgenda(covered) /\ Len(covered) = k
  BY DEF Decided
<1>3. \A i \in 1..k : Q[i] = Asks(domains[i][choice[i]])
  BY <1>1 DEF AskedBy
<1>4. \A i, j \in 1..k : i # j => Q[i] \cap Q[j] = {}
  BY <1>3 DEF Decided
<1> DEFINE Ok == {i \in 0..k : Blocks(covered, i, freeze[i], Q)}
<1>5. 0 \in Ok
  <2>1. freeze[0] = <<>>
    BY DEF FreezeRun
  <2> QED BY <2>1, NoBlocks
<1>6. ASSUME NEW i \in 1..k, i - 1 \in Ok PROVE i \in Ok
  <2>1. PICK F : F = freeze[i - 1]
    OBVIOUS
  <2>2. Blocks(covered, i - 1, F, Q)
    BY <1>6, <2>1
  <2>3. PICK S : S = domains[i][choice[i]]
    OBVIOUS
  <2>4. PICK got : got = RankOnly(s, S, level)
    OBVIOUS
  <2>5. Feasible(s, covered[i], S)
    BY <2>3 DEF Decided
  <2>6. Rung(got) /\ QuestionsOf(got) = Q[i]
    BY <1>3, <2>3, <2>4, <2>5, RankedTurns
  <2>7. \A j \in 1..(i - 1) : j \in 1..k /\ j # i
    OBVIOUS
  <2>8. QuestionsOf(got) \cap QuestionsIn(F) = {}
    <3> SUFFICES ASSUME NEW q \in QuestionsIn(F) PROVE q \notin Q[i]
      BY <2>6
    <3>1. PICK x \in DOMAIN F : q = F[x].question
      BY DEF QuestionsIn
    <3>2. PICK j \in 1..(i - 1) : q \in Q[j]
      BY <2>2, <3>1 DEF Blocks
    <3> QED BY <1>4, <2>7, <3>2
  <2>9. i \in 1..Len(covered)
    BY <1>2
  <2>10. Blocks(covered, i, F \o TurnsOf(covered[i], got), Q)
    BY <1>2, <2>2, <2>6, <2>8, <2>9, NextBlock
  <2>11. freeze[i] = F \o TurnsOf(covered[i], got)
    BY <2>1, <2>3, <2>4 DEF FreezeRun, FreezeStep
  <2>12. i \in 0..k
    OBVIOUS
  <2> QED BY <2>10, <2>11, <2>12
<1> HIDE DEF Ok
<1>7. \A i \in 0..k : i \in Ok
  BY <1>5, <1>6, UpTo
<1>8. k \in Ok
  BY <1>7
<1> QED BY <1>1, <1>8 DEF Ok

(* Some of the targets, in their order.                                     *)
Spread(n, k, pos, targets, covered) ==
    /\ pos \in [1..k -> 1..n]
    /\ \A a, b \in 1..k : a < b => pos[a] < pos[b]
    /\ \A a \in 1..k : covered[a] = targets[pos[a]]

LEMMA OnlySpread ==
    ASSUME NEW targets, IsAgenda(targets), NEW n \in Nat, n = Len(targets), NEW T, NEW covered,
           covered = Only(targets, T)
    PROVE  \E k \in Nat : \E pos \in [1..k -> 1..n] :
              /\ Spread(n, k, pos, targets, covered) /\ IsAgenda(covered) /\ Len(covered) = k
              /\ DOMAIN covered = 1..k /\ \A a \in 1..k : covered[a] \in T
<1>1. DOMAIN targets = 1..n
  BY DEF IsAgenda
<1>2. Subsequence(targets, T, n, covered)
  BY <1>1, OnlySelects
<1>3. PICK k \in 0..n : \E pos \in [1..k -> 1..n] :
         Positions(targets, T, n, k, pos) /\ covered = [a \in 1..k |-> targets[pos[a]]]
  BY <1>2 DEF Subsequence
<1>4. PICK pos \in [1..k -> 1..n] :
         Positions(targets, T, n, k, pos) /\ covered = [a \in 1..k |-> targets[pos[a]]]
  BY <1>3
<1>5. k \in Nat /\ DOMAIN covered = 1..k /\ Len(covered) = k
      /\ \A a \in 1..k : covered[a] = targets[pos[a]]
  BY <1>4
<1>6. covered = [a \in 1..k |-> covered[a]]
  BY <1>4
<1>7. \A a \in 1..k : targets[pos[a]] \in T /\ pos[a] \in 1..n
  BY <1>4 DEF Positions
<1>8. \A a, b \in 1..k : a < b => pos[a] < pos[b]
  BY <1>4 DEF Positions
<1>9. Spread(n, k, pos, targets, covered)
  BY <1>5, <1>8 DEF Spread
<1>10. \A a \in 1..k : /\ covered[a].concept \in DOMAIN Area /\ covered[a].count \in Nat \ {0}
                       /\ covered[a].floor \in Nat /\ covered[a].envelope \in Int
                       /\ covered[a].most \in Nat /\ covered[a].career \in BOOLEAN
  BY <1>5, <1>7 DEF IsAgenda
<1>11. ASSUME NEW a \in 1..k, NEW b \in 1..k, covered[a].concept = covered[b].concept PROVE a = b
  <2>1. pos[a] = pos[b]
    BY <1>5, <1>7, <1>11 DEF IsAgenda
  <2>2. \A i \in 1..n : i \in Int
    OBVIOUS
  <2>3. ~ (pos[a] < pos[b]) /\ ~ (pos[b] < pos[a])
    BY <1>7, <2>1, <2>2
  <2> QED BY <1>8, <2>3
<1>12. IsAgenda(covered)
  BY <1>5, <1>6, <1>10, <1>11 DEF IsAgenda
<1> QED BY <1>5, <1>7, <1>9, <1>12

(* What the targets ask, of what the covered ones ask.                      *)
SpreadOut(n, k, pos, Q) == [j \in 1..n |-> UNION {Q[a] : a \in {x \in 1..k : pos[x] = j}}]

LEMMA SpreadQuestions ==
    ASSUME NEW n \in Nat, NEW k \in Nat, NEW pos, NEW targets, NEW covered,
           Spread(n, k, pos, targets, covered), NEW Q, NEW R, R = SpreadOut(n, k, pos, Q)
    PROVE  /\ \A a \in 1..k : pos[a] \in 1..n /\ R[pos[a]] = Q[a]
           /\ \A j \in 1..n : (\A a \in 1..k : pos[a] # j) => R[j] = {}
           /\ \A j \in 1..n : \A q \in R[j] : \E a \in 1..k : pos[a] = j /\ q \in Q[a]
<1>1. \A a \in 1..k : pos[a] \in 1..n
  BY DEF Spread
<1>2. \A j \in 1..n : R[j] = UNION {Q[a] : a \in {x \in 1..k : pos[x] = j}}
  BY DEF SpreadOut
<1>3. \A j \in 1..n : \A q : q \in R[j] <=> \E a \in 1..k : pos[a] = j /\ q \in Q[a]
  BY <1>2
<1>4. ASSUME NEW a \in 1..k PROVE R[pos[a]] = Q[a]
  <2>1. \A b \in 1..k : pos[b] = pos[a] => b = a
    <3> SUFFICES ASSUME NEW b \in 1..k, pos[b] = pos[a] PROVE b = a
      OBVIOUS
    <3>1. \A i \in 1..n : i \in Int
      OBVIOUS
    <3>2. ~ (pos[a] < pos[b]) /\ ~ (pos[b] < pos[a])
      BY <1>1, <3>1
    <3> QED BY <3>2 DEF Spread
  <2>2. PICK j \in 1..n : j = pos[a]
    BY <1>1
  <2>3. \A q : q \in R[j] <=> \E b \in 1..k : pos[b] = j /\ q \in Q[b]
    BY <1>3
  <2>4. \A q : q \in R[j] <=> q \in Q[a]
    BY <2>1, <2>2, <2>3
  <2>5. R[j] = Q[a]
    BY <2>4
  <2> QED BY <2>2, <2>5
<1> QED BY <1>1, <1>3, <1>4

LEMMA BlocksSpread ==
    ASSUME NEW targets, IsAgenda(targets), NEW n \in Nat, n = Len(targets), NEW k \in Nat,
           NEW pos, NEW covered, Spread(n, k, pos, targets, covered), NEW F, NEW Q,
           Blocks(covered, k, F, Q), NEW R, R = SpreadOut(n, k, pos, Q)
    PROVE  Blocks(targets, n, F, R)
<1>1. PICK m \in Nat : m = Len(F) /\ DOMAIN F = 1..m
  BY DEF Blocks
<1>2. /\ \A a \in 1..k : pos[a] \in 1..n /\ R[pos[a]] = Q[a] /\ covered[a] = targets[pos[a]]
      /\ \A j \in 1..n : \A q \in R[j] : \E a \in 1..k : pos[a] = j /\ q \in Q[a]
  <2>1. /\ \A a \in 1..k : pos[a] \in 1..n /\ R[pos[a]] = Q[a]
        /\ \A j \in 1..n : \A q \in R[j] : \E a \in 1..k : pos[a] = j /\ q \in Q[a]
    BY SpreadQuestions
  <2>2. \A a \in 1..k : covered[a] = targets[pos[a]]
    BY DEF Spread
  <2> QED BY <2>1, <2>2
<1>3. \A x \in 1..m : \E a \in 1..k : F[x].concept = covered[a].concept /\ F[x].question \in Q[a]
  BY <1>1 DEF Blocks
<1>4. \A a \in 1..k : \A q \in Q[a] :
         \E x \in 1..m : F[x].concept = covered[a].concept /\ F[x].question = q
  BY <1>1 DEF Blocks
<1>5. \A x, y \in 1..m : F[x].question = F[y].question => x = y
  BY <1>1 DEF Blocks
<1>6. \A x, y \in 1..m : \A a, b \in 1..k :
         x < y /\ F[x].concept = covered[a].concept /\ F[y].concept = covered[b].concept => a <= b
  BY <1>1 DEF Blocks
<1>7. \A i, j \in 1..n : targets[i].concept = targets[j].concept => i = j
  BY DEF IsAgenda
<1>8. ASSUME NEW x \in 1..m
      PROVE  \E j \in 1..n : F[x].concept = targets[j].concept /\ F[x].question \in R[j]
  <2>1. PICK a \in 1..k : F[x].concept = covered[a].concept /\ F[x].question \in Q[a]
    BY <1>3
  <2> QED BY <1>2, <2>1
<1>9. ASSUME NEW j \in 1..n, NEW q \in R[j]
      PROVE  \E x \in 1..m : F[x].concept = targets[j].concept /\ F[x].question = q
  <2>1. PICK a \in 1..k : pos[a] = j /\ q \in Q[a]
    BY <1>2
  <2>2. PICK x \in 1..m : F[x].concept = covered[a].concept /\ F[x].question = q
    BY <1>4, <2>1
  <2> QED BY <1>2, <2>1, <2>2
<1>10. ASSUME NEW x \in 1..m, NEW y \in 1..m, NEW j \in 1..n, NEW h \in 1..n, x < y,
              F[x].concept = targets[j].concept, F[y].concept = targets[h].concept
       PROVE  j <= h
  <2>1. PICK a \in 1..k : F[x].concept = covered[a].concept
    BY <1>3
  <2>2. PICK b \in 1..k : F[y].concept = covered[b].concept
    BY <1>3
  <2>3. pos[a] = j /\ pos[b] = h
    <3>1. /\ pos[a] \in 1..n /\ covered[a] = targets[pos[a]]
          /\ pos[b] \in 1..n /\ covered[b] = targets[pos[b]]
      BY <1>2
    <3>2. PICK c \in 1..n, d \in 1..n : c = pos[a] /\ d = pos[b]
      BY <3>1
    <3>3. targets[c].concept = targets[j].concept /\ targets[d].concept = targets[h].concept
      BY <1>10, <2>1, <2>2, <3>1, <3>2
    <3> QED BY <1>7, <3>2, <3>3
  <2>4. a <= b
    BY <1>6, <1>10, <2>1, <2>2
  <2>5. a < b => pos[a] < pos[b]
    <3>1. \A x1, y1 \in 1..k : x1 < y1 => pos[x1] < pos[y1]
      BY DEF Spread
    <3> QED BY <3>1
  <2>6. a < b \/ a = b
    BY <2>4
  <2>7. j < h \/ j = h
    BY <2>3, <2>5, <2>6
  <2> QED BY <2>7
<1>11. F = [x \in 1..Len(F) |-> F[x]] /\ Len(F) \in Nat
  BY DEF Blocks
<1>12. /\ \A x \in DOMAIN F : \E j \in 1..n : F[x].concept = targets[j].concept /\ F[x].question \in R[j]
       /\ \A j \in 1..n : \A q \in R[j] :
             \E x \in DOMAIN F : F[x].concept = targets[j].concept /\ F[x].question = q
       /\ \A x, y \in DOMAIN F : F[x].question = F[y].question => x = y
  BY <1>1, <1>5, <1>8, <1>9
<1>13. \A x, y \in DOMAIN F : \A j, h \in 1..n :
          x < y /\ F[x].concept = targets[j].concept /\ F[y].concept = targets[h].concept => j <= h
  BY <1>1, <1>10
<1> QED BY <1>1, <1>11, <1>12, <1>13 DEF Blocks

EnvelopeFit(s, targets, F, short) ==
    \E R : /\ Blocks(targets, Len(targets), F, R)
           /\ \A j \in 1..Len(targets) :
                 /\ targets[j].concept \in short => R[j] = {}
                 /\ targets[j].concept \notin short =>
                       /\ IsFiniteSet(R[j]) /\ Cardinality(R[j]) \in 1..targets[j].most
                       /\ Cost(R[j]) \in targets[j].floor..targets[j].envelope
                 /\ \A q \in R[j] : CanAsk(s, q)

CoveredOf(s, level, targets) == Only(targets, {t \in ToSet(targets) : Domain(s, t, level) # <<>>})

DomainsOf(s, level, covered) == [i \in DOMAIN covered |-> Domain(s, covered[i], level)]

LEMMA DomainsFound ==
    ASSUME Kept, NEW s \in Sessions, NEW level \in Int, NEW k \in Nat, NEW covered,
           IsAgenda(covered), Len(covered) = k, NEW domains, domains = DomainsOf(s, level, covered)
    PROVE  IsDomains(k, domains) /\ \A i \in 1..k : IsDomain(s, covered[i], domains[i])
<1>1. DOMAIN covered = 1..k /\ \A i \in 1..k : IsEnvelope(covered[i])
  BY DEF IsAgenda, IsEnvelope, IsTarget
<1>2. /\ DOMAIN domains = 1..k /\ Len(domains) = k
      /\ \A i \in 1..k : domains[i] = Domain(s, covered[i], level)
  BY <1>1 DEF DomainsOf
<1>3. ASSUME NEW i \in 1..k PROVE IsDomain(s, covered[i], domains[i])
  <2>1. IsDomain(s, covered[i], Domain(s, covered[i], level))
    BY <1>1, DomainIsFeasible
  <2> QED BY <1>2, <2>1
<1>4. ASSUME NEW i \in 1..k PROVE \E m \in Nat : DOMAIN domains[i] = 1..m
  <2>1. Listing(domains[i], ToSet(domains[i]))
    BY <1>3 DEF IsDomain
  <2> QED BY <2>1, ListingFacts
<1> QED BY <1>2, <1>3, <1>4 DEF IsDomains

LEMMA ChosenIsDecided ==
    ASSUME NEW s, NEW k \in Nat, NEW covered, IsAgenda(covered), Len(covered) = k, NEW domains,
           \A i \in 1..k : IsDomain(s, covered[i], domains[i]), NEW choice,
           Chosen(domains, k, choice)
    PROVE  Decided(s, k, covered, domains, choice)
<1>1. ASSUME NEW i \in 1..k PROVE Feasible(s, covered[i], domains[i][choice[i]])
  <2>1. choice[i] \in DOMAIN domains[i]
    BY DEF Chosen
  <2>2. domains[i][choice[i]] \in ToSet(domains[i])
    BY <2>1 DEF ToSet
  <2> QED BY <2>2 DEF IsDomain
<1>2. \A i, j \in 1..k : i # j => Asks(domains[i][choice[i]]) \cap Asks(domains[j][choice[j]]) = {}
  BY DEF Chosen
<1> QED BY <1>1, <1>2 DEF Decided

LEMMA NothingToAssign ==
    ASSUME NEW domains, IsDomains(0, domains)
    PROVE  Assignments(domains) # {}
<1>1. PICK choices : AssignRun(0, domains, choices)
  BY AssignSteps
<1> QED BY <1>1 DEF AssignRun

(* What the covered targets ask is what the agenda asks.                    *)
LEMMA SpreadFits ==
    ASSUME NEW s, NEW targets, IsAgenda(targets), NEW n \in Nat, n = Len(targets), NEW k \in Nat,
           NEW pos, NEW covered, DOMAIN covered = 1..k, Spread(n, k, pos, targets, covered),
           NEW domains, NEW choice, Decided(s, k, covered, domains, choice), NEW F,
           Blocks(covered, k, F, AskedBy(k, domains, choice))
    PROVE  EnvelopeFit(s, targets, F, Concepts(targets) \ Concepts(covered))
<1>1. PICK Q : Q = AskedBy(k, domains, choice)
  OBVIOUS
<1>2. PICK R : R = SpreadOut(n, k, pos, Q)
  OBVIOUS
<1>3. Blocks(targets, n, F, R)
  BY <1>1, <1>2, BlocksSpread
<1>4. /\ \A a \in 1..k : pos[a] \in 1..n /\ R[pos[a]] = Q[a]
      /\ \A j \in 1..n : (\A a \in 1..k : pos[a] # j) => R[j] = {}
  BY <1>2, SpreadQuestions
<1>5. \A a \in 1..k : covered[a] = targets[pos[a]]
  BY DEF Spread
<1>6. PICK short : short = Concepts(targets) \ Concepts(covered)
  OBVIOUS
<1>7. \A c : c \in Concepts(covered) <=> \E a \in 1..k : covered[a].concept = c
  BY DEF Concepts
<1>8. \A j \in 1..n : targets[j].concept \in Concepts(targets)
  BY DEF Concepts, IsAgenda
<1>9. \A i, j \in 1..n : targets[i].concept = targets[j].concept => i = j
  BY DEF IsAgenda
<1>10. ASSUME NEW j \in 1..n
       PROVE  /\ targets[j].concept \in short => R[j] = {}
              /\ targets[j].concept \notin short =>
                    /\ IsFiniteSet(R[j]) /\ Cardinality(R[j]) \in 1..targets[j].most
                    /\ Cost(R[j]) \in targets[j].floor..targets[j].envelope
              /\ \A q \in R[j] : CanAsk(s, q)
  <2>1. CASE \E a \in 1..k : pos[a] = j
    <3>1. PICK a \in 1..k : pos[a] = j
      BY <2>1
    <3>2. covered[a] = targets[j] /\ R[j] = Q[a]
      BY <1>4, <1>5, <3>1
    <3>3. targets[j].concept \notin short
      BY <1>6, <1>7, <3>2
    <3>4. PICK S : S = domains[a][choice[a]]
      OBVIOUS
    <3>5. Feasible(s, targets[j], S)
      BY <3>2, <3>4 DEF Decided
    <3>6. R[j] = Asks(S)
      BY <1>1, <3>2, <3>4 DEF AskedBy
    <3>7. IsFiniteSet(Asks(S)) /\ Cardinality(Asks(S)) = Cardinality(S)
      BY <3>5, AsksAsMany DEF Feasible
    <3>8. \A q \in R[j] : CanAsk(s, q)
      BY <3>5, <3>6 DEF Feasible, Asks
    <3>9. /\ IsFiniteSet(R[j]) /\ Cardinality(R[j]) \in 1..targets[j].most
          /\ Cost(R[j]) \in targets[j].floor..targets[j].envelope
      BY <3>5, <3>6, <3>7 DEF Feasible
    <3> QED BY <3>3, <3>8, <3>9
  <2>2. CASE \A a \in 1..k : pos[a] # j
    <3>1. R[j] = {}
      BY <1>4, <2>2
    <3>2. targets[j].concept \notin Concepts(covered)
      <4> SUFFICES ASSUME NEW a \in 1..k, covered[a].concept = targets[j].concept PROVE FALSE
        BY <1>7
      <4>1. PICK i \in 1..n : i = pos[a]
        BY <1>4
      <4>2. targets[i].concept = targets[j].concept
        BY <1>5, <4>1
      <4> QED BY <1>9, <2>2, <4>1, <4>2
    <3>3. targets[j].concept \in short
      BY <1>6, <1>8, <3>2
    <3> QED BY <3>1, <3>3
  <2> QED BY <2>1, <2>2
<1>11. EnvelopeFit(s, targets, F, short)
  BY <1>3, <1>10 DEF EnvelopeFit
<1> QED BY <1>6, <1>11

EnvelopesOf(targets, covered, domains, F) ==
    IF targets # <<>> /\ (covered = <<>> \/ Assignments(domains) = {}) THEN Refused
    ELSE [refused |-> FALSE, frozen |-> F, short |-> Concepts(targets) \ Concepts(covered)]

FrozenOf(s, level, covered, domains, choice) ==
    (CHOOSE freeze : IsFreeze(s, level, covered, domains, choice, freeze))[Len(covered)]

LEMMA EnvelopesUnfold ==
    ASSUME NEW s
    PROVE  LET level   == plan[s].level
               targets == plan[s].agenda.targets
               covered == CoveredOf(s, level, targets)
               domains == DomainsOf(s, level, covered)
               choice  == GlobalAssignment(domains)
           IN FreezeEnvelopes(s)
                 = EnvelopesOf(targets, covered, domains, FrozenOf(s, level, covered, domains, choice))
BY Zenon DEF FreezeEnvelopes, EnvelopesOf, FrozenOf, IsFreeze, FreezeStep, CoveredOf, DomainsOf

LEMMA EnvelopesAreFit ==
    ASSUME Kept, NEW s \in Sessions, IsAgenda(plan[s].agenda.targets), ~ FreezeEnvelopes(s).refused
    PROVE  EnvelopeFit(s, plan[s].agenda.targets, FreezeEnvelopes(s).frozen, FreezeEnvelopes(s).short)
<1>1. PICK targets : targets = plan[s].agenda.targets
  OBVIOUS
<1>2. IsAgenda(targets)
  BY <1>1
<1>3. PICK n \in Nat : n = Len(targets)
  BY <1>2, AgendaTargets
<1>4. PICK level \in Int : level = plan[s].level
  BY DEF Kept
<1>5. PICK covered : covered = CoveredOf(s, level, targets)
  OBVIOUS
<1>6. PICK k \in Nat : \E pos \in [1..k -> 1..n] :
         /\ Spread(n, k, pos, targets, covered) /\ IsAgenda(covered) /\ Len(covered) = k
         /\ DOMAIN covered = 1..k
  <2>1. PICK T : covered = Only(targets, T)
    BY <1>5 DEF CoveredOf
  <2> QED BY <1>2, <1>3, <2>1, OnlySpread
<1>7. PICK pos \in [1..k -> 1..n] :
         /\ Spread(n, k, pos, targets, covered) /\ IsAgenda(covered) /\ Len(covered) = k
         /\ DOMAIN covered = 1..k
  BY <1>6
<1>8. PICK domains : domains = DomainsOf(s, level, covered)
  OBVIOUS
<1>9. IsDomains(k, domains) /\ \A i \in 1..k : IsDomain(s, covered[i], domains[i])
  BY <1>7, <1>8, DomainsFound
<1>10. PICK choice : choice = GlobalAssignment(domains)
  OBVIOUS
<1>11. PICK F : F = FrozenOf(s, level, covered, domains, choice)
  OBVIOUS
<1>12. FreezeEnvelopes(s) = EnvelopesOf(targets, covered, domains, F)
  BY <1>1, <1>4, <1>5, <1>8, <1>10, <1>11, EnvelopesUnfold
<1>13. ~ (targets # <<>> /\ (covered = <<>> \/ Assignments(domains) = {}))
  <2>1. Refused.refused = TRUE
    BY DEF Refused
  <2> QED BY <1>12, <2>1 DEF EnvelopesOf
<1>14. Assignments(domains) # {}
  <2>1. CASE targets # <<>>
    BY <1>13, <2>1
  <2>2. CASE targets = <<>>
    <3>1. n = 0
      BY <1>3, <2>2
    <3>2. k = 0
      <4> SUFFICES ASSUME k # 0 PROVE FALSE
        OBVIOUS
      <4>1. 1 \in 1..k
        OBVIOUS
      <4>2. pos[1] \in 1..n
        BY <1>7, <4>1
      <4> QED BY <3>1, <4>2
    <3> QED BY <1>9, <3>2, NothingToAssign
  <2> QED BY <2>1, <2>2
<1>15. Chosen(domains, k, choice)
  BY <1>9, <1>10, <1>14, GlobalChosen
<1>16. Decided(s, k, covered, domains, choice)
  BY <1>7, <1>9, <1>15, ChosenIsDecided
<1>17. PICK freeze : freeze = CHOOSE it : IsFreeze(s, level, covered, domains, choice, it)
  OBVIOUS
<1>18. IsFreeze(s, level, covered, domains, choice, freeze)
  <2>1. \E it : IsFreeze(s, level, covered, domains, choice, it)
    BY <1>16, FreezeSteps
  <2> QED BY <1>17, <2>1, Zenon
<1>19. FreezeRun(s, k, level, covered, domains, choice, freeze)
  BY <1>7, <1>18, FreezeRuns
<1>20. F = freeze[k]
  BY <1>7, <1>11, <1>17 DEF FrozenOf
<1>21. Blocks(covered, k, F, AskedBy(k, domains, choice))
  BY <1>16, <1>19, <1>20, FreezeBlocks
<1>22. PICK short : short = Concepts(targets) \ Concepts(covered)
  OBVIOUS
<1>23. EnvelopeFit(s, targets, F, short)
  BY <1>2, <1>3, <1>7, <1>16, <1>21, <1>22, SpreadFits
<1>24. FreezeEnvelopes(s) = [refused |-> FALSE, frozen |-> F, short |-> short]
  BY <1>12, <1>13, <1>22, Zenon DEF EnvelopesOf
<1>25. FreezeEnvelopes(s).frozen = F /\ FreezeEnvelopes(s).short = short
  BY <1>24
<1> QED BY <1>1, <1>23, <1>25

LEMMA EnvelopeTurns ==
    ASSUME NEW s, NEW agenda, agenda.policy # "legacy", IsAgenda(agenda.targets), NEW F, NEW short,
           EnvelopeFit(s, agenda.targets, F, short), NEW T, SameTurns(T, F)
    PROVE  Fits(agenda, session[s].voice, T, short)
<1>1. PICK targets : targets = agenda.targets
  OBVIOUS
<1>2. IsAgenda(targets)
  BY <1>1
<1>3. PICK n \in Nat : n = Len(targets) /\ DOMAIN targets = 1..n
  BY <1>2 DEF IsAgenda
<1>4. EnvelopeFit(s, targets, F, short)
  BY <1>1
<1>5. PICK R : /\ Blocks(targets, n, F, R)
               /\ \A j \in 1..n :
                     /\ targets[j].concept \in short => R[j] = {}
                     /\ targets[j].concept \notin short =>
                           /\ IsFiniteSet(R[j]) /\ Cardinality(R[j]) \in 1..targets[j].most
                           /\ Cost(R[j]) \in targets[j].floor..targets[j].envelope
                     /\ \A q \in R[j] : CanAsk(s, q)
  BY <1>3, <1>4 DEF EnvelopeFit
<1>6. AsksInOrder(targets, R, T)
  BY <1>2, <1>3, <1>5, BlocksInOrder
<1>7. \A k \in DOMAIN T : \E j \in 1..n : PlaceOf(targets, T[k].concept) = j /\ T[k].question \in R[j]
  BY <1>3, <1>6 DEF AsksInOrder
<1>8. ASSUME NEW j \in 1..n PROVE AsPlanned(agenda, T, short, targets[j])
  <2>1. PICK on : on = On(T, targets[j].concept)
    OBVIOUS
  <2>2. {T[k].question : k \in on} = R[j]
    BY <1>3, <1>6, <2>1 DEF AsksInOrder
  <2>3. CASE targets[j].concept \in short
    <3>1. {T[k].question : k \in on} = {}
      BY <1>5, <2>2, <2>3
    <3>2. on = {}
      BY <3>1
    <3> QED BY <2>1, <2>3, <3>2 DEF AsPlanned
  <2>4. CASE targets[j].concept \notin short
    <3>1. /\ IsFiniteSet(R[j]) /\ Cardinality(R[j]) \in 1..targets[j].most
          /\ Cost(R[j]) \in targets[j].floor..targets[j].envelope
      BY <1>5, <2>4
    <3>2. Cardinality(on) = Cardinality(R[j])
      BY <1>3, <1>6, <2>1, <3>1 DEF AsksInOrder
    <3>3. /\ Cardinality(on) \in 1..targets[j].most
          /\ Cost({T[k].question : k \in on}) \in targets[j].floor..targets[j].envelope
      BY <2>2, <3>1, <3>2
    <3> QED BY <2>1, <2>4, <3>3 DEF AsPlanned
  <2> QED BY <2>3, <2>4
<1>9. \A k, l \in DOMAIN T :
         k < l => /\ T[k].question # T[l].question
                  /\ PlaceOf(targets, T[k].concept) <= PlaceOf(targets, T[l].concept)
  BY <1>6 DEF AsksInOrder
<1>10. session[s].voice => \A k \in DOMAIN T : ~ T[k].question.coding
  BY <1>5, <1>7 DEF CanAsk
<1> QED BY <1>1, <1>3, <1>8, <1>9, <1>10 DEF Fits

LEMMA SelectionFits ==
    ASSUME Kept, FromPlanner, NEW s \in Sessions, plan[s].status = "READY", ~ Selection(s).refused
    PROVE  Fits(plan[s].agenda, session[s].voice, FrozenTurns(s, Selection(s).frozen),
                Selection(s).short)
<1>1. CASE Counted(s)
  BY <1>1, CountedFreeze
<1>2. CASE ~ Counted(s)
  <2>1. PICK agenda : agenda = plan[s].agenda
    OBVIOUS
  <2>2. agenda.policy = "dynamic" /\ IsAgenda(agenda.targets)
    BY <1>2, <2>1, ReadyAgenda DEF Counted
  <2>3. Selection(s) = FreezeEnvelopes(s)
    BY <2>1, <2>2 DEF Selection
  <2>4. PICK F, short : F = Selection(s).frozen /\ short = Selection(s).short
    OBVIOUS
  <2>5. EnvelopeFit(s, agenda.targets, F, short)
    BY <2>1, <2>2, <2>3, <2>4, EnvelopesAreFit
  <2>6. PICK T : T = FrozenTurns(s, F)
    OBVIOUS
  <2>7. SameTurns(T, F)
    BY <2>6, FrozenAreSame
  <2>8. Fits(agenda, session[s].voice, T, short)
    BY <2>2, <2>5, <2>7, EnvelopeTurns
  <2> QED BY <2>1, <2>4, <2>6, <2>8
<1> QED BY <1>1, <1>2

FrozenFit == \A s \in Frozen : Fits(plan[s].agenda, session[s].voice, turns[s], uncovered[s])

LEMMA FrozenFitMeans == FrozenFit => FrozenFitsPlan
<1> SUFFICES ASSUME FrozenFit, NEW s \in Frozen
             PROVE  /\ \A i, j \in DOMAIN turns[s] :
                          i < j => /\ turns[s][i].question # turns[s][j].question
                                   /\ Position(s, turns[s][i].concept) <= Position(s, turns[s][j].concept)
                    /\ \A i \in DOMAIN plan[s].agenda.targets :
                          ServedAsPlanned(s, plan[s].agenda.targets[i])
                    /\ session[s].voice => \A i \in DOMAIN turns[s] : ~ turns[s][i].question.coding
  BY DEF FrozenFitsPlan
<1>1. Fits(plan[s].agenda, session[s].voice, turns[s], uncovered[s])
  BY DEF FrozenFit
<1>2. \A c : Position(s, c) = PlaceOf(plan[s].agenda.targets, c)
  BY DEF Position, PlaceOf
<1>3. \A t : AsPlanned(plan[s].agenda, turns[s], uncovered[s], t) <=> ServedAsPlanned(s, t)
  BY DEF AsPlanned, ServedAsPlanned, Counted, On, TurnsOn
<1> QED BY <1>1, <1>2, <1>3 DEF Fits

LEMMA InitFrozenFit == Init => FrozenFit
BY DEF Init, FrozenFit, Frozen

(* The room of a locked session is what it was.                             *)
LEMMA SessionsStay ==
    ASSUME Packaged, [Next]_vars, NEW s \in Frozen
    PROVE  session'[s] = session[s]
<1>1. s \in Sessions /\ session[s] # NoPackage
  BY DEF Packaged, Frozen
<1>2. ASSUME NEW x \in Sessions, CreateSession(x) PROVE session'[s] = session[s]
  <2>1. session[x] = NoPackage /\ \E p \in Packages : session' = [session EXCEPT ![x] = p]
    BY <1>2 DEF CreateSession
  <2> QED BY <1>1, <2>1 DEF Packaged
<1>3. CASE UNCHANGED session
  BY <1>3
<1>4. CASE (\E x \in Sessions : AskTurn(x)) \/ (\E q \in Reviewed : ReviewQuestion(q)) \/ UNCHANGED vars
  BY <1>4 DEF AskTurn, ReviewQuestion, vars
<1>5. ASSUME NEW r \in Requests,
             \/ \E x \in Sessions : StartPlan(r, x) \/ StartFreeze(r, x)
             \/ PersistPlan(r) \/ StartCoverage(r) \/ CountUnderLock(r) \/ FileDrafts(r)
             \/ EndCoverage(r) \/ SelectAndFreeze(r) \/ Die(r)
      PROVE  UNCHANGED session
  BY <1>5 DEF StartPlan, StartFreeze, PersistPlan, StartCoverage, CountUnderLock, FileDrafts,
              EndCoverage, SelectAndFreeze, Die
<1> QED BY <1>2, <1>3, <1>4, <1>5 DEF Next

LEMMA NextFrozenFit ==
    ASSUME Packaged, Building, Written, Kept, FromPlanner, FrozenFit, [Next]_vars
    PROVE  FrozenFit'
<1> SUFFICES ASSUME NEW s \in Frozen'
             PROVE  Fits(plan'[s].agenda, session'[s].voice, turns'[s], uncovered'[s])
  BY DEF FrozenFit
<1>1. CASE s \in Frozen
  <2>1. plan'[s] = plan[s] /\ turns'[s] = turns[s] /\ uncovered'[s] = uncovered[s]
    BY <1>1, NextStands DEF Stands
  <2>2. session'[s] = session[s]
    BY <1>1, SessionsStay
  <2>3. Fits(plan[s].agenda, session[s].voice, turns[s], uncovered[s])
    BY <1>1 DEF FrozenFit
  <2> QED BY <2>1, <2>2, <2>3
<1>2. CASE s \notin Frozen
  <2>1. s \in Sessions /\ Freezes(s)
    BY <1>2 DEF Freezes, Frozen
  <2>2. ~ Selection(s).refused /\ Locks(s, Selection(s).frozen, Selection(s).short)
    BY <2>1, WhoFreezes
  <2>3. /\ plan[s].status = "READY" /\ plan'[s].agenda = plan[s].agenda
        /\ turns'[s] = FrozenTurns(s, Selection(s).frozen) /\ uncovered'[s] = Selection(s).short
        /\ session' = session
    BY <2>2 DEF Locks
  <2>4. Fits(plan[s].agenda, session[s].voice, FrozenTurns(s, Selection(s).frozen),
             Selection(s).short)
    BY <2>1, <2>2, <2>3, SelectionFits
  <2> QED BY <2>3, <2>4
<1> QED BY <1>1, <1>2

(* A locked session asks no question twice, its competencies in the order   *)
(* of the agenda, each as much as planned or else reported as uncovered,    *)
(* and nothing to be typed where there is no editor.                        *)
THEOREM FrozenFitThePlan == Spec => []FrozenFitsPlan
<1>1. Init => Packaged /\ Building /\ FromPlanner /\ Kept /\ Written /\ FrozenFit
  BY InitPackaged, InitBuilding, InitFromPlanner, InitKept, InitWritten, InitFrozenFit
<1>2. Packaged /\ Building /\ FromPlanner /\ Kept /\ Written /\ FrozenFit /\ [Next]_vars
        => (Packaged /\ Building /\ FromPlanner /\ Kept /\ Written /\ FrozenFit)'
  BY NextStands, NextFromPlanner, NextKept, NextWritten, NextFrozenFit
<1>3. FrozenFit => FrozenFitsPlan
  BY FrozenFitMeans
<1> QED BY <1>1, <1>2, <1>3, PTL DEF Spec
=============================================================================

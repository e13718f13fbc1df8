-------------------------- MODULE ChatSession_proofs --------------------------
(***************************************************************************)
(* Theorems about ChatSession, for every agenda, any number of messages    *)
(* and, for the first five, any number of requests handled at the same     *)
(* time: types, the end that is decided once, the probe budget, the order  *)
(* of the transcript and what COMPLETED means.                             *)
(*                                                                         *)
(* The last four are about a candidate whose requests do not overlap       *)
(* (OneAtATime): the session implements AbstractSession, its question can  *)
(* always be answered, what is graded is what was said, and a demo follows *)
(* its turns.  Only then does what a request read before the lock still    *)
(* hold when it takes it; two overlapping requests can leave two questions *)
(* open.                                                                   *)
(*                                                                         *)
(* Each invariant is stated with the strengthening its induction needs,    *)
(* just before its proof.                                                  *)
(***************************************************************************)
EXTENDS ChatSession, SequenceTheorems, FiniteSetTheorems, WellFoundedInduction,
        TLAPS

-----------------------------------------------------------------------------
(* The engine: for every agenda it returns a well formed outcome that names *)
(* a turn it was offered, and a probe only for a technical question that    *)
(* was not probed yet and has time for it; and in a demo, the turn that     *)
(* follows the one it was asked about.                                      *)

(* A nonempty set of numbers has a smallest element, which is what the      *)
(* engine's choices of the first waiting question rest on.                  *)
LEMMA SmallestExists ==
    ASSUME NEW T, T \subseteq Nat, T # {}
    PROVE  \E x \in T : \A y \in T : x <= y
<1>1. \E x \in T : \A y \in T : ~ (<<y, x>> \in OpToRel(<, Nat))
  BY NatLessThanWellFounded, WFMin, Zenon
<1>2. PICK x \in T : \A y \in T : ~ (<<y, x>> \in OpToRel(<, Nat))
  BY <1>1
<1>3. \A y \in T : x <= y
  <2>1. TAKE y \in T
  <2>2. x \in Nat /\ y \in Nat
    OBVIOUS
  <2>3. ~ (y < x)
    BY <1>2, <2>2 DEF OpToRel
  <2>4. QED
    BY <2>2, <2>3
<1>4. QED
  BY <1>2, <1>3

(* Turns are a set of positive numbers that contains the closing turn.      *)
LEMMA TurnsAreNat ==
    /\ Turns \subseteq Nat \ {0}
    /\ ClosingTurn \in Turns
    /\ 1 \in Turns
    /\ NoTurn \notin Turns
BY AgendaAssumption DEF Turns, ClosingTurn, NoTurn

(* The first waiting question of a stage is one of the pool.                *)
LEMMA FirstIsWaiting ==
    ASSUME NEW pool, pool \subseteq Turns, NEW stage, Waiting(pool, stage) # {}
    PROVE  First(pool, stage) \in Waiting(pool, stage) /\ First(pool, stage) \in pool
<1>1. Waiting(pool, stage) \subseteq Nat /\ Waiting(pool, stage) \subseteq pool
  BY TurnsAreNat DEF Waiting
<1>2. \E t \in Waiting(pool, stage) : \A u \in Waiting(pool, stage) : t <= u
  BY <1>1, SmallestExists
<1>3. First(pool, stage) \in Waiting(pool, stage)
  BY <1>2 DEF First
<1>4. QED
  BY <1>1, <1>3

(* Walking the preferred stages yields a turn of the pool or nothing.       *)
LEMMA WalkInPool ==
    ASSUME NEW pool, pool \subseteq Turns, NEW stage, NEW zone
    PROVE  Walk(pool, stage, zone) \in pool \cup {NoTurn}
<1> DEFINE order == Preference(stage, zone)
           open  == {i \in DOMAIN order : CanOpen(pool, order[i])}
           i0    == CHOOSE i \in open : \A j \in open : i <= j
<1>1. CASE open = {}
  BY <1>1 DEF Walk
<1>2. CASE open # {}
  <2>1. DOMAIN order \subseteq Nat
    BY DEF Preference
  <2>2. \E i \in open : \A j \in open : i <= j
    <3>1. open \subseteq Nat
      BY <2>1
    <3>2. QED
      BY <1>2, <3>1, SmallestExists
  <2>3. i0 \in open
    BY <2>2
  <2>4. CanOpen(pool, order[i0])
    BY <2>3
  <2>5. Waiting(pool, order[i0]) # {}
    BY <2>4 DEF CanOpen
  <2>6. First(pool, order[i0]) \in pool
    BY <2>5, FirstIsWaiting
  <2>7. Walk(pool, stage, zone) = First(pool, order[i0])
    BY <1>2 DEF Walk
  <2>8. QED
    BY <2>6, <2>7
<1>3. QED
  BY <1>1, <1>2

(* The next question is one that was offered, the closing Q&A or none.      *)
LEMMA NextQuestionInPool ==
    ASSUME NEW pool, pool \subseteq Turns, NEW cur \in Turns, NEW zone \in ClockZones
    PROVE  NextQuestion(pool, cur, zone) \in pool \cup {ClosingTurn, NoTurn}
<1>1. Waiting(pool, "BEHAVIORAL") # {} => First(pool, "BEHAVIORAL") \in pool
  BY FirstIsWaiting
<1>2. Walk(pool, StageOf(cur), zone) \in pool \cup {NoTurn}
  BY WalkInPool
<1>3. QED
  BY <1>1, <1>2 DEF NextQuestion

(* The stage of a turn.                                                     *)
LEMMA StageOfTurn ==
    ASSUME NEW t \in Turns
    PROVE  StageOf(t) \in AgendaStages \cup {"CLOSING", "CLOSED"}
<1>1. CASE t = ClosingTurn
  BY <1>1 DEF StageOf
<1>2. CASE t # ClosingTurn
  <2>1. t \in 1..Len(Agenda)
    BY <1>2, AgendaAssumption DEF Turns, ClosingTurn
  <2>2. Agenda[t] \in AgendaStages
    BY <2>1, AgendaAssumption
  <2>3. QED
    BY <1>2, <2>2 DEF StageOf
<1>3. QED
  BY <1>1, <1>2

LEMMA ReplyIsOutcome ==
    ASSUME NEW action \in Actions, NEW cur \in Turns, NEW zone \in ClockZones
    PROVE  Reply(action, cur, zone) \in Outcomes
BY StageOfTurn DEF Reply, Outcomes, Exits, UncoopLimit

LEMMA TerminateIsOutcome ==
    ASSUME NEW exit \in Exits, NEW n \in 0..UncoopLimit, NEW zone \in ClockZones
    PROVE  /\ Terminate(exit, n, zone) \in Outcomes
           /\ Terminate(exit, n, zone).action = "TERMINATE"
BY DEF Terminate, Outcomes, Actions

LEMMA MoveOnIsOutcome ==
    ASSUME NEW pool, pool \subseteq Turns, NEW cur \in Turns, NEW zone \in ClockZones,
           NEW n \in 0..UncoopLimit, NEW named \in BOOLEAN
    PROVE  /\ MoveOn(pool, cur, zone, n, named) \in Outcomes
           /\ MoveOn(pool, cur, zone, n, named).action \in {"NEXT_QUESTION", "TERMINATE"}
<1> DEFINE next == NextQuestion(pool, cur, zone)
<1>1. next \in Turns \cup {NoTurn}
  BY NextQuestionInPool, TurnsAreNat
<1>2. CASE next = NoTurn
  <2>1. MoveOn(pool, cur, zone, n, named) = Terminate("NORMAL_COMPLETION", 0, zone)
    BY <1>2 DEF MoveOn
  <2>2. 0 \in 0..UncoopLimit
    BY DEF UncoopLimit
  <2>3. QED
    BY <2>1, <2>2, TerminateIsOutcome DEF Exits
<1>3. CASE next # NoTurn
  <2>1. next \in Turns
    BY <1>1, <1>3
  <2>2. StageOf(next) \in AgendaStages \cup {"CLOSING", "CLOSED"}
    BY <2>1, StageOfTurn
  <2>3. MoveOn(pool, cur, zone, n, named) =
          [action |-> "NEXT_QUESTION", turn |-> IF named THEN next ELSE NoTurn,
           stage |-> StageOf(next), exit |-> "NONE", aside |-> FALSE, uncoop |-> n,
           zone |-> zone]
    BY <1>3 DEF MoveOn, Reply
  <2>4. QED
    BY <2>1, <2>2, <2>3 DEF Outcomes, Actions, Exits
<1>4. QED
  BY <1>2, <1>3

(* Everything the engine returns is an outcome, and a probe is only for a   *)
(* turn that was not probed.                                                *)
LEMMA HandleTurnOutcomes ==
    ASSUME NEW pool, pool \subseteq Turns, NEW cur \in Turns, NEW zone \in ClockZones,
           NEW probed \in BOOLEAN, NEW clarified \in BOOLEAN, NEW questions,
           NEW uncoop \in 0..UncoopLimit, NEW say,
           NEW o \in HandleTurn(pool, cur, zone, probed, clarified, questions, uncoop, say)
    PROVE  /\ o \in Outcomes
           /\ o.action = "PROBE" => ~ probed /\ ~ o.aside
<1> DEFINE Good(x) == x \in Outcomes /\ (x.action = "PROBE" => ~ probed /\ ~ x.aside)
<1>0. 0 \in 0..UncoopLimit /\ TRUE \in BOOLEAN /\ FALSE \in BOOLEAN
  BY DEF UncoopLimit
<1>1. \A action \in Actions \ {"PROBE"} : Good(Reply(action, cur, zone))
  <2>1. TAKE action \in Actions \ {"PROBE"}
  <2>2. Reply(action, cur, zone).action = action
    BY DEF Reply
  <2>3. QED
    BY <2>2, ReplyIsOutcome
<1>2. \A exit \in Exits, n \in 0..UncoopLimit : Good(Terminate(exit, n, zone))
  BY TerminateIsOutcome
<1>3. \A n \in 0..UncoopLimit, named \in BOOLEAN : Good(MoveOn(pool, cur, zone, n, named))
  BY MoveOnIsOutcome
<1>4. \A x \in ClosingOutcomes(cur, zone, questions, say) : Good(x)
  BY <1>0, <1>1, <1>2 DEF ClosingOutcomes, Actions, Exits
<1>5. \A x \in AnswerOutcomes(pool, cur, zone, probed) : Good(x)
  <2>1. ProbeWindow(pool, cur, zone, probed) => Good(Reply("PROBE", cur, zone))
    <3>1. Reply("PROBE", cur, zone) \in Outcomes /\ ~ Reply("PROBE", cur, zone).aside
      BY ReplyIsOutcome DEF Actions, Reply
    <3>2. QED
      BY <3>1 DEF ProbeWindow
  <2>2. QED
    BY <1>0, <1>3, <2>1 DEF AnswerOutcomes
<1>6. \A x \in GiveUpOutcomes(pool, cur, zone, uncoop) : Good(x)
  <2>1. (IF uncoop < UncoopLimit THEN uncoop + 1 ELSE UncoopLimit) \in 0..UncoopLimit
    BY DEF UncoopLimit
  <2>2. QED
    BY <1>0, <1>2, <1>3, <2>1 DEF GiveUpOutcomes, Exits
<1>7. Good([Reply("CLARIFY", cur, zone) EXCEPT !.aside = TRUE])
  <2>1. Reply("CLARIFY", cur, zone) \in Outcomes
    BY ReplyIsOutcome DEF Actions
  <2>2. QED
    BY <2>1 DEF Reply, Outcomes
<1>8. \A x \in Assess(pool, cur, zone, probed, clarified, uncoop, say) : Good(x)
  <2>1. Good(Reply("CONFIRM_ABORT", cur, zone)) /\ Good(Reply("CLARIFY", cur, zone))
    BY <1>1 DEF Actions
  <2>2. QED
    BY <1>5, <1>6, <1>7, <2>1 DEF Assess
<1>9. Good(o)
  <2>1. Good(Reply("CONFIRM_ABORT", cur, zone))
    BY <1>1 DEF Actions
  <2>2. Good(Terminate("HARD_TIMEOUT", 0, zone))
    BY <1>0, <1>2 DEF Exits
  <2>3. Good(MoveOn(pool, cur, zone, 0, FALSE))
    BY <1>0, <1>3
  <2>4. QED
    BY <1>4, <1>8, <2>1, <2>2, <2>3 DEF HandleTurn
<1>10. QED
  BY <1>9

-----------------------------------------------------------------------------
(* A demo follows its turns.                                                *)

(* What may follow a stage in the agenda of a demo: one question of each    *)
(* stage in their order, or two challenges (_technical_stage for at most    *)
(* two technical questions, the budget of a demo).                          *)
Later(stage) ==
    CASE stage = "WARM_UP"   -> {"VALIDATE", "DEEP_DIVE", "CHALLENGE", "BEHAVIORAL"}
      [] stage = "VALIDATE"  -> {"DEEP_DIVE", "CHALLENGE", "BEHAVIORAL"}
      [] stage = "DEEP_DIVE" -> {"CHALLENGE", "BEHAVIORAL"}
      [] stage = "CHALLENGE" -> {"CHALLENGE", "BEHAVIORAL"}
      [] OTHER               -> {}

DemoAgenda ==
    Demo => \A i, j \in DOMAIN Agenda : i < j => Agenda[j] \in Later(Agenda[i])

LEMMA SmallestIs ==
    ASSUME NEW T, T \subseteq Nat, NEW u \in T, \A v \in T : u <= v
    PROVE  (CHOOSE x \in T : \A y \in T : x <= y) = u
<1>1. ASSUME NEW x \in T, \A y \in T : x <= y PROVE x = u
  BY <1>1
<1>2. QED
  BY <1>1

(* The first of the preferred stages that can open is the one that is asked. *)
LEMMA WalkTo ==
    ASSUME NEW pool, pool \subseteq Turns, NEW stage, NEW zone,
           NEW k \in DOMAIN Preference(stage, zone),
           CanOpen(pool, Preference(stage, zone)[k]),
           \A i \in DOMAIN Preference(stage, zone) :
               i < k => Waiting(pool, Preference(stage, zone)[i]) = {}
    PROVE  Walk(pool, stage, zone) = First(pool, Preference(stage, zone)[k])
<1> DEFINE order == Preference(stage, zone)
           open  == {i \in DOMAIN order : CanOpen(pool, order[i])}
<1>1. DOMAIN order \subseteq Nat
  BY DEF Preference
<1>2. k \in open /\ open \subseteq Nat
  BY <1>1
<1>3. \A i \in open : k <= i
  BY <1>1 DEF CanOpen
<1>4. (CHOOSE i \in open : \A j \in open : i <= j) = k
  BY <1>2, <1>3, SmallestIs
<1>5. QED
  BY <1>2, <1>4 DEF Walk

(* The questions after turn t wait, and nothing else does.                  *)
LEMMA DemoWalk ==
    ASSUME Demo, DemoAgenda, NEW t \in 1..Len(Agenda), StageOf(t) # "BEHAVIORAL",
           NEW zone \in ClockZones
    PROVE  Walk((t + 1)..Len(Agenda), StageOf(t), zone) \in {NoTurn, t + 1}
<1> DEFINE pool  == (t + 1)..Len(Agenda)
           s     == StageOf(t)
           n     == StageOf(t + 1)
           order == Preference(s, zone)
<1>1. Len(Agenda) \in Nat /\ DOMAIN Agenda = 1..Len(Agenda)
  BY AgendaAssumption
<1>2. pool \subseteq Turns /\ \A u \in pool : u \in Nat /\ t < u /\ t + 1 <= u
  BY <1>1 DEF Turns, ClosingTurn
<1>3. \A u \in 1..Len(Agenda) : StageOf(u) = Agenda[u] /\ StageOf(u) \in AgendaStages
  BY <1>1, AgendaAssumption DEF StageOf, ClosingTurn
<1>4. CASE pool = {}
  <2>1. \A stage : ~ CanOpen(pool, stage)
    BY <1>4 DEF CanOpen, Waiting
  <2>2. Walk(pool, s, zone) = NoTurn
    BY <2>1 DEF Walk
  <2>3. QED
    BY <2>2
<1>5. CASE pool # {}
  <2>1. t + 1 \in pool /\ t + 1 \in 1..Len(Agenda)
    BY <1>1, <1>5
  <2>2. s \in AgendaStages \ {"BEHAVIORAL"} /\ n \in Later(s)
    BY <1>1, <1>3, <2>1 DEF DemoAgenda
  <2>3. \A u \in pool : StageOf(u) = n \/ StageOf(u) \in Later(n)
    BY <1>1, <1>2, <1>3, <2>1 DEF DemoAgenda
  <2>4. \A stage : stage # n /\ stage \notin Later(n) => Waiting(pool, stage) = {}
    BY <2>3 DEF Waiting
  <2>5. t + 1 \in Waiting(pool, n)
    BY <2>1 DEF Waiting
  <2>6. CanOpen(pool, n)
    <3>1. n = "BEHAVIORAL" => \A u \in pool : ~ IsTechnical(u)
      BY <2>3 DEF Later, IsTechnical, TechnicalStages
    <3>2. QED
      BY <2>5, <3>1 DEF CanOpen
  <2> HIDE DEF pool, s, n
  <2>7. PICK k \in DOMAIN order :
           order[k] = n /\ \A i \in DOMAIN order : i < k => order[i] # n /\ order[i] \notin Later(n)
    <3>1. CASE s = "WARM_UP" \/ (s = "VALIDATE" /\ zone = Opening)
      <4>1. order = <<"VALIDATE", "DEEP_DIVE", "CHALLENGE", "BEHAVIORAL">>
        BY <3>1 DEF Preference
      <4>2. n \in {"VALIDATE", "DEEP_DIVE", "CHALLENGE", "BEHAVIORAL"}
        BY <2>2, <3>1 DEF Later
      <4>3. QED
        BY <4>1, <4>2 DEF Later
    <3>2. CASE s = "VALIDATE" /\ zone # Opening
      <4>1. order = <<"DEEP_DIVE", "CHALLENGE", "BEHAVIORAL">>
        BY <3>2 DEF Preference
      <4>2. n \in {"DEEP_DIVE", "CHALLENGE", "BEHAVIORAL"}
        BY <2>2, <3>2 DEF Later
      <4>3. QED
        BY <4>1, <4>2 DEF Later
    <3>3. CASE s \in {"DEEP_DIVE", "CHALLENGE"}
      <4>1. \/ order = <<"DEEP_DIVE", "CHALLENGE", "BEHAVIORAL">>
            \/ order = <<"CHALLENGE", "DEEP_DIVE", "BEHAVIORAL">>
        BY <3>3 DEF Preference, ClockZones, Opening, Middle, Abandoned
      <4>2. n \in {"CHALLENGE", "BEHAVIORAL"}
        BY <2>2, <3>3 DEF Later
      <4>3. QED
        BY <4>1, <4>2 DEF Later
    <3>4. QED
      BY <2>2, <3>1, <3>2, <3>3 DEF AgendaStages
  <2>8. Walk(pool, s, zone) = First(pool, n)
    BY <1>2, <2>4, <2>6, <2>7, WalkTo
  <2>9. First(pool, n) = t + 1
    <3>1. Waiting(pool, n) \subseteq Nat /\ \A u \in Waiting(pool, n) : t + 1 <= u
      BY <1>2 DEF Waiting
    <3>2. QED
      BY <2>5, <3>1, SmallestIs DEF First
  <2>10. QED
    BY <2>8, <2>9 DEF pool, s
<1>6. QED
  BY <1>4, <1>5

LEMMA DemoNextQuestion ==
    ASSUME Demo, DemoAgenda, NEW t \in Turns, NEW zone \in ClockZones
    PROVE  NextQuestion((t + 1)..Len(Agenda), t, zone) \in {NoTurn, t + 1}
<1> DEFINE pool == (t + 1)..Len(Agenda)
<1>1. Len(Agenda) \in Nat /\ DOMAIN Agenda = 1..Len(Agenda) /\ Turns \subseteq Nat
  BY AgendaAssumption, TurnsAreNat
<1>2. CASE t = ClosingTurn
  <2>1. pool = {} /\ StageOf(t) = "CLOSING"
    BY <1>1, <1>2 DEF ClosingTurn, StageOf
  <2>2. \A stage : ~ CanOpen(pool, stage)
    BY <2>1 DEF CanOpen, Waiting
  <2>3. Walk(pool, StageOf(t), zone) = NoTurn
    BY <2>2 DEF Walk
  <2> HIDE DEF pool
  <2>4. NextQuestion(pool, t, zone) = Walk(pool, StageOf(t), zone)
    BY <2>1 DEF NextQuestion
  <2>5. QED
    BY <2>3, <2>4 DEF pool
<1>3. CASE t \in 1..Len(Agenda) /\ StageOf(t) = "BEHAVIORAL"
  <2>1. pool = {}
    <3>1. Agenda[t] = "BEHAVIORAL"
      BY <1>1, <1>3 DEF StageOf, ClosingTurn
    <3>2. ASSUME NEW u \in pool PROVE FALSE
      <4>1. u \in DOMAIN Agenda /\ t < u
        BY <1>1, <1>3
      <4>2. Agenda[u] \in Later(Agenda[t])
        BY <1>1, <1>3, <4>1 DEF DemoAgenda
      <4>3. QED
        BY <3>1, <4>2 DEF Later
    <3>3. QED
      BY <3>2
  <2>2. t + 1 = ClosingTurn
    <3>1. t + 1 \notin (t + 1)..Len(Agenda)
      BY <2>1
    <3>2. QED
      BY <1>1, <1>3, <3>1 DEF ClosingTurn
  <2>3. Waiting(pool, "BEHAVIORAL") = {}
    BY <2>1 DEF Waiting
  <2>4. QED
    BY <1>3, <2>2, <2>3 DEF NextQuestion
<1>4. CASE t \in 1..Len(Agenda) /\ StageOf(t) # "BEHAVIORAL"
  <2>1. NextQuestion(pool, t, zone) = Walk(pool, StageOf(t), zone)
    BY <1>4 DEF NextQuestion
  <2>2. QED
    BY <1>4, <2>1, DemoWalk
<1>5. QED
  BY <1>1, <1>2, <1>3, <1>4 DEF Turns, ClosingTurn

(* Whatever the candidate says in a demo and however late it is, the engine *)
(* names the next turn or none.                                             *)
LEMMA DemoNamesNext ==
    ASSUME Demo, DemoAgenda, NEW t \in Turns, NEW zone \in ClockZones, NEW probed,
           NEW clarified, NEW questions, NEW uncoop, NEW say,
           NEW o \in HandleTurn((t + 1)..Len(Agenda), t, zone, probed, clarified,
                                questions, uncoop, say)
    PROVE  o.turn \in {NoTurn, t + 1}
<1> DEFINE pool == (t + 1)..Len(Agenda)
           Good(x) == x.turn \in {NoTurn, t + 1}
<1>1. \A action, exit, n : Good(Reply(action, t, zone)) /\ Good(Terminate(exit, n, zone))
  BY DEF Reply, Terminate
<1>2. \A n, named : Good(MoveOn(pool, t, zone, n, named))
  <2>1. TAKE n, named
  <2>2. NextQuestion(pool, t, zone) \in {NoTurn, t + 1}
    BY DemoNextQuestion
  <2>3. QED
    BY <1>1, <2>2 DEF MoveOn, Reply
<1>3. Good([Reply("CLARIFY", t, zone) EXCEPT !.aside = TRUE])
  BY DEF Reply
<1> HIDE DEF Good, pool
<1>4. \A x \in ClosingOutcomes(t, zone, questions, say) : Good(x)
  BY <1>1 DEF ClosingOutcomes
<1>5. \A x \in AnswerOutcomes(pool, t, zone, probed) : Good(x)
  BY <1>1, <1>2 DEF AnswerOutcomes
<1>6. \A x \in GiveUpOutcomes(pool, t, zone, uncoop) : Good(x)
  BY <1>1, <1>2 DEF GiveUpOutcomes
<1>7. \A x \in Assess(pool, t, zone, probed, clarified, uncoop, say) : Good(x)
  BY <1>1, <1>3, <1>5, <1>6 DEF Assess
<1>8. Good(o)
  BY <1>1, <1>2, <1>4, <1>7 DEF HandleTurn, pool
<1>9. QED
  BY <1>8 DEF Good

-----------------------------------------------------------------------------
(* The inductive invariant.                                                 *)

(* A request that waits for the lock carries a message, and one whose       *)
(* message is stored remembers where.                                       *)
EngineSeq ==
    \A r \in Requests : /\ pc[r] = "respond" => msg[r] \in Msgs
                        /\ pc[r] = "engine" => seq[r] \in 1..Len(log)

(* Probes are assistant messages, and never marked as asides.               *)
ProbesAreReplies ==
    \A n \in DOMAIN log :
        log[n].type = "PROBE" => log[n].role = "assistant" /\ ~ log[n].aside

(* A request that decided to probe, and whose reply still fits, is about to *)
(* probe a turn that was not probed.                                        *)
ProbeDue(r) ==
    pc[r] = "engine" /\ seq[r] = Len(log) /\ plan[r].action = "PROBE"
        => ~ ReplyOn(log, view[r].cur, "PROBE") /\ ~ plan[r].aside

ProbeStillDue == \A r \in Requests : ProbeDue(r)

TypeInv == TypeOK /\ EngineSeq

ProbeInv == ProbesAreReplies /\ ProbeStillDue /\ ProbeBudget

-----------------------------------------------------------------------------
(* Data.                                                                    *)

LEMMA NoViewType == NoView \in Views
BY TurnsAreNat DEF NoView, Views, TurnStatuses, Metadata, Marks, UncoopLimit

LEMMA NoPlanType == NoPlan \in Outcomes
BY TurnsAreNat, ReplyIsOutcome DEF NoPlan, Actions, ClockZones, Opening, Abandoned

LEMMA UserMessageType ==
    ASSUME NEW id \in Msgs, NEW t \in Turns, NEW prev \in Seq(Msgs)
    PROVE  UserMessage(id, t, prev) \in Messages
BY DEF UserMessage, Messages, MessageTypes

LEMMA AssistantMessageType ==
    ASSUME NEW type \in MessageTypes, NEW t \in Turns \cup {NoTurn}, NEW aside \in BOOLEAN
    PROVE  AssistantMessage(type, t, aside) \in Messages
BY DEF AssistantMessage, Messages

(* Correcting the kind of a stored message changes nothing else.            *)
LEMMA Retype ==
    ASSUME NEW s \in Seq(Messages), NEW i \in 1..Len(s), NEW kind \in MessageTypes
    PROVE  LET s2 == [s EXCEPT ![i].type = kind]
           IN  /\ s2 \in Seq(Messages)
               /\ Len(s2) = Len(s)
               /\ \A j \in 1..Len(s) :
                     /\ s2[j].role = s[j].role
                     /\ s2[j].turn = s[j].turn
                     /\ s2[j].aside = s[j].aside
                     /\ s2[j].id = s[j].id
                     /\ s2[j].prev = s[j].prev
                     /\ s2[j].type = IF j = i THEN kind ELSE s[j].type
<1> DEFINE e  == [s[i] EXCEPT !.type = kind]
           s2 == [s EXCEPT ![i] = e]
<1>1. s[i] \in Messages
  OBVIOUS
<1>2. /\ e \in Messages
      /\ e.role = s[i].role /\ e.turn = s[i].turn /\ e.aside = s[i].aside
      /\ e.id = s[i].id /\ e.prev = s[i].prev /\ e.type = kind
  BY <1>1 DEF Messages
<1>3. /\ s2 \in Seq(Messages)
      /\ Len(s2) = Len(s)
      /\ \A j \in 1..Len(s) : s2[j] = IF j = i THEN e ELSE s[j]
  BY <1>2, ExceptSeq
<1>4. s2 = [s EXCEPT ![i].type = kind]
  OBVIOUS
<1>5. QED
  BY <1>2, <1>3, <1>4

(* What the engine may decide for a typed request.                          *)
LEMMA DecisionType ==
    ASSUME TypeOK, NEW r \in Requests, NEW lg, NEW say, NEW o \in Decisions(r, lg, say)
    PROVE  /\ o \in Outcomes
           /\ o.action = "PROBE" => ~ ReplyOn(lg, view[r].cur, "PROBE") /\ ~ o.aside
<1> DEFINE v == view[r]
<1>1. v \in Views
  BY DEF TypeOK
<1>2. v.cur \in Turns /\ v.meta.uncoop \in 0..UncoopLimit /\ clock \in ClockZones
  BY <1>1 DEF TypeOK, Views, Metadata
<1>3. Pool(v.turn, v.cur) \subseteq Turns
  BY DEF Pool
<1>4. ReplyOn(lg, v.cur, "PROBE") \in BOOLEAN /\ ReplyOn(lg, v.cur, "CLARIFY") \in BOOLEAN
  BY DEF ReplyOn
<1>5. o \in HandleTurn(Pool(v.turn, v.cur), v.cur, clock,
                   ReplyOn(lg, v.cur, "PROBE"), ReplyOn(lg, v.cur, "CLARIFY"),
                   QuestionsOn(lg, v.cur), v.meta.uncoop, say)
  BY DEF Decisions
<1>6. QED
  BY <1>2, <1>3, <1>4, <1>5, HandleTurnOutcomes

(* A finished request forgets what it knew.                                 *)
LEMMA DoneType ==
    ASSUME TypeOK, NEW r \in Requests, Done(r)
    PROVE  /\ pc' \in [Requests -> {"idle", "respond", "engine", "start"}]
           /\ msg' \in [Requests -> Msgs \cup {NoMsg}]
           /\ view' \in [Requests -> Views]
           /\ seq' \in [Requests -> Nat]
           /\ plan' \in [Requests -> Outcomes]
           /\ \A q \in Requests : pc'[q] # "idle" =>
                 /\ q # r
                 /\ pc'[q] = pc[q] /\ msg'[q] = msg[q] /\ seq'[q] = seq[q]
                 /\ view'[q] = view[q] /\ plan'[q] = plan[q]
BY NoViewType, NoPlanType DEF Done, TypeOK

(* The next turn is a turn, if there is one.                                *)
LEMMA NextTurnType ==
    ASSUME TypeOK, NEW r \in Requests
    PROVE  NextTurn(r) \in Turns \cup {NoTurn}
<1> DEFINE queue == PlannedIn(view[r].turn) \ {view[r].cur}
<1>1. queue \subseteq Turns /\ queue \subseteq Nat
  BY TurnsAreNat DEF PlannedIn
<1>2. queue # {} => (CHOOSE t \in queue : \A u \in queue : t <= u) \in queue
  BY <1>1, SmallestExists
<1>3. QED
  BY <1>1, <1>2, TurnsAreNat DEF NextTurn

-----------------------------------------------------------------------------
(* Type correctness.                                                        *)

LEMMA InitTypeInv == Init => TypeInv
<1> SUFFICES ASSUME Init PROVE TypeInv
  OBVIOUS
<1>1. turn \in [Turns -> TurnStatuses]
  BY DEF Init, TurnStatuses
<1>2. view \in [Requests -> Views] /\ plan \in [Requests -> Outcomes]
  BY NoViewType, NoPlanType DEF Init
<1>3. meta \in Metadata /\ clock \in ClockZones
  BY DEF Init, Metadata, Marks, UncoopLimit, ClockZones, Opening, Abandoned
<1>4. log \in Seq(Messages) /\ answer \in [Turns -> Seq(Msgs)]
  BY DEF Init
<1>5. QED
  BY <1>1, <1>2, <1>3, <1>4 DEF Init, TypeInv, TypeOK, EngineSeq

(* Storing a reply makes the transcript longer.                             *)
LEMMA SayType ==
    ASSUME TypeOK, NEW r \in Requests, NEW type \in MessageTypes,
           NEW t \in Turns \cup {NoTurn}, Say(r, type, t)
    PROVE  /\ log' \in Seq(Messages)
           /\ Len(log') = Len(log) + 1
           /\ aged' \in BOOLEAN
<1>1. plan[r].aside \in BOOLEAN
  BY DEF TypeOK, Outcomes
<1>2. AssistantMessage(type, t, plan[r].aside) \in Messages
  BY <1>1, AssistantMessageType
<1>3. QED
  BY <1>2, AppendProperties DEF Say, TypeOK

LEMMA WithdrawType ==
    ASSUME TypeOK, NEW r \in Requests, seq[r] \in 1..Len(log),
           NEW kind \in MessageTypes, NEW type \in MessageTypes, Withdraw(r, kind, type)
    PROVE  /\ log' \in Seq(Messages)
           /\ Len(log') = Len(log) + 1
           /\ aged' \in BOOLEAN
           /\ answer' \in [Turns -> Seq(Msgs)]
<1>1. view[r] \in Views /\ plan[r].aside \in BOOLEAN
  BY DEF TypeOK, Outcomes
<1>2. view[r].cur \in Turns /\ view[r].prev \in Seq(Msgs)
  BY <1>1 DEF Views
<1>3. AssistantMessage(type, view[r].cur, plan[r].aside) \in Messages
  BY <1>1, <1>2, AssistantMessageType
<1>4. /\ [log EXCEPT ![seq[r]].type = kind] \in Seq(Messages)
      /\ Len([log EXCEPT ![seq[r]].type = kind]) = Len(log)
  <2>1. log \in Seq(Messages)
    BY DEF TypeOK
  <2>2. seq[r] \in 1..Len(log) /\ kind \in MessageTypes
    OBVIOUS
  <2>3. QED
    BY <2>1, <2>2, Retype
<1>5. log' \in Seq(Messages) /\ Len(log') = Len(log) + 1
  BY <1>3, <1>4, AppendProperties DEF Withdraw
<1>6. QED
  BY <1>2, <1>5 DEF Withdraw, TypeOK

LEMMA WriteMetaType ==
    ASSUME TypeOK, NEW r \in Requests, WriteMeta(r)
    PROVE  meta' \in Metadata
<1>1. view[r].meta \in Metadata /\ plan[r].uncoop \in 0..UncoopLimit
  BY DEF TypeOK, Views, Outcomes
<1>2. QED
  BY <1>1 DEF WriteMeta, Metadata

LEMMA WrapUpType ==
    ASSUME TypeOK
    PROVE  WrapUp \in Seq(Messages) /\ Len(WrapUp) >= Len(log)
<1> DEFINE farewell == AssistantMessage("WRAP_UP", NoTurn, FALSE)
<1>1. farewell \in Messages
  BY AssistantMessageType DEF MessageTypes
<1>2. WrapUp = log \/ WrapUp = Append(log, farewell)
  BY DEF WrapUp
<1>3. log \in Seq(Messages) /\ Len(log) \in Nat
  BY DEF TypeOK
<1> HIDE DEF farewell
<1>4. Append(log, farewell) \in Seq(Messages) /\ Len(Append(log, farewell)) = Len(log) + 1
  BY <1>1, <1>3, AppendProperties
<1>5. QED
  BY <1>2, <1>3, <1>4

(* A request that ends while the transcript only grows leaves the others in *)
(* their place.                                                             *)
LEMMA DoneKeepsSeq ==
    ASSUME TypeInv, NEW r \in Requests, Done(r), Len(log') \in Nat, Len(log') >= Len(log)
    PROVE  EngineSeq'
<1>1. TypeOK /\ EngineSeq /\ Len(log) \in Nat
  BY DEF TypeInv, TypeOK
<1>2. \A q \in Requests : pc'[q] # "idle" =>
         pc'[q] = pc[q] /\ msg'[q] = msg[q] /\ seq'[q] = seq[q]
  BY <1>1, DoneType
<1>3. QED
  BY <1>1, <1>2 DEF EngineSeq

LEMMA NextTypeInv == TypeInv /\ [Next]_vars => TypeInv'
<1> SUFFICES ASSUME TypeInv, [Next]_vars PROVE TypeInv'
  OBVIOUS
<1> USE DEF TypeInv
<1>len. Len(log) \in Nat
  BY DEF TypeOK
<1>1. ASSUME NEW r \in Requests, ReadForStart(r) PROVE TypeInv'
  <2>1. [NoView EXCEPT !.opened = log # <<>>] \in Views
    BY NoViewType DEF Views
  <2>2. QED
    BY <1>1, <2>1 DEF ReadForStart, TypeOK, EngineSeq, sessionVars, turnVars, logVars
<1>2. ASSUME NEW r \in Requests, Open(r) PROVE TypeInv'
  <2>1. AssistantMessage("MAIN_QUESTION", 1, FALSE) \in Messages
    BY TurnsAreNat, AssistantMessageType DEF MessageTypes
  <2>2. log' \in Seq(Messages) /\ Len(log') = 1
    <3>1. log' = <<AssistantMessage("MAIN_QUESTION", 1, FALSE)>>
      BY <1>2 DEF Open
    <3>2. \A m \in Messages : <<m>> \in Seq(Messages) /\ Len(<<m>>) = 1
      OBVIOUS
    <3>3. QED
      BY <2>1, <3>1, <3>2
  <2>3. turn' \in [Turns -> TurnStatuses] /\ clock' \in ClockZones /\ aged' \in BOOLEAN
    <3>1. turn' = [turn EXCEPT ![1] = "ASKED"] /\ clock' = Opening /\ aged' = FALSE
      BY <1>2 DEF Open
    <3>2. Opening \in ClockZones
      BY DEF ClockZones, Opening, Abandoned
    <3>3. turn \in [Turns -> TurnStatuses] /\ "ASKED" \in TurnStatuses
      BY DEF TypeOK, TurnStatuses
    <3>4. QED
      BY <3>1, <3>2, <3>3
  <2>4. Done(r) /\ Len(log) = 0
    BY <1>2 DEF Open
  <2>5. EngineSeq'
    BY <2>2, <2>4, DoneKeepsSeq
  <2>6. QED
    BY <1>2, <2>2, <2>3, <2>4, <2>5, DoneType DEF Open, TypeOK
<1>3. ASSUME NEW r \in Requests, CloseOverdue(r) PROVE TypeInv'
  <2>1. Done(r) /\ log' = WrapUp
    BY <1>3 DEF CloseOverdue
  <2>2. log' \in Seq(Messages) /\ Len(log') >= Len(log) /\ Len(log') \in Nat
    BY <2>1, WrapUpType
  <2>3. EngineSeq'
    BY <2>1, <2>2, DoneKeepsSeq
  <2>4. QED
    BY <1>3, <2>1, <2>2, <2>3, DoneType DEF CloseOverdue, Close, EndReasons, TypeOK, turnVars
<1>4. ASSUME NEW r \in Requests, Done(r), UNCHANGED <<sessionVars, turnVars, logVars>>
      PROVE  TypeInv'
  <2>1. Len(log') >= Len(log) /\ Len(log') \in Nat
    BY <1>4, <1>len DEF logVars
  <2>2. EngineSeq'
    BY <1>4, <2>1, DoneKeepsSeq
  <2>3. QED
    BY <1>4, <2>2, DoneType DEF TypeOK, sessionVars, turnVars, logVars
<1>5. ASSUME NEW r \in Requests, Receive(r) PROVE TypeInv'
  <2>1. PICK t \in Turns, id \in Msgs :
           /\ msg' = [msg EXCEPT ![r] = id]
           /\ view' = [view EXCEPT ![r] = [turn |-> turn, cur |-> t, prev |-> answer[t],
                                          meta |-> meta, opened |-> TRUE]]
    BY <1>5 DEF Receive
  <2>2. [turn |-> turn, cur |-> t, prev |-> answer[t], meta |-> meta, opened |-> TRUE] \in Views
    BY DEF TypeOK, Views
  <2>3. view' \in [Requests -> Views] /\ msg' \in [Requests -> Msgs \cup {NoMsg}]
    BY <2>1, <2>2 DEF TypeOK
  <2>4. QED
    BY <1>5, <2>3 DEF Receive, TypeOK, EngineSeq, sessionVars, turnVars, logVars
<1>6. ASSUME NEW r \in Requests, Record(r) PROVE TypeInv'
  <2>1. view[r].cur \in Turns /\ view[r].prev \in Seq(Msgs) /\ msg[r] \in Msgs
    BY <1>6 DEF Record, EngineSeq, TypeOK, Views
  <2>2. /\ log' = Append(log, UserMessage(msg[r], view[r].cur, view[r].prev))
        /\ answer' = [answer EXCEPT ![view[r].cur] = Append(view[r].prev, msg[r])]
    BY <1>6 DEF Record
  <2>3. UserMessage(msg[r], view[r].cur, view[r].prev) \in Messages
    BY <2>1, UserMessageType
  <2>4. log' \in Seq(Messages) /\ Len(log') = Len(log) + 1
    BY <2>2, <2>3, AppendProperties DEF TypeOK
  <2>5. answer' \in [Turns -> Seq(Msgs)]
    BY <2>1, <2>2, AppendProperties DEF TypeOK
  <2>6. PICK say \in Utterances : \E o \in Decisions(r, log', say) :
           plan' = [plan EXCEPT ![r] = o]
    BY <1>6 DEF Record
  <2>7. plan' \in [Requests -> Outcomes]
    BY <2>6, DecisionType DEF TypeOK
  <2>8. seq' \in [Requests -> Nat] /\ pc' \in [Requests -> {"idle", "respond", "engine", "start"}]
    BY <1>6, <1>len DEF Record, TypeOK
  <2>9. EngineSeq'
    BY <1>6, <1>len, <2>4 DEF Record, EngineSeq, TypeOK
  <2>10. QED
    BY <1>6, <2>4, <2>5, <2>7, <2>8, <2>9 DEF Record, TypeOK, sessionVars
<1>7. ASSUME NEW r \in Requests, Recover(r) PROVE TypeInv'
  <2>1. log # <<>> /\ Last \in Messages
    BY <1>7, <1>len DEF Recover, Unanswered, Last, TypeOK
  <2>2. PICK say \in Utterances : \E o \in Decisions(r, log, say) :
           plan' = [plan EXCEPT ![r] = o]
    BY <1>7 DEF Recover
  <2>3. plan' \in [Requests -> Outcomes]
    BY <2>2, DecisionType DEF TypeOK
  <2>4. view' \in [Requests -> Views]
    <3>1. Last.prev \in Seq(Msgs)
      BY <2>1 DEF Messages
    <3>2. [view[r] EXCEPT !.prev = Last.prev] \in Views
      BY <3>1 DEF TypeOK, Views
    <3>3. view' = [view EXCEPT ![r] = [view[r] EXCEPT !.prev = Last.prev]]
      BY <1>7 DEF Recover
    <3>4. QED
      BY <3>2, <3>3 DEF TypeOK
  <2>5. Len(log) \in 1..Len(log)
    BY <2>1, <1>len DEF TypeOK
  <2>6. seq' \in [Requests -> Nat] /\ pc' \in [Requests -> {"idle", "respond", "engine", "start"}]
    BY <1>7, <1>len DEF Recover, TypeOK
  <2>7. EngineSeq'
    BY <1>7, <2>5 DEF Recover, EngineSeq, TypeOK, logVars
  <2>8. QED
    BY <1>7, <2>3, <2>4, <2>6, <2>7 DEF Recover, TypeOK, sessionVars, turnVars, logVars
<1>8. ASSUME NEW r \in Requests, ConfirmAbort(r) \/ Clarify(r) PROVE TypeInv'
  <2>1. /\ Done(r) /\ WriteMeta(r) /\ seq[r] \in 1..Len(log)
        /\ UNCHANGED <<status, endReason, clock, lobby, turn>>
    BY <1>8 DEF ConfirmAbort, Clarify, Replying, EngineSeq
  <2>2. PICK kind \in MessageTypes, type \in MessageTypes : Withdraw(r, kind, type)
    BY <1>8 DEF ConfirmAbort, Clarify, MessageTypes
  <2>3. /\ log' \in Seq(Messages) /\ Len(log') = Len(log) + 1
        /\ aged' \in BOOLEAN /\ answer' \in [Turns -> Seq(Msgs)]
    BY <2>1, <2>2, WithdrawType
  <2>4. meta' \in Metadata
    BY <2>1, WriteMetaType
  <2>5. EngineSeq'
    BY <2>1, <2>3, <1>len, DoneKeepsSeq
  <2>6. QED
    BY <2>1, <2>3, <2>4, <2>5, DoneType DEF TypeOK
<1>9. ASSUME NEW r \in Requests, NEW type \in MessageTypes, NEW t \in Turns \cup {NoTurn},
             Say(r, type, t), WriteMeta(r), Done(r),
             status' \in {"OPEN", "CLOSED"}, endReason' \in EndReasons \cup {"NONE"},
             turn' \in [Turns -> TurnStatuses], UNCHANGED <<clock, lobby, answer>>
      PROVE  TypeInv'
  <2>1. log' \in Seq(Messages) /\ Len(log') = Len(log) + 1 /\ aged' \in BOOLEAN
    BY <1>9, SayType
  <2>2. meta' \in Metadata
    BY <1>9, WriteMetaType
  <2>3. EngineSeq'
    BY <1>9, <2>1, <1>len, DoneKeepsSeq
  <2>4. QED
    BY <1>9, <2>1, <2>2, <2>3, DoneType DEF TypeOK
<1>10. ASSUME NEW r \in Requests, Probe(r) \/ AnswerCandidate(r) PROVE TypeInv'
  <2>1. view[r].cur \in Turns
    BY DEF TypeOK, Views
  <2>2. PICK type \in MessageTypes : Say(r, type, view[r].cur)
    BY <1>10 DEF Probe, AnswerCandidate, MessageTypes
  <2>3. /\ WriteMeta(r) /\ Done(r)
        /\ UNCHANGED <<status, endReason, clock, lobby, turnVars>>
    BY <1>10 DEF Probe, AnswerCandidate
  <2>4. QED
    BY <1>9, <2>1, <2>2, <2>3 DEF TypeOK, turnVars
<1>11. ASSUME NEW r \in Requests, Advance(r) PROVE TypeInv'
  <2> DEFINE next == NextTurn(r)
  <2>1. /\ next \in Turns \cup {NoTurn} /\ turn' = Settle(r, next)
        /\ Say(r, "MAIN_QUESTION", next)
        /\ WriteMeta(r) /\ Done(r)
        /\ UNCHANGED <<status, endReason, clock, lobby, answer>>
    BY <1>11, NextTurnType DEF Advance
  <2>2. turn' \in [Turns -> TurnStatuses]
    <3>1. \A t \in Turns : Settle(r, next)[t] \in TurnStatuses
      BY DEF Settle, TypeOK, TurnStatuses
    <3>2. QED
      BY <2>1, <3>1 DEF Settle
  <2>3. "MAIN_QUESTION" \in MessageTypes
    BY DEF MessageTypes
  <2>4. QED
    BY <1>9, <2>1, <2>2, <2>3 DEF TypeOK
<1>12. ASSUME NEW r \in Requests, Conclude(r) PROVE TypeInv'
  <2>1. /\ turn' = [turn EXCEPT ![view[r].cur] = "ANSWERED"]
        /\ Say(r, "WRAP_UP", NoTurn)
        /\ status' = "CLOSED" /\ endReason' = Verdict(r)
        /\ WriteMeta(r) /\ Done(r)
        /\ UNCHANGED <<clock, lobby, answer>>
    BY <1>12 DEF Conclude, Close
  <2>2. turn' \in [Turns -> TurnStatuses]
    BY <2>1 DEF TypeOK, TurnStatuses
  <2>3. Verdict(r) \in EndReasons
    BY DEF Verdict, EndReasons
  <2>4. "WRAP_UP" \in MessageTypes
    BY DEF MessageTypes
  <2>5. QED
    BY <1>9, <2>1, <2>2, <2>3, <2>4
<1>13. ASSUME UNCHANGED requestVars, log' \in Seq(Messages), Len(log') >= Len(log),
              aged' \in BOOLEAN, status' \in {"OPEN", "CLOSED"},
              endReason' \in EndReasons \cup {"NONE"}, meta' \in Metadata,
              clock' \in ClockZones, lobby' \in {"fresh", "long", "expired"},
              UNCHANGED turnVars
       PROVE  TypeInv'
  <2>1. Len(log') \in Nat
    BY <1>13
  <2>2. EngineSeq'
    BY <1>13, <1>len, <2>1 DEF EngineSeq, requestVars
  <2>3. QED
    BY <1>13, <2>2 DEF TypeOK, requestVars, turnVars
<1>14. CASE Complete
  <2>1. PICK reason \in {"COMPLETED", "USER_ENDED", "TECHNICAL_FAILURE"} : Close(reason)
    BY <1>14 DEF Complete
  <2>2. log' = WrapUp /\ aged' = FALSE /\ UNCHANGED <<meta, clock, lobby, turnVars, requestVars>>
    BY <1>14 DEF Complete
  <2>3. status' \in {"OPEN", "CLOSED"} /\ endReason' \in EndReasons \cup {"NONE"}
    BY <2>1 DEF Close, EndReasons
  <2>4. log' \in Seq(Messages) /\ Len(log') >= Len(log)
    BY <2>2, WrapUpType
  <2>5. QED
    BY <1>13, <2>2, <2>3, <2>4 DEF TypeOK
<1>15. CASE CloseSession \/ Reap
  <2>1. PICK reason \in EndReasons : Close(reason)
    BY <1>15 DEF CloseSession, Reap, ReapReason, EndReasons
  <2>2. UNCHANGED <<meta, clock, lobby, turnVars, logVars, requestVars>>
    BY <1>15 DEF CloseSession, Reap
  <2>3. QED
    BY <1>13, <1>len, <2>1, <2>2 DEF TypeOK, Close, logVars
<1>16. CASE Presence \/ MarksAge
  <2>1. meta' \in Metadata /\ lobby' \in {"fresh", "long", "expired"}
    BY <1>16 DEF Presence, Leave, ReturnToPage, ReturnToRoom, MarksAge, TypeOK, Metadata, Marks
  <2>2. UNCHANGED <<status, endReason, clock, turnVars, logVars, requestVars>>
    BY <1>16 DEF Presence, Leave, ReturnToPage, ReturnToRoom, MarksAge
  <2>3. QED
    BY <1>13, <1>len, <2>1, <2>2 DEF TypeOK, logVars
<1>17. CASE Tick
  <2>1. clock' \in ClockZones /\ lobby' \in {"fresh", "long", "expired"}
    BY <1>17, ZonesAssumption DEF Tick, TypeOK
  <2>2. UNCHANGED <<status, endReason, meta, turnVars, logVars, requestVars>>
    BY <1>17 DEF Tick
  <2>3. QED
    BY <1>13, <1>len, <2>1, <2>2 DEF TypeOK, logVars
<1>18. CASE LobbyAges
  BY <1>13, <1>18, <1>len DEF LobbyAges, TypeOK, logVars
<1>19. CASE MessageAges
  BY <1>13, <1>19, <1>len DEF MessageAges, TypeOK, sessionVars
<1>20. CASE UNCHANGED vars
  BY <1>20 DEF vars, TypeOK, EngineSeq
<1>21. ASSUME NEW r \in Requests, Resume(r) \/ Refuse(r) \/ RollBack(r) \/ Crash(r)
       PROVE  TypeInv'
  BY <1>4, <1>21 DEF Resume, Refuse, RollBack, Crash
<1>22. ASSUME NEW r \in Requests, Start(r) \/ Respond(r) \/ Crash(r) PROVE TypeInv'
  BY <1>1, <1>2, <1>3, <1>5, <1>6, <1>7, <1>8, <1>10, <1>11, <1>12, <1>21, <1>22
     DEF Start, Respond, Commit
<1>23. QED
  BY <1>14, <1>15, <1>16, <1>17, <1>18, <1>19, <1>20, <1>22 DEF Next, Time

(* Every variable keeps its type, and every request between its two         *)
(* transactions remembers a message that is stored: the transcript is       *)
(* never cut (start_chat_session and process_candidate_message only add).   *)
THEOREM TypeCorrect == Spec => []TypeOK
<1>1. TypeInv => TypeOK
  BY DEF TypeInv
<1>2. QED
  BY <1>1, InitTypeInv, NextTypeInv, PTL DEF Spec

-----------------------------------------------------------------------------
(* The end of a session.                                                    *)

(* How a session ended is decided once: every handler that writes status    *)
(* and end_reason finds the session OPEN under the lock or in the WHERE     *)
(* clause of its UPDATE.                                                    *)
THEOREM EndDecidedOnce == Spec => EndIsFinal
<1>1. ASSUME [Next]_vars, status = "CLOSED"
      PROVE  status' = "CLOSED" /\ endReason' = endReason
  <2>1. ASSUME NEW r \in Requests, Start(r)
        PROVE  status' = status /\ endReason' = endReason
    BY <1>1, <2>1 DEF Start, ReadForStart, Open, CloseOverdue, Resume, sessionVars
  <2>2. ASSUME NEW r \in Requests, Respond(r)
        PROVE  status' = status /\ endReason' = endReason
    BY <1>1, <2>2 DEF Respond, Receive, Record, Recover, Refuse, Commit, Replying,
       ConfirmAbort, Clarify, Probe, AnswerCandidate, Advance, Conclude, RollBack, sessionVars
  <2>3. ASSUME NEW r \in Requests, Crash(r)
        PROVE  status' = status /\ endReason' = endReason
    BY <2>3 DEF Crash, sessionVars
  <2>4. CASE Complete \/ CloseSession \/ Reap
    BY <1>1, <2>4 DEF Complete, CloseSession, Reap
  <2>5. CASE Presence \/ Time
    <3>1. CASE Leave
      BY <1>1, <3>1 DEF Leave
    <3>2. CASE ReturnToPage \/ ReturnToRoom
      BY <1>1, <3>2 DEF ReturnToPage, ReturnToRoom
    <3>3. CASE Tick
      BY <1>1, <3>3 DEF Tick
    <3>4. CASE LobbyAges
      BY <1>1, <3>4 DEF LobbyAges
    <3>5. CASE MarksAge
      BY <1>1, <3>5 DEF MarksAge
    <3>6. CASE MessageAges
      BY <1>1, <3>6 DEF MessageAges, sessionVars
    <3>7. QED
      BY <2>5, <3>1, <3>2, <3>3, <3>4, <3>5, <3>6 DEF Presence, Time
  <2>6. CASE UNCHANGED vars
    BY <1>1, <2>6 DEF vars
  <2>7. QED
    BY <1>1, <2>1, <2>2, <2>3, <2>4, <2>5, <2>6 DEF Next
<1>2. [Next]_vars => [status = "CLOSED" => status' = "CLOSED" /\ endReason' = endReason]_vars
  BY <1>1
<1>3. QED
  BY <1>2, PTL DEF Spec, EndIsFinal

-----------------------------------------------------------------------------
(* The probe budget.                                                        *)

(* A step that makes no new probe keeps the probes that there were.         *)
LEMMA NoNewProbe ==
    ASSUME TypeOK, ProbeInv, log' \in Seq(Messages),
           \A n \in 1..Len(log') : log'[n].type = "PROBE" =>
              /\ n \in 1..Len(log)
              /\ log[n].type = "PROBE"
              /\ log'[n].role = log[n].role
              /\ log'[n].turn = log[n].turn
              /\ log'[n].aside = log[n].aside
    PROVE  ProbesAreReplies' /\ ProbeBudget'
<1>1. DOMAIN log' = 1..Len(log') /\ DOMAIN log = 1..Len(log)
  BY DEF TypeOK
<1>2. ProbesAreReplies'
  BY <1>1 DEF ProbeInv, ProbesAreReplies
<1>3. ProbeBudget'
  BY <1>1 DEF ProbeInv, ProbeBudget
<1>4. QED
  BY <1>2, <1>3

(* A request that only waits stays as it was, or its reply no longer fits.  *)
LEMMA WaitingStaysDue ==
    ASSUME TypeInv, ProbeInv, NEW q \in Requests,
           pc'[q] = "engine" => /\ pc[q] = "engine" /\ seq'[q] = seq[q]
                                /\ view'[q] = view[q] /\ plan'[q] = plan[q],
           Len(log') \in Nat, Len(log') > Len(log) \/ log' = log
    PROVE  ProbeDue(q)'
<1> SUFFICES ASSUME pc'[q] = "engine", seq'[q] = Len(log'), plan'[q].action = "PROBE"
             PROVE  ~ ReplyOn(log', view'[q].cur, "PROBE") /\ ~ plan'[q].aside
  BY DEF ProbeDue
<1>1. pc[q] = "engine" /\ seq[q] \in 1..Len(log) /\ Len(log) \in Nat
  BY DEF TypeInv, TypeOK, EngineSeq
<1>2. log' = log
  BY <1>1
<1>3. ProbeDue(q)
  BY DEF ProbeInv, ProbeStillDue
<1>4. QED
  BY <1>1, <1>2, <1>3 DEF ProbeDue

(* Appending to the transcript, possibly after a correction of the kind of  *)
(* a stored message.                                                        *)
LEMMA Appending ==
    ASSUME TypeOK, NEW s \in Seq(Messages), NEW m \in Messages, Len(s) = Len(log),
           log' = Append(s, m), m.type # "PROBE",
           \A j \in 1..Len(log) :
              /\ s[j].role = log[j].role
              /\ s[j].turn = log[j].turn
              /\ s[j].aside = log[j].aside
              /\ s[j].type = "PROBE" => log[j].type = "PROBE"
    PROVE  /\ log' \in Seq(Messages)
           /\ Len(log') = Len(log) + 1
           /\ \A n \in 1..Len(log') : log'[n].type = "PROBE" =>
                 /\ n \in 1..Len(log)
                 /\ log[n].type = "PROBE"
                 /\ log'[n].role = log[n].role
                 /\ log'[n].turn = log[n].turn
                 /\ log'[n].aside = log[n].aside
<1>1. /\ log' \in Seq(Messages) /\ Len(log) \in Nat
      /\ Len(log') = Len(log) + 1
      /\ log'[Len(log) + 1] = m
      /\ \A n \in 1..Len(log) : log'[n] = s[n]
  BY AppendProperties DEF TypeOK
<1>2. QED
  BY <1>1

LEMMA InitProbeInv == Init => ProbeInv
BY DEF Init, ProbeInv, ProbesAreReplies, ProbeStillDue, ProbeDue, ProbeBudget

LEMMA NextProbeInv == TypeInv /\ TypeInv' /\ ProbeInv /\ [Next]_vars => ProbeInv'
<1> SUFFICES ASSUME TypeInv, TypeInv', ProbeInv, [Next]_vars PROVE ProbeInv'
  OBVIOUS
<1>typ. /\ TypeOK /\ log \in Seq(Messages) /\ Len(log) \in Nat
        /\ log' \in Seq(Messages) /\ Len(log') \in Nat
  BY DEF TypeInv, TypeOK
(* The transcript and every waiting request stay as they are.               *)
<1>1. ASSUME log' = log,
             \A q \in Requests : pc'[q] = "engine" =>
                 /\ pc[q] = "engine" /\ seq'[q] = seq[q]
                 /\ view'[q] = view[q] /\ plan'[q] = plan[q]
      PROVE  ProbeInv'
  <2>1. ProbesAreReplies' /\ ProbeBudget'
    BY <1>1, <1>typ, NoNewProbe
  <2>2. \A q \in Requests : ProbeDue(q)'
    BY <1>1, <1>typ, WaitingStaysDue
  <2>3. QED
    BY <2>1, <2>2 DEF ProbeInv, ProbeStillDue
(* Something that is no probe is added to the transcript.                   *)
<1>2. ASSUME NEW s \in Seq(Messages), NEW m \in Messages, Len(s) = Len(log),
             log' = Append(s, m), m.type # "PROBE",
             \A j \in 1..Len(log) :
                /\ s[j].role = log[j].role
                /\ s[j].turn = log[j].turn
                /\ s[j].aside = log[j].aside
                /\ s[j].type = "PROBE" => log[j].type = "PROBE"
      PROVE  /\ ProbesAreReplies' /\ ProbeBudget'
             /\ \A q \in Requests :
                   (pc'[q] = "engine" => /\ pc[q] = "engine" /\ seq'[q] = seq[q]
                                         /\ view'[q] = view[q] /\ plan'[q] = plan[q])
                      => ProbeDue(q)'
  <2>1. /\ Len(log') = Len(log) + 1
        /\ \A n \in 1..Len(log') : log'[n].type = "PROBE" =>
                 /\ n \in 1..Len(log)
                 /\ log[n].type = "PROBE"
                 /\ log'[n].role = log[n].role
                 /\ log'[n].turn = log[n].turn
                 /\ log'[n].aside = log[n].aside
    BY <1>2, <1>typ, Appending
  <2>2. ProbesAreReplies' /\ ProbeBudget'
    BY <1>typ, <2>1, NoNewProbe
  <2>3. Len(log') > Len(log)
    BY <1>typ, <2>1
  <2>4. QED
    BY <1>typ, <2>2, <2>3, WaitingStaysDue
<1>3. ASSUME NEW r \in Requests, Done(r), NEW m \in Messages, log' = Append(log, m),
             m.type # "PROBE"
      PROVE  ProbeInv'
  <2>1. ProbesAreReplies' /\ ProbeBudget' /\ \A q \in Requests : ProbeDue(q)'
    BY <1>2, <1>3, <1>typ, DoneType
  <2>2. QED
    BY <2>1 DEF ProbeInv, ProbeStillDue
<1>4. ASSUME NEW m \in Messages, UNCHANGED requestVars, log' = Append(log, m), m.type # "PROBE"
      PROVE  ProbeInv'
  <2>1. ProbesAreReplies' /\ ProbeBudget' /\ \A q \in Requests : ProbeDue(q)'
    BY <1>2, <1>4, <1>typ DEF requestVars
  <2>2. QED
    BY <2>1 DEF ProbeInv, ProbeStillDue
<1>5. ASSUME NEW r \in Requests, Done(r), log' = log PROVE ProbeInv'
  BY <1>1, <1>5, <1>typ, DoneType
<1>6. ASSUME UNCHANGED requestVars, log' = log PROVE ProbeInv'
  BY <1>1, <1>6 DEF requestVars
<1>wrap. \/ WrapUp = log
         \/ \E m \in Messages : WrapUp = Append(log, m) /\ m.type # "PROBE"
  <2>1. AssistantMessage("WRAP_UP", NoTurn, FALSE) \in Messages
    BY AssistantMessageType DEF MessageTypes
  <2>2. AssistantMessage("WRAP_UP", NoTurn, FALSE).type # "PROBE"
    BY DEF AssistantMessage
  <2>3. QED
    BY <2>1, <2>2 DEF WrapUp
<1>7. ASSUME NEW r \in Requests, ReadForStart(r) PROVE ProbeInv'
  BY <1>1, <1>7, <1>typ DEF ReadForStart, TypeOK, logVars
<1>8. ASSUME NEW r \in Requests, Open(r) PROVE ProbeInv'
  <2>1. log = <<>> /\ log' = <<AssistantMessage("MAIN_QUESTION", 1, FALSE)>> /\ Done(r)
    BY <1>8 DEF Open
  <2>2. AssistantMessage("MAIN_QUESTION", 1, FALSE) \in Messages
    BY TurnsAreNat, AssistantMessageType DEF MessageTypes
  <2>3. \A m \in Messages : <<m>> = Append(<<>>, m)
    OBVIOUS
  <2>4. AssistantMessage("MAIN_QUESTION", 1, FALSE).type # "PROBE"
    BY DEF AssistantMessage
  <2>5. QED
    BY <1>3, <2>1, <2>2, <2>3, <2>4
<1>9. ASSUME NEW r \in Requests, CloseOverdue(r) PROVE ProbeInv'
  <2>1. log' = WrapUp /\ Done(r)
    BY <1>9 DEF CloseOverdue
  <2>2. QED
    BY <1>3, <1>5, <1>wrap, <2>1
<1>10. ASSUME NEW r \in Requests, Receive(r) PROVE ProbeInv'
  <2>1. log' = log /\ seq' = seq /\ plan' = plan /\ pc' = [pc EXCEPT ![r] = "respond"]
    BY <1>10 DEF Receive, logVars
  <2>2. PICK v : view' = [view EXCEPT ![r] = v]
    BY <1>10 DEF Receive
  <2>3. \A q \in Requests : pc'[q] = "engine" => q # r /\ pc[q] = "engine" /\ view'[q] = view[q]
    BY <1>typ, <2>1, <2>2 DEF TypeOK
  <2>4. QED
    BY <1>1, <2>1, <2>3
<1>11. ASSUME NEW r \in Requests, Record(r) PROVE ProbeInv'
  <2> DEFINE m == UserMessage(msg[r], view[r].cur, view[r].prev)
  <2>1. m \in Messages /\ m.type # "PROBE"
    <3>1. view[r].cur \in Turns /\ view[r].prev \in Seq(Msgs) /\ msg[r] \in Msgs
      BY <1>11 DEF Record, TypeInv, EngineSeq, TypeOK, Views
    <3>2. QED
      BY <3>1, UserMessageType DEF UserMessage
  <2>2. log' = Append(log, m)
    BY <1>11 DEF Record
  <2> HIDE DEF m
  <2>3. /\ ProbesAreReplies' /\ ProbeBudget'
        /\ \A q \in Requests :
              (pc'[q] = "engine" => /\ pc[q] = "engine" /\ seq'[q] = seq[q]
                                    /\ view'[q] = view[q] /\ plan'[q] = plan[q])
                 => ProbeDue(q)'
    BY <1>2, <1>typ, <2>1, <2>2
  <2>4. PICK say \in Utterances : \E o \in Decisions(r, log', say) :
           plan' = [plan EXCEPT ![r] = o]
    BY <1>11 DEF Record
  <2>5. /\ view' = view /\ pc' = [pc EXCEPT ![r] = "engine"]
        /\ seq' = [seq EXCEPT ![r] = Len(log) + 1]
    BY <1>11 DEF Record
  <2>6. ProbeDue(r)'
    <3>1. plan'[r] \in Decisions(r, log', say)
      BY <1>typ, <2>4 DEF TypeOK
    <3>2. plan'[r].action = "PROBE"
             => ~ ReplyOn(log', view[r].cur, "PROBE") /\ ~ plan'[r].aside
      BY <1>typ, <3>1, DecisionType
    <3>3. QED
      BY <2>5, <3>2 DEF ProbeDue
  <2>7. \A q \in Requests \ {r} : ProbeDue(q)'
    BY <1>typ, <2>3, <2>4, <2>5 DEF TypeOK
  <2>8. QED
    BY <2>3, <2>6, <2>7 DEF ProbeInv, ProbeStillDue
<1>12. ASSUME NEW r \in Requests, Recover(r) PROVE ProbeInv'
  <2>1. log' = log /\ pc' = [pc EXCEPT ![r] = "engine"] /\ seq' = [seq EXCEPT ![r] = Len(log)]
    BY <1>12 DEF Recover, logVars
  <2>2. PICK say \in Utterances : \E o \in Decisions(r, log, say) :
           plan' = [plan EXCEPT ![r] = o]
    BY <1>12 DEF Recover
  <2>3. view' = [view EXCEPT ![r] = [view[r] EXCEPT !.prev = Last.prev]]
    BY <1>12 DEF Recover
  <2>4. ProbesAreReplies' /\ ProbeBudget'
    BY <1>typ, <2>1, NoNewProbe
  <2>5. ProbeDue(r)'
    <3>1. plan'[r] \in Decisions(r, log, say)
      BY <1>typ, <2>2 DEF TypeOK
    <3>2. plan'[r].action = "PROBE"
             => ~ ReplyOn(log, view[r].cur, "PROBE") /\ ~ plan'[r].aside
      BY <1>typ, <3>1, DecisionType
    <3>3. view'[r].cur = view[r].cur
      BY <1>typ, <2>3 DEF TypeOK, Views
    <3>4. QED
      BY <2>1, <3>2, <3>3 DEF ProbeDue
  <2>6. \A q \in Requests \ {r} :
           pc'[q] = pc[q] /\ seq'[q] = seq[q] /\ view'[q] = view[q] /\ plan'[q] = plan[q]
    BY <1>typ, <2>1, <2>2, <2>3 DEF TypeOK
  <2>7. \A q \in Requests \ {r} : ProbeDue(q)'
    BY <1>typ, <2>1, <2>6, WaitingStaysDue
  <2>8. QED
    BY <2>4, <2>5, <2>7 DEF ProbeInv, ProbeStillDue
<1>13. ASSUME NEW r \in Requests, ConfirmAbort(r) \/ Clarify(r) PROVE ProbeInv'
  <2>1. Done(r) /\ seq[r] \in 1..Len(log)
    BY <1>13 DEF ConfirmAbort, Clarify, Replying, TypeInv, EngineSeq
  <2>2. PICK kind \in MessageTypes \ {"PROBE"}, type \in MessageTypes \ {"PROBE"} :
           Withdraw(r, kind, type)
    BY <1>13 DEF ConfirmAbort, Clarify, MessageTypes
  <2> DEFINE s == [log EXCEPT ![seq[r]].type = kind]
             m == AssistantMessage(type, view[r].cur, plan[r].aside)
  <2>3. log' = Append(s, m)
    BY <2>2 DEF Withdraw
  <2>4. m \in Messages /\ m.type # "PROBE"
    <3>1. view[r].cur \in Turns /\ plan[r].aside \in BOOLEAN
      BY <1>typ DEF TypeOK, Views, Outcomes
    <3>2. QED
      BY <3>1, AssistantMessageType DEF AssistantMessage
  <2>5. /\ s \in Seq(Messages) /\ Len(s) = Len(log)
        /\ \A j \in 1..Len(log) :
              /\ s[j].role = log[j].role
              /\ s[j].turn = log[j].turn
              /\ s[j].aside = log[j].aside
              /\ s[j].type = IF j = seq[r] THEN kind ELSE log[j].type
    BY <1>typ, <2>1, Retype
  <2>6. \A j \in 1..Len(log) : s[j].type = "PROBE" => log[j].type = "PROBE"
    BY <2>5
  <2> HIDE DEF s, m
  <2>7. /\ ProbesAreReplies' /\ ProbeBudget'
        /\ \A q \in Requests :
              (pc'[q] = "engine" => /\ pc[q] = "engine" /\ seq'[q] = seq[q]
                                    /\ view'[q] = view[q] /\ plan'[q] = plan[q])
                 => ProbeDue(q)'
    BY <1>2, <2>3, <2>4, <2>5, <2>6
  <2>8. \A q \in Requests :
           pc'[q] = "engine" => /\ pc[q] = "engine" /\ seq'[q] = seq[q]
                                /\ view'[q] = view[q] /\ plan'[q] = plan[q]
    BY <1>typ, <2>1, DoneType
  <2>9. QED
    BY <2>7, <2>8 DEF ProbeInv, ProbeStillDue
<1>14. ASSUME NEW r \in Requests, Probe(r) PROVE ProbeInv'
  <2> DEFINE m == AssistantMessage("PROBE", view[r].cur, plan[r].aside)
  <2>1. log' = Append(log, m) /\ Done(r) /\ Replying(r) /\ plan[r].action = "PROBE"
    BY <1>14 DEF Probe, Say
  <2>2. ~ ReplyOn(log, view[r].cur, "PROBE") /\ ~ plan[r].aside
    BY <2>1 DEF Replying, ProbeInv, ProbeStillDue, ProbeDue
  <2>3. /\ m \in Messages /\ m.type = "PROBE" /\ m.role = "assistant"
        /\ ~ m.aside /\ m.turn = view[r].cur
    <3>1. view[r].cur \in Turns /\ plan[r].aside \in BOOLEAN
      BY <1>typ DEF TypeOK, Views, Outcomes
    <3>2. QED
      BY <2>2, <3>1, AssistantMessageType DEF AssistantMessage, MessageTypes
  <2> HIDE DEF m
  <2>4. /\ Len(log') = Len(log) + 1 /\ log'[Len(log) + 1] = m
        /\ \A n \in 1..Len(log) : log'[n] = log[n]
    BY <1>typ, <2>1, <2>3, AppendProperties
  <2>5. DOMAIN log' = 1..(Len(log) + 1) /\ DOMAIN log = 1..Len(log)
    BY <1>typ, <2>4
  <2>6. ProbesAreReplies'
    BY <1>typ, <2>3, <2>4, <2>5 DEF ProbeInv, ProbesAreReplies
  <2>7. \A n \in DOMAIN log : log[n].type = "PROBE" => log[n].turn # view[r].cur
    BY <2>2 DEF ProbeInv, ProbesAreReplies, ReplyOn
  <2>8. ProbeBudget'
    BY <1>typ, <2>3, <2>4, <2>5, <2>7 DEF ProbeInv, ProbeBudget
  <2>9. \A q \in Requests : ProbeDue(q)'
    BY <1>typ, <2>1, <2>4, DoneType, WaitingStaysDue, SMTT(40)
  <2>10. QED
    BY <2>6, <2>8, <2>9 DEF ProbeInv, ProbeStillDue
<1>15. ASSUME NEW r \in Requests, AnswerCandidate(r) \/ Advance(r) \/ Conclude(r)
       PROVE  ProbeInv'
  <2>1. PICK type \in MessageTypes \ {"PROBE"}, t \in Turns \cup {NoTurn} :
           Say(r, type, t) /\ Done(r)
    <3>1. view[r].cur \in Turns
      BY <1>typ DEF TypeOK, Views
    <3>2. QED
      BY <1>15, <1>typ, <3>1, NextTurnType DEF AnswerCandidate, Advance, Conclude, MessageTypes
  <2>2. log' = Append(log, AssistantMessage(type, t, plan[r].aside))
    BY <2>1 DEF Say
  <2>3. /\ AssistantMessage(type, t, plan[r].aside) \in Messages
        /\ AssistantMessage(type, t, plan[r].aside).type # "PROBE"
    <3>1. plan[r].aside \in BOOLEAN
      BY <1>typ DEF TypeOK, Outcomes
    <3>2. QED
      BY <3>1, AssistantMessageType DEF AssistantMessage
  <2>4. QED
    BY <1>3, <2>1, <2>2, <2>3
<1>16. CASE Complete
  <2>1. log' = WrapUp /\ UNCHANGED requestVars
    BY <1>16 DEF Complete
  <2>2. QED
    BY <1>4, <1>6, <1>wrap, <2>1
<1>17. CASE CloseSession \/ Reap \/ Presence \/ Time
  <2>1. UNCHANGED log /\ UNCHANGED requestVars
    <3>1. CASE CloseSession
      BY <3>1 DEF CloseSession, logVars
    <3>2. CASE Reap
      BY <3>2 DEF Reap, logVars
    <3>3. CASE Leave
      BY <3>3 DEF Leave, logVars
    <3>4. CASE ReturnToPage \/ ReturnToRoom
      BY <3>4 DEF ReturnToPage, ReturnToRoom, logVars
    <3>5. CASE Tick
      BY <3>5 DEF Tick, logVars
    <3>6. CASE LobbyAges
      BY <3>6 DEF LobbyAges, logVars
    <3>7. CASE MarksAge
      BY <3>7 DEF MarksAge, logVars
    <3>8. CASE MessageAges
      BY <3>8 DEF MessageAges
    <3>9. QED
      BY <1>17, <3>1, <3>2, <3>3, <3>4, <3>5, <3>6, <3>7, <3>8 DEF Presence, Time
  <2>2. QED
    BY <1>6, <2>1
<1>18. CASE UNCHANGED vars
  BY <1>6, <1>18 DEF vars, requestVars
<1>19. ASSUME NEW r \in Requests, Resume(r) \/ Refuse(r) \/ RollBack(r) \/ Crash(r)
       PROVE  ProbeInv'
  BY <1>5, <1>19 DEF Resume, Refuse, RollBack, Crash, logVars
<1>20. ASSUME NEW r \in Requests, Start(r) \/ Respond(r) \/ Crash(r) PROVE ProbeInv'
  BY <1>7, <1>8, <1>9, <1>10, <1>11, <1>12, <1>13, <1>14, <1>15, <1>19, <1>20
     DEF Start, Respond, Commit
<1>21. QED
  BY <1>16, <1>17, <1>18, <1>20 DEF Next

(* No turn is probed twice, whatever requests, retries and crashes do: a    *)
(* request decides on the transcript it read, and the reply it stores only  *)
(* fits when that transcript has not grown.                                 *)
THEOREM ProbeBudgetKept == Spec => []ProbeBudget
<1>1. ProbeInv => ProbeBudget
  BY DEF ProbeInv
<1>2. QED
  BY <1>1, InitTypeInv, NextTypeInv, InitProbeInv, NextProbeInv, PTL DEF Spec

-----------------------------------------------------------------------------
(* The transcript in order.                                                 *)

(* A step of the transcript: what is stored keeps its role, its message id  *)
(* and the answer it remembers, and what is added are the interviewer's     *)
(* words.                                                                   *)
KeepsMessages ==
    \A n \in DOMAIN log :
        /\ n \in DOMAIN log'
        /\ log'[n].role = log[n].role
        /\ log'[n].id = log[n].id
        /\ log'[n].prev = log[n].prev

AddsReplies ==
    \A n \in DOMAIN log' \ DOMAIN log :
        log'[n].role = "assistant" /\ log'[n].id = NoMsg /\ log'[n].prev = <<>>

(* Every sequence of messages that is, or may become, an accumulated        *)
(* answer: the answers, the ones a request read before it took the lock,    *)
(* and the ones a stored message remembers for its recovery.                *)
Accumulated ==
    {answer[t] : t \in Turns}
        \cup {view[r].prev : r \in Requests}
        \cup {log[n].prev : n \in DOMAIN log}
        \cup {<<>>}

NoRepeat(s) == \A m, n \in DOMAIN s : s[m] = s[n] => m = n

OnlyStored(s) == \A n \in DOMAIN s : Places(s[n]) # {}

(* The inductive invariant: the candidate and the interviewer alternate, no *)
(* message is stored twice, and whatever may become an answer holds stored  *)
(* messages, each of them once.                                             *)
Alternating ==
    \A n \in DOMAIN log : n > 1 => ~ (log[n].role = "user" /\ log[n - 1].role = "user")

StoredOnce ==
    \A m, n \in DOMAIN log : log[m].id = log[n].id /\ log[m].id # NoMsg => m = n

AnswersOnce == \A s \in Accumulated : NoRepeat(s) /\ OnlyStored(s)

OrderInv == Alternating /\ StoredOnce /\ AnswersOnce

LEMMA AtMostOne ==
    ASSUME NEW S, \A x, y \in S : x = y
    PROVE  Cardinality(S) <= 1
<1>1. CASE S = {}
  BY <1>1, FS_EmptySet
<1>2. CASE S # {}
  <2>1. PICK x : x \in S
    BY <1>2
  <2>2. S = {x}
    BY <2>1
  <2>3. Cardinality(S) = 1
    BY <2>2, FS_Singleton
  <2>4. QED
    BY <2>3
<1>3. QED
  BY <1>1, <1>2

LEMMA OrderMeans == TypeOK /\ OrderInv => TranscriptInOrder
<1> SUFFICES ASSUME TypeOK, OrderInv PROVE TranscriptInOrder
  OBVIOUS
<1>1. \A n \in DOMAIN log : n > 1 => ~ (log[n].role = "user" /\ log[n - 1].role = "user")
  BY DEF OrderInv, Alternating
<1>2. ASSUME NEW id \in Msgs PROVE Cardinality({n \in DOMAIN log : log[n].id = id}) <= 1
  <2>1. \A m, n \in {n \in DOMAIN log : log[n].id = id} : m = n
    BY <1>2, NoMsgAssumption DEF OrderInv, StoredOnce
  <2>2. QED
    BY <2>1, AtMostOne
<1>3. ASSUME NEW id \in Msgs, NEW t \in Turns
      PROVE  Cardinality({n \in DOMAIN answer[t] : answer[t][n] = id}) <= 1
  <2>1. NoRepeat(answer[t])
    BY DEF OrderInv, AnswersOnce, Accumulated
  <2>2. \A m, n \in {n \in DOMAIN answer[t] : answer[t][n] = id} : m = n
    BY <2>1 DEF NoRepeat
  <2>3. QED
    BY <2>2, AtMostOne
<1>4. QED
  BY <1>1, <1>2, <1>3 DEF TranscriptInOrder

(* A step that stores no candidate message and takes its answers from those *)
(* that there were.                                                         *)
LEMMA OrderKept ==
    ASSUME TypeOK, TypeOK', OrderInv, KeepsMessages, AddsReplies,
           \A t \in Turns : answer'[t] \in Accumulated,
           \A r \in Requests : view'[r].prev \in Accumulated
    PROVE  OrderInv'
<1>1. /\ DOMAIN log = 1..Len(log) /\ Len(log) \in Nat
      /\ DOMAIN log' = 1..Len(log') /\ Len(log') \in Nat
  BY DEF TypeOK
<1>2. Alternating'
  <2>1. SUFFICES ASSUME NEW n \in DOMAIN log', n > 1, log'[n].role = "user",
                        log'[n - 1].role = "user"
                 PROVE  FALSE
    BY DEF Alternating
  <2>2. n \in DOMAIN log
    BY <2>1 DEF AddsReplies
  <2>3. n - 1 \in DOMAIN log
    BY <1>1, <2>1, <2>2
  <2>4. QED
    BY <2>1, <2>2, <2>3 DEF KeepsMessages, OrderInv, Alternating
<1>3. StoredOnce'
  BY DEF KeepsMessages, AddsReplies, OrderInv, StoredOnce
<1>4. \A id : Places(id) # {} => Places(id)' # {}
  BY DEF Places, KeepsMessages
<1>5. Accumulated' \subseteq Accumulated
  <2>1. \A n \in DOMAIN log' : log'[n].prev \in Accumulated
    BY DEF KeepsMessages, AddsReplies, Accumulated
  <2>2. <<>> \in Accumulated
    BY DEF Accumulated
  <2>3. \A x \in Accumulated' : \/ \E t \in Turns : x = answer'[t]
                                \/ \E r \in Requests : x = view'[r].prev
                                \/ \E n \in DOMAIN log' : x = log'[n].prev
                                \/ x = <<>>
    BY DEF Accumulated
  <2>4. QED
    BY <2>1, <2>2, <2>3
<1>6. AnswersOnce'
  <2>1. SUFFICES ASSUME NEW s \in Accumulated' PROVE NoRepeat(s) /\ OnlyStored(s)'
    BY DEF AnswersOnce, NoRepeat
  <2>2. NoRepeat(s) /\ OnlyStored(s)
    BY <1>5 DEF OrderInv, AnswersOnce
  <2>3. QED
    BY <1>4, <2>2 DEF OnlyStored
<1>7. QED
  BY <1>2, <1>3, <1>6 DEF OrderInv


(* The transcript after a reply, possibly after the kind of a stored        *)
(* message was corrected.                                                   *)
LEMMA ReplyAdded ==
    ASSUME TypeOK, NEW s \in Seq(Messages), Len(s) = Len(log),
           \A j \in 1..Len(log) : /\ s[j].role = log[j].role
                                  /\ s[j].id = log[j].id
                                  /\ s[j].prev = log[j].prev,
           NEW type \in MessageTypes, NEW t \in Turns \cup {NoTurn}, NEW aside \in BOOLEAN,
           log' = Append(s, AssistantMessage(type, t, aside))
    PROVE  KeepsMessages /\ AddsReplies
<1> DEFINE m == AssistantMessage(type, t, aside)
<1>1. m \in Messages /\ m.role = "assistant" /\ m.id = NoMsg /\ m.prev = <<>>
  BY AssistantMessageType DEF AssistantMessage
<1> HIDE DEF m
<1>2. /\ DOMAIN log = 1..Len(log) /\ Len(log) \in Nat
      /\ DOMAIN log' = 1..(Len(log) + 1)
      /\ log'[Len(log) + 1] = m
      /\ \A n \in 1..Len(log) : log'[n] = s[n]
  BY <1>1, AppendProperties DEF TypeOK, m
<1>3. KeepsMessages
  BY <1>2 DEF KeepsMessages
<1>4. AddsReplies
  BY <1>1, <1>2 DEF AddsReplies
<1>5. QED
  BY <1>3, <1>4

LEMMA SameLog == log' = log => KeepsMessages /\ AddsReplies
BY DEF KeepsMessages, AddsReplies

(* A plain reply.                                                           *)
LEMMA SayAdds ==
    ASSUME TypeOK, NEW r \in Requests, NEW type \in MessageTypes,
           NEW t \in Turns \cup {NoTurn}, Say(r, type, t)
    PROVE  KeepsMessages /\ AddsReplies
<1>1. plan[r].aside \in BOOLEAN /\ log \in Seq(Messages)
  BY DEF TypeOK, Outcomes
<1>2. log' = Append(log, AssistantMessage(type, t, plan[r].aside))
  BY DEF Say
<1>3. QED
  BY <1>1, <1>2, ReplyAdded

LEMMA WrapUpAdds ==
    ASSUME TypeOK, log' = WrapUp
    PROVE  KeepsMessages /\ AddsReplies
<1>1. CASE log' = log
  BY <1>1, SameLog
<1>2. CASE log' = Append(log, AssistantMessage("WRAP_UP", NoTurn, FALSE))
  <2>1. "WRAP_UP" \in MessageTypes /\ log \in Seq(Messages)
    BY DEF TypeOK, MessageTypes
  <2>2. QED
    BY <1>2, <2>1, ReplyAdded
<1>3. QED
  BY <1>1, <1>2 DEF WrapUp

LEMMA WithdrawAdds ==
    ASSUME TypeOK, NEW r \in Requests, seq[r] \in 1..Len(log),
           NEW kind \in MessageTypes, NEW type \in MessageTypes, Withdraw(r, kind, type)
    PROVE  KeepsMessages /\ AddsReplies
<1> DEFINE s == [log EXCEPT ![seq[r]].type = kind]
<1>1. view[r].cur \in Turns /\ plan[r].aside \in BOOLEAN /\ log \in Seq(Messages)
  BY DEF TypeOK, Views, Outcomes
<1>2. log' = Append(s, AssistantMessage(type, view[r].cur, plan[r].aside))
  BY DEF Withdraw
<1>3. /\ s \in Seq(Messages) /\ Len(s) = Len(log)
      /\ \A j \in 1..Len(log) : /\ s[j].role = log[j].role
                                /\ s[j].id = log[j].id
                                /\ s[j].prev = log[j].prev
  BY <1>1, Retype
<1> HIDE DEF s
<1>4. QED
  BY <1>1, <1>2, <1>3, ReplyAdded

(* Answers that stay as they are, or are put back as they were read.        *)
LEMMA AnswersFrom ==
    ASSUME TypeOK,
           answer' = answer \/ \E r \in Requests :
                                  answer' = [answer EXCEPT ![view[r].cur] = view[r].prev]
    PROVE  \A t \in Turns : answer'[t] \in Accumulated
BY DEF TypeOK, Accumulated

LEMMA ViewsFrom ==
    ASSUME TypeOK, view' = view \/ \E r \in Requests : Done(r)
    PROVE  \A r \in Requests : view'[r].prev \in Accumulated
<1>1. NoView.prev = <<>>
  BY DEF NoView
<1>2. QED
  BY <1>1 DEF TypeOK, Accumulated, Done

LEMMA InitOrderInv == Init => OrderInv
<1> SUFFICES ASSUME Init PROVE OrderInv
  OBVIOUS
<1>1. log = <<>> /\ DOMAIN log = {}
  BY DEF Init
<1>2. \A s \in Accumulated : s = <<>>
  BY <1>1 DEF Init, Accumulated, NoView
<1>3. QED
  BY <1>1, <1>2 DEF OrderInv, Alternating, StoredOnce, AnswersOnce, NoRepeat, OnlyStored

(* A message that is stored, with an answer made of what was read before.   *)
LEMMA StoreKeepsOrder ==
    ASSUME TypeOK, TypeOK', OrderInv,
           NEW id \in Msgs, NEW u \in Turns, NEW prev \in Seq(Msgs), prev \in Accumulated,
           Places(id) = {}, ~ Unanswered, view' = view,
           log' = Append(log, UserMessage(id, u, prev)),
           answer' = [answer EXCEPT ![u] = Append(prev, id)]
    PROVE  OrderInv'
<1> DEFINE m == UserMessage(id, u, prev)
<1>1. log \in Seq(Messages) /\ Len(log) \in Nat
  BY DEF TypeOK
<1>2. log' = Append(log, m)
  OBVIOUS
<1>3. m \in Messages /\ m.id = id /\ m.prev = prev
  BY UserMessageType DEF UserMessage
<1> HIDE DEF m
<1>4. /\ DOMAIN log = 1..Len(log) /\ DOMAIN log' = 1..(Len(log) + 1)
      /\ log'[Len(log) + 1] = m
      /\ \A n \in 1..Len(log) : log'[n] = log[n]
  BY <1>1, <1>2, <1>3, AppendProperties
<1>5. Alternating'
  <2>1. SUFFICES ASSUME NEW n \in DOMAIN log', n > 1, log'[n].role = "user",
                        log'[n - 1].role = "user"
                 PROVE  FALSE
    BY DEF Alternating
  <2>2. CASE n \in 1..Len(log)
    <3>1. n - 1 \in 1..Len(log)
      BY <1>1, <2>1, <2>2
    <3>2. QED
      BY <1>4, <2>1, <2>2, <3>1 DEF OrderInv, Alternating
  <2>3. CASE n = Len(log) + 1
    <3>1. n - 1 = Len(log) /\ Len(log) \in 1..Len(log) /\ log # <<>>
      BY <1>1, <2>1, <2>3
    <3>2. QED
      BY <1>2, <1>4, <2>1, <3>1 DEF Unanswered, Last
  <2>4. QED
    BY <1>4, <2>1, <2>2, <2>3
<1>6. StoredOnce'
  <2>1. \A n \in 1..Len(log) : log[n].id # id
    BY <1>4 DEF Places
  <2>2. QED
    BY <1>3, <1>4, <2>1 DEF OrderInv, StoredOnce
<1>7. \A x : Places(x) # {} \/ x = id => Places(x)' # {}
  <2>1. \A x, n : n \in Places(x) => n \in Places(x)'
    BY <1>1, <1>4 DEF Places
  <2>2. Len(log) + 1 \in Places(id)'
    BY <1>1, <1>3, <1>4 DEF Places
  <2>3. QED
    BY <2>1, <2>2
<1>8. \A s \in Accumulated' : s \in Accumulated \/ s = Append(prev, id)
  <2>1. \A t \in Turns : answer'[t] = answer[t] \/ answer'[t] = Append(prev, id)
    BY <1>1, <1>2 DEF TypeOK
  <2>2. \A n \in DOMAIN log' : log'[n].prev = prev \/ (n \in DOMAIN log /\ log'[n] = log[n])
    BY <1>1, <1>3, <1>4
  <2>3. \A s \in Accumulated' : \/ \E t \in Turns : s = answer'[t]
                                \/ \E q \in Requests : s = view'[q].prev
                                \/ \E n \in DOMAIN log' : s = log'[n].prev
                                \/ s = <<>>
    BY DEF Accumulated
  <2>4. /\ \A t \in Turns : answer[t] \in Accumulated
        /\ \A q \in Requests : view[q].prev \in Accumulated
        /\ \A n \in DOMAIN log : log[n].prev \in Accumulated
        /\ <<>> \in Accumulated
    BY DEF Accumulated
  <2>5. QED
    BY <2>1, <2>2, <2>3, <2>4
<1>9. NoRepeat(prev) /\ OnlyStored(prev)
  BY DEF OrderInv, AnswersOnce, Accumulated
<1>10. NoRepeat(Append(prev, id)) /\ OnlyStored(Append(prev, id))'
  <2> DEFINE s == Append(prev, id)
  <2>1. /\ DOMAIN s = 1..(Len(prev) + 1) /\ DOMAIN prev = 1..Len(prev)
        /\ Len(prev) \in Nat
        /\ s[Len(prev) + 1] = id
        /\ \A n \in 1..Len(prev) : s[n] = prev[n]
    BY <1>1, AppendProperties
  <2>2. \A n \in 1..Len(prev) : prev[n] # id
    BY <1>9, <2>1 DEF OnlyStored
  <2> HIDE DEF s
  <2>4. NoRepeat(s)
    BY <1>9, <2>1, <2>2 DEF NoRepeat
  <2>5. \A n \in DOMAIN s : Places(s[n])' # {}
    BY <1>7, <1>9, <2>1 DEF OnlyStored
  <2>6. QED
    BY <2>4, <2>5 DEF OnlyStored, s
<1>11. AnswersOnce'
  <2>1. SUFFICES ASSUME NEW s \in Accumulated' PROVE NoRepeat(s) /\ OnlyStored(s)'
    BY DEF AnswersOnce, NoRepeat
  <2>2. CASE s \in Accumulated
    <3>1. NoRepeat(s) /\ OnlyStored(s)
      BY <2>2 DEF OrderInv, AnswersOnce
    <3>2. QED
      BY <1>7, <3>1 DEF OnlyStored
  <2>3. CASE s = Append(prev, id)
    BY <1>10, <2>3
  <2>4. QED
    BY <1>8, <2>1, <2>2, <2>3
<1>12. QED
  BY <1>5, <1>6, <1>11 DEF OrderInv


LEMMA NextOrderInv == TypeInv /\ TypeInv' /\ OrderInv /\ [Next]_vars => OrderInv'
<1> SUFFICES ASSUME TypeInv, TypeInv', OrderInv, [Next]_vars PROVE OrderInv'
  OBVIOUS
<1>typ. /\ TypeOK /\ TypeOK' /\ log \in Seq(Messages) /\ Len(log) \in Nat
  BY DEF TypeInv, TypeOK
<1>1. ASSUME KeepsMessages, AddsReplies, view' = view \/ \E r \in Requests : Done(r),
             answer' = answer \/ \E r \in Requests :
                                    answer' = [answer EXCEPT ![view[r].cur] = view[r].prev]
      PROVE  OrderInv'
  BY <1>1, <1>typ, AnswersFrom, ViewsFrom, OrderKept
<1>2. ASSUME NEW r \in Requests, Done(r), UNCHANGED <<answer, log>> PROVE OrderInv'
  BY <1>1, <1>2, SameLog
<1>3. ASSUME NEW r \in Requests, ReadForStart(r) PROVE OrderInv'
  <2>1. KeepsMessages /\ AddsReplies /\ answer' = answer
    BY <1>3, SameLog DEF ReadForStart, logVars, turnVars
  <2>2. \A q \in Requests : view'[q].prev \in Accumulated
    <3>1. view' = [view EXCEPT ![r] = [NoView EXCEPT !.opened = log # <<>>]]
      BY <1>3 DEF ReadForStart
    <3>2. [NoView EXCEPT !.opened = log # <<>>].prev = <<>>
      BY DEF NoView
    <3>3. \A q \in Requests : view'[q].prev = view[q].prev \/ view'[q].prev = <<>>
      BY <1>typ, <3>1, <3>2 DEF TypeOK
    <3>4. QED
      BY <3>3 DEF Accumulated
  <2>3. QED
    BY <1>typ, <2>1, <2>2, AnswersFrom, OrderKept
<1>4. ASSUME NEW r \in Requests, Open(r) PROVE OrderInv'
  <2> DEFINE m == AssistantMessage("MAIN_QUESTION", 1, FALSE)
  <2>1. log = <<>> /\ log' = <<m>> /\ Done(r) /\ answer' = answer
    BY <1>4 DEF Open
  <2>2. m \in Messages
    BY TurnsAreNat, AssistantMessageType DEF MessageTypes
  <2> HIDE DEF m
  <2>3. log' = Append(log, m)
    BY <2>1
  <2>4. KeepsMessages /\ AddsReplies
    BY <1>typ, <2>3, TurnsAreNat, ReplyAdded DEF m, MessageTypes
  <2>5. QED
    BY <1>1, <2>1, <2>4
<1>5. ASSUME NEW r \in Requests, CloseOverdue(r) PROVE OrderInv'
  <2>1. log' = WrapUp /\ Done(r) /\ answer' = answer
    BY <1>5 DEF CloseOverdue, turnVars
  <2>2. QED
    BY <1>1, <1>typ, <2>1, WrapUpAdds
<1>6. ASSUME NEW r \in Requests, Receive(r) PROVE OrderInv'
  <2>1. KeepsMessages /\ AddsReplies /\ answer' = answer
    BY <1>6, SameLog DEF Receive, logVars, turnVars
  <2>2. PICK t \in Turns :
           view' = [view EXCEPT ![r] = [turn |-> turn, cur |-> t, prev |-> answer[t],
                                        meta |-> meta, opened |-> TRUE]]
    BY <1>6 DEF Receive
  <2>3. \A q \in Requests : view'[q].prev = view[q].prev \/ view'[q].prev = answer[t]
    BY <1>typ, <2>2 DEF TypeOK
  <2>4. \A q \in Requests : view'[q].prev \in Accumulated
    BY <2>3 DEF Accumulated
  <2>5. QED
    BY <1>typ, <2>1, <2>4, AnswersFrom, OrderKept
<1>7. ASSUME NEW r \in Requests, Record(r) PROVE OrderInv'
  <2>1. view[r].cur \in Turns /\ view[r].prev \in Seq(Msgs) /\ msg[r] \in Msgs
    BY <1>7 DEF Record, TypeInv, EngineSeq, TypeOK, Views
  <2>2. view[r].prev \in Accumulated
    BY DEF Accumulated
  <2>3. /\ Places(msg[r]) = {} /\ ~ Unanswered /\ view' = view
        /\ log' = Append(log, UserMessage(msg[r], view[r].cur, view[r].prev))
        /\ answer' = [answer EXCEPT ![view[r].cur] = Append(view[r].prev, msg[r])]
    BY <1>7 DEF Record
  <2>4. QED
    BY <1>typ, <2>1, <2>2, <2>3, StoreKeepsOrder
<1>8. ASSUME NEW r \in Requests, Recover(r) PROVE OrderInv'
  <2>1. KeepsMessages /\ AddsReplies /\ answer' = answer
    BY <1>8, SameLog DEF Recover, logVars, turnVars
  <2>2. view' = [view EXCEPT ![r] = [view[r] EXCEPT !.prev = Last.prev]]
    BY <1>8 DEF Recover
  <2>3. \A q \in Requests : view'[q].prev = view[q].prev \/ view'[q].prev = Last.prev
    BY <1>typ, <2>2 DEF TypeOK, Views
  <2>4. Last.prev \in Accumulated
    <3>1. log # <<>> /\ Len(log) \in DOMAIN log
      BY <1>8, <1>typ DEF Recover, Unanswered
    <3>2. QED
      BY <3>1 DEF Last, Accumulated
  <2>5. \A q \in Requests : view'[q].prev \in Accumulated
    BY <2>3, <2>4 DEF Accumulated
  <2>6. QED
    BY <1>typ, <2>1, <2>5, AnswersFrom, OrderKept
<1>9. ASSUME NEW r \in Requests, ConfirmAbort(r) \/ Clarify(r) PROVE OrderInv'
  <2>1. Done(r) /\ seq[r] \in 1..Len(log)
    BY <1>9 DEF ConfirmAbort, Clarify, Replying, TypeInv, EngineSeq
  <2>2. PICK kind \in MessageTypes, type \in MessageTypes : Withdraw(r, kind, type)
    BY <1>9 DEF ConfirmAbort, Clarify, MessageTypes
  <2>3. answer' = [answer EXCEPT ![view[r].cur] = view[r].prev]
    BY <2>2 DEF Withdraw
  <2>4. QED
    BY <1>1, <1>typ, <2>1, <2>2, <2>3, WithdrawAdds
<1>10. ASSUME NEW r \in Requests,
              Probe(r) \/ AnswerCandidate(r) \/ Advance(r) \/ Conclude(r)
       PROVE  OrderInv'
  <2>1. PICK type \in MessageTypes, t \in Turns \cup {NoTurn} : Say(r, type, t)
    <3>1. view[r].cur \in Turns
      BY <1>typ DEF TypeOK, Views
    <3>2. QED
      BY <1>10, <1>typ, <3>1, NextTurnType
         DEF Probe, AnswerCandidate, Advance, Conclude, MessageTypes
  <2>2. Done(r) /\ answer' = answer
    BY <1>10 DEF Probe, AnswerCandidate, Advance, Conclude, turnVars
  <2>3. QED
    BY <1>1, <1>typ, <2>1, <2>2, SayAdds
<1>11. CASE Complete
  <2>1. log' = WrapUp /\ answer' = answer /\ view' = view
    BY <1>11 DEF Complete, turnVars, requestVars
  <2>2. QED
    BY <1>1, <1>typ, <2>1, WrapUpAdds
<1>12. ASSUME UNCHANGED <<answer, log, view>> PROVE OrderInv'
  BY <1>1, <1>12, SameLog
<1>13. CASE CloseSession \/ Reap
  BY <1>12, <1>13 DEF CloseSession, Reap, turnVars, logVars, requestVars
<1>14. CASE Presence
  BY <1>12, <1>14 DEF Presence, Leave, ReturnToPage, ReturnToRoom, turnVars, logVars, requestVars
<1>15. CASE Time
  BY <1>12, <1>15 DEF Time, Tick, LobbyAges, MarksAge, MessageAges, turnVars, logVars, requestVars
<1>16. CASE UNCHANGED vars
  BY <1>12, <1>16 DEF vars
<1>17. ASSUME NEW r \in Requests, Resume(r) \/ Refuse(r) \/ RollBack(r) \/ Crash(r)
       PROVE  OrderInv'
  BY <1>2, <1>17 DEF Resume, Refuse, RollBack, Crash, turnVars, logVars
<1>18. ASSUME NEW r \in Requests, Start(r) \/ Respond(r) \/ Crash(r) PROVE OrderInv'
  BY <1>3, <1>4, <1>5, <1>6, <1>7, <1>8, <1>9, <1>10, <1>17, <1>18
     DEF Start, Respond, Commit
<1>19. QED
  BY <1>11, <1>13, <1>14, <1>15, <1>16, <1>18 DEF Next

(* The transcript alternates, and no message is recorded twice, neither in  *)
(* it nor in an answer, for any number of requests at a time: a request     *)
(* that waited for the lock may put an answer back that is out of date, but *)
(* never one that holds the message it is about to store.                   *)
THEOREM TranscriptStaysInOrder == Spec => []TranscriptInOrder
<1>1. TypeInv /\ OrderInv => TranscriptInOrder
  BY OrderMeans DEF TypeInv
<1>2. QED
  BY <1>1, InitTypeInv, NextTypeInv, InitOrderInv, NextOrderInv, PTL DEF Spec


-----------------------------------------------------------------------------
(* Coverage.                                                                *)

(* A request that is to decide read at least the questions that still wait; *)
(* and only a closed session has an end reason.                             *)
ViewsAhead ==
    \A r \in Requests :
        pc[r] \in {"respond", "engine"} => PlannedIn(turn) \subseteq PlannedIn(view[r].turn)

AskedInv ==
    /\ endReason = "COMPLETED" => status = "CLOSED"
    /\ ViewsAhead
    /\ CompletedMeansAsked

(* A request that goes on with the turns it read, or is new and reads them. *)
GoesOn(r) ==
    pc'[r] \in {"respond", "engine"} =>
        \/ pc[r] \in {"respond", "engine"} /\ view'[r].turn = view[r].turn
        \/ view'[r].turn = turn /\ turn' = turn

(* Questions that wait are never added.                                     *)
LEMMA ViewsStayAhead ==
    ASSUME ViewsAhead, PlannedIn(turn') \subseteq PlannedIn(turn), \A r \in Requests : GoesOn(r)
    PROVE  ViewsAhead'
BY DEF ViewsAhead, GoesOn, PlannedIn

LEMMA DoneGoesOn ==
    ASSUME TypeOK, NEW r \in Requests, Done(r)
    PROVE  \A q \in Requests : GoesOn(q)
BY DoneType DEF GoesOn

LEMMA InitAskedInv == Init => AskedInv
BY DEF Init, AskedInv, ViewsAhead, CompletedMeansAsked

LEMMA NextAskedInv == TypeInv /\ AskedInv /\ [Next]_vars => AskedInv'
<1> SUFFICES ASSUME TypeInv, AskedInv, [Next]_vars PROVE AskedInv'
  OBVIOUS
<1>typ. TypeOK
  BY DEF TypeInv
<1>1. ASSUME PlannedIn(turn') \subseteq PlannedIn(turn), \A r \in Requests : GoesOn(r),
             endReason' = "COMPLETED" => status' = "CLOSED" /\ PlannedIn(turn') = {}
      PROVE  AskedInv'
  BY <1>1, ViewsStayAhead DEF AskedInv, CompletedMeansAsked, PlannedIn
<1>2. ASSUME turn' = turn, \A r \in Requests : GoesOn(r), UNCHANGED <<status, endReason>>
      PROVE  AskedInv'
  BY <1>1, <1>2 DEF AskedInv, CompletedMeansAsked
<1>3. ASSUME NEW r \in Requests, Done(r), turn' = turn, UNCHANGED <<status, endReason>>
      PROVE  AskedInv'
  BY <1>2, <1>3, <1>typ, DoneGoesOn
<1>4. ASSUME UNCHANGED requestVars PROVE \A r \in Requests : GoesOn(r)
  BY <1>4 DEF requestVars, GoesOn
<1>5. ASSUME turn' = turn, UNCHANGED requestVars, UNCHANGED <<status, endReason>>
      PROVE  AskedInv'
  BY <1>2, <1>4, <1>5
<1>6. ASSUME NEW r \in Requests, ReadForStart(r) PROVE AskedInv'
  <2>1. pc' = [pc EXCEPT ![r] = "start"]
    BY <1>6 DEF ReadForStart
  <2>2. \A q \in Requests \ {r} : view'[q] = view[q]
    BY <1>6, <1>typ DEF ReadForStart, TypeOK
  <2>3. \A q \in Requests : GoesOn(q)
    BY <1>typ, <2>1, <2>2 DEF GoesOn, TypeOK
  <2>4. QED
    BY <1>2, <1>6, <2>3 DEF ReadForStart, sessionVars, turnVars
<1>7. ASSUME NEW r \in Requests, Open(r) PROVE AskedInv'
  <2>1. PlannedIn(turn') \subseteq PlannedIn(turn)
    BY <1>7, <1>typ DEF Open, PlannedIn, TypeOK
  <2>2. Done(r) /\ UNCHANGED <<status, endReason>>
    BY <1>7 DEF Open
  <2>3. QED
    BY <1>1, <1>typ, <2>1, <2>2, DoneGoesOn DEF AskedInv, CompletedMeansAsked
<1>8. ASSUME NEW r \in Requests, CloseOverdue(r) PROVE AskedInv'
  <2>1. Done(r) /\ turn' = turn /\ endReason' = "HARD_TIMEOUT"
    BY <1>8 DEF CloseOverdue, Close, turnVars
  <2>2. QED
    BY <1>1, <1>typ, <2>1, DoneGoesOn
<1>9. ASSUME NEW r \in Requests, Receive(r) PROVE AskedInv'
  <2>1. PICK t \in Turns :
           view' = [view EXCEPT ![r] = [turn |-> turn, cur |-> t, prev |-> answer[t],
                                        meta |-> meta, opened |-> TRUE]]
    BY <1>9 DEF Receive
  <2>2. pc' = [pc EXCEPT ![r] = "respond"] /\ turn' = turn /\ UNCHANGED <<status, endReason>>
    BY <1>9 DEF Receive, turnVars, sessionVars
  <2>3. \A q \in Requests : GoesOn(q)
    BY <1>typ, <2>1, <2>2 DEF GoesOn, TypeOK
  <2>4. QED
    BY <1>2, <2>2, <2>3
<1>10. ASSUME NEW r \in Requests, Record(r) \/ Recover(r) PROVE AskedInv'
  <2>1. pc[r] = "respond" /\ pc' = [pc EXCEPT ![r] = "engine"]
    BY <1>10 DEF Record, Recover
  <2>2. \A q \in Requests : view'[q].turn = view[q].turn
    <3>1. CASE Record(r)
      BY <3>1 DEF Record
    <3>2. CASE Recover(r)
      <4>1. view' = [view EXCEPT ![r] = [view[r] EXCEPT !.prev = Last.prev]]
        BY <3>2 DEF Recover
      <4>2. [view[r] EXCEPT !.prev = Last.prev].turn = view[r].turn
        BY <1>typ DEF TypeOK, Views
      <4>3. QED
        BY <1>typ, <4>1, <4>2 DEF TypeOK
    <3>3. QED
      BY <1>10, <3>1, <3>2
  <2>3. \A q \in Requests : GoesOn(q)
    BY <1>typ, <2>1, <2>2 DEF GoesOn, TypeOK
  <2>4. turn' = turn /\ UNCHANGED <<status, endReason>>
    BY <1>10 DEF Record, Recover, turnVars, sessionVars
  <2>5. QED
    BY <1>2, <2>3, <2>4
<1>11. ASSUME NEW r \in Requests,
              ConfirmAbort(r) \/ Clarify(r) \/ Probe(r) \/ AnswerCandidate(r)
       PROVE  AskedInv'
  BY <1>3, <1>11 DEF ConfirmAbort, Clarify, Probe, AnswerCandidate, turnVars
<1>12. ASSUME NEW r \in Requests, Advance(r) PROVE AskedInv'
  <2>1. turn' = Settle(r, NextTurn(r)) /\ Done(r) /\ UNCHANGED <<status, endReason>>
    BY <1>12 DEF Advance
  <2>2. \A t \in Turns : turn'[t] = "PLANNED" => turn[t] = "PLANNED"
    BY <2>1 DEF Settle
  <2>3. PlannedIn(turn') \subseteq PlannedIn(turn)
    BY <2>2 DEF PlannedIn
  <2>4. QED
    BY <1>1, <1>typ, <2>1, <2>3, DoneGoesOn DEF AskedInv, CompletedMeansAsked
(* Nothing that the request saw waits but the turn it answers, and nothing  *)
(* waits that it did not see.                                               *)
<1>13. ASSUME NEW r \in Requests, Conclude(r) PROVE AskedInv'
  <2>1. /\ pc[r] = "engine" /\ Done(r)
        /\ turn' = [turn EXCEPT ![view[r].cur] = "ANSWERED"]
        /\ status' = "CLOSED" /\ endReason' = Verdict(r)
    BY <1>13 DEF Conclude, Replying, Close
  <2>2. view[r].cur \in Turns /\ turn \in [Turns -> TurnStatuses]
    BY <1>typ DEF TypeOK, Views
  <2>3. PlannedIn(turn') = PlannedIn(turn) \ {view[r].cur}
    BY <2>1, <2>2 DEF PlannedIn
  <2>4. Verdict(r) = "COMPLETED" => Unfinished(view[r].turn) \subseteq {view[r].cur}
    BY DEF Verdict
  <2>5. PlannedIn(turn) \subseteq Unfinished(view[r].turn)
    BY <2>1 DEF AskedInv, ViewsAhead, PlannedIn, Unfinished
  <2>6. endReason' = "COMPLETED" => PlannedIn(turn') = {}
    BY <2>1, <2>3, <2>4, <2>5
  <2>7. QED
    BY <1>1, <1>typ, <2>1, <2>3, <2>6, DoneGoesOn
<1>14. CASE Complete
  <2>1. PICK reason \in {"COMPLETED", "USER_ENDED", "TECHNICAL_FAILURE"} :
           (reason = "COMPLETED" => Completable) /\ Close(reason)
    BY <1>14 DEF Complete
  <2>2. turn' = turn /\ UNCHANGED requestVars
    BY <1>14 DEF Complete, turnVars
  <2>3. Completable => PlannedIn(turn) = {}
    BY DEF Completable, Unfinished, PlannedIn
  <2>4. QED
    BY <1>1, <1>4, <2>1, <2>2, <2>3 DEF Close
<1>15. CASE CloseSession \/ Reap
  <2>1. endReason' # "COMPLETED"
    BY <1>15 DEF CloseSession, Reap, ReapReason, Close
  <2>2. turn' = turn /\ UNCHANGED requestVars
    BY <1>15 DEF CloseSession, Reap, turnVars
  <2>3. QED
    BY <1>1, <1>4, <2>1, <2>2
<1>16. CASE Presence
  BY <1>5, <1>16 DEF Presence, Leave, ReturnToPage, ReturnToRoom, turnVars
<1>17. CASE Time
  BY <1>5, <1>17 DEF Time, Tick, LobbyAges, MarksAge, MessageAges, turnVars, sessionVars
<1>18. CASE UNCHANGED vars
  BY <1>5, <1>18 DEF vars, requestVars
<1>19. ASSUME NEW r \in Requests, Resume(r) \/ Refuse(r) \/ RollBack(r) \/ Crash(r)
       PROVE  AskedInv'
  BY <1>3, <1>19 DEF Resume, Refuse, RollBack, Crash, turnVars, sessionVars
<1>20. ASSUME NEW r \in Requests, Start(r) \/ Respond(r) \/ Crash(r) PROVE AskedInv'
  BY <1>6, <1>7, <1>8, <1>9, <1>10, <1>11, <1>12, <1>13, <1>19, <1>20
     DEF Start, Respond, Commit
<1>21. QED
  BY <1>14, <1>15, <1>16, <1>17, <1>18, <1>20 DEF Next

(* A session that ends as COMPLETED, by a client's assertion or by a        *)
(* request that counted on turns read long before, leaves no question       *)
(* waiting to be asked: what waits only becomes less.                       *)
THEOREM CompletedLeavesNothingWaiting == Spec => []CompletedMeansAsked
<1>1. AskedInv => CompletedMeansAsked
  BY DEF AskedInv
<1>2. QED
  BY <1>1, InitTypeInv, NextTypeInv, InitAskedInv, NextAskedInv, PTL DEF Spec


-----------------------------------------------------------------------------
(* The conversation, for requests that do not overlap.                      *)

OneAtATime == \A q, r \in Requests : q = r

(* The inductive invariant: what the one request read still stands when it  *)
(* stores and replies; a message without a reply is the last of the answer  *)
(* to the question that is open; and nothing was asked before the opening.  *)
CurrentViews ==
    \A r \in Requests : pc[r] \in {"respond", "engine"} =>
        view[r].turn = turn /\ AskedIn(turn) = {view[r].cur}

CurrentAnswers ==
    \A r \in Requests : pc[r] = "respond" => view[r].prev = answer[view[r].cur]

UnansweredIsAsked ==
    Unanswered => /\ AskedIn(turn) = {Last.turn}
                  /\ answer[Last.turn] = Append(Last.prev, Last.id)

ReplyDue ==
    \A r \in Requests : pc[r] = "engine" /\ seq[r] = Len(log) =>
        Unanswered /\ Last.prev = view[r].prev /\ Last.turn = view[r].cur

NothingBefore == log = <<>> => AskedIn(turn) = {} /\ Settled = {}

AgendaExists == \A t \in Turns \ {ClosingTurn} : turn[t] # "ABSENT"

SerialInv ==
    /\ CurrentViews /\ CurrentAnswers
    /\ UnansweredIsAsked /\ ReplyDue
    /\ NothingBefore /\ AgendaExists

LEMMA InitSerialInv == Init => SerialInv
<1> SUFFICES ASSUME Init PROVE SerialInv
  OBVIOUS
<1>1. \A t \in Turns : turn[t] = IF t = ClosingTurn THEN "ABSENT" ELSE "PLANNED"
  BY DEF Init
<1>2. NothingBefore /\ AgendaExists
  BY <1>1 DEF NothingBefore, AgendaExists, AskedIn, Settled
<1>3. CurrentViews /\ CurrentAnswers /\ ReplyDue
  BY DEF Init, CurrentViews, CurrentAnswers, ReplyDue
<1>4. UnansweredIsAsked
  BY DEF Init, UnansweredIsAsked, Unanswered
<1>5. QED
  BY <1>2, <1>3, <1>4 DEF SerialInv

(* The last message after a reply is the interviewer's.                     *)
LEMMA LastIsReply ==
    ASSUME TypeOK, TypeOK', KeepsMessages, AddsReplies, Len(log') = Len(log) + 1
    PROVE  log' # <<>> /\ ~ Unanswered'
<1>1. /\ DOMAIN log = 1..Len(log) /\ Len(log) \in Nat
      /\ DOMAIN log' = 1..Len(log') /\ Len(log') \in Nat
  BY DEF TypeOK
<1>2. Len(log') \notin DOMAIN log /\ Len(log') \in 1..Len(log')
  BY <1>1
<1>3. log'[Len(log')].role = "assistant"
  <2>1. Len(log') \in DOMAIN log'
    BY <1>1, <1>2
  <2>2. QED
    BY <1>2, <2>1 DEF AddsReplies
<1>4. log' # <<>>
  BY <1>1
<1>5. QED
  BY <1>3, <1>4 DEF Unanswered, Last

(* The one request is over.                                                 *)
LEMMA AllIdle ==
    ASSUME OneAtATime, TypeOK, NEW r \in Requests, Done(r)
    PROVE  /\ \A q \in Requests : pc'[q] = "idle"
           /\ CurrentViews' /\ CurrentAnswers' /\ ReplyDue'
<1>1. \A q \in Requests : pc'[q] = "idle"
  BY DEF OneAtATime, Done, TypeOK
<1>2. QED
  BY <1>1 DEF CurrentViews, CurrentAnswers, ReplyDue

(* The request is over with a reply.                                        *)
LEMMA SerialReply ==
    ASSUME OneAtATime, TypeOK, TypeOK', SerialInv, NEW r \in Requests, Done(r),
           KeepsMessages, AddsReplies, Len(log') = Len(log) + 1,
           \A t \in Turns : turn'[t] = "ABSENT" => turn[t] = "ABSENT"
    PROVE  SerialInv'
<1>1. CurrentViews' /\ CurrentAnswers' /\ ReplyDue'
  BY AllIdle
<1>2. UnansweredIsAsked' /\ NothingBefore'
  BY LastIsReply DEF UnansweredIsAsked, NothingBefore
<1>3. AgendaExists'
  BY DEF SerialInv, AgendaExists
<1>4. QED
  BY <1>1, <1>2, <1>3 DEF SerialInv

(* The rows stay as they are, or only the wrap-up is added.                 *)
LEMMA SerialRows ==
    ASSUME TypeOK, TypeOK', SerialInv, turn' = turn, answer' = answer,
           log' = log \/ (KeepsMessages /\ AddsReplies /\ Len(log') = Len(log) + 1)
    PROVE  UnansweredIsAsked' /\ NothingBefore' /\ AgendaExists'
<1>1. AgendaExists'
  BY DEF SerialInv, AgendaExists
<1>2. CASE log' = log
  BY <1>1, <1>2 DEF SerialInv, UnansweredIsAsked, NothingBefore, Unanswered, Last, Settled
<1>3. CASE KeepsMessages /\ AddsReplies /\ Len(log') = Len(log) + 1
  BY <1>1, <1>3, LastIsReply DEF UnansweredIsAsked, NothingBefore
<1>4. QED
  BY <1>2, <1>3

LEMMA WrapUpGrows ==
    ASSUME TypeOK, log' = WrapUp
    PROVE  log' = log \/ (KeepsMessages /\ AddsReplies /\ Len(log') = Len(log) + 1)
<1> DEFINE m == AssistantMessage("WRAP_UP", NoTurn, FALSE)
<1>1. KeepsMessages /\ AddsReplies
  BY WrapUpAdds
<1>2. m \in Messages /\ log \in Seq(Messages)
  BY AssistantMessageType DEF TypeOK, MessageTypes
<1>3. log' = log \/ log' = Append(log, m)
  BY DEF WrapUp
<1> HIDE DEF m
<1>4. Len(Append(log, m)) = Len(log) + 1
  BY <1>2, AppendProperties
<1>5. QED
  BY <1>1, <1>3, <1>4

LEMMA NextSerialInv ==
    ASSUME OneAtATime, TypeInv, TypeInv', SerialInv, [Next]_vars
    PROVE  SerialInv'
<1>typ. /\ TypeOK /\ TypeOK' /\ log \in Seq(Messages) /\ Len(log) \in Nat
  BY DEF TypeInv, TypeOK
<1>one. \A q, r \in Requests : q = r
  BY DEF OneAtATime
<1>1. ASSUME NEW r \in Requests, Done(r), UNCHANGED turnVars, log' = log PROVE SerialInv'
  BY <1>1, <1>typ, AllIdle, SerialRows DEF SerialInv, turnVars
<1>2. ASSUME UNCHANGED turnVars, UNCHANGED log, UNCHANGED requestVars PROVE SerialInv'
  BY <1>2 DEF SerialInv, CurrentViews, CurrentAnswers, UnansweredIsAsked, ReplyDue,
              NothingBefore, AgendaExists, Unanswered, Last, Settled, AskedIn,
              turnVars, requestVars
<1>3. ASSUME NEW r \in Requests, ReadForStart(r) PROVE SerialInv'
  <2>1. \A q \in Requests : pc'[q] = "start"
    BY <1>3, <1>one, <1>typ DEF ReadForStart, TypeOK
  <2>2. CurrentViews' /\ CurrentAnswers' /\ ReplyDue'
    BY <2>1 DEF CurrentViews, CurrentAnswers, ReplyDue
  <2>3. turn' = turn /\ answer' = answer /\ log' = log
    BY <1>3 DEF ReadForStart, turnVars, logVars
  <2>4. QED
    BY <1>typ, <2>2, <2>3, SerialRows DEF SerialInv
<1>4. ASSUME NEW r \in Requests, Open(r) PROVE SerialInv'
  <2> DEFINE m == AssistantMessage("MAIN_QUESTION", 1, FALSE)
  <2>1. log = <<>> /\ log' = <<m>> /\ Done(r) /\ turn' = [turn EXCEPT ![1] = "ASKED"]
    BY <1>4 DEF Open
  <2>2. m \in Messages
    BY TurnsAreNat, AssistantMessageType DEF MessageTypes
  <2> HIDE DEF m
  <2>3. log' = Append(log, m) /\ Len(log') = Len(log) + 1
    BY <2>1
  <2>4. KeepsMessages /\ AddsReplies
    BY <1>typ, <2>3, TurnsAreNat, ReplyAdded DEF m, MessageTypes
  <2>5. \A t \in Turns : turn'[t] = "ABSENT" => turn[t] = "ABSENT"
    BY <1>typ, <2>1 DEF TypeOK
  <2>6. QED
    BY <1>typ, <2>1, <2>3, <2>4, <2>5, SerialReply
<1>5. ASSUME NEW r \in Requests, CloseOverdue(r) PROVE SerialInv'
  <2>1. log' = WrapUp /\ Done(r) /\ turn' = turn /\ answer' = answer
    BY <1>5 DEF CloseOverdue, turnVars
  <2>2. log' = log \/ (KeepsMessages /\ AddsReplies /\ Len(log') = Len(log) + 1)
    BY <1>typ, <2>1, WrapUpGrows
  <2>3. QED
    BY <1>typ, <2>1, <2>2, AllIdle, SerialRows DEF SerialInv
<1>6. ASSUME NEW r \in Requests, Receive(r) PROVE SerialInv'
  <2>1. PICK t \in Turns :
           /\ Answerable(t)
           /\ view' = [view EXCEPT ![r] = [turn |-> turn, cur |-> t, prev |-> answer[t],
                                           meta |-> meta, opened |-> TRUE]]
    BY <1>6 DEF Receive
  <2>2. AskedIn(turn) = {t}
    BY <2>1 DEF Answerable
  <2>3. /\ pc' = [pc EXCEPT ![r] = "respond"]
        /\ turn' = turn /\ answer' = answer /\ log' = log
    BY <1>6 DEF Receive, turnVars, logVars
  <2>4. \A q \in Requests : /\ pc'[q] = "respond"
                            /\ view'[q].turn = turn
                            /\ view'[q].cur = t
                            /\ view'[q].prev = answer[t]
    BY <1>one, <1>typ, <2>1, <2>3 DEF TypeOK
  <2>5. CurrentViews' /\ CurrentAnswers' /\ ReplyDue'
    BY <2>2, <2>3, <2>4 DEF CurrentViews, CurrentAnswers, ReplyDue, AskedIn
  <2>6. QED
    BY <1>typ, <2>3, <2>5, SerialRows DEF SerialInv
<1>7. ASSUME NEW r \in Requests, Record(r) PROVE SerialInv'
  <2> DEFINE u == view[r].cur
             m == UserMessage(msg[r], u, view[r].prev)
  <2>1. view[r].cur \in Turns /\ view[r].prev \in Seq(Msgs) /\ msg[r] \in Msgs
    BY <1>7 DEF Record, TypeInv, EngineSeq, TypeOK, Views
  <2>2. /\ pc[r] = "respond" /\ pc' = [pc EXCEPT ![r] = "engine"]
        /\ log' = Append(log, m)
        /\ answer' = [answer EXCEPT ![u] = Append(view[r].prev, msg[r])]
        /\ view' = view /\ turn' = turn
    BY <1>7 DEF Record
  <2>3. /\ m \in Messages /\ m.role = "user" /\ m.id = msg[r]
        /\ m.prev = view[r].prev /\ m.turn = u
    BY <2>1, UserMessageType DEF UserMessage
  <2>4. view[r].turn = turn /\ AskedIn(turn) = {u}
    BY <2>2 DEF SerialInv, CurrentViews
  <2> HIDE DEF m
  <2>5. Len(log') = Len(log) + 1 /\ log'[Len(log) + 1] = m /\ log' # <<>>
    BY <1>typ, <2>2, <2>3, AppendProperties
  <2>6. Unanswered' /\ Last' = m
    BY <2>3, <2>5 DEF Unanswered, Last
  <2>7. answer'[u] = Append(view[r].prev, msg[r])
    BY <1>typ, <2>1, <2>2 DEF TypeOK
  <2>8. UnansweredIsAsked'
    BY <2>2, <2>3, <2>4, <2>6, <2>7 DEF UnansweredIsAsked, AskedIn
  <2>9. \A q \in Requests : pc'[q] = "engine" /\ q = r
    BY <1>one, <1>typ, <2>2 DEF TypeOK
  <2>10. CurrentViews' /\ CurrentAnswers' /\ ReplyDue'
    BY <2>2, <2>3, <2>4, <2>6, <2>9 DEF CurrentViews, CurrentAnswers, ReplyDue, AskedIn
  <2>11. NothingBefore' /\ AgendaExists'
    BY <2>2, <2>5 DEF NothingBefore, AgendaExists, SerialInv
  <2>12. QED
    BY <2>8, <2>10, <2>11 DEF SerialInv
<1>8. ASSUME NEW r \in Requests, Recover(r) PROVE SerialInv'
  <2>1. /\ pc[r] = "respond" /\ pc' = [pc EXCEPT ![r] = "engine"] /\ Unanswered
        /\ turn' = turn /\ answer' = answer /\ log' = log
    BY <1>8 DEF Recover, turnVars, logVars
  <2>2. view' = [view EXCEPT ![r] = [view[r] EXCEPT !.prev = Last.prev]]
    BY <1>8 DEF Recover
  <2>3. /\ view'[r].prev = Last.prev
        /\ view'[r].cur = view[r].cur
        /\ view'[r].turn = view[r].turn
    BY <1>typ, <2>2 DEF TypeOK, Views
  <2>4. view[r].turn = turn /\ AskedIn(turn) = {view[r].cur} /\ AskedIn(turn) = {Last.turn}
    BY <2>1 DEF SerialInv, CurrentViews, UnansweredIsAsked
  <2>5. Last' = Last /\ Unanswered'
    BY <2>1 DEF Last, Unanswered
  <2>6. \A q \in Requests : pc'[q] = "engine" /\ q = r
    BY <1>one, <1>typ, <2>1 DEF TypeOK
  <2>7. CurrentViews' /\ CurrentAnswers' /\ ReplyDue'
    BY <2>1, <2>3, <2>4, <2>5, <2>6 DEF CurrentViews, CurrentAnswers, ReplyDue, AskedIn
  <2>8. QED
    BY <1>typ, <2>1, <2>7, SerialRows DEF SerialInv
<1>9. ASSUME NEW r \in Requests, ConfirmAbort(r) \/ Clarify(r) PROVE SerialInv'
  <2>1. Done(r) /\ seq[r] \in 1..Len(log) /\ turn' = turn
    BY <1>9 DEF ConfirmAbort, Clarify, Replying, TypeInv, EngineSeq
  <2>2. PICK kind \in MessageTypes, type \in MessageTypes : Withdraw(r, kind, type)
    BY <1>9 DEF ConfirmAbort, Clarify, MessageTypes
  <2>3. KeepsMessages /\ AddsReplies /\ Len(log') = Len(log) + 1
    BY <1>typ, <2>1, <2>2, WithdrawAdds, WithdrawType
  <2>4. QED
    BY <1>typ, <2>1, <2>3, SerialReply
<1>10. ASSUME NEW r \in Requests,
              Probe(r) \/ AnswerCandidate(r) \/ Advance(r) \/ Conclude(r)
       PROVE  SerialInv'
  <2>1. PICK type \in MessageTypes, t \in Turns \cup {NoTurn} : Say(r, type, t)
    <3>1. view[r].cur \in Turns
      BY <1>typ DEF TypeOK, Views
    <3>2. QED
      BY <1>10, <1>typ, <3>1, NextTurnType
         DEF Probe, AnswerCandidate, Advance, Conclude, MessageTypes
  <2>2. Done(r)
    BY <1>10 DEF Probe, AnswerCandidate, Advance, Conclude
  <2>3. KeepsMessages /\ AddsReplies /\ Len(log') = Len(log) + 1
    BY <1>typ, <2>1, SayAdds, SayType
  <2>4. \A u \in Turns : turn'[u] = "ABSENT" => turn[u] = "ABSENT"
    <3>1. CASE Probe(r) \/ AnswerCandidate(r)
      BY <3>1 DEF Probe, AnswerCandidate, turnVars
    <3>2. CASE Advance(r)
      BY <3>2 DEF Advance, Settle
    <3>3. CASE Conclude(r)
      BY <3>3, <1>typ DEF Conclude, TypeOK
    <3>4. QED
      BY <1>10, <3>1, <3>2, <3>3
  <2>5. QED
    BY <1>typ, <2>2, <2>3, <2>4, SerialReply
<1>11. CASE Complete
  <2>1. /\ log' = WrapUp /\ turn' = turn /\ answer' = answer
        /\ pc' = pc /\ view' = view /\ seq' = seq
    BY <1>11 DEF Complete, turnVars, requestVars
  <2>2. log' = log \/ (KeepsMessages /\ AddsReplies /\ Len(log') = Len(log) + 1)
    BY <1>typ, <2>1, WrapUpGrows
  <2>3. CurrentViews' /\ CurrentAnswers'
    BY <2>1 DEF SerialInv, CurrentViews, CurrentAnswers, AskedIn
  <2>4. ReplyDue'
    <3>1. CASE log' = log
      BY <2>1, <3>1 DEF SerialInv, ReplyDue, Unanswered, Last
    <3>2. CASE Len(log') = Len(log) + 1
      BY <1>typ, <2>1, <3>2 DEF ReplyDue, TypeInv, EngineSeq
    <3>3. QED
      BY <2>2, <3>1, <3>2
  <2>5. UnansweredIsAsked' /\ NothingBefore' /\ AgendaExists'
    BY <1>typ, <2>1, <2>2, SerialRows
  <2>6. QED
    BY <2>3, <2>4, <2>5 DEF SerialInv
<1>12. CASE CloseSession \/ Reap
  BY <1>2, <1>12 DEF CloseSession, Reap, logVars
<1>13. CASE Presence
  BY <1>2, <1>13 DEF Presence, Leave, ReturnToPage, ReturnToRoom, logVars
<1>14. CASE Time
  BY <1>2, <1>14 DEF Time, Tick, LobbyAges, MarksAge, MessageAges, logVars
<1>15. CASE UNCHANGED vars
  BY <1>2, <1>15 DEF vars, turnVars, requestVars
<1>16. ASSUME NEW r \in Requests, Resume(r) \/ Refuse(r) \/ RollBack(r) \/ Crash(r)
       PROVE  SerialInv'
  BY <1>1, <1>16 DEF Resume, Refuse, RollBack, Crash, logVars
<1>17. ASSUME NEW r \in Requests, Start(r) \/ Respond(r) \/ Crash(r) PROVE SerialInv'
  BY <1>3, <1>4, <1>5, <1>6, <1>7, <1>8, <1>9, <1>10, <1>16, <1>17
     DEF Start, Respond, Commit
<1>18. QED
  BY <1>11, <1>12, <1>13, <1>14, <1>15, <1>17 DEF Next


(* The definitions of the abstract module are those of the engine.          *)
LEMMA SameEngine ==
    /\ Conversation!Turns = Turns
    /\ Conversation!Agreed = Turns \ {ClosingTurn}
    /\ \A t : Conversation!StageOf(t) = StageOf(t)
    /\ \A t : Conversation!IsTechnical(t) <=> IsTechnical(t)
<1>1. Conversation!Turns = Turns
  BY DEF Conversation!Turns, Conversation!ClosingTurn, Turns, ClosingTurn
<1>2. \A t : Conversation!StageOf(t) = StageOf(t)
  BY DEF Conversation!StageOf, Conversation!ClosingTurn, StageOf, ClosingTurn
<1>3. \A t : Conversation!IsTechnical(t) <=> IsTechnical(t)
  BY <1>2 DEF Conversation!IsTechnical, Conversation!TechnicalStages,
              IsTechnical, TechnicalStages
<1>4. Conversation!Agreed = Turns \ {ClosingTurn}
  BY AgendaAssumption DEF Conversation!Agreed, Turns, ClosingTurn
<1>5. QED
  BY <1>1, <1>2, <1>3, <1>4

LEMMA ConversationBegins == Init => Conversation!Init
<1> SUFFICES ASSUME Init PROVE Conversation!Init
  OBVIOUS
<1>1. \A t \in Turns : turn[t] \in {"PLANNED", "ABSENT"}
  BY DEF Init
<1>2. AskedIn(turn) = {} /\ Settled = {}
  BY <1>1 DEF AskedIn, Settled
<1>3. answer = [t \in Turns |-> <<>>] /\ status = "OPEN" /\ endReason = "NONE"
  BY DEF Init
<1>4. QED
  BY <1>2, <1>3, SameEngine DEF Conversation!Init

(* A step that the conversation does not see.                               *)
LEMMA Unseen ==
    ASSUME UNCHANGED <<turn, answer, status, endReason>>
    PROVE  UNCHANGED Conversation!vars
BY DEF Conversation!vars, AskedIn, Settled

(* An end from outside.                                                     *)
LEMMA Ended ==
    ASSUME TypeOK, AgendaExists, UNCHANGED <<turn, answer>>, status = "OPEN",
           NEW reason \in EndReasons, Close(reason),
           reason = "COMPLETED" => Unfinished(turn) = {}
    PROVE  Conversation!Next
<1>1. AskedIn(turn)' = AskedIn(turn) /\ Settled' = Settled
  BY DEF AskedIn, Settled
<1>2. reason = "COMPLETED" => AskedIn(turn) = {} /\ Turns \ {ClosingTurn} \subseteq Settled
  BY DEF AskedIn, Settled, Unfinished, AgendaExists, TypeOK, TurnStatuses
<1>3. Conversation!End(reason)
  BY <1>1, <1>2, SameEngine DEF Conversation!End, Close
<1>4. QED
  BY <1>3 DEF Conversation!Next, EndReasons

(* The next question was waiting, or is the closing turn, and becomes the   *)
(* only one that is open.                                                   *)
LEMMA AskedMoves ==
    ASSUME TypeOK, SerialInv, NEW r \in Requests, Advance(r), NEW next, next = NextTurn(r)
    PROVE  /\ next \in Turns /\ next # view[r].cur
           /\ next \notin Settled \cup AskedIn(turn)
           /\ \A t \in Turns :
                 turn'[t] = IF t = next THEN "ASKED"
                            ELSE IF t = view[r].cur THEN "ANSWERED"
                            ELSE IF /\ StageOf(next) = "BEHAVIORAL"
                                    /\ IsTechnical(t) /\ turn[t] = "PLANNED" THEN "SKIPPED"
                            ELSE turn[t]
           /\ AskedIn(turn') = {next}
<1> DEFINE cur == view[r].cur
<1>1. /\ pc[r] = "engine" /\ next # NoTurn
      /\ StageOf(cur) # "CLOSING"
      /\ next = ClosingTurn => turn[ClosingTurn] = "ABSENT"
      /\ turn' = Settle(r, next)
  BY DEF Advance, Replying
<1>2. view[r].turn = turn /\ AskedIn(turn) = {cur} /\ cur \in Turns
  BY <1>1 DEF SerialInv, CurrentViews, TypeOK, Views
<1>3. next \in Turns
  BY <1>1, NextTurnType
<1>4. cur # ClosingTurn
  BY <1>1 DEF StageOf
<1>5. next = ClosingTurn \/ next \in PlannedIn(turn) \ {cur}
  <2> DEFINE queue == PlannedIn(turn) \ {cur}
  <2>1. queue \subseteq Nat
    BY TurnsAreNat DEF PlannedIn
  <2>2. queue # {} => (CHOOSE t \in queue : \A u \in queue : t <= u) \in queue
    BY <2>1, SmallestExists
  <2>3. QED
    BY <1>1, <1>2, <2>2 DEF NextTurn
<1>6. next # cur /\ next \notin Settled \cup AskedIn(turn)
  BY <1>1, <1>4, <1>5 DEF Settled, AskedIn, PlannedIn
<1> HIDE DEF cur
<1>7. \A t \in Turns : turn'[t] = Settle(r, next)[t]
  BY <1>1
<1>8. \A t \in Turns :
         turn'[t] = IF t = next THEN "ASKED"
                    ELSE IF t = cur THEN "ANSWERED"
                    ELSE IF /\ StageOf(next) = "BEHAVIORAL"
                            /\ IsTechnical(t) /\ turn[t] = "PLANNED" THEN "SKIPPED"
                    ELSE turn[t]
  BY <1>2, <1>6, <1>7 DEF Settle, cur
<1>9. AskedIn(turn') = {next}
  BY <1>2, <1>3, <1>8 DEF AskedIn
<1>10. QED
  BY <1>3, <1>6, <1>8, <1>9 DEF cur

(* What is opened was waiting, and opening the behavioral turn settles      *)
(* every technical one.                                                     *)
LEMMA MovedOn ==
    ASSUME TypeOK, SerialInv, NEW r \in Requests, Advance(r)
    PROVE  Conversation!Next
<1> DEFINE cur  == view[r].cur
           next == NextTurn(r)
<1>1. /\ status = "OPEN" /\ pc[r] = "engine"
      /\ UNCHANGED <<status, endReason, answer>>
  BY DEF Advance, Replying
<1>2. view[r].turn = turn /\ AskedIn(turn) = {cur} /\ cur \in Turns
  BY <1>1 DEF SerialInv, CurrentViews, TypeOK, Views
<1> HIDE DEF next, cur
<1>3. next \in Turns /\ next # cur /\ next \notin Settled \cup AskedIn(turn)
  BY AskedMoves DEF next, cur
<1>8. \A t \in Turns :
         turn'[t] = IF t = next THEN "ASKED"
                    ELSE IF t = cur THEN "ANSWERED"
                    ELSE IF /\ StageOf(next) = "BEHAVIORAL"
                            /\ IsTechnical(t) /\ turn[t] = "PLANNED" THEN "SKIPPED"
                    ELSE turn[t]
  BY AskedMoves DEF next, cur
<1>9. AskedIn(turn') = {next}
  BY AskedMoves DEF next
<1>10. {t \in Turns : turn'[t] \in {"ANSWERED", "SKIPPED"}} =
          Settled \cup AskedIn(turn)
            \cup (IF StageOf(next) = "BEHAVIORAL"
                  THEN {u \in Turns \ {ClosingTurn} : IsTechnical(u)} ELSE {})
  <2>1. ASSUME NEW t \in Turns
        PROVE  turn'[t] \in {"ANSWERED", "SKIPPED"} <=>
                 \/ turn[t] \in {"ANSWERED", "SKIPPED"} \/ t = cur
                 \/ StageOf(next) = "BEHAVIORAL" /\ t # ClosingTurn /\ IsTechnical(t)
    <3>1. CASE t = next
      <4>1. turn[t] \notin {"ANSWERED", "SKIPPED"} /\ t # cur
        BY <1>3, <3>1 DEF Settled
      <4>2. StageOf(next) = "BEHAVIORAL" => ~ IsTechnical(next)
        BY DEF IsTechnical, TechnicalStages
      <4>3. turn'[t] = "ASKED"
        BY <1>8, <3>1
      <4>4. QED
        BY <3>1, <4>1, <4>2, <4>3
    <3>2. CASE t = cur
      BY <1>3, <1>8, <3>2
    <3>3. CASE t \notin {next, cur}
      <4>1. turn[t] # "ASKED" /\ turn[t] \in TurnStatuses
        BY <1>2, <3>3 DEF AskedIn, TypeOK
      <4>2. t # ClosingTurn => turn[t] # "ABSENT"
        BY DEF SerialInv, AgendaExists
      <4>3. t = ClosingTurn => ~ IsTechnical(t)
        BY DEF IsTechnical, TechnicalStages, StageOf
      <4>4. turn'[t] = IF /\ StageOf(next) = "BEHAVIORAL"
                          /\ IsTechnical(t) /\ turn[t] = "PLANNED"
                       THEN "SKIPPED" ELSE turn[t]
        BY <1>8, <3>3
      <4>5. QED
        BY <3>3, <4>1, <4>2, <4>3, <4>4 DEF TurnStatuses
    <3>4. QED
      BY <3>1, <3>2, <3>3
  <2>2. QED
    BY <1>2, <2>1 DEF Settled
<1>11. Settled' = Settled \cup AskedIn(turn)
          \cup (IF StageOf(next) = "BEHAVIORAL"
                THEN {u \in Turns \ {ClosingTurn} : IsTechnical(u)} ELSE {})
  BY <1>10 DEF Settled
<1>12. AskedIn(turn)' = {next}
  BY <1>9 DEF AskedIn
<1>13. Conversation!MoveTo(next)
  BY <1>1, <1>2, <1>3, <1>11, <1>12, SameEngine DEF Conversation!MoveTo
<1>14. QED
  BY <1>3, <1>13, SameEngine DEF Conversation!Next

(* The last answer: the session ends by itself.                             *)
LEMMA Concluded ==
    ASSUME TypeOK, SerialInv, NEW r \in Requests, Conclude(r)
    PROVE  Conversation!Next
<1> DEFINE cur == view[r].cur
<1>1. /\ status = "OPEN" /\ pc[r] = "engine"
      /\ turn' = [turn EXCEPT ![cur] = "ANSWERED"]
      /\ status' = "CLOSED" /\ endReason' = Verdict(r) /\ answer' = answer
  BY DEF Conclude, Replying, Close
<1>2. view[r].turn = turn /\ AskedIn(turn) = {cur} /\ cur \in Turns
  BY <1>1 DEF SerialInv, CurrentViews, TypeOK, Views
<1>3. \A t \in Turns : turn'[t] = IF t = cur THEN "ANSWERED" ELSE turn[t]
  BY <1>1, <1>2 DEF TypeOK
<1>4. AskedIn(turn)' = {}
  BY <1>2, <1>3 DEF AskedIn
<1>5. Settled' = Settled \cup AskedIn(turn)
  BY <1>2, <1>3 DEF Settled
<1>6. Verdict(r) = "COMPLETED" => Turns \ {ClosingTurn} \subseteq Settled'
  <2>1. Verdict(r) = "COMPLETED" => Unfinished(turn) \subseteq {cur}
    BY <1>2 DEF Verdict
  <2>2. \A t \in Turns \ {ClosingTurn} : turn[t] \in TurnStatuses \ {"ABSENT"}
    BY DEF SerialInv, AgendaExists, TypeOK
  <2>3. \A t \in Turns \ {ClosingTurn} :
           t \notin Unfinished(turn) => turn[t] \in {"ANSWERED", "SKIPPED"}
    BY <2>2 DEF Unfinished, TurnStatuses
  <2>4. QED
    BY <1>2, <1>5, <2>1, <2>3 DEF Settled
<1>7. Verdict(r) \in EndReasons
  BY DEF Verdict, EndReasons
<1> HIDE DEF cur
<1>8. Conversation!End(Verdict(r))
  BY <1>1, <1>4, <1>5, <1>6, SameEngine DEF Conversation!End
<1>9. QED
  BY <1>7, <1>8 DEF Conversation!Next, EndReasons

(* A message that is stored is heard: it is added to the answer that is     *)
(* open, as it stands.                                                      *)
LEMMA Heard ==
    ASSUME TypeInv, OrderInv, SerialInv, NEW r \in Requests, Record(r)
    PROVE  Conversation!Next
<1> DEFINE cur == view[r].cur
<1>1. /\ pc[r] = "respond" /\ Places(msg[r]) = {}
      /\ answer' = [answer EXCEPT ![cur] = Append(view[r].prev, msg[r])]
      /\ turn' = turn /\ UNCHANGED <<status, endReason>>
  BY DEF Record, sessionVars
<1>2. TypeOK /\ AskedIn(turn) = {cur} /\ view[r].prev = answer[cur] /\ msg[r] \in Msgs
  BY <1>1 DEF SerialInv, CurrentViews, CurrentAnswers, TypeInv, EngineSeq
<1>3. answer' = [answer EXCEPT ![cur] = Append(@, msg[r])]
  BY <1>1, <1>2
<1>4. AskedIn(turn)' = AskedIn(turn) /\ Settled' = Settled
  BY <1>1 DEF AskedIn, Settled
<1>5. \A u \in Turns : \A n \in DOMAIN answer[u] : answer[u][n] # msg[r]
  <2>1. \A u \in Turns : OnlyStored(answer[u])
    BY DEF OrderInv, AnswersOnce, Accumulated
  <2>2. QED
    BY <1>1, <2>1 DEF OnlyStored
<1>6. Conversation!Hear(msg[r])
  BY <1>1, <1>2, <1>3, <1>4, <1>5, SameEngine DEF Conversation!Hear
<1>7. QED
  BY <1>2, <1>6 DEF Conversation!Next

(* Cutting off what was appended last.                                      *)
LEMMA CutLast ==
    ASSUME NEW S, NEW s \in Seq(S), NEW x \in S
    PROVE  LET a == Append(s, x)
           IN  a # <<>> /\ SubSeq(a, 1, Len(a) - 1) = s
<1> DEFINE a == Append(s, x)
           b == SubSeq(a, 1, Len(a) - 1)
<1>1. /\ a \in Seq(S) /\ Len(a) = Len(s) + 1 /\ Len(s) \in Nat
      /\ \A i \in 1..Len(s) : a[i] = s[i]
  BY AppendProperties
<1>2. Len(a) - 1 = Len(s)
  BY <1>1
<1> HIDE DEF a
<1>3. b = SubSeq(a, 1, Len(s))
  BY <1>2
<1>4. SubSeq(a, 1, Len(s)) = [i \in 1..Len(s) |-> a[i]]
  BY <1>1
<1>5. s = [i \in 1..Len(s) |-> s[i]]
  BY <1>1
<1>6. b = s
  BY <1>1, <1>3, <1>4, <1>5
<1>7. QED
  BY <1>1, <1>6 DEF a

(* A message that was no answer is taken back.                              *)
LEMMA TakenBack ==
    ASSUME TypeOK, OneAtATime, SerialInv, NEW r \in Requests, NEW kind, NEW type,
           Replying(r), Withdraw(r, kind, type), UNCHANGED <<turn, status, endReason>>
    PROVE  Conversation!Next
<1> DEFINE cur == view[r].cur
<1>1. /\ AskedIn(turn) = {cur} /\ cur \in Turns
      /\ Unanswered /\ Last.prev = view[r].prev /\ Last.turn = cur
  BY DEF Replying, SerialInv, CurrentViews, ReplyDue, TypeOK, Views
<1>2. answer[cur] = Append(view[r].prev, Last.id)
  BY <1>1 DEF SerialInv, UnansweredIsAsked
<1>3. answer[cur] # <<>> /\ SubSeq(answer[cur], 1, Len(answer[cur]) - 1) = view[r].prev
  <2>1. view[r].prev \in Seq(Msgs \cup {NoMsg})
    <3>1. view[r].prev \in Seq(Msgs)
      BY DEF TypeOK, Views
    <3>2. QED
      BY <3>1
  <2>2. Last.id \in Msgs \cup {NoMsg}
    <3>1. log \in Seq(Messages) /\ log # <<>>
      BY <1>1 DEF TypeOK, Unanswered
    <3>2. Last \in Messages
      BY <3>1 DEF Last
    <3>3. QED
      BY <3>2 DEF Messages
  <2>3. QED
    BY <1>2, <2>1, <2>2, CutLast
<1>4. answer' = [answer EXCEPT ![cur] = view[r].prev]
  BY DEF Withdraw
<1>5. answer' = [answer EXCEPT ![cur] = SubSeq(@, 1, Len(@) - 1)]
  BY <1>3, <1>4
<1>6. AskedIn(turn)' = AskedIn(turn) /\ Settled' = Settled
  BY DEF AskedIn, Settled
<1>7. Conversation!TakeBack
  BY <1>1, <1>3, <1>5, <1>6 DEF Conversation!TakeBack
<1>8. QED
  BY <1>7 DEF Conversation!Next

LEMMA ConversationGoesOn ==
    ASSUME OneAtATime, TypeInv, OrderInv, SerialInv, [Next]_vars
    PROVE  [Conversation!Next]_(Conversation!vars)
<1>typ. TypeOK /\ AgendaExists
  BY DEF TypeInv, SerialInv
<1>1. ASSUME UNCHANGED <<turnVars, sessionVars>> PROVE UNCHANGED Conversation!vars
  BY <1>1, Unseen DEF turnVars, sessionVars
<1>2. ASSUME NEW r \in Requests, Open(r) PROVE Conversation!Next
  <2>1. /\ log = <<>> /\ turn' = [turn EXCEPT ![1] = "ASKED"]
        /\ UNCHANGED <<status, endReason, answer>>
    BY <1>2 DEF Open
  <2>2. AskedIn(turn) = {} /\ Settled = {}
    BY <2>1 DEF SerialInv, NothingBefore
  <2>3. \A t \in Turns : turn'[t] = IF t = 1 THEN "ASKED" ELSE turn[t]
    BY <1>typ, <2>1 DEF TypeOK
  <2>4. AskedIn(turn)' = {1} /\ Settled' = {}
    BY <2>2, <2>3, TurnsAreNat DEF AskedIn, Settled
  <2>5. Conversation!Begin
    BY <2>1, <2>2, <2>4 DEF Conversation!Begin
  <2>6. QED
    BY <2>5 DEF Conversation!Next
<1>3. ASSUME NEW r \in Requests, CloseOverdue(r) PROVE Conversation!Next
  BY <1>3, <1>typ, Ended DEF CloseOverdue, turnVars, EndReasons
<1>4. ASSUME NEW r \in Requests, ConfirmAbort(r) \/ Clarify(r) PROVE Conversation!Next
  <2>1. PICK kind, type : Withdraw(r, kind, type)
    BY <1>4 DEF ConfirmAbort, Clarify
  <2>2. Replying(r) /\ UNCHANGED <<turn, status, endReason>>
    BY <1>4 DEF ConfirmAbort, Clarify
  <2>3. QED
    BY <1>typ, <2>1, <2>2, TakenBack
<1>5. ASSUME NEW r \in Requests, Probe(r) \/ AnswerCandidate(r)
      PROVE  UNCHANGED Conversation!vars
  BY <1>5, Unseen DEF Probe, AnswerCandidate, turnVars
<1>6. ASSUME NEW r \in Requests,
             ReadForStart(r) \/ Resume(r) \/ Receive(r) \/ Recover(r) \/ Refuse(r)
                \/ RollBack(r) \/ Crash(r)
      PROVE  UNCHANGED Conversation!vars
  BY <1>1, <1>6 DEF ReadForStart, Resume, Receive, Recover, Refuse, RollBack, Crash
<1>7. CASE Complete
  <2>1. PICK reason \in {"COMPLETED", "USER_ENDED", "TECHNICAL_FAILURE"} :
           (reason = "COMPLETED" => Completable) /\ Close(reason)
    BY <1>7 DEF Complete
  <2>2. status = "OPEN" /\ UNCHANGED <<turn, answer>>
    BY <1>7 DEF Complete, turnVars
  <2>3. Conversation!Next
    BY <1>typ, <2>1, <2>2, Ended DEF Completable, EndReasons
  <2>4. QED
    BY <2>3
<1>8. CASE CloseSession \/ Reap
  <2>1. PICK reason \in EndReasons \ {"COMPLETED"} : Close(reason)
    BY <1>8 DEF CloseSession, Reap, ReapReason, EndReasons
  <2>2. status = "OPEN" /\ UNCHANGED <<turn, answer>>
    BY <1>8 DEF CloseSession, Reap, turnVars
  <2>3. Conversation!Next
    BY <1>typ, <2>1, <2>2, Ended
  <2>4. QED
    BY <2>3
<1>9. CASE Presence
  BY <1>9, Unseen DEF Presence, Leave, ReturnToPage, ReturnToRoom, turnVars
<1>10. CASE Time
  BY <1>10, Unseen DEF Time, Tick, LobbyAges, MarksAge, MessageAges, turnVars, sessionVars
<1>11. CASE UNCHANGED vars
  BY <1>11, Unseen DEF vars
<1>12. ASSUME NEW r \in Requests, Start(r) \/ Respond(r) \/ Crash(r)
       PROVE  [Conversation!Next]_(Conversation!vars)
  BY <1>2, <1>3, <1>4, <1>5, <1>6, <1>12, <1>typ, MovedOn, Concluded, Heard
     DEF Start, Respond, Commit
<1>13. QED
  BY <1>7, <1>8, <1>9, <1>10, <1>11, <1>12 DEF Next

(* A candidate whose requests do not overlap has the conversation that      *)
(* AbstractSession promises, for every agenda, whatever crashes, retries    *)
(* and closing endpoints do: one question at a time, each asked once, the   *)
(* behavioral one after the technical ones, and as evidence of a question   *)
(* what was said while it was open.                                         *)
THEOREM ConversationImplemented ==
    ASSUME OneAtATime PROVE Spec => ImplementsConversation
<1>1. Init => TypeInv /\ OrderInv /\ SerialInv
  BY InitTypeInv, InitOrderInv, InitSerialInv
<1>2. TypeInv /\ OrderInv /\ SerialInv /\ [Next]_vars
         => TypeInv' /\ OrderInv' /\ SerialInv'
  BY OneAtATime, NextTypeInv, NextOrderInv, NextSerialInv
<1>3. TypeInv /\ OrderInv /\ SerialInv /\ [Next]_vars
         => [Conversation!Next]_(Conversation!vars)
  BY OneAtATime, ConversationGoesOn
<1>4. QED
  BY <1>1, <1>2, <1>3, ConversationBegins, PTL DEF Spec, ImplementsConversation, Conversation!Spec

-----------------------------------------------------------------------------
(* There is always a question to answer, for requests that do not overlap.  *)

(* What both planners freeze: an agenda that begins with the behavioral     *)
(* turn has no technical one.                                               *)
BehavioralIsNotFirst ==
    StageOf(1) = "BEHAVIORAL" => \A u \in Turns : ~ IsTechnical(u)

(* The interviewer's last words are about the one question that is open.    *)
LEMMA SpokenLast ==
    ASSUME TypeOK', log' # <<>>, NEW t \in Turns, AskedIn(turn') = {t},
           log'[Len(log')].role = "assistant", log'[Len(log')].turn = t,
           StageOf(t) = "BEHAVIORAL" => \A u \in PlannedIn(turn') : ~ IsTechnical(u)
    PROVE  AlwaysAnswerable'
<1>1. DOMAIN log' = 1..Len(log') /\ Len(log') \in DOMAIN log'
  BY DEF TypeOK
<1>2. ASSUME NEW n \in DOMAIN log', log'[n].role = "assistant",
             \A k \in DOMAIN log' : log'[k].role = "assistant" => k <= n
      PROVE  log'[n].turn = t
  BY <1>1, <1>2
<1>3. Answerable(t)'
  BY <1>2 DEF Answerable
<1>4. QED
  BY <1>3 DEF AlwaysAnswerable

(* Nothing the interviewer said is added.                                   *)
LEMMA StillAnswerable ==
    ASSUME AlwaysAnswerable, turn' = turn, status' = "OPEN" => status = "OPEN",
           log' # <<>> => log # <<>>,
           \A n : n \in DOMAIN log' /\ log'[n].role = "assistant"
                     <=> n \in DOMAIN log /\ log[n].role = "assistant",
           \A n \in DOMAIN log : log[n].role = "assistant" => log'[n].turn = log[n].turn
    PROVE  AlwaysAnswerable'
<1> DEFINE said == {n \in DOMAIN log : log[n].role = "assistant"}
<1>1. said' = said
  OBVIOUS
<1>2. ASSUME NEW t \in Turns, Answerable(t) PROVE Answerable(t)'
  BY <1>1, <1>2 DEF Answerable, AskedIn, PlannedIn
<1>3. QED
  BY <1>2 DEF AlwaysAnswerable

LEMMA NextAnswerable ==
    ASSUME OneAtATime, BehavioralIsNotFirst, TypeInv, TypeInv', SerialInv,
           AlwaysAnswerable, [Next]_vars
    PROVE  AlwaysAnswerable'
<1>typ. /\ TypeOK /\ TypeOK' /\ log \in Seq(Messages) /\ Len(log) \in Nat
        /\ DOMAIN log = 1..Len(log)
  BY DEF TypeInv, TypeOK
<1>1. ASSUME status' = "CLOSED" PROVE AlwaysAnswerable'
  BY <1>1 DEF AlwaysAnswerable
<1>2. ASSUME turn' = turn, log' = log, status' = status PROVE AlwaysAnswerable'
  BY <1>2, StillAnswerable
<1>3. ASSUME NEW m \in Messages, log' = Append(log, m)
      PROVE  /\ log' # <<>> /\ log'[Len(log')] = m
             /\ DOMAIN log' = DOMAIN log \cup {Len(log) + 1} /\ Len(log) + 1 \notin DOMAIN log
             /\ \A n \in DOMAIN log : log'[n] = log[n]
             /\ log'[Len(log) + 1] = m
  <2>1. Append(log, m) # <<>>
    BY <1>typ, AppendProperties
  <2>2. Len(log') = Len(log) + 1 /\ DOMAIN log' = 1..(Len(log) + 1)
    BY <1>3, <1>typ, AppendProperties
  <2>3. log'[Len(log) + 1] = m /\ \A n \in 1..Len(log) : log'[n] = log[n]
    BY <1>3, <1>typ, AppendProperties
  <2>4. QED
    BY <1>3, <1>typ, <2>1, <2>2, <2>3
<1>4. ASSUME NEW r \in Requests, Open(r) PROVE AlwaysAnswerable'
  <2> DEFINE m == AssistantMessage("MAIN_QUESTION", 1, FALSE)
  <2>1. log = <<>> /\ log' = <<m>> /\ turn' = [turn EXCEPT ![1] = "ASKED"]
    BY <1>4 DEF Open
  <2>2. log' # <<>> /\ Len(log') = 1 /\ log'[1] = m
    BY <2>1
  <2>3. m.role = "assistant" /\ m.turn = 1
    BY DEF AssistantMessage
  <2>4. AskedIn(turn') = {1}
    <3>1. AskedIn(turn) = {}
      BY <2>1 DEF SerialInv, NothingBefore
    <3>2. \A t \in Turns : turn'[t] = IF t = 1 THEN "ASKED" ELSE turn[t]
      BY <1>typ, <2>1 DEF TypeOK
    <3>3. QED
      BY <3>1, <3>2, TurnsAreNat DEF AskedIn
  <2>5. StageOf(1) = "BEHAVIORAL" => \A u \in PlannedIn(turn') : ~ IsTechnical(u)
    BY DEF BehavioralIsNotFirst, PlannedIn
  <2>6. QED
    BY <1>typ, <2>2, <2>3, <2>4, <2>5, TurnsAreNat, SpokenLast
<1>5. ASSUME NEW r \in Requests, Record(r) PROVE AlwaysAnswerable'
  <2> DEFINE m == UserMessage(msg[r], view[r].cur, view[r].prev)
  <2>1. /\ pc[r] = "respond" /\ log' = Append(log, m) /\ turn' = turn /\ status' = status
    BY <1>5 DEF Record, sessionVars
  <2>2. m \in Messages /\ m.role = "user"
    <3>1. view[r].cur \in Turns /\ view[r].prev \in Seq(Msgs) /\ msg[r] \in Msgs
      BY <2>1 DEF TypeInv, EngineSeq, TypeOK, Views
    <3>2. QED
      BY <3>1, UserMessageType DEF UserMessage
  <2>3. log # <<>>
    <3>1. AskedIn(turn) # {}
      BY <2>1 DEF SerialInv, CurrentViews
    <3>2. QED
      BY <3>1 DEF SerialInv, NothingBefore
  <2> HIDE DEF m
  <2>4. /\ DOMAIN log' = DOMAIN log \cup {Len(log) + 1}
        /\ \A n \in DOMAIN log : log'[n] = log[n]
        /\ log'[Len(log) + 1] = m
    BY <1>3, <2>1, <2>2
  <2>5. \A n : n \in DOMAIN log' /\ log'[n].role = "assistant"
                 <=> n \in DOMAIN log /\ log[n].role = "assistant"
    BY <2>2, <2>4
  <2>6. QED
    BY <2>1, <2>3, <2>4, <2>5, StillAnswerable
<1>6. ASSUME NEW r \in Requests, Replying(r), log # <<>>, turn' = turn,
             NEW m \in Messages, log'[Len(log')] = m, log' # <<>>,
             m.role = "assistant", m.turn = view[r].cur
      PROVE  AlwaysAnswerable'
  <2>1. status = "OPEN" /\ AskedIn(turn) = {view[r].cur} /\ view[r].cur \in Turns
    BY <1>6, <1>typ DEF Replying, SerialInv, CurrentViews, TypeOK, Views
  <2>2. PICK t \in Turns : Answerable(t)
    BY <1>6, <2>1 DEF AlwaysAnswerable
  <2>3. t = view[r].cur
    BY <2>1, <2>2 DEF Answerable
  <2>4. StageOf(t) = "BEHAVIORAL" => \A u \in PlannedIn(turn') : ~ IsTechnical(u)
    BY <1>6, <2>2 DEF Answerable
  <2>5. QED
    BY <1>6, <1>typ, <2>1, <2>3, <2>4, SpokenLast
<1>started. ASSUME NEW r \in Requests, Replying(r) PROVE log # <<>>
  BY <1>started DEF Replying, TypeInv, EngineSeq
<1>7. ASSUME NEW r \in Requests, ConfirmAbort(r) \/ Clarify(r) PROVE AlwaysAnswerable'
  <2>1. PICK kind \in MessageTypes, type \in MessageTypes : Withdraw(r, kind, type)
    BY <1>7 DEF ConfirmAbort, Clarify, MessageTypes
  <2>2. Replying(r) /\ turn' = turn
    BY <1>7 DEF ConfirmAbort, Clarify
  <2> DEFINE m  == AssistantMessage(type, view[r].cur, plan[r].aside)
             lg == [log EXCEPT ![seq[r]].type = kind]
  <2>3. m \in Messages /\ m.role = "assistant" /\ m.turn = view[r].cur
    BY <1>typ, AssistantMessageType DEF TypeOK, Views, AssistantMessage, Outcomes
  <2>4. log' = Append(lg, m)
    BY <2>1 DEF Withdraw
  <2>5. lg \in Seq(Messages)
    BY <1>typ, <2>1, <2>2, Retype DEF Replying, TypeInv, EngineSeq
  <2> HIDE DEF m, lg
  <2>6. log'[Len(log')] = m /\ log' # <<>>
    BY <2>3, <2>4, <2>5, AppendProperties
  <2>7. QED
    BY <1>6, <1>started, <2>2, <2>3, <2>6
<1>8. ASSUME NEW r \in Requests, Probe(r) \/ AnswerCandidate(r) PROVE AlwaysAnswerable'
  <2>1. PICK type \in MessageTypes : Say(r, type, view[r].cur)
    BY <1>8 DEF Probe, AnswerCandidate, MessageTypes
  <2>2. Replying(r) /\ turn' = turn
    BY <1>8 DEF Probe, AnswerCandidate, turnVars
  <2> DEFINE m == AssistantMessage(type, view[r].cur, plan[r].aside)
  <2>3. m \in Messages /\ m.role = "assistant" /\ m.turn = view[r].cur
    BY <1>typ, AssistantMessageType DEF TypeOK, Views, AssistantMessage, Outcomes
  <2>4. log' = Append(log, m)
    BY <2>1 DEF Say
  <2> HIDE DEF m
  <2>5. log'[Len(log')] = m /\ log' # <<>>
    BY <1>3, <2>3, <2>4
  <2>6. QED
    BY <1>6, <1>started, <2>2, <2>3, <2>5
<1>9. ASSUME NEW r \in Requests, Advance(r) PROVE AlwaysAnswerable'
  <2> DEFINE next == NextTurn(r)
             m    == AssistantMessage("MAIN_QUESTION", next, plan[r].aside)
  <2>1. Say(r, "MAIN_QUESTION", next)
    BY <1>9 DEF Advance
  <2> HIDE DEF next
  <2>2. /\ next \in Turns /\ next # view[r].cur
        /\ \A t \in Turns :
              turn'[t] = IF t = next THEN "ASKED"
                         ELSE IF t = view[r].cur THEN "ANSWERED"
                         ELSE IF /\ StageOf(next) = "BEHAVIORAL"
                                 /\ IsTechnical(t) /\ turn[t] = "PLANNED" THEN "SKIPPED"
                         ELSE turn[t]
        /\ AskedIn(turn') = {next}
    BY <1>9, <1>typ, AskedMoves DEF next
  <2>3. m \in Messages /\ m.role = "assistant" /\ m.turn = next
    BY <1>typ, <2>2, AssistantMessageType
       DEF TypeOK, Views, AssistantMessage, Outcomes, MessageTypes
  <2>4. log' = Append(log, m)
    BY <2>1 DEF Say
  <2> HIDE DEF m
  <2>5. log'[Len(log')] = m /\ log' # <<>>
    BY <1>3, <2>3, <2>4
  <2>6. StageOf(next) = "BEHAVIORAL" => \A u \in PlannedIn(turn') : ~ IsTechnical(u)
    BY <2>2 DEF PlannedIn
  <2>7. QED
    BY <1>typ, <2>2, <2>3, <2>5, <2>6, SpokenLast
<1>10. ASSUME NEW r \in Requests, Conclude(r) \/ CloseOverdue(r) PROVE AlwaysAnswerable'
  BY <1>1, <1>10 DEF Conclude, CloseOverdue, Close
<1>11. ASSUME NEW r \in Requests,
              ReadForStart(r) \/ Resume(r) \/ Receive(r) \/ Recover(r) \/ Refuse(r)
                 \/ RollBack(r) \/ Crash(r)
       PROVE  AlwaysAnswerable'
  BY <1>2, <1>11 DEF ReadForStart, Resume, Receive, Recover, Refuse, RollBack, Crash,
                     sessionVars, turnVars, logVars
<1>12. CASE Complete \/ CloseSession \/ Reap
  BY <1>1, <1>12 DEF Complete, CloseSession, Reap, Close
<1>13. CASE Presence
  BY <1>2, <1>13 DEF Presence, Leave, ReturnToPage, ReturnToRoom, turnVars, logVars
<1>14. CASE Time
  BY <1>2, <1>14 DEF Time, Tick, LobbyAges, MarksAge, MessageAges, turnVars, logVars,
                     sessionVars
<1>15. CASE UNCHANGED vars
  BY <1>2, <1>15 DEF vars
<1>16. ASSUME NEW r \in Requests, Start(r) \/ Respond(r) \/ Crash(r)
       PROVE  AlwaysAnswerable'
  BY <1>4, <1>5, <1>7, <1>8, <1>9, <1>10, <1>11, <1>16 DEF Start, Respond, Commit
<1>17. QED
  BY <1>12, <1>13, <1>14, <1>15, <1>16 DEF Next

(* A candidate whose requests do not overlap can always go on: while the    *)
(* session is open exactly one question is, the interviewer's last words    *)
(* are about it, and it is not refused as the behavioral question that came *)
(* before its time.  No crash or retry leaves the session wedged.           *)
THEOREM SessionIsNeverWedged ==
    ASSUME OneAtATime, BehavioralIsNotFirst PROVE Spec => []AlwaysAnswerable
<1>1. Init => TypeInv /\ SerialInv /\ AlwaysAnswerable
  BY InitTypeInv, InitSerialInv DEF Init, AlwaysAnswerable
<1>2. TypeInv /\ SerialInv /\ AlwaysAnswerable /\ [Next]_vars
         => TypeInv' /\ SerialInv' /\ AlwaysAnswerable'
  BY OneAtATime, BehavioralIsNotFirst, NextTypeInv, NextSerialInv, NextAnswerable
<1>3. QED
  BY <1>1, <1>2, PTL DEF Spec

-----------------------------------------------------------------------------
(* What is graded, for requests that do not overlap.                        *)

(* The evidence of a turn in a transcript, in its order.                    *)
Matches(s, lg, t) ==
    /\ Len(s) = Cardinality(Evidence(lg, t))
    /\ \A n \in Evidence(lg, t) : s[Rank(Evidence(lg, t), n)] = lg[n].id

(* A message that waits for its reply still counts as an answer.            *)
UnansweredCounts == Unanswered => Last.type = "CANDIDATE_ANSWER"

EvidenceInv == AnswersMatchTranscript /\ UnansweredCounts

LEMMA MatchesStay ==
    ASSUME NEW lg, NEW lg2, NEW t, NEW s, Evidence(lg2, t) = Evidence(lg, t),
           \A n \in Evidence(lg, t) : lg2[n].id = lg[n].id
    PROVE  Matches(s, lg2, t) <=> Matches(s, lg, t)
BY DEF Matches

(* One more piece of evidence, after all the others.                        *)
LEMMA MatchesGrow ==
    ASSUME NEW lg \in Seq(Messages), NEW lg2, NEW t, NEW e \in Nat,
           Evidence(lg2, t) = Evidence(lg, t) \cup {e},
           \A n \in Evidence(lg, t) : n < e /\ lg2[n].id = lg[n].id,
           NEW M, NEW s \in Seq(M), lg2[e].id \in M
    PROVE  Matches(Append(s, lg2[e].id), lg2, t) <=> Matches(s, lg, t)
<1> DEFINE S  == Evidence(lg, t)
           S2 == Evidence(lg2, t)
           x  == lg2[e].id
           a  == Append(s, x)
<1>1. S \subseteq 1..Len(lg) /\ Len(lg) \in Nat /\ S \subseteq Nat /\ e \notin S
  BY DEF Evidence
<1>2. IsFiniteSet(S)
  <2>1. IsFiniteSet(1..Len(lg)) /\ S \in SUBSET (1..Len(lg))
    BY <1>1, FS_Interval
  <2>2. QED
    BY <2>1, FS_Subset
<1>3. Cardinality(S) \in Nat /\ Cardinality(S2) = Cardinality(S) + 1
  BY <1>1, <1>2, FS_CardinalityType, FS_AddElement
<1> HIDE DEF S, S2
<1>4. S2 = S \cup {e} /\ \A n \in S : n < e /\ lg2[n].id = lg[n].id
  BY DEF S, S2
<1>5. ASSUME NEW n \in S PROVE Rank(S2, n) = Rank(S, n) /\ Rank(S, n) \in 1..Cardinality(S)
  <2> DEFINE R == {k \in S : k <= n}
  <2>1. {k \in S2 : k <= n} = R
    BY <1>1, <1>4, <1>5
  <2>2. IsFiniteSet(R) /\ Cardinality(R) \in Nat /\ Cardinality(R) <= Cardinality(S)
    BY <1>2, FS_Subset, FS_CardinalityType
  <2>3. n \in R
    BY <1>1, <1>5
  <2>4. Cardinality(R) # 0
    BY <2>2, <2>3, FS_EmptySet
  <2>5. Rank(S2, n) = Cardinality(R) /\ Rank(S, n) = Cardinality(R)
    BY <2>1 DEF Rank
  <2> HIDE DEF R
  <2>6. QED
    BY <1>3, <2>2, <2>4, <2>5
<1>6. Rank(S2, e) = Cardinality(S) + 1
  <2>1. \A k \in S2 : k <= e
    BY <1>1, <1>4
  <2>2. {k \in S2 : k <= e} = S2
    BY <2>1
  <2>3. QED
    BY <1>3, <2>2 DEF Rank
<1>7. /\ Len(a) = Len(s) + 1 /\ Len(s) \in Nat
      /\ a[Len(s) + 1] = x /\ \A i \in 1..Len(s) : a[i] = s[i]
  BY AppendProperties
<1> HIDE DEF a
<1>8. ASSUME Len(s) = Cardinality(S)
      PROVE  (\A n \in S2 : a[Rank(S2, n)] = lg2[n].id)
                <=> (\A n \in S : s[Rank(S, n)] = lg[n].id)
  <2>1. a[Rank(S2, e)] = lg2[e].id
    BY <1>6, <1>7, <1>8
  <2>2. \A n \in S : a[Rank(S2, n)] = s[Rank(S, n)] /\ lg2[n].id = lg[n].id
    BY <1>4, <1>5, <1>7, <1>8
  <2>3. QED
    BY <1>4, <2>1, <2>2
<1>9. Matches(s, lg, t) <=> Len(s) = Cardinality(S) /\ \A n \in S : s[Rank(S, n)] = lg[n].id
  BY DEF Matches, S
<1>10. Matches(a, lg2, t) <=> Len(a) = Cardinality(S2) /\ \A n \in S2 : a[Rank(S2, n)] = lg2[n].id
  BY DEF Matches, S2
<1>11. Len(a) = Cardinality(S2) <=> Len(s) = Cardinality(S)
  BY <1>3, <1>7
<1>12. QED
  BY <1>8, <1>9, <1>10, <1>11 DEF a

(* The interviewer's words are no evidence.                                 *)
LEMMA RepliesAreNoEvidence ==
    ASSUME TypeOK, EvidenceInv, NEW m \in Messages, m.role = "assistant",
           log' = log \/ log' = Append(log, m), answer' = answer
    PROVE  EvidenceInv'
<1>1. CASE log' = log
  BY <1>1 DEF EvidenceInv, AnswersMatchTranscript, UnansweredCounts, Unanswered, Last
<1>2. CASE log' = Append(log, m)
  <2>1. /\ log \in Seq(Messages) /\ Len(log) \in Nat /\ DOMAIN log = 1..Len(log)
        /\ Len(log') = Len(log) + 1 /\ DOMAIN log' = 1..Len(log')
        /\ log'[Len(log) + 1] = m /\ \A n \in 1..Len(log) : log'[n] = log[n]
    BY <1>2, AppendProperties DEF TypeOK
  <2>2. ASSUME NEW t \in Turns
        PROVE  /\ Evidence(log', t) = Evidence(log, t)
               /\ \A n \in Evidence(log, t) : log'[n].id = log[n].id
    BY <2>1 DEF Evidence
  <2>3. \A t \in Turns : Matches(answer[t], log', t)
    <3>1. \A t \in Turns : Matches(answer[t], log, t)
      BY DEF EvidenceInv, AnswersMatchTranscript, Matches
    <3>2. QED
      BY <2>2, <3>1, MatchesStay
  <2>4. AnswersMatchTranscript'
    BY <2>3 DEF AnswersMatchTranscript, Matches
  <2>5. UnansweredCounts'
    BY <2>1 DEF UnansweredCounts, Unanswered, Last
  <2>6. QED
    BY <2>4, <2>5 DEF EvidenceInv
<1>3. QED
  BY <1>1, <1>2

(* What is said is added to the answer it is about.                         *)
LEMMA HeardIsEvidence ==
    ASSUME TypeInv, SerialInv, EvidenceInv, NEW r \in Requests, Record(r)
    PROVE  EvidenceInv'
<1> DEFINE cur == view[r].cur
           m   == UserMessage(msg[r], cur, view[r].prev)
<1>1. /\ pc[r] = "respond" /\ log' = Append(log, m)
      /\ answer' = [answer EXCEPT ![cur] = Append(view[r].prev, msg[r])]
  BY DEF Record
<1>2. cur \in Turns /\ view[r].prev \in Seq(Msgs) /\ msg[r] \in Msgs
  BY <1>1 DEF TypeInv, EngineSeq, TypeOK, Views
<1>3. /\ m \in Messages /\ m.role = "user" /\ m.id = msg[r] /\ m.turn = cur
      /\ m.type = "CANDIDATE_ANSWER"
  BY <1>2, UserMessageType DEF UserMessage
<1>4. view[r].prev = answer[cur]
  BY <1>1 DEF SerialInv, CurrentAnswers
<1> HIDE DEF m, cur
<1>5. /\ log \in Seq(Messages) /\ Len(log) \in Nat /\ DOMAIN log = 1..Len(log)
      /\ Len(log') = Len(log) + 1 /\ DOMAIN log' = 1..Len(log')
      /\ log'[Len(log) + 1] = m /\ \A n \in 1..Len(log) : log'[n] = log[n]
  BY <1>1, <1>3, AppendProperties DEF TypeInv, TypeOK
<1>6. \A t \in Turns : Matches(answer[t], log, t)
  BY DEF EvidenceInv, AnswersMatchTranscript, Matches
<1>7. \A t \in Turns : answer'[t] = IF t = cur THEN Append(answer[cur], msg[r]) ELSE answer[t]
  BY <1>1, <1>4 DEF TypeInv, TypeOK
<1>8. Matches(answer'[cur], log', cur)
  <2>1. Evidence(log', cur) = Evidence(log, cur) \cup {Len(log) + 1}
    BY <1>3, <1>5 DEF Evidence
  <2>2. \A n \in Evidence(log, cur) : n < Len(log) + 1 /\ log'[n].id = log[n].id
    BY <1>5 DEF Evidence
  <2>3. answer[cur] \in Seq(Msgs) /\ log'[Len(log) + 1].id = msg[r]
    BY <1>2, <1>3, <1>5 DEF TypeInv, TypeOK
  <2>4. Matches(Append(answer[cur], msg[r]), log', cur) <=> Matches(answer[cur], log, cur)
    <3>1. log \in Seq(Messages) /\ Len(log) + 1 \in Nat /\ log'[Len(log) + 1].id \in Msgs
      BY <1>2, <1>5, <2>3
    <3>2. Matches(Append(answer[cur], log'[Len(log) + 1].id), log', cur)
             <=> Matches(answer[cur], log, cur)
      BY <2>1, <2>2, <2>3, <3>1, MatchesGrow
    <3>3. QED
      BY <2>3, <3>2
  <2>5. QED
    BY <1>2, <1>6, <1>7, <2>4
<1>9. ASSUME NEW t \in Turns, t # cur PROVE Matches(answer'[t], log', t)
  <2>1. /\ Evidence(log', t) = Evidence(log, t)
        /\ \A n \in Evidence(log, t) : log'[n].id = log[n].id
    BY <1>3, <1>5, <1>9 DEF Evidence
  <2>2. QED
    BY <1>6, <1>7, <1>9, <2>1, MatchesStay
<1>10. AnswersMatchTranscript'
  BY <1>8, <1>9 DEF AnswersMatchTranscript, Matches
<1>11. UnansweredCounts'
  BY <1>3, <1>5 DEF UnansweredCounts, Last
<1>12. QED
  BY <1>10, <1>11 DEF EvidenceInv

(* What turns out not to be an answer is taken back.                        *)
LEMMA WithdrawnIsNoEvidence ==
    ASSUME TypeInv, SerialInv, EvidenceInv, NEW r \in Requests, Replying(r),
           NEW kind \in MessageTypes \ {"CANDIDATE_ANSWER"}, NEW type \in MessageTypes,
           Withdraw(r, kind, type)
    PROVE  EvidenceInv'
<1> DEFINE cur == view[r].cur
           e   == Len(log)
           s   == [log EXCEPT ![seq[r]].type = kind]
           m   == AssistantMessage(type, cur, plan[r].aside)
           M   == Msgs \cup {NoMsg}
<1>1. /\ pc[r] = "engine" /\ seq[r] = e /\ seq[r] \in 1..Len(log)
      /\ log' = Append(s, m) /\ answer' = [answer EXCEPT ![cur] = view[r].prev]
  BY DEF Replying, Withdraw, TypeInv, EngineSeq
<1>typ. /\ TypeOK /\ log \in Seq(Messages) /\ e \in Nat /\ DOMAIN log = 1..e
  BY DEF TypeInv, TypeOK
<1>2. /\ cur \in Turns /\ view[r].prev \in Seq(M) /\ plan[r].aside \in BOOLEAN
  <2>1. cur \in Turns /\ view[r].prev \in Seq(Msgs) /\ plan[r].aside \in BOOLEAN
    BY <1>typ DEF TypeOK, Views, Outcomes
  <2>2. QED
    BY <2>1
<1>3. Unanswered /\ Last.prev = view[r].prev /\ Last.turn = cur /\ Last.type = "CANDIDATE_ANSWER"
  BY <1>1 DEF SerialInv, ReplyDue, EvidenceInv, UnansweredCounts
<1>4. /\ answer[cur] = Append(view[r].prev, log[e].id) /\ log[e].id \in M
      /\ log[e].role = "user" /\ log[e].turn = cur /\ log[e].type = "CANDIDATE_ANSWER"
  <2>1. log[e] \in Messages
    BY <1>1, <1>typ
  <2>2. log[e].id \in M
    BY <2>1 DEF Messages
  <2>3. QED
    BY <1>3, <2>2 DEF SerialInv, UnansweredIsAsked, Last, Unanswered
<1>5. m \in Messages /\ m.role = "assistant"
  BY <1>2, AssistantMessageType DEF AssistantMessage
<1>6. /\ s \in Seq(Messages) /\ Len(s) = e
      /\ \A j \in 1..e : /\ s[j].role = log[j].role /\ s[j].turn = log[j].turn
                         /\ s[j].id = log[j].id
                         /\ s[j].type = IF j = e THEN kind ELSE log[j].type
  <2>1. log \in Seq(Messages) /\ seq[r] \in 1..Len(log) /\ kind \in MessageTypes
    BY <1>1, <1>typ
  <2>2. seq[r] = e /\ Len(log) = e
    BY <1>1
  <2>3. /\ s \in Seq(Messages) /\ Len(s) = Len(log)
        /\ \A j \in 1..Len(log) : /\ s[j].role = log[j].role /\ s[j].turn = log[j].turn
                                  /\ s[j].id = log[j].id
                                  /\ s[j].type = IF j = seq[r] THEN kind ELSE log[j].type
    BY <2>1, Retype
  <2> HIDE DEF s, e
  <2>4. QED
    BY <2>2, <2>3
<1> HIDE DEF s, m, cur, e, M
<1>7. /\ DOMAIN log' = 1..(e + 1) /\ Len(log') = e + 1 /\ log'[e + 1] = m
      /\ \A j \in 1..e : log'[j] = s[j]
  BY <1>1, <1>5, <1>6, <1>typ, AppendProperties
<1>8. \A t \in Turns : Matches(answer[t], log, t)
  BY DEF EvidenceInv, AnswersMatchTranscript, Matches
<1>9. \A t \in Turns : answer'[t] = IF t = cur THEN view[r].prev ELSE answer[t]
  BY <1>1, <1>typ DEF TypeOK
<1>10. e \in 1..e /\ e \notin 1..(e - 1)
  BY <1>1, <1>typ DEF e
<1>11. ASSUME NEW t \in Turns
       PROVE  /\ Evidence(log', t) = Evidence(log, t) \ {e}
              /\ \A n \in Evidence(log', t) : n < e /\ log[n].id = log'[n].id
  <2>1. \A j \in 1..e : /\ log'[j].role = log[j].role /\ log'[j].turn = log[j].turn
                        /\ log'[j].id = log[j].id
                        /\ log'[j].type = IF j = e THEN kind ELSE log[j].type
    BY <1>6, <1>7
  <2>2. Evidence(log', t) = Evidence(log, t) \ {e}
    BY <1>5, <1>7, <1>typ, <2>1 DEF Evidence
  <2>3. QED
    BY <1>typ, <2>1, <2>2 DEF Evidence
<1>12. Matches(answer'[cur], log', cur)
  <2>1. Evidence(log, cur) = Evidence(log', cur) \cup {e}
    <3>1. e \in Evidence(log, cur)
      BY <1>4, <1>10, <1>typ DEF Evidence
    <3>2. QED
      BY <1>2, <1>11, <3>1
  <2>2. \A n \in Evidence(log', cur) : n < e /\ log[n].id = log'[n].id
    BY <1>2, <1>11
  <2>3. log' \in Seq(Messages)
    BY <1>1, <1>5, <1>6, AppendProperties
  <2>4. Matches(Append(view[r].prev, log[e].id), log, cur) <=> Matches(view[r].prev, log', cur)
    <3>1. view[r].prev \in Seq(M) /\ log[e].id \in M /\ e \in Nat
      BY <1>2, <1>4, <1>typ
    <3>2. QED
      BY <2>1, <2>2, <2>3, <3>1, MatchesGrow
  <2>5. QED
    BY <1>2, <1>4, <1>8, <1>9, <2>4
<1>13. ASSUME NEW t \in Turns, t # cur PROVE Matches(answer'[t], log', t)
  <2>1. e \notin Evidence(log, t)
    BY <1>4, <1>13 DEF Evidence
  <2>2. /\ Evidence(log', t) = Evidence(log, t)
        /\ \A n \in Evidence(log, t) : log'[n].id = log[n].id
    BY <1>11, <2>1
  <2>3. QED
    BY <1>8, <1>9, <1>13, <2>2, MatchesStay
<1>14. AnswersMatchTranscript'
  BY <1>12, <1>13 DEF AnswersMatchTranscript, Matches
<1>15. UnansweredCounts'
  BY <1>5, <1>7 DEF UnansweredCounts, Unanswered, Last
<1>16. QED
  BY <1>14, <1>15 DEF EvidenceInv

LEMMA NextEvidenceInv ==
    ASSUME OneAtATime, TypeInv, SerialInv, EvidenceInv, [Next]_vars
    PROVE  EvidenceInv'
<1>typ. TypeOK
  BY DEF TypeInv
<1>1. ASSUME answer' = answer, log' = log PROVE EvidenceInv'
  BY <1>1 DEF EvidenceInv, AnswersMatchTranscript, UnansweredCounts, Unanswered, Last
<1>2. ASSUME answer' = answer, log' = WrapUp PROVE EvidenceInv'
  <2> DEFINE m == AssistantMessage("WRAP_UP", NoTurn, FALSE)
  <2>1. m \in Messages /\ m.role = "assistant"
    BY AssistantMessageType DEF AssistantMessage, MessageTypes
  <2>2. log' = log \/ log' = Append(log, m)
    BY <1>2 DEF WrapUp
  <2> HIDE DEF m
  <2>3. QED
    BY <1>2, <1>typ, <2>1, <2>2, RepliesAreNoEvidence
<1>3. ASSUME NEW r \in Requests, Open(r) PROVE EvidenceInv'
  <2> DEFINE m == AssistantMessage("MAIN_QUESTION", 1, FALSE)
  <2>1. log = <<>> /\ log' = <<m>> /\ answer' = answer
    BY <1>3 DEF Open
  <2>2. m \in Messages /\ m.role = "assistant"
    BY TurnsAreNat, AssistantMessageType DEF AssistantMessage, MessageTypes
  <2> HIDE DEF m
  <2>3. log' = Append(log, m)
    BY <2>1
  <2>4. QED
    BY <1>typ, <2>1, <2>2, <2>3, RepliesAreNoEvidence
<1>4. ASSUME NEW r \in Requests,
             Probe(r) \/ AnswerCandidate(r) \/ Advance(r) \/ Conclude(r)
      PROVE  EvidenceInv'
  <2>1. PICK type \in MessageTypes, t \in Turns \cup {NoTurn} : Say(r, type, t)
    <3>1. view[r].cur \in Turns
      BY <1>typ DEF TypeOK, Views
    <3>2. QED
      BY <1>4, <1>typ, <3>1, NextTurnType
         DEF Probe, AnswerCandidate, Advance, Conclude, MessageTypes
  <2> DEFINE m == AssistantMessage(type, t, plan[r].aside)
  <2>2. log' = Append(log, m)
    BY <2>1 DEF Say
  <2>3. m \in Messages /\ m.role = "assistant"
    BY <1>typ, AssistantMessageType DEF TypeOK, Outcomes, AssistantMessage
  <2>4. answer' = answer
    BY <1>4 DEF Probe, AnswerCandidate, Advance, Conclude, turnVars
  <2> HIDE DEF m
  <2>5. QED
    BY <1>typ, <2>2, <2>3, <2>4, RepliesAreNoEvidence
<1>5. ASSUME NEW r \in Requests, ConfirmAbort(r) \/ Clarify(r) PROVE EvidenceInv'
  <2>1. Replying(r)
    BY <1>5 DEF ConfirmAbort, Clarify
  <2>2. PICK kind \in MessageTypes \ {"CANDIDATE_ANSWER"}, type \in MessageTypes :
           Withdraw(r, kind, type)
    BY <1>5 DEF ConfirmAbort, Clarify, MessageTypes
  <2>3. QED
    BY <2>1, <2>2, WithdrawnIsNoEvidence
<1>6. ASSUME NEW r \in Requests, CloseOverdue(r) PROVE EvidenceInv'
  BY <1>2, <1>6 DEF CloseOverdue, turnVars
<1>7. ASSUME NEW r \in Requests,
             ReadForStart(r) \/ Resume(r) \/ Receive(r) \/ Recover(r) \/ Refuse(r)
                \/ RollBack(r) \/ Crash(r)
      PROVE  EvidenceInv'
  BY <1>1, <1>7 DEF ReadForStart, Resume, Receive, Recover, Refuse, RollBack, Crash,
                    turnVars, logVars
<1>8. CASE Complete
  BY <1>2, <1>8 DEF Complete, turnVars
<1>9. CASE CloseSession \/ Reap
  BY <1>1, <1>9 DEF CloseSession, Reap, turnVars, logVars
<1>10. CASE Presence
  BY <1>1, <1>10 DEF Presence, Leave, ReturnToPage, ReturnToRoom, turnVars, logVars
<1>11. CASE Time
  BY <1>1, <1>11 DEF Time, Tick, LobbyAges, MarksAge, MessageAges, turnVars, logVars
<1>12. CASE UNCHANGED vars
  BY <1>1, <1>12 DEF vars
<1>13. ASSUME NEW r \in Requests, Start(r) \/ Respond(r) \/ Crash(r) PROVE EvidenceInv'
  BY <1>3, <1>4, <1>5, <1>6, <1>7, <1>13, HeardIsEvidence DEF Start, Respond, Commit
<1>14. QED
  BY <1>8, <1>9, <1>10, <1>11, <1>12, <1>13 DEF Next

LEMMA InitEvidenceInv == Init => EvidenceInv
<1> SUFFICES ASSUME Init PROVE EvidenceInv
  OBVIOUS
<1>1. \A t \in Turns : Evidence(log, t) = {} /\ Len(answer[t]) = 0
  BY DEF Init, Evidence
<1>2. QED
  BY <1>1, FS_EmptySet
     DEF Init, EvidenceInv, AnswersMatchTranscript, UnansweredCounts, Unanswered

(* What is graded is what the candidate said in answer: for every turn, the *)
(* accumulated answer is exactly the messages about it that the engine took *)
(* for answers, in the order of the transcript, although Phase 1 stores     *)
(* every message as one and a retry takes up where a dead request stopped.  *)
THEOREM GradedIsWhatWasSaid ==
    ASSUME OneAtATime PROVE Spec => []AnswersMatchTranscript
<1>1. Init => TypeInv /\ SerialInv /\ EvidenceInv
  BY InitTypeInv, InitSerialInv, InitEvidenceInv
<1>2. TypeInv /\ SerialInv /\ EvidenceInv /\ [Next]_vars
         => TypeInv' /\ SerialInv' /\ EvidenceInv'
  BY OneAtATime, NextTypeInv, NextSerialInv, NextEvidenceInv
<1>3. EvidenceInv => AnswersMatchTranscript
  BY DEF EvidenceInv
<1>4. QED
  BY <1>1, <1>2, <1>3, PTL DEF Spec

-----------------------------------------------------------------------------
(* A demo follows its frozen turns, for requests that do not overlap.       *)

(* The closing turn is created when it is asked.                            *)
ClosingOnDemand == turn[ClosingTurn] \notin {"PLANNED", "SKIPPED"}

(* What comes before the question is answered, and what comes after waits.  *)
DemoTurns ==
    Demo => \A t \in Turns : turn[t] = "ASKED" =>
                /\ \A u \in 1..(t - 1) : turn[u] = "ANSWERED"
                /\ \A u \in (t + 1)..Len(Agenda) : turn[u] = "PLANNED"

(* A decision that is to be stored names the next turn or none.             *)
DemoPlans ==
    Demo => \A r \in Requests : pc[r] = "engine" => plan[r].turn \in {NoTurn, view[r].cur + 1}

DemoInv == ClosingOnDemand /\ DemoTurns /\ DemoPlans

LEMMA InitDemoInv == Init => DemoInv
<1> SUFFICES ASSUME Init PROVE DemoInv
  OBVIOUS
<1>1. \A t \in Turns : turn[t] = IF t = ClosingTurn THEN "ABSENT" ELSE "PLANNED"
  BY DEF Init
<1>2. ClosingOnDemand /\ DemoTurns
  BY <1>1, TurnsAreNat DEF ClosingOnDemand, DemoTurns
<1>3. DemoPlans
  BY DEF Init, DemoPlans
<1>4. QED
  BY <1>2, <1>3 DEF DemoInv

(* What the engine is offered in a demo is the rest of the agenda.          *)
LEMMA RestIsOffered ==
    ASSUME TypeOK, Demo, DemoInv, NEW t \in Turns, turn[t] = "ASKED"
    PROVE  Pool(turn, t) = (t + 1)..Len(Agenda)
<1>1. Len(Agenda) \in Nat /\ Turns = 1..(Len(Agenda) + 1) /\ ClosingTurn = Len(Agenda) + 1
  BY AgendaAssumption DEF Turns, ClosingTurn
<1>2. \A u \in Turns : u < t => turn[u] = "ANSWERED"
  BY <1>1 DEF DemoInv, DemoTurns
<1>3. \A u \in (t + 1)..Len(Agenda) : turn[u] = "PLANNED"
  BY DEF DemoInv, DemoTurns
<1>4. ASSUME NEW u \in Turns
      PROVE  u # t /\ turn[u] \in {"PLANNED", "SKIPPED"} <=> u \in (t + 1)..Len(Agenda)
  <2>1. CASE u < t
    BY <1>1, <1>2, <2>1
  <2>2. CASE u = t
    BY <1>1, <2>2
  <2>3. CASE u > t /\ u # ClosingTurn
    BY <1>1, <1>3, <2>3
  <2>4. CASE u = ClosingTurn
    BY <1>1, <2>4 DEF DemoInv, ClosingOnDemand
  <2>5. QED
    BY <1>1, <2>1, <2>2, <2>3, <2>4
<1>5. (t + 1)..Len(Agenda) \subseteq Turns
  BY <1>1
<1>6. QED
  BY <1>4, <1>5 DEF Pool

LEMMA DemoDecision ==
    ASSUME TypeOK, SerialInv, DemoInv, Demo, DemoAgenda, NEW r \in Requests,
           pc[r] = "respond", NEW lg, NEW say, NEW o \in Decisions(r, lg, say)
    PROVE  o.turn \in {NoTurn, view[r].cur + 1}
<1> DEFINE v == view[r]
<1>1. v.turn = turn /\ AskedIn(turn) = {v.cur}
  BY DEF SerialInv, CurrentViews
<1>2. v.cur \in Turns /\ turn[v.cur] = "ASKED"
  BY <1>1 DEF AskedIn
<1>3. Pool(v.turn, v.cur) = (v.cur + 1)..Len(Agenda)
  BY <1>1, <1>2, RestIsOffered
<1>4. clock \in ClockZones
  BY DEF TypeOK
<1>5. o \in HandleTurn((v.cur + 1)..Len(Agenda), v.cur, clock,
                       ReplyOn(lg, v.cur, "PROBE"), ReplyOn(lg, v.cur, "CLARIFY"),
                       QuestionsOn(lg, v.cur), v.meta.uncoop, say)
  BY <1>3 DEF Decisions
<1> HIDE DEF v
<1>6. o.turn \in {NoTurn, v.cur + 1}
  BY <1>2, <1>4, <1>5, DemoNamesNext
<1>7. QED
  BY <1>6 DEF v

(* The turns as they are, and no new decision.                              *)
LEMMA DemoStays ==
    ASSUME DemoInv, turn' = turn,
           \A r \in Requests : pc'[r] = "engine" =>
               pc[r] = "engine" /\ plan'[r] = plan[r] /\ view'[r].cur = view[r].cur
    PROVE  DemoInv'
<1>1. ClosingOnDemand' /\ DemoTurns'
  BY DEF DemoInv, ClosingOnDemand, DemoTurns
<1>2. DemoPlans'
  BY DEF DemoInv, DemoPlans
<1>3. QED
  BY <1>1, <1>2 DEF DemoInv

LEMMA DemoMovesOn ==
    ASSUME TypeOK, SerialInv, DemoInv, DemoAgenda, NEW r \in Requests, Advance(r)
    PROVE  ClosingOnDemand' /\ DemoTurns'
<1> DEFINE cur  == view[r].cur
           next == NextTurn(r)
           queue == PlannedIn(turn) \ {cur}
<1>len. Len(Agenda) \in Nat /\ Turns = 1..(Len(Agenda) + 1) /\ ClosingTurn = Len(Agenda) + 1
        /\ DOMAIN Agenda = 1..Len(Agenda)
  BY AgendaAssumption DEF Turns, ClosingTurn
<1>1. pc[r] = "engine" /\ next # NoTurn /\ StageOf(cur) # "CLOSING"
  BY DEF Advance, Replying
<1>2. view[r].turn = turn /\ AskedIn(turn) = {cur}
  BY <1>1 DEF SerialInv, CurrentViews
<1>3. cur \in Turns /\ turn[cur] = "ASKED"
  BY <1>2 DEF AskedIn
<1>4. cur # ClosingTurn
  BY <1>1 DEF StageOf
<1> HIDE DEF cur, next
<1>5. /\ next \in Turns /\ next # cur
      /\ \A t \in Turns :
            turn'[t] = IF t = next THEN "ASKED"
                       ELSE IF t = cur THEN "ANSWERED"
                       ELSE IF /\ StageOf(next) = "BEHAVIORAL"
                               /\ IsTechnical(t) /\ turn[t] = "PLANNED" THEN "SKIPPED"
                       ELSE turn[t]
      /\ AskedIn(turn') = {next}
  BY AskedMoves DEF cur, next
<1>6. ClosingOnDemand'
  <2>1. ~ IsTechnical(ClosingTurn)
    BY DEF IsTechnical, TechnicalStages, StageOf
  <2>2. turn'[ClosingTurn] \in {"ASKED", "ANSWERED", turn[ClosingTurn]}
    BY <1>5, <2>1, TurnsAreNat
  <2>3. QED
    BY <2>2 DEF DemoInv, ClosingOnDemand
<1>7. ASSUME Demo PROVE next = cur + 1
  <2>1. queue = (cur + 1)..Len(Agenda)
    <3>1. \A u \in Turns : u < cur => turn[u] = "ANSWERED"
      BY <1>3, <1>7, <1>len DEF DemoInv, DemoTurns
    <3>2. \A u \in (cur + 1)..Len(Agenda) : turn[u] = "PLANNED"
      BY <1>3, <1>7 DEF DemoInv, DemoTurns
    <3>3. turn[ClosingTurn] # "PLANNED"
      BY DEF DemoInv, ClosingOnDemand
    <3>4. ASSUME NEW u \in Turns
          PROVE  u # cur /\ turn[u] = "PLANNED" <=> u \in (cur + 1)..Len(Agenda)
      BY <1>3, <1>len, <3>1, <3>2, <3>3
    <3>5. (cur + 1)..Len(Agenda) \subseteq Turns
      BY <1>3, <1>len
    <3>6. QED
      BY <3>4, <3>5 DEF PlannedIn
  <2>2. plan[r].turn \in {NoTurn, cur + 1}
    BY <1>1, <1>7 DEF DemoInv, DemoPlans, cur
  <2>3. next = CASE plan[r].turn \in queue -> plan[r].turn
                 [] plan[r].turn \notin queue /\ queue # {} ->
                       CHOOSE t \in queue : \A u \in queue : t <= u
                 [] queue = {} /\ plan[r].stage = "CLOSING" -> ClosingTurn
                 [] OTHER -> NoTurn
    BY <1>2 DEF NextTurn, next, cur
  <2> HIDE DEF queue
  <2>4. CASE queue # {}
    <3>1. queue \subseteq Nat /\ cur + 1 \in queue /\ \A u \in queue : cur + 1 <= u
      BY <1>3, <1>len, <2>1, <2>4
    <3>2. (CHOOSE t \in queue : \A u \in queue : t <= u) = cur + 1
      BY <3>1, SmallestIs
    <3>3. plan[r].turn \in queue => plan[r].turn = cur + 1
      BY <2>2, <3>1 DEF NoTurn, queue, PlannedIn, Turns
    <3>4. QED
      BY <2>3, <2>4, <3>2, <3>3
  <2>5. CASE queue = {}
    <3>1. next = ClosingTurn
      BY <1>1, <2>3, <2>5
    <3>2. cur + 1 \notin (cur + 1)..Len(Agenda)
      BY <2>1, <2>5
    <3>3. QED
      BY <1>3, <1>4, <1>len, <3>1, <3>2
  <2>6. QED
    BY <2>4, <2>5
<1>8. ASSUME Demo, NEW t \in Turns, turn'[t] = "ASKED"
      PROVE  /\ \A u \in 1..(t - 1) : turn'[u] = "ANSWERED"
             /\ \A u \in (t + 1)..Len(Agenda) : turn'[u] = "PLANNED"
  <2>1. t = cur + 1
    BY <1>5, <1>7, <1>8 DEF AskedIn
  <2>2. ASSUME NEW u \in 1..(t - 1) PROVE turn'[u] = "ANSWERED"
    <3>1. u \in Turns /\ (u = cur \/ u \in 1..(cur - 1))
      BY <1>3, <1>len, <2>1, <2>2
    <3>2. u # cur => turn[u] = "ANSWERED"
      BY <1>3, <1>8, <3>1 DEF DemoInv, DemoTurns
    <3>3. u # next
      BY <1>3, <1>7, <1>8, <1>len, <3>1
    <3>4. QED
      BY <1>5, <3>1, <3>2, <3>3
  <2>3. ASSUME NEW u \in (t + 1)..Len(Agenda) PROVE turn'[u] = "PLANNED"
    <3>1. u \in Turns /\ u \in (cur + 1)..Len(Agenda) /\ u # cur /\ u # next /\ next < u
      BY <1>3, <1>7, <1>8, <1>len, <2>1, <2>3
    <3>2. turn[u] = "PLANNED"
      BY <1>3, <1>8, <3>1 DEF DemoInv, DemoTurns
    <3>3. StageOf(next) = "BEHAVIORAL" => ~ IsTechnical(u)
      <4>1. next \in DOMAIN Agenda /\ u \in DOMAIN Agenda /\ next < u
        BY <1>5, <1>len, <3>1
      <4>2. Agenda[u] \in Later(Agenda[next])
        BY <1>8, <4>1 DEF DemoAgenda
      <4>3. StageOf(next) = Agenda[next]
        BY <1>len, <4>1 DEF StageOf
      <4>4. QED
        BY <4>2, <4>3 DEF Later
    <3>4. QED
      BY <1>5, <3>1, <3>2, <3>3
  <2>4. QED
    BY <2>2, <2>3
<1>9. DemoTurns'
  BY <1>8 DEF DemoTurns
<1>10. QED
  BY <1>6, <1>9

LEMMA NextDemoInv ==
    ASSUME OneAtATime, DemoAgenda, TypeInv, SerialInv, DemoInv, [Next]_vars
    PROVE  DemoInv'
<1>typ. TypeOK
  BY DEF TypeInv
<1>len. Len(Agenda) \in Nat /\ Turns = 1..(Len(Agenda) + 1) /\ ClosingTurn = Len(Agenda) + 1
  BY AgendaAssumption DEF Turns, ClosingTurn
<1>1. ASSUME NEW r \in Requests, Done(r), turn' = turn PROVE DemoInv'
  <2>1. \A q \in Requests : pc'[q] # "engine"
    BY <1>1, <1>typ, AllIdle
  <2>2. QED
    BY <1>1, <2>1, DemoStays
<1>2. ASSUME turn' = turn, UNCHANGED requestVars PROVE DemoInv'
  BY <1>2, DemoStays DEF requestVars
<1>3. ASSUME NEW r \in Requests, Open(r) PROVE DemoInv'
  <2>1. log = <<>> /\ Done(r) /\ turn' = [turn EXCEPT ![1] = "ASKED"]
    BY <1>3 DEF Open
  <2>2. 1 \in Turns /\ turn \in [Turns -> TurnStatuses]
    BY <1>typ, TurnsAreNat DEF TypeOK
  <2>3. \A t \in Turns : turn'[t] = IF t = 1 THEN "ASKED" ELSE turn[t]
    BY <2>1, <2>2
  <2>4. AskedIn(turn) = {} /\ Settled = {}
    BY <2>1 DEF SerialInv, NothingBefore
  <2>5. \A t \in Turns \ {ClosingTurn} : turn[t] = "PLANNED"
    BY <2>2, <2>4 DEF SerialInv, AgendaExists, AskedIn, Settled, TurnStatuses
  <2>6. \A t \in Turns : turn[t] # "ASKED"
    BY <2>4 DEF AskedIn
  <2>7. ClosingOnDemand'
    BY <2>3, <1>len DEF DemoInv, ClosingOnDemand
  <2>8. ASSUME NEW t \in Turns, turn'[t] = "ASKED"
        PROVE  /\ \A u \in 1..(t - 1) : turn'[u] = "ANSWERED"
               /\ \A u \in (t + 1)..Len(Agenda) : turn'[u] = "PLANNED"
    <3>1. t = 1
      BY <2>3, <2>6, <2>8
    <3>2. \A u \in (t + 1)..Len(Agenda) : u \in Turns /\ u # 1 /\ u # ClosingTurn
      BY <1>len, <3>1
    <3>3. QED
      BY <2>3, <2>5, <3>1, <3>2
  <2>9. DemoTurns'
    BY <2>8 DEF DemoTurns
  <2>10. \A q \in Requests : pc'[q] # "engine"
    BY <1>typ, <2>1, AllIdle
  <2>11. QED
    BY <2>7, <2>9, <2>10 DEF DemoInv, DemoPlans
<1>4. ASSUME NEW r \in Requests, Receive(r) PROVE DemoInv'
  <2>1. turn' = turn /\ plan' = plan /\ pc' = [pc EXCEPT ![r] = "respond"]
    BY <1>4 DEF Receive, turnVars
  <2>2. \A q \in Requests : q # r => view'[q] = view[q]
    BY <1>4 DEF Receive
  <2>3. pc'[r] = "respond"
    BY <1>typ, <2>1 DEF TypeOK
  <2>4. \A q \in Requests : pc'[q] = "engine" => q # r /\ pc[q] = "engine"
    BY <1>typ, <2>1, <2>3 DEF TypeOK
  <2>5. QED
    BY <2>1, <2>2, <2>4, DemoStays
<1>5. ASSUME NEW r \in Requests, Record(r) \/ Recover(r) PROVE DemoInv'
  <2>1. pc[r] = "respond" /\ turn' = turn
    BY <1>5 DEF Record, Recover, turnVars
  <2>2. PICK lg, say, o : o \in Decisions(r, lg, say) /\ plan' = [plan EXCEPT ![r] = o]
    BY <1>5 DEF Record, Recover
  <2>3. plan'[r] = o
    BY <1>typ, <2>2 DEF TypeOK
  <2>4. ASSUME Demo PROVE o.turn \in {NoTurn, view[r].cur + 1}
    <3>1. o \in Decisions(r, lg, say)
      BY <2>2
    <3>2. QED
      BY <1>typ, <2>1, <2>4, <3>1, DemoDecision
  <2>5. view'[r].cur = view[r].cur
    BY <1>5, <1>typ DEF Record, Recover, TypeOK, Views
  <2>6. ASSUME Demo, NEW q \in Requests
        PROVE  plan'[q].turn \in {NoTurn, view'[q].cur + 1}
    <3>1. q = r
      BY DEF OneAtATime
    <3>2. QED
      BY <2>3, <2>4, <2>5, <2>6, <3>1
  <2>7. ClosingOnDemand' /\ DemoTurns'
    BY <2>1 DEF DemoInv, ClosingOnDemand, DemoTurns
  <2>8. QED
    BY <2>6, <2>7 DEF DemoInv, DemoPlans
<1>6. ASSUME NEW r \in Requests, Advance(r) PROVE DemoInv'
  <2>1. \A q \in Requests : pc'[q] # "engine"
    BY <1>6, <1>typ, AllIdle DEF Advance
  <2>2. QED
    BY <1>6, <1>typ, <2>1, DemoMovesOn DEF DemoInv, DemoPlans
<1>7. ASSUME NEW r \in Requests, Conclude(r) PROVE DemoInv'
  <2>1. pc[r] = "engine" /\ Done(r) /\ turn' = [turn EXCEPT ![view[r].cur] = "ANSWERED"]
    BY <1>7 DEF Conclude, Replying
  <2>2. turn \in [Turns -> TurnStatuses] /\ view[r].cur \in Turns
    BY <1>typ DEF TypeOK, Views
  <2>3. AskedIn(turn) = {view[r].cur}
    BY <2>1 DEF SerialInv, CurrentViews
  <2>4. \A t \in Turns : turn'[t] # "ASKED"
    BY <2>1, <2>2, <2>3 DEF AskedIn
  <2>5. turn'[ClosingTurn] \in {"ANSWERED", turn[ClosingTurn]}
    BY <1>len, <2>1, <2>2
  <2>6. ClosingOnDemand' /\ DemoTurns'
    BY <2>4, <2>5 DEF DemoInv, ClosingOnDemand, DemoTurns
  <2>7. \A q \in Requests : pc'[q] # "engine"
    BY <1>typ, <2>1, AllIdle
  <2>8. QED
    BY <2>6, <2>7 DEF DemoInv, DemoPlans
<1>8. ASSUME NEW r \in Requests, ReadForStart(r) PROVE DemoInv'
  <2>1. \A q \in Requests : pc'[q] # "engine"
    BY <1>8, <1>typ DEF ReadForStart, TypeOK, OneAtATime
  <2>2. QED
    BY <1>8, <2>1, DemoStays DEF ReadForStart, turnVars
<1>9. ASSUME NEW r \in Requests,
             CloseOverdue(r) \/ Resume(r) \/ Refuse(r) \/ ConfirmAbort(r) \/ Clarify(r)
                \/ Probe(r) \/ AnswerCandidate(r) \/ RollBack(r) \/ Crash(r)
      PROVE  DemoInv'
  BY <1>1, <1>9 DEF CloseOverdue, Resume, Refuse, ConfirmAbort, Clarify, Probe,
                    AnswerCandidate, RollBack, Crash, turnVars
<1>10. CASE Complete \/ CloseSession \/ Reap
  BY <1>2, <1>10 DEF Complete, CloseSession, Reap, turnVars
<1>11. CASE Presence
  BY <1>2, <1>11 DEF Presence, Leave, ReturnToPage, ReturnToRoom, turnVars
<1>12. CASE Time
  BY <1>2, <1>12 DEF Time, Tick, LobbyAges, MarksAge, MessageAges, turnVars
<1>13. CASE UNCHANGED vars
  BY <1>2, <1>13 DEF vars, requestVars
<1>14. ASSUME NEW r \in Requests, Start(r) \/ Respond(r) \/ Crash(r) PROVE DemoInv'
  BY <1>3, <1>4, <1>5, <1>6, <1>7, <1>8, <1>9, <1>14 DEF Start, Respond, Commit
<1>15. QED
  BY <1>10, <1>11, <1>12, <1>13, <1>14 DEF Next

(* A demo asks its frozen turns in their order, each after an answer to the *)
(* one before, however late it is: the engine names the turn that follows,  *)
(* or none and the lowest waiting one follows, and nothing is passed over.  *)
THEOREM DemoIsFollowed ==
    ASSUME OneAtATime, DemoAgenda PROVE Spec => []DemoFollowsTurns
<1>1. Init => TypeInv /\ SerialInv /\ DemoInv
  BY InitTypeInv, InitSerialInv, InitDemoInv
<1>2. TypeInv /\ SerialInv /\ DemoInv /\ [Next]_vars => TypeInv' /\ SerialInv' /\ DemoInv'
  BY OneAtATime, DemoAgenda, NextTypeInv, NextSerialInv, NextDemoInv
<1>3. DemoInv => DemoFollowsTurns
  BY DEF DemoInv, DemoTurns, DemoFollowsTurns
<1>4. QED
  BY <1>1, <1>2, <1>3, PTL DEF Spec

=============================================================================

---------------------------- MODULE InterviewEngine ----------------------------
(***************************************************************************)
(* The decision of one interview turn: InterviewCoreEngine.handle_turn     *)
(* (src/src/modules/interviews/core/interview_engine.py) as a pure         *)
(* function from what the controller reads of the database and of the      *)
(* clock to the set of outcomes the engine may return.                     *)
(*                                                                         *)
(* What the model keeps is the order of the engine's guards and the        *)
(* pacing rules.  What it abstracts is language: a candidate message is    *)
(* one of the classes of Utterances the engine's classifiers sort it into, *)
(* and whether an answer is thin, slow or deep enough to deserve a         *)
(* follow-up is left open, so that an open probe window allows both a      *)
(* probe and the next question.                                            *)
(*                                                                         *)
(*   Agenda   the stages of the frozen question turns, in turn order       *)
(*   Demo     whether this is a demo session, which ignores the clock      *)
(*                                                                         *)
(* Time is the zone of the session clock.  The thresholds of the code are  *)
(* all ordered the same way for every session length (pacing_seconds       *)
(* scales them together), so a zone says exactly which of them are passed. *)
(***************************************************************************)
EXTENDS Integers, Sequences

CONSTANTS Agenda, Demo

AgendaStages == {"WARM_UP", "VALIDATE", "DEEP_DIVE", "CHALLENGE", "BEHAVIORAL"}

ASSUME AgendaAssumption == Agenda \in Seq(AgendaStages) /\ Len(Agenda) >= 1

ASSUME DemoAssumption == Demo \in BOOLEAN

-----------------------------------------------------------------------------
(* Zones of the session clock, in the order a session goes through them.    *)

Opening   == 0   \* less than 30% of the budget is spent
Middle    == 1   \* less than 75%
Late      == 2   \* up to 80%
Behind    == 3   \* more than 80%: no follow-up in VALIDATE and DEEP_DIVE
Reserve   == 4   \* 240 s or less remain: the behavioral reserve
Short     == 5   \* less than 180 s remain: too late for the closing Q&A
Cutoff    == 6   \* 90 s or less remain: no new turn
Final     == 7   \* 60 s or less remain: the closing reserve
Hard      == 8   \* 30 s or less remain: hard timeout
Overtime  == 9   \* the budget is exceeded by more than 180 s
Abandoned == 10  \* the budget is exceeded by 600 s or more

ClockZones == Opening..Abandoned

-----------------------------------------------------------------------------
(* Turns are numbered from 1 in agenda order.  The candidate's own          *)
(* questions are answered in one more turn that is created on demand.       *)

NoTurn == 0

ClosingTurn == Len(Agenda) + 1

Turns == 1..ClosingTurn

StageOf(t) == IF t = ClosingTurn THEN "CLOSING" ELSE Agenda[t]

TechnicalStages == {"VALIDATE", "DEEP_DIVE", "CHALLENGE"}

IsTechnical(t) == StageOf(t) \in TechnicalStages

(* The classes of candidate messages: an explicit stop request, a stop      *)
(* request only the evaluator recognises, a request to skip, a request to   *)
(* repeat or a question or remark off the topic, a request to clarify, a    *)
(* refusal to answer, an answer, and a goodbye in the closing Q&A.          *)
Utterances ==
    {"abort", "softAbort", "skip", "aside", "clarify", "giveUp", "answer", "farewell"}

-----------------------------------------------------------------------------
(* Choosing the next question: _get_next_stage_and_question.                *)

Waiting(pool, stage) == {t \in pool : StageOf(t) = stage}

First(pool, stage) ==
    CHOOSE t \in Waiting(pool, stage) : \A u \in Waiting(pool, stage) : t <= u

(* The order in which the stages are tried from a stage, the engine's own   *)
(* preference first and then the later stages of its fallback.              *)
Preference(stage, zone) ==
    CASE stage = "WARM_UP" ->
            <<"VALIDATE", "DEEP_DIVE", "CHALLENGE", "BEHAVIORAL">>
      [] stage = "VALIDATE" /\ zone = Opening ->
            <<"VALIDATE", "DEEP_DIVE", "CHALLENGE", "BEHAVIORAL">>
      [] stage = "VALIDATE" /\ zone # Opening ->
            <<"DEEP_DIVE", "CHALLENGE", "BEHAVIORAL">>
      [] stage = "DEEP_DIVE" /\ zone <= Middle ->
            <<"DEEP_DIVE", "CHALLENGE", "BEHAVIORAL">>
      [] stage = "DEEP_DIVE" /\ zone > Middle ->
            <<"CHALLENGE", "DEEP_DIVE", "BEHAVIORAL">>
      [] stage = "CHALLENGE" ->
            <<"CHALLENGE", "DEEP_DIVE", "BEHAVIORAL">>
      [] OTHER ->
            <<"VALIDATE", "DEEP_DIVE", "CHALLENGE", "BEHAVIORAL">>

(* A stage can open when a question of it waits; the behavioral one only    *)
(* after every technical question.                                          *)
CanOpen(pool, stage) ==
    /\ Waiting(pool, stage) # {}
    /\ stage = "BEHAVIORAL" => \A t \in pool : ~ IsTechnical(t)

Walk(pool, stage, zone) ==
    LET order == Preference(stage, zone)
        open  == {i \in DOMAIN order : CanOpen(pool, order[i])}
    IN  IF open = {} THEN NoTurn
        ELSE First(pool, order[CHOOSE i \in open : \A j \in open : i <= j])

(* Variant: the emergency cutoff also applies to a demo.                    *)
NextQuestionByClock(pool, cur, zone) ==
    IF zone >= Cutoff /\ Waiting(pool, "BEHAVIORAL") # {}
    THEN First(pool, "BEHAVIORAL")
    ELSE IF StageOf(cur) = "BEHAVIORAL" THEN ClosingTurn ELSE Walk(pool, StageOf(cur), zone)

(* The turn to ask after cur, ClosingTurn for the closing Q&A, or NoTurn    *)
(* to close.  pool is the set of turns that were never asked.               *)
NextQuestion(pool, cur, zone) ==
    LET stage      == StageOf(cur)
        behavioral == Waiting(pool, "BEHAVIORAL") # {}
        paced      == ~ Demo
    IN  CASE paced /\ zone >= Cutoff ->
                IF stage \notin {"BEHAVIORAL", "CLOSING"} /\ zone < Hard /\ behavioral
                THEN First(pool, "BEHAVIORAL")
                ELSE NoTurn
          [] paced /\ zone \in Reserve..Short /\ IsTechnical(cur) /\ behavioral ->
                First(pool, "BEHAVIORAL")
          [] stage = "BEHAVIORAL" /\ (Demo \/ zone < Cutoff) ->
                IF behavioral THEN First(pool, "BEHAVIORAL")
                ELSE IF Demo \/ zone < Short THEN ClosingTurn ELSE NoTurn
          [] OTHER ->
                Walk(pool, stage, zone)

-----------------------------------------------------------------------------
(* The outcome of a turn: InterviewerTurnOutput.                            *)
(*   action   what the runtime does with the reply                          *)
(*   turn     the question it names (metadata question_id), if any          *)
(*   stage    the stage it announces                                        *)
(*   exit     why the session ends, if it does                              *)
(*   aside    a reply that is not the question's one clarification          *)
(*   uncoop   consecutive refusals counted so far                           *)

Actions == {"CONFIRM_ABORT", "CLARIFY", "PROBE", "NEXT_QUESTION", "TERMINATE"}

Exits == {"NONE", "NORMAL_COMPLETION", "HARD_TIMEOUT", "FAST_FAIL_TECH"}

(* Only "two or more" is ever tested of the refusals in a row.              *)
UncoopLimit == 2

Outcomes ==
    [action : Actions, turn : Turns \cup {NoTurn}, stage : AgendaStages \cup {"CLOSING", "CLOSED"},
     exit : Exits, aside : BOOLEAN, uncoop : 0..UncoopLimit, zone : ClockZones]

Reply(action, cur, zone) ==
    [action |-> action, turn |-> NoTurn, stage |-> StageOf(cur), exit |-> "NONE",
     aside |-> FALSE, uncoop |-> 0, zone |-> zone]

Terminate(exit, uncoop, zone) ==
    [action |-> "TERMINATE", turn |-> NoTurn, stage |-> "CLOSED", exit |-> exit,
     aside |-> FALSE, uncoop |-> uncoop, zone |-> zone]

(* Moving on names the chosen question; a skip moves on without naming it.  *)
MoveOn(pool, cur, zone, uncoop, named) ==
    LET next == NextQuestion(pool, cur, zone)
    IN  IF next = NoTurn
        THEN Terminate("NORMAL_COMPLETION", 0, zone)
        ELSE [Reply("NEXT_QUESTION", cur, zone) EXCEPT
                 !.turn = IF named THEN next ELSE NoTurn,
                 !.stage = StageOf(next),
                 !.uncoop = uncoop]

HardTimeout(cur, zone) ==
    IF Demo THEN zone >= Overtime ELSE zone >= Hard /\ StageOf(cur) # "CLOSING"

(* The candidate's own questions: two are answered, or as many as fit in    *)
(* the Q&A budget, whose exhaustion is left open.                           *)
MaxQnaQuestions == 2

ClosingOutcomes(cur, zone, questions, say) ==
    LET bye  == Terminate("NORMAL_COMPLETION", 0, zone)
        stay == Reply("NEXT_QUESTION", cur, zone)
    IN  IF \/ say = "farewell"
           \/ ~ Demo /\ zone >= Cutoff
           \/ questions >= MaxQnaQuestions
        THEN {bye}
        ELSE IF Demo THEN {stay} ELSE {stay, bye}

(* A follow-up is allowed once per question, while there is time for it.    *)
ProbeWindow(pool, cur, zone, probed) ==
    /\ ~ Demo
    /\ ~ probed
    /\ IsTechnical(cur)
    /\ ~ (zone >= Behind /\ StageOf(cur) # "CHALLENGE")
    /\ ~ (zone >= Reserve /\ Waiting(pool, "BEHAVIORAL") # {})
    /\ zone < Final

AnswerOutcomes(pool, cur, zone, probed) ==
    {MoveOn(pool, cur, zone, 0, TRUE)}
        \cup (IF ProbeWindow(pool, cur, zone, probed)
              THEN {Reply("PROBE", cur, zone)} ELSE {})

GiveUpOutcomes(pool, cur, zone, uncoop) ==
    LET n == IF uncoop < UncoopLimit THEN uncoop + 1 ELSE UncoopLimit
    IN  IF StageOf(cur) \in {"DEEP_DIVE", "CHALLENGE"} /\ n >= UncoopLimit
        THEN {Terminate("FAST_FAIL_TECH", n, zone)}
        ELSE {MoveOn(pool, cur, zone, n, TRUE)}

(* What the engine does with a message it has to understand as an answer.   *)
Assess(pool, cur, zone, probed, clarified, uncoop, say) ==
    CASE say = "aside" ->
            {[Reply("CLARIFY", cur, zone) EXCEPT !.aside = TRUE]}
      [] say = "softAbort" ->
            {Reply("CONFIRM_ABORT", cur, zone)}
      [] say = "clarify" /\ StageOf(cur) # "WARM_UP" /\ ~ clarified ->
            {Reply("CLARIFY", cur, zone)}
      [] say = "giveUp" ->
            GiveUpOutcomes(pool, cur, zone, uncoop)
      [] OTHER ->
            AnswerOutcomes(pool, cur, zone, probed)

(* handle_turn: the guards in the order the engine tries them.              *)
HandleTurn(pool, cur, zone, probed, clarified, questions, uncoop, say) ==
    IF say = "abort" /\ StageOf(cur) # "CLOSING"
    THEN {Reply("CONFIRM_ABORT", cur, zone)}
    ELSE IF HardTimeout(cur, zone)
    THEN {Terminate("HARD_TIMEOUT", 0, zone)}
    ELSE IF say = "skip"
    THEN {MoveOn(pool, cur, zone, 0, FALSE)}
    ELSE IF StageOf(cur) = "CLOSING"
    THEN ClosingOutcomes(cur, zone, questions, say)
    ELSE Assess(pool, cur, zone, probed, clarified, uncoop, say)

=============================================================================

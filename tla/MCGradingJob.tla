------------------------------ MODULE MCGradingJob ------------------------------
(* The instances of GradingJob that TLC checks.                             *)
EXTENDS GradingJob

TwoCoreOneBonus ==
    <<[importance |-> "CORE", negated |-> FALSE],
      [importance |-> "CORE", negated |-> TRUE],
      [importance |-> "BONUS", negated |-> FALSE]>>

Label(status, quote) == [status |-> status, quote |-> quote]

Silent == Label("MISSING", NoQuote)

Unlabelled == Label("UNLABELLED", NoQuote)

Vote(answer, first, second, third) ==
    [answer |-> answer, labels |-> <<first, second, third>>]

Full == Vote("ANSWERED", Label("COVERED", "q1"), Label("COVERED", "q2"), Label("COVERED", "q1"))

OneQuote == Vote("ANSWERED", Label("COVERED", "q2"), Label("COVERED", "q2"), Silent)

Denial ==
    Vote("ANSWERED", Label("COVERED", "not"), Label("INCORRECT", "q1"), Label("PARTIAL", "invented"))

NoAttempt == Vote("NO_ATTEMPT", Silent, Silent, Silent)

Unusable == Vote("ANSWERED", Unlabelled, Unlabelled, Label("COVERED", "q1"))

(* The votes agree, differ, tie, or too few of them can be used.            *)
SomeBallots ==
    {<<Full, OneQuote, Full>>, <<OneQuote, Full, NoAttempt>>, <<Denial, Full, Denial>>,
     <<NoAttempt, Unusable, Denial>>, <<NoAttempt, NoAttempt, OneQuote>>, <<Unusable, Full>>}

Opinion(answer, score) == [answer |-> answer, score |-> score]

SomeOpinions ==
    {Opinion("ANSWERED", 120), Opinion("ANSWERED", 30), Opinion("NO_ATTEMPT", 40), Opinion("UNINTELLIGIBLE", 0)}

Turn(stage, status, label, weight, voice, kinds, checklist) ==
    [stage |-> stage, status |-> status, label |-> label, weight |-> weight, voice |-> voice,
     kinds |-> kinds, checklist |-> checklist]

WarmUp(voice) == Turn("WARM_UP", "ANSWERED", NoLabel, 2, voice, {"ANSWER"}, FALSE)

Closing == Turn("CLOSING", "PLANNED", NoLabel, 2, FALSE, {}, FALSE)

(* One checklist question, and three that were never put.                   *)
CutShort ==
    [turns |-> <<Turn("DEEP_DIVE", "ANSWERED", "A", 4, FALSE, {"ANSWER", "FRAGMENT"}, TRUE),
                 Turn("CHALLENGE", "PLANNED", "B", 2, FALSE, {}, TRUE),
                 Turn("CHALLENGE", "ASKED", "B", 2, FALSE, {}, FALSE),
                 Turn("BEHAVIORAL", "SKIPPED", NoLabel, 2, FALSE, {}, FALSE), Closing>>,
     dropped |-> {}]

(* A question that was answered and one that was skipped.                   *)
OneSkipped ==
    [turns |-> <<WarmUp(FALSE),
                 Turn("VALIDATE", "ANSWERED", "A", 2, FALSE, {"ANSWER"}, FALSE),
                 Turn("DEEP_DIVE", "ANSWERED", "B", 1, FALSE, {"NON_ANSWER"}, FALSE), Closing>>,
     dropped |-> {"A"}]

(* A voice session: one answer, one fragment.                               *)
Spoken ==
    [turns |-> <<Turn("VALIDATE", "ANSWERED", NoLabel, 2, TRUE, {"ANSWER"}, FALSE),
                 Turn("DEEP_DIVE", "ANSWERED", "B", 3, TRUE, {"FRAGMENT"}, TRUE)>>,
     dropped |-> {"C"}]

(* The candidate left before the first question that counts.                *)
LeftEarly == [turns |-> <<WarmUp(FALSE), Closing>>, dropped |-> {}]

SomeSessions == {CutShort, OneSkipped, Spoken, LeftEarly}
=============================================================================

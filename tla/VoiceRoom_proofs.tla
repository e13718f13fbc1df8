---------------------------- MODULE VoiceRoom_proofs ----------------------------
(***************************************************************************)
(* Proofs about the voice room, for any number of tasks, questions and     *)
(* fragments: the flag of the agent is the call to Core, the tail of one   *)
(* answer stays out of the next, and the room is only released for cause.  *)
(*                                                                         *)
(* The invariant adds to the properties what makes them inductive: of the  *)
(* tasks that are about to take the window there is one at most            *)
(* (OneCommits), one that waits for its preview does so while nothing is   *)
(* with Core (WaitingIsFree), and the grace runs only while the candidate  *)
(* is away (AwayInGrace).                                                  *)
(***************************************************************************)
EXTENDS VoiceRoom, FiniteSetTheorems, TLAPS

Committing(k) == stage[k] \in {"fired", "waiting"}

OneCommits == \A j, k \in Tasks : Committing(j) /\ Committing(k) => j = k

WaitingIsFree == \A k \in Tasks : stage[k] = "waiting" => ~ inFlight

OneCall == \A j, k \in Tasks : Calling(j) /\ Calling(k) => j = k

FlagIsCall == inFlight <=> \E k \in Tasks : Calling(k)

AwayInGrace == grace # "none" => ~ present

CallInv == OneCommits /\ WaitingIsFree /\ OneCall /\ FlagIsCall

-----------------------------------------------------------------------------
(* The types.                                                               *)

LEMMA LineIsText == Line \in Texts /\ \A q \in 1..MaxQuestions : q \in Texts
BY BoundsAssumption DEF Line, Texts

LEMMA ListensTyped == Listens => reprompt' \in BOOLEAN
BY Zenon DEF Listens

LEMMA SayTyped ==
    ASSUME NEW text \in Texts, Say(text)
    PROVE  speech' \in [text : Texts, stops : BOOLEAN, state : {"playing", "done", "cut"}]
BY DEF Say

Stages == [Tasks -> {"none", "fired", "waiting", "posted", "filled"}]

LEMMA StageTyped ==
    ASSUME stage \in Stages, NEW k \in Tasks,
           NEW at \in {"none", "fired", "waiting", "posted", "filled"},
           stage' = [stage EXCEPT ![k] = at]
    PROVE  stage' \in Stages
BY DEF Stages

LEMMA SentTyped ==
    ASSUME sent \in [Tasks -> Seq(Fragments)], NEW k \in Tasks, NEW answer \in Seq(Fragments),
           sent' = [sent EXCEPT ![k] = answer]
    PROVE  sent' \in [Tasks -> Seq(Fragments)]
OBVIOUS

(* What taking the window, giving it up and the end of a call write.        *)
LEMMA CallTyped ==
    ASSUME TypeOK, NEW k \in Tasks, Take(k) \/ GivesUp(k) \/ (CallEnds(k) /\ buffer' \in {<<>>, buffer})
    PROVE  /\ stage' \in Stages
           /\ sent' \in [Tasks -> Seq(Fragments)]
           /\ buffer' \in Seq(Fragments) /\ Len(buffer') <= MaxFragments
           /\ inFlight' \in BOOLEAN
<1>1. stage \in Stages /\ sent \in [Tasks -> Seq(Fragments)] /\ buffer \in Seq(Fragments)
  BY DEF TypeOK, Stages
<1>2. stage' \in Stages
  BY <1>1, StageTyped DEF Take, GivesUp, CallEnds
<1>3. <<>> \in Seq(Fragments)
  OBVIOUS
<1>4. sent' = sent \/ \E answer \in Seq(Fragments) : sent' = [sent EXCEPT ![k] = answer]
  BY <1>1, <1>3 DEF Take, GivesUp, CallEnds
<1>5. sent' \in [Tasks -> Seq(Fragments)]
  BY <1>1, <1>4, SentTyped
<1>6. buffer' \in {<<>>, buffer}
  BY DEF Take, GivesUp
<1>7. buffer' \in Seq(Fragments) /\ Len(buffer') <= MaxFragments
  <2>1. CASE buffer' = <<>>
    BY <2>1, BoundsAssumption
  <2>2. CASE buffer' = buffer
    BY <2>2 DEF TypeOK
  <2> QED BY <1>6, <2>1, <2>2
<1>8. inFlight' \in BOOLEAN
  BY DEF Take, GivesUp, CallEnds, TypeOK
<1> QED BY <1>2, <1>5, <1>7, <1>8

LEMMA InitTypeOK == Init => TypeOK
<1> SUFFICES ASSUME Init PROVE TypeOK
  OBVIOUS
<1>1. question \in 1..MaxQuestions /\ reprompted \in Texts /\ held \in Texts \cup {Nothing}
  BY BoundsAssumption, LineIsText DEF Init
<1>2. speech \in [text : Texts, stops : BOOLEAN, state : {"playing", "done", "cut"}]
  BY <1>1 DEF Init, Texts
<1>3. buffer \in Seq(Fragments) /\ Len(buffer) <= MaxFragments /\ sent \in [Tasks -> Seq(Fragments)]
  BY BoundsAssumption DEF Init
<1> QED BY <1>1, <1>2, <1>3 DEF Init, TypeOK

LEMMA TurnCompletedTypeOK ==
    ASSUME TypeOK, NEW kind \in TurnKinds, TurnCompleted(kind)
    PROVE  TypeOK'
<1>1. PICK cut \in BOOLEAN :
         \/ Unusable(kind, cut)
         \/ AfterHold(kind)
         \/ Replayed(kind, cut)
         \/ Acknowledged(kind, cut)
         \/ Resumed(kind, cut)
         \/ Holds(kind, cut)
         \/ Answers(kind, cut)
  BY DEF TurnCompleted
<1>2. /\ voice' = "silent"
      /\ UNCHANGED <<question, stage, sent, inFlight, reprompted, closing, roomVars>>
  BY DEF TurnCompleted
<1>3. buffer' \in Seq(Fragments) /\ Len(buffer') <= MaxFragments
  <2>1. CASE Answers(kind, cut)
    <3>1. question \in Fragments
      BY DEF TypeOK, Fragments
    <3>2. buffer' = Append(buffer, question) /\ Len(buffer) < MaxFragments
      BY <2>1 DEF Answers
    <3> QED BY <3>1, <3>2, BoundsAssumption DEF TypeOK
  <2>2. CASE ~ Answers(kind, cut)
    <3>1. buffer' = buffer
      BY <1>1, <2>2 DEF Unusable, AfterHold, Replayed, Acknowledged, Resumed, Holds, KeepWindow
    <3> QED BY <3>1 DEF TypeOK
  <2> QED BY <2>1, <2>2
<1>4. commit' \in BOOLEAN
  <2>1. \/ commit' = commit \/ commit' = FALSE \/ commit' = TRUE
        \/ commit' = (commit /\ kind = "blank")
    BY <1>1, Zenon DEF Unusable, AfterHold, Replayed, Acknowledged, Resumed, Holds, Answers,
                       KeepWindow, ScheduleCommit
  <2> QED BY <2>1, Zenon DEF TypeOK
<1>7. reprompt' \in BOOLEAN
  BY <1>1, Zenon DEF TypeOK, Unusable, AfterHold, Replayed, Acknowledged, Resumed, Holds, Answers,
                     KeepWindow
<1>5. speech' \in [text : Texts, stops : BOOLEAN, state : {"playing", "done", "cut"}]
  <2>1. /\ Line \in Texts /\ question \in Texts /\ speech.text \in Texts
        /\ held # Nothing => held \in Texts
    BY LineIsText DEF TypeOK
  <2>2. speech' = speech \/ \E text \in Texts : Say(text)
    BY <1>1, <2>1 DEF Unusable, AfterHold, Replayed, Acknowledged, Resumed, Holds, Answers
  <2> QED BY <2>2, SayTyped DEF TypeOK
<1>6. held' \in Texts \cup {Nothing}
  BY <1>1 DEF TypeOK, Unusable, AfterHold, Replayed, Acknowledged, Resumed, Holds, Answers
<1> QED BY <1>2, <1>3, <1>4, <1>5, <1>6, <1>7 DEF TypeOK, roomVars

LEMMA NextTypeOK == TypeOK /\ [Next]_vars => TypeOK'
<1> SUFFICES ASSUME TypeOK, [Next]_vars PROVE TypeOK'
  OBVIOUS
<1> USE DEF TypeOK, answerVars, roomVars
<1>1. CASE SpeechEnds
  BY <1>1, ListensTyped DEF SpeechEnds
<1>2. CASE SpeechIsCut
  BY <1>2, ListensTyped DEF SpeechIsCut
<1>3. CASE RepromptFires
  BY <1>3, LineIsText, SayTyped DEF RepromptFires, Texts
<1>4. CASE RepeatPressed
  BY <1>4, LineIsText DEF RepeatPressed, Say
<1>5. CASE UserSpeaks
  BY <1>5 DEF UserSpeaks
<1>6. CASE UserStops
  BY <1>6 DEF UserStops
<1>7. CASE NoTurn
  BY <1>7 DEF NoTurn
<1>8. CASE \E kind \in TurnKinds : TurnCompleted(kind)
  BY <1>8, TurnCompletedTypeOK
<1>9. CASE CommitFires
  <2>1. stage' \in Stages
    BY <1>9, StageTyped DEF CommitFires, Stages
  <2> QED BY <1>9, <2>1, ZenonT(60) DEF CommitFires, Stages
<1>10. ASSUME NEW k \in Tasks, CommitAnswer(k) PROVE TypeOK'
  <2>1. /\ stage' \in Stages /\ sent' \in [Tasks -> Seq(Fragments)] /\ inFlight' \in BOOLEAN
        /\ buffer' \in Seq(Fragments) /\ Len(buffer') <= MaxFragments
    BY <1>10, CallTyped, StageTyped DEF CommitAnswer, Stages
  <2>2. reprompt' \in BOOLEAN
    BY <1>10 DEF CommitAnswer, GivesUp, Take
  <2> QED BY <1>10, <2>1, <2>2 DEF CommitAnswer, Stages
<1>11. ASSUME NEW k \in Tasks, PreviewEnds(k) PROVE TypeOK'
  <2>1. /\ stage' \in Stages /\ sent' \in [Tasks -> Seq(Fragments)] /\ inFlight' \in BOOLEAN
        /\ buffer' \in Seq(Fragments) /\ Len(buffer') <= MaxFragments
    BY <1>11, CallTyped DEF PreviewEnds
  <2>2. reprompt' \in BOOLEAN
    BY <1>11 DEF PreviewEnds, GivesUp, Take
  <2> QED BY <1>11, <2>1, <2>2 DEF PreviewEnds, Stages
<1>12. ASSUME NEW k \in Tasks, FillerSpoken(k) PROVE TypeOK'
  <2>1. stage' \in Stages
    BY <1>12, StageTyped DEF FillerSpoken, Stages
  <2>2. speech' \in [text : Texts, stops : BOOLEAN, state : {"playing", "done", "cut"}]
    BY <1>12, LineIsText, SayTyped DEF FillerSpoken
  <2> QED BY <1>12, <2>1, <2>2 DEF FillerSpoken, Stages
<1>13. ASSUME NEW k \in Tasks, CoreReplies(k) PROVE TypeOK'
  <2>1. question' \in 1..MaxQuestions /\ closing' \in {"no", "playing", "heard"}
    BY <1>13, BoundsAssumption DEF CoreReplies
  <2>2. speech' \in [text : Texts, stops : BOOLEAN, state : {"playing", "done", "cut"}]
    <3>1. question < MaxQuestions => question + 1 \in Texts
      BY BoundsAssumption DEF Texts
    <3>2. CASE speech' = [text |-> Line, stops |-> FALSE, state |-> "playing"]
      BY <3>2, LineIsText
    <3>3. CASE Say(Line)
      BY <3>3, LineIsText, SayTyped
    <3>4. CASE question < MaxQuestions /\ Say(question + 1)
      BY <3>1, <3>4, SayTyped
    <3> QED BY <1>13, <3>2, <3>3, <3>4 DEF CoreReplies
  <2>3. /\ stage' \in Stages /\ sent' \in [Tasks -> Seq(Fragments)] /\ inFlight' \in BOOLEAN
        /\ buffer' \in Seq(Fragments) /\ Len(buffer') <= MaxFragments
    BY <1>13, CallTyped DEF CoreReplies
  <2> QED BY <1>13, <2>1, <2>2, <2>3 DEF CoreReplies, Stages
<1>14. ASSUME NEW k \in Tasks, CoreFails(k) PROVE TypeOK'
  <2>1. /\ stage' \in Stages /\ sent' \in [Tasks -> Seq(Fragments)] /\ inFlight' \in BOOLEAN
        /\ buffer' \in Seq(Fragments) /\ Len(buffer') <= MaxFragments
    BY <1>14, CallTyped DEF CoreFails
  <2>2. speech' \in [text : Texts, stops : BOOLEAN, state : {"playing", "done", "cut"}]
    BY <1>14, LineIsText, SayTyped DEF CoreFails
  <2> QED BY <1>14, <2>1, <2>2 DEF CoreFails, Stages
<1>15. CASE ClosingHeard
  BY <1>15 DEF ClosingHeard, Listens, ReleaseSession
<1>16. CASE Released
  BY <1>16 DEF Released
<1>17. CASE CandidateLeaves
  BY <1>17 DEF CandidateLeaves
<1>18. CASE CandidateReturns
  BY <1>18 DEF CandidateReturns
<1>19. CASE GraceEnds
  BY <1>19 DEF GraceEnds
<1>20. CASE CoreTold
  BY <1>20 DEF CoreTold, ReleaseSession
<1>21. CASE UNCHANGED vars
  BY <1>21 DEF vars
<1> QED
  BY <1>1, <1>2, <1>3, <1>4, <1>5, <1>6, <1>7, <1>8, <1>9, <1>10, <1>11, <1>12, <1>13, <1>14,
     <1>15, <1>16, <1>17, <1>18, <1>19, <1>20, <1>21 DEF Next

(* The state of the agent and of the room stays within its types.           *)
THEOREM TypeCorrect == Spec => []TypeOK
BY InitTypeOK, NextTypeOK, PTL DEF Spec

-----------------------------------------------------------------------------
(* The call to Core.                                                        *)

Core == <<question, buffer, stage, sent, inFlight>>

(* The invariant of the calls speaks of nothing but these.                  *)
LEMMA CallStutter == CallInv /\ TailStaysOut /\ UNCHANGED Core => CallInv' /\ TailStaysOut'
BY DEF Core, CallInv, TailStaysOut, OneCommits, WaitingIsFree, OneCall, FlagIsCall, Calling,
       Committing

(* The only task that commits takes the window while nothing is with Core.  *)
LEMMA TakeInv ==
    ASSUME TypeOK, CallInv, TailStaysOut, NEW k \in Tasks, Committing(k), ~ inFlight, Take(k),
           UNCHANGED question
    PROVE  CallInv' /\ TailStaysOut'
<1>1. \A j \in Tasks : ~ Calling(j)
  BY DEF CallInv, FlagIsCall
<1>2. /\ stage'[k] = "posted" /\ sent'[k] = buffer /\ inFlight' = TRUE /\ buffer' = <<>>
      /\ \A j \in Tasks \ {k} : stage'[j] = stage[j] /\ sent'[j] = sent[j]
  BY DEF Take, TypeOK
<1>3. \A j \in Tasks : ~ Committing(j)'
  BY <1>2 DEF CallInv, OneCommits, Committing
<1>4. \A j \in Tasks : Calling(j)' <=> j = k
  BY <1>1, <1>2 DEF Calling
<1>5. OneCommits' /\ WaitingIsFree'
  BY <1>3 DEF OneCommits, WaitingIsFree, Committing
<1>6. OneCall' /\ FlagIsCall'
  BY <1>2, <1>4 DEF OneCall, FlagIsCall
<1>7. TailStaysOut'
  BY <1>2, <1>4 DEF TailStaysOut
<1> QED BY <1>5, <1>6, <1>7 DEF CallInv

LEMMA GivesUpInv ==
    ASSUME TypeOK, CallInv, TailStaysOut, NEW k \in Tasks, Committing(k), GivesUp(k),
           UNCHANGED question
    PROVE  CallInv' /\ TailStaysOut'
<1>1. /\ stage'[k] = "none" /\ \A j \in Tasks \ {k} : stage'[j] = stage[j]
      /\ UNCHANGED <<buffer, sent, inFlight>>
  BY DEF GivesUp, TypeOK
<1>2. \A j \in Tasks : Calling(j)' <=> Calling(j)
  BY <1>1 DEF Calling, Committing
<1>3. \A j \in Tasks : Committing(j)' => Committing(j) /\ stage'[j] = stage[j]
  BY <1>1 DEF Committing
<1> QED
  BY <1>1, <1>2, <1>3 DEF CallInv, TailStaysOut, OneCommits, WaitingIsFree, OneCall, FlagIsCall,
                          Committing

(* When the call ends nothing is with Core.                                 *)
LEMMA CallEndsInv ==
    ASSUME TypeOK, CallInv, NEW k \in Tasks, Calling(k), CallEnds(k)
    PROVE  CallInv' /\ \A j \in Tasks : ~ Calling(j)'
<1>1. /\ stage'[k] = "none" /\ \A j \in Tasks \ {k} : stage'[j] = stage[j]
      /\ inFlight' = FALSE
  BY DEF CallEnds, TypeOK
<1>2. \A j \in Tasks : ~ Calling(j)'
  BY <1>1 DEF CallInv, OneCall, Calling
<1>3. \A j \in Tasks : Committing(j)' => Committing(j)
  BY <1>1 DEF Committing
<1> QED
  BY <1>1, <1>2, <1>3 DEF CallInv, OneCommits, WaitingIsFree, OneCall, FlagIsCall, Committing

LEMMA TurnCompletedCall ==
    ASSUME TypeOK, CallInv, TailStaysOut, NEW kind \in TurnKinds, TurnCompleted(kind)
    PROVE  CallInv' /\ TailStaysOut'
<1>1. UNCHANGED <<question, stage, sent, inFlight>>
  BY DEF TurnCompleted
<1>2. buffer' = buffer \/ buffer' = Append(buffer, question)
  BY DEF TurnCompleted, Unusable, AfterHold, Replayed, Acknowledged, Resumed, Holds, Answers,
         KeepWindow
<1>3. \A i \in DOMAIN buffer' : buffer'[i] = question
  BY <1>2, SMTT(40) DEF TailStaysOut, TypeOK
<1>4. CallInv'
  BY <1>1 DEF CallInv, OneCommits, WaitingIsFree, OneCall, FlagIsCall, Calling, Committing
<1>5. TailStaysOut'
  BY <1>1, <1>3 DEF TailStaysOut, Calling
<1> QED BY <1>4, <1>5

LEMMA CommitFiresCall ==
    ASSUME TypeOK, CallInv, TailStaysOut, CommitFires
    PROVE  CallInv' /\ TailStaysOut'
<1>1. \A j \in Tasks : ~ Committing(j)
  BY DEF CommitFires, Committing
<1>2. PICK k \in Tasks : stage[k] = "none" /\ stage' = [stage EXCEPT ![k] = "fired"]
  BY DEF CommitFires
<1>3. stage'[k] = "fired" /\ \A j \in Tasks \ {k} : stage'[j] = stage[j]
  BY <1>2 DEF TypeOK
<1>4. UNCHANGED <<question, buffer, sent, inFlight>>
  BY DEF CommitFires
<1>5. \A j \in Tasks : (Calling(j)' <=> Calling(j)) /\ (Committing(j)' => j = k)
  BY <1>1, <1>2, <1>3 DEF Calling, Committing
<1>6. \A j \in Tasks : stage'[j] # "waiting"
  BY <1>1, <1>3 DEF Committing
<1> QED
  BY <1>4, <1>5, <1>6 DEF CallInv, TailStaysOut, OneCommits, WaitingIsFree, OneCall, FlagIsCall

LEMMA CommitAnswerCall ==
    ASSUME TypeOK, CallInv, TailStaysOut, NEW k \in Tasks, CommitAnswer(k)
    PROVE  CallInv' /\ TailStaysOut'
<1>1. Committing(k) /\ stage[k] = "fired" /\ UNCHANGED question
  BY DEF CommitAnswer, Committing
<1>2. CASE GivesUp(k)
  BY <1>1, <1>2, GivesUpInv
<1>3. CASE ~ inFlight /\ Take(k)
  BY <1>1, <1>3, TakeInv
<1>4. CASE /\ ~ inFlight /\ stage' = [stage EXCEPT ![k] = "waiting"]
           /\ UNCHANGED <<buffer, sent, inFlight>>
  <2>1. stage'[k] = "waiting" /\ \A j \in Tasks \ {k} : stage'[j] = stage[j]
    BY <1>4 DEF TypeOK
  <2>2. \A j \in Tasks : (Calling(j)' <=> Calling(j)) /\ (Committing(j)' <=> Committing(j))
    BY <1>1, <2>1 DEF Calling, Committing
  <2> QED
    BY <1>1, <1>4, <2>2 DEF CallInv, TailStaysOut, OneCommits, WaitingIsFree, OneCall, FlagIsCall
<1> QED BY <1>2, <1>3, <1>4 DEF CommitAnswer

LEMMA PreviewEndsCall ==
    ASSUME TypeOK, CallInv, TailStaysOut, NEW k \in Tasks, PreviewEnds(k)
    PROVE  CallInv' /\ TailStaysOut'
<1>1. Committing(k) /\ ~ inFlight /\ UNCHANGED question
  BY DEF PreviewEnds, Committing, CallInv, WaitingIsFree
<1>2. GivesUp(k) \/ Take(k)
  BY DEF PreviewEnds
<1> QED BY <1>1, <1>2, GivesUpInv, TakeInv

LEMMA FillerCall ==
    ASSUME TypeOK, CallInv, TailStaysOut, NEW k \in Tasks, FillerSpoken(k)
    PROVE  CallInv' /\ TailStaysOut'
<1>1. /\ stage[k] = "posted" /\ stage'[k] = "filled"
      /\ \A j \in Tasks \ {k} : stage'[j] = stage[j]
      /\ UNCHANGED <<question, buffer, sent, inFlight>>
  BY DEF FillerSpoken, TypeOK
<1>2. \A j \in Tasks : (Calling(j)' <=> Calling(j)) /\ (Committing(j)' <=> Committing(j))
                     /\ (stage'[j] = "waiting" <=> stage[j] = "waiting")
  BY <1>1 DEF Calling, Committing
<1> QED
  BY <1>1, <1>2 DEF CallInv, TailStaysOut, OneCommits, WaitingIsFree, OneCall, FlagIsCall

LEMMA CoreAnswersCall ==
    ASSUME TypeOK, CallInv, TailStaysOut, NEW k \in Tasks, CoreReplies(k) \/ CoreFails(k)
    PROVE  CallInv' /\ TailStaysOut'
<1>1. Calling(k) /\ CallEnds(k)
  BY DEF CoreReplies, CoreFails
<1>2. CallInv' /\ \A j \in Tasks : ~ Calling(j)'
  BY <1>1, CallEndsInv
<1>3. buffer' = <<>> \/ (buffer' = buffer /\ question' = question)
  BY DEF CoreReplies, CoreFails
<1>4. TailStaysOut'
  BY <1>2, <1>3 DEF TailStaysOut
<1> QED BY <1>2, <1>4

LEMMA NextCall == TypeOK /\ CallInv /\ TailStaysOut /\ [Next]_vars => CallInv' /\ TailStaysOut'
<1> SUFFICES ASSUME TypeOK, CallInv, TailStaysOut, [Next]_vars PROVE CallInv' /\ TailStaysOut'
  OBVIOUS
<1>1. CASE \/ SpeechEnds \/ SpeechIsCut \/ RepromptFires \/ RepeatPressed
           \/ UserSpeaks \/ UserStops \/ NoTurn
  <2>1. UNCHANGED Core
    BY <1>1 DEF Core, SpeechEnds, SpeechIsCut, RepromptFires, RepeatPressed, UserSpeaks,
                UserStops, NoTurn, answerVars
  <2> QED BY <2>1, CallStutter
<1>2. CASE \E kind \in TurnKinds : TurnCompleted(kind)
  BY <1>2, TurnCompletedCall
<1>3. CASE CommitFires
  BY <1>3, CommitFiresCall
<1>4. CASE \E k \in Tasks : CommitAnswer(k)
  BY <1>4, CommitAnswerCall
<1>5. CASE \E k \in Tasks : PreviewEnds(k)
  BY <1>5, PreviewEndsCall
<1>6. CASE \E k \in Tasks : FillerSpoken(k)
  BY <1>6, FillerCall
<1>7. CASE \E k \in Tasks : CoreReplies(k) \/ CoreFails(k)
  BY <1>7, CoreAnswersCall
<1>8. CASE \/ ClosingHeard \/ Released \/ CandidateLeaves \/ CandidateReturns
           \/ GraceEnds \/ CoreTold
  <2>1. UNCHANGED Core
    BY <1>8 DEF Core, ClosingHeard, Released, CandidateLeaves, CandidateReturns, GraceEnds,
                CoreTold, answerVars
  <2> QED BY <2>1, CallStutter
<1>9. CASE UNCHANGED vars
  <2>1. UNCHANGED Core
    BY <1>9 DEF Core, vars
  <2> QED BY <2>1, CallStutter
<1> QED BY <1>1, <1>2, <1>3, <1>4, <1>5, <1>6, <1>7, <1>8, <1>9 DEF Next

LEMMA InitCall == Init => CallInv /\ TailStaysOut
BY DEF Init, CallInv, TailStaysOut, OneCommits, WaitingIsFree, OneCall, FlagIsCall, Calling,
       Committing

(* One task at a time commits an answer, one posts one, the agent's flag    *)
(* is set exactly while it does, and no answer holds what was said before   *)
(* its question was put (_commit_answer, _drain_previews).                  *)
THEOREM CallsAreSafe == Spec => [](CallInv /\ TailStaysOut)
<1>1. Init => TypeOK /\ CallInv /\ TailStaysOut
  BY InitTypeOK, InitCall
<1>2. TypeOK /\ CallInv /\ TailStaysOut /\ [Next]_vars => (TypeOK /\ CallInv /\ TailStaysOut)'
  BY NextTypeOK, NextCall
<1> QED BY <1>1, <1>2, PTL DEF Spec

LEMMA OneCallCounts == OneCall => Cardinality({k \in Tasks : Calling(k)}) <= 1
<1> SUFFICES ASSUME OneCall PROVE Cardinality({k \in Tasks : Calling(k)}) <= 1
  OBVIOUS
<1>1. CASE {k \in Tasks : Calling(k)} = {}
  BY <1>1, FS_EmptySet
<1>2. CASE \E j \in Tasks : Calling(j)
  <2>1. PICK j \in Tasks : Calling(j)
    BY <1>2
  <2>2. {k \in Tasks : Calling(k)} = {j}
    BY <2>1 DEF OneCall
  <2> QED BY <2>2, FS_Singleton
<1> QED BY <1>1, <1>2

(* The flag of the agent is set exactly while one answer is with Core.      *)
THEOREM OneAnswerAtCore == Spec => []InFlightIsTheCall
<1>1. CallInv => InFlightIsTheCall
  BY OneCallCounts DEF CallInv, FlagIsCall, InFlightIsTheCall
<1> QED BY <1>1, CallsAreSafe, PTL

(* What was said before a question was put is in no answer to it.           *)
THEOREM AnswersAreToTheQuestion == Spec => []TailStaysOut
BY CallsAreSafe, PTL

-----------------------------------------------------------------------------
(* The room.                                                                *)

LEMMA NextAway == AwayInGrace /\ [Next]_vars => AwayInGrace'
<1> SUFFICES ASSUME AwayInGrace, [Next]_vars PROVE AwayInGrace'
  OBVIOUS
<1>1. CASE \/ CandidateLeaves \/ CandidateReturns \/ GraceEnds \/ CoreTold
  BY <1>1 DEF CandidateLeaves, CandidateReturns, GraceEnds, CoreTold, AwayInGrace
<1>2. CASE UNCHANGED <<present, grace>>
  BY <1>2 DEF AwayInGrace
<1>3. \/ CandidateLeaves \/ CandidateReturns \/ GraceEnds \/ CoreTold
      \/ UNCHANGED <<present, grace>>
  BY DEF Next, vars, roomVars, SpeechEnds, SpeechIsCut, RepromptFires, RepeatPressed, UserSpeaks,
         UserStops, NoTurn, TurnCompleted, CommitFires, CommitAnswer, PreviewEnds, FillerSpoken,
         CoreReplies, CoreFails, ClosingHeard, Released
<1> QED BY <1>1, <1>2, <1>3

(* The room is released because the closing was heard, or while the         *)
(* candidate is away.                                                       *)
THEOREM ReleaseHasACause == Spec => ReleasedForCause
<1>1. Init => AwayInGrace
  BY DEF Init, AwayInGrace
<1>2. ASSUME AwayInGrace, [Next]_vars, release = "no", release' # "no"
      PROVE  closing' = "heard" \/ ~ present
  <2>1. ClosingHeard \/ CoreTold
    BY <1>2 DEF Next, vars, roomVars, SpeechEnds, SpeechIsCut, RepromptFires, RepeatPressed,
                UserSpeaks, UserStops, NoTurn, TurnCompleted, CommitFires, CommitAnswer,
                PreviewEnds, FillerSpoken, CoreReplies, CoreFails, Released, CandidateLeaves,
                CandidateReturns, GraceEnds
  <2> QED BY <1>2, <2>1 DEF ClosingHeard, CoreTold, AwayInGrace
<1>3. AwayInGrace /\ [Next]_vars
        => [release = "no" /\ release' # "no" => closing' = "heard" \/ ~ present]_vars
  BY <1>2
<1> QED BY <1>1, <1>3, NextAway, PTL DEF Spec, ReleasedForCause

=============================================================================

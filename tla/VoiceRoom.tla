------------------------------- MODULE VoiceRoom -------------------------------
(***************************************************************************)
(* The voice room of one interview: the agent of livekit_agent.py, with    *)
(* its answer window (answer_window.py), its reading of what it hears      *)
(* (interruption.py, transcript_quality.py) and the life of the room.      *)
(*                                                                         *)
(* Everything runs on one event loop: an action is one handler up to its   *)
(* next await, so the actions interleave exactly at the awaits.  What the  *)
(* agent meets there is external: the speech SDK (who speaks, what plays,  *)
(* whether playout is cut), the transcripts, Interview Core's replies, and *)
(* the candidate who leaves the room and comes back.                       *)
(*                                                                         *)
(*   Tasks         the core tasks that may be alive together               *)
(*   MaxQuestions  Core puts no more questions than this (a bound)         *)
(*   MaxFragments  an answer has no more fragments than this (a bound)     *)
(*   Preview       the speculative preview is on (the qwen provider)       *)
(*                                                                         *)
(* A question is its number; Line stands for every line that is not one    *)
(* (fillers, re-prompts, acknowledgements, errors), and what is left of an *)
(* interrupted line counts as the line.                                    *)
(***************************************************************************)
EXTENDS Naturals, Sequences, FiniteSets

CONSTANTS Tasks, MaxQuestions, MaxFragments, Preview

ASSUME BoundsAssumption ==
    /\ MaxQuestions \in Nat \ {0}
    /\ MaxFragments \in Nat \ {0}
    /\ Preview \in BOOLEAN

VARIABLES
    question,   \* _last_interview_speech_text: the question to repeat
    buffer,     \* the answer window: the fragments of the answer being spoken
    commit,     \* _commit_task is asleep
    stage,      \* where each core task is
    sent,       \* the answer it has posted
    inFlight,   \* _core_in_flight
    reprompt,   \* _reprompt_task is asleep
    reprompted, \* _reprompted_text
    speech,     \* _active_speech_handle and its text: the line said last
    held,       \* _held_speech_text
    voice,      \* the candidate: silent, speaking, or just stopped
    closing,    \* the closing line: not said, playing, or heard
    present,    \* the candidate is in the room
    grace,      \* abandon_task: none, asleep, or telling Core
    release     \* the session: open, being released, or released

answerVars == <<buffer, commit, stage, sent, inFlight>>
roomVars   == <<present, grace, release>>

vars == <<question, buffer, commit, stage, sent, inFlight, reprompt, reprompted,
          speech, held, voice, closing, present, grace, release>>

Line == 0
Nothing == MaxQuestions + 1

Texts == 0..MaxQuestions

(* One recognised turn of an answer: the question that was put last when    *)
(* it was recognised.                                                       *)
Fragments == 1..MaxQuestions

(* What the agent tells apart in a turn: nothing or noise, a transcript of *)
(* poor quality, a request to repeat, a greeting, a request to go on, an   *)
(* acknowledgement, "wait", an echo of its own speech, or content.         *)
TurnKinds == {"blank", "unclear", "repeat", "greeting", "resume", "backchannel",
              "hold", "echo", "content"}

Acknowledgements == {"greeting", "backchannel"}

TypeOK ==
    /\ question \in 1..MaxQuestions
    /\ buffer \in Seq(Fragments) /\ Len(buffer) <= MaxFragments
    /\ commit \in BOOLEAN
    /\ stage \in [Tasks -> {"none", "fired", "waiting", "posted", "filled"}]
    /\ sent \in [Tasks -> Seq(Fragments)]
    /\ inFlight \in BOOLEAN
    /\ reprompt \in BOOLEAN
    /\ reprompted \in Texts
    /\ speech \in [text : Texts, stops : BOOLEAN, state : {"playing", "done", "cut"}]
    /\ held \in Texts \cup {Nothing}
    /\ voice \in {"silent", "speaking", "ended"}
    /\ closing \in {"no", "playing", "heard"}
    /\ present \in BOOLEAN
    /\ grace \in {"none", "asleep", "telling"}
    /\ release \in {"no", "releasing", "done"}

(* The opening plays first, and cannot be interrupted.                      *)
Init ==
    /\ question = 1
    /\ buffer = <<>>
    /\ commit = FALSE
    /\ stage = [k \in Tasks |-> "none"]
    /\ sent = [k \in Tasks |-> <<>>]
    /\ inFlight = FALSE
    /\ reprompt = FALSE
    /\ reprompted = Line
    /\ speech = [text |-> 1, stops |-> FALSE, state |-> "playing"]
    /\ held = Nothing
    /\ voice = "silent"
    /\ closing = "no"
    /\ present = TRUE
    /\ grace = "none"
    /\ release = "no"

-----------------------------------------------------------------------------
(* Speaking.                                                                *)

Open == release # "done"

(* speak: the line queues behind what is playing, and is from now on the    *)
(* one an interruption is about.                                            *)
Say(text) == speech' = [text |-> text, stops |-> TRUE, state |-> "playing"]

(* on_agent_listening: playout stopped, so wait for an answer and re-prompt *)
(* once for this question.                                                  *)
Listens ==
    reprompt' = (reprompt \/ (buffer = <<>> /\ ~ inFlight /\ reprompted # question))

(* The SDK has played the line to its end.  The closing line is waited for  *)
(* by the task that said it.                                                *)
SpeechEnds ==
    /\ Open
    /\ speech.state = "playing"
    /\ closing # "playing"
    /\ speech' = [speech EXCEPT !.state = "done"]
    /\ Listens
    /\ UNCHANGED <<question, reprompted, held, closing>>
    /\ UNCHANGED <<answerVars, voice, roomVars>>

(* The SDK cuts the line because the candidate speaks.                      *)
SpeechIsCut ==
    /\ Open
    /\ voice = "speaking"
    /\ speech.state = "playing"
    /\ speech.stops
    /\ closing # "playing"
    /\ speech' = [speech EXCEPT !.state = "cut"]
    /\ Listens
    /\ UNCHANGED <<question, reprompted, held, closing>>
    /\ UNCHANGED <<answerVars, voice, roomVars>>

(* _reprompt_after_silence.                                                 *)
RepromptFires ==
    /\ release = "no"
    /\ reprompt
    /\ reprompt' = FALSE
    /\ IF buffer = <<>> /\ ~ inFlight
       THEN reprompted' = question /\ Say(Line)
       ELSE UNCHANGED <<reprompted, speech>>
    /\ UNCHANGED <<question, held, closing>>
    /\ UNCHANGED <<answerVars, voice, roomVars>>

(* The room's "repeat" button.                                              *)
RepeatPressed ==
    /\ Open
    /\ present
    /\ Say(question)
    /\ UNCHANGED <<question, reprompt, reprompted, held, closing>>
    /\ UNCHANGED <<answerVars, voice, roomVars>>

-----------------------------------------------------------------------------
(* Hearing.                                                                 *)

(* Variant: the post runs inside the task that speaking cancels.            *)
SpeakingCancelsThePost ==
    /\ Open
    /\ present
    /\ voice # "speaking"
    /\ voice' = "speaking"
    /\ commit' = FALSE
    /\ reprompt' = FALSE
    /\ stage' = [k \in Tasks |-> "none"]
    /\ UNCHANGED <<question, buffer, sent, inFlight, reprompted, speech, held,
                   closing, roomVars>>

(* on_user_speaking: the answer is not finished yet.                        *)
UserSpeaks ==
    /\ Open
    /\ present
    /\ voice # "speaking"
    /\ voice' = "speaking"
    /\ commit' = FALSE
    /\ reprompt' = FALSE
    /\ UNCHANGED <<question, buffer, stage, sent, inFlight, reprompted, speech,
                   held, closing, roomVars>>

UserStops ==
    /\ Open
    /\ voice = "speaking"
    /\ voice' = "ended"
    /\ UNCHANGED <<question, reprompt, reprompted, speech, held, closing>>
    /\ UNCHANGED <<answerVars, roomVars>>

(* No turn comes of it: a noise the recogniser has no words for, too short  *)
(* an overlap, or speech over a line that cannot be interrupted.            *)
NoTurn ==
    /\ Open
    /\ voice = "ended"
    /\ voice' = "silent"
    /\ UNCHANGED <<question, reprompt, reprompted, speech, held, closing>>
    /\ UNCHANGED <<answerVars, roomVars>>

(* _schedule_commit replaces the task that is asleep.                       *)
ScheduleCommit == commit' = TRUE

KeepWindow == UNCHANGED <<buffer, commit, reprompt>>

(* A blank turn, or one of poor quality.  The second cancels the commit     *)
(* before it reads the buffer.                                              *)
Unusable(kind, cut) ==
    /\ kind \in {"blank", "unclear"}
    /\ IF buffer # <<>>
       THEN ScheduleCommit /\ UNCHANGED <<buffer, speech, reprompt>>
       ELSE /\ commit' = (commit /\ kind = "blank")
            /\ Say(IF kind = "blank" /\ cut THEN speech.text ELSE Line)
            /\ UNCHANGED <<buffer, reprompt>>
    /\ UNCHANGED held

(* The turn after a hold hands the floor back.                              *)
AfterHold(kind) ==
    /\ held # Nothing
    /\ kind \in {"repeat", "resume"} \cup Acknowledgements
    /\ held' = Nothing
    /\ Say(held)
    /\ KeepWindow

Repeats(kind, cut) ==
    kind = "repeat" \/ (kind = "greeting" /\ buffer = <<>> /\ ~ cut)

(* A request to repeat, or a greeting before an answer.                     *)
Replayed(kind, cut) ==
    /\ Repeats(kind, cut)
    /\ commit' = FALSE
    /\ Say(question)
    /\ held' = Nothing
    /\ UNCHANGED <<buffer, reprompt>>

(* An acknowledgement that interrupts nothing is not an answer.             *)
Acknowledged(kind, cut) ==
    /\ kind \in Acknowledgements
    /\ ~ Repeats(kind, cut)
    /\ ~ cut
    /\ IF buffer # <<>>
       THEN ScheduleCommit /\ UNCHANGED speech
       ELSE Say(Line) /\ UNCHANGED commit
    /\ held' = Nothing
    /\ UNCHANGED <<buffer, reprompt>>

(* resolve_interruption: noise, echo and acknowledgements resume the line.  *)
Resumed(kind, cut) ==
    /\ cut
    /\ kind \in Acknowledgements \cup {"echo"}
    /\ Say(speech.text)
    /\ held' = Nothing
    /\ KeepWindow

Holds(kind, cut) ==
    /\ cut
    /\ kind = "hold"
    /\ held' = speech.text
    /\ Say(Line)
    /\ KeepWindow

(* Everything else is a fragment of the answer, and its silence is waited   *)
(* for unless Core is still busy with the last one.                         *)
Answers(kind, cut) ==
    /\ \/ kind \in {"content", "resume"}
       \/ kind \in {"hold", "echo"} /\ ~ cut
    /\ Len(buffer) < MaxFragments
    /\ buffer' = Append(buffer, question)
    /\ IF inFlight THEN UNCHANGED commit ELSE ScheduleCommit
    /\ reprompt' = FALSE
    /\ held' = Nothing
    /\ UNCHANGED speech

(* on_user_turn_completed.  The SDK does not report a turn over a line that *)
(* cannot be interrupted; over another line it may have cut it or not.      *)
TurnCompleted(kind) ==
    /\ Open
    /\ voice = "ended"
    /\ speech.state = "playing" => speech.stops
    /\ closing # "playing"
    /\ voice' = "silent"
    /\ \E cut \in BOOLEAN :
         /\ speech.state = "cut" => cut
         /\ speech.state = "done" => ~ cut
         /\ \/ Unusable(kind, cut)
            \/ AfterHold(kind)
            \/ /\ held = Nothing \/ kind \in {"hold", "echo", "content"}
               /\ \/ Replayed(kind, cut)
                  \/ Acknowledged(kind, cut)
                  \/ Resumed(kind, cut)
                  \/ Holds(kind, cut)
                  \/ Answers(kind, cut)
    /\ UNCHANGED <<question, stage, sent, inFlight, reprompted, closing, roomVars>>

-----------------------------------------------------------------------------
(* Submitting the answer.                                                   *)

(* _commit_after: the silence was long enough.  It outlasts the second a    *)
(* commit may wait for its preview, so no two commits wait together, and    *)
(* the second between the closing and the release.                          *)
CommitFires ==
    /\ release = "no"
    /\ commit
    /\ \A k \in Tasks : stage[k] \notin {"fired", "waiting"}
    /\ commit' = FALSE
    /\ \E k \in Tasks :
         /\ stage[k] = "none"
         /\ stage' = [stage EXCEPT ![k] = "fired"]
    /\ UNCHANGED <<question, buffer, sent, inFlight, reprompt, reprompted, speech, held,
                   closing, voice, roomVars>>

(* The window is emptied into the post, in one step with the flag.          *)
Take(k) ==
    /\ sent' = [sent EXCEPT ![k] = buffer]
    /\ buffer' = <<>>
    /\ inFlight' = TRUE
    /\ reprompt' = FALSE
    /\ stage' = [stage EXCEPT ![k] = "posted"]

GivesUp(k) ==
    /\ stage' = [stage EXCEPT ![k] = "none"]
    /\ UNCHANGED <<buffer, sent, inFlight, reprompt>>

(* _commit_answer up to its first await: the preview of this answer, when   *)
(* one is running, or the post.                                             *)
CommitAnswer(k) ==
    /\ Open
    /\ stage[k] = "fired"
    /\ \/ (inFlight \/ buffer = <<>>) /\ GivesUp(k)
       \/ ~ inFlight /\ buffer # <<>> /\ Take(k)
       \/ /\ Preview
          /\ ~ inFlight
          /\ buffer # <<>>
          /\ stage' = [stage EXCEPT ![k] = "waiting"]
          /\ UNCHANGED <<buffer, sent, inFlight, reprompt>>
    /\ UNCHANGED <<question, commit, reprompted, speech, held, closing, voice, roomVars>>

(* The preview is there, or its second is over: what the window now holds   *)
(* is taken.                                                                *)
PreviewEnds(k) ==
    /\ Open
    /\ stage[k] = "waiting"
    /\ IF buffer = <<>> THEN GivesUp(k) ELSE Take(k)
    /\ UNCHANGED <<question, commit, reprompted, speech, held, closing, voice, roomVars>>

Calling(k) == stage[k] \in {"posted", "filled"}

(* filler: Core takes longer than PROCESSING_FILLER_SECONDS.                *)
FillerSpoken(k) ==
    /\ Open
    /\ stage[k] = "posted"
    /\ stage' = [stage EXCEPT ![k] = "filled"]
    /\ Say(Line)
    /\ UNCHANGED <<question, buffer, commit, sent, inFlight, reprompt, reprompted, held,
                   closing, voice, roomVars>>

CallEnds(k) ==
    /\ inFlight' = FALSE
    /\ stage' = [stage EXCEPT ![k] = "none"]
    /\ sent' = [sent EXCEPT ![k] = <<>>]

(* Variant: what was said while Core worked stays in the window.            *)
TailKept(k) ==
    /\ Open
    /\ Calling(k)
    /\ CallEnds(k)
    /\ buffer' = buffer
    /\ question < MaxQuestions
    /\ question' = question + 1
    /\ Say(question + 1)
    /\ UNCHANGED closing
    /\ UNCHANGED <<commit, reprompt, reprompted, held, voice, roomVars>>

(* Core's reply: what was said while it worked is dropped, and the next     *)
(* question, the question whether to stop, or the closing is said.  The     *)
(* closing cannot be interrupted.                                           *)
CoreReplies(k) ==
    /\ Open
    /\ Calling(k)
    /\ CallEnds(k)
    /\ buffer' = <<>>
    /\ \/ /\ question < MaxQuestions
          /\ question' = question + 1
          /\ Say(question + 1)
          /\ UNCHANGED closing
       \/ Say(Line) /\ UNCHANGED <<question, closing>>
       \/ /\ closing' = "playing"
          /\ speech' = [text |-> Line, stops |-> FALSE, state |-> "playing"]
          /\ UNCHANGED question
    /\ UNCHANGED <<commit, reprompt, reprompted, held, voice, roomVars>>

(* The call failed or timed out: the answer is lost, the window is not.     *)
CoreFails(k) ==
    /\ Open
    /\ Calling(k)
    /\ CallEnds(k)
    /\ Say(Line)
    /\ UNCHANGED <<question, buffer, commit, reprompt, reprompted, held, closing,
                   voice, roomVars>>

-----------------------------------------------------------------------------
(* The life of the room.                                                    *)

(* release_session: once.                                                   *)
ReleaseSession == release' = IF release = "no" THEN "releasing" ELSE release

(* The closing was heard: the browser is told, and the session released.    *)
ClosingHeard ==
    /\ Open
    /\ closing = "playing"
    /\ closing' = "heard"
    /\ speech' = [speech EXCEPT !.state = IF speech.stops THEN @ ELSE "done"]
    /\ Listens
    /\ ReleaseSession
    /\ UNCHANGED <<question, reprompted, held, present, grace>>
    /\ UNCHANGED <<answerVars, voice>>

Released ==
    /\ release = "releasing"
    /\ release' = "done"
    /\ UNCHANGED <<question, reprompt, reprompted, speech, held, closing, present, grace>>
    /\ UNCHANGED <<answerVars, voice>>

(* on_candidate_left: the grace starts again.                               *)
CandidateLeaves ==
    /\ Open
    /\ present
    /\ present' = FALSE
    /\ grace' = "asleep"
    /\ voice' = IF voice = "speaking" THEN "ended" ELSE voice
    /\ UNCHANGED <<question, reprompt, reprompted, speech, held, closing, release>>
    /\ UNCHANGED answerVars

(* Variant: only a task that is still asleep is cancelled.                  *)
BackWhileAsleep ==
    /\ Open
    /\ ~ present
    /\ present' = TRUE
    /\ grace' = IF grace = "asleep" THEN "none" ELSE grace
    /\ UNCHANGED <<question, reprompt, reprompted, speech, held, closing, release>>
    /\ UNCHANGED <<answerVars, voice>>

(* on_candidate_back cancels the task wherever it is: asleep or in the call *)
(* that tells Core.                                                         *)
CandidateReturns ==
    /\ Open
    /\ ~ present
    /\ present' = TRUE
    /\ grace' = "none"
    /\ UNCHANGED <<question, reprompt, reprompted, speech, held, closing, release>>
    /\ UNCHANGED <<answerVars, voice>>

(* _release_if_abandoned after its sleep: Core is told first.               *)
GraceEnds ==
    /\ Open
    /\ grace = "asleep"
    /\ grace' = IF present THEN "none" ELSE "telling"
    /\ UNCHANGED <<question, reprompt, reprompted, speech, held, closing, present, release>>
    /\ UNCHANGED <<answerVars, voice>>

(* Variant: nothing is released when Core could not be told.                *)
ReleaseNeedsCore ==
    /\ Open
    /\ grace = "telling"
    /\ grace' = "none"
    /\ \/ ReleaseSession
       \/ UNCHANGED release
    /\ UNCHANGED <<question, reprompt, reprompted, speech, held, closing, present>>
    /\ UNCHANGED <<answerVars, voice>>

(* Core was told, or could not be: the session is released either way.      *)
CoreTold ==
    /\ Open
    /\ grace = "telling"
    /\ grace' = "none"
    /\ ReleaseSession
    /\ UNCHANGED <<question, reprompt, reprompted, speech, held, closing, present>>
    /\ UNCHANGED <<answerVars, voice>>

-----------------------------------------------------------------------------

Next ==
    \/ SpeechEnds
    \/ SpeechIsCut
    \/ RepromptFires
    \/ RepeatPressed
    \/ UserSpeaks
    \/ UserStops
    \/ NoTurn
    \/ \E kind \in TurnKinds : TurnCompleted(kind)
    \/ CommitFires
    \/ \E k \in Tasks : CommitAnswer(k)
    \/ \E k \in Tasks : PreviewEnds(k)
    \/ \E k \in Tasks : FillerSpoken(k)
    \/ \E k \in Tasks : CoreReplies(k)
    \/ \E k \in Tasks : CoreFails(k)
    \/ ClosingHeard
    \/ Released
    \/ CandidateLeaves
    \/ CandidateReturns
    \/ GraceEnds
    \/ CoreTold

Spec == Init /\ [][Next]_vars

(* Timers fire, playout of the closing ends, a release completes.  Nothing  *)
(* is assumed of the candidate or of Core.                                  *)
Fairness ==
    /\ WF_vars(ClosingHeard)
    /\ WF_vars(Released)
    /\ WF_vars(GraceEnds)
    /\ WF_vars(CoreTold)

LiveSpec == Spec /\ Fairness

-----------------------------------------------------------------------------
(* Properties.                                                              *)

(* At most one answer is with Core, and the flag that makes the agent wait  *)
(* is set exactly while it is: two calls would answer two questions at      *)
(* once, and a flag left set would make the agent ignore every later answer *)
(* (_commit_answer, _commit_after).                                         *)
InFlightIsTheCall ==
    /\ Cardinality({k \in Tasks : Calling(k)}) <= 1
    /\ inFlight <=> (\E k \in Tasks : Calling(k))

(* Speech recognised before a question was put is neither in the window     *)
(* that will answer it nor in the answer with Core (_commit_answer).        *)
TailStaysOut ==
    /\ \A i \in DOMAIN buffer : buffer[i] = question
    /\ \A k \in Tasks : Calling(k) => \A i \in DOMAIN sent[k] : sent[k][i] = question

(* The session is released because the closing was heard, or while the      *)
(* candidate is away: one who came back while Core was being told keeps the *)
(* room (release_session, on_candidate_back).                               *)
ReleasedForCause ==
    [][release = "no" /\ release' # "no" => closing' = "heard" \/ ~ present]_vars

(* A room whose candidate stays away is released, and so is one that has    *)
(* said its closing: an open one counts against the provider's limit        *)
(* (release_session, _release_if_abandoned).                                *)
RoomIsReleased ==
    /\ <>[](~ present) => <>(release = "done")
    /\ closing = "playing" ~> release = "done"

=============================================================================

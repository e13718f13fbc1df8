------------------------------ MODULE ChatSession ------------------------------
(***************************************************************************)
(* One interview session at run time: the session row, its turns and its   *)
(* transcript, and every handler that writes them.                         *)
(*                                                                         *)
(*   chat_runtime.py    start_chat_session, process_candidate_message,     *)
(*                      complete_chat_session                              *)
(*   router.py          /close, /chat/presence                             *)
(*   admin_actions.py   close_session                                      *)
(*   lab.py             the room agent's "left" and "rejoined" marks       *)
(*   session_reaper.py  reap_abandoned_sessions                            *)
(*                                                                         *)
(* A handler that works in several transactions is several actions, with   *)
(* what it read before in local variables; everything it does while it     *)
(* holds the row lock of the session (SELECT ... FOR UPDATE) is one        *)
(* action, because every other writer of these rows takes that lock.       *)
(*                                                                         *)
(*   Msgs      the client message ids the candidate's client may send      *)
(*   Requests  the requests the server can be handling at the same time    *)
(*   Mode      "text" (page heartbeats) or "voice" (room agent's marks)    *)
(*   Zones     the zones of the session clock that are told apart          *)
(*                                                                         *)
(* A client that sends no id gets a fresh one from the endpoint, so every  *)
(* message has one; it just cannot be retried.                             *)
(***************************************************************************)
EXTENDS InterviewEngine, FiniteSets

CONSTANTS Msgs, Requests, Mode, Zones, NoMsg

ASSUME ModeAssumption == Mode \in {"text", "voice"}

ASSUME ZonesAssumption == Zones \subseteq ClockZones

ASSUME NoMsgAssumption == NoMsg \notin Msgs

VARIABLES
    \* interview_sessions
    status,     \* "OPEN" or "CLOSED"
    endReason,  \* end_reason, or "NONE"
    meta,       \* metadata: refusals in a row, the "left" mark and the last heartbeat
    clock,      \* zone of the session clock, which starts with the opening question
    lobby,      \* age of the row itself: what the clock says before the opening
    \* interview_turns
    turn,       \* status of every turn
    answer,     \* answer_text: the messages accumulated in it, in order
    \* interview_chat_messages
    log,        \* the transcript; a message's sequence is its index
    aged,       \* the last message is older than _IN_FLIGHT_STALE_SECONDS
    \* the requests
    pc,         \* what each request is doing
    msg,        \* the client message id it carries
    view,       \* what it read before it took the lock
    seq,        \* the sequence of its user message
    plan        \* the outcome the engine returned

sessionVars == <<status, endReason, meta, clock, lobby>>
turnVars    == <<turn, answer>>
logVars     == <<log, aged>>
requestVars == <<pc, msg, view, seq, plan>>

vars == <<status, endReason, meta, clock, lobby, turn, answer, log, aged,
          pc, msg, view, seq, plan>>

-----------------------------------------------------------------------------
(* Types.                                                                   *)

EndReasons == {"COMPLETED", "USER_ENDED", "TECHNICAL_FAILURE", "HARD_TIMEOUT",
               "FAST_FAIL_TECH", "CANDIDATE_LEFT"}

TurnStatuses == {"ABSENT", "PLANNED", "ASKED", "ANSWERED", "SKIPPED"}

(* How long ago a presence mark was set: not at all, recently, or longer    *)
(* than the reaper's grace.                                                 *)
Marks == {"none", "recent", "old"}

Metadata == [uncoop : 0..UncoopLimit, left : Marks, seen : Marks]

MessageTypes == {"MAIN_QUESTION", "PROBE", "CLARIFY", "CONFIRM_ABORT", "WRAP_UP",
                 "CANDIDATE_ANSWER", "CANDIDATE_QUESTION", "ABORT_REQUEST"}

(* aside marks the repeatRequest and candidateQuestionIntent messages; prev *)
(* is the previousAnswer kept in the metadata of a user message.            *)
Messages ==
    [role : {"user", "assistant"}, type : MessageTypes, turn : Turns \cup {NoTurn},
     id : Msgs \cup {NoMsg}, aside : BOOLEAN, prev : Seq(Msgs)]

Views ==
    [turn : [Turns -> TurnStatuses], cur : Turns, prev : Seq(Msgs),
     meta : Metadata, opened : BOOLEAN]

NoView == [turn |-> [t \in Turns |-> "ABSENT"], cur |-> 1, prev |-> <<>>,
           meta |-> [uncoop |-> 0, left |-> "none", seen |-> "none"], opened |-> FALSE]

NoPlan == Reply("CLARIFY", 1, Opening)

TypeOK ==
    /\ status \in {"OPEN", "CLOSED"}
    /\ endReason \in EndReasons \cup {"NONE"}
    /\ meta \in Metadata
    /\ clock \in ClockZones
    /\ lobby \in {"fresh", "long", "expired"}
    /\ turn \in [Turns -> TurnStatuses]
    /\ answer \in [Turns -> Seq(Msgs)]
    /\ log \in Seq(Messages)
    /\ aged \in BOOLEAN
    /\ pc \in [Requests -> {"idle", "respond", "engine", "start"}]
    /\ msg \in [Requests -> Msgs \cup {NoMsg}]
    /\ view \in [Requests -> Views]
    /\ seq \in [Requests -> Nat]
    /\ plan \in [Requests -> Outcomes]

-----------------------------------------------------------------------------
(* The transcript and the turns.                                            *)

Last == log[Len(log)]

UserMessage(id, t, prev) ==
    [role |-> "user", type |-> "CANDIDATE_ANSWER", turn |-> t, id |-> id,
     aside |-> FALSE, prev |-> prev]

AssistantMessage(type, t, aside) ==
    [role |-> "assistant", type |-> type, turn |-> t, id |-> NoMsg,
     aside |-> aside, prev |-> <<>>]

(* The places in the transcript of the event with a client message id.      *)
Places(id) == {n \in DOMAIN log : log[n].id = id}

(* Variant: a message whose request is presumed dead no longer blocks.     *)
UnansweredRecently == log # <<>> /\ Last.role = "user" /\ ~ aged

Unanswered == log # <<>> /\ Last.role = "user"

AskedIn(ts) == {t \in Turns : ts[t] = "ASKED"}

PlannedIn(ts) == {t \in Turns : ts[t] = "PLANNED"}

(* _unfinished_agenda_turns: never reached a settled status.                *)
Unfinished(ts) == {t \in Turns : ts[t] \in {"PLANNED", "ASKED"}}

(* What build_session_state_from_db offers to the engine: turns never asked *)
(* (a SKIPPED turn is not among the asked ids, so it is offered again).     *)
Pool(ts, cur) == {t \in Turns \ {cur} : ts[t] \in {"PLANNED", "SKIPPED"}}

(* Whether a turn already got its probe, or its clarification, in a         *)
(* transcript.                                                              *)
ReplyOn(lg, t, type) ==
    \E n \in DOMAIN lg : /\ lg[n].role = "assistant" /\ lg[n].type = type
                         /\ lg[n].turn = t
                         /\ ~ lg[n].aside

QuestionsOn(lg, t) ==
    Cardinality({n \in DOMAIN lg : lg[n].role = "user" /\ lg[n].turn = t})

Close(reason) == status' = "CLOSED" /\ endReason' = reason

Done(r) ==
    /\ pc' = [pc EXCEPT ![r] = "idle"]
    /\ msg' = [msg EXCEPT ![r] = NoMsg]
    /\ view' = [view EXCEPT ![r] = NoView]
    /\ seq' = [seq EXCEPT ![r] = 0]
    /\ plan' = [plan EXCEPT ![r] = NoPlan]

-----------------------------------------------------------------------------
(* The session is planned and its questions are frozen (plan LOCKED).       *)
Init ==
    /\ status = "OPEN"
    /\ endReason = "NONE"
    /\ meta = [uncoop |-> 0, left |-> "none", seen |-> "none"]
    /\ clock = Opening
    /\ lobby = "fresh"
    /\ turn = [t \in Turns |-> IF t = ClosingTurn THEN "ABSENT" ELSE "PLANNED"]
    /\ answer = [t \in Turns |-> <<>>]
    /\ log = <<>>
    /\ aged = FALSE
    /\ pc = [r \in Requests |-> "idle"]
    /\ msg = [r \in Requests |-> NoMsg]
    /\ view = [r \in Requests |-> NoView]
    /\ seq = [r \in Requests |-> 0]
    /\ plan = [r \in Requests |-> NoPlan]

-----------------------------------------------------------------------------
(* start_chat_session.                                                      *)

(* The endpoint reads the session row; a CLOSED one is only shown.          *)
ReadForStart(r) ==
    /\ pc[r] = "idle"
    /\ status = "OPEN"
    /\ pc' = [pc EXCEPT ![r] = "start"]
    /\ view' = [view EXCEPT ![r] = [NoView EXCEPT !.opened = log # <<>>]]
    /\ UNCHANGED <<sessionVars, turnVars, logVars, msg, seq, plan>>

(* The overrun is computed from the started_at that was read: the time of   *)
(* creation when the session was not open yet.                              *)
Overdue(r) == IF view[r].opened THEN clock = Abandoned ELSE lobby # "fresh"

(* The first question: the clock starts with it.                            *)
Open(r) ==
    /\ pc[r] = "start"
    /\ log = <<>>
    /\ clock' = Opening
    /\ turn' = [turn EXCEPT ![1] = "ASKED"]
    /\ log' = <<AssistantMessage("MAIN_QUESTION", 1, FALSE)>>
    /\ aged' = FALSE
    /\ Done(r)
    /\ UNCHANGED <<status, endReason, meta, lobby, answer>>

WrapUp == IF log # <<>> /\ Last.type = "WRAP_UP" THEN log
          ELSE Append(log, AssistantMessage("WRAP_UP", NoTurn, FALSE))

(* A session that was abandoned is closed when the candidate comes back.    *)
CloseOverdue(r) ==
    /\ pc[r] = "start"
    /\ log # <<>>
    /\ Overdue(r)
    /\ status = "OPEN"
    /\ Close("HARD_TIMEOUT")
    /\ log' = WrapUp
    /\ aged' = FALSE
    /\ Done(r)
    /\ UNCHANGED <<meta, clock, lobby, turnVars>>

Resume(r) ==
    /\ pc[r] = "start"
    /\ log # <<>>
    /\ Overdue(r) => status = "CLOSED"
    /\ Done(r)
    /\ UNCHANGED <<sessionVars, turnVars, logVars>>

-----------------------------------------------------------------------------
(* process_candidate_message.                                               *)

(* The turn that is being answered, or refused: exactly one ASKED turn that *)
(* the last assistant message is about, and no technical question left when *)
(* it is the behavioral one.                                                *)
Answerable(t) ==
    LET said == {n \in DOMAIN log : log[n].role = "assistant"}
    IN  /\ AskedIn(turn) = {t}
        /\ \A n \in said : (\A k \in said : k <= n) => log[n].turn \in {t, NoTurn}
        /\ StageOf(t) = "BEHAVIORAL" => \A u \in PlannedIn(turn) : ~ IsTechnical(u)

(* What the request reads before it waits for the row lock.                 *)
Receive(r) ==
    /\ pc[r] = "idle"
    /\ status = "OPEN"
    /\ \E t \in Turns, id \in Msgs :
          /\ Answerable(t)
          /\ msg' = [msg EXCEPT ![r] = id]
          /\ view' = [view EXCEPT ![r] = [turn |-> turn, cur |-> t, prev |-> answer[t],
                                         meta |-> meta, opened |-> TRUE]]
    /\ pc' = [pc EXCEPT ![r] = "respond"]
    /\ UNCHANGED <<sessionVars, turnVars, logVars, seq, plan>>

(* The engine's outcomes for the turns that were read before the lock and   *)
(* the transcript as Phase 1 leaves it.                                     *)
Decisions(r, lg, say) ==
    LET v == view[r]
    IN  HandleTurn(Pool(v.turn, v.cur), v.cur, clock,
                   ReplyOn(lg, v.cur, "PROBE"), ReplyOn(lg, v.cur, "CLARIFY"),
                   QuestionsOn(lg, v.cur), v.meta.uncoop, say)

(* Phase 1: the message is stored and added to the answer as it was read.   *)
Record(r) ==
    /\ pc[r] = "respond"
    /\ Places(msg[r]) = {}
    /\ ~ Unanswered
    /\ LET v == view[r]
       IN  /\ log' = Append(log, UserMessage(msg[r], v.cur, v.prev))
           /\ answer' = [answer EXCEPT ![v.cur] = Append(v.prev, msg[r])]
    /\ \E say \in Utterances : \E o \in Decisions(r, log', say) :
          plan' = [plan EXCEPT ![r] = o]
    /\ seq' = [seq EXCEPT ![r] = Len(log) + 1]
    /\ aged' = FALSE
    /\ pc' = [pc EXCEPT ![r] = "engine"]
    /\ UNCHANGED <<sessionVars, turn, msg, view>>

(* A retry of a message whose request is presumed dead resumes it; nothing  *)
(* is stored again.                                                         *)
Recover(r) ==
    /\ pc[r] = "respond"
    /\ Unanswered
    /\ Last.id = msg[r]
    /\ aged
    /\ view' = [view EXCEPT ![r].prev = Last.prev]
    /\ \E say \in Utterances : \E o \in Decisions(r, log, say) :
          plan' = [plan EXCEPT ![r] = o]
    /\ seq' = [seq EXCEPT ![r] = Len(log)]
    /\ pc' = [pc EXCEPT ![r] = "engine"]
    /\ UNCHANGED <<sessionVars, turnVars, logVars, msg>>

(* Nothing is written: the reply is replayed, or the message is refused as  *)
(* IN_PROGRESS or RECOVERY_REQUIRED.                                        *)
Refuse(r) ==
    /\ pc[r] = "respond"
    /\ IF Unanswered THEN Last.id = msg[r] => ~ aged ELSE Places(msg[r]) # {}
    /\ Done(r)
    /\ UNCHANGED <<sessionVars, turnVars, logVars>>

-----------------------------------------------------------------------------
(* Variants of Replying: the status is not read again under the lock; the   *)
(* reply takes the next free sequence, as a plain append would.             *)
ReplyingToAnyStatus(r) == pc[r] = "engine" /\ seq[r] = Len(log)

ReplyingAnywhere(r) == pc[r] = "engine" /\ status = "OPEN"

(* Phase 3 of process_candidate_message.  The reply takes the sequence      *)
(* after its user message, which is unique.                                 *)

Replying(r) == pc[r] = "engine" /\ status = "OPEN" /\ seq[r] = Len(log)

(* The metadata read before the lock are written back whole.                *)
WriteMeta(r) == meta' = [view[r].meta EXCEPT !.uncoop = plan[r].uncoop]

(* Variant: the reply is stored as being about the turn that was answered.  *)
SayAboutAnswered(r, type, t) ==
    /\ log' = Append(log, AssistantMessage(type, view[r].cur, plan[r].aside))
    /\ aged' = FALSE

Say(r, type, t) ==
    /\ log' = Append(log, AssistantMessage(type, t, plan[r].aside))
    /\ aged' = FALSE

(* Variant: the kind is corrected, but the optimistic answer is kept.       *)
WithdrawKeepsAnswer(r, kind, type) ==
    /\ answer' = answer
    /\ log' = Append([log EXCEPT ![seq[r]].type = kind],
                      AssistantMessage(type, view[r].cur, plan[r].aside))
    /\ aged' = FALSE

(* A message that turns out not to be an answer: its kind is corrected and  *)
(* the answer restored.                                                     *)
Withdraw(r, kind, type) ==
    LET v == view[r]
    IN  /\ answer' = [answer EXCEPT ![v.cur] = v.prev]
        /\ log' = Append([log EXCEPT ![seq[r]].type = kind],
                          AssistantMessage(type, v.cur, plan[r].aside))
        /\ aged' = FALSE

ConfirmAbort(r) ==
    /\ Replying(r)
    /\ plan[r].action = "CONFIRM_ABORT"
    /\ Withdraw(r, "ABORT_REQUEST", "CONFIRM_ABORT")
    /\ WriteMeta(r)
    /\ Done(r)
    /\ UNCHANGED <<status, endReason, clock, lobby, turn>>

Clarify(r) ==
    /\ Replying(r)
    /\ plan[r].action = "CLARIFY"
    /\ Withdraw(r, IF plan[r].aside THEN "CANDIDATE_QUESTION" ELSE "CLARIFY", "CLARIFY")
    /\ WriteMeta(r)
    /\ Done(r)
    /\ UNCHANGED <<status, endReason, clock, lobby, turn>>

Probe(r) ==
    /\ Replying(r)
    /\ plan[r].action = "PROBE"
    /\ Say(r, "PROBE", view[r].cur)
    /\ WriteMeta(r)
    /\ Done(r)
    /\ UNCHANGED <<status, endReason, clock, lobby, turnVars>>

(* The candidate's question is answered within the closing turn.            *)
AnswerCandidate(r) ==
    /\ Replying(r)
    /\ plan[r].action = "NEXT_QUESTION"
    /\ StageOf(view[r].cur) = "CLOSING"
    /\ Say(r, "MAIN_QUESTION", view[r].cur)
    /\ WriteMeta(r)
    /\ Done(r)
    /\ UNCHANGED <<status, endReason, clock, lobby, turnVars>>

(* Variant: every turn that is not answered counts as waiting.              *)
NextTurnUnanswered(r) ==
    LET queue == {t \in Turns \ {view[r].cur} : view[r].turn[t] \in {"PLANNED", "SKIPPED"}}
    IN  CASE plan[r].turn \in queue -> plan[r].turn
          [] plan[r].turn \notin queue /\ queue # {} ->
                CHOOSE t \in queue : \A u \in queue : t <= u
          [] queue = {} /\ plan[r].stage = "CLOSING" -> ClosingTurn
          [] OTHER -> NoTurn

(* The turn to open: the one the engine named if it was PLANNED, else the   *)
(* lowest PLANNED one, else the closing turn the engine announced.          *)
NextTurn(r) ==
    LET queue == PlannedIn(view[r].turn) \ {view[r].cur}
    IN  CASE plan[r].turn \in queue -> plan[r].turn
          [] plan[r].turn \notin queue /\ queue # {} ->
                CHOOSE t \in queue : \A u \in queue : t <= u
          [] queue = {} /\ plan[r].stage = "CLOSING" -> ClosingTurn
          [] OTHER -> NoTurn

(* Opening the behavioral turn settles the technical ones left PLANNED.     *)
Settle(r, next) ==
    [t \in Turns |->
        CASE t = next -> "ASKED"
          [] t = view[r].cur /\ t # next -> "ANSWERED"
          [] /\ t \notin {next, view[r].cur}
             /\ StageOf(next) = "BEHAVIORAL"
             /\ IsTechnical(t) /\ view[r].turn[t] = "PLANNED" /\ turn[t] = "PLANNED" -> "SKIPPED"
          [] OTHER -> turn[t]]

Advance(r) ==
    /\ Replying(r)
    /\ plan[r].action = "NEXT_QUESTION"
    /\ StageOf(view[r].cur) # "CLOSING"
    /\ LET next == NextTurn(r)
       IN  /\ next # NoTurn
           /\ next = ClosingTurn => turn[ClosingTurn] = "ABSENT"
           /\ turn' = Settle(r, next)
           /\ Say(r, "MAIN_QUESTION", next)
    /\ WriteMeta(r)
    /\ Done(r)
    /\ UNCHANGED <<status, endReason, clock, lobby, answer>>

(* Variant: the engine's exit reason taken over as it is.                   *)
VerdictAsGiven(r) == plan[r].exit

(* The reason a session that stops by itself ends with: a session that      *)
(* leaves turns unfinished is not COMPLETED.                                *)
Verdict(r) ==
    CASE plan[r].exit \in {"HARD_TIMEOUT", "FAST_FAIL_TECH"} -> plan[r].exit
      [] /\ plan[r].exit \notin {"HARD_TIMEOUT", "FAST_FAIL_TECH"}
         /\ Unfinished(view[r].turn) \subseteq {view[r].cur} -> "COMPLETED"
      [] OTHER -> IF plan[r].zone >= Reserve THEN "HARD_TIMEOUT" ELSE "TECHNICAL_FAILURE"

Conclude(r) ==
    /\ Replying(r)
    /\ \/ plan[r].action = "TERMINATE"
       \/ /\ plan[r].action = "NEXT_QUESTION"
          /\ StageOf(view[r].cur) # "CLOSING"
          /\ NextTurn(r) = NoTurn
    /\ turn' = [turn EXCEPT ![view[r].cur] = "ANSWERED"]
    /\ Say(r, "WRAP_UP", NoTurn)
    /\ Close(Verdict(r))
    /\ WriteMeta(r)
    /\ Done(r)
    /\ UNCHANGED <<clock, lobby, answer>>

(* The session was closed meanwhile, or the reply or the closing turn       *)
(* exists already (IntegrityError): the transaction is rolled back.         *)
RollBack(r) ==
    /\ pc[r] = "engine"
    /\ \/ status = "CLOSED"
       \/ seq[r] # Len(log)
       \/ /\ plan[r].action = "NEXT_QUESTION"
          /\ StageOf(view[r].cur) # "CLOSING"
          /\ NextTurn(r) = ClosingTurn
          /\ turn[ClosingTurn] # "ABSENT"
    /\ Done(r)
    /\ UNCHANGED <<sessionVars, turnVars, logVars>>

(* The server or the model call dies between two transactions.              *)
Crash(r) ==
    /\ pc[r] # "idle"
    /\ Done(r)
    /\ UNCHANGED <<sessionVars, turnVars, logVars>>

-----------------------------------------------------------------------------
(* Ending the session from outside the conversation.                        *)

(* Variant: only a question that waits for its answer counts.               *)
CompletableBetweenQuestions == AskedIn(turn) = {}

(* A client may assert COMPLETED only when the agenda is done.              *)
Completable == Unfinished(turn) = {}

(* complete_chat_session: the status is read again under the lock, so the   *)
(* earlier read adds nothing.                                               *)
Complete ==
    /\ status = "OPEN"
    /\ \E reason \in {"COMPLETED", "USER_ENDED", "TECHNICAL_FAILURE"} :
          /\ reason = "COMPLETED" => Completable
          /\ Close(reason)
    /\ log' = WrapUp
    /\ aged' = FALSE
    /\ UNCHANGED <<meta, clock, lobby, turnVars, requestVars>>

(* The close endpoint and the admin's close: no wrap-up.                    *)
CloseSession ==
    /\ status = "OPEN"
    /\ \E reason \in {"USER_ENDED", "TECHNICAL_FAILURE"} : Close(reason)
    /\ UNCHANGED <<meta, clock, lobby, turnVars, logVars, requestVars>>

(* Presence: the candidate leaves, and is back.  In a voice room the first   *)
(* mark also touches updated_at, which the lobby's two hours count from, and *)
(* the mark is cleared when the room agent has started the interview.        *)
Leave ==
    /\ status = "OPEN"
    /\ meta.left = "none"
    /\ meta' = [meta EXCEPT !.left = "recent"]
    /\ lobby' = IF Mode = "voice" /\ lobby = "expired" THEN "long" ELSE lobby
    /\ UNCHANGED <<status, endReason, clock, turnVars, logVars, requestVars>>

ReturnToPage ==
    /\ Mode = "text"
    /\ status = "OPEN"
    /\ meta' = [meta EXCEPT !.left = "none", !.seen = "recent"]
    /\ UNCHANGED <<status, endReason, clock, lobby, turnVars, logVars, requestVars>>

ReturnToRoom ==
    /\ Mode = "voice"
    /\ log # <<>>
    /\ meta.left # "none"
    /\ meta' = [meta EXCEPT !.left = "none"]
    /\ UNCHANGED <<status, endReason, clock, lobby, turnVars, logVars, requestVars>>

(* reap_abandoned_sessions.                                                 *)
GoneQuiet == meta.left = "old" \/ (Mode = "text" /\ meta.seen = "old")

ReapReason ==
    CASE log = <<>> -> "TECHNICAL_FAILURE"
      [] log # <<>> /\ (meta.left # "none" \/ GoneQuiet) -> "CANDIDATE_LEFT"
      [] OTHER -> "HARD_TIMEOUT"

(* Variant: a session whose candidate does not go quiet is not looked at.   *)
ReapableIfQuiet == (log = <<>> /\ lobby = "expired") \/ GoneQuiet

Reapable ==
    \/ log # <<>> /\ clock = Abandoned
    \/ log = <<>> /\ lobby = "expired"
    \/ GoneQuiet

Reap ==
    /\ status = "OPEN"
    /\ Reapable
    /\ Close(ReapReason)
    /\ UNCHANGED <<meta, clock, lobby, turnVars, logVars, requestVars>>

-----------------------------------------------------------------------------
(* Time.                                                                    *)

(* Time passes without limit; a zone that is not told apart is passed over. *)
Tick ==
    /\ status = "OPEN"
    /\ log # <<>>
    /\ \E z \in Zones :
          /\ z > clock
          /\ clock' = z
          /\ lobby' = IF z = Abandoned /\ lobby = "fresh" THEN "long" ELSE lobby
    /\ UNCHANGED <<status, endReason, meta, turnVars, logVars, requestVars>>

LobbyAges ==
    /\ status = "OPEN"
    /\ log = <<>>
    /\ lobby # "expired"
    /\ lobby' = IF lobby = "fresh" THEN "long" ELSE "expired"
    /\ UNCHANGED <<status, endReason, meta, clock, turnVars, logVars, requestVars>>

MarksAge ==
    /\ status = "OPEN"
    /\ \/ meta.left = "recent" /\ meta' = [meta EXCEPT !.left = "old"]
       \/ meta.seen = "recent" /\ meta' = [meta EXCEPT !.seen = "old"]
    /\ UNCHANGED <<status, endReason, clock, lobby, turnVars, logVars, requestVars>>

MessageAges ==
    /\ Unanswered
    /\ ~ aged
    /\ aged' = TRUE
    /\ UNCHANGED <<sessionVars, turnVars, log, requestVars>>

-----------------------------------------------------------------------------

Start(r) == ReadForStart(r) \/ Open(r) \/ CloseOverdue(r) \/ Resume(r)

Commit(r) ==
    \/ ConfirmAbort(r) \/ Clarify(r) \/ Probe(r) \/ AnswerCandidate(r)
    \/ Advance(r) \/ Conclude(r) \/ RollBack(r)

Respond(r) == Receive(r) \/ Record(r) \/ Recover(r) \/ Refuse(r) \/ Commit(r)

Presence == Leave \/ ReturnToPage \/ ReturnToRoom

Time == Tick \/ LobbyAges \/ MarksAge \/ MessageAges

Next ==
    \/ \E r \in Requests : Start(r) \/ Respond(r) \/ Crash(r)
    \/ Complete \/ CloseSession \/ Reap
    \/ Presence
    \/ Time

Spec == Init /\ [][Next]_vars

-----------------------------------------------------------------------------
(* Properties that hold whatever the requests do.                           *)

(* How a session ended is decided once: no handler reopens a session or     *)
(* overwrites the reason another one wrote, although start, message,        *)
(* complete, close, admin and reaper requests all race to write it.         *)
EndIsFinal ==
    [][status = "CLOSED" => status' = "CLOSED" /\ endReason' = endReason]_vars

(* The conversation alternates: a candidate message is only stored when     *)
(* every earlier one got its reply, however requests, retries and crashes   *)
(* interleave; and retrying a client message id never records the message   *)
(* twice, neither in the transcript nor in the answers that are graded.     *)
TranscriptInOrder ==
    /\ \A n \in DOMAIN log : n > 1 => ~ (log[n].role = "user" /\ log[n - 1].role = "user")
    /\ \A id \in Msgs :
          /\ Cardinality({n \in DOMAIN log : log[n].id = id}) <= 1
          /\ \A t \in Turns : Cardinality({n \in DOMAIN answer[t] : answer[t][n] = id}) <= 1

(* "Enforces budget cap: max 1 follow-up probe per assessment turn": also   *)
(* when a request was presumed dead and a retry decides in parallel.        *)
ProbeBudget ==
    \A m, n \in DOMAIN log :
        log[m].type = "PROBE" /\ log[n].type = "PROBE" /\ log[m].turn = log[n].turn => m = n

(* A session is labelled COMPLETED only when no question was left waiting   *)
(* to be asked ("calling that COMPLETED would misreport coverage"), although *)
(* a request counts them on the turns it read before the others moved on.   *)
CompletedMeansAsked == endReason = "COMPLETED" => PlannedIn(turn) = {}

-----------------------------------------------------------------------------
(* Properties of a candidate whose requests do not overlap.                 *)

(* "INVALID_TURN_STATE" (process_candidate_message): two turns are never    *)
(* open at the same time, or no message could be answered any more.         *)
AtMostOneAsked == Cardinality(AskedIn(turn)) <= 1

(* The places in the transcript of what was said in answer to a turn, and   *)
(* how many of them there are up to one.                                    *)
Evidence(lg, t) ==
    {n \in DOMAIN lg : lg[n].role = "user" /\ lg[n].turn = t /\ lg[n].type = "CANDIDATE_ANSWER"}

Rank(said, n) == Cardinality({k \in said : k <= n})

(* What is graded is what the candidate said in answer, in that order: stop *)
(* requests, clarification requests and questions to the interviewer, which *)
(* Phase 1 stores as answers, are taken back, and nothing else is lost.     *)
AnswersMatchTranscript ==
    \A t \in Turns :
        /\ Len(answer[t]) = Cardinality(Evidence(log, t))
        /\ \A n \in Evidence(log, t) : answer[t][Rank(Evidence(log, t), n)] = log[n].id

(* "A demo session follows its frozen turns instead of the clock": its      *)
(* questions are asked in order, each after an answer to the one before,    *)
(* however late it is.                                                      *)
DemoFollowsTurns ==
    Demo => \A t \in Turns : turn[t] = "ASKED" => \A u \in 1..(t - 1) : turn[u] = "ANSWERED"

(* Every open session whose question is out has exactly one turn to answer, *)
(* and it is the one the interviewer's last words are about.                *)
AlwaysAnswerable ==
    status = "OPEN" /\ log # <<>> => \E t \in Turns : Answerable(t)

-----------------------------------------------------------------------------
(* The session as its candidate knows it: the rows show the turns that are  *)
(* asked and settled, and the answers are the evidence.                     *)

Settled == {t \in Turns : turn[t] \in {"ANSWERED", "SKIPPED"}}

Conversation == INSTANCE AbstractSession
                  WITH asked <- AskedIn(turn), settled <- Settled, evidence <- answer

(* Every handler is a step of the conversation, or none, when requests do   *)
(* not overlap: questions are asked one at a time and never again, the      *)
(* behavioral one last, and a settled answer does not change any more.      *)
ImplementsConversation == Conversation!Spec

-----------------------------------------------------------------------------
(* Liveness.  The reaper runs every minute and the clock does not stop; the *)
(* candidate, the model calls and the closing endpoints promise nothing.    *)

Fairness ==
    /\ WF_vars(Tick)
    /\ WF_vars(LobbyAges)
    /\ WF_vars(Reap)

LiveSpec == Spec /\ Fairness

(* An OPEN session does not stay open forever ("closed as HARD_TIMEOUT ...  *)
(* instead of staying OPEN forever").                                       *)
EventuallyClosed == <>(status = "CLOSED")

=============================================================================

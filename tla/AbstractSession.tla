--------------------------- MODULE AbstractSession ---------------------------
(***************************************************************************)
(* What the conversation of one session promises, whoever moves it on: one *)
(* question at a time, each asked once and none after it was settled, the  *)
(* behavioral one after every technical one, and as evidence of a turn     *)
(* only what the candidate said while it was asked.  ChatSession, where    *)
(* the same is spread over rows, transcript, locks and retries, is shown   *)
(* to implement it for a candidate whose requests do not overlap.          *)
(*                                                                         *)
(*   asked     the turns the candidate may answer: none or one             *)
(*   settled   the turns that are over, answered or passed over            *)
(*   evidence  what the candidate said to each turn                        *)
(*   status, endReason   as in the session row                             *)
(***************************************************************************)
EXTENDS InterviewEngine

CONSTANT Msgs

VARIABLES asked, settled, evidence, status, endReason

vars == <<asked, settled, evidence, status, endReason>>

Init ==
    /\ asked = {}
    /\ settled = {}
    /\ evidence = [t \in Turns |-> <<>>]
    /\ status = "OPEN"
    /\ endReason = "NONE"

Agreed == 1..Len(Agenda)

(* The opening asks the first turn, also of a session that was closed while *)
(* it was being prepared.                                                   *)
Begin ==
    /\ asked = {} /\ settled = {}
    /\ asked' = {1}
    /\ UNCHANGED <<settled, evidence, status, endReason>>

(* An answer, or a part of one.                                             *)
Hear(m) ==
    /\ UNCHANGED <<asked, settled, status, endReason>>
    /\ \A u \in Turns : \A n \in DOMAIN evidence[u] : evidence[u][n] # m
    /\ \E t \in asked : evidence' = [evidence EXCEPT ![t] = Append(@, m)]

(* The last message turned out not to be an answer.                         *)
TakeBack ==
    /\ UNCHANGED <<asked, settled, status, endReason>>
    /\ \E t \in asked :
          /\ evidence[t] # <<>>
          /\ evidence' = [evidence EXCEPT ![t] = SubSeq(@, 1, Len(@) - 1)]

(* The next question.  Opening the behavioral turn passes over the          *)
(* technical ones that were not asked.                                      *)
MoveTo(next) ==
    /\ status = "OPEN"
    /\ asked # {}
    /\ next \notin settled \cup asked
    /\ asked' = {next}
    /\ settled' = settled \cup asked
         \cup (IF StageOf(next) = "BEHAVIORAL" THEN {u \in Agreed : IsTechnical(u)} ELSE {})
    /\ UNCHANGED <<evidence, status, endReason>>

(* The session ends, by itself after a last answer or from outside; it is   *)
(* completed only when everything that was agreed on is settled.            *)
End(reason) ==
    /\ status = "OPEN"
    /\ asked' \in {asked, {}}
    /\ settled' = settled \cup (asked \ asked')
    /\ reason = "COMPLETED" => asked' = {} /\ Agreed \subseteq settled'
    /\ status' = "CLOSED"
    /\ endReason' = reason
    /\ UNCHANGED evidence

Next ==
    \/ Begin
    \/ \E m \in Msgs : Hear(m)
    \/ TakeBack
    \/ \E next \in Turns : MoveTo(next)
    \/ \E reason \in {"COMPLETED", "USER_ENDED", "TECHNICAL_FAILURE", "HARD_TIMEOUT",
                      "FAST_FAIL_TECH", "CANDIDATE_LEFT"} : End(reason)

Spec == Init /\ [][Next]_vars

=============================================================================

--------------------------- MODULE GradingJob_proofs ---------------------------
(***************************************************************************)
(* Proofs about the grading of a session, for any session, grader votes    *)
(* and number of graders: one grader at a time while leases hold, a report *)
(* that is built on graded turns and agrees with the cache, and verdicts   *)
(* that the answer and the majority of the votes bear out, and scores that *)
(* no answer can lower.                                                    *)
(*                                                                         *)
(* The invariant adds to the properties what a grader has in its hands: it *)
(* works under a live lease (Leased), a turn it still asks about has no    *)
(* verdict in the cache, a graded one follows from the cache (Slots), and  *)
(* what it is about to store can be stored (Concluded).                    *)
(***************************************************************************)
EXTENDS GradingJob, FiniteSetTheorems, SequenceTheorems, WellFoundedInduction, TLAPS

Places == {"idle", "asked", "read", "grading", "storing"}

Types ==
    /\ pc \in [Graders -> Places]
    /\ job \in [status : {"NONE", "PROCESSING", "DONE", "FAILED"}, live : BOOLEAN, attempts : Nat]
    /\ DOMAIN cache = Turns
    /\ DOMAIN results = Graders /\ \A g \in Graders : DOMAIN results[g] = Inputs
    /\ report.id \in Nat

Leased ==
    ~ overran => /\ \A g \in Working : job.live /\ job.status = "PROCESSING"
                 /\ \A g, h \in Working : g = h

Empty == \A g \in Graders : g \notin Working => \A i \in Inputs : results[g][i] = None

(* The result r of turn i is one that the verdict in the cache leads to.    *)
Cached(i, r) ==
    r.outcome # "UNGRADED" /\ Outcome(i) = "ANSWERED" => cache[i] # None /\ r \in Results(i, cache[i])

Slot(g, i) ==
    /\ results[g][i] # None /\ Weight(i) > 0 => results[g][i].outcome # "UNGRADED"
    /\ ~ overran /\ results[g][i] = Asking => cache[i] = None
    /\ ~ overran /\ results[g][i] \notin {None, Asking} => Cached(i, results[g][i])

Slots == \A g \in Graders, i \in Inputs : Slot(g, i)

Concluded ==
    \A g \in Graders :
        pc[g] = "storing" => AllGraded(g) /\ \E i \in Scored(results[g]) : Weight(i) > 0

Stored ==
    /\ job.status = "DONE" => report # NoReport
    /\ report # NoReport =>
          /\ \A i \in Inputs : Weight(i) > 0 => report.graded[i].outcome # "UNGRADED"
          /\ \E i \in Scored(report.graded) : Weight(i) > 0
          /\ ~ overran => \A i \in Inputs : Cached(i, report.graded[i])

Inv == Types /\ Leased /\ Empty /\ Slots /\ Concluded /\ Stored

-----------------------------------------------------------------------------
(* Nothing that is derived from the session changes.                        *)

LEMMA SessionStays ==
    ASSUME session' = session
    PROVE  /\ Turns' = Turns /\ Inputs' = Inputs
           /\ \A i : Weight(i)' = Weight(i)
           /\ \A i : Outcome(i)' = Outcome(i)
           /\ \A i, v : Results(i, v)' = Results(i, v)
           /\ \A i : FreshVerdicts(i)' = FreshVerdicts(i)
<1>1. Turns' = Turns
  BY DEF Turns
<1>2. Inputs' = Inputs
  BY <1>1 DEF Inputs
<1>3. \A i : Weight(i)' = Weight(i)
  BY DEF Weight
<1>4. \A i : Outcome(i)' = Outcome(i)
  BY DEF Outcome
<1>5. \A i, v : Results(i, v)' = Results(i, v)
  BY DEF Results, ChecklistResult, HolisticResult
<1>6. \A i : FreshVerdicts(i)' = FreshVerdicts(i)
  BY DEF FreshVerdicts
<1> QED BY <1>1, <1>2, <1>3, <1>4, <1>5, <1>6

LEMMA ResultsAreGraded ==
    \A i, v : \A r \in Results(i, v) : r.outcome \in {"ANSWERED", "SKIPPED", "NOT_GRADABLE"}
BY DEF Results, ChecklistResult, HolisticResult, Result, NotGradable, Skipped

LEMMA SlotValues ==
    /\ Asking.outcome = "ASKING" /\ Ungraded.outcome = "UNGRADED"
    /\ Skipped.outcome = "SKIPPED" /\ NotGradable.outcome = "NOT_GRADABLE"
    /\ None # Asking
BY NoneAssumption DEF Asking, Ungraded, Skipped, NotGradable, Result

LEMMA InitInv == Init => Inv
<1> SUFFICES ASSUME Init PROVE Inv
  OBVIOUS
<1> USE DEF Init
<1>1. Types
  BY DEF Types, Places, Nothing, NoReport
<1>2. Working = {}
  BY DEF Working
<1>3. \A g \in Graders, i \in Inputs : results[g][i] = None
  BY DEF Nothing
<1>4. Leased /\ Empty
  BY <1>2, <1>3 DEF Leased, Empty
<1>5. Slots
  BY <1>3, SlotValues DEF Slots, Slot
<1>6. Concluded /\ Stored
  BY DEF Concluded, Stored
<1> QED BY <1>1, <1>4, <1>5, <1>6 DEF Inv

-----------------------------------------------------------------------------
(* What the parts of the actions do, grader by grader.                      *)

LEMMA GotoEffect ==
    ASSUME Types, NEW g \in Graders, NEW place \in Places, Goto(g, place)
    PROVE  /\ pc' \in [Graders -> Places]
           /\ pc'[g] = place
           /\ \A h \in Graders \ {g} : pc'[h] = pc[h]
BY DEF Types, Goto

LEMMA LeaveEffect ==
    ASSUME Types, NEW g \in Graders, Leave(g)
    PROVE  /\ pc' \in [Graders -> Places]
           /\ pc'[g] = "idle"
           /\ \A h \in Graders \ {g} : pc'[h] = pc[h]
           /\ DOMAIN results' = Graders
           /\ \A h \in Graders : DOMAIN results'[h] = Inputs
           /\ \A i \in Inputs : results'[g][i] = None
           /\ \A h \in Graders \ {g} : results'[h] = results[h]
<1>1. "idle" \in Places /\ Goto(g, "idle")
  BY DEF Leave, Places
<1>2. results' = [results EXCEPT ![g] = Nothing]
  BY DEF Leave
<1> QED BY <1>1, <1>2, GotoEffect DEF Types, Nothing

LEMMA SlotEffect ==
    ASSUME Types, NEW g \in Graders, NEW i \in Inputs, NEW r, results' = [results EXCEPT ![g][i] = r]
    PROVE  /\ DOMAIN results' = Graders
           /\ \A h \in Graders : DOMAIN results'[h] = Inputs
           /\ results'[g][i] = r
           /\ \A h \in Graders, j \in Inputs :
                 h # g \/ j # i => results'[h][j] = results[h][j]
BY DEF Types

LEMMA JobEffect ==
    ASSUME Types, NEW status \in {"DONE", "FAILED"}, SetJob(status)
    PROVE  /\ job'.status = status
           /\ job' \in [status : {"NONE", "PROCESSING", "DONE", "FAILED"}, live : BOOLEAN, attempts : Nat]
BY DEF Types, SetJob

LEMMA SessionIsGiven == [Next]_vars => session' = session
BY DEF Next, Step, vars, CandidateAsks, AdminAsks, Read, Claim, ClaimRefused, StartTurn, GraderAnswers,
       GraderFails, Conclude, NothingToReport, Store, StoreRaises, Crash, LeaseExpires

-----------------------------------------------------------------------------
(* One lemma for each thing an action can be to the invariant.              *)

(* A grader that holds nothing moves between places where it holds nothing. *)
LEMMA WaitingSteps ==
    ASSUME Inv, session' = session, NEW g \in Graders,
           CandidateAsks(g) \/ AdminAsks(g) \/ Read(g)
    PROVE  Inv'
<1>1. /\ g \notin Working /\ UNCHANGED <<job, cache, report, results, overran>>
      /\ \E place \in {"idle", "asked", "read"} : Goto(g, place)
  BY DEF CandidateAsks, AdminAsks, Read, Working
<1>2. PICK place \in {"idle", "asked", "read"} : Goto(g, place)
  BY <1>1
<1>3. /\ pc' \in [Graders -> Places] /\ pc'[g] = place
      /\ \A h \in Graders \ {g} : pc'[h] = pc[h]
  BY <1>2, GotoEffect DEF Inv, Places
<1>4. Working' = Working
  BY <1>1, <1>3 DEF Working
<1>5. Types'
  BY <1>1, <1>3, SessionStays DEF Inv, Types
<1>6. Leased' /\ Empty'
  BY <1>1, <1>4, SessionStays DEF Inv, Leased, Empty
<1>7. Slots'
  BY <1>1, SessionStays DEF Inv, Slots, Slot, Cached
<1>8. Concluded'
  <2>1. \A h \in Graders : pc'[h] = "storing" => h # g /\ pc[h] = "storing"
    BY <1>3
  <2> QED BY <1>1, <2>1, SessionStays DEF Inv, Concluded, AllGraded, Scored
<1>9. Stored'
  BY <1>1, SessionStays DEF Inv, Stored, Scored, Cached
<1> QED BY <1>5, <1>6, <1>7, <1>8, <1>9 DEF Inv

(* A claim is refused while a lease lasts, so that nobody else is working.  *)
LEMMA ClaimStep ==
    ASSUME Inv, session' = session, NEW g \in Graders, Claim(g)
    PROVE  Inv'
<1>1. /\ pc[g] = "read" /\ Claimable /\ Goto(g, "grading")
      /\ job' = [status |-> "PROCESSING", live |-> TRUE, attempts |-> job.attempts + 1]
      /\ UNCHANGED <<cache, report, results, overran>>
  BY DEF Claim
<1>2. /\ pc' \in [Graders -> Places] /\ pc'[g] = "grading"
      /\ \A h \in Graders \ {g} : pc'[h] = pc[h]
  BY <1>1, GotoEffect DEF Places, Inv
<1>3. g \notin Working /\ Working' = Working \cup {g}
  BY <1>1, <1>2 DEF Working
<1>4. Types'
  BY <1>1, <1>2, SessionStays DEF Inv, Types
<1>5. Leased'
  <2>1. ~ overran => Working = {}
    BY <1>1 DEF Inv, Leased, Claimable
  <2> QED BY <1>1, <1>3, <2>1 DEF Leased
<1>6. Empty' /\ Slots'
  BY <1>1, <1>3, SessionStays DEF Inv, Empty, Slots, Slot, Cached
<1>7. Concluded'
  <2>1. \A h \in Graders : pc'[h] = "storing" => pc[h] = "storing"
    BY <1>2
  <2> QED BY <1>1, <2>1, SessionStays DEF Inv, Concluded, AllGraded, Scored
<1>8. Stored'
  BY <1>1, SessionStays DEF Inv, Stored, Scored, Cached
<1> QED BY <1>4, <1>5, <1>6, <1>7, <1>8 DEF Inv

(* A grader leaves: what it held is gone, and the others keep what they had.*)
LEMMA LeavingHands ==
    ASSUME Inv, session' = session, cache' = cache, overran' = overran, NEW g \in Graders, Leave(g)
    PROVE  /\ pc' \in [Graders -> Places]
           /\ DOMAIN cache' = Turns'
           /\ DOMAIN results' = Graders /\ \A h \in Graders : DOMAIN results'[h] = Inputs'
           /\ Working' = Working \ {g}
           /\ Empty' /\ Slots' /\ Concluded'
<1>1. /\ pc' \in [Graders -> Places] /\ pc'[g] = "idle"
      /\ \A h \in Graders \ {g} : pc'[h] = pc[h] /\ results'[h] = results[h]
      /\ DOMAIN results' = Graders /\ \A h \in Graders : DOMAIN results'[h] = Inputs
      /\ \A i \in Inputs : results'[g][i] = None
  BY LeaveEffect DEF Inv
<1>2. Working' = Working \ {g}
  BY <1>1 DEF Working
<1>3. Empty'
  BY <1>1, <1>2, SessionStays DEF Inv, Empty
<1>4. Slots'
  BY <1>1, SlotValues, SessionStays DEF Inv, Slots, Slot, Cached
<1>5. Concluded'
  <2>1. \A h \in Graders : pc'[h] = "storing" => h # g /\ pc[h] = "storing" /\ results'[h] = results[h]
    BY <1>1
  <2> QED BY <2>1, SessionStays DEF Inv, Concluded, AllGraded, Scored
<1>6. DOMAIN cache' = Turns'
  BY SessionStays DEF Inv, Types
<1> QED BY <1>1, <1>2, <1>3, <1>4, <1>5, <1>6, SessionStays

(* It leaves without a report: the job is as it was, or has failed.         *)
LEMMA LeavingSteps ==
    ASSUME Inv, session' = session, NEW g \in Graders, Leave(g),
           UNCHANGED <<cache, report, overran>>,
           UNCHANGED job \/ (g \in Working /\ SetJob("FAILED"))
    PROVE  Inv'
<1>1. job' \in [status : {"NONE", "PROCESSING", "DONE", "FAILED"}, live : BOOLEAN, attempts : Nat]
  BY JobEffect DEF Inv, Types
<1>2. Types'
  BY <1>1, LeavingHands DEF Inv, Types
<1>3. Leased'
  <2>1. CASE UNCHANGED job
    BY <2>1, LeavingHands DEF Inv, Leased
  <2>2. CASE g \in Working
    <3>1. ~ overran => Working' = {}
      BY <2>2, LeavingHands DEF Inv, Leased
    <3> QED BY <3>1 DEF Leased
  <2> QED BY <2>1, <2>2
<1>4. Stored'
  <2>1. job'.status = "DONE" => job.status = "DONE"
    BY JobEffect DEF Inv
  <2> QED BY <2>1, SessionStays DEF Inv, Stored, Scored, Cached
<1> QED BY <1>2, <1>3, <1>4, LeavingHands DEF Inv

LEMMA StoreStep ==
    ASSUME Inv, session' = session, NEW g \in Graders, Store(g)
    PROVE  Inv'
<1>1. /\ pc[g] = "storing" /\ g \in Working /\ Leave(g) /\ SetJob("DONE")
      /\ report' = [id |-> report.id + 1, graded |-> results[g]]
      /\ UNCHANGED <<cache, overran>>
  BY DEF Store, Working
<1>2. job'.status = "DONE"
      /\ job' \in [status : {"NONE", "PROCESSING", "DONE", "FAILED"}, live : BOOLEAN, attempts : Nat]
  BY <1>1, JobEffect DEF Inv
<1>3. Types'
  BY <1>1, <1>2, LeavingHands DEF Inv, Types
<1>4. Leased'
  <2>1. ~ overran => Working' = {}
    BY <1>1, LeavingHands DEF Inv, Leased
  <2> QED BY <1>1, <2>1 DEF Leased
<1>5. Stored'
  <2>1. report' # NoReport
    BY <1>1 DEF Inv, Types, NoReport
  <2>2. /\ \A i \in Inputs : results[g][i] \notin {None, Asking}
        /\ \E i \in Scored(results[g]) : Weight(i) > 0
    BY <1>1 DEF Inv, Concluded, AllGraded
  <2>3. \A i \in Inputs : Weight(i) > 0 => report'.graded[i].outcome # "UNGRADED"
    BY <1>1, <2>2 DEF Inv, Slots, Slot
  <2>4. ~ overran => \A i \in Inputs : Cached(i, results[g][i])
    BY <2>2 DEF Inv, Slots, Slot
  <2>5. report'.graded = results[g]
    BY <1>1
  <2>6. \E i \in Scored(report'.graded) : Weight(i)' > 0
    BY <2>2, <2>5, SessionStays
  <2> QED BY <1>1, <2>1, <2>3, <2>4, <2>5, <2>6, SessionStays DEF Stored, Cached, Scored
<1> QED BY <1>1, <1>3, <1>4, <1>5, LeavingHands DEF Inv

(* A grader fills one slot, and the cache may gain the verdict on it.       *)
LEMMA SlotStep ==
    ASSUME Inv, session' = session, NEW g \in Graders, NEW i \in Inputs, NEW r,
           pc[g] = "grading", UNCHANGED <<job, report, pc, overran>>,
           results' = [results EXCEPT ![g][i] = r],
           DOMAIN cache' = DOMAIN cache,
           \A j \in Inputs : j # i \/ cache[j] # None => cache'[j] = cache[j],
           Slot(g, i)'
    PROVE  Inv'
<1>1. /\ DOMAIN results' = Graders /\ \A h \in Graders : DOMAIN results'[h] = Inputs
      /\ \A h \in Graders, j \in Inputs : h # g \/ j # i => results'[h][j] = results[h][j]
  <2>1. Types
    BY DEF Inv
  <2> QED BY <2>1, SlotEffect, ZenonT(60)
<1>2. g \in Working /\ Working' = Working
  BY DEF Working
<1>3. Types'
  BY <1>1, SessionStays DEF Inv, Types
<1>4. Leased' /\ Empty'
  BY <1>1, <1>2, SessionStays DEF Inv, Leased, Empty
<1>5. Slots'
  <2>1. ASSUME NEW h \in Graders, NEW j \in Inputs PROVE Slot(h, j)'
    <3>1. CASE h = g /\ j = i
      BY <3>1
    <3>2. CASE h = g /\ j # i
      BY <1>1, <3>2, SessionStays DEF Inv, Slots, Slot, Cached
    <3>3. CASE h # g
      <4>1. results'[h][j] = results[h][j]
        BY <1>1, <3>3
      <4>2. ~ overran => results[h][j] = None
        BY <1>2, <3>3 DEF Inv, Leased, Empty
      <4> QED BY <4>1, <4>2, SlotValues, SessionStays DEF Inv, Slots, Slot
    <3> QED BY <3>1, <3>2, <3>3
  <2> QED BY <2>1, SessionStays DEF Slots
<1>6. Concluded'
  <2>1. ASSUME NEW h \in Graders, pc'[h] = "storing"
        PROVE  AllGraded(h)' /\ (\E j \in Scored(results[h]) : Weight(j) > 0)'
    <3>1. /\ pc[h] = "storing" /\ h # g
          /\ \A j \in Inputs : results'[h][j] = results[h][j]
          /\ DOMAIN results'[h] = Inputs /\ DOMAIN results[h] = Inputs
      BY <1>1, <2>1 DEF Inv, Types
    <3>2. Scored(results'[h]) = Scored(results[h])
      BY <3>1 DEF Scored
    <3> QED BY <3>1, <3>2, SessionStays DEF Inv, Concluded, AllGraded
  <2> QED BY <2>1 DEF Concluded
<1>7. Stored'
  <2>1. ~ overran /\ report # NoReport => \A j \in Inputs : Cached(j, report.graded[j])'
    BY SessionStays DEF Inv, Stored, Cached
  <2> QED BY <2>1, SessionStays DEF Inv, Stored, Scored
<1> QED BY <1>3, <1>4, <1>5, <1>6, <1>7 DEF Inv

LEMMA StartTurnStep ==
    ASSUME Inv, session' = session, NEW g \in Graders, NEW i \in Inputs, StartTurn(g, i)
    PROVE  Inv'
<1>1. /\ pc[g] = "grading" /\ UNCHANGED <<job, cache, report, pc, overran>>
  BY DEF StartTurn
<1>2. PICK r : /\ results' = [results EXCEPT ![g][i] = r]
               /\ \/ r = Skipped /\ Outcome(i) = "SKIPPED"
                  \/ r = NotGradable /\ Outcome(i) = "NOT_GRADABLE"
                  \/ cache[i] # None /\ r \in Results(i, cache[i])
                  \/ cache[i] = None /\ r = Asking
  BY DEF StartTurn
<1>3. results'[g][i] = r
  <2>1. Types
    BY DEF Inv
  <2> QED BY <1>2, <2>1, SlotEffect
<1>4. r.outcome # "UNGRADED"
  BY <1>2, ResultsAreGraded, SlotValues
<1>5. ~ overran /\ r = Asking => cache[i] = None
  BY <1>2, ResultsAreGraded, SlotValues
<1>6. r # Asking => Cached(i, r)
  BY <1>2 DEF Cached
<1>7. Slot(g, i)'
  BY <1>1, <1>3, <1>4, <1>5, <1>6, SessionStays DEF Slot, Cached
<1> QED BY <1>1, <1>2, <1>7, SlotStep

LEMMA GraderAnswersStep ==
    ASSUME Inv, session' = session, NEW g \in Graders, NEW i \in Inputs, GraderAnswers(g, i)
    PROVE  Inv'
<1>1. /\ pc[g] = "grading" /\ results[g][i] = Asking /\ UNCHANGED <<job, report, pc, overran>>
  BY DEF GraderAnswers
<1>2. PICK verdict \in FreshVerdicts(i) :
         /\ cache' = [cache EXCEPT ![i] = IF @ = None THEN verdict ELSE @]
         /\ \E r \in Results(i, verdict) : results' = [results EXCEPT ![g][i] = r]
  BY DEF GraderAnswers
<1>3. PICK r \in Results(i, verdict) : results' = [results EXCEPT ![g][i] = r]
  BY <1>2
<1>4. results'[g][i] = r /\ r.outcome \in {"ANSWERED", "SKIPPED", "NOT_GRADABLE"}
  BY <1>3, SlotEffect, ResultsAreGraded DEF Inv
<1>5. /\ DOMAIN cache' = DOMAIN cache /\ i \in DOMAIN cache
      /\ \A j \in Inputs : j # i \/ cache[j] # None => cache'[j] = cache[j]
      /\ cache[i] = None => cache'[i] = verdict
  BY <1>2 DEF Inv, Types, Inputs
<1>6. verdict # None
  BY NoneAssumption DEF FreshVerdicts
<1>7. ~ overran => cache[i] = None
  BY <1>1 DEF Inv, Slots, Slot
<1>8. ~ overran => cache'[i] # None /\ r \in Results(i, cache'[i])
  BY <1>3, <1>5, <1>6, <1>7
<1>9. Slot(g, i)'
  BY <1>1, <1>4, <1>8, SlotValues, SessionStays DEF Slot, Cached
<1> QED BY <1>1, <1>3, <1>5, <1>9, SlotStep

LEMMA GraderFailsStep ==
    ASSUME Inv, session' = session, NEW g \in Graders, NEW i \in Inputs, GraderFails(g, i)
    PROVE  Inv'
<1>1. pc[g] = "grading" /\ g \in Working /\ UNCHANGED <<cache, report, overran>>
  BY DEF GraderFails, Working
<1>2. CASE Weight(i) = 0
  <2>1. results' = [results EXCEPT ![g][i] = Ungraded] /\ UNCHANGED <<job, pc>>
    BY <1>2 DEF GraderFails
  <2>2. results'[g][i] = Ungraded
    BY <2>1, SlotEffect DEF Inv
  <2>3. Slot(g, i)'
    BY <1>2, <2>2, SlotValues, SessionStays DEF Slot, Cached
  <2> QED BY <1>1, <2>1, <2>3, SlotStep
<1>3. CASE Weight(i) # 0
  <2>1. SetJob("FAILED") /\ Leave(g)
    BY <1>3 DEF GraderFails
  <2> QED BY <1>1, <2>1, LeavingSteps
<1> QED BY <1>2, <1>3

LEMMA ConcludeStep ==
    ASSUME Inv, session' = session, NEW g \in Graders, Conclude(g)
    PROVE  Inv'
<1>1. /\ pc[g] = "grading" /\ AllGraded(g) /\ \E i \in Scored(results[g]) : Weight(i) > 0
      /\ Goto(g, "storing") /\ UNCHANGED <<job, cache, report, results, overran>>
  BY DEF Conclude
<1>2. /\ pc' \in [Graders -> Places] /\ pc'[g] = "storing"
      /\ \A h \in Graders \ {g} : pc'[h] = pc[h]
  BY <1>1, GotoEffect DEF Inv, Places
<1>3. Working' = Working
  BY <1>1, <1>2 DEF Working
<1>4. Types'
  BY <1>1, <1>2, SessionStays DEF Inv, Types
<1>5. Leased' /\ Empty' /\ Slots'
  BY <1>1, <1>3, SessionStays DEF Inv, Leased, Empty, Slots, Slot, Cached
<1>6. Concluded'
  <2>1. \A h \in Graders : pc'[h] = "storing" => h = g \/ pc[h] = "storing"
    BY <1>2
  <2> QED BY <1>1, <2>1, SessionStays DEF Inv, Concluded, AllGraded, Scored
<1>7. Stored'
  BY <1>1, SessionStays DEF Inv, Stored, Scored, Cached
<1> QED BY <1>4, <1>5, <1>6, <1>7 DEF Inv

LEMMA LeaseExpiresStep ==
    ASSUME Inv, session' = session, LeaseExpires
    PROVE  Inv'
<1>1. /\ job' = [job EXCEPT !.live = FALSE]
      /\ UNCHANGED <<cache, report, pc, results>>
      /\ (Working = {} /\ overran' = overran) \/ overran' = TRUE
  BY DEF LeaseExpires
<1>2. job'.status = job.status /\ Types'
  BY <1>1, SessionStays DEF Inv, Types
<1>3. Working' = Working
  BY <1>1 DEF Working
<1>4. Leased'
  BY <1>1, <1>3 DEF Inv, Leased
<1>5. Empty' /\ Slots' /\ Concluded'
  BY <1>1, <1>3, SessionStays
     DEF Inv, Empty, Slots, Slot, Cached, Concluded, AllGraded, Scored
<1>6. Stored'
  BY <1>1, <1>2, SessionStays DEF Inv, Stored, Scored, Cached
<1> QED BY <1>2, <1>4, <1>5, <1>6 DEF Inv

LEMMA StutterStep ==
    ASSUME Inv, UNCHANGED vars
    PROVE  Inv'
<1>1. UNCHANGED <<session, job, cache, report, pc, results, overran>>
  BY DEF vars
<1>2. Working' = Working
  BY <1>1 DEF Working
<1>3. Types' /\ Leased' /\ Empty'
  BY <1>1, <1>2, SessionStays DEF Inv, Types, Leased, Empty
<1>4. Slots' /\ Concluded' /\ Stored'
  BY <1>1, SessionStays DEF Inv, Slots, Slot, Cached, Concluded, AllGraded, Scored, Stored
<1> QED BY <1>3, <1>4 DEF Inv

-----------------------------------------------------------------------------
(* The theorems.                                                            *)

LEMMA NextInv == Inv /\ [Next]_vars => Inv'
<1> SUFFICES ASSUME Inv, [Next]_vars PROVE Inv'
  OBVIOUS
<1>0. session' = session
  BY SessionIsGiven
<1>1. ASSUME NEW g \in Graders, CandidateAsks(g) \/ AdminAsks(g) \/ Read(g) PROVE Inv'
  BY <1>0, <1>1, WaitingSteps
<1>2. ASSUME NEW g \in Graders, Claim(g) PROVE Inv'
  BY <1>0, <1>2, ClaimStep
<1>3. ASSUME NEW g \in Graders, ClaimRefused(g) \/ StoreRaises(g) \/ Crash(g) PROVE Inv'
  <2>1. Leave(g) /\ UNCHANGED <<job, cache, report, overran>>
    BY <1>3 DEF ClaimRefused, StoreRaises, Crash
  <2> QED BY <1>0, <2>1, LeavingSteps
<1>4. ASSUME NEW g \in Graders, NothingToReport(g) PROVE Inv'
  <2>1. Leave(g) /\ g \in Working /\ SetJob("FAILED") /\ UNCHANGED <<cache, report, overran>>
    BY <1>4 DEF NothingToReport, Working
  <2> QED BY <1>0, <2>1, LeavingSteps
<1>5. ASSUME NEW g \in Graders, Store(g) PROVE Inv'
  BY <1>0, <1>5, StoreStep
<1>6. ASSUME NEW g \in Graders, NEW i \in Inputs, StartTurn(g, i) PROVE Inv'
  BY <1>0, <1>6, StartTurnStep
<1>7. ASSUME NEW g \in Graders, NEW i \in Inputs, GraderAnswers(g, i) PROVE Inv'
  BY <1>0, <1>7, GraderAnswersStep
<1>8. ASSUME NEW g \in Graders, NEW i \in Inputs, GraderFails(g, i) PROVE Inv'
  BY <1>0, <1>8, GraderFailsStep
<1>9. ASSUME NEW g \in Graders, Conclude(g) PROVE Inv'
  BY <1>0, <1>9, ConcludeStep
<1>10. CASE LeaseExpires
  BY <1>0, <1>10, LeaseExpiresStep
<1>11. CASE UNCHANGED vars
  BY <1>11, StutterStep
<1> QED
  BY <1>1, <1>2, <1>3, <1>4, <1>5, <1>6, <1>7, <1>8, <1>9, <1>10, <1>11 DEF Next, Step

LEMMA AlwaysInv == Spec => []Inv
BY InitInv, NextInv, PTL DEF Spec

(* Unless a grader outlasts its lease, at most one grades the session.      *)
THEOREM OneGraderAtATime == Spec => []OneGrader
<1>1. Inv => OneGrader
  <2> SUFFICES ASSUME Inv, ~ overran PROVE Cardinality(Working) <= 1
    BY DEF OneGrader
  <2>1. CASE Working = {}
    BY <2>1, FS_EmptySet
  <2>2. CASE Working # {}
    <3>1. PICK g \in Working : TRUE
      BY <2>2
    <3>2. Working = {g}
      BY <3>1 DEF Inv, Leased
    <3> QED BY <3>2, FS_Singleton
  <2> QED BY <2>1, <2>2
<1> QED BY <1>1, AlwaysInv, PTL

(* A report is built on graded turns, one that counts among them, and says  *)
(* what the cached verdicts say; a finished job has one.                    *)
THEOREM ReportsAreSound == Spec => []ReportIsSound
<1>1. Inv => ReportIsSound
  BY DEF Inv, Stored, Cached, ReportIsSound
<1> QED BY <1>1, AlwaysInv, PTL
-----------------------------------------------------------------------------
(* Combining votes.                                                         *)

(* Sorting the labels of one point puts every label in a place of its own,  *)
(* whatever the votes that were dropped in between.                         *)
Before(labels, j, k) ==
    \/ Rank[labels[j].status] < Rank[labels[k].status]
    \/ Rank[labels[j].status] = Rank[labels[k].status] /\ j < k

Below(labels, k) == {j \in DOMAIN labels : Before(labels, j, k)}

LabelsOf(labels) ==
    /\ IsFiniteSet(DOMAIN labels) /\ DOMAIN labels \subseteq Int /\ DOMAIN labels # {}
    /\ \A k \in DOMAIN labels : labels[k].status \in Statuses

LEMMA RankTyped ==
    /\ \A s \in Statuses : Rank[s] \in 0..3
    /\ \A s, t \in Statuses : Rank[s] = Rank[t] => s = t
BY DEF Rank, Statuses

LEMMA PlaceIsBelow ==
    ASSUME NEW labels, LabelsOf(labels), NEW k \in DOMAIN labels
    PROVE  /\ Place(labels, k) = Cardinality(Below(labels, k))
           /\ IsFiniteSet(Below(labels, k))
           /\ Place(labels, k) \in Nat
           /\ Place(labels, k) < Cardinality(DOMAIN labels)
<1>1. Place(labels, k) = Cardinality(Below(labels, k))
  BY DEF Place, Below, Before
<1>2. Rank[labels[k].status] \in 0..3 /\ k \in Int
  BY RankTyped DEF LabelsOf
<1>3. k \notin Below(labels, k)
  BY <1>2 DEF Below, Before
<1>4. Below(labels, k) \in SUBSET DOMAIN labels
  BY DEF Below
<1>5. /\ IsFiniteSet(Below(labels, k))
      /\ Cardinality(Below(labels, k)) <= Cardinality(DOMAIN labels)
      /\ Cardinality(Below(labels, k)) # Cardinality(DOMAIN labels)
  BY <1>3, <1>4, FS_Subset DEF LabelsOf
<1>6. Cardinality(Below(labels, k)) \in Nat /\ Cardinality(DOMAIN labels) \in Nat
  BY <1>5, FS_CardinalityType DEF LabelsOf
<1>7. QED
  BY <1>1, <1>5, <1>6

LEMMA PlacesDiffer ==
    ASSUME NEW labels, LabelsOf(labels), NEW j \in DOMAIN labels, NEW k \in DOMAIN labels, j # k
    PROVE  Place(labels, j) # Place(labels, k)
<1>1. ASSUME NEW a \in DOMAIN labels, NEW b \in DOMAIN labels, Before(labels, a, b)
      PROVE  Place(labels, a) < Place(labels, b)
  <2>1. /\ \A x \in DOMAIN labels : Rank[labels[x].status] \in 0..3
        /\ \A x \in DOMAIN labels : x \in Int
    BY RankTyped DEF LabelsOf
  <2>2. a \in Below(labels, b) /\ a \notin Below(labels, a)
    BY <1>1, <2>1 DEF Below, Before
  <2>3. ASSUME NEW x \in DOMAIN labels, Before(labels, x, a)
        PROVE  Before(labels, x, b)
    <3>1. /\ Rank[labels[x].status] \in Int /\ Rank[labels[a].status] \in Int
          /\ Rank[labels[b].status] \in Int /\ x \in Int /\ a \in Int /\ b \in Int
      BY <2>1
    <3>2. QED
      BY <1>1, <2>3, <3>1 DEF Before
  <2>4. Below(labels, a) \in SUBSET Below(labels, b) /\ Below(labels, a) # Below(labels, b)
    BY <2>2, <2>3 DEF Below
  <2>5. /\ Cardinality(Below(labels, a)) <= Cardinality(Below(labels, b))
        /\ Cardinality(Below(labels, a)) # Cardinality(Below(labels, b))
    BY <2>4, PlaceIsBelow, FS_Subset
  <2>6. QED
    BY <2>5, PlaceIsBelow
<1>2. Before(labels, j, k) \/ Before(labels, k, j)
  <2>1. /\ Rank[labels[j].status] \in Int /\ Rank[labels[k].status] \in Int
        /\ j \in Int /\ k \in Int
    BY RankTyped DEF LabelsOf
  <2>2. QED
    BY <2>1 DEF Before
<1>3. Place(labels, j) \in Nat /\ Place(labels, k) \in Nat
  BY PlaceIsBelow
<1>4. QED
  BY <1>1, <1>2, <1>3

(* So there is a label in the middle.                                       *)
LEMMA MedianExists ==
    ASSUME NEW labels, LabelsOf(labels)
    PROVE  \E k \in DOMAIN labels :
              /\ Median(labels) = labels[k]
              /\ Place(labels, k) = (Cardinality(DOMAIN labels) - 1) \div 2
<1> DEFINE n == Cardinality(DOMAIN labels)
           place == [k \in DOMAIN labels |-> Place(labels, k)]
<1>1. n \in Nat /\ n # 0
  BY FS_CardinalityType, FS_EmptySet DEF LabelsOf
<1> HIDE DEF n
<1>2. IsFiniteSet(0..(n - 1)) /\ Cardinality(0..(n - 1)) = n
  <2>1. (n - 1) \in Int /\ ~ (0 > n - 1) /\ n - 1 - 0 + 1 = n
    BY <1>1
  <2>2. /\ IsFiniteSet(0..(n - 1))
        /\ Cardinality(0..(n - 1)) = IF 0 > n - 1 THEN 0 ELSE n - 1 - 0 + 1
    BY <2>1, FS_Interval
  <2>3. QED
    BY <2>1, <2>2
<1>3. place \in Injection(DOMAIN labels, 0..(n - 1))
  <2>1. \A k \in DOMAIN labels : Place(labels, k) \in 0..(n - 1)
    BY <1>1, PlaceIsBelow DEF n
  <2>2. \A j, k \in DOMAIN labels : Place(labels, j) = Place(labels, k) => j = k
    BY PlacesDiffer
  <2>3. place \in [DOMAIN labels -> 0..(n - 1)] /\ IsInjective(place)
    BY <2>1, <2>2 DEF IsInjective
  <2>4. QED
    BY <2>3 DEF Injection
<1> HIDE DEF place
<1>4. place \in Surjection(DOMAIN labels, 0..(n - 1))
  BY <1>2, <1>3, FS_Injection DEF n
<1>5. (n - 1) \div 2 \in 0..(n - 1)
  BY <1>1
<1>6. \E k \in DOMAIN labels : place[k] = (n - 1) \div 2
  BY <1>4, <1>5 DEF Surjection
<1>7. \E k \in DOMAIN labels : Place(labels, k) = (n - 1) \div 2
  BY <1>6 DEF place
<1>8. QED
  BY <1>7 DEF Median, n

(* What more than half of the labels say stands in the middle.              *)
LEMMA MajorityIsMedian ==
    ASSUME NEW labels, LabelsOf(labels), NEW s \in Statuses,
           2 * Cardinality({k \in DOMAIN labels : labels[k].status = s})
               > Cardinality(DOMAIN labels)
    PROVE  Median(labels).status = s
<1> DEFINE n == Cardinality(DOMAIN labels)
           Same == {k \in DOMAIN labels : labels[k].status = s}
<1>1. PICK m \in DOMAIN labels :
        Median(labels) = labels[m] /\ Place(labels, m) = (n - 1) \div 2
  BY MedianExists
<1>2. /\ n \in Nat /\ n # 0
      /\ IsFiniteSet(Same) /\ Cardinality(Same) \in Nat
  <2>1. Same \in SUBSET DOMAIN labels
    OBVIOUS
  <2>2. QED
    BY <2>1, FS_CardinalityType, FS_EmptySet, FS_Subset DEF LabelsOf
<1>3. /\ IsFiniteSet(Below(labels, m)) /\ Cardinality(Below(labels, m)) = (n - 1) \div 2
      /\ m \notin Below(labels, m) /\ Below(labels, m) \in SUBSET DOMAIN labels
  <2>1. Rank[labels[m].status] \in Int /\ m \in Int
    BY RankTyped DEF LabelsOf
  <2>2. QED
    BY <1>1, <2>1, PlaceIsBelow DEF Below, Before
<1>4. SUFFICES ASSUME labels[m].status # s PROVE FALSE
  BY <1>1
<1>5. /\ Rank[labels[m].status] \in Int /\ Rank[s] \in Int
      /\ Rank[labels[m].status] # Rank[s]
  BY <1>4, RankTyped DEF LabelsOf
<1>6. CASE Rank[s] < Rank[labels[m].status]
  <2>1. Same \in SUBSET Below(labels, m)
    BY <1>6 DEF Below, Before
  <2>2. Cardinality(Same) <= (n - 1) \div 2
    BY <1>3, <2>1, FS_Subset
  <2>3. QED
    BY <1>2, <2>2
<1>7. CASE Rank[s] > Rank[labels[m].status]
  <2> DEFINE Taken == Below(labels, m) \cup {m}
  <2>1. IsFiniteSet(Taken) /\ Cardinality(Taken) = (n - 1) \div 2 + 1
    BY <1>3, FS_AddElement
  <2>2. Taken \in SUBSET DOMAIN labels
    BY <1>3
  <2>3. IsFiniteSet(DOMAIN labels \ Taken) /\ Cardinality(DOMAIN labels \ Taken) = n - ((n - 1) \div 2 + 1)
    <3>1. DOMAIN labels \cap Taken = Taken
      BY <2>2
    <3>2. /\ IsFiniteSet(DOMAIN labels \ Taken)
          /\ Cardinality(DOMAIN labels \ Taken) = n - Cardinality(DOMAIN labels \cap Taken)
      <4> HIDE DEF Taken
      <4>1. QED
        BY FS_Difference DEF LabelsOf
    <3>3. QED
      BY <2>1, <3>1, <3>2
  <2>4. ASSUME NEW k \in Same PROVE k \notin Taken
    BY <1>4, <1>5, <1>7 DEF Below, Before
  <2>5. Same \in SUBSET (DOMAIN labels \ Taken)
    BY <2>4
  <2>6. Cardinality(Same) <= n - ((n - 1) \div 2 + 1)
    BY <2>3, <2>5, FS_Subset
  <2>7. QED
    BY <1>2, <2>6
<1>8. QED
  BY <1>5, <1>6, <1>7

(* One vote, checked.                                                       *)
LEMMA CheckedLabel ==
    ASSUME NEW vote \in Votes, NEW p \in DOMAIN Points
    PROVE  /\ Validate(vote)[p].status \in Statuses
           /\ Validate(vote)[p].status # "MISSING" => Validate(vote)[p].quote \in Verbatim
<1>1. vote[p] \in Labels
  BY DEF Votes
<1>2. vote[p].status \in Statuses \cup {"UNLABELLED"}
  BY <1>1 DEF Labels
<1>3. /\ Grounded(vote[p]) \in Statuses
      /\ Grounded(vote[p]) # "MISSING" => vote[p].quote \in Verbatim
  BY <1>2 DEF Grounded, Statuses
<1>4. /\ Status(vote, p) \in Statuses
      /\ Status(vote, p) # "MISSING" => vote[p].quote \in Verbatim
  BY <1>3 DEF Status, Statuses
<1>5. Validate(vote)[p] = [status |-> Status(vote, p),
                           quote |-> IF Status(vote, p) = "MISSING" THEN NoQuote ELSE vote[p].quote]
  BY DEF Validate
<1>6. QED
  BY <1>4, <1>5

(* Any number of votes, combined.                                           *)
LEMMA JudgedPoint ==
    ASSUME NEW votes, IsFiniteSet(DOMAIN votes), DOMAIN votes \subseteq Int, DOMAIN votes # {},
           \A k \in DOMAIN votes : votes[k] \in Votes, NEW p \in DOMAIN Points
    PROVE  /\ Judge(votes)[p].status \in Statuses
           /\ Judge(votes)[p].status # "MISSING" => Judge(votes)[p].quote \in Verbatim
           /\ \A s \in Statuses :
                 2 * Cardinality({k \in DOMAIN votes : Validate(votes[k])[p].status = s})
                     > Cardinality(DOMAIN votes) => Judge(votes)[p].status = s
<1> DEFINE labels == [k \in DOMAIN votes |-> Validate(votes[k])[p]]
<1>1. Judge(votes)[p] = Median(labels)
  BY DEF Judge, MajorityVerdicts
<1>2. /\ DOMAIN labels = DOMAIN votes
      /\ \A k \in DOMAIN votes : labels[k] = Validate(votes[k])[p]
  OBVIOUS
<1> HIDE DEF labels
<1>3. LabelsOf(labels)
  BY <1>2, CheckedLabel DEF LabelsOf
<1>4. /\ Judge(votes)[p].status \in Statuses
      /\ Judge(votes)[p].status # "MISSING" => Judge(votes)[p].quote \in Verbatim
  <2>1. PICK k \in DOMAIN labels : Median(labels) = labels[k]
    BY <1>3, MedianExists
  <2>2. QED
    BY <1>1, <1>2, <2>1, CheckedLabel
<1>5. ASSUME NEW s \in Statuses,
             2 * Cardinality({k \in DOMAIN votes : Validate(votes[k])[p].status = s})
                 > Cardinality(DOMAIN votes)
      PROVE  Judge(votes)[p].status = s
  <2>1. {k \in DOMAIN votes : Validate(votes[k])[p].status = s}
          = {k \in DOMAIN labels : labels[k].status = s}
    BY <1>2
  <2>2. QED
    BY <1>1, <1>2, <1>3, <1>5, <2>1, MajorityIsMedian
<1>6. QED
  BY <1>4, <1>5

LEMMA SoundBallotsAreVotes ==
    ASSUME NEW b \in SoundBallots
    PROVE  /\ IsFiniteSet(DOMAIN b) /\ DOMAIN b \subseteq Int /\ DOMAIN b # {}
           /\ \A k \in DOMAIN b : b[k].labels \in Votes
<1>1. PICK ballot \in Ballots : b = Counted(ballot) /\ 2 * Cardinality(DOMAIN b) > ChecklistVotes
  BY DEF SoundBallots
<1>2. /\ DOMAIN b \in SUBSET DOMAIN ballot
      /\ \A k \in DOMAIN b : b[k] = ballot[k]
  BY <1>1 DEF Counted, Restrict
<1>3. DOMAIN b \in SUBSET (1..3)
  BY <1>2, BallotsAssumption DEF ChecklistVotes
<1>4. IsFiniteSet(DOMAIN b)
  <2>1. 1 \in Int /\ 3 \in Int
    OBVIOUS
  <2>2. IsFiniteSet(1..3)
    BY <2>1, FS_Interval, Zenon
  <2>3. QED
    BY <1>3, <2>2, FS_Subset
<1>5. DOMAIN b # {}
  BY <1>1, FS_EmptySet DEF ChecklistVotes
<1>6. QED
  BY <1>2, <1>3, <1>4, <1>5, BallotsAssumption

(* What the cache holds on a checklist is what a majority of usable votes   *)
(* said.                                                                    *)
CachedVotes ==
    /\ DOMAIN cache = Turns
    /\ \A i \in Turns : cache[i] # None => cache[i] \in FreshVerdicts(i)

LEMMA CachedVotesAreKept ==
    ASSUME CachedVotes, [Next]_vars
    PROVE  CachedVotes'
<1>1. session' = session /\ Turns' = Turns
  BY SessionIsGiven DEF Turns
<1>2. CASE cache' = cache
  BY <1>1, <1>2, SessionStays DEF CachedVotes
<1>3. ASSUME NEW g \in Graders, NEW i \in Inputs, GraderAnswers(g, i)
      PROVE  CachedVotes'
  <2>1. PICK verdict \in FreshVerdicts(i) :
          cache' = [cache EXCEPT ![i] = IF @ = None THEN verdict ELSE @]
    BY <1>3 DEF GraderAnswers
  <2>2. DOMAIN cache' = Turns
    BY <2>1 DEF CachedVotes
  <2>3. ASSUME NEW j \in Turns, cache'[j] # None
        PROVE  cache'[j] \in FreshVerdicts(j)
    <3>1. cache'[j] = cache[j] \/ (j = i /\ cache'[j] = verdict)
      BY <2>1 DEF CachedVotes
    <3>2. QED
      BY <2>3, <3>1 DEF CachedVotes
  <2>4. QED
    BY <1>1, <2>2, <2>3, SessionStays DEF CachedVotes
<1>4. \/ cache' = cache
      \/ \E g \in Graders, i \in Inputs : GraderAnswers(g, i)
  BY DEF Next, Step, CandidateAsks, AdminAsks, Read, Claim, ClaimRefused, StartTurn, Conclude,
         NothingToReport, Store, StoreRaises, GraderFails, Crash, LeaseExpires, vars
<1>5. QED
  BY <1>2, <1>3, <1>4

(* Nothing a grader model says becomes a verdict unless the answer bears it *)
(* out and, where most votes agree, as they agree: for every checklist, and *)
(* every set of votes of which a majority can be used.                      *)
THEOREM VerdictsAreEarned == Spec => []VerdictIsEarned
<1>1. Init => CachedVotes
  BY DEF Init, CachedVotes
<1>2. CachedVotes /\ [Next]_vars => CachedVotes'
  BY CachedVotesAreKept
<1>3. CachedVotes => VerdictIsEarned
  <2>1. SUFFICES ASSUME CachedVotes, NEW i \in Judged, NEW p \in DOMAIN Points
                 PROVE  LET verdict == Verdict[cache[i]][p]
                            checked == [k \in DOMAIN cache[i] |-> Validate(cache[i][k].labels)]
                        IN  /\ verdict.status # "MISSING" => verdict.quote \in Verbatim
                            /\ \A status \in Statuses :
                                  2 * Cardinality({k \in DOMAIN checked : checked[k][p].status = status})
                                      > Cardinality(DOMAIN checked) => verdict.status = status
    BY DEF VerdictIsEarned
  <2> DEFINE b == cache[i]
             votes == [k \in DOMAIN b |-> b[k].labels]
             checked == [k \in DOMAIN b |-> Validate(b[k].labels)]
  <2>2. b \in SoundBallots
    BY <2>1 DEF CachedVotes, Judged, FreshVerdicts
  <2>3. /\ DOMAIN votes = DOMAIN b /\ \A k \in DOMAIN b : votes[k] = b[k].labels
        /\ DOMAIN checked = DOMAIN b /\ \A k \in DOMAIN b : checked[k] = Validate(votes[k])
    OBVIOUS
  <2>4. Verdict[b] = Judge(votes)
    BY <2>2 DEF Verdict
  <2> HIDE DEF b, votes, checked
  <2>5. /\ IsFiniteSet(DOMAIN votes) /\ DOMAIN votes \subseteq Int /\ DOMAIN votes # {}
        /\ \A k \in DOMAIN votes : votes[k] \in Votes
    BY <2>2, <2>3, SoundBallotsAreVotes
  <2>6. \A s : {k \in DOMAIN checked : checked[k][p].status = s}
                 = {k \in DOMAIN votes : Validate(votes[k])[p].status = s}
    BY <2>3
  <2>7. /\ Verdict[b][p].status # "MISSING" => Verdict[b][p].quote \in Verbatim
        /\ \A s \in Statuses :
              2 * Cardinality({k \in DOMAIN checked : checked[k][p].status = s})
                  > Cardinality(DOMAIN checked) => Verdict[b][p].status = s
    BY <2>3, <2>4, <2>5, <2>6, JudgedPoint
  <2>8. QED
    BY <2>7 DEF b, checked
<1>4. QED
  BY <1>1, <1>2, <1>3, PTL DEF Spec


-----------------------------------------------------------------------------
(* Sums.  No induction theorem of the library can be cited for an operator, *)
(* but a set of naturals that is closed under successors is all of them.    *)

LEMMA NaturalsFrom ==
    ASSUME NEW S \in SUBSET Nat, 0 \in S, \A n \in S : n + 1 \in S
    PROVE  S = Nat
<1> DEFINE T == Nat \ S
<1>1. ASSUME T # {} PROVE FALSE
  <2>0. T # {} /\ T \subseteq Nat
    BY <1>1
  <2>1. PICK x \in T : \A y \in T : ~ (<<y, x>> \in OpToRel(<, Nat))
    BY <2>0, NatLessThanWellFounded, WFMin, Zenon
  <2>2. \A y \in T : ~ (y < x)
    BY <2>1 DEF OpToRel
  <2>3. x # 0 /\ x - 1 \in Nat /\ x - 1 < x /\ (x - 1) + 1 = x
    OBVIOUS
  <2>4. x - 1 \in S
    BY <2>2, <2>3
  <2>5. (x - 1) + 1 \in S
    BY <2>4
  <2> QED BY <2>3, <2>5
<1>2. T = {}
  <2> HIDE DEF T
  <2> QED BY <1>1
<1>3. S \subseteq Nat /\ Nat \subseteq S
  BY <1>2
<1> QED BY <1>3

First(T) == CHOOSE x \in T : TRUE

Sum(f, sum, T) == IF T = {} THEN 0 ELSE f[First(T)] + sum[T \ {First(T)}]

IsSum(f, S, sum) == sum = [T \in SUBSET S |-> Sum(f, sum, T)]

AtMost(S, n) == {T \in SUBSET S : Cardinality(T) <= n}

LEMMA SumExists ==
    ASSUME NEW S, IsFiniteSet(S), NEW f
    PROVE  \E sum : IsSum(f, S, sum)
<1> DEFINE P == {n \in Nat : \E sum : sum = [T \in AtMost(S, n) |-> Sum(f, sum, T)]}
<1>0. \A n \in Nat : \A T \in AtMost(S, n) : IsFiniteSet(T) /\ Cardinality(T) \in Nat
  BY FS_Subset, FS_CardinalityType DEF AtMost
<1>1. 0 \in P
  <2>1. \A T \in AtMost(S, 0) : T = {}
    BY <1>0, FS_EmptySet DEF AtMost
  <2> DEFINE sum == [T \in AtMost(S, 0) |-> 0]
  <2>2. sum = [T \in AtMost(S, 0) |-> Sum(f, sum, T)]
    BY <2>1 DEF Sum
  <2> QED BY <2>2
<1>2. ASSUME NEW n \in P PROVE n + 1 \in P
  <2>1. PICK g : g = [T \in AtMost(S, n) |-> Sum(f, g, T)]
    BY <1>2
  <2> DEFINE h == [T \in AtMost(S, n + 1) |-> Sum(f, g, T)]
  <2>2. ASSUME NEW T \in AtMost(S, n + 1), T # {}
        PROVE  T \ {First(T)} \in AtMost(S, n)
    <3>1. First(T) \in T
      BY <2>2 DEF First
    <3>2. IsFiniteSet(T) /\ Cardinality(T) \in Nat /\ Cardinality(T) <= n + 1
      BY <1>0, <1>2 DEF AtMost
    <3>3. Cardinality(T \ {First(T)}) = Cardinality(T) - 1
      BY <3>2, <3>1, FS_RemoveElement
    <3> QED BY <1>2, <3>2, <3>3 DEF AtMost
  <2>3. AtMost(S, n) \subseteq AtMost(S, n + 1)
    BY <1>0, <1>2 DEF AtMost
  <2>4. \A T \in AtMost(S, n) : h[T] = g[T]
    BY <2>1, <2>3
  <2>5. ASSUME NEW T \in AtMost(S, n + 1) PROVE Sum(f, h, T) = Sum(f, g, T)
    <3>1. T # {} => h[T \ {First(T)}] = g[T \ {First(T)}]
      BY <2>2, <2>4
    <3> HIDE DEF h
    <3> QED BY <3>1 DEF Sum
  <2>6. h = [T \in AtMost(S, n + 1) |-> Sum(f, h, T)]
    BY <2>5
  <2>7. n + 1 \in Nat
    BY <1>2
  <2> HIDE DEF h
  <2> QED BY <2>6, <2>7
<1>3. Cardinality(S) \in P
  <2> HIDE DEF P
  <2>1. P \in SUBSET Nat
    BY DEF P
  <2>2. P = Nat
    BY <1>1, <1>2, <2>1, NaturalsFrom
  <2> QED BY <2>2, FS_CardinalityType
<1>4. AtMost(S, Cardinality(S)) = SUBSET S
  BY FS_Subset, FS_CardinalityType DEF AtMost
<1>5. PICK sum : sum = [T \in AtMost(S, Cardinality(S)) |-> Sum(f, sum, T)]
  BY <1>3
<1> QED BY <1>4, <1>5 DEF IsSum

LEMMA TotalSteps ==
    ASSUME NEW f, IsFiniteSet(DOMAIN f)
    PROVE  \E sum : IsSum(f, DOMAIN f, sum) /\ Total(f) = sum[DOMAIN f]
<1> DEFINE it == CHOOSE sum : IsSum(f, DOMAIN f, sum)
<1>1. IsSum(f, DOMAIN f, it)
  BY SumExists, Zenon
<1>2. Total(f) = it[DOMAIN f]
  BY DEF Total, MapThenSumSet, MapThenFoldSet, Sum, First, IsSum
<1> QED BY <1>1, <1>2

(* Sums are compared term by term.                                          *)
LEMMA TotalsCompare ==
    ASSUME NEW S, IsFiniteSet(S), NEW f, NEW g, DOMAIN f = S, DOMAIN g = S,
           \A x \in S : f[x] \in Int /\ g[x] \in Int /\ f[x] <= g[x]
    PROVE  Total(f) \in Int /\ Total(g) \in Int /\ Total(f) <= Total(g)
<1>1. PICK a : a = [T \in SUBSET S |-> Sum(f, a, T)] /\ Total(f) = a[S]
  BY TotalSteps DEF IsSum
<1>2. PICK b : b = [T \in SUBSET S |-> Sum(g, b, T)] /\ Total(g) = b[S]
  BY TotalSteps DEF IsSum
<1> DEFINE Fine(T) == a[T] \in Int /\ b[T] \in Int /\ a[T] <= b[T]
           P == {n \in Nat : \A T \in AtMost(S, n) : Fine(T)}
<1>0. \A T \in SUBSET S : IsFiniteSet(T) /\ Cardinality(T) \in Nat /\ (Cardinality(T) = 0 => T = {})
  BY FS_Subset, FS_CardinalityType, FS_EmptySet
<1>3. 0 \in P
  <2>1. \A T \in AtMost(S, 0) : T = {}
    BY <1>0 DEF AtMost
  <2>2. a[{}] = 0 /\ b[{}] = 0
    BY <1>1, <1>2 DEF Sum
  <2>3. Fine({})
    BY <2>2
  <2> HIDE DEF Fine
  <2> QED BY <2>1, <2>3
<1>4. ASSUME NEW n \in P PROVE n + 1 \in P
  <2>1. SUFFICES ASSUME NEW T \in AtMost(S, n + 1) PROVE Fine(T)
    BY <1>4
  <2>2. CASE T = {}
    BY <1>1, <1>2, <2>2 DEF Sum
  <2>3. CASE T # {}
    <3> DEFINE x == First(T)
               U == T \ {x}
    <3>1. x \in T /\ T \in SUBSET S
      BY <2>3 DEF First, AtMost
    <3>2. U \in AtMost(S, n)
      <4>1. Cardinality(U) = Cardinality(T) - 1
        BY <1>0, <3>1, FS_RemoveElement
      <4> QED BY <1>0, <1>4, <3>1, <4>1 DEF AtMost
    <3>3. a[T] = f[x] + a[U] /\ b[T] = g[x] + b[U]
      BY <1>1, <1>2, <2>3, <3>1 DEF Sum
    <3>4. Fine(U)
      BY <1>4, <3>2
    <3> HIDE DEF x, U
    <3> QED BY <3>1, <3>3, <3>4
  <2> QED BY <2>2, <2>3
<1>5. P = Nat
  <2>1. P \in SUBSET Nat
    OBVIOUS
  <2> HIDE DEF P
  <2> QED BY <1>3, <1>4, <2>1, NaturalsFrom
<1>6. S \in AtMost(S, Cardinality(S)) /\ Cardinality(S) \in Nat
  BY <1>0 DEF AtMost
<1> QED BY <1>1, <1>2, <1>5, <1>6

-----------------------------------------------------------------------------
(* Scores.                                                                  *)

(* Rounding to the nearest, and half to even, keeps the order.              *)
LEMMA RoundDivGrows ==
    ASSUME NEW a \in Int, NEW b \in Int, NEW n \in Nat, n > 0, a <= b
    PROVE  RoundDiv(a, n) \in Int /\ RoundDiv(b, n) \in Int /\ RoundDiv(a, n) <= RoundDiv(b, n)
<1>1. PICK p \in Int, r \in 0..(n - 1) : a \div n = p /\ a % n = r /\ a = n * p + r
  OBVIOUS
<1>2. PICK q \in Int, s \in 0..(n - 1) : b \div n = q /\ b % n = s /\ b = n * q + s
  OBVIOUS
<1>3. /\ RoundDiv(a, n) = IF 2 * r > n \/ (2 * r = n /\ p % 2 = 1) THEN p + 1 ELSE p
      /\ RoundDiv(b, n) = IF 2 * s > n \/ (2 * s = n /\ q % 2 = 1) THEN q + 1 ELSE q
  BY <1>1, <1>2 DEF RoundDiv
<1>4. p <= q
  <2>1. ASSUME p >= q + 1 PROVE FALSE
    <3>1. n * p >= n * (q + 1) /\ n * (q + 1) = n * q + n
      BY <2>1
    <3> QED BY <1>1, <1>2, <3>1
  <2> QED BY <2>1
<1>5. CASE p < q
  BY <1>3, <1>5
<1>6. CASE p = q
  <2>1. r <= s
    BY <1>1, <1>2, <1>6
  <2> QED BY <1>3, <1>6, <2>1
<1> QED BY <1>4, <1>5, <1>6

(* What the verdicts earn is a number, and the score a score out of ten.    *)
LEMMA ChecklistScoreTyped ==
    ASSUME NEW verdicts, \A i \in DOMAIN Points : verdicts[i].status \in Statuses
    PROVE  ChecklistScore(verdicts) \in 0..100
<1>1. IsFiniteSet(DOMAIN Points) /\ DOMAIN Points # {}
  <2>1. PICK n \in Nat : DOMAIN Points = 1..n
    BY PointsAssumption
  <2>2. IsFiniteSet(1..n)
    <3>1. 1 \in Int /\ n \in Int
      OBVIOUS
    <3> QED BY <3>1, FS_Interval, Zenon
  <2>3. DOMAIN Points # {}
    <3>1. PICK S : Points \in Seq(S) /\ Points # <<>>
      BY PointsAssumption
    <3>2. Len(Points) \in Nat \ {0} /\ DOMAIN Points = 1..Len(Points)
      BY <3>1, EmptySeq, LenProperties, Zenon
    <3>3. 1 \in 1..Len(Points)
      BY <3>2
    <3> QED BY <3>2, <3>3
  <2> QED BY <2>1, <2>2, <2>3
<1>2. ASSUME NEW S \in SUBSET DOMAIN Points
      PROVE  /\ Earned(verdicts, S) \in Int
             /\ Cardinality(S) \in Nat /\ (S # {} => Cardinality(S) > 0)
  <2> DEFINE f == [i \in S |-> HalfCredit[verdicts[i].status]]
  <2>1. IsFiniteSet(S)
    BY <1>1, FS_Subset
  <2>2. \A s \in Statuses : HalfCredit[s] \in Int
    BY DEF HalfCredit, Statuses
  <2>3. DOMAIN f = S /\ \A x \in S : f[x] \in Int /\ f[x] <= f[x]
    BY <2>2
  <2> HIDE DEF f
  <2>4. Total(f) \in Int
    BY <2>1, <2>3, TotalsCompare
  <2> QED BY <2>1, <2>4, FS_CardinalityType, FS_EmptySet DEF Earned, f
<1> DEFINE core  == IF Core = {} THEN DOMAIN Points ELSE Core
           bonus == DOMAIN Points \ core
           wrong == Cardinality(Wrong(verdicts))
<1>3. core \in SUBSET DOMAIN Points /\ core # {} /\ bonus \in SUBSET DOMAIN Points
  BY <1>1 DEF Core
<1>4. wrong \in Nat
  BY <1>2 DEF Wrong
<1>5. /\ Cardinality(core) \in Nat /\ Cardinality(core) > 0 /\ Earned(verdicts, core) \in Int
      /\ Cardinality(bonus) \in Nat /\ (bonus # {} => Cardinality(bonus) > 0)
      /\ Earned(verdicts, bonus) \in Int
  <2> HIDE DEF core, bonus
  <2> QED BY <1>2, <1>3
<1>6. ASSUME NEW x \in Int PROVE Clip(x) \in 0..100
  BY DEF Clip
<1>7. ASSUME bonus = {} PROVE ChecklistScore(verdicts) \in 0..100
  <2> DEFINE a == 100 * Earned(verdicts, core) - 20 * Cardinality(core) * wrong
             n == 2 * Cardinality(core)
  <2>1. a \in Int /\ n \in Nat /\ n > 0 /\ a <= a
    <3> HIDE DEF core, bonus, wrong
    <3> QED BY <1>4, <1>5
  <2>2. ChecklistScore(verdicts) = Clip(RoundDiv(a, n))
    BY <1>7 DEF ChecklistScore
  <2> HIDE DEF a, n
  <2>3. RoundDiv(a, n) \in Int
    BY <2>1, RoundDivGrows
  <2> QED BY <1>6, <2>2, <2>3
<1>8. ASSUME bonus # {} PROVE ChecklistScore(verdicts) \in 0..100
  <2> DEFINE k == Cardinality(core)
             m == Cardinality(bonus)
             a == 90 * m * Earned(verdicts, core) + 10 * k * Earned(verdicts, bonus)
                    - 20 * k * m * wrong
             n == 2 * k * m
  <2>1. k \in Nat /\ k > 0 /\ m \in Nat /\ m > 0
    <3> HIDE DEF core, bonus
    <3> QED BY <1>5, <1>8
  <2>2. a \in Int /\ n \in Nat /\ n > 0 /\ a <= a
    <3>1. k * m \in Nat /\ k * m > 0
      <4> HIDE DEF k, m
      <4> QED BY <2>1
    <3> HIDE DEF core, bonus, wrong, k, m
    <3> QED BY <1>4, <1>5, <2>1, <3>1
  <2>3. ChecklistScore(verdicts) = Clip(RoundDiv(a, n))
    BY <1>8 DEF ChecklistScore
  <2> HIDE DEF a, n
  <2>4. RoundDiv(a, n) \in Int
    BY <2>2, RoundDivGrows
  <2> QED BY <1>6, <2>3, <2>4
<1> QED BY <1>7, <1>8

LEMMA ResultsAreScores ==
    ASSUME NEW i \in Turns, NEW v \in FreshVerdicts(i), session \in Sessions, NEW r \in Results(i, v)
    PROVE  r.score \in 0..100 /\ (r.outcome = "SKIPPED" => r.score = 0)
<1>1. /\ \A score : Result("ANSWERED", score).score = score
      /\ \A score : Result("ANSWERED", score).outcome = "ANSWERED"
      /\ Skipped.score = 0 /\ NotGradable.score = 0
  BY DEF Result, Skipped, NotGradable
<1>2. CASE session.turns[i].checklist
  <2>1. v \in SoundBallots
    BY <1>2 DEF FreshVerdicts
  <2>2. \A p \in DOMAIN Points : Verdict[v][p].status \in Statuses
    <3> DEFINE votes == [k \in DOMAIN v |-> v[k].labels]
    <3>1. DOMAIN votes = DOMAIN v /\ \A k \in DOMAIN v : votes[k] = v[k].labels
      OBVIOUS
    <3>2. Verdict[v] = Judge(votes)
      BY <2>1 DEF Verdict
    <3> HIDE DEF votes
    <3> QED BY <2>1, <3>1, <3>2, SoundBallotsAreVotes, JudgedPoint
  <2>3. ChecklistScore(Verdict[v]) \in 0..100
    BY <2>2, ChecklistScoreTyped
  <2>4. PICK answer : r = ChecklistResult(i, v, answer)
    BY <1>2 DEF Results
  <2> QED BY <1>1, <2>3, <2>4 DEF ChecklistResult
<1>3. CASE ~ session.turns[i].checklist
  <2>1. v \in Opinions /\ r = HolisticResult(i, v)
    BY <1>3 DEF FreshVerdicts, Results
  <2>2. Clip(v.score) \in 0..100
    BY <2>1, OpinionsAssumption DEF Clip
  <2> QED BY <1>1, <2>1, <2>2 DEF HolisticResult
<1> QED BY <1>2, <1>3

Sane(r) == r.score \in 0..100 /\ (r.outcome = "SKIPPED" => r.score = 0)

(* Every result a grader holds is a score, and a skipped turn has none.     *)
Scores ==
    /\ session \in Sessions
    /\ \A g \in Graders, i \in Inputs : results[g][i] # None => Sane(results[g][i])
    /\ report # NoReport => /\ DOMAIN report.graded = Inputs
                            /\ \A i \in Inputs : Sane(report.graded[i])

LEMMA InputsAreTurns == Inputs \subseteq Turns
BY DEF Inputs

(* A grader's new result is one, and a new report is made of them.          *)
LEMMA ScoresAreKept ==
    ASSUME Inv, CachedVotes, Scores, [Next]_vars
    PROVE  Scores'
<1>0. session' = session /\ Inputs' = Inputs
  BY SessionIsGiven, SessionStays
<1>1. /\ Sane(Skipped) /\ Sane(NotGradable) /\ Sane(Asking) /\ Sane(Ungraded)
  BY DEF Sane, Skipped, NotGradable, Asking, Ungraded, Result
<1>2. ASSUME NEW g \in Graders, NEW i \in Inputs, NEW r, Sane(r),
             results' = [results EXCEPT ![g][i] = r], report' = report
      PROVE  Scores'
  <2>1. \A h \in Graders, j \in Inputs : results'[h][j] = results[h][j] \/ results'[h][j] = r
    BY <1>2, SlotEffect DEF Inv
  <2> QED BY <1>0, <1>2, <2>1 DEF Scores
<1>3. ASSUME NEW g \in Graders, Leave(g), \/ report' = report
                                          \/ Store(g)
      PROVE  Scores'
  <2>1. \A h \in Graders, j \in Inputs : results'[h][j] = results[h][j] \/ results'[h][j] = None
    BY <1>3, LeaveEffect DEF Inv
  <2>2. ASSUME Store(g)
        PROVE  DOMAIN report'.graded = Inputs /\ \A i \in Inputs : Sane(report'.graded[i])
    <3>1. report'.graded = results[g] /\ pc[g] = "storing"
      BY <2>2 DEF Store
    <3>2. DOMAIN results[g] = Inputs /\ \A i \in Inputs : results[g][i] # None
      BY <3>1 DEF Inv, Types, Concluded, AllGraded
    <3> QED BY <3>1, <3>2 DEF Scores
  <2> QED BY <1>0, <1>3, <2>1, <2>2 DEF Scores
<1>4. CASE UNCHANGED <<results, report>>
  BY <1>0, <1>4 DEF Scores
<1>5. ASSUME NEW g \in Graders, NEW i \in Inputs, StartTurn(g, i) PROVE Scores'
  <2>1. PICK r : /\ results' = [results EXCEPT ![g][i] = r]
                 /\ \/ r \in {Skipped, NotGradable, Asking}
                    \/ cache[i] # None /\ r \in Results(i, cache[i])
    BY <1>5 DEF StartTurn
  <2>2. report' = report
    BY <1>5 DEF StartTurn
  <2>3. cache[i] # None /\ r \in Results(i, cache[i]) => Sane(r)
    BY InputsAreTurns, ResultsAreScores DEF CachedVotes, Scores, Sane
  <2> QED BY <1>1, <1>2, <2>1, <2>2, <2>3
<1>6. ASSUME NEW g \in Graders, NEW i \in Inputs, GraderAnswers(g, i) PROVE Scores'
  <2>1. PICK v \in FreshVerdicts(i) : \E r \in Results(i, v) : results' = [results EXCEPT ![g][i] = r]
    BY <1>6 DEF GraderAnswers
  <2>2. PICK r \in Results(i, v) : results' = [results EXCEPT ![g][i] = r]
    BY <2>1
  <2>3. Sane(r)
    BY InputsAreTurns, ResultsAreScores DEF Scores, Sane
  <2>4. report' = report
    BY <1>6 DEF GraderAnswers
  <2> QED BY <1>2, <2>2, <2>3, <2>4
<1>7. ASSUME NEW g \in Graders, NEW i \in Inputs, GraderFails(g, i) PROVE Scores'
  <2>1. report' = report /\ (Leave(g) \/ results' = [results EXCEPT ![g][i] = Ungraded])
    BY <1>7 DEF GraderFails
  <2> QED BY <1>1, <1>2, <1>3, <2>1
<1>8. ASSUME NEW g \in Graders, ClaimRefused(g) \/ NothingToReport(g) \/ StoreRaises(g) \/ Crash(g)
      PROVE  Scores'
  <2>1. Leave(g) /\ report' = report
    BY <1>8 DEF ClaimRefused, NothingToReport, StoreRaises, Crash
  <2> QED BY <1>3, <2>1
<1>9. ASSUME NEW g \in Graders, Store(g) PROVE Scores'
  BY <1>3, <1>9 DEF Store
<1>10. ASSUME NEW g \in Graders,
              CandidateAsks(g) \/ AdminAsks(g) \/ Read(g) \/ Claim(g) \/ Conclude(g)
       PROVE  UNCHANGED <<results, report>>
  BY <1>10 DEF CandidateAsks, AdminAsks, Read, Claim, Conclude
<1>11. LeaseExpires \/ UNCHANGED vars => UNCHANGED <<results, report>>
  BY DEF LeaseExpires, vars
<1> QED BY <1>4, <1>5, <1>6, <1>7, <1>8, <1>9, <1>10, <1>11 DEF Next, Step

-----------------------------------------------------------------------------
(* One report with a skipped turn, another where it was answered.           *)

Better(graded, better) ==
    /\ DOMAIN graded = Inputs /\ DOMAIN better = Inputs
    /\ \A j \in Inputs : /\ graded[j].score \in Int /\ better[j].score \in Int
                         /\ graded[j].score <= better[j].score

LEMMA TurnsTyped ==
    ASSUME session \in Sessions
    PROVE  /\ IsFiniteSet(Turns) /\ Turns \subseteq Nat
           /\ \A i \in Turns : Weight(i) \in Nat
<1>1. PICK n \in Nat : Turns = 1..n
  BY SessionsAssumption DEF Turns
<1>2. IsFiniteSet(1..n)
  <2>1. 1 \in Int /\ n \in Int
    OBVIOUS
  <2> QED BY <2>1, FS_Interval, Zenon
<1>3. ASSUME NEW i \in Turns PROVE Weight(i) \in Nat
  <2>1. session.turns[i].weight \in Nat
    BY SessionsAssumption DEF Turns
  <2> QED BY <2>1 DEF Weight
<1> QED BY <1>1, <1>2, <1>3

LEMMA LeastIsIn ==
    ASSUME NEW S \in SUBSET Nat, S # {}
    PROVE  Min(S) \in S
<1>1. PICK x \in S : \A y \in S : ~ (<<y, x>> \in OpToRel(<, Nat))
  <2>1. S \subseteq Nat
    OBVIOUS
  <2> QED BY <2>1, NatLessThanWellFounded, WFMin, Zenon
<1>2. \A y \in S : ~ (y < x)
  BY <1>1 DEF OpToRel
<1>3. \A y \in S : x <= y
  BY <1>2
<1> QED BY <1>3 DEF Min

LEMMA MeansGrow ==
    ASSUME session \in Sessions, NEW graded, NEW better, Better(graded, better),
           NEW T \in SUBSET Inputs, T # {}
    PROVE  LET Mean(results_) == RoundDiv(10 * Total([i \in T |-> results_[i].score]), Cardinality(T))
           IN  Mean(graded) \in Int /\ Mean(better) \in Int /\ Mean(graded) <= Mean(better)
<1> DEFINE f == [i \in T |-> graded[i].score]
           g == [i \in T |-> better[i].score]
           n == Cardinality(T)
<1>1. IsFiniteSet(T) /\ n \in Nat /\ n > 0
  BY InputsAreTurns, TurnsTyped, FS_Subset, FS_CardinalityType, FS_EmptySet
<1>2. DOMAIN f = T /\ DOMAIN g = T /\ \A i \in T : f[i] \in Int /\ g[i] \in Int /\ f[i] <= g[i]
  BY DEF Better
<1> HIDE DEF f, g
<1>3. Total(f) \in Int /\ Total(g) \in Int /\ Total(f) <= Total(g)
  BY <1>1, <1>2, TotalsCompare
<1>4. 10 * Total(f) \in Int /\ 10 * Total(g) \in Int /\ 10 * Total(f) <= 10 * Total(g)
  BY <1>3
<1> HIDE DEF n
<1>5. /\ RoundDiv(10 * Total(f), n) \in Int /\ RoundDiv(10 * Total(g), n) \in Int
      /\ RoundDiv(10 * Total(f), n) <= RoundDiv(10 * Total(g), n)
  BY <1>1, <1>4, RoundDivGrows
<1> QED BY <1>5 DEF f, g, n

LEMMA OverallScoreGrows ==
    ASSUME session \in Sessions, NEW graded, NEW better, Better(graded, better),
           NEW S \in SUBSET Inputs, S # {}
    PROVE  /\ OverallScore(graded, S) \in Int /\ OverallScore(better, S) \in Int
           /\ OverallScore(graded, S) <= OverallScore(better, S)
<1> DEFINE weighed == {c \in Competencies(S) : CompetencyWeight(S, c) > 0}
           weight  == [c \in weighed |-> CompetencyWeight(S, c)]
           total   == Total(weight)
           f == [c \in weighed |-> CompetencyScore(graded, S, c) * CompetencyWeight(S, c)]
           g == [c \in weighed |-> CompetencyScore(better, S, c) * CompetencyWeight(S, c)]
<1>1. IsFiniteSet(S) /\ S \subseteq Nat
  BY InputsAreTurns, TurnsTyped, FS_Subset
<1>2. IsFiniteSet(weighed)
  <2>1. IsFiniteSet(Competencies(S))
    <3> DEFINE of == [i \in S |-> Competency(i)]
    <3>1. of \in Surjection(S, Competencies(S))
      BY DEF Competencies, Surjection
    <3> HIDE DEF of
    <3> QED BY <1>1, <3>1, FS_Surjection
  <2> QED BY <2>1, FS_Subset
<1>3. ASSUME NEW c \in weighed
      PROVE  /\ CompetencyWeight(S, c) \in Nat /\ CompetencyWeight(S, c) > 0
             /\ CompetencyScore(graded, S, c) \in Int /\ CompetencyScore(better, S, c) \in Int
             /\ CompetencyScore(graded, S, c) <= CompetencyScore(better, S, c)
  <2>1. Of(S, c) \in SUBSET Inputs /\ Of(S, c) # {} /\ Of(S, c) \in SUBSET Nat
    BY <1>1 DEF Of, Competencies
  <2>2. Min(Of(S, c)) \in Turns
    BY <2>1, LeastIsIn, InputsAreTurns
  <2>3. CompetencyWeight(S, c) \in Nat
    BY <2>2, TurnsTyped DEF CompetencyWeight
  <2>4. /\ CompetencyScore(graded, S, c) \in Int /\ CompetencyScore(better, S, c) \in Int
        /\ CompetencyScore(graded, S, c) <= CompetencyScore(better, S, c)
    BY <2>1, MeansGrow DEF CompetencyScore
  <2> QED BY <2>3, <2>4
<1>4. ASSUME NEW a \in Int, NEW b \in Int, NEW w \in Nat, a <= b
      PROVE  a * w \in Int /\ b * w \in Int /\ a * w <= b * w
  BY <1>4
<1>5. /\ DOMAIN f = weighed /\ DOMAIN g = weighed
      /\ \A c \in weighed : f[c] \in Int /\ g[c] \in Int /\ f[c] <= g[c]
  <2>1. ASSUME NEW c \in weighed PROVE f[c] \in Int /\ g[c] \in Int /\ f[c] <= g[c]
    <3>1. /\ f[c] = CompetencyScore(graded, S, c) * CompetencyWeight(S, c)
          /\ g[c] = CompetencyScore(better, S, c) * CompetencyWeight(S, c)
      OBVIOUS
    <3> HIDE DEF weighed, f, g
    <3> QED BY <1>3, <1>4, <3>1
  <2> QED BY <2>1
<1>6. DOMAIN weight = weighed /\ \A c \in weighed : weight[c] \in Int /\ weight[c] <= weight[c]
  <2>1. \A c \in weighed : CompetencyWeight(S, c) \in Int
    <3> HIDE DEF weighed
    <3> QED BY <1>3
  <2> QED BY <2>1
<1>7. /\ Total(f) \in Int /\ Total(g) \in Int /\ Total(f) <= Total(g) /\ total \in Int
  <2> HIDE DEF weighed, f, g, weight
  <2>1. Total(f) \in Int /\ Total(g) \in Int /\ Total(f) <= Total(g)
    BY <1>2, <1>5, TotalsCompare
  <2>2. Total(weight) \in Int
    BY <1>2, <1>6, TotalsCompare
  <2> QED BY <2>1, <2>2
<1>8. \A results_ : OverallScore(results_, S) =
        IF total > 0
        THEN RoundDiv(Total([c \in weighed |-> CompetencyScore(results_, S, c) * CompetencyWeight(S, c)]), total)
        ELSE RoundDiv(10 * Total([i \in S |-> results_[i].score]), Cardinality(S))
  BY DEF OverallScore
<1>9. CASE total > 0
  <2>1. OverallScore(graded, S) = RoundDiv(Total(f), total) /\ OverallScore(better, S) = RoundDiv(Total(g), total)
    BY <1>8, <1>9
  <2> HIDE DEF f, g, total
  <2> QED BY <1>7, <1>9, <2>1, RoundDivGrows
<1>10. CASE ~ (total > 0)
  <2>1. /\ OverallScore(graded, S) = RoundDiv(10 * Total([i \in S |-> graded[i].score]), Cardinality(S))
        /\ OverallScore(better, S) = RoundDiv(10 * Total([i \in S |-> better[i].score]), Cardinality(S))
    <3> HIDE DEF total, weighed
    <3> QED BY <1>8, <1>10
  <2> QED BY <2>1, MeansGrow
<1> QED BY <1>9, <1>10

LEMMA DecisionsGrow ==
    ASSUME session \in Sessions, NEW graded, NEW better, Better(graded, better),
           Scored(graded) = Scored(better), Scored(graded) # {}, Thin(graded) = Thin(better)
    PROVE  Grade[Decision(graded)] <= Grade[Decision(better)]
<1> DEFINE low  == OverallScore(graded, Scored(graded))
           high == OverallScore(better, Scored(better))
<1>1. low \in Int /\ high \in Int /\ low <= high
  <2>1. Scored(graded) \in SUBSET Inputs
    BY DEF Scored, Better
  <2> QED BY <2>1, OverallScoreGrows
<1>2. /\ Decision(graded) = IF Recommendation(low) \in Hires /\ Thin(graded)
                            THEN "CONSIDER" ELSE Recommendation(low)
      /\ Decision(better) = IF Recommendation(high) \in Hires /\ Thin(graded)
                            THEN "CONSIDER" ELSE Recommendation(high)
  BY DEF Decision
<1> HIDE DEF low, high
<1>3. /\ Grade["REJECT"] = 0 /\ Grade["CONSIDER"] = 1 /\ Grade["PASS"] = 2 /\ Grade["STRONG_PASS"] = 3
  BY DEF Grade
<1>4. ASSUME NEW x \in Int
      PROVE  /\ x >= 850 => Recommendation(x) = "STRONG_PASS"
             /\ x >= 700 /\ x < 850 => Recommendation(x) = "PASS"
             /\ x >= 500 /\ x < 700 => Recommendation(x) = "CONSIDER"
             /\ x < 500 => Recommendation(x) = "REJECT"
  BY <1>4 DEF Recommendation
<1>5. CASE low < 500
  <2>1. Decision(graded) = "REJECT"
    BY <1>1, <1>2, <1>4, <1>5 DEF Hires
  <2>2. Decision(better) \in {"REJECT", "CONSIDER", "PASS", "STRONG_PASS"}
    BY <1>1, <1>2, <1>4 DEF Hires
  <2> QED BY <1>3, <2>1, <2>2
<1>6. CASE low >= 500 /\ low < 700
  <2>1. Decision(graded) = "CONSIDER"
    BY <1>1, <1>2, <1>4, <1>6 DEF Hires
  <2>2. Decision(better) \in {"CONSIDER", "PASS", "STRONG_PASS"}
    BY <1>1, <1>2, <1>4, <1>6 DEF Hires
  <2> QED BY <1>3, <2>1, <2>2
<1>7. CASE low >= 700 /\ low < 850
  <2>1. Decision(graded) = IF Thin(graded) THEN "CONSIDER" ELSE "PASS"
    BY <1>1, <1>2, <1>4, <1>7 DEF Hires
  <2>2. Decision(better) \in IF Thin(graded) THEN {"CONSIDER"} ELSE {"PASS", "STRONG_PASS"}
    BY <1>1, <1>2, <1>4, <1>7 DEF Hires
  <2> QED BY <1>3, <2>1, <2>2
<1>8. CASE low >= 850
  <2>1. Decision(graded) = Decision(better)
    BY <1>1, <1>2, <1>4, <1>8 DEF Hires
  <2>2. Decision(better) \in {"CONSIDER", "STRONG_PASS"}
    BY <1>1, <1>2, <1>4, <1>8 DEF Hires
  <2> QED BY <1>3, <2>1, <2>2
<1> QED BY <1>1, <1>5, <1>6, <1>7, <1>8

(* An answer, the worst one included, never leads to a worse recommendation *)
(* than no answer: for every session, every grader and every report.        *)
THEOREM AnswersNeverHurt == Spec => []AnsweringNeverHurts
<1>1. Init => CachedVotes /\ Scores
  <2> SUFFICES ASSUME Init PROVE CachedVotes /\ Scores
    OBVIOUS
  <2>1. DOMAIN cache = Turns /\ \A i \in Turns : cache[i] = None
    BY DEF Init
  <2>2. report = NoReport /\ session \in Sessions
    BY DEF Init
  <2>3. \A g \in Graders, i \in Inputs : results[g][i] = None
    BY DEF Init, Nothing
  <2> QED BY <2>1, <2>2, <2>3 DEF CachedVotes, Scores
<1>2. CachedVotes /\ [Next]_vars => CachedVotes'
  BY CachedVotesAreKept
<1>3. Inv /\ CachedVotes /\ Scores /\ [Next]_vars => Scores'
  BY ScoresAreKept
<1>4. Inv /\ Scores => AnsweringNeverHurts
  <2>1. SUFFICES ASSUME Inv, Scores, report # NoReport, NEW i \in Inputs, NEW score \in {0, 50, 100},
                        report.graded[i].outcome = "SKIPPED"
                 PROVE  Grade[Decision(report.graded)]
                            <= Grade[Decision([report.graded EXCEPT ![i] = Result("ANSWERED", score)])]
    BY DEF AnsweringNeverHurts
  <2> DEFINE graded == report.graded
             better == [graded EXCEPT ![i] = Result("ANSWERED", score)]
  <2>2. DOMAIN graded = Inputs /\ \A j \in Inputs : Sane(graded[j])
    BY <2>1 DEF Scores
  <2>3. /\ DOMAIN better = Inputs
        /\ better[i].outcome = "ANSWERED" /\ better[i].score = score
        /\ \A j \in Inputs : j # i => better[j] = graded[j]
    BY <2>2 DEF Result
  <2>4. graded[i].outcome = "SKIPPED" /\ \E j \in Scored(graded) : Weight(j) > 0
    BY <2>1 DEF Inv, Stored
  <2> HIDE DEF better, graded
  <2>5. Better(graded, better)
    BY <2>2, <2>3, <2>4 DEF Better, Sane
  <2>6. Scored(graded) = Scored(better)
    BY <2>2, <2>3, <2>4 DEF Scored
  <2>7. /\ {j \in DOMAIN graded : graded[j].outcome = "NOT_GRADABLE"}
             = {j \in DOMAIN better : better[j].outcome = "NOT_GRADABLE"}
        /\ {j \in DOMAIN graded : graded[j].outcome # "NOT_GRADABLE"}
             = {j \in DOMAIN better : better[j].outcome # "NOT_GRADABLE"}
    BY <2>2, <2>3, <2>4
  <2>8. Thin(graded) = Thin(better)
    BY <2>7 DEF Thin, UncoveredIn
  <2>9. Grade[Decision(graded)] <= Grade[Decision(better)]
    BY <2>1, <2>4, <2>5, <2>6, <2>8, DecisionsGrow DEF Scores
  <2> QED BY <2>9 DEF graded, better
<1> QED BY <1>1, <1>2, <1>3, <1>4, AlwaysInv, PTL DEF Spec
=============================================================================

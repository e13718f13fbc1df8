--------------------------- MODULE CvParsing_proofs ---------------------------
(***************************************************************************)
(* What TLAPS proves of CvParsing for any number of workers, requests and  *)
(* retries: the types, and the safety properties under the faults that     *)
(* leave them true.                                                        *)
(***************************************************************************)
EXTENDS CvParsing, TLAPS

-----------------------------------------------------------------------------
(* Types.                                                                   *)

(* A retry that was decided on has a number left.                           *)
RetryLeft == \A w \in Workers : pc[w] = "retry" => tries[w] < MaxRetries

Typed == TypeOK /\ RetryLeft

LEMMA InitTyped == Init => Typed
  BY MaxRetriesAssumption, SMT DEF Init, Typed, TypeOK, RetryLeft, Retries

(* Mark writes one of the statuses of the row.                              *)
LEMMA MarkTyped ==
  ASSUME NEW s \in {"PENDING", "PARSING", "DONE", "FAILED"}, TypeOK, Mark(s)
  PROVE  /\ status' \in {"ABSENT", "PENDING", "PARSING", "DONE", "FAILED", "GONE"}
         /\ fresh' \in BOOLEAN
  BY DEF Mark, TypeOK

LEMMA HappensTyped ==
  ASSUME NEW f, happened \subseteq Faults, Happens(f)
  PROVE  happened' \subseteq Faults
  BY DEF Happens

LEMMA RequestTyped ==
  ASSUME Typed, NEW a \in Requests, Request(a)
  PROVE  Typed'
<1> USE MaxRetriesAssumption DEF Typed, TypeOK, RetryLeft, Retries, workerVars
<1>1. CASE Upload(a)
  BY <1>1, MarkTyped DEF Upload
<1>2. CASE Reparse(a)
  BY <1>2, MarkTyped DEF Reparse
<1>3. CASE Publish(a)
  BY <1>3 DEF Publish
<1>4. CASE PublishRaises(a)
  <2>1. happened' \subseteq Faults
    BY <1>4, HappensTyped DEF PublishRaises
  <2> QED
    BY <1>4, <2>1 DEF PublishRaises
<1>5. CASE MarkDispatchFailed(a)
  BY <1>5, MarkTyped DEF MarkDispatchFailed
<1>6. CASE RequestDies(a)
  BY <1>6, HappensTyped DEF RequestDies
<1> QED
  BY <1>1, <1>2, <1>3, <1>4, <1>5, <1>6 DEF Request

LEMMA RunTyped ==
  ASSUME Typed, NEW w \in Workers, Run(w) \/ WorkerDies(w)
  PROVE  Typed'
<1> USE MaxRetriesAssumption DEF Typed, TypeOK, RetryLeft, Retries, workerVars
<1>1. ASSUME NEW k \in Retries, Claim(w, k)
      PROVE  Typed'
  <2>1. /\ status' \in {"ABSENT", "PENDING", "PARSING", "DONE", "FAILED", "GONE"}
        /\ fresh' \in BOOLEAN
    BY <1>1, MarkTyped DEF Claim
  <2>2. /\ queue' \in [Retries -> Nat]
        /\ pc' \in [Workers -> {"idle", "parse", "retry", "ack"}]
        /\ tries' \in [Workers -> Retries]
        /\ api' = api
        /\ happened' = happened
    BY <1>1 DEF Claim, Take
  <2>3. RetryLeft'
    BY <1>1 DEF Claim
  <2> QED
    BY <2>1, <2>2, <2>3
<1>2. ASSUME NEW k \in Retries, NotClaimed(w, k)
      PROVE  Typed'
  BY <1>2 DEF NotClaimed, Take
<1>3. ASSUME NEW k \in Retries, SetupFails(w, k)
      PROVE  Typed'
  <2>1. happened' \subseteq Faults
    BY <1>3, HappensTyped DEF SetupFails
  <2>2. queue' \in [Retries -> Nat]
    BY <1>3 DEF SetupFails, Take
  <2> QED
    BY <1>3, <2>1, <2>2 DEF SetupFails
<1>4. CASE Complete(w)
  BY <1>4, MarkTyped DEF Complete
<1>5. CASE Fail(w)
  BY <1>5, MarkTyped DEF Fail
<1>6. CASE SaveFails(w)
  BY <1>6, HappensTyped DEF SaveFails
<1>7. CASE Release(w)
  BY <1>7, MarkTyped DEF Release
<1>8. CASE Retry(w)
  BY <1>8 DEF Retry
<1>9. CASE Acknowledge(w)
  BY <1>9 DEF Acknowledge
<1>10. CASE WorkerDies(w)
  <2>1. happened' \subseteq Faults
    BY <1>10, HappensTyped DEF WorkerDies
  <2> QED
    BY <1>10, <2>1 DEF WorkerDies
<1> QED
  BY <1>1, <1>2, <1>3, <1>4, <1>5, <1>6, <1>7, <1>8, <1>9, <1>10 DEF Run

LEMMA TypedStep == Typed /\ [Next]_vars => Typed'
<1> SUFFICES ASSUME Typed, [Next]_vars
             PROVE  Typed'
  OBVIOUS
<1>1. CASE \E a \in Requests : Request(a)
  BY <1>1, RequestTyped
<1>2. CASE \E w \in Workers : Run(w) \/ WorkerDies(w)
  BY <1>2, RunTyped
<1>3. CASE Delete
  BY <1>3 DEF Delete, Typed, TypeOK, RetryLeft, workerVars
<1>4. CASE GoStale
  BY <1>4, HappensTyped DEF GoStale, Typed, TypeOK, RetryLeft, workerVars
<1>5. CASE UNCHANGED vars
  BY <1>5 DEF vars, Typed, TypeOK, RetryLeft
<1> QED
  BY <1>1, <1>2, <1>3, <1>4, <1>5 DEF Next

(* Every variable keeps its type, and no task is retried more often than    *)
(* max_retries, whatever fails.                                             *)
THEOREM TypeCorrect == Spec => []TypeOK
<1>1. Typed => TypeOK
  BY DEF Typed
<1> QED
  BY <1>1, InitTyped, TypedStep, PTL DEF Spec

-----------------------------------------------------------------------------
(* What has happened stays so.                                              *)

LEMMA RequestFaults ==
  ASSUME NEW a \in Requests, Request(a)
  PROVE  happened \subseteq happened'
  BY DEF Request, Upload, Reparse, Publish, PublishRaises, MarkDispatchFailed, RequestDies,
         Happens

LEMMA RunFaults ==
  ASSUME NEW w \in Workers, Run(w) \/ WorkerDies(w)
  PROVE  happened \subseteq happened'
  BY DEF Run, Claim, NotClaimed, SetupFails, Complete, Fail, SaveFails, Release, Retry,
         Acknowledge, WorkerDies, Happens

LEMMA FaultsStay == [Next]_vars => happened \subseteq happened'
<1> SUFFICES ASSUME [Next]_vars
             PROVE  happened \subseteq happened'
  OBVIOUS
<1>1. CASE \E a \in Requests : Request(a)
  BY <1>1, RequestFaults
<1>2. CASE \E w \in Workers : Run(w) \/ WorkerDies(w)
  BY <1>2, RunFaults
<1>3. CASE Delete
  BY <1>3 DEF Delete
<1>4. CASE GoStale
  BY <1>4 DEF GoStale, Happens
<1>5. CASE UNCHANGED vars
  BY <1>5 DEF vars
<1> QED
  BY <1>1, <1>2, <1>3, <1>4, <1>5 DEF Next

-----------------------------------------------------------------------------
(* No task of a PENDING row is lost, as long as requests and the setup of   *)
(* an attempt do not fail.                                                  *)

Kept == Typed /\ PendingIsInFlight

LEMMA KeptStep ==
  ASSUME Kept, [Next]_vars
  PROVE  Kept'
<1>1. Typed'
  BY TypedStep DEF Kept
<1> SUFFICES ASSUME "api" \notin happened', "setup" \notin happened', status' = "PENDING"
             PROVE  \/ \E k \in Retries : queue'[k] > 0
                    \/ Publishing' # {}
                    \/ \E v \in Workers : pc'[v] = "retry"
  BY <1>1 DEF Kept, PendingIsInFlight, Never
<1>0. Never({"api", "setup"})
  BY FaultsStay DEF Never
<1> USE MaxRetriesAssumption, <1>0 DEF Kept, Typed, TypeOK, RetryLeft, PendingIsInFlight,
        Retries, Publishing, workerVars
<1>2. ASSUME NEW a \in Requests, Request(a)
      PROVE  \/ \E k \in Retries : queue'[k] > 0
             \/ Publishing' # {}
             \/ \E v \in Workers : pc'[v] = "retry"
  <2>1. CASE Upload(a) \/ Reparse(a)
    BY <2>1 DEF Upload, Reparse
  <2>2. CASE Publish(a)
    <3>1. queue'[0] > 0
      BY <2>2 DEF Publish
    <3> QED
      BY <3>1
  <2>3. CASE PublishRaises(a)
    BY <2>3 DEF PublishRaises
  <2>4. CASE MarkDispatchFailed(a)
    BY <2>4 DEF MarkDispatchFailed, Mark
  <2>5. CASE RequestDies(a)
    BY <2>5 DEF RequestDies, Happens
  <2> QED
    BY <1>2, <2>1, <2>2, <2>3, <2>4, <2>5 DEF Request
<1>3. ASSUME NEW w \in Workers, Run(w) \/ WorkerDies(w)
      PROVE  \/ \E k \in Retries : queue'[k] > 0
             \/ Publishing' # {}
             \/ \E v \in Workers : pc'[v] = "retry"
  <2>1. ASSUME NEW k \in Retries, Claim(w, k)
        PROVE  FALSE
    BY <2>1 DEF Claim, Mark
  <2>2. ASSUME NEW k \in Retries, NotClaimed(w, k)
        PROVE  FALSE
    BY <2>2 DEF NotClaimed, Claimable
  <2>3. ASSUME NEW k \in Retries, SetupFails(w, k)
        PROVE  FALSE
    BY <2>3 DEF SetupFails, Happens
  <2>4. CASE Complete(w) \/ Fail(w)
    BY <2>4 DEF Complete, Fail, Mark
  <2>5. CASE SaveFails(w)
    BY <2>5 DEF SaveFails
  <2>6. CASE Release(w)
    BY <2>6 DEF Release
  <2>7. CASE Retry(w)
    <3>1. queue'[tries[w] + 1] > 0 /\ tries[w] + 1 \in Retries
      BY <2>7 DEF Retry
    <3> QED
      BY <3>1
  <2>8. CASE Acknowledge(w)
    BY <2>8 DEF Acknowledge
  <2>9. CASE WorkerDies(w)
    <3>1. queue'[tries[w]] > 0 /\ tries[w] \in Retries
      BY <2>9 DEF WorkerDies
    <3> QED
      BY <3>1
  <2> QED
    BY <1>3, <2>1, <2>2, <2>3, <2>4, <2>5, <2>6, <2>7, <2>8, <2>9 DEF Run
<1>4. CASE Delete
  BY <1>4 DEF Delete
<1>5. CASE GoStale
  BY <1>5 DEF GoStale
<1>6. CASE UNCHANGED vars
  BY <1>6 DEF vars
<1> QED
  BY <1>2, <1>3, <1>4, <1>5, <1>6 DEF Next

(* A PENDING row, which refuses every request for another parse, always has *)
(* a task or a request that will settle it, although workers die, attempts  *)
(* outlast their claim and publishing raises, until a request or the setup  *)
(* of an attempt dies.                                                      *)
THEOREM TasksAreNotLost == Spec => []PendingIsInFlight
<1>1. Init => Kept
  BY InitTyped DEF Kept, PendingIsInFlight, Init
<1>2. Kept /\ [Next]_vars => Kept'
  BY KeptStep
<1>3. Kept => PendingIsInFlight
  BY DEF Kept
<1> QED
  BY <1>1, <1>2, <1>3, PTL DEF Spec

-----------------------------------------------------------------------------
(* One parser at a time, as long as an attempt ends within the 15 minutes   *)
(* of its claim and publishing does not raise: a worker that parses owns a  *)
(* row that is PARSING and fresh, or was deleted.                           *)

Owned == \A w \in Parsing : status = "GONE" \/ (status = "PARSING" /\ fresh)

NoUndo == \A a \in Requests : api[a] # "undo"

Single == \A v, w \in Parsing : v = w

Calm == Owned /\ Single /\ NoUndo

Held == Typed /\ (Never({"slow", "broker"}) => Calm)

LEMMA RequestHeld ==
  ASSUME "broker" \notin happened', Typed, Calm, NEW a \in Requests, Request(a)
  PROVE  Calm'
<1> USE DEF Calm, Typed, TypeOK, Owned, Single, NoUndo, Parsing, workerVars
<1>1. CASE Upload(a)
  BY <1>1 DEF Upload, Mark
<1>2. CASE Reparse(a)
  BY <1>2 DEF Reparse, Reparsable, Mark
<1>3. CASE Publish(a)
  BY <1>3 DEF Publish
<1>4. CASE PublishRaises(a)
  BY <1>4 DEF PublishRaises, Happens
<1>5. CASE MarkDispatchFailed(a)
  BY <1>5 DEF MarkDispatchFailed
<1>6. CASE RequestDies(a)
  BY <1>6 DEF RequestDies
<1> QED
  BY <1>1, <1>2, <1>3, <1>4, <1>5, <1>6 DEF Request

LEMMA RunHeld ==
  ASSUME Typed, Calm, NEW w \in Workers, Run(w) \/ WorkerDies(w)
  PROVE  Calm'
<1> USE DEF Calm, Typed, TypeOK, Owned, Single, NoUndo, Parsing, workerVars
<1>1. ASSUME NEW k \in Retries, Claim(w, k)
      PROVE  Calm'
  <2>1. Parsing = {}
    BY <1>1 DEF Claim, Claimable
  <2>2. Parsing' = {w}
    BY <1>1, <2>1 DEF Claim
  <2>3. status' = "PARSING" /\ fresh' = TRUE /\ api' = api
    BY <1>1 DEF Claim, Claimable, Mark
  <2> QED
    BY <2>2, <2>3
<1>2. ASSUME NEW k \in Retries, NotClaimed(w, k)
      PROVE  Calm'
  BY <1>2 DEF NotClaimed
<1>3. ASSUME NEW k \in Retries, SetupFails(w, k)
      PROVE  Calm'
  BY <1>3 DEF SetupFails
<1>4. CASE Complete(w) \/ Fail(w) \/ Release(w)
  <2>1. Parsing' = {} /\ api' = api
    BY <1>4 DEF Complete, Fail, Release
  <2> QED
    BY <2>1
<1>5. CASE SaveFails(w)
  BY <1>5 DEF SaveFails
<1>6. CASE Retry(w)
  BY <1>6 DEF Retry
<1>7. CASE Acknowledge(w)
  BY <1>7 DEF Acknowledge
<1>8. CASE WorkerDies(w)
  BY <1>8 DEF WorkerDies
<1> QED
  BY <1>1, <1>2, <1>3, <1>4, <1>5, <1>6, <1>7, <1>8 DEF Run

LEMMA HeldStep ==
  ASSUME Held, [Next]_vars
  PROVE  Held'
<1>1. Typed'
  BY TypedStep DEF Held
<1>2. ASSUME "slow" \notin happened', "broker" \notin happened'
      PROVE  Calm'
  <2>1. Typed /\ Calm
    BY <1>2, FaultsStay DEF Held, Never
  <2> USE DEF Calm, Owned, Single, NoUndo, Parsing, workerVars
  <2>2. CASE \E a \in Requests : Request(a)
    BY <1>2, <2>1, <2>2, RequestHeld
  <2>3. CASE \E w \in Workers : Run(w) \/ WorkerDies(w)
    BY <2>1, <2>3, RunHeld
  <2>4. CASE Delete
    BY <2>1, <2>4 DEF Delete
  <2>5. CASE GoStale
    BY <1>2, <2>1, <2>5 DEF GoStale, Happens
  <2>6. CASE UNCHANGED vars
    BY <2>1, <2>6 DEF vars
  <2> QED
    BY <2>2, <2>3, <2>4, <2>5, <2>6 DEF Next
<1> QED
  BY <1>1, <1>2 DEF Held, Never

LEMMA HeldAlways == Spec => []Held
<1>1. Init => Held
  BY InitTyped DEF Held, Calm, Owned, Single, NoUndo, Parsing, Init
<1>2. Held /\ [Next]_vars => Held'
  BY HeldStep
<1> QED
  BY <1>1, <1>2, PTL DEF Spec

(* However often the task of a CV is delivered, retried or asked for again, *)
(* and whichever worker, request or setup dies, one worker parses at a time *)
(* until an attempt outlasts its claim or publishing raises.                *)
THEOREM OneParserAtATime == Spec => []OneParser
<1>1. Held => OneParser
  BY DEF Held, Calm, Single, OneParser
<1> QED
  BY <1>1, HeldAlways, PTL

(* Under the same faults no redelivery, retry or late attempt undoes a      *)
(* parse that is DONE: only a request for another one or a deletion does.   *)
THEOREM DoneIsKept == Spec => DoneStands
<1>1. Held /\ [Next]_vars
        => [Never({"slow", "broker"}) /\ status = "DONE" /\ status' # "DONE"
              => Delete \/ \E a \in Requests : Reparse(a)]_vars
  <2> SUFFICES ASSUME Held, Next, Never({"slow", "broker"}), status = "DONE", status' # "DONE"
               PROVE  Delete \/ \E a \in Requests : Reparse(a)
    BY DEF vars
  <2>0. Calm
    BY DEF Held
  <2> USE <2>0 DEF Calm, Owned, NoUndo, Parsing, workerVars
  <2>1. ASSUME NEW a \in Requests, Request(a)
        PROVE  Reparse(a)
    BY <2>1 DEF Request, Upload, Publish, PublishRaises, MarkDispatchFailed, RequestDies
  <2>2. ASSUME NEW w \in Workers, Run(w) \/ WorkerDies(w)
        PROVE  FALSE
    BY <2>2 DEF Run, Claim, NotClaimed, SetupFails, Complete, Fail, SaveFails, Release,
                Retry, Acknowledge, WorkerDies, Claimable
  <2>3. CASE GoStale
    BY <2>3 DEF GoStale
  <2> QED
    BY <2>1, <2>2, <2>3 DEF Next
<1> QED
  BY <1>1, HeldAlways, PTL DEF DoneStands, Spec

=============================================================================

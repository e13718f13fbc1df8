------------------------------- MODULE CvParsing -------------------------------
(***************************************************************************)
(* The parse of one CV in the background: its row in user_cvs, the tasks   *)
(* in the queue, the workers that run them and the requests that publish   *)
(* them.                                                                   *)
(*                                                                         *)
(*   upload_service.py, review_service.py, admin_reparse.py   the requests *)
(*   parsing/application/pipeline.py, workers/tasks/cv.py     one attempt  *)
(*   parsing/infrastructure/repository.py                     the row      *)
(*                                                                         *)
(* The queue delivers at least once: a task is acknowledged when it ended, *)
(* well or badly (task_acks_late), and delivered again when its worker     *)
(* dies (task_reject_on_worker_lost).  A task that times out before its    *)
(* last attempt is published again with one retry more (autoretry_for).    *)
(*                                                                         *)
(*   Workers     the worker processes                                      *)
(*   Requests    the requests the API can be handling at the same time     *)
(*   MaxRetries  how often a task is retried (max_retries)                 *)
(*   MaxTasks    bound: tasks under way when one more may appear           *)
(*   Faults      what may go wrong:                                        *)
(*     "worker"  a worker process dies                                     *)
(*     "api"     an API process dies between its commit and the publishing *)
(*     "broker"  publishing raises, whether or not the task was enqueued   *)
(*     "setup"   an attempt fails before it claims the row                 *)
(*     "save"    neither the result nor the failure can be stored          *)
(*     "slow"    an attempt outlasts the 15 minutes of a claim, as one     *)
(*               does that waits for both OCR providers (300 s and 600 s)  *)
(*               and for the model                                         *)
(***************************************************************************)
EXTENDS Integers, FiniteSets, FiniteSetsExt

CONSTANTS Workers, Requests, MaxRetries, MaxTasks, Faults

ASSUME MaxRetriesAssumption == MaxRetries \in Nat

ASSUME MaxTasksAssumption == MaxTasks \in Nat

ASSUME FaultsAssumption == Faults \subseteq {"worker", "api", "broker", "setup", "save", "slow"}

VARIABLES
    status,   \* user_cvs.status, "ABSENT" before the upload and "GONE" after a deletion
    fresh,    \* updated_at is less than 15 minutes old
    queue,    \* how many tasks wait, by the number of their retries
    pc,       \* what each worker is doing
    tries,    \* the retries of the task it holds
    api,      \* what each request is doing
    happened  \* the faults that have happened

vars == <<status, fresh, queue, pc, tries, api, happened>>

workerVars == <<pc, tries>>

-----------------------------------------------------------------------------

Retries == 0..MaxRetries

TypeOK ==
    /\ status \in {"ABSENT", "PENDING", "PARSING", "DONE", "FAILED", "GONE"}
    /\ fresh \in BOOLEAN
    /\ queue \in [Retries -> Nat]
    /\ pc \in [Workers -> {"idle", "parse", "retry", "ack"}]
    /\ tries \in [Workers -> Retries]
    /\ api \in [Requests -> {"idle", "publish", "undo"}]
    /\ happened \subseteq Faults

Init ==
    /\ status = "ABSENT"
    /\ fresh = TRUE
    /\ queue = [k \in Retries |-> 0]
    /\ pc = [w \in Workers |-> "idle"]
    /\ tries = [w \in Workers |-> 0]
    /\ api = [a \in Requests |-> "idle"]
    /\ happened = {}

(* A fault that may happen does.                                            *)
Happens(f) == f \in Faults /\ happened' = happened \cup {f}

Never(fs) == happened \cap fs = {}

Publishing == {a \in Requests : api[a] # "idle"}

Holding == {w \in Workers : pc[w] # "idle"}

UnderWay ==
    SumFunction(queue) + Cardinality(Holding) + Cardinality(Publishing)

(* UPDATE ... WHERE id = :id: nothing is left to update after a deletion.   *)
Mark(s) ==
    /\ status' = IF status = "GONE" THEN "GONE" ELSE s
    /\ fresh' = TRUE

-----------------------------------------------------------------------------
(* The requests.                                                            *)

Upload(a) ==
    /\ api[a] = "idle"
    /\ status = "ABSENT"
    /\ Mark("PENDING")
    /\ api' = [api EXCEPT ![a] = "publish"]
    /\ UNCHANGED <<queue, workerVars, happened>>

(* What queue_reparse_owned accepts.                                        *)
Reparsable == status \in {"DONE", "FAILED"} \/ (status = "PARSING" /\ ~ fresh)

(* The owner's and the admin's request for another parse.                   *)
Reparse(a) ==
    /\ api[a] = "idle"
    /\ UnderWay < MaxTasks
    /\ Reparsable
    /\ Mark("PENDING")
    /\ api' = [api EXCEPT ![a] = "publish"]
    /\ UNCHANGED <<queue, workerVars, happened>>

Publish(a) ==
    /\ api[a] = "publish"
    /\ queue' = [queue EXCEPT ![0] = @ + 1]
    /\ api' = [api EXCEPT ![a] = "idle"]
    /\ UNCHANGED <<status, fresh, workerVars, happened>>

PublishRaises(a) ==
    /\ Happens("broker")
    /\ api[a] = "publish"
    /\ queue' \in {queue, [queue EXCEPT ![0] = @ + 1]}
    /\ api' = [api EXCEPT ![a] = "undo"]
    /\ UNCHANGED <<status, fresh, workerVars>>

(* mark_dispatch_failed.                                                    *)
MarkDispatchFailed(a) ==
    /\ api[a] = "undo"
    /\ Mark("FAILED")
    /\ api' = [api EXCEPT ![a] = "idle"]
    /\ UNCHANGED <<queue, workerVars, happened>>

RequestDies(a) ==
    /\ Happens("api")
    /\ api[a] # "idle"
    /\ api' = [api EXCEPT ![a] = "idle"]
    /\ UNCHANGED <<status, fresh, queue, workerVars>>

Delete ==
    /\ status \notin {"ABSENT", "GONE"}
    /\ status' = "GONE"
    /\ UNCHANGED <<fresh, queue, workerVars, api, happened>>

-----------------------------------------------------------------------------
(* The workers.                                                             *)

Take(k) == queue[k] > 0 /\ queue' = [queue EXCEPT ![k] = @ - 1]

(* Variants: a finished parse can be claimed; a claim does not age.         *)
ClaimableWhenDone == status \in {"PENDING", "FAILED", "DONE"} \/ (status = "PARSING" /\ ~ fresh)

ClaimableAnyTime == status \in {"PENDING", "FAILED", "PARSING"}

(* claim: a PARSING row untouched for 15 minutes can be taken over.         *)
Claimable == status \in {"PENDING", "FAILED"} \/ (status = "PARSING" /\ ~ fresh)

Claim(w, k) ==
    /\ pc[w] = "idle"
    /\ Claimable
    /\ Take(k)
    /\ Mark("PARSING")
    /\ pc' = [pc EXCEPT ![w] = "parse"]
    /\ tries' = [tries EXCEPT ![w] = k]
    /\ UNCHANGED <<api, happened>>

(* The task ends as "not_claimed" and is acknowledged.                      *)
NotClaimed(w, k) ==
    /\ pc[w] = "idle"
    /\ ~ Claimable
    /\ Take(k)
    /\ UNCHANGED <<status, fresh, workerVars, api, happened>>

(* An exception before the claim (the taxonomy cannot be loaded) ends the   *)
(* task, a timeout before its last attempt publishes it again; the row      *)
(* keeps its status.                                                        *)
SetupFails(w, k) ==
    /\ Happens("setup")
    /\ pc[w] = "idle"
    /\ Take(k)
    /\ \E next \in IF k < MaxRetries THEN {"ack", "retry"} ELSE {"ack"} :
          pc' = [pc EXCEPT ![w] = next]
    /\ tries' = [tries EXCEPT ![w] = k]
    /\ UNCHANGED <<status, fresh, api>>

Complete(w) ==
    /\ pc[w] = "parse"
    /\ Mark("DONE")
    /\ pc' = [pc EXCEPT ![w] = "ack"]
    /\ UNCHANGED <<queue, tries, api, happened>>

(* Any exception but a timeout, or a timeout of the last attempt.           *)
Fail(w) ==
    /\ pc[w] = "parse"
    /\ Mark("FAILED")
    /\ pc' = [pc EXCEPT ![w] = "ack"]
    /\ UNCHANGED <<queue, tries, api, happened>>

(* An exception of the database: the transaction is aborted, so marking the *)
(* row as failed raises too, and the task ends all the same.                *)
SaveFails(w) ==
    /\ Happens("save")
    /\ pc[w] = "parse"
    /\ pc' = [pc EXCEPT ![w] = "ack"]
    /\ UNCHANGED <<status, fresh, queue, tries, api>>

(* Variant: the last attempt is released as well.                           *)
ReleaseEveryAttempt(w) ==
    /\ pc[w] = "parse"
    /\ IF status = "PARSING" THEN Mark("PENDING") ELSE UNCHANGED <<status, fresh>>
    /\ pc' = [pc EXCEPT ![w] = "retry"]
    /\ UNCHANGED <<queue, tries, api, happened>>

(* A timeout with a retry still to come: only a PARSING row is released.    *)
Release(w) ==
    /\ pc[w] = "parse"
    /\ tries[w] < MaxRetries
    /\ IF status = "PARSING" THEN Mark("PENDING") ELSE UNCHANGED <<status, fresh>>
    /\ pc' = [pc EXCEPT ![w] = "retry"]
    /\ UNCHANGED <<queue, tries, api, happened>>

(* Variant: the retry does not count.                                       *)
RetryUncounted(w) ==
    /\ pc[w] = "retry"
    /\ queue' = [queue EXCEPT ![tries[w]] = @ + 1]
    /\ pc' = [pc EXCEPT ![w] = "ack"]
    /\ UNCHANGED <<status, fresh, tries, api, happened>>

Retry(w) ==
    /\ pc[w] = "retry"
    /\ queue' = [queue EXCEPT ![tries[w] + 1] = @ + 1]
    /\ pc' = [pc EXCEPT ![w] = "ack"]
    /\ UNCHANGED <<status, fresh, tries, api, happened>>

Acknowledge(w) ==
    /\ pc[w] = "ack"
    /\ pc' = [pc EXCEPT ![w] = "idle"]
    /\ tries' = [tries EXCEPT ![w] = 0]
    /\ UNCHANGED <<status, fresh, queue, api, happened>>

(* The task of a dead worker is delivered again, also when the attempt had  *)
(* ended or its retry was published.                                        *)
WorkerDies(w) ==
    /\ Happens("worker")
    /\ pc[w] # "idle"
    /\ pc[w] = "ack" => UnderWay <= MaxTasks
    /\ queue' = [queue EXCEPT ![tries[w]] = @ + 1]
    /\ pc' = [pc EXCEPT ![w] = "idle"]
    /\ tries' = [tries EXCEPT ![w] = 0]
    /\ UNCHANGED <<status, fresh, api>>

-----------------------------------------------------------------------------
(* Fifteen minutes pass without an update of the row.                       *)

Parsing == {w \in Workers : pc[w] = "parse"}

GoStale ==
    /\ status = "PARSING"
    /\ fresh
    /\ IF Parsing = {} THEN UNCHANGED happened ELSE Happens("slow")
    /\ fresh' = FALSE
    /\ UNCHANGED <<status, queue, workerVars, api>>

-----------------------------------------------------------------------------

Request(a) ==
    \/ Upload(a) \/ Reparse(a)
    \/ Publish(a) \/ PublishRaises(a) \/ MarkDispatchFailed(a) \/ RequestDies(a)

Run(w) ==
    \/ \E k \in Retries : Claim(w, k) \/ NotClaimed(w, k) \/ SetupFails(w, k)
    \/ Complete(w) \/ Fail(w) \/ SaveFails(w) \/ Release(w) \/ Retry(w) \/ Acknowledge(w)

Next ==
    \/ \E a \in Requests : Request(a)
    \/ \E w \in Workers : Run(w) \/ WorkerDies(w)
    \/ Delete
    \/ GoStale

Spec == Init /\ [][Next]_vars

-----------------------------------------------------------------------------

(* A CV is parsed by one worker at a time, however often its task is        *)
(* delivered, retried or requested again (claim, release), until an attempt *)
(* outlasts its claim or publishing raises.                                 *)
OneParser == Never({"slow", "broker"}) => \A v, w \in Parsing : v = w

(* A finished parse stays finished until its owner asks for another one or  *)
(* deletes the CV: no redelivered task and no retry undoes it, until an     *)
(* attempt outlasts its claim or publishing raises.                         *)
DoneStands ==
    [][Never({"slow", "broker"}) /\ status = "DONE" /\ status' # "DONE"
         => Delete \/ \E a \in Requests : Reparse(a)]_vars

(* "Anything else is still in flight" (admin_reparse): a PENDING row, which *)
(* no request for another parse accepts, has a task that will be run, or a  *)
(* request that will publish it or mark the row as failed, until a request  *)
(* or the setup of an attempt dies.                                         *)
PendingIsInFlight ==
    Never({"api", "setup"}) /\ status = "PENDING" =>
        \/ \E k \in Retries : queue[k] > 0
        \/ Publishing # {}
        \/ \E w \in Workers : pc[w] = "retry"

-----------------------------------------------------------------------------
(* Liveness: the workers are never all busy forever, and a request that     *)
(* wrote the row goes on to publish.  Each attempt ends, because every call *)
(* it waits for has a timeout.                                              *)

Fairness ==
    /\ \A w \in Workers : WF_vars(Run(w))
    /\ \A a \in Requests : WF_vars(Publish(a) \/ PublishRaises(a))
    /\ \A a \in Requests : WF_vars(MarkDispatchFailed(a))
    /\ WF_vars(GoStale)

LiveSpec == Spec /\ Fairness

(* Nobody waits forever for a parse: it ends, or the row becomes one whose  *)
(* owner may ask again.  Retries come to an end, and no task is lost while  *)
(* the row is PENDING, which no request for another parse accepts, unless a *)
(* request or the setup of an attempt dies, or workers die without end.     *)
WaitEnds ==
    []Never({"api", "setup"}) /\ <>[][\A w \in Workers : ~ WorkerDies(w)]_vars
        => (status = "PENDING" ~> Reparsable \/ status = "GONE")

=============================================================================

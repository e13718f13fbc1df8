------------------------------ MODULE JdVersions ------------------------------
(***************************************************************************)
(* Job descriptions from the upload of a document to the publishing of     *)
(* one version after another: the rows of job_descriptions, which hold     *)
(* both the uploads and the jobs made of them, the rows of                 *)
(* job_description_versions, the parse tasks and the workers.              *)
(*                                                                         *)
(*   job_descriptions/router.py              the administrators' requests  *)
(*   workers/tasks/job_description.py        one attempt at a task         *)
(*   job_descriptions/parsing/application, parsing/infrastructure          *)
(*                                                                         *)
(* A request is one transaction.  Those that read an upload before they    *)
(* write it (finalize) are two steps; a task is published after the commit *)
(* of the row it is for.  What a document says is one of Contents.         *)
(*                                                                         *)
(*   Rows        the ids of uploads and jobs                               *)
(*   Versions    the ids of versions                                       *)
(*   Contents    what a parse, or an administrator, makes of a document    *)
(*   Workers     the worker processes                                      *)
(*   MaxRetries  how often a task is retried (max_retries)                 *)
(*   MaxTasks    bound: tasks under way when a request may add one         *)
(*   Faults      what may go wrong:                                        *)
(*     "worker"  a worker process dies                                     *)
(*     "api"     a request dies, or publishing raises, after the commit    *)
(*     "setup"   an attempt fails before it claims the upload              *)
(*     "slow"    an attempt outlasts the 15 minutes of a claim             *)
(***************************************************************************)
EXTENDS Integers, FiniteSets, Bags

CONSTANTS Rows, Versions, Contents, Workers, MaxRetries, MaxTasks, Faults

NoRow == "no row"

Deleted == "deleted"

NoVersion == "no version"

NoContent == "no content"

ASSUME NamesAssumption ==
    {NoRow, Deleted} \cap Rows = {} /\ NoVersion \notin Versions /\ NoContent \notin Contents

ASSUME BoundsAssumption == MaxRetries \in Nat /\ MaxTasks \in Nat

ASSUME FaultsAssumption == Faults \subseteq {"worker", "api", "setup", "slow"}

VARIABLES
    row,         \* the rows of job_descriptions
    version,     \* the rows of job_description_versions
    queue,       \* the bag of the tasks that wait
    unsent,      \* tasks of committed requests that are not published yet
    finalizing,  \* uploads a request to finalize has read
    pc,          \* what each worker is doing
    task,        \* the task it holds
    again,       \* history: uploads whose parse was asked for again, or never sent
    twice        \* history: versions whose task was delivered a second time

workerVars == <<pc, task>>

history == <<again, twice>>

vars == <<row, version, queue, unsent, finalizing, workerVars, history>>

-----------------------------------------------------------------------------

(* listing_status, which "status" repeats once a row is a job.              *)
Listings == {"ACTIVE", "DRAFT"}

Row ==
    [item: {"NONE", "JD_UPLOAD", "JOB_DESCRIPTION", "GONE"},
     status: {"PENDING", "PARSING", "DONE", "FAILED"} \cup Listings,
     fresh: BOOLEAN,                      \* updated less than 15 minutes ago
     content: Contents \cup {NoContent},  \* structured_data
     active: Versions \cup {NoVersion}]   \* active_version_id

Version ==
    [job: Rows \cup {NoRow, Deleted},     \* NoRow: not created yet
     source: Rows \cup {NoRow},           \* source_upload_id
     status: {"DRAFT", "ACTIVE", "SUPERSEDED"},
     processing: {"PENDING", "PROCESSING", "DONE", "FAILED"},
     content: Contents \cup {NoContent}]

NoTask == [upload |-> NoRow, version |-> NoVersion, tries |-> 0]

Tasks == [upload: Rows, version: Versions \cup {NoVersion}, tries: 0..MaxRetries]

TypeOK ==
    /\ row \in [Rows -> Row]
    /\ version \in [Versions -> Version]
    /\ IsABag(queue) /\ BagToSet(queue) \subseteq Tasks
    /\ unsent \subseteq Tasks
    /\ finalizing \subseteq Rows
    /\ pc \in [Workers -> {"idle", "start", "parse", "copy", "failed", "retry", "ack"}]
    /\ task \in [Workers -> Tasks \cup {NoTask}]
    /\ again \subseteq Rows
    /\ twice \subseteq Versions

NewVersion ==
    [job |-> NoRow, source |-> NoRow, status |-> "DRAFT", processing |-> "PENDING",
     content |-> NoContent]

Init ==
    /\ row = [r \in Rows |->
                [item |-> "NONE", status |-> "PENDING", fresh |-> TRUE,
                 content |-> NoContent, active |-> NoVersion]]
    /\ version = [v \in Versions |-> NewVersion]
    /\ queue = EmptyBag
    /\ unsent = {}
    /\ finalizing = {}
    /\ pc = [w \in Workers |-> "idle"]
    /\ task = [w \in Workers |-> NoTask]
    /\ again = {}
    /\ twice = {}

Task(r, v, k) == [upload |-> r, version |-> v, tries |-> k]

UnderWay ==
    Cardinality(BagToSet(queue) \cup unsent)
        + Cardinality({w \in Workers : pc[w] # "idle"})

IsUpload(r) == row[r].item = "JD_UPLOAD"

IsJob(r) == row[r].item = "JOB_DESCRIPTION"

VersionsOf(r) == {v \in Versions : version[v].job = r}

(* UPDATE ... WHERE item_type = 'JD_UPLOAD': a job, or nothing, stays as is. *)
MarkUpload(r, s) ==
    row' = IF IsUpload(r) THEN [row EXCEPT ![r].status = s, ![r].fresh = TRUE] ELSE row

-----------------------------------------------------------------------------
(* The administrators' requests.                                            *)

NewUpload(r) ==
    /\ row[r].item = "NONE"
    /\ UnderWay < MaxTasks
    /\ row' = [row EXCEPT ![r].item = "JD_UPLOAD"]

Upload(r) ==
    /\ NewUpload(r)
    /\ unsent' = unsent \cup {Task(r, NoVersion, 0)}
    /\ UNCHANGED <<version, queue, finalizing, workerVars, history>>

(* The next version of a job is an upload of its own and a draft.           *)
CreateVersion(job, r, v) ==
    /\ IsJob(job)
    /\ version[v].job = NoRow
    /\ NewUpload(r)
    /\ version' = [version EXCEPT ![v] = [NewVersion EXCEPT !.job = job, !.source = r]]
    /\ unsent' = unsent \cup {Task(r, v, 0)}
    /\ UNCHANGED <<queue, finalizing, workerVars, history>>

(* Variant: the task names the version the upload is the source of.         *)
ReparseVersion(r) ==
    /\ IsUpload(r)
    /\ UnderWay < MaxTasks
    /\ r \notin again
    /\ MarkUpload(r, "PENDING")
    /\ unsent' = unsent \cup
          {IF \E v \in Versions : version[v].source = r
           THEN Task(r, CHOOSE v \in Versions : version[v].source = r, 0)
           ELSE Task(r, NoVersion, 0)}
    /\ again' = again \cup {r}
    /\ UNCHANGED <<version, queue, finalizing, workerVars, twice>>

(* Whatever the upload is doing; the task does not name its version.        *)
(* Bound: one such request for an upload.                                   *)
ReparseUpload(r) ==
    /\ IsUpload(r)
    /\ UnderWay < MaxTasks
    /\ r \notin again
    /\ MarkUpload(r, "PENDING")
    /\ unsent' = unsent \cup {Task(r, NoVersion, 0)}
    /\ again' = again \cup {r}
    /\ UNCHANGED <<version, queue, finalizing, workerVars, twice>>

SendTask(t) ==
    /\ t \in unsent
    /\ unsent' = unsent \ {t}
    /\ queue' = queue (+) SetToBag({t})
    /\ UNCHANGED <<row, version, finalizing, workerVars, history>>

RequestDies(t) ==
    /\ "api" \in Faults
    /\ t \in unsent
    /\ unsent' = unsent \ {t}
    /\ again' = again \cup {t.upload}
    /\ UNCHANGED <<row, version, queue, finalizing, workerVars, twice>>

PatchUpload(r) ==
    /\ IsUpload(r)
    /\ \E c \in Contents : row' = [row EXCEPT ![r].content = c, ![r].fresh = TRUE]
    /\ UNCHANGED <<version, queue, unsent, finalizing, workerVars, history>>

(* ON DELETE SET NULL for the version it was the source of.                 *)
Orphaned(r) ==
    [v \in Versions |-> IF version[v].source = r THEN [version[v] EXCEPT !.source = NoRow]
                        ELSE version[v]]

DeleteUpload(r) ==
    /\ IsUpload(r)
    /\ row' = [row EXCEPT ![r].item = "GONE"]
    /\ version' = Orphaned(r)
    /\ UNCHANGED <<queue, unsent, finalizing, workerVars, history>>

(* The first half of finalize_upload: the upload is read, and must be DONE. *)
(* Bound: one such request at a time.                                       *)
ReadToFinalize(r) ==
    /\ finalizing = {}
    /\ IsUpload(r)
    /\ row[r].status = "DONE"
    /\ finalizing' = finalizing \cup {r}
    /\ UNCHANGED <<row, version, queue, unsent, workerVars, history>>

(* The second half, which only asks that the row still is an upload: the    *)
(* upload becomes the job, and what it holds its first version.             *)
Finalize(r, v, listing) ==
    /\ r \in finalizing
    /\ finalizing' = finalizing \ {r}
    /\ IsUpload(r)
    /\ version[v].job = NoRow
    /\ version' = [version EXCEPT ![v] =
          [NewVersion EXCEPT !.job = r, !.processing = "DONE", !.content = row[r].content,
                             !.status = IF listing = "ACTIVE" THEN "ACTIVE" ELSE "DRAFT"]]
    /\ row' = [row EXCEPT ![r].item = "JOB_DESCRIPTION", ![r].status = listing,
                          ![r].active = IF listing = "ACTIVE" THEN v ELSE @]
    /\ UNCHANGED <<queue, unsent, workerVars, history>>

FinalizeRefused(r) ==
    /\ r \in finalizing
    /\ ~ IsUpload(r)
    /\ finalizing' = finalizing \ {r}
    /\ UNCHANGED <<row, version, queue, unsent, workerVars, history>>

(* The versions of a job after one of them is published.                    *)
Published(v) ==
    [u \in Versions |->
        CASE u = v -> [version[v] EXCEPT !.status = "ACTIVE"]
          [] u # v /\ version[u].job = version[v].job /\ version[u].status = "ACTIVE" ->
                [version[u] EXCEPT !.status = "SUPERSEDED"]
          [] OTHER -> version[u]]

(* Under the locks of the job and of the version.                           *)
Publish(v) ==
    LET job == version[v].job IN
    /\ job \in Rows
    /\ version[v].processing = "DONE"
    /\ version[v].content # NoContent
    /\ version' = Published(v)
    /\ row' = [row EXCEPT ![job].active = v, ![job].content = version[v].content,
                          ![job].status = "ACTIVE"]
    /\ UNCHANGED <<queue, unsent, finalizing, workerVars, history>>

(* update_job_description: the listing and the text of the posting.         *)
EditJob(r) ==
    /\ IsJob(r)
    /\ \E listing \in Listings : row' = [row EXCEPT ![r].status = listing]
    /\ UNCHANGED <<version, queue, unsent, finalizing, workerVars, history>>

(* Its versions go with it, their uploads do not.                           *)
DeleteJob(r) ==
    /\ IsJob(r)
    /\ row' = [row EXCEPT ![r].item = "GONE", ![r].active = NoVersion]
    /\ version' = [v \in Versions |-> IF v \in VersionsOf(r) THEN [NewVersion EXCEPT !.job = Deleted]
                                  ELSE Orphaned(r)[v]]
    /\ UNCHANGED <<queue, unsent, finalizing, workerVars, history>>

-----------------------------------------------------------------------------
(* The workers.                                                             *)

Held(w) == task[w].upload

HeldVersion(w) == task[w].version

Goto(w, label) == pc' = [pc EXCEPT ![w] = label]

(* UPDATE of the version a task names, if it is there.                      *)
MarkVersion(w, p) ==
    version' = [v \in Versions |-> IF v = HeldVersion(w) /\ version[v].job \in Rows
                                   THEN [version[v] EXCEPT !.processing = p] ELSE version[v]]

(* A task is delivered: its version is PROCESSING before the claim.         *)
Start(w, t) ==
    /\ pc[w] = "idle"
    /\ queue' = queue (-) SetToBag({t})
    /\ task' = [task EXCEPT ![w] = t]
    /\ version' = [v \in Versions |-> IF v = t.version /\ version[v].source = t.upload
                                      THEN [version[v] EXCEPT !.processing = "PROCESSING"]
                                      ELSE version[v]]
    /\ Goto(w, "start")
    /\ UNCHANGED <<row, unsent, finalizing, history>>

Claimable(r) ==
    /\ IsUpload(r)
    /\ row[r].status \in {"PENDING", "FAILED"} \/ (row[r].status = "PARSING" /\ ~ row[r].fresh)

Claim(w) ==
    /\ pc[w] = "start"
    /\ Claimable(Held(w))
    /\ MarkUpload(Held(w), "PARSING")
    /\ Goto(w, "parse")
    /\ UNCHANGED <<version, queue, unsent, finalizing, task, history>>

NotClaimed(w) ==
    /\ pc[w] = "start"
    /\ ~ Claimable(Held(w))
    /\ Goto(w, "ack")
    /\ UNCHANGED <<row, version, queue, unsent, finalizing, task, history>>

(* A timeout before the last attempt is retried, anything else fails.       *)
SetupFails(w) ==
    /\ "setup" \in Faults
    /\ pc[w] = "start"
    /\ \/ Goto(w, "failed")
       \/ task[w].tries < MaxRetries /\ Goto(w, "retry")
    /\ UNCHANGED <<row, version, queue, unsent, finalizing, task, history>>

(* Variant: the result is stored whatever the row has become.               *)
CompleteAnyRow(w) ==
    /\ pc[w] = "parse"
    /\ \E c \in Contents :
          row' = [row EXCEPT ![Held(w)].status = "DONE", ![Held(w)].content = c]
    /\ Goto(w, IF HeldVersion(w) = NoVersion THEN "ack" ELSE "copy")
    /\ UNCHANGED <<version, queue, unsent, finalizing, task, history>>

Complete(w) ==
    /\ pc[w] = "parse"
    /\ \E c \in Contents :
          row' = IF IsUpload(Held(w))
                 THEN [row EXCEPT ![Held(w)].status = "DONE", ![Held(w)].content = c,
                                  ![Held(w)].fresh = TRUE]
                 ELSE row
    /\ Goto(w, IF HeldVersion(w) = NoVersion THEN "ack" ELSE "copy")
    /\ UNCHANGED <<version, queue, unsent, finalizing, task, history>>

(* The version takes what its upload holds by now.                          *)
Copy(w) ==
    /\ pc[w] = "copy"
    /\ version' = [v \in Versions |-> IF v = HeldVersion(w) /\ version[v].source = Held(w)
                                      THEN [version[v] EXCEPT !.processing = "DONE",
                                                              !.content = row[Held(w)].content]
                                      ELSE version[v]]
    /\ Goto(w, "ack")
    /\ UNCHANGED <<row, queue, unsent, finalizing, task, history>>

Fail(w) ==
    /\ pc[w] = "parse"
    /\ MarkUpload(Held(w), "FAILED")
    /\ Goto(w, "failed")
    /\ UNCHANGED <<version, queue, unsent, finalizing, task, history>>

(* The task marks the upload once more, and its version.                    *)
FailAgain(w) ==
    /\ pc[w] = "failed"
    /\ MarkUpload(Held(w), "FAILED")
    /\ MarkVersion(w, "FAILED")
    /\ Goto(w, "ack")
    /\ UNCHANGED <<queue, unsent, finalizing, task, history>>

(* A timeout with a retry still to come.                                    *)
Release(w) ==
    /\ pc[w] = "parse"
    /\ task[w].tries < MaxRetries
    /\ IF row[Held(w)].status = "PARSING" THEN MarkUpload(Held(w), "PENDING") ELSE UNCHANGED row
    /\ Goto(w, "retry")
    /\ UNCHANGED <<version, queue, unsent, finalizing, task, history>>

(* Variant: the retry does not name the version.                            *)
RetryUpload(w) ==
    /\ pc[w] = "retry"
    /\ queue' = queue (+) SetToBag({Task(Held(w), NoVersion, task[w].tries + 1)})
    /\ Goto(w, "ack")
    /\ UNCHANGED <<row, version, unsent, finalizing, task, history>>

Retry(w) ==
    /\ pc[w] = "retry"
    /\ queue' = queue (+) SetToBag({[task[w] EXCEPT !.tries = @ + 1]})
    /\ Goto(w, "ack")
    /\ UNCHANGED <<row, version, unsent, finalizing, task, history>>

Idle(w) == Goto(w, "idle") /\ task' = [task EXCEPT ![w] = NoTask]

Acknowledge(w) ==
    /\ pc[w] = "ack"
    /\ Idle(w)
    /\ UNCHANGED <<row, version, queue, unsent, finalizing, history>>

(* Its task is delivered again.  Bound: the task of a version, and once.    *)
WorkerDies(w) ==
    /\ "worker" \in Faults
    /\ pc[w] # "idle"
    /\ HeldVersion(w) \in Versions \ twice
    /\ pc[w] = "ack" => UnderWay <= MaxTasks
    /\ queue' = queue (+) SetToBag({task[w]})
    /\ Idle(w)
    /\ twice' = twice \cup {HeldVersion(w)}
    /\ UNCHANGED <<row, version, unsent, finalizing, again>>

Parsing(r) == {w \in Workers : pc[w] = "parse" /\ Held(w) = r}

GoStale(r) ==
    /\ IsUpload(r)
    /\ row[r].status = "PARSING"
    /\ row[r].fresh
    /\ "slow" \in Faults \/ Parsing(r) = {}
    /\ row' = [row EXCEPT ![r].fresh = FALSE]
    /\ UNCHANGED <<version, queue, unsent, finalizing, workerVars, history>>

-----------------------------------------------------------------------------

Administer ==
    \/ \E r \in Rows : Upload(r) \/ ReparseUpload(r) \/ PatchUpload(r) \/ DeleteUpload(r)
    \/ \E r \in Rows : ReadToFinalize(r) \/ FinalizeRefused(r)
    \/ \E r \in Rows, v \in Versions, listing \in Listings : Finalize(r, v, listing)
    \/ \E job, r \in Rows, v \in Versions : CreateVersion(job, r, v)
    \/ \E v \in Versions : Publish(v)
    \/ \E r \in Rows : EditJob(r) \/ DeleteJob(r)
    \/ \E t \in unsent : SendTask(t) \/ RequestDies(t)

Run(w) ==
    \/ \E t \in BagToSet(queue) : Start(w, t)
    \/ Claim(w) \/ NotClaimed(w) \/ SetupFails(w)
    \/ Complete(w) \/ Copy(w) \/ Fail(w) \/ FailAgain(w) \/ Release(w)
    \/ Retry(w) \/ Acknowledge(w)

Next ==
    \/ Administer
    \/ \E w \in Workers : Run(w) \/ WorkerDies(w)
    \/ \E r \in Rows : GoStale(r)

Spec == Init /\ [][Next]_vars

-----------------------------------------------------------------------------

(* A job has one active version at most, and active_version_id names it.    *)
OneActive(r) ==
    {v \in VersionsOf(r) : version[v].status = "ACTIVE"} = {row[r].active} \ {NoVersion}

(* A job has the active version it names and no other, and what it says is  *)
(* what that version says, however its upload is parsed again, patched or   *)
(* finalized meanwhile: candidates are matched against the job, and their   *)
(* results name the version.  A task that is delivered a second time may    *)
(* parse an upload for a version that was published meanwhile; those        *)
(* versions are excepted.                                                   *)
PublishedIsActive ==
    \A r \in Rows :
        /\ OneActive(r)
        /\ row[r].active # NoVersion =>
              LET active == version[row[r].active] IN
              /\ active.content # NoContent
              /\ row[r].active \notin twice =>
                    active.processing = "DONE" /\ row[r].content = active.content

(* A worker that is still parsing, or failing, an upload that was finalized *)
(* meanwhile leaves the job alone: jobs change by the requests of           *)
(* administrators only (the item_type guards of the repository).            *)
JobsAreEditedOnly ==
    [][\A r \in Rows : IsJob(r) /\ row'[r] # row[r] =>
            EditJob(r) \/ DeleteJob(r) \/ \E v \in VersionsOf(r) : Publish(v)]_vars

(* A version that has not finished parsing, and so cannot be published, has *)
(* a task that will finish it.  The exceptions are the cases in which the   *)
(* code does leave a version behind: its task was never published or was    *)
(* delivered a second time; its upload was sent to be parsed again, by a    *)
(* task that does not name the version and may claim first; or the upload   *)
(* was deleted.                                                             *)
VersionInFlight ==
    \A v \in Versions :
        version[v].job \in Rows /\ version[v].processing \in {"PENDING", "PROCESSING"} =>
            \/ v \in twice \/ version[v].source \in {NoRow} \cup again
            \/ \E t \in BagToSet(queue) \cup unsent : t.version = v
            \/ \E w \in Workers : pc[w] \notin {"idle", "ack"} /\ HeldVersion(w) = v

=============================================================================

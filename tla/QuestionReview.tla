---------------------------- MODULE QuestionReview ----------------------------
(***************************************************************************)
(* The life of one question of the bank: drafts, reviews, the approval     *)
(* that makes a version the one interviews ask, revisions, and the import  *)
(* that may create the question (question_bank/service.py,                 *)
(* import_service.py, facade.py).                                          *)
(*                                                                         *)
(* Every handler but the commit of an import reads the version without a   *)
(* lock, checks it, and writes the columns it changes without looking at   *)
(* the others: it is two steps, Read and Write, and other requests may     *)
(* come in between.  What a handler reads it reads at one moment.          *)
(*                                                                         *)
(* What a version asks is one of Contents.  Its taxonomy mappings are      *)
(* valid; of the contract it must meet to be published, the rubric is kept *)
(* (_validate_publishable_contract).                                       *)
(*                                                                         *)
(*   People       authors and administrators: who may do what by their     *)
(*                role is left out, that nobody passes their own is not    *)
(*   Requests     the requests the API can be handling at the same time    *)
(*   Contents     what a version may ask                                   *)
(*   MaxVersions  bound: versions of the question                          *)
(*   MaxReviews   bound: reviews of the question                           *)
(***************************************************************************)
EXTENDS Integers, FiniteSets

CONSTANTS People, Requests, Contents, MaxVersions, MaxReviews

ASSUME BoundsAssumption == MaxVersions \in Nat \ {0} /\ MaxReviews \in Nat

VARIABLES
    version,    \* the versions of the question, by the order of their names
    live,       \* current_approved_version_id, or 0
    reviews,    \* the reviews, each with the content its reviewer read
    import,     \* an import whose one row is about the question
    request,    \* what each request has read and is going to write
    overtaken   \* history: versions written by a request after they had
                \* changed since it read them; 0 stands for the import

vars == <<version, live, reviews, import, request, overtaken>>

-----------------------------------------------------------------------------

Generator == "system-question-generator"

Nobody == "nobody"

Blank == "blank"

Versions == 1..MaxVersions

(* REJECT stands for QUARANTINE too, which gives a status of its own that   *)
(* is as final.                                                             *)
Decisions == {"APPROVE", "REQUEST_CHANGES", "REJECT"}

(* Variant: a version in review can still be edited.                        *)
EditableUntilApproved == {"DRAFT", "NEEDS_REVISION", "IN_REVIEW"}

Editable == {"DRAFT", "NEEDS_REVISION"}

(* Statuses in progress; PILOT_READY is never given by this code.           *)
Open == {"DRAFT", "NEEDS_REVISION", "IN_REVIEW"}

Version ==
    [status: Open \cup {"ABSENT", "APPROVED", "REJECTED"},
     author: People \cup {Generator, Nobody},
     content: Contents \cup {Blank},
     rubric: BOOLEAN]

Absent == [status |-> "ABSENT", author |-> Nobody, content |-> Blank, rubric |-> FALSE]

Review == [version: Versions, decision: Decisions, content: Contents \cup {Blank}]

Import == [status: {"NONE", "READY_FOR_REVIEW", "COMMITTED"},
           row: {"VALID", "ERROR", "COMMITTED"}]

Operations ==
    {"none", "edit", "rubric", "submit", "revise", "review", "approve", "patch"}

Request ==
    [op: Operations, by: People \cup {Nobody}, at: 0..MaxVersions, read: Version \cup Import,
     content: Contents \cup {Blank}, decision: Decisions]

NoRequest ==
    [op |-> "none", by |-> Nobody, at |-> 0, read |-> Absent, content |-> Blank,
     decision |-> "APPROVE"]

TypeOK ==
    /\ version \in [Versions -> Version]
    /\ live \in 0..MaxVersions
    /\ reviews \subseteq Review
    /\ import \in Import
    /\ request \in [Requests -> Request]
    /\ overtaken \subseteq 0..MaxVersions

Init ==
    /\ version = [v \in Versions |-> Absent]
    /\ live = 0
    /\ reviews = {}
    /\ import = [status |-> "NONE", row |-> "VALID"]
    /\ request = [q \in Requests |-> NoRequest]
    /\ overtaken = {}

Existing == {v \in Versions : version[v].status # "ABSENT"}

InProgress == {v \in Versions : version[v].status \in Open}

Draft(p, c) == [status |-> "DRAFT", author |-> p, content |-> c, rubric |-> FALSE]

-----------------------------------------------------------------------------
(* How the question begins.  Its stable key is unique, so it begins once.   *)

CreateDraft(p, c) ==
    /\ Existing = {}
    /\ version' = [version EXCEPT ![1] = Draft(p, c)]
    /\ UNCHANGED <<live, reviews, import, request, overtaken>>

(* A generated question is drafted, given a rubric and submitted at once.   *)
FileGenerated(c) ==
    /\ Existing = {}
    /\ version' = [version EXCEPT ![1] =
          [status |-> "IN_REVIEW", author |-> Generator, content |-> c, rubric |-> TRUE]]
    /\ UNCHANGED <<live, reviews, import, request, overtaken>>

CreateImport(row) ==
    /\ import.status = "NONE"
    /\ import' = [status |-> "READY_FOR_REVIEW", row |-> row]
    /\ UNCHANGED <<version, live, reviews, request, overtaken>>

(* Under the lock of the import.  A row that names a rubric gets it.        *)
CommitImport(p, c, rubric) ==
    /\ import = [status |-> "READY_FOR_REVIEW", row |-> "VALID"]
    /\ Existing = {}
    /\ version' = [version EXCEPT ![1] = [Draft(p, c) EXCEPT !.rubric = rubric]]
    /\ import' = [status |-> "COMMITTED", row |-> "COMMITTED"]
    /\ UNCHANGED <<live, reviews, request, overtaken>>

-----------------------------------------------------------------------------
(* The first half of a handler: read and check.                             *)

(* at is the version that the request will write, and read what it has      *)
(* seen.                                                                    *)
Read(q, op, p, at, read, c, d) ==
    /\ request[q].op = "none"
    /\ request' = [request EXCEPT ![q] =
          [op |-> op, by |-> p, at |-> at, read |-> read, content |-> c, decision |-> d]]
    /\ UNCHANGED <<version, live, reviews, import, overtaken>>

IsAuthor(p, v) == version[v].author = p

(* Variant: what has been decided can be decided again.                     *)
ReviewableOnceSubmitted(v) == version[v].status \in {"IN_REVIEW", "APPROVED", "REJECTED"}

Reviewable(v) == version[v].status = "IN_REVIEW"

ReadToEdit(q, p, v) ==
    /\ IsAuthor(p, v)
    /\ version[v].status \in Editable
    /\ \/ \E c \in Contents \ {version[v].content} : Read(q, "edit", Nobody, v, version[v], c, "APPROVE")
       \/ ~ version[v].rubric /\ Read(q, "rubric", Nobody, v, version[v], Blank, "APPROVE")
       \/ version[v].rubric /\ Read(q, "submit", Nobody, v, version[v], Blank, "APPROVE")

Underway == InProgress

(* The name a revision will have.                                           *)
NextName == Cardinality(Existing) + 1

(* From any version, while none is in progress; an accepted finding of the  *)
(* insights is a revision too.                                              *)
ReadToRevise(q, p, v) ==
    /\ v \in Existing
    /\ Underway = {}
    /\ NextName \in Versions
    /\ Read(q, "revise", p, NextName, version[v], version[v].content, "APPROVE")

ReadToReview(q, p, v) ==
    /\ Reviewable(v)
    /\ ~ IsAuthor(p, v)
    /\ \E d \in Decisions : Read(q, "review", Nobody, v, version[v], version[v].content, d)

(* The reviews that approve a version, however long ago.                    *)
Approvals(v) == {r \in reviews : r.version = v /\ r.decision = "APPROVE"}

ReadToApprove(q, p, v) ==
    /\ Reviewable(v)
    /\ ~ IsAuthor(p, v)
    /\ version[v].rubric
    /\ Approvals(v) # {}
    /\ Read(q, "approve", Nobody, v, version[v], Blank, "APPROVE")

ReadToPatch(q) ==
    /\ import.status = "READY_FOR_REVIEW"
    /\ Read(q, "patch", Nobody, 0, import, Blank, "APPROVE")

-----------------------------------------------------------------------------
(* The second half: the columns that change are written.                    *)

Writing(q, op) == request[q].op = op /\ request' = [request EXCEPT ![q] = NoRequest]

Target(q) == request[q].at

Overtake(q) ==
    overtaken' = overtaken \cup {v \in {Target(q)} : version[v] # request[q].read}

SetStatus(q, s) == version' = [version EXCEPT ![Target(q)].status = s]

Edit(q) ==
    /\ Writing(q, "edit")
    /\ version' = [version EXCEPT ![Target(q)].content = request[q].content]
    /\ Overtake(q)
    /\ UNCHANGED <<live, reviews, import>>

AttachRubric(q) ==
    /\ Writing(q, "rubric")
    /\ version' = [version EXCEPT ![Target(q)].rubric = TRUE]
    /\ Overtake(q)
    /\ UNCHANGED <<live, reviews, import>>

Submit(q) ==
    /\ Writing(q, "submit")
    /\ SetStatus(q, "IN_REVIEW")
    /\ Overtake(q)
    /\ UNCHANGED <<live, reviews, import>>

(* Two revisions begun at once have the same name: one is refused.          *)
Revise(q) ==
    /\ Writing(q, "revise")
    /\ IF version[Target(q)] = Absent
       THEN version' = [version EXCEPT ![Target(q)] =
                [Draft(request[q].by, request[q].content) EXCEPT !.rubric = request[q].read.rubric]]
       ELSE UNCHANGED version
    /\ UNCHANGED <<live, reviews, import, overtaken>>

StatusAfter(decision, status) ==
    CASE decision = "APPROVE"         -> status
      [] decision = "REQUEST_CHANGES" -> "NEEDS_REVISION"
      [] decision = "REJECT"          -> "REJECTED"

RecordReview(q) ==
    /\ Writing(q, "review")
    /\ reviews' = reviews \cup {[version |-> Target(q), decision |-> request[q].decision,
                                 content |-> request[q].content]}
    /\ SetStatus(q, StatusAfter(request[q].decision, version[Target(q)].status))
    /\ IF request[q].decision = "APPROVE" THEN UNCHANGED overtaken ELSE Overtake(q)
    /\ UNCHANGED <<live, import>>

Approve(q) ==
    /\ Writing(q, "approve")
    /\ SetStatus(q, "APPROVED")
    /\ live' = Target(q)
    /\ Overtake(q)
    /\ UNCHANGED <<reviews, import>>

(* patch_row: the edited row is valid or not.                               *)
Patch(q) ==
    /\ Writing(q, "patch")
    /\ \E row \in {"VALID", "ERROR"} :
          import' = [import EXCEPT !.row = row]
    /\ overtaken' = overtaken \cup {v \in {0} : import.status # request[q].read.status}
    /\ UNCHANGED <<version, live, reviews>>

-----------------------------------------------------------------------------

ReadStep(q) ==
    \/ \E p \in People, v \in Versions :
          \/ ReadToEdit(q, p, v)
          \/ ReadToRevise(q, p, v)
          \/ Cardinality(reviews) < MaxReviews /\ ReadToReview(q, p, v)
          \/ ReadToApprove(q, p, v)
    \/ ReadToPatch(q)

WriteStep(q) ==
    \/ Edit(q) \/ AttachRubric(q) \/ Submit(q) \/ Revise(q)
    \/ RecordReview(q) \/ Approve(q) \/ Patch(q)

Begin ==
    \/ \E p \in People, c \in Contents :
          CreateDraft(p, c) \/ FileGenerated(c) \/ \E rubric \in BOOLEAN : CommitImport(p, c, rubric)
    \/ \E row \in {"VALID", "ERROR"} : CreateImport(row)

Next ==
    \/ Begin
    \/ \E q \in Requests : ReadStep(q) \/ WriteStep(q)

Spec == Init /\ [][Next]_vars

-----------------------------------------------------------------------------
(* Handlers that overtake each other break every property below (a review   *)
(* and an approval read IN_REVIEW, both write); overtaken names the         *)
(* versions they did it to, and there are no other exceptions.              *)

(* "Interviews keep using the question's current approved version until the *)
(* revision is itself approved" (revise): the selector asks live only while *)
(* it is APPROVED.                                                          *)
LiveIsApproved == live # 0 => version[live].status = "APPROVED" \/ live \in overtaken

WasSentBack(v) == \E r \in reviews : r.version = v /\ r.decision = "REQUEST_CHANGES"

(* A version is approved on the word of somebody, never its author, who     *)
(* read what interviews will ask.  The exception that needs no race is      *)
(* a version that was sent back after it was approved: the approval counts  *)
(* on when it comes back changed.                                           *)
ApprovedAsReviewed ==
    live # 0 =>
        \/ live \in overtaken
        \/ \E r \in reviews :
              /\ r.version = live /\ r.decision = "APPROVE"
              /\ r.content = version[live].content \/ WasSentBack(live)

(* What a reviewer has turned down for good stays out of the interviews.    *)
RejectedStays ==
    [][\A v \in Versions :
          version[v].status = "REJECTED" /\ v \notin overtaken' =>
              version'[v].status = version[v].status /\ live' # v]_vars

=============================================================================

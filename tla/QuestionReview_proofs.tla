------------------------- MODULE QuestionReview_proofs -------------------------
(***************************************************************************)
(* Proofs about the review of a question, for any number of people,        *)
(* requests, contents and versions.                                        *)
(*                                                                         *)
(* A handler writes on what it has read, so the invariant remembers what   *)
(* that was: a pending edit or submission has read an editable version, a  *)
(* pending review or approval one in review (ReadInv).  Whatever a step    *)
(* does to a version then falls into a few kinds (StepKinds), unless the   *)
(* handler was overtaken.                                                  *)
(***************************************************************************)
EXTENDS QuestionReview, TLAPS

HasRead(q) ==
    /\ request[q].op \in Operations \ {"none", "patch"} => request[q].at \in Versions
    /\ request[q].op \in {"edit", "rubric", "submit"} => request[q].read.status \in Editable
    /\ request[q].op \in {"review", "approve"} => request[q].read.status = "IN_REVIEW"
    /\ request[q].op = "approve" => \E r \in reviews : r.version = request[q].at /\ r.decision = "APPROVE"
    /\ request[q].op = "revise" => request[q].read \in Version

ReadInv == \A q \in Requests : HasRead(q)

Typed == TypeOK /\ ReadInv

-----------------------------------------------------------------------------
(* The types.                                                               *)

LEMMA Names == 1 \in Versions /\ (\A v \in Versions : v \in 0..MaxVersions /\ v # 0)
BY BoundsAssumption DEF Versions

LEMMA DraftTyped ==
    ASSUME NEW p \in People, NEW c \in Contents \cup {Blank}
    PROVE  Draft(p, c) \in Version
BY DEF Draft, Version, Open

LEMMA OvertakeTyped ==
    ASSUME TypeOK, NEW q \in Requests, Overtake(q)
    PROVE  overtaken' \subseteq 0..MaxVersions
<1>1. request[q].at \in 0..MaxVersions
  BY DEF TypeOK, Request
<1> QED BY <1>1 DEF Overtake, Target, TypeOK

LEMMA WritingTyped ==
    ASSUME Typed, NEW q \in Requests, NEW op \in Operations, Writing(q, op)
    PROVE  request' \in [Requests -> Request]
<1>1. NoRequest \in Request
  BY BoundsAssumption DEF NoRequest, Request, Operations, Absent, Version, Decisions
<1> QED BY <1>1 DEF Typed, TypeOK, Writing

LEMMA ReadTyped ==
    ASSUME Typed, NEW q \in Requests, NEW op \in Operations, NEW p \in People \cup {Nobody},
           NEW at \in 0..MaxVersions, NEW read \in Version \cup Import,
           NEW c \in Contents \cup {Blank}, NEW d \in Decisions, Read(q, op, p, at, read, c, d)
    PROVE  TypeOK'
<1>1. request' \in [Requests -> Request]
  BY DEF Read, Request, Typed, TypeOK
<1> QED BY <1>1 DEF Read, Typed, TypeOK

LEMMA BeginTyped == Typed /\ Begin => TypeOK'
<1> SUFFICES ASSUME Typed, Begin PROVE TypeOK'
  OBVIOUS
<1>1. ASSUME NEW p \in People, NEW c \in Contents,
             CreateDraft(p, c) \/ \E rubric \in BOOLEAN : CommitImport(p, c, rubric)
      PROVE  TypeOK'
  <2>1. PICK r \in BOOLEAN : version' = [version EXCEPT ![1] = [Draft(p, c) EXCEPT !.rubric = r]]
    BY <1>1 DEF CreateDraft, CommitImport, Draft
  <2>2. version' \in [Versions -> Version]
    BY <2>1, DraftTyped, Names DEF Typed, TypeOK, Version
  <2> QED BY <1>1, <2>2 DEF CreateDraft, CommitImport, Typed, TypeOK, Import
<1>2. ASSUME NEW c \in Contents, FileGenerated(c) PROVE TypeOK'
  <2>1. version' \in [Versions -> Version]
    BY <1>2, Names DEF FileGenerated, Typed, TypeOK, Version, Open
  <2> QED BY <1>2, <2>1 DEF FileGenerated, Typed, TypeOK
<1>3. ASSUME NEW row \in {"VALID", "ERROR"}, CreateImport(row) PROVE TypeOK'
  BY <1>3 DEF CreateImport, Typed, TypeOK, Import
<1> QED BY <1>1, <1>2, <1>3 DEF Begin

LEMMA ReadStepTyped == ASSUME Typed, NEW q \in Requests, ReadStep(q) PROVE TypeOK'
<1>1. /\ "APPROVE" \in Decisions /\ Blank \in Contents \cup {Blank}
      /\ Nobody \in People \cup {Nobody} /\ 0 \in 0..MaxVersions
  BY BoundsAssumption DEF Decisions
<1>2. ASSUME NEW p \in People, NEW v \in Versions,
             ReadToEdit(q, p, v) \/ ReadToRevise(q, p, v) \/ ReadToReview(q, p, v)
                \/ ReadToApprove(q, p, v)
      PROVE  TypeOK'
  <2>1. version[v] \in Version \cup Import /\ version[v].content \in Contents \cup {Blank}
    BY DEF Typed, TypeOK, Version
  <2>2. {"edit", "rubric", "submit", "revise", "review", "approve"} \subseteq Operations
    BY DEF Operations
  <2> QED
    BY <1>1, <1>2, <2>1, <2>2, Names, ReadTyped DEF ReadToEdit, ReadToRevise, ReadToReview,
       ReadToApprove
<1>3. ASSUME ReadToPatch(q) PROVE TypeOK'
  <2>1. import \in Version \cup Import /\ "patch" \in Operations
    BY DEF Typed, TypeOK, Operations
  <2> QED BY <1>1, <1>3, <2>1, ReadTyped DEF ReadToPatch
<1> QED BY <1>2, <1>3 DEF ReadStep

LEMMA WriteStepTyped == ASSUME Typed, NEW q \in Requests, WriteStep(q) PROVE TypeOK'
<1> USE DEF Typed, TypeOK
<1>1. request[q] \in Request
  OBVIOUS
<1>2. {"edit", "rubric", "submit", "revise", "review", "approve", "patch"} \subseteq Operations
  BY DEF Operations
<1>3. request' \in [Requests -> Request]
  BY <1>2, WritingTyped DEF WriteStep, Edit, AttachRubric, Submit, Revise, RecordReview, Approve, Patch
<1>4. overtaken' \subseteq 0..MaxVersions
  <2>1. CASE UNCHANGED overtaken \/ Overtake(q)
    BY <2>1, OvertakeTyped
  <2>2. CASE Patch(q)
    BY <2>2, BoundsAssumption DEF Patch
  <2> QED
    BY <2>1, <2>2 DEF WriteStep, Edit, AttachRubric, Submit, Revise, RecordReview, Approve
<1>5. ASSUME NEW s \in Open \cup {"ABSENT", "APPROVED", "REJECTED"}, SetStatus(q, s)
      PROVE  version' \in [Versions -> Version]
  BY <1>5 DEF SetStatus, Version
<1>6. CASE Edit(q)
  <2>1. version' \in [Versions -> Version]
    BY <1>1, <1>6, ZenonT(60) DEF Edit, Request, Version
  <2> QED BY <1>3, <1>4, <1>6, <2>1 DEF Edit
<1>7. CASE AttachRubric(q)
  <2>1. version' \in [Versions -> Version]
    BY <1>7 DEF AttachRubric, Version
  <2> QED BY <1>3, <1>4, <1>7, <2>1 DEF AttachRubric
<1>8. CASE Submit(q)
  BY <1>3, <1>4, <1>5, <1>8 DEF Submit, Open
<1>9. CASE Revise(q)
  <2>1. CASE version[Target(q)] = Absent
    <3>1. request[q].op = "revise" /\ Target(q) \in Versions
      BY <1>9 DEF Revise, Writing, ReadInv, HasRead, Target, Operations
    <3>2. request[q].by \in People \cup {Nobody} /\ request[q].content \in Contents \cup {Blank}
      BY <1>1 DEF Request
    <3>3. version' \in [Versions -> Version]
      <4>1. version' = [version EXCEPT ![Target(q)] =
                [status |-> "DRAFT", author |-> request[q].by, content |-> request[q].content,
                 rubric |-> request[q].read.rubric]]
        BY <1>9, <2>1 DEF Revise, Draft
      <4>2. request[q].read.rubric \in BOOLEAN
        BY <3>1 DEF ReadInv, HasRead, Version
      <4> QED BY <3>2, <4>1, <4>2 DEF Version, Open
    <3> QED BY <1>3, <1>4, <1>9, <3>3 DEF Revise
  <2>2. CASE version[Target(q)] # Absent
    BY <1>3, <1>4, <1>9, <2>2 DEF Revise
  <2> QED BY <2>1, <2>2
<1>10. CASE RecordReview(q)
  <2>1. request[q].op = "review" /\ Target(q) \in Versions
    BY <1>10 DEF RecordReview, Writing, ReadInv, HasRead, Target, Operations
  <2>2. version[Target(q)].status \in Open \cup {"ABSENT", "APPROVED", "REJECTED"}
    BY <2>1 DEF Version
  <2>3. version' \in [Versions -> Version]
    BY <1>1, <1>5, <1>10, <2>2 DEF RecordReview, StatusAfter, Request, Decisions, Open
  <2>4. reviews' \subseteq Review
    BY <1>1, <1>10, <2>1 DEF RecordReview, Review, Request
  <2> QED BY <1>3, <1>4, <1>10, <2>3, <2>4 DEF RecordReview
<1>11. CASE Approve(q)
  <2>1. live' \in 0..MaxVersions
    BY <1>1, <1>11 DEF Approve, Target, Request
  <2> QED BY <1>3, <1>4, <1>5, <1>11, <2>1 DEF Approve
<1>12. CASE Patch(q)
  BY <1>3, <1>4, <1>12 DEF Patch, Import
<1> QED BY <1>6, <1>7, <1>8, <1>9, <1>10, <1>11, <1>12 DEF WriteStep

-----------------------------------------------------------------------------
(* What a step does to a version, unless a handler was overtaken there.     *)

StatusStep(v) ==
    \/ version'[v].status = version[v].status
    \/ version[v].status = "ABSENT"
    \/ version[v].status \in Editable /\ version'[v].status = "IN_REVIEW"
    \/ /\ version[v].status = "IN_REVIEW"
       /\ version'[v].status \in {"APPROVED", "REJECTED"} \/ WasSentBack(v)'
    \/ v \in overtaken'

ContentStep(v) ==
    \/ version'[v].content = version[v].content
    \/ version[v].status \in Editable \cup {"ABSENT"}
    \/ v \in overtaken'

LiveStep ==
    \/ live' = live
    \/ /\ live' \in Versions /\ Approvals(live') # {}
       /\ version'[live'].status = "APPROVED"
       /\ version[live'].status = "IN_REVIEW" \/ live' \in overtaken'

Step ==
    /\ \A v \in Versions : StatusStep(v) /\ ContentStep(v)
    /\ LiveStep
    /\ overtaken \subseteq overtaken' /\ reviews \subseteq reviews'

LEMMA BeginStep == ASSUME Typed, Begin PROVE Step
<1>1. ASSUME NEW p \in People, NEW c \in Contents,
             CreateDraft(p, c) \/ FileGenerated(c) \/ \E rubric \in BOOLEAN : CommitImport(p, c, rubric)
      PROVE  Step
  <2>1. Existing = {} /\ UNCHANGED <<live, reviews, overtaken>>
    BY <1>1 DEF CreateDraft, FileGenerated, CommitImport
  <2>2. \A v \in Versions : version[v].status = "ABSENT"
    BY <2>1 DEF Existing
  <2> QED BY <2>1, <2>2 DEF Step, StatusStep, ContentStep, LiveStep
<1>2. ASSUME NEW row \in {"VALID", "ERROR"}, CreateImport(row) PROVE Step
  BY <1>2 DEF CreateImport, Step, StatusStep, ContentStep, LiveStep
<1> QED BY <1>1, <1>2 DEF Begin

LEMMA ReadStepStep == ASSUME NEW q \in Requests, ReadStep(q) PROVE Step
<1>1. UNCHANGED <<version, live, reviews, overtaken>>
  BY DEF ReadStep, ReadToEdit, ReadToRevise, ReadToReview, ReadToApprove, ReadToPatch, Read
<1> QED BY <1>1 DEF Step, StatusStep, ContentStep, LiveStep

(* A handler that was not overtaken has read what it now writes to.         *)
LEMMA OvertakeTells ==
    ASSUME NEW q \in Requests, Overtake(q)
    PROVE  /\ overtaken \subseteq overtaken'
           /\ Target(q) \in overtaken' \/ version[Target(q)] = request[q].read
BY DEF Overtake

LEMMA EditStep ==
    ASSUME Typed, NEW q \in Requests, Edit(q) \/ AttachRubric(q) \/ Submit(q)
    PROVE  Step
<1>1. /\ Target(q) \in Versions /\ request[q].read.status \in Editable /\ Overtake(q)
      /\ UNCHANGED <<live, reviews>>
  BY DEF Edit, AttachRubric, Submit, Writing, Typed, ReadInv, HasRead, Target, Operations
<1>2. Target(q) \in overtaken' \/ version[Target(q)].status \in Editable
  BY <1>1, OvertakeTells
<1>3. /\ \A v \in Versions \ {Target(q)} : version'[v] = version[v]
      /\ version'[Target(q)].status \in {version[Target(q)].status, "IN_REVIEW"}
  BY <1>1 DEF Edit, AttachRubric, Submit, SetStatus, Typed, TypeOK, Version
<1> QED BY <1>1, <1>2, <1>3, OvertakeTells DEF Step, StatusStep, ContentStep, LiveStep

LEMMA ReviseStep == ASSUME Typed, NEW q \in Requests, Revise(q) PROVE Step
<1>1. UNCHANGED <<live, reviews, overtaken>>
  BY DEF Revise
<1>2. CASE version[Target(q)] # Absent
  BY <1>1, <1>2 DEF Revise, Step, StatusStep, ContentStep, LiveStep
<1>3. CASE version[Target(q)] = Absent
  <2>1. version[Target(q)].status = "ABSENT"
    BY <1>3 DEF Absent
  <2>2. \A v \in Versions \ {Target(q)} : version'[v] = version[v]
    BY <1>3 DEF Revise, Typed, TypeOK
  <2> QED BY <1>1, <2>1, <2>2 DEF Step, StatusStep, ContentStep, LiveStep
<1> QED BY <1>2, <1>3

LEMMA ReviewStep == ASSUME Typed, NEW q \in Requests, RecordReview(q) PROVE Step
<1> DEFINE d == request[q].decision
<1>1. /\ Target(q) \in Versions /\ request[q].read.status = "IN_REVIEW" /\ d \in Decisions
      /\ UNCHANGED live /\ reviews \subseteq reviews'
  BY DEF RecordReview, Writing, Typed, TypeOK, ReadInv, HasRead, Target, Operations, Request
<1>2. PICK t \in Versions : t = Target(q)
  BY <1>1
<1>3. /\ \A v \in Versions \ {t} : version'[v] = version[v]
      /\ version'[t].content = version[t].content
      /\ version'[t].status = StatusAfter(d, version[t].status)
  BY <1>2 DEF RecordReview, SetStatus, Typed, TypeOK, Version
<1>4. overtaken \subseteq overtaken'
  BY OvertakeTells DEF RecordReview
<1>5. StatusStep(t)
  <2>1. CASE d = "APPROVE"
    BY <1>3, <2>1 DEF StatusAfter, StatusStep
  <2>2. CASE d # "APPROVE"
    <3>1. t \in overtaken' \/ version[t].status = "IN_REVIEW"
      BY <1>1, <1>2, <2>2, OvertakeTells DEF RecordReview
    <3>2. d = "REJECT" => version'[t].status = "REJECTED"
      BY <1>3 DEF StatusAfter
    <3>3. ASSUME d = "REQUEST_CHANGES" PROVE WasSentBack(t)'
      <4> DEFINE r == [version |-> t, decision |-> d, content |-> request[q].content]
      <4>1. r \in reviews'
        BY <1>2 DEF RecordReview
      <4>2. r.version = t /\ r.decision = "REQUEST_CHANGES"
        BY <3>3
      <4> QED BY <4>1, <4>2 DEF WasSentBack
    <3> QED BY <1>1, <2>2, <3>1, <3>2, <3>3 DEF StatusStep, Decisions
  <2> QED BY <2>1, <2>2
<1>6. ASSUME NEW v \in Versions PROVE StatusStep(v) /\ ContentStep(v)
  <2>1. CASE v = t
    BY <1>3, <1>5, <2>1 DEF ContentStep
  <2>2. CASE v # t
    BY <1>3, <2>2 DEF StatusStep, ContentStep
  <2> QED BY <2>1, <2>2
<1> QED BY <1>1, <1>4, <1>6 DEF Step, LiveStep

LEMMA ApproveStep == ASSUME Typed, NEW q \in Requests, Approve(q) PROVE Step
<1> DEFINE t == Target(q)
<1>1. /\ t \in Versions /\ request[q].read.status = "IN_REVIEW" /\ Approvals(t) # {}
      /\ Overtake(q) /\ live' = t /\ UNCHANGED reviews
  BY DEF Approve, Writing, Typed, ReadInv, HasRead, Target, Operations, Approvals
<1>2. t \in overtaken' \/ version[t].status = "IN_REVIEW"
  BY <1>1, OvertakeTells
<1>3. /\ \A v \in Versions \ {t} : version'[v] = version[v]
      /\ version'[t].content = version[t].content
      /\ version'[t].status = "APPROVED"
  BY <1>1 DEF Approve, SetStatus, Typed, TypeOK, Version
<1> QED BY <1>1, <1>2, <1>3, OvertakeTells DEF Step, StatusStep, ContentStep, LiveStep

LEMMA StepKinds == Typed /\ [Next]_vars => Step
<1> SUFFICES ASSUME Typed, [Next]_vars PROVE Step
  OBVIOUS
<1>1. CASE Begin
  BY <1>1, BeginStep
<1>2. ASSUME NEW q \in Requests, ReadStep(q) PROVE Step
  BY <1>2, ReadStepStep
<1>3. ASSUME NEW q \in Requests, WriteStep(q) PROVE Step
  <2>1. CASE Patch(q)
    BY <2>1 DEF Patch, Step, StatusStep, ContentStep, LiveStep
  <2> QED BY <1>3, <2>1, EditStep, ReviseStep, ReviewStep, ApproveStep DEF WriteStep
<1>4. CASE UNCHANGED vars
  BY <1>4 DEF vars, Step, StatusStep, ContentStep, LiveStep
<1> QED BY <1>1, <1>2, <1>3, <1>4 DEF Next

-----------------------------------------------------------------------------
(* What pending requests have read stays what they have read.               *)

LEMMA ApprovalsStay ==
    ASSUME reviews \subseteq reviews', NEW v, Approvals(v) # {}
    PROVE  Approvals(v)' # {}
BY DEF Approvals

LEMMA ReadInvNext == Typed /\ [Next]_vars => ReadInv'
<1> SUFFICES ASSUME Typed, [Next]_vars, NEW p \in Requests PROVE HasRead(p)'
  BY DEF ReadInv
<1>1. reviews \subseteq reviews'
  BY StepKinds DEF Step
<1>2. CASE request'[p] = request[p]
  <2>1. HasRead(p)
    BY DEF Typed, ReadInv
  <2> QED BY <1>1, <1>2, <2>1 DEF HasRead
<1>3. CASE request'[p] = NoRequest
  BY <1>3 DEF HasRead, NoRequest, Operations
<1>4. CASE ReadStep(p)
  <2>1. request \in [Requests -> Request] /\ version \in [Versions -> Version]
    BY DEF Typed, TypeOK
  <2>2. ASSUME NEW who \in People, NEW v \in Versions,
               ReadToEdit(p, who, v) \/ ReadToReview(p, who, v)
        PROVE  /\ request'[p].at = v
               /\ \/ request'[p].op \in {"edit", "rubric", "submit"}
                       /\ request'[p].read.status \in Editable
                  \/ request'[p].op = "review" /\ request'[p].read.status = "IN_REVIEW"
    BY <2>1, <2>2 DEF ReadToEdit, ReadToReview, Read, Reviewable
  <2>3. ASSUME NEW who \in People, NEW v \in Versions, ReadToApprove(p, who, v)
        PROVE  /\ request'[p].at = v
               /\ \E r \in reviews' : r.version = v /\ r.decision = "APPROVE"
               /\ request'[p].op = "approve" /\ request'[p].read.status = "IN_REVIEW"
    BY <1>1, <2>1, <2>3 DEF ReadToApprove, Read, Reviewable, Approvals
  <2>4. ASSUME NEW who \in People, NEW v \in Versions, ReadToRevise(p, who, v)
        PROVE  /\ request'[p].at \in Versions
               /\ request'[p].op = "revise" /\ request'[p].read \in Version
    BY <2>1, <2>4 DEF ReadToRevise, Read
  <2>5. ASSUME ReadToPatch(p) PROVE request'[p].op = "patch"
    BY <2>1, <2>5 DEF ReadToPatch, Read
  <2> QED BY <1>4, <2>2, <2>3, <2>4, <2>5 DEF ReadStep, HasRead
<1>5. request'[p] = request[p] \/ request'[p] = NoRequest \/ ReadStep(p)
  <2>1. request \in [Requests -> Request]
    BY DEF Typed, TypeOK
  <2>2. CASE UNCHANGED request
    BY <2>2
  <2>3. ASSUME NEW q \in Requests, WriteStep(q)
        PROVE  request' = [request EXCEPT ![q] = NoRequest]
    BY <2>3 DEF WriteStep, Edit, AttachRubric, Submit, Revise, RecordReview, Approve, Patch, Writing
  <2>4. ASSUME NEW q \in Requests, ReadStep(q), q # p PROVE request'[p] = request[p]
    BY <2>1, <2>4 DEF ReadStep, ReadToEdit, ReadToRevise, ReadToReview, ReadToApprove, ReadToPatch,
                      Read
  <2>5. Begin \/ UNCHANGED vars => UNCHANGED request
    BY DEF Begin, CreateDraft, FileGenerated, CommitImport, CreateImport, vars
  <2> QED BY <2>1, <2>2, <2>3, <2>4, <2>5 DEF Next
<1> QED BY <1>2, <1>3, <1>4, <1>5

LEMMA TypedNext == Typed /\ [Next]_vars => Typed'
<1>1. Typed /\ UNCHANGED vars => TypeOK'
  BY DEF vars, Typed, TypeOK
<1> QED
  BY <1>1, BeginTyped, ReadStepTyped, WriteStepTyped, ReadInvNext DEF Next, Typed

LEMMA InitTyped == Init => Typed
<1>1. Absent \in Version /\ NoRequest \in Request
  BY BoundsAssumption DEF Absent, Version, NoRequest, Request, Operations, Decisions
<1> QED
  BY <1>1, BoundsAssumption DEF Init, Typed, TypeOK, ReadInv, HasRead, NoRequest, Import, Operations

(* The rows of the bank and the requests on them stay within their types.   *)
THEOREM TypeCorrect == Spec => []TypeOK
<1>1. Typed => TypeOK
  BY DEF Typed
<1> QED BY <1>1, InitTyped, TypedNext, PTL DEF Spec

-----------------------------------------------------------------------------
(* The version that interviews ask.                                         *)

LEMMA LiveNext == Typed /\ LiveIsApproved /\ Step => LiveIsApproved'
<1> SUFFICES ASSUME Typed, LiveIsApproved, Step, live' # 0
             PROVE  version'[live'].status = "APPROVED" \/ live' \in overtaken'
  BY DEF LiveIsApproved
<1>1. CASE live' = live
  <2>1. live \in Versions
    BY <1>1, BoundsAssumption DEF Typed, TypeOK, Versions
  <2> QED BY <1>1, <2>1 DEF Step, StatusStep, LiveIsApproved, Editable
<1>2. CASE live' # live
  BY <1>2 DEF Step, LiveStep
<1> QED BY <1>1, <1>2

LEMMA InitLive == Init => LiveIsApproved
BY DEF Init, LiveIsApproved

(* Every variable keeps its type, every request has read the status its     *)
(* handler demands, and a live version that nobody overtook was approved    *)
(* (record_review, approve).                                                *)
THEOREM SafeTypes == Spec => [](Typed /\ LiveIsApproved)
<1>1. Typed /\ LiveIsApproved /\ [Next]_vars => (Typed /\ LiveIsApproved)'
  BY TypedNext, StepKinds, LiveNext
<1> QED BY <1>1, InitTyped, InitLive, PTL DEF Spec

(* Interviews ask an approved version.                                      *)
THEOREM LiveStaysApproved == Spec => []LiveIsApproved
BY SafeTypes, PTL

(* A version turned down for good is neither reopened nor asked.            *)
THEOREM RejectionIsFinal == Spec => RejectedStays
<1>1. ASSUME Typed, LiveIsApproved, [Next]_vars, NEW v \in Versions,
             version[v].status = "REJECTED", v \notin overtaken'
      PROVE  version'[v].status = version[v].status /\ live' # v
  <2>1. Step
    BY <1>1, StepKinds
  <2>2. version'[v].status = "REJECTED"
    BY <1>1, <2>1 DEF Step, StatusStep, Editable
  <2>3. live # v
    BY <1>1, <2>1, Names DEF LiveIsApproved, Step
  <2> QED BY <1>1, <2>1, <2>2, <2>3 DEF Step, LiveStep
<1>2. Typed /\ LiveIsApproved /\ [Next]_vars
        => [\A v \in Versions :
               version[v].status = "REJECTED" /\ v \notin overtaken' =>
                   version'[v].status = version[v].status /\ live' # v]_vars
  BY <1>1
<1> QED BY <1>2, SafeTypes, PTL DEF Spec, RejectedStays

-----------------------------------------------------------------------------
(* Who approved what.                                                       *)

Deciding(v) ==
    \/ \E r \in reviews : r.version = v
    \/ \E q \in Requests : request[q].op \in {"review", "approve"} /\ request[q].at = v

Excused(v) == WasSentBack(v) \/ v \in overtaken

(* A version under decision stays what its reviewers have read.             *)
Decided ==
    \A v \in Versions :
        Deciding(v) => Excused(v) \/ version[v].status \in {"IN_REVIEW", "APPROVED", "REJECTED"}

AsRead(v, c) == c = version[v].content \/ Excused(v)

ReviewsRead ==
    \A v \in Versions :
        /\ \A r \in reviews : r.version = v /\ r.decision = "APPROVE" => AsRead(v, r.content)
        /\ \A q \in Requests :
              request[q].op = "review" /\ request[q].at = v => AsRead(v, request[q].content)

LiveIsReviewed == live # 0 => live \in overtaken \/ Approvals(live) # {}

ReviewInv == Decided /\ ReviewsRead /\ LiveIsReviewed

LEMMA ExcusedStays == ASSUME Step, NEW v, Excused(v) PROVE Excused(v)'
BY DEF Step, Excused, WasSentBack

(* A version comes under decision when a request reads it in review.        *)
LEMMA NewlyDeciding ==
    ASSUME Typed, [Next]_vars, NEW v \in Versions, Deciding(v)', ~ Deciding(v)
    PROVE  version[v].status = "IN_REVIEW" /\ UNCHANGED version
<1>1. ASSUME NEW q \in Requests, ReadStep(q)
      PROVE  version[v].status = "IN_REVIEW" /\ UNCHANGED version
  <2>1. UNCHANGED <<version, reviews>> /\ \A p \in Requests \ {q} : request'[p] = request[p]
    BY <1>1 DEF ReadStep, ReadToEdit, ReadToRevise, ReadToReview, ReadToApprove, ReadToPatch, Read,
                Typed, TypeOK
  <2>2. request'[q].op \in {"review", "approve"} /\ request'[q].at = v
    BY <2>1 DEF Deciding
  <2>3. ASSUME NEW who \in People, NEW w \in Versions,
               ReadToReview(q, who, w) \/ ReadToApprove(q, who, w)
        PROVE  request'[q].at = w /\ version[w].status = "IN_REVIEW"
    BY <2>3 DEF ReadToReview, ReadToApprove, Read, Reviewable, Typed, TypeOK
  <2>4. ~ ReadToPatch(q) /\ \A who \in People, w \in Versions :
                                 ~ ReadToEdit(q, who, w) /\ ~ ReadToRevise(q, who, w)
    BY <2>2 DEF ReadToPatch, ReadToEdit, ReadToRevise, Read, Typed, TypeOK
  <2> QED BY <1>1, <2>1, <2>2, <2>3, <2>4 DEF ReadStep
<1>2. ASSUME NEW q \in Requests, WriteStep(q) PROVE FALSE
  <2>1. request' = [request EXCEPT ![q] = NoRequest]
    BY <1>2 DEF WriteStep, Edit, AttachRubric, Submit, Revise, RecordReview, Approve, Patch, Writing
  <2>2. \A p \in Requests : request'[p].op \in {"review", "approve"} => request'[p] = request[p]
    BY <2>1 DEF NoRequest, Typed, TypeOK
  <2>3. CASE RecordReview(q)
    <3>1. request[q].op = "review" /\ \A r \in reviews' : r \in reviews \/ r.version = request[q].at
      BY <2>3 DEF RecordReview, Writing, Target
    <3> QED BY <2>2, <3>1 DEF Deciding
  <2>4. CASE UNCHANGED reviews
    BY <2>2, <2>4 DEF Deciding
  <2> QED BY <1>2, <2>3, <2>4 DEF WriteStep, Edit, AttachRubric, Submit, Revise, Approve, Patch
<1>3. CASE Begin \/ UNCHANGED vars
  <2>1. UNCHANGED <<reviews, request>>
    BY <1>3 DEF Begin, CreateDraft, FileGenerated, CommitImport, CreateImport, vars
  <2> QED BY <2>1 DEF Deciding
<1> QED BY <1>1, <1>2, <1>3 DEF Next

LEMMA DecidedNext == Typed /\ Decided /\ [Next]_vars => Decided'
<1> SUFFICES ASSUME Typed, Decided, [Next]_vars, NEW v \in Versions, Deciding(v)'
             PROVE  Excused(v)' \/ version'[v].status \in {"IN_REVIEW", "APPROVED", "REJECTED"}
  BY DEF Decided
<1>1. Step
  BY StepKinds
<1>2. CASE ~ Deciding(v)
  BY <1>2, NewlyDeciding
<1>3. CASE Deciding(v) /\ Excused(v)
  BY <1>1, <1>3, ExcusedStays
<1>4. CASE version[v].status \in {"IN_REVIEW", "APPROVED", "REJECTED"}
  <2>1. StatusStep(v)
    BY <1>1 DEF Step
  <2> QED BY <1>4, <2>1 DEF StatusStep, Excused, Editable
<1> QED BY <1>2, <1>3, <1>4 DEF Decided

(* What was read of a version under decision is still what it says.         *)
LEMMA ContentStays ==
    ASSUME Typed, Decided, Step, NEW v \in Versions, Deciding(v), NEW c, AsRead(v, c)
    PROVE  AsRead(v, c)'
<1>1. ContentStep(v)
  BY DEF Step
<1>2. Excused(v) \/ version[v].status \notin Editable \cup {"ABSENT"}
  BY DEF Decided, Editable
<1> QED BY <1>1, <1>2, ExcusedStays DEF ContentStep, Excused, AsRead

LEMMA ReviewsReadNext == Typed /\ Decided /\ ReviewsRead /\ [Next]_vars => ReviewsRead'
<1> SUFFICES ASSUME Typed, Decided, ReviewsRead, [Next]_vars, NEW v \in Versions
             PROVE  /\ \A r \in reviews' :
                          r.version = v /\ r.decision = "APPROVE" => AsRead(v, r.content)'
                    /\ \A p \in Requests :
                          request'[p].op = "review" /\ request'[p].at = v =>
                              \A c : c = request'[p].content => AsRead(v, c)'
  BY DEF ReviewsRead, AsRead
<1>1. Step
  BY StepKinds
<1>2. ASSUME NEW q \in Requests, request[q].op = "review", request[q].at = v,
             NEW c, c = request[q].content
      PROVE  AsRead(v, c)'
  <2>1. Deciding(v) /\ AsRead(v, c)
    BY <1>2 DEF Deciding, ReviewsRead
  <2> QED BY <1>1, <2>1, ContentStays
<1>3. ASSUME NEW r \in reviews', r.version = v, r.decision = "APPROVE"
      PROVE  AsRead(v, r.content)'
  <2>1. CASE r \in reviews
    <3>1. Deciding(v) /\ AsRead(v, r.content)
      BY <1>3, <2>1 DEF Deciding, ReviewsRead
    <3> QED BY <1>1, <3>1, ContentStays
  <2>2. CASE r \notin reviews
    <3>1. PICK q \in Requests : RecordReview(q)
      BY <2>2 DEF Next, Begin, CreateDraft, FileGenerated, CommitImport, CreateImport, vars,
                  ReadStep, ReadToEdit, ReadToRevise, ReadToReview, ReadToApprove, ReadToPatch,
                  Read, WriteStep, Edit, AttachRubric, Submit, Revise, Approve, Patch
    <3>2. /\ request[q].op = "review"
          /\ r.version = request[q].at /\ r.content = request[q].content
      BY <2>2, <3>1 DEF RecordReview, Writing, Target
    <3> QED BY <1>2, <1>3, <3>2
  <2> QED BY <2>1, <2>2
<1>4. ASSUME NEW p \in Requests, request'[p].op = "review", request'[p].at = v,
             NEW c, c = request'[p].content
      PROVE  AsRead(v, c)'
  <2>1. CASE request'[p] = request[p]
    BY <1>2, <1>4, <2>1
  <2>2. ASSUME NEW who \in People, NEW w \in Versions, ReadToReview(p, who, w)
        PROVE  w = v /\ c = version'[v].content
    BY <1>4, <2>2 DEF ReadToReview, Read, Typed, TypeOK
  <2>3. request'[p] = request[p] \/ \E who \in People, w \in Versions : ReadToReview(p, who, w)
    <3>1. request \in [Requests -> Request] /\ NoRequest.op # "review"
      BY DEF Typed, TypeOK, NoRequest
    <3>2. ASSUME NEW q \in Requests, WriteStep(q)
          PROVE  request' = [request EXCEPT ![q] = NoRequest]
      BY <3>2 DEF WriteStep, Edit, AttachRubric, Submit, Revise, RecordReview, Approve, Patch, Writing
    <3>3. ASSUME NEW q \in Requests, ReadStep(q), q # p PROVE request'[p] = request[p]
      BY <3>1, <3>3 DEF ReadStep, ReadToEdit, ReadToRevise, ReadToReview, ReadToApprove,
                        ReadToPatch, Read
    <3>4. ASSUME ReadStep(p) PROVE \E who \in People, w \in Versions : ReadToReview(p, who, w)
      BY <1>4, <3>1, <3>4 DEF ReadStep, ReadToEdit, ReadToRevise, ReadToApprove, ReadToPatch, Read
    <3>5. Begin \/ UNCHANGED vars => UNCHANGED request
      BY DEF Begin, CreateDraft, FileGenerated, CommitImport, CreateImport, vars
    <3> QED BY <1>4, <3>1, <3>2, <3>3, <3>4, <3>5 DEF Next
  <2> QED BY <2>1, <2>2, <2>3 DEF AsRead
<1> QED BY <1>3, <1>4

LEMMA LiveIsReviewedNext == LiveIsReviewed /\ Step => LiveIsReviewed'
BY ApprovalsStay DEF LiveIsReviewed, Step, LiveStep

(* The version that interviews ask was approved, as it is, by somebody who  *)
(* read it.                                                                 *)
THEOREM LiveWasReviewed == Spec => []ApprovedAsReviewed
<1>1. Init => ReviewInv
  BY DEF Init, ReviewInv, Decided, ReviewsRead, LiveIsReviewed, Deciding, NoRequest
<1>2. Typed /\ ReviewInv /\ [Next]_vars => ReviewInv'
  BY DecidedNext, ReviewsReadNext, StepKinds, LiveIsReviewedNext DEF ReviewInv
<1>3. Typed /\ ReviewInv => ApprovedAsReviewed
  BY DEF ReviewInv, ReviewsRead, LiveIsReviewed, ApprovedAsReviewed, Approvals, Excused,
         AsRead, Typed, TypeOK, Review
<1> QED BY <1>1, <1>2, <1>3, InitTyped, TypedNext, PTL DEF Spec

=============================================================================

--------------------------- MODULE JdVersions_proofs ---------------------------
(***************************************************************************)
(* Proofs about job descriptions, for any number of rows, versions,        *)
(* workers and retries: the types; that only the requests of               *)
(* administrators change a job; that a version which is not parsed yet has *)
(* a task that will finish it; and that a job is what its one active       *)
(* version says.  The last two follow from JdInv, which says of every task *)
(* what it is for and that nothing else names its version.                 *)
(***************************************************************************)
EXTENDS JdVersions, TLAPS

Rowed == DOMAIN row = Rows

LEMMA InitRowed == Init => Rowed
BY DEF Init, Rowed

LEMMA MarkKeepsJobs ==
    ASSUME Rowed, NEW q, NEW s, MarkUpload(q, s)
    PROVE  DOMAIN row' = Rows /\ \A r \in Rows : IsJob(r) => row'[r] = row[r]
BY DEF Rowed, MarkUpload, IsUpload, IsJob

(* What a step that no administrator asked for does to the rows.            *)
Spared == DOMAIN row' = Rows /\ \A r \in Rows : IsJob(r) => row'[r] = row[r]

LEMMA RunSpares == ASSUME Rowed, NEW w \in Workers, Run(w) PROVE Spared
<1>1. ASSUME row' = row PROVE Spared
  BY <1>1 DEF Rowed, Spared
<1>2. CASE Claim(w) \/ Fail(w) \/ FailAgain(w) \/ Release(w)
  BY <1>1, <1>2, MarkKeepsJobs DEF Claim, Fail, FailAgain, Release, Spared
<1>3. CASE Complete(w)
  BY <1>3 DEF Complete, Rowed, Spared, IsUpload, IsJob
<1>4. CASE \/ \E t \in BagToSet(queue) : Start(w, t)
           \/ NotClaimed(w) \/ SetupFails(w) \/ Copy(w) \/ Retry(w) \/ Acknowledge(w)
  BY <1>1, <1>4 DEF Start, NotClaimed, SetupFails, Copy, Retry, Acknowledge
<1> QED BY <1>2, <1>3, <1>4 DEF Run

LEMMA AdministerEdits ==
    ASSUME Rowed, Administer
    PROVE  /\ DOMAIN row' = Rows
           /\ \A r \in Rows : IsJob(r) /\ row'[r] # row[r] =>
                 EditJob(r) \/ DeleteJob(r) \/ \E v \in VersionsOf(r) : Publish(v)
<1> DEFINE Edited ==
             /\ DOMAIN row' = Rows
             /\ \A r \in Rows : IsJob(r) /\ row'[r] # row[r] =>
                   EditJob(r) \/ DeleteJob(r) \/ \E v \in VersionsOf(r) : Publish(v)
<1>1. ASSUME Spared PROVE Edited
  BY <1>1 DEF Spared
<1>2. ASSUME NEW q \in Rows, Upload(q) \/ (\E job \in Rows, v \in Versions : CreateVersion(job, q, v))
      PROVE  Spared
  BY <1>2 DEF Upload, CreateVersion, NewUpload, Rowed, Spared, IsJob
<1>3. ASSUME NEW q \in Rows, ReparseUpload(q) PROVE Spared
  BY <1>3, MarkKeepsJobs DEF ReparseUpload, Spared
<1>4. ASSUME NEW q \in Rows, PatchUpload(q) \/ DeleteUpload(q)
             \/ (\E v \in Versions, listing \in Listings : Finalize(q, v, listing))
      PROVE  Spared
  BY <1>4 DEF PatchUpload, DeleteUpload, Finalize, Rowed, Spared, IsUpload, IsJob
<1>5. ASSUME NEW q \in Rows, ReadToFinalize(q) \/ FinalizeRefused(q) PROVE Spared
  BY <1>5 DEF ReadToFinalize, FinalizeRefused, Rowed, Spared
<1>6. ASSUME NEW t \in unsent, SendTask(t) \/ RequestDies(t) PROVE Spared
  BY <1>6 DEF SendTask, RequestDies, Rowed, Spared
<1>7. ASSUME NEW v \in Versions, Publish(v) PROVE Edited
  BY <1>7 DEF Publish, Rowed, VersionsOf
<1>8. ASSUME NEW q \in Rows, EditJob(q) \/ DeleteJob(q) PROVE Edited
  <2>1. DOMAIN row' = Rows /\ \A r \in Rows \ {q} : row'[r] = row[r]
    BY <1>8 DEF EditJob, DeleteJob, Rowed
  <2> QED BY <1>8, <2>1
<1> HIDE DEF Edited
<1>9. Edited
  BY <1>1, <1>2, <1>3, <1>4, <1>5, <1>6, <1>7, <1>8 DEF Administer
<1> QED BY <1>9 DEF Edited

(* Jobs change by the requests of administrators only.                      *)
THEOREM OnlyAdministratorsEdit == Spec => JobsAreEditedOnly
<1>1. ASSUME Rowed, [Next]_vars
      PROVE  /\ Rowed'
             /\ [\A r \in Rows : IsJob(r) /\ row'[r] # row[r] =>
                     EditJob(r) \/ DeleteJob(r) \/ \E v \in VersionsOf(r) : Publish(v)]_vars
  <2>1. CASE Administer
    BY <1>1, <2>1, AdministerEdits DEF Rowed
  <2>2. ASSUME Spared PROVE Rowed' /\ \A r \in Rows : IsJob(r) => row'[r] = row[r]
    BY <2>2 DEF Spared, Rowed
  <2>3. CASE \E w \in Workers : Run(w)
    BY <1>1, <2>2, <2>3, RunSpares
  <2>4. CASE (\E w \in Workers : WorkerDies(w)) \/ (\E q \in Rows : GoStale(q))
    <3>1. Spared
      BY <1>1, <2>4 DEF WorkerDies, GoStale, Rowed, Spared, IsUpload, IsJob
    <3> QED BY <2>2, <3>1
  <2>5. CASE UNCHANGED vars
    BY <1>1, <2>5 DEF vars, Rowed
  <2> QED BY <1>1, <2>1, <2>3, <2>4, <2>5 DEF Next
<1> QED BY <1>1, InitRowed, PTL DEF Spec, JobsAreEditedOnly

-----------------------------------------------------------------------------
(* The types.                                                               *)

(* A worker that is not idle holds a task, and retries only while it may.   *)
Holding ==
    \A w \in Workers : /\ pc[w] # "idle" => task[w] \in Tasks
                       /\ pc[w] = "retry" => task[w].tries < MaxRetries

LEMMA BagsTyped ==
    ASSUME NEW B, NEW S, IsABag(B), BagToSet(B) \subseteq S, NEW t \in S
    PROVE  /\ IsABag(B (+) SetToBag({t})) /\ BagToSet(B (+) SetToBag({t})) \subseteq S
           /\ IsABag(B (-) SetToBag({t})) /\ BagToSet(B (-) SetToBag({t})) \subseteq S
BY DEF IsABag, BagToSet, SetToBag, (+), (-)

LEMMA InitTypeOK == Init => TypeOK /\ Holding
<1> SUFFICES ASSUME Init PROVE TypeOK /\ Holding
  OBVIOUS
<1>1. row \in [Rows -> Row] /\ version \in [Versions -> Version]
  BY DEF Init, Row, Version, NewVersion
<1>2. IsABag(queue) /\ BagToSet(queue) \subseteq Tasks
  BY DEF Init, EmptyBag, IsABag, BagToSet, SetToBag
<1> QED BY <1>1, <1>2 DEF Init, TypeOK, Holding

LEMMA RowWritten ==
    ASSUME TypeOK, NEW r \in Rows, row' = [q \in Rows |-> row'[q]],
           \A q \in Rows \ {r} : row'[q] = row[q], row'[r] \in Row
    PROVE  row' \in [Rows -> Row]
BY DEF TypeOK

LEMMA MarkTyped ==
    ASSUME TypeOK, NEW r \in Rows, NEW s \in {"PENDING", "PARSING", "DONE", "FAILED"}, MarkUpload(r, s)
    PROVE  row' \in [Rows -> Row]
<1>1. CASE IsUpload(r)
  <2>1. row' = [q \in Rows |-> row'[q]] /\ \A q \in Rows \ {r} : row'[q] = row[q]
    BY <1>1 DEF MarkUpload, TypeOK
  <2>2. row'[r] = [row[r] EXCEPT !.status = s, !.fresh = TRUE]
    BY <1>1 DEF MarkUpload, TypeOK
  <2>3. row'[r] \in Row
    BY <2>2, ZenonT(60) DEF TypeOK, Row
  <2> QED BY <2>1, <2>3, RowWritten
<1>2. CASE ~ IsUpload(r)
  BY <1>2 DEF MarkUpload, TypeOK
<1> QED BY <1>1, <1>2

LEMMA TaskTyped ==
    ASSUME NEW r \in Rows, NEW v \in Versions \cup {NoVersion}
    PROVE  Task(r, v, 0) \in Tasks
BY BoundsAssumption DEF Task, Tasks

(* The requests.                                                            *)
LEMMA AdministerTypeOK == ASSUME TypeOK, Holding, Administer PROVE TypeOK' /\ Holding'
<1>1. Holding' /\ UNCHANGED <<pc, task, twice>>
  BY DEF Administer, Upload, CreateVersion, ReparseUpload, SendTask, RequestDies, PatchUpload,
         DeleteUpload, ReadToFinalize, Finalize, FinalizeRefused, Publish, EditJob, DeleteJob,
         workerVars, history, Holding
<1>2. ASSUME NEW r \in Rows, NewUpload(r) PROVE row' \in [Rows -> Row]
  BY <1>2 DEF NewUpload, TypeOK, Row
<1>3. ASSUME NEW r \in Rows, Upload(r) PROVE TypeOK'
  BY <1>1, <1>2, <1>3, TaskTyped DEF Upload, TypeOK, history
<1>4. ASSUME NEW job \in Rows, NEW r \in Rows, NEW v \in Versions, CreateVersion(job, r, v)
      PROVE  TypeOK'
  <2>1. version' \in [Versions -> Version]
    BY <1>4 DEF CreateVersion, TypeOK, Version, NewVersion
  <2> QED BY <1>1, <1>2, <1>4, <2>1, TaskTyped DEF CreateVersion, TypeOK, history
<1>5. ASSUME NEW r \in Rows, ReparseUpload(r) PROVE TypeOK'
  BY <1>1, <1>5, TaskTyped, MarkTyped DEF ReparseUpload, TypeOK
<1>6. ASSUME NEW t \in unsent, SendTask(t) \/ RequestDies(t) PROVE TypeOK'
  <2>1. t \in Tasks /\ t.upload \in Rows
    BY DEF TypeOK, Tasks
  <2>2. CASE SendTask(t)
    BY <1>1, <2>1, <2>2, BagsTyped DEF SendTask, TypeOK, history
  <2>3. CASE RequestDies(t)
    BY <1>1, <2>1, <2>3 DEF RequestDies, TypeOK
  <2> QED BY <1>6, <2>2, <2>3
<1>7. ASSUME NEW r \in Rows, PatchUpload(r) PROVE TypeOK'
  <2>1. PICK c \in Contents : row' = [row EXCEPT ![r].content = c, ![r].fresh = TRUE]
    BY <1>7 DEF PatchUpload
  <2>2. row' = [q \in Rows |-> row'[q]] /\ \A q \in Rows \ {r} : row'[q] = row[q]
    BY <2>1 DEF TypeOK
  <2>3. row'[r] = [row[r] EXCEPT !.content = c, !.fresh = TRUE]
    BY <2>1 DEF TypeOK
  <2>4. row'[r] \in Row
    BY <2>3, ZenonT(60) DEF TypeOK, Row
  <2>5. row' \in [Rows -> Row]
    BY <2>2, <2>4, RowWritten
  <2> QED BY <1>1, <1>7, <2>5 DEF PatchUpload, TypeOK, history
<1>8. ASSUME NEW r \in Rows, DeleteUpload(r) \/ DeleteJob(r) PROVE TypeOK'
  <2>1. row' \in [Rows -> Row]
    BY <1>8 DEF DeleteUpload, DeleteJob, TypeOK, Row
  <2>2. Orphaned(r) \in [Versions -> Version]
    BY DEF Orphaned, TypeOK, Version
  <2>3. [NewVersion EXCEPT !.job = Deleted] \in Version
    BY DEF NewVersion, Version
  <2>4. version' \in [Versions -> Version]
    BY <1>8, <2>2, <2>3 DEF DeleteUpload, DeleteJob
  <2> QED BY <1>1, <1>8, <2>1, <2>4 DEF DeleteUpload, DeleteJob, TypeOK, history
<1>9. ASSUME NEW r \in Rows, ReadToFinalize(r) \/ FinalizeRefused(r) PROVE TypeOK'
  BY <1>1, <1>9 DEF ReadToFinalize, FinalizeRefused, TypeOK, history
<1>10. ASSUME NEW r \in Rows, NEW v \in Versions, NEW listing \in Listings, Finalize(r, v, listing)
       PROVE  TypeOK'
  <2>1. row' \in [Rows -> Row]
    <3>1. row' = [q \in Rows |-> row'[q]] /\ \A q \in Rows \ {r} : row'[q] = row[q]
      BY <1>10 DEF Finalize, TypeOK
    <3>2. row'[r] = [row[r] EXCEPT !.item = "JOB_DESCRIPTION", !.status = listing,
                                   !.active = IF listing = "ACTIVE" THEN v ELSE @]
      BY <1>10 DEF Finalize, TypeOK
    <3>3. PICK a \in Versions \cup {NoVersion} :
             row'[r] = [row[r] EXCEPT !.item = "JOB_DESCRIPTION", !.status = listing, !.active = a]
      <4>1. CASE listing = "ACTIVE"
        BY <3>2, <4>1
      <4>2. CASE listing # "ACTIVE"
        <5>1. row[r].active \in Versions \cup {NoVersion}
          BY DEF TypeOK, Row
        <5> QED BY <3>2, <4>2, <5>1
      <4> QED BY <4>1, <4>2
    <3>4. row'[r] \in Row
      BY <3>3, ZenonT(60) DEF TypeOK, Row, Listings
    <3> QED BY <3>1, <3>4, RowWritten
  <2>2. row[r].content \in Contents \cup {NoContent}
    BY DEF TypeOK, Row
  <2>3. version' \in [Versions -> Version]
    BY <1>10, <2>2 DEF Finalize, TypeOK, Version, NewVersion
  <2> QED BY <1>1, <1>10, <2>1, <2>3 DEF Finalize, TypeOK, history
<1>11. ASSUME NEW v \in Versions, Publish(v) PROVE TypeOK'
  <2>1. version[v].content \in Contents \cup {NoContent} /\ version[v].job \in Rows
    BY <1>11 DEF Publish, TypeOK, Version
  <2>2. row' \in [Rows -> Row]
    BY <1>11, <2>1 DEF Publish, TypeOK, Row, Listings
  <2>3. \A u \in Versions : Published(v)[u] \in Version
    <3> SUFFICES ASSUME NEW u \in Versions PROVE Published(v)[u] \in Version
      OBVIOUS
    <3>1. version[u] \in Version
      BY DEF TypeOK
    <3>2. Published(v)[u] \in {version[u], [version[u] EXCEPT !.status = "ACTIVE"],
                              [version[u] EXCEPT !.status = "SUPERSEDED"]}
      BY DEF Published
    <3> QED BY <3>1, <3>2 DEF Version
  <2>4. version' \in [Versions -> Version]
    BY <1>11, <2>3 DEF Publish, Published
  <2> QED BY <1>1, <1>11, <2>2, <2>4 DEF Publish, TypeOK, history
<1>12. ASSUME NEW r \in Rows, EditJob(r) PROVE TypeOK'
  <2>1. row' \in [Rows -> Row]
    BY <1>12 DEF EditJob, TypeOK, Row
  <2> QED BY <1>1, <1>12, <2>1 DEF EditJob, TypeOK, history
<1> QED
  BY <1>1, <1>3, <1>4, <1>5, <1>6, <1>7, <1>8, <1>9, <1>10, <1>11, <1>12 DEF Administer

(* The workers.                                                             *)
Labels == {"idle", "start", "parse", "copy", "failed", "retry", "ack"}

(* A worker goes on with its task.                                          *)
LEMMA GotoTyped ==
    ASSUME TypeOK, Holding, NEW w \in Workers, NEW label \in Labels, Goto(w, label),
           pc[w] # "idle", label = "retry" => task[w].tries < MaxRetries, UNCHANGED task
    PROVE  pc' \in [Workers -> Labels] /\ Holding'
<1>1. /\ pc' \in [Workers -> Labels] /\ pc'[w] = label
      /\ \A x \in Workers \ {w} : pc'[x] = pc[x]
  BY DEF TypeOK, Goto, Labels
<1> QED BY <1>1 DEF Holding

LEMMA RunTypeOK == ASSUME TypeOK, Holding, NEW w \in Workers, Run(w) PROVE TypeOK' /\ Holding'
<1>1. pc[w] # "idle" => Held(w) \in Rows /\ HeldVersion(w) \in Versions \cup {NoVersion}
  BY DEF Holding, Tasks, Held, HeldVersion
<1>2. ASSUME NEW p \in {"PENDING", "PROCESSING", "DONE", "FAILED"}, MarkVersion(w, p)
      PROVE  version' \in [Versions -> Version]
  BY <1>2 DEF MarkVersion, TypeOK, Version
<1>3. ASSUME NEW t \in BagToSet(queue), Start(w, t) PROVE TypeOK' /\ Holding'
  <2>1. t \in Tasks /\ IsABag(queue') /\ BagToSet(queue') \subseteq Tasks
    BY <1>3, BagsTyped DEF TypeOK, Start
  <2>2. version' \in [Versions -> Version]
    BY <1>3 DEF Start, TypeOK, Version
  <2>3. /\ pc' \in [Workers -> Labels] /\ pc'[w] = "start"
        /\ \A x \in Workers \ {w} : pc'[x] = pc[x] /\ task'[x] = task[x]
        /\ task' \in [Workers -> Tasks \cup {NoTask}] /\ task'[w] = t
    BY <1>3, <2>1 DEF Start, Goto, TypeOK, Labels
  <2>4. Holding'
    BY <2>1, <2>3 DEF Holding
  <2> QED BY <1>3, <2>1, <2>2, <2>3, <2>4 DEF Start, TypeOK, Labels, history
<1>4. CASE Claim(w) \/ Fail(w) \/ FailAgain(w) \/ Release(w)
  <2>1. pc[w] # "idle" /\ UNCHANGED <<queue, unsent, finalizing, task, history>>
    BY <1>4 DEF Claim, Fail, FailAgain, Release
  <2>2. row' \in [Rows -> Row]
    <3>1. UNCHANGED row \/ \E s \in {"PENDING", "PARSING", "DONE", "FAILED"} : MarkUpload(Held(w), s)
      BY <1>4 DEF Claim, Fail, FailAgain, Release
    <3> QED BY <1>1, <2>1, <3>1, MarkTyped DEF TypeOK
  <2>3. version' \in [Versions -> Version]
    BY <1>2, <1>4 DEF Claim, Fail, FailAgain, Release, TypeOK
  <2>4. \E label \in Labels : Goto(w, label) /\ (label = "retry" => task[w].tries < MaxRetries)
    BY <1>4 DEF Claim, Fail, FailAgain, Release, Labels
  <2>5. pc' \in [Workers -> Labels] /\ Holding'
    BY <2>1, <2>4, GotoTyped
  <2> QED BY <2>1, <2>2, <2>3, <2>5 DEF TypeOK, Labels, history
<1>5. CASE NotClaimed(w) \/ SetupFails(w)
  <2>1. pc[w] # "idle" /\ UNCHANGED <<row, version, queue, unsent, finalizing, task, history>>
    BY <1>5 DEF NotClaimed, SetupFails
  <2>2. \E label \in Labels : Goto(w, label) /\ (label = "retry" => task[w].tries < MaxRetries)
    BY <1>5 DEF NotClaimed, SetupFails, Labels
  <2>3. pc' \in [Workers -> Labels] /\ Holding'
    BY <2>1, <2>2, GotoTyped
  <2> QED BY <2>1, <2>3 DEF TypeOK, Labels, history
<1>6. CASE Complete(w)
  <2>1. pc[w] # "idle" /\ UNCHANGED <<version, queue, unsent, finalizing, task, history>>
    BY <1>6 DEF Complete
  <2>2. row' \in [Rows -> Row]
    <3>1. CASE IsUpload(Held(w))
      <4>1. PICK c \in Contents : row' = [row EXCEPT ![Held(w)].status = "DONE", ![Held(w)].content = c,
                                                      ![Held(w)].fresh = TRUE]
        BY <1>6, <3>1 DEF Complete
      <4>2. row' = [q \in Rows |-> row'[q]] /\ \A q \in Rows \ {Held(w)} : row'[q] = row[q]
        BY <4>1 DEF TypeOK
      <4>3. row'[Held(w)] = [row[Held(w)] EXCEPT !.status = "DONE", !.content = c, !.fresh = TRUE]
        BY <1>1, <2>1, <4>1 DEF TypeOK
      <4>4. row'[Held(w)] \in Row
        BY <1>1, <2>1, <4>3, ZenonT(60) DEF TypeOK, Row
      <4> QED BY <1>1, <2>1, <4>2, <4>4, RowWritten
    <3>2. CASE ~ IsUpload(Held(w))
      BY <1>6, <3>2 DEF Complete, TypeOK
    <3> QED BY <3>1, <3>2
  <2>3. \E label \in {"ack", "copy"} : Goto(w, label)
    BY <1>6 DEF Complete
  <2>4. pc' \in [Workers -> Labels] /\ Holding'
    BY <2>1, <2>3, GotoTyped DEF Labels
  <2> QED BY <2>1, <2>2, <2>4 DEF TypeOK, Labels, history
<1>7. CASE Copy(w)
  <2>1. pc[w] # "idle" /\ Goto(w, "ack") /\ UNCHANGED <<row, queue, unsent, finalizing, task, history>>
    BY <1>7 DEF Copy
  <2>2. row[Held(w)].content \in Contents \cup {NoContent}
    BY <1>1, <2>1 DEF TypeOK, Row
  <2>3. version' \in [Versions -> Version]
    <3>1. ASSUME NEW v \in Versions PROVE version'[v] \in Version
      <4>1. \/ version'[v] = version[v]
            \/ version'[v] = [version[v] EXCEPT !.processing = "DONE", !.content = row[Held(w)].content]
        BY <1>7 DEF Copy
      <4>2. version[v] \in Version
        BY DEF TypeOK
      <4> QED BY <2>2, <4>1, <4>2 DEF Version
    <3>2. version' = [v \in Versions |-> version'[v]]
      BY <1>7 DEF Copy
    <3> QED BY <3>1, <3>2
  <2>4. pc' \in [Workers -> Labels] /\ Holding'
    BY <2>1, GotoTyped DEF Labels
  <2> QED BY <2>1, <2>3, <2>4 DEF TypeOK, Labels, history
<1>8. CASE Retry(w)
  <2>1. /\ pc[w] = "retry" /\ Goto(w, "ack")
        /\ UNCHANGED <<row, version, unsent, finalizing, task, history>>
    BY <1>8 DEF Retry
  <2>2. task[w] \in Tasks /\ task[w].tries < MaxRetries
    BY <2>1 DEF Holding
  <2>3. [task[w] EXCEPT !.tries = @ + 1] \in Tasks
    BY <2>2, BoundsAssumption DEF Tasks
  <2>4. IsABag(queue') /\ BagToSet(queue') \subseteq Tasks
    BY <1>8, <2>3, BagsTyped, ZenonT(60) DEF Retry, TypeOK
  <2>5. pc' \in [Workers -> Labels] /\ Holding'
    BY <2>1, GotoTyped DEF Labels
  <2> QED BY <2>1, <2>4, <2>5 DEF TypeOK, Labels, history
<1>9. CASE Acknowledge(w)
  <2>1. Idle(w) /\ UNCHANGED <<row, version, queue, unsent, finalizing, history>>
    BY <1>9 DEF Acknowledge
  <2>2. TypeOK' /\ Holding'
    BY <2>1 DEF Idle, Goto, TypeOK, Holding, history
  <2> QED BY <2>2
<1> QED BY <1>3, <1>4, <1>5, <1>6, <1>7, <1>8, <1>9 DEF Run

LEMMA TypeStep == ASSUME TypeOK, Holding, [Next]_vars PROVE TypeOK' /\ Holding'
<1>1. CASE Administer
  BY <1>1, AdministerTypeOK
<1>2. CASE \E w \in Workers : Run(w)
  BY <1>2, RunTypeOK
<1>3. ASSUME NEW w \in Workers, WorkerDies(w) PROVE TypeOK' /\ Holding'
  <2>1. task[w] \in Tasks /\ HeldVersion(w) \in Versions
    BY <1>3 DEF WorkerDies, Holding
  <2>2. IsABag(queue') /\ BagToSet(queue') \subseteq Tasks
    BY <1>3, <2>1, BagsTyped DEF WorkerDies, TypeOK
  <2>3. Idle(w) /\ twice' \subseteq Versions /\ UNCHANGED <<row, version, unsent, finalizing, again>>
    BY <1>3, <2>1 DEF WorkerDies, TypeOK
  <2> QED BY <2>2, <2>3 DEF Idle, Goto, TypeOK, Holding
<1>4. ASSUME NEW r \in Rows, GoStale(r) PROVE TypeOK' /\ Holding'
  <2>1. row' \in [Rows -> Row]
    <3>1. row' = [row EXCEPT ![r] = [row[r] EXCEPT !.fresh = FALSE]]
      BY <1>4 DEF GoStale
    <3>2. row \in [Rows -> Row] /\ row[r] \in Row
      BY DEF TypeOK
    <3>3. [row[r] EXCEPT !.fresh = FALSE] \in Row
      BY <3>2 DEF Row
    <3> QED BY <3>1, <3>2, <3>3
  <2> QED BY <1>4, <2>1 DEF GoStale, TypeOK, Holding, workerVars, history
<1>5. CASE UNCHANGED vars
  BY <1>5 DEF vars, workerVars, history, TypeOK, Holding
<1> QED BY <1>1, <1>2, <1>3, <1>4, <1>5 DEF Next

(* The rows, the versions, the tasks and the workers have their types.      *)
THEOREM TypeCorrect == Spec => []TypeOK
<1>1. TypeOK /\ Holding /\ [Next]_vars => TypeOK' /\ Holding'
  BY TypeStep
<1> QED BY <1>1, InitTypeOK, PTL DEF Spec

-----------------------------------------------------------------------------
(* The tasks and what they are for: the invariant behind the two properties *)
(* of versions.                                                             *)

Waiting == unsent \cup BagToSet(queue)

Known == Waiting \cup {task[w] : w \in {w \in Workers : pc[w] # "idle"}}

Working(w) == pc[w] \notin {"idle", "ack"}

(* What the rows hold, and when: a row nobody used yet is blank, and a      *)
(* parsed upload, one that is being finalized and a job say something.      *)
RowsSound ==
    \A r \in Rows :
        /\ row[r].item = "NONE" => row[r].status = "PENDING" /\ r \notin finalizing
        /\ ~ IsJob(r) => row[r].active = NoVersion
        /\ IsJob(r) \/ r \in finalizing \/ (IsUpload(r) /\ row[r].status = "DONE") =>
              row[r].content # NoContent

VersionsSound ==
    \A v \in Versions :
        /\ version[v].job \in Rows => IsJob(version[v].job)
        /\ version[v].source \in Rows => row[version[v].source].item \notin {"NONE", "GONE"}

(* A task is for the source of the version it names; and names it, unless   *)
(* the upload was sent to be parsed again.                                  *)
TasksSound ==
    \A t \in Known :
        /\ row[t.upload].item # "NONE"
        /\ t.version \in Versions =>
              version[t.version].job # NoRow /\ version[t.version].source \in {NoRow, t.upload}
        /\ t.upload \notin again =>
              \A v \in Versions : version[v].source = t.upload => t.version = v

CopySound ==
    \A w \in Workers :
        pc[w] = "copy" => row[Held(w)].content # NoContent \/ row[Held(w)].item = "GONE"

(* One task at a time names a version.                                      *)
Once(v) ==
    /\ \A t \in Waiting :
          t.version = v =>
              /\ t \in unsent => t \notin BagToSet(queue)
              /\ t \in BagToSet(queue) => queue[t] = 1
              /\ \A u \in Waiting : u.version = v => u = t
              /\ \A w \in Workers : Working(w) => HeldVersion(w) # v
    /\ \A w, x \in Workers :
          Working(w) /\ Working(x) /\ HeldVersion(w) = v /\ HeldVersion(x) = v => w = x

TasksOnce == \A v \in Versions \ twice : Once(v)

-----------------------------------------------------------------------------

LEMMA BagAdds ==
    ASSUME NEW B, IsABag(B), NEW t, NEW C, C = B (+) SetToBag({t})
    PROVE  /\ BagToSet(C) = BagToSet(B) \cup {t}
           /\ \A u \in BagToSet(B) : u # t => C[u] = B[u]
           /\ t \notin BagToSet(B) => C[t] = 1
BY DEF IsABag, BagToSet, SetToBag, (+)

LEMMA BagTakes ==
    ASSUME NEW B, IsABag(B), NEW t \in BagToSet(B), NEW C, C = B (-) SetToBag({t})
    PROVE  /\ BagToSet(B) \ {t} \subseteq BagToSet(C)
           /\ BagToSet(C) \subseteq BagToSet(B)
           /\ \A u \in BagToSet(C) : u # t => C[u] = B[u]
           /\ B[t] = 1 => t \notin BagToSet(C)
BY DEF IsABag, BagToSet, SetToBag, (-)

(* The requests that ask for a parse.                                       *)
Asks(r, v) ==
    \/ Upload(r) /\ v = NoVersion
    \/ ReparseUpload(r) /\ v = NoVersion
    \/ v \in Versions /\ \E job \in Rows : CreateVersion(job, r, v)

(* The steps that leave the tasks where they are.                           *)
LeavesTasks == UNCHANGED <<queue, unsent, task, again, twice>>

LEMMA AdministerTasks ==
    ASSUME Administer
    PROVE  /\ UNCHANGED <<pc, task, twice>>
           /\ \/ \E r \in Rows, v \in Versions \cup {NoVersion} : Asks(r, v)
              \/ \E t \in unsent : SendTask(t) \/ RequestDies(t)
              \/ LeavesTasks
<1>1. ASSUME NEW r \in Rows, Upload(r) \/ ReparseUpload(r)
      PROVE  UNCHANGED <<pc, task, twice>> /\ Asks(r, NoVersion)
  BY <1>1 DEF Asks, Upload, ReparseUpload, workerVars, history
<1>2. ASSUME NEW r \in Rows, PatchUpload(r) \/ DeleteUpload(r) \/ ReadToFinalize(r) \/ FinalizeRefused(r)
             \/ EditJob(r) \/ DeleteJob(r)
             \/ (\E v \in Versions, listing \in Listings : Finalize(r, v, listing))
      PROVE  UNCHANGED <<pc, task, twice>> /\ LeavesTasks
  BY <1>2 DEF PatchUpload, DeleteUpload, ReadToFinalize, FinalizeRefused, EditJob, DeleteJob, Finalize,
              LeavesTasks, workerVars, history
<1>3. ASSUME NEW v \in Versions, Publish(v) PROVE UNCHANGED <<pc, task, twice>> /\ LeavesTasks
  BY <1>3 DEF Publish, LeavesTasks, workerVars, history
<1>4. ASSUME NEW job \in Rows, NEW r \in Rows, NEW v \in Versions, CreateVersion(job, r, v)
      PROVE  UNCHANGED <<pc, task, twice>> /\ Asks(r, v)
  BY <1>4 DEF Asks, CreateVersion, workerVars, history
<1>5. ASSUME NEW t \in unsent, SendTask(t) \/ RequestDies(t) PROVE UNCHANGED <<pc, task, twice>>
  BY <1>5 DEF SendTask, RequestDies, workerVars, history
<1> QED BY <1>1, <1>2, <1>3, <1>4, <1>5 DEF Administer

(* A worker goes on with its task, or is done with it.                      *)
GoesOn(w) ==
    /\ Working(w) /\ LeavesTasks
    /\ pc' \in [Workers -> Labels] /\ pc'[w] # "idle"
    /\ \A x \in Workers \ {w} : pc'[x] = pc[x]

LEMMA RunTasks ==
    ASSUME TypeOK, NEW w \in Workers, Run(w)
    PROVE  GoesOn(w) \/ Retry(w) \/ Acknowledge(w) \/ \E t \in BagToSet(queue) : Start(w, t)
<1>1. ASSUME NEW label \in Labels \ {"idle"}, Goto(w, label), Working(w), LeavesTasks PROVE GoesOn(w)
  BY <1>1 DEF GoesOn, Goto, TypeOK, Labels
<1>2. CASE Claim(w) \/ NotClaimed(w) \/ SetupFails(w) \/ Complete(w) \/ Copy(w) \/ Fail(w)
           \/ FailAgain(w) \/ Release(w)
  <2>1. LeavesTasks /\ Working(w)
    BY <1>2 DEF Claim, NotClaimed, SetupFails, Complete, Copy, Fail, FailAgain, Release, LeavesTasks,
                Working, history
  <2>2. \E label \in Labels \ {"idle"} : Goto(w, label)
    BY <1>2 DEF Claim, NotClaimed, SetupFails, Complete, Copy, Fail, FailAgain, Release, Labels
  <2> QED BY <1>1, <2>1, <2>2
<1> QED BY <1>2 DEF Run

LEMMA AskedTasks ==
    ASSUME NEW r \in Rows, NEW v \in Versions \cup {NoVersion}, Asks(r, v)
    PROVE  /\ unsent' = unsent \cup {Task(r, v, 0)} /\ queue' = queue
           /\ v \in Versions => version[v].job = NoRow
BY NamesAssumption DEF Asks, Upload, ReparseUpload, CreateVersion

(* No task of v is new, none is counted again, and no worker takes v up.    *)
LEMMA OnceKept ==
    ASSUME NEW v \in Versions, Once(v),
           \A u \in Waiting' : u.version = v =>
              /\ u \in Waiting
              /\ u \in unsent' => u \in unsent
              /\ u \in BagToSet(queue') => u \in BagToSet(queue) /\ queue'[u] = queue[u],
           \A w \in Workers : Working(w)' /\ HeldVersion(w)' = v => Working(w) /\ HeldVersion(w) = v
    PROVE  Once(v)'
<1>1. \A t \in Waiting' : t.version = v =>
         /\ t \in unsent' => t \notin BagToSet(queue')
         /\ t \in BagToSet(queue') => queue'[t] = 1
  BY DEF Once
<1>2. \A t, u \in Waiting' : t.version = v /\ u.version = v => u = t
  BY DEF Once
<1>3. \A t \in Waiting', w \in Workers : t.version = v /\ Working(w)' => HeldVersion(w)' # v
  BY DEF Once
<1>4. \A w, x \in Workers : Working(w)' /\ Working(x)' /\ HeldVersion(w)' = v /\ HeldVersion(x)' = v => w = x
  BY DEF Once
<1> QED BY <1>1, <1>2, <1>3, <1>4 DEF Once

LEMMA TasksOnceStep ==
    ASSUME TypeOK, Holding, TasksSound, TasksOnce, [Next]_vars
    PROVE  TasksOnce'
<1> SUFFICES ASSUME NEW v \in Versions, v \notin twice' PROVE Once(v)'
  BY DEF TasksOnce
<1>1. twice \subseteq twice'
  BY AdministerTasks, RunTasks
     DEF Next, WorkerDies, GoStale, LeavesTasks, GoesOn, Retry, Acknowledge, Start, history, vars
<1>2. Once(v)
  BY <1>1 DEF TasksOnce
<1>3. /\ IsABag(queue) /\ NoVersion \notin Versions
      /\ \A w \in Workers : Working(w) => task[w] \in Known /\ task[w].version = HeldVersion(w)
      /\ \A t \in Waiting : t \in Known
  BY NamesAssumption DEF TypeOK, Working, Known, HeldVersion
<1>4. ASSUME UNCHANGED <<queue, unsent>>, UNCHANGED task,
             \A w \in Workers : Working(w)' => Working(w)
      PROVE  Once(v)'
  BY <1>2, <1>4 DEF Once, Waiting, HeldVersion
<1>5. ASSUME NEW r \in Rows, NEW n \in Versions \cup {NoVersion}, Asks(r, n), UNCHANGED <<pc, task>>
      PROVE  Once(v)'
  <2> DEFINE new == Task(r, n, 0)
  <2>1. unsent' = unsent \cup {new} /\ queue' = queue /\ new.version = n
    BY <1>5, AskedTasks DEF Task
  <2>2. CASE n # v
    BY <1>2, <1>5, <2>1, <2>2 DEF Once, Waiting, HeldVersion, Working
  <2>3. CASE n = v
    <3>1. version[v].job = NoRow
      BY <1>5, <2>3, AskedTasks
    <3>2. \A t \in Known : t.version # v
      BY <3>1 DEF TasksSound
    <3>3. /\ \A t \in Waiting : t.version # v
          /\ \A w \in Workers : Working(w) => HeldVersion(w) # v
      BY <1>3, <3>2
    <3> QED BY <1>2, <1>5, <2>1, <3>3 DEF Once, Waiting, HeldVersion, Working
  <2> QED BY <2>2, <2>3
<1>6. ASSUME NEW t \in unsent, SendTask(t) PROVE Once(v)'
  <2>1. unsent' = unsent \ {t} /\ queue' = queue (+) SetToBag({t}) /\ UNCHANGED <<pc, task>>
    BY <1>6 DEF SendTask, workerVars
  <2>2. /\ BagToSet(queue') = BagToSet(queue) \cup {t}
        /\ \A u \in BagToSet(queue) : u # t => queue'[u] = queue[u]
        /\ t \notin BagToSet(queue) => queue'[t] = 1
    BY <1>3, <2>1, BagAdds
  <2>3. Waiting' = Waiting
    BY <2>1, <2>2 DEF Waiting
  <2> QED BY <1>2, <2>1, <2>2, <2>3 DEF Once, Waiting, HeldVersion, Working
<1>7. ASSUME NEW t \in unsent, RequestDies(t) PROVE Once(v)'
  BY <1>2, <1>7 DEF RequestDies, Once, Waiting, HeldVersion, Working, workerVars
<1>8. ASSUME NEW w \in Workers, NEW t \in BagToSet(queue), Start(w, t) PROVE Once(v)'
  <2>1. /\ pc[w] = "idle" /\ queue' = queue (-) SetToBag({t}) /\ UNCHANGED unsent
        /\ task' = [task EXCEPT ![w] = t] /\ pc' = [pc EXCEPT ![w] = "start"]
    BY <1>8 DEF Start, Goto
  <2>2. /\ BagToSet(queue') \subseteq BagToSet(queue)
        /\ \A u \in BagToSet(queue') : u # t => queue'[u] = queue[u]
        /\ queue[t] = 1 => t \notin BagToSet(queue')
    BY <1>3, <2>1, BagTakes
  <2>3. /\ Working(w)' /\ HeldVersion(w)' = t.version
        /\ \A x \in Workers \ {w} : (Working(x)' <=> Working(x)) /\ HeldVersion(x)' = HeldVersion(x)
    BY <2>1 DEF TypeOK, Working, HeldVersion
  <2>4. CASE t.version # v
    <3>1. \A u \in Waiting' : u.version = v =>
             /\ u \in Waiting
             /\ u \in unsent' => u \in unsent
             /\ u \in BagToSet(queue') => u \in BagToSet(queue) /\ queue'[u] = queue[u]
      BY <2>1, <2>2, <2>4 DEF Waiting
    <3> QED BY <1>2, <2>3, <2>4, <3>1, OnceKept
  <2>5. CASE t.version = v
    <3>1. \A u \in Waiting' : u.version # v
      BY <1>2, <2>1, <2>2, <2>5 DEF Once, Waiting
    <3>2. \A x \in Workers \ {w} : Working(x)' => HeldVersion(x)' # v
      BY <1>2, <2>3, <2>5 DEF Once, Waiting
    <3> QED BY <3>1, <3>2 DEF Once
  <2> QED BY <2>4, <2>5
<1>9. ASSUME NEW w \in Workers, Retry(w) PROVE Once(v)'
  <2> DEFINE t == [task[w] EXCEPT !.tries = @ + 1]
  <2>1. /\ pc[w] = "retry" /\ queue' = queue (+) SetToBag({t}) /\ UNCHANGED <<unsent, task>>
        /\ pc' = [pc EXCEPT ![w] = "ack"]
    BY <1>9 DEF Retry, Goto
  <2>4. t.version = HeldVersion(w)
    BY <2>1 DEF HeldVersion, Holding, Tasks
  <2> HIDE DEF t
  <2>2. /\ BagToSet(queue') = BagToSet(queue) \cup {t}
        /\ \A u \in BagToSet(queue) : u # t => queue'[u] = queue[u]
        /\ t \notin BagToSet(queue) => queue'[t] = 1
    <3>1. queue' = queue (+) SetToBag({t})
      BY <2>1
    <3> QED BY <1>3, <3>1, BagAdds
  <2>3. /\ Working(w) /\ ~ Working(w)'
        /\ \A x \in Workers : HeldVersion(x)' = HeldVersion(x)
        /\ \A x \in Workers \ {w} : Working(x)' <=> Working(x)
    BY <2>1 DEF TypeOK, Working, HeldVersion
  <2>5. CASE t.version # v
    <3>1. \A u \in Waiting' : u.version = v =>
             /\ u \in Waiting
             /\ u \in unsent' => u \in unsent
             /\ u \in BagToSet(queue') => u \in BagToSet(queue) /\ queue'[u] = queue[u]
      BY <2>1, <2>2, <2>5 DEF Waiting
    <3> QED BY <1>2, <2>3, <3>1, OnceKept
  <2>6. CASE t.version = v
    <3>1. /\ \A u \in Waiting : u.version # v
          /\ \A x \in Workers \ {w} : Working(x) => HeldVersion(x) # v
      BY <1>2, <2>3, <2>4, <2>6 DEF Once
    <3> QED BY <2>1, <2>2, <2>3, <2>6, <3>1 DEF Once, Waiting
  <2> QED BY <2>5, <2>6
<1>10. ASSUME NEW w \in Workers, Acknowledge(w) PROVE Once(v)'
  <2>1. UNCHANGED <<queue, unsent>> /\ ~ Working(w)'
        /\ \A x \in Workers \ {w} : (Working(x)' <=> Working(x)) /\ HeldVersion(x)' = HeldVersion(x)
    BY <1>10 DEF Acknowledge, Idle, Goto, TypeOK, Working, HeldVersion
  <2> QED BY <1>2, <2>1 DEF Once, Waiting
<1>11. ASSUME NEW w \in Workers, WorkerDies(w) PROVE Once(v)'
  <2> DEFINE t == task[w]
  <2>1. /\ UNCHANGED unsent /\ queue' = queue (+) SetToBag({t}) /\ ~ Working(w)'
        /\ \A x \in Workers \ {w} : (Working(x)' <=> Working(x)) /\ HeldVersion(x)' = HeldVersion(x)
        /\ t.version # v
    BY <1>11 DEF WorkerDies, Idle, Goto, TypeOK, Working, HeldVersion
  <2> HIDE DEF t
  <2>2. /\ BagToSet(queue') = BagToSet(queue) \cup {t}
        /\ \A u \in BagToSet(queue) : u # t => queue'[u] = queue[u]
        /\ t \notin BagToSet(queue) => queue'[t] = 1
    <3>1. queue' = queue (+) SetToBag({t})
      BY <2>1
    <3> QED BY <1>3, <3>1, BagAdds
  <2>3. \A u \in Waiting' : u.version = v =>
           /\ u \in Waiting
           /\ u \in unsent' => u \in unsent
           /\ u \in BagToSet(queue') => u \in BagToSet(queue) /\ queue'[u] = queue[u]
    BY <2>1, <2>2 DEF Waiting
  <2>4. \A x \in Workers : Working(x)' /\ HeldVersion(x)' = v => Working(x) /\ HeldVersion(x) = v
    BY <2>1
  <2> QED BY <1>2, <2>3, <2>4, OnceKept
<1>12. CASE Administer
  BY <1>4, <1>5, <1>6, <1>7, <1>12, AdministerTasks DEF LeavesTasks, Working
<1>13. ASSUME NEW w \in Workers, GoesOn(w) PROVE Once(v)'
  BY <1>4, <1>13 DEF GoesOn, LeavesTasks, Working
<1>14. CASE (\E r \in Rows : GoStale(r)) \/ UNCHANGED vars
  BY <1>4, <1>14 DEF GoStale, workerVars, vars, Working
<1> QED
  BY <1>8, <1>9, <1>10, <1>11, <1>12, <1>13, <1>14, RunTasks DEF Next

-----------------------------------------------------------------------------
(* What a step may do to a row and to a version.                            *)

RowMoves(q) ==
    /\ <<row[q].item, row'[q].item>> \in
          {<<i, i>> : i \in {"NONE", "JD_UPLOAD", "JOB_DESCRIPTION", "GONE"}}
          \cup {<<"NONE", "JD_UPLOAD">>, <<"JD_UPLOAD", "GONE">>, <<"JD_UPLOAD", "JOB_DESCRIPTION">>,
                <<"JOB_DESCRIPTION", "GONE">>}
    /\ row'[q].item = "NONE" => row'[q] = row[q]
    /\ row'[q].item # "JOB_DESCRIPTION" => row'[q].active \in {row[q].active, NoVersion}
    /\ row'[q].item = "GONE" /\ row[q].item = "JOB_DESCRIPTION" => row'[q].active = NoVersion
    /\ row[q].content # NoContent => row'[q].content # NoContent
    /\ row'[q].item = "JD_UPLOAD" /\ row'[q].status = "DONE" =>
          row'[q].content # NoContent \/ (row[q].item \in {"NONE", "JD_UPLOAD"} /\ row[q].status = "DONE")
    /\ row'[q].item = "JOB_DESCRIPTION" => row[q].item = "JOB_DESCRIPTION" \/ q \in finalizing

VersionMoves(v) ==
    /\ version[v].job # NoRow =>
          version'[v].job # NoRow /\ version'[v].source \in {version[v].source, NoRow}
    /\ \/ version'[v].source \in {version[v].source, NoRow}
       \/ \E job, r \in Rows : CreateVersion(job, r, v) /\ version'[v].source = r
    /\ version'[v].job \in Rows =>
          \/ /\ version'[v].job = version[v].job
             /\ row[version[v].job].item = "JOB_DESCRIPTION" =>
                   row'[version[v].job].item = "JOB_DESCRIPTION"
          \/ row'[version'[v].job].item = "JOB_DESCRIPTION"
    /\ version'[v].source \in Rows =>
          \/ /\ version'[v].source = version[v].source
             /\ row'[version[v].source].item # "GONE" \/ row[version[v].source].item = "GONE"
          \/ row'[version'[v].source].item = "JD_UPLOAD"

Moves ==
    /\ \A q \in Rows : RowMoves(q)
    /\ \A v \in Versions : VersionMoves(v)
    /\ \A q \in finalizing' : q \in finalizing \/ (IsUpload(q) /\ row[q].status = "DONE")

(* The row is neither deleted nor, being a job, anything else.              *)
KeepsItem(q) ==
    row'[q].item = row[q].item \/ (row[q].item # "JOB_DESCRIPTION" /\ row'[q].item # "GONE")

LEMMA RowStays == ASSUME TypeOK, NEW q \in Rows, row'[q] = row[q] PROVE RowMoves(q)
BY DEF RowMoves, TypeOK, Row

LEMMA VersionStays ==
    ASSUME TypeOK, NEW v \in Versions, version'[v] = version[v] \/
              /\ version[v].job # NoRow
              /\ version'[v].job = version[v].job /\ version'[v].source = version[v].source,
           \A q \in Rows : KeepsItem(q)
    PROVE  VersionMoves(v)
<1>1. version[v] \in Version
  BY DEF TypeOK
<1> QED BY <1>1 DEF VersionMoves, Version, KeepsItem

LEMMA MarkMoves ==
    ASSUME TypeOK, NEW r \in Rows, NEW s \in {"PENDING", "PARSING", "FAILED"}, MarkUpload(r, s)
    PROVE  \A q \in Rows : RowMoves(q) /\ row'[q].item = row[q].item
<1> SUFFICES ASSUME NEW q \in Rows PROVE RowMoves(q) /\ row'[q].item = row[q].item
  OBVIOUS
<1>1. CASE row'[q] = row[q]
  BY <1>1, RowStays
<1>2. CASE row'[q] # row[q]
  <2>1. q = r /\ IsUpload(r) /\ row'[r] = [row[r] EXCEPT !.status = s, !.fresh = TRUE]
    BY <1>2 DEF MarkUpload, TypeOK
  <2>2. /\ row'[r].item = "JD_UPLOAD" /\ row'[r].status = s
        /\ row'[r].content = row[r].content /\ row'[r].active = row[r].active
    BY <2>1 DEF TypeOK, Row, IsUpload
  <2> QED BY <2>1, <2>2 DEF RowMoves, IsUpload
<1> QED BY <1>1, <1>2

LEMMA AskMoves ==
    ASSUME TypeOK, NEW r \in Rows, NEW n \in Versions \cup {NoVersion}, Asks(r, n)
    PROVE  Moves
<1>1. finalizing' = finalizing
  BY DEF Asks, Upload, ReparseUpload, CreateVersion
<1>2. ASSUME NewUpload(r)
      PROVE  \A q \in Rows : RowMoves(q) /\ (q # r => row'[q] = row[q])
  <2>1. row'[r] = [row[r] EXCEPT !.item = "JD_UPLOAD"] /\ row[r].item = "NONE"
    BY <1>2 DEF NewUpload, TypeOK
  <2>2. /\ row'[r].item = "JD_UPLOAD" /\ row'[r].status = row[r].status
        /\ row'[r].content = row[r].content /\ row'[r].active = row[r].active
    BY <2>1 DEF TypeOK, Row
  <2>3. \A q \in Rows \ {r} : row'[q] = row[q]
    BY <1>2 DEF NewUpload, TypeOK
  <2>4. RowMoves(r)
    BY <2>1, <2>2 DEF RowMoves
  <2> QED BY <2>3, <2>4, RowStays
<1>3. CASE ReparseUpload(r)
  <2>1. MarkUpload(r, "PENDING") /\ version' = version
    BY <1>3 DEF ReparseUpload
  <2>2. \A q \in Rows : KeepsItem(q)
    BY <2>1, MarkMoves DEF KeepsItem
  <2>3. \A v \in Versions : VersionMoves(v)
    BY <2>1, <2>2, VersionStays
  <2> QED BY <1>1, <2>1, <2>3, MarkMoves DEF Moves
<1>4. CASE Upload(r)
  <2>1. NewUpload(r) /\ version' = version
    BY <1>4 DEF Upload
  <2>2. \A q \in Rows : KeepsItem(q)
    BY <1>2, <2>1 DEF NewUpload, TypeOK, KeepsItem
  <2>3. \A v \in Versions : VersionMoves(v)
    BY <2>1, <2>2, VersionStays
  <2> QED BY <1>1, <1>2, <2>1, <2>3 DEF Moves
<1>5. ASSUME NEW job \in Rows, n \in Versions, CreateVersion(job, r, n) PROVE Moves
  <2>1. /\ NewUpload(r) /\ IsJob(job) /\ row[r].item = "NONE" /\ version[n].job = NoRow
        /\ version' = [version EXCEPT ![n] = [NewVersion EXCEPT !.job = job, !.source = r]]
    BY <1>5 DEF CreateVersion, NewUpload
  <2>2. \A q \in Rows : KeepsItem(q)
    BY <1>2, <2>1 DEF NewUpload, TypeOK, KeepsItem
  <2>3. \A v \in Versions \ {n} : VersionMoves(v)
    <3>1. \A v \in Versions \ {n} : version'[v] = version[v]
      BY <2>1 DEF TypeOK
    <3> QED BY <2>2, <3>1, VersionStays
  <2>4. VersionMoves(n)
    <3>1. version'[n].job = job /\ version'[n].source = r
      BY <1>5, <2>1 DEF TypeOK, NewVersion
    <3>2. row'[job].item = "JOB_DESCRIPTION" /\ row'[r].item = "JD_UPLOAD"
      BY <1>2, <2>1 DEF IsJob, NewUpload, TypeOK
    <3> QED BY <1>5, <2>1, <3>1, <3>2 DEF VersionMoves
  <2> QED BY <1>1, <1>2, <2>1, <2>3, <2>4 DEF Moves
<1> QED BY <1>3, <1>4, <1>5, NamesAssumption DEF Asks

LEMMA RequestMoves ==
    ASSUME TypeOK, VersionsSound, NEW r \in Rows,
           PatchUpload(r) \/ DeleteUpload(r) \/ ReadToFinalize(r) \/ FinalizeRefused(r)
              \/ EditJob(r) \/ DeleteJob(r)
              \/ (\E v \in Versions, listing \in Listings : Finalize(r, v, listing))
    PROVE  Moves
<1>1. ASSUME \A q \in Rows : RowMoves(q) /\ KeepsItem(q), version' = version, finalizing' \subseteq finalizing
      PROVE  Moves
  BY <1>1, VersionStays DEF Moves
<1>2. CASE PatchUpload(r)
  <2>1. PICK c \in Contents : row' = [row EXCEPT ![r].content = c, ![r].fresh = TRUE]
    BY <1>2 DEF PatchUpload
  <2>2. /\ row'[r].item = row[r].item /\ row'[r].status = row[r].status /\ row'[r].content = c
        /\ row'[r].active = row[r].active /\ row[r].item = "JD_UPLOAD"
    <3>1. row'[r] = [row[r] EXCEPT !.content = c, !.fresh = TRUE] /\ row[r] \in Row
      BY <2>1 DEF TypeOK
    <3>2. row[r].item = "JD_UPLOAD"
      BY <1>2 DEF PatchUpload, IsUpload
    <3> QED BY <3>1, <3>2 DEF Row
  <2>3. RowMoves(r) /\ KeepsItem(r)
    BY <2>2, NamesAssumption DEF RowMoves, KeepsItem
  <2>4. \A q \in Rows \ {r} : row'[q] = row[q]
    BY <2>1 DEF TypeOK
  <2> QED BY <1>1, <1>2, <2>3, <2>4, RowStays DEF PatchUpload, KeepsItem
<1>3. CASE ReadToFinalize(r)
  BY <1>3, RowStays, VersionStays DEF ReadToFinalize, Moves, KeepsItem
<1>4. CASE FinalizeRefused(r)
  BY <1>1, <1>4, RowStays DEF FinalizeRefused, KeepsItem
<1>5. CASE EditJob(r)
  <2>1. PICK s \in Listings : row' = [row EXCEPT ![r].status = s]
    BY <1>5 DEF EditJob
  <2>2. /\ row'[r].item = row[r].item /\ row'[r].content = row[r].content
        /\ row'[r].active = row[r].active /\ row[r].item = "JOB_DESCRIPTION"
    BY <1>5, <2>1 DEF EditJob, IsJob, TypeOK, Row
  <2>3. RowMoves(r) /\ KeepsItem(r)
    BY <2>2 DEF RowMoves, KeepsItem
  <2>4. \A q \in Rows \ {r} : row'[q] = row[q]
    BY <2>1 DEF TypeOK
  <2> QED BY <1>1, <1>5, <2>3, <2>4, RowStays DEF EditJob, KeepsItem
<1>6. CASE DeleteUpload(r)
  <2>1. /\ row[r].item = "JD_UPLOAD" /\ row'[r] = [row[r] EXCEPT !.item = "GONE"]
        /\ \A q \in Rows \ {r} : row'[q] = row[q]
        /\ finalizing' = finalizing /\ version' = Orphaned(r)
    BY <1>6 DEF DeleteUpload, IsUpload, TypeOK
  <2>2. RowMoves(r)
    BY <2>1 DEF RowMoves, TypeOK, Row
  <2>3. ASSUME NEW v \in Versions PROVE VersionMoves(v)
    <3>1. /\ version'[v].job = version[v].job
          /\ version'[v].source = IF version[v].source = r THEN NoRow ELSE version[v].source
      BY <2>1 DEF Orphaned, TypeOK, Version
    <3>2. /\ version[v].job \in Rows => row[version[v].job].item = "JOB_DESCRIPTION"
          /\ version[v].job \in Rows \cup {NoRow, Deleted} /\ version[v].source \in Rows \cup {NoRow}
      BY DEF VersionsSound, IsJob, TypeOK, Version
    <3> QED BY <2>1, <3>1, <3>2, NamesAssumption DEF VersionMoves
  <2> QED BY <2>1, <2>2, <2>3, RowStays DEF Moves
<1>7. CASE DeleteJob(r)
  <2>1. /\ row[r].item = "JOB_DESCRIPTION" /\ row'[r] = [row[r] EXCEPT !.item = "GONE", !.active = NoVersion]
        /\ \A q \in Rows \ {r} : row'[q] = row[q]
        /\ finalizing' = finalizing
    BY <1>7 DEF DeleteJob, IsJob, TypeOK
  <2>2. RowMoves(r)
    BY <2>1 DEF RowMoves, TypeOK, Row
  <2>3. ASSUME NEW v \in Versions PROVE VersionMoves(v)
    <3>1. CASE version[v].job = r
      <4>1. version'[v].job = Deleted /\ version'[v].source = NoRow
        BY <1>7, <3>1 DEF DeleteJob, VersionsOf, NewVersion
      <4> QED BY <3>1, <4>1, NamesAssumption DEF VersionMoves, NoRow, Deleted
    <3>2. CASE version[v].job # r
      <4>1. /\ version'[v].job = version[v].job
            /\ version'[v].source = IF version[v].source = r THEN NoRow ELSE version[v].source
        BY <1>7, <3>2 DEF DeleteJob, VersionsOf, Orphaned, TypeOK, Version
      <4>2. /\ version[v].job \in Rows => row[version[v].job].item = "JOB_DESCRIPTION"
            /\ version[v].job \in Rows \cup {NoRow, Deleted} /\ version[v].source \in Rows \cup {NoRow}
        BY DEF VersionsSound, IsJob, TypeOK, Version
      <4> QED BY <2>1, <3>2, <4>1, <4>2, NamesAssumption DEF VersionMoves
    <3> QED BY <3>1, <3>2
  <2> QED BY <2>1, <2>2, <2>3, RowStays DEF Moves
<1>8. ASSUME NEW u \in Versions, NEW listing \in Listings, Finalize(r, u, listing) PROVE Moves
  <2>1. /\ r \in finalizing /\ row[r].item = "JD_UPLOAD" /\ version[u].job = NoRow
        /\ finalizing' \subseteq finalizing
        /\ \A q \in Rows \ {r} : row'[q] = row[q]
        /\ row'[r].item = "JOB_DESCRIPTION" /\ row'[r].content = row[r].content
    <3>1. /\ r \in finalizing /\ row[r].item = "JD_UPLOAD" /\ version[u].job = NoRow
          /\ finalizing' \subseteq finalizing
      BY <1>8 DEF Finalize, IsUpload
    <3>2. \A q \in Rows \ {r} : row'[q] = row[q]
      BY <1>8 DEF Finalize, TypeOK
    <3>3. row'[r] = [row[r] EXCEPT !.item = "JOB_DESCRIPTION", !.status = listing,
                                   !.active = IF listing = "ACTIVE" THEN u ELSE @]
      BY <1>8 DEF Finalize, TypeOK
    <3>4. row[r] \in Row
      BY DEF TypeOK
    <3> QED BY <3>1, <3>2, <3>3, <3>4 DEF Row
  <2>2. RowMoves(r) /\ \A q \in Rows : KeepsItem(q)
    BY <2>1 DEF RowMoves, KeepsItem
  <2>3. \A v \in Versions \ {u} : version'[v] = version[v]
    BY <1>8 DEF Finalize, TypeOK
  <2>4. version'[u].job = r /\ version'[u].source = NoRow
    BY <1>8 DEF Finalize, TypeOK, NewVersion
  <2>5. VersionMoves(u)
    BY <2>1, <2>4, NamesAssumption DEF VersionMoves
  <2> QED BY <2>1, <2>2, <2>3, <2>5, RowStays, VersionStays DEF Moves
<1> QED BY <1>2, <1>3, <1>4, <1>5, <1>6, <1>7, <1>8

LEMMA PublishMoves == ASSUME TypeOK, VersionsSound, NEW v \in Versions, Publish(v) PROVE Moves
<1> DEFINE job == version[v].job
<1>1. /\ job \in Rows /\ row[job].item = "JOB_DESCRIPTION" /\ version[v].content # NoContent
      /\ \A q \in Rows \ {job} : row'[q] = row[q]
      /\ row'[job].item = row[job].item /\ row'[job].content = version[v].content
      /\ finalizing' = finalizing
  BY DEF Publish, VersionsSound, IsJob, TypeOK, Row
<1>2. RowMoves(job) /\ \A q \in Rows : KeepsItem(q)
  BY <1>1 DEF RowMoves, KeepsItem
<1>3. ASSUME NEW u \in Versions
      PROVE  \/ version'[u] = version[u]
             \/ /\ version[u].job = job
                /\ version'[u].job = version[u].job /\ version'[u].source = version[u].source
  <2>1. version[u] \in Version
    BY DEF TypeOK
  <2>2. version'[u] = Published(v)[u] /\ version'[u] \in {version[u], [version[u] EXCEPT !.status = "ACTIVE"],
                              [version[u] EXCEPT !.status = "SUPERSEDED"]}
    BY DEF Published, Publish
  <2>3. version'[u] # version[u] => version[u].job = job
    BY <2>2 DEF Published
  <2> QED BY <2>1, <2>2, <2>3 DEF Version
<1>4. job # NoRow
  BY <1>1, NamesAssumption
<1>5. \A u \in Versions : VersionMoves(u)
  BY <1>2, <1>3, <1>4, VersionStays
<1> QED BY <1>1, <1>2, <1>5, RowStays DEF Moves

LEMMA RunMoves ==
    ASSUME TypeOK, Holding, TasksSound, NEW w \in Workers, Run(w)
    PROVE  Moves /\ \A q \in Rows : row'[q].item = row[q].item
<1> USE DEF KeepsItem
<1>1. finalizing' = finalizing
  BY DEF Run, Start, Claim, NotClaimed, SetupFails, Complete, Copy, Fail, FailAgain, Release, Retry, Acknowledge
<1>2. \A q \in Rows : RowMoves(q) /\ row'[q].item = row[q].item
  <2>1. CASE row' = row
    BY <2>1, RowStays
  <2>2. pc[w] # "idle" => Held(w) \in Rows
    BY DEF Holding, Tasks, Held
  <2>3. CASE Claim(w) \/ Fail(w) \/ FailAgain(w) \/ Release(w)
    <3>1. pc[w] # "idle" /\ (row' = row \/ \E s \in {"PENDING", "PARSING", "FAILED"} : MarkUpload(Held(w), s))
      BY <2>3 DEF Claim, Fail, FailAgain, Release
    <3> QED BY <2>1, <2>2, <3>1, MarkMoves
  <2>4. CASE Complete(w) /\ row' # row
    <3>1. PICK c \in Contents : row' = [row EXCEPT ![Held(w)].status = "DONE", ![Held(w)].content = c,
                                                    ![Held(w)].fresh = TRUE]
      BY <2>4 DEF Complete
    <3>2. row[Held(w)].item = "JD_UPLOAD" /\ Held(w) \in Rows
      BY <2>2, <2>4 DEF Complete, IsUpload
    <3>3. /\ row'[Held(w)].item = "JD_UPLOAD" /\ row'[Held(w)].content = c
          /\ row'[Held(w)].active = row[Held(w)].active
          /\ \A q \in Rows \ {Held(w)} : row'[q] = row[q]
      BY <3>1, <3>2 DEF TypeOK, Row
    <3>4. RowMoves(Held(w))
      BY <3>2, <3>3, NamesAssumption DEF RowMoves
    <3> QED BY <3>2, <3>3, <3>4, RowStays
  <2>5. CASE \/ \E t \in BagToSet(queue) : Start(w, t)
             \/ NotClaimed(w) \/ SetupFails(w) \/ Copy(w) \/ Retry(w) \/ Acknowledge(w)
    BY <2>1, <2>5 DEF Start, NotClaimed, SetupFails, Copy, Retry, Acknowledge
  <2> QED BY <2>1, <2>3, <2>4, <2>5 DEF Run
<1>3. ASSUME NEW v \in Versions
      PROVE  version'[v] = version[v] \/
              /\ version[v].job # NoRow
              /\ version'[v].job = version[v].job /\ version'[v].source = version[v].source
  <2>1. version[v] \in Version
    BY DEF TypeOK
  <2>2. ASSUME NEW t \in Known, t.version = v PROVE version[v].job # NoRow
    BY <2>2 DEF TasksSound
  <2>3. ASSUME NEW t \in BagToSet(queue), Start(w, t) PROVE version'[v] = version[v] \/
              /\ version[v].job # NoRow
              /\ version'[v].job = version[v].job /\ version'[v].source = version[v].source
    <3>1. version'[v] # version[v] => v = t.version /\ version'[v] = [version[v] EXCEPT !.processing = "PROCESSING"]
      BY <2>3 DEF Start
    <3>2. t \in Known
      BY DEF Known, Waiting
    <3> QED BY <2>1, <2>2, <3>1, <3>2 DEF Version
  <2>4. CASE Copy(w) \/ FailAgain(w)
    <3>1. task[w] \in Known
      BY <2>4 DEF Copy, FailAgain, Known
    <3>2. \/ version'[v] = version[v]
          \/ /\ v = task[w].version
             /\ \/ version'[v] = [version[v] EXCEPT !.processing = "DONE", !.content = row[Held(w)].content]
                \/ version'[v] = [version[v] EXCEPT !.processing = "FAILED"]
      BY <2>4 DEF Copy, FailAgain, MarkVersion, HeldVersion
    <3> QED BY <2>1, <2>2, <3>1, <3>2 DEF Version
  <2>5. CASE \/ Claim(w) \/ NotClaimed(w) \/ SetupFails(w) \/ Complete(w) \/ Fail(w) \/ Release(w)
             \/ Retry(w) \/ Acknowledge(w)
    BY <2>5 DEF Claim, NotClaimed, SetupFails, Complete, Fail, Release, Retry, Acknowledge
  <2> QED BY <2>3, <2>4, <2>5 DEF Run
<1>4. \A v \in Versions : VersionMoves(v)
  BY <1>2, <1>3, VersionStays
<1> QED BY <1>1, <1>2, <1>4 DEF Moves

LEMMA NextMoves == ASSUME TypeOK, Holding, VersionsSound, TasksSound, [Next]_vars PROVE Moves
<1>1. CASE Administer
  <2>1. ASSUME NEW t \in unsent, SendTask(t) \/ RequestDies(t) PROVE Moves
    BY <2>1, RowStays, VersionStays DEF SendTask, RequestDies, Moves, KeepsItem
  <2>2. ASSUME NEW r \in Rows, Upload(r) \/ ReparseUpload(r) PROVE Moves
    <3>1. Asks(r, NoVersion)
      BY <2>2 DEF Asks
    <3> QED BY <3>1, AskMoves
  <2>3. ASSUME NEW job \in Rows, NEW r \in Rows, NEW v \in Versions, CreateVersion(job, r, v) PROVE Moves
    <3>1. Asks(r, v)
      BY <2>3 DEF Asks
    <3> QED BY <3>1, AskMoves
  <2> QED BY <1>1, <2>1, <2>2, <2>3, RequestMoves, PublishMoves DEF Administer
<1>2. CASE \E w \in Workers : Run(w)
  BY <1>2, RunMoves
<1>3. ASSUME UNCHANGED <<row, version, finalizing>> PROVE Moves
  BY <1>3, RowStays, VersionStays DEF Moves, KeepsItem
<1>4. CASE (\E w \in Workers : WorkerDies(w)) \/ UNCHANGED vars
  BY <1>3, <1>4 DEF WorkerDies, vars
<1>5. ASSUME NEW r \in Rows, GoStale(r) PROVE Moves
  <2>1. /\ row[r].item = "JD_UPLOAD" /\ row[r].status = "PARSING" /\ row' = [row EXCEPT ![r].fresh = FALSE]
        /\ UNCHANGED <<version, finalizing>>
    BY <1>5 DEF GoStale, IsUpload
  <2>2. /\ row'[r].item = row[r].item /\ row'[r].content = row[r].content /\ row'[r].status = "PARSING"
        /\ row'[r].active = row[r].active
        /\ \A q \in Rows \ {r} : row'[q] = row[q]
    BY <2>1 DEF TypeOK, Row
  <2>3. RowMoves(r)
    BY <2>1, <2>2 DEF RowMoves
  <2> QED BY <2>1, <2>2, <2>3, RowStays, VersionStays DEF Moves, KeepsItem
<1> QED BY <1>1, <1>2, <1>4, <1>5 DEF Next

-----------------------------------------------------------------------------

Sound == RowsSound /\ VersionsSound /\ TasksSound /\ CopySound

LEMMA KnownTyped == ASSUME TypeOK, Holding PROVE \A t \in Known : t \in Tasks
BY DEF TypeOK, Holding, Known, Waiting

(* A task that a step leaves is one there was, but for its number of tries, *)
(* or the task of a request.                                                *)
LEMMA KnownStep ==
    ASSUME TypeOK, Holding, [Next]_vars
    PROVE  /\ again \subseteq again'
           /\ \A t \in Known' :
                 \/ \E k \in Known : k.upload = t.upload /\ k.version = t.version
                 \/ \E r \in Rows, n \in Versions \cup {NoVersion} : Asks(r, n) /\ t = Task(r, n, 0)
<1> DEFINE Left(t) == \/ \E k \in Known : k.upload = t.upload /\ k.version = t.version
                      \/ \E r \in Rows, n \in Versions \cup {NoVersion} : Asks(r, n) /\ t = Task(r, n, 0)
           OK == again \subseteq again' /\ \A t \in Known' : Left(t)
<1>1. IsABag(queue)
  BY DEF TypeOK
<1>2. \A t \in Known : Left(t)
  OBVIOUS
<1>3. ASSUME UNCHANGED <<queue, unsent, task>>, again \subseteq again',
             \A w \in Workers : pc'[w] # "idle" => pc[w] # "idle"
      PROVE  OK
  BY <1>2, <1>3 DEF Known, Waiting
<1>4. ASSUME NEW r \in Rows, NEW n \in Versions \cup {NoVersion}, Asks(r, n), UNCHANGED <<pc, task>>
      PROVE  OK
  <2>1. Known' \subseteq Known \cup {Task(r, n, 0)}
    BY <1>4, AskedTasks DEF Known, Waiting
  <2>2. again \subseteq again'
    BY <1>4 DEF Asks, Upload, CreateVersion, ReparseUpload, history
  <2> QED BY <1>2, <1>4, <2>1, <2>2
<1>5. ASSUME NEW t \in unsent, SendTask(t) \/ RequestDies(t) PROVE OK
  <2>1. again \subseteq again' /\ UNCHANGED <<pc, task>> /\ unsent' \subseteq unsent
    BY <1>5 DEF SendTask, RequestDies, workerVars, history
  <2>2. BagToSet(queue') \subseteq BagToSet(queue) \cup {t}
    BY <1>1, <1>5, BagAdds DEF SendTask, RequestDies
  <2>3. Known' \subseteq Known
    BY <2>1, <2>2 DEF Known, Waiting
  <2> QED BY <1>2, <2>1, <2>3
<1>6. ASSUME NEW w \in Workers, NEW t \in BagToSet(queue), Start(w, t) PROVE OK
  <2>1. BagToSet(queue') \subseteq BagToSet(queue)
    BY <1>1, <1>6, BagTakes DEF Start
  <2>2. again' = again /\ unsent' = unsent /\ task'[w] = t
        /\ \A x \in Workers \ {w} : task'[x] = task[x] /\ pc'[x] = pc[x]
    BY <1>6 DEF Start, Goto, TypeOK, history
  <2>3. Known' \subseteq Known
    BY <2>1, <2>2 DEF Known, Waiting
  <2> QED BY <1>2, <2>2, <2>3
<1>7. ASSUME NEW w \in Workers, Retry(w) PROVE OK
  <2> DEFINE t == [task[w] EXCEPT !.tries = @ + 1]
  <2>1. /\ pc[w] = "retry" /\ queue' = queue (+) SetToBag({t}) /\ UNCHANGED <<unsent, task, again>>
        /\ \A x \in Workers : pc'[x] # "idle" => pc[x] # "idle"
    BY <1>7 DEF Retry, Goto, TypeOK, history
  <2>2. task[w] \in Tasks /\ task[w] \in Known
    BY <2>1 DEF Holding, Known
  <2>3. t.upload = task[w].upload /\ t.version = task[w].version
    BY <2>2 DEF Tasks
  <2> HIDE DEF t, OK, Left
  <2>4. BagToSet(queue') = BagToSet(queue) \cup {t}
    <3>1. queue' = queue (+) SetToBag({t})
      BY <2>1
    <3> QED BY <1>1, <3>1, BagAdds
  <2>5. Known' \subseteq Known \cup {t}
    BY <2>1, <2>4 DEF Known, Waiting
  <2>6. Left(t)
    BY <2>2, <2>3 DEF Left
  <2> QED BY <1>2, <2>1, <2>5, <2>6 DEF OK
<1>8. ASSUME NEW w \in Workers, Acknowledge(w) PROVE OK
  <2>1. UNCHANGED <<queue, unsent, again>> /\ pc'[w] = "idle"
        /\ \A x \in Workers \ {w} : task'[x] = task[x] /\ pc'[x] = pc[x]
    BY <1>8 DEF Acknowledge, Idle, Goto, TypeOK, history
  <2> QED BY <1>2, <2>1 DEF Known, Waiting
<1>9. ASSUME NEW w \in Workers, WorkerDies(w) PROVE OK
  <2> DEFINE t == task[w]
  <2>1. UNCHANGED <<unsent, again>> /\ pc'[w] = "idle" /\ queue' = queue (+) SetToBag({t}) /\ t \in Known
        /\ \A x \in Workers \ {w} : task'[x] = task[x] /\ pc'[x] = pc[x]
    BY <1>9 DEF WorkerDies, Idle, Goto, TypeOK, Known
  <2> HIDE DEF t
  <2>2. BagToSet(queue') = BagToSet(queue) \cup {t}
    BY <1>1, <2>1, BagAdds
  <2>3. Known' \subseteq Known
    BY <2>1, <2>2 DEF Known, Waiting
  <2> QED BY <1>2, <2>1, <2>3
<1> HIDE DEF OK
<1>10. ASSUME Administer PROVE OK
  BY <1>3, <1>4, <1>5, <1>10, AdministerTasks DEF LeavesTasks
<1>11. ASSUME NEW w \in Workers, GoesOn(w) PROVE OK
  BY <1>3, <1>11 DEF GoesOn, LeavesTasks, Working
<1>12. ASSUME (\E r \in Rows : GoStale(r)) \/ UNCHANGED vars PROVE OK
  BY <1>3, <1>12 DEF GoStale, workerVars, history, vars
<1>13. OK
  BY <1>6, <1>7, <1>8, <1>9, <1>10, <1>11, <1>12, RunTasks DEF Next
<1> QED BY <1>13 DEF OK

LEMMA SoundStep ==
    ASSUME TypeOK, Holding, Sound, [Next]_vars
    PROVE  Sound'
<1>1. Moves
  BY NextMoves DEF Sound
<1>2. RowsSound'
  <2> SUFFICES ASSUME NEW r \in Rows
               PROVE  /\ row'[r].item = "NONE" => row'[r].status = "PENDING" /\ r \notin finalizing'
                      /\ row'[r].item # "JOB_DESCRIPTION" => row'[r].active = NoVersion
                      /\ \/ row'[r].item = "JOB_DESCRIPTION" \/ r \in finalizing'
                         \/ row'[r].item = "JD_UPLOAD" /\ row'[r].status = "DONE"
                         => row'[r].content # NoContent
    BY DEF RowsSound, IsJob, IsUpload
  <2>1. /\ row[r].item = "NONE" => row[r].status = "PENDING" /\ r \notin finalizing
        /\ row[r].item # "JOB_DESCRIPTION" => row[r].active = NoVersion
        /\ \/ row[r].item = "JOB_DESCRIPTION" \/ r \in finalizing
           \/ row[r].item = "JD_UPLOAD" /\ row[r].status = "DONE"
           => row[r].content # NoContent
    BY DEF Sound, RowsSound, IsJob, IsUpload
  <2>2. RowMoves(r) /\ (r \in finalizing' => r \in finalizing \/ (row[r].item = "JD_UPLOAD" /\ row[r].status = "DONE"))
    BY <1>1 DEF Moves, IsUpload
  <2> QED BY <2>1, <2>2 DEF RowMoves
<1>3. VersionsSound'
  <2> SUFFICES ASSUME NEW v \in Versions
               PROVE  /\ version'[v].job \in Rows => row'[version'[v].job].item = "JOB_DESCRIPTION"
                      /\ version'[v].source \in Rows => row'[version'[v].source].item \notin {"NONE", "GONE"}
    BY DEF VersionsSound, IsJob
  <2>1. /\ version[v].job \in Rows => row[version[v].job].item = "JOB_DESCRIPTION"
        /\ version[v].source \in Rows => row[version[v].source].item \notin {"NONE", "GONE"}
    BY DEF Sound, VersionsSound, IsJob
  <2>2. VersionMoves(v) /\ (version[v].source \in Rows => RowMoves(version[v].source))
    BY <1>1 DEF Moves
  <2> QED BY <2>1, <2>2 DEF VersionMoves, RowMoves
<1>4. TasksSound'
  <2> SUFFICES ASSUME NEW t \in Known'
               PROVE  /\ row'[t.upload].item # "NONE"
                      /\ t.version \in Versions =>
                            /\ version'[t.version].job # NoRow
                            /\ version'[t.version].source \in {NoRow, t.upload}
                      /\ t.upload \notin again' =>
                            \A v \in Versions : version'[v].source = t.upload => t.version = v
    BY DEF TasksSound
  <2>1. ASSUME NEW k \in Known, k.upload = t.upload, k.version = t.version
        PROVE  /\ row'[k.upload].item # "NONE"
               /\ k.version \in Versions =>
                     /\ version'[k.version].job # NoRow
                     /\ version'[k.version].source \in {NoRow, k.upload}
               /\ k.upload \notin again' =>
                     \A v \in Versions : version'[v].source = k.upload => k.version = v
    <3>1. /\ row[k.upload].item # "NONE"
          /\ k.version \in Versions =>
                version[k.version].job # NoRow /\ version[k.version].source \in {NoRow, k.upload}
          /\ k.upload \notin again =>
                \A v \in Versions : version[v].source = k.upload => k.version = v
      BY DEF Sound, TasksSound
    <3>2. k.upload \in Rows /\ k.upload # NoRow
      BY KnownTyped, NamesAssumption DEF Tasks
    <3>3. row'[k.upload].item # "NONE"
      BY <1>1, <3>1, <3>2 DEF Moves, RowMoves
    <3>4. k.version \in Versions =>
             version'[k.version].job # NoRow /\ version'[k.version].source \in {NoRow, k.upload}
      BY <1>1, <3>1 DEF Moves, VersionMoves
    <3>5. ASSUME k.upload \notin again', NEW v \in Versions, version'[v].source = k.upload
          PROVE  k.version = v
      <4>1. ~ \E job, r \in Rows : CreateVersion(job, r, v) /\ version'[v].source = r
        BY <3>1, <3>5 DEF CreateVersion, NewUpload
      <4>2. version[v].source = k.upload
        BY <1>1, <3>2, <3>5, <4>1 DEF Moves, VersionMoves
      <4> QED BY <3>1, <3>5, <4>2, KnownStep
    <3> QED BY <3>3, <3>4, <3>5
  <2>2. ASSUME NEW r \in Rows, NEW n \in Versions \cup {NoVersion}, Asks(r, n), t = Task(r, n, 0)
        PROVE  /\ row'[r].item # "NONE"
               /\ n \in Versions => version'[n].job # NoRow /\ version'[n].source \in {NoRow, r}
               /\ r \notin again' => \A v \in Versions : version'[v].source = r => n = v
    <3>1. ASSUME NewUpload(r)
          PROVE  row'[r].item # "NONE" /\ \A v \in Versions : version[v].source # r
      BY <3>1 DEF NewUpload, Sound, VersionsSound, TypeOK
    <3>2. CASE Upload(r) /\ n = NoVersion
      BY <3>1, <3>2, NamesAssumption DEF Upload
    <3>3. CASE ReparseUpload(r) /\ n = NoVersion
      <4>1. r \in again' /\ row[r].item = "JD_UPLOAD"
        BY <3>3 DEF ReparseUpload, IsUpload
      <4>2. row'[r].item # "NONE"
        BY <1>1, <4>1 DEF Moves, RowMoves
      <4> QED BY <3>3, <4>1, <4>2, NamesAssumption
    <3>4. ASSUME n \in Versions, NEW job \in Rows, CreateVersion(job, r, n)
          PROVE  /\ row'[r].item # "NONE"
                 /\ version'[n].job # NoRow /\ version'[n].source \in {NoRow, r}
                 /\ \A v \in Versions : version'[v].source = r => n = v
      <4>1. /\ version' = [version EXCEPT ![n] = [NewVersion EXCEPT !.job = job, !.source = r]]
            /\ NewUpload(r)
        BY <3>4 DEF CreateVersion
      <4>2. version'[n].job = job /\ version'[n].source = r
        BY <3>4, <4>1 DEF TypeOK, NewVersion
      <4>3. \A v \in Versions \ {n} : version'[v] = version[v]
        BY <4>1 DEF TypeOK
      <4> QED BY <3>1, <4>1, <4>2, <4>3, NamesAssumption
    <3> QED BY <2>2, <3>2, <3>3, <3>4 DEF Asks
  <2> QED BY <2>1, <2>2, KnownStep DEF Task
<1>5. CopySound'
  <2> SUFFICES ASSUME NEW w \in Workers, pc'[w] = "copy"
               PROVE  row'[task'[w].upload].content # NoContent \/ row'[task'[w].upload].item = "GONE"
    BY DEF CopySound, Held
  <2>1. CASE pc[w] = "copy" /\ task'[w] = task[w]
    <3>1. row[Held(w)].content # NoContent \/ row[Held(w)].item = "GONE"
      BY <2>1 DEF Sound, CopySound
    <3>2. RowMoves(Held(w))
      BY <1>1, <2>1 DEF Moves, Holding, Tasks, Held
    <3> QED BY <2>1, <3>1, <3>2 DEF RowMoves, Held
  <2>2. CASE Complete(w)
    <3>1. Held(w) \in Rows /\ task[w] \in Known /\ task' = task
      BY <2>2 DEF Complete, Holding, Tasks, Held, Known
    <3>2. row[Held(w)].item # "NONE"
      BY <3>1 DEF Sound, TasksSound, Held
    <3>3. CASE row[Held(w)].item = "JD_UPLOAD"
      <4>1. PICK c \in Contents : row' = [row EXCEPT ![Held(w)].status = "DONE", ![Held(w)].content = c,
                                                      ![Held(w)].fresh = TRUE]
        BY <2>2, <3>3 DEF Complete, IsUpload
      <4>2. row'[Held(w)].content = c
        BY <3>1, <4>1 DEF TypeOK, Row
      <4> QED BY <3>1, <4>2, NamesAssumption DEF Held
    <3>4. CASE row[Held(w)].item # "JD_UPLOAD"
      <4>1. row' = row
        BY <2>2, <3>4 DEF Complete, IsUpload
      <4>2. row[Held(w)].item \in {"JOB_DESCRIPTION", "GONE"}
        BY <3>1, <3>2, <3>4 DEF TypeOK, Row
      <4> QED BY <3>1, <4>1, <4>2 DEF Sound, RowsSound, IsJob, Held
    <3> QED BY <3>3, <3>4
  <2>3. (pc[w] = "copy" /\ task'[w] = task[w]) \/ Complete(w)
    <3>1. CASE UNCHANGED <<pc, task>>
      BY <3>1
    <3>2. ASSUME NEW x \in Workers, Run(x) \/ WorkerDies(x), x # w PROVE pc'[w] = pc[w] /\ task'[w] = task[w]
      BY <3>2 DEF Run, Start, Claim, NotClaimed, SetupFails, Complete, Copy, Fail, FailAgain, Release, Retry,
                  Acknowledge, WorkerDies, Idle, Goto, TypeOK
    <3>3. CASE Run(w) \/ WorkerDies(w)
      BY <3>3 DEF Run, Start, Claim, NotClaimed, SetupFails, Copy, Fail, FailAgain, Release, Retry,
                  Acknowledge, WorkerDies, Idle, Goto, TypeOK
    <3> QED BY <3>1, <3>2, <3>3, AdministerTasks DEF Next, GoStale, workerVars, vars
  <2> QED BY <2>1, <2>2, <2>3
<1> QED BY <1>2, <1>3, <1>4, <1>5 DEF Sound

-----------------------------------------------------------------------------
(* Until its task is done, a version is not, and its upload can be claimed. *)

Open(v) == version[v].processing \in {"PENDING", "PROCESSING"}

Ready(r, s) == IsUpload(r) /\ row[r].status = s /\ r \notin finalizing

Its(v, r) == version[v].source = r /\ r \notin again

OnItsWay(v) ==
    /\ \A t \in Waiting :
          t.version = v => Open(v) /\ (Its(v, t.upload) => Ready(t.upload, "PENDING"))
    /\ \A w \in Workers :
          Working(w) /\ HeldVersion(w) = v =>
              /\ Open(v)
              /\ Its(v, Held(w)) /\ pc[w] \in {"start", "retry"} => Ready(Held(w), "PENDING")
              /\ Its(v, Held(w)) /\ pc[w] = "parse" => Ready(Held(w), "PARSING")

TasksOnTheirWay == \A v \in Versions \ twice : OnItsWay(v)

(* The tasks of v stay, and what they are for stays ready.                  *)
ReadyKept(v) ==
    /\ Open(v) => Open(v)'
    /\ \A q \in Rows : Its(v, q)' =>
          /\ Its(v, q)
          /\ Ready(q, "PENDING") => Ready(q, "PENDING")'
          /\ Ready(q, "PARSING") => Ready(q, "PARSING")'

LEMMA WayKept ==
    ASSUME TypeOK, Holding, NEW v \in Versions, OnItsWay(v), ReadyKept(v),
           \A t \in Waiting' : t \in Waiting \/ t.version # v,
           \A w \in Workers : Working(w)' /\ HeldVersion(w)' = v =>
              Working(w) /\ UNCHANGED <<pc[w], Held(w), HeldVersion(w)>>
    PROVE  OnItsWay(v)'
<1>1. \A t \in Waiting : t.upload \in Rows
  BY DEF TypeOK, Waiting, Tasks
<1>2. \A w \in Workers : Working(w) => Held(w) \in Rows
  BY DEF Holding, Working, Held, Tasks
<1> QED BY <1>1, <1>2 DEF OnItsWay, ReadyKept

LEMMA ReadyStays ==
    ASSUME NEW v \in Versions, version'[v].processing = version[v].processing,
           version'[v].source \in {version[v].source, NoRow},
           again \subseteq again',
           \A q \in Rows : Its(v, q) /\ Its(v, q)' => row'[q].item = row[q].item /\ row'[q].status = row[q].status
                                     /\ (q \in finalizing' => q \in finalizing)
    PROVE  ReadyKept(v)
BY NamesAssumption DEF ReadyKept, Open, Its, Ready, IsUpload

LEMMA AskWay ==
    ASSUME TypeOK, Holding, Sound, NEW v \in Versions, OnItsWay(v),
           NEW r \in Rows, NEW n \in Versions \cup {NoVersion}, Asks(r, n), UNCHANGED <<pc, task>>
    PROVE  OnItsWay(v)'
<1>1. /\ Waiting' = Waiting \cup {Task(r, n, 0)} /\ finalizing' = finalizing
      /\ Task(r, n, 0).version = n /\ Task(r, n, 0).upload = r
  BY AskedTasks DEF Waiting, Task, Asks, Upload, ReparseUpload, CreateVersion
<1>2. again \subseteq again'
  BY DEF Asks, Upload, ReparseUpload, CreateVersion, history
<1>3. CASE n # v
  <2>1. version'[v] = version[v]
    BY <1>3 DEF Asks, Upload, ReparseUpload, CreateVersion, TypeOK
  <2>2. \A q \in Rows \ {r} : row'[q] = row[q]
    BY DEF Asks, Upload, ReparseUpload, CreateVersion, NewUpload, MarkUpload, TypeOK
  <2>3. ~ Its(v, r)'
    <3>1. CASE r \in again'
      BY <3>1 DEF Its
    <3>2. CASE row[r].item = "NONE"
      BY <2>1, <3>2 DEF Its, Sound, VersionsSound
    <3> QED BY <3>1, <3>2 DEF Asks, Upload, ReparseUpload, CreateVersion, NewUpload
  <2>4. ReadyKept(v)
    BY <1>1, <1>2, <2>1, <2>2, <2>3, ReadyStays
  <2> QED BY <1>1, <1>3, <2>4, WayKept DEF Working, Held, HeldVersion
<1>4. CASE n = v
  <2>1. PICK job \in Rows : CreateVersion(job, r, v)
    BY <1>4, NamesAssumption DEF Asks
  <2>2. \A t \in Known : t.version # v
    BY <2>1 DEF CreateVersion, Sound, TasksSound
  <2>3. version'[v].processing = "PENDING"
    BY <2>1 DEF CreateVersion, TypeOK, NewVersion
  <2>4. row'[r].item = "JD_UPLOAD" /\ row'[r].status = "PENDING" /\ r \notin finalizing
    BY <2>1 DEF CreateVersion, NewUpload, Sound, RowsSound, TypeOK, Row
  <2>5. \A t \in Waiting' : t.version = v => t = Task(r, n, 0)
    BY <1>1, <2>2 DEF Known
  <2>6. \A w \in Workers : Working(w)' => HeldVersion(w)' # v
    BY <2>2 DEF Known, Working, HeldVersion
  <2> QED BY <1>1, <2>3, <2>4, <2>5, <2>6 DEF OnItsWay, Open, Ready, IsUpload
<1> QED BY <1>3, <1>4

LEMMA AdministerWay ==
    ASSUME TypeOK, Holding, Sound, NEW v \in Versions, OnItsWay(v), Administer
    PROVE  OnItsWay(v)'
<1>1. UNCHANGED <<pc, task>>
  BY AdministerTasks
<1>2. ASSUME ReadyKept(v), \A t \in Waiting' : t \in Waiting PROVE OnItsWay(v)'
  BY <1>1, <1>2, WayKept DEF Working, Held, HeldVersion
<1>3. ASSUME NEW t \in unsent, SendTask(t) \/ RequestDies(t) PROVE OnItsWay(v)'
  <2>1. IsABag(queue) /\ t \in Waiting
    BY DEF TypeOK, Waiting
  <2>2. BagToSet(queue') \subseteq BagToSet(queue) \cup {t} /\ unsent' \subseteq unsent
    BY <1>3, <2>1, BagAdds DEF SendTask, RequestDies
  <2>3. again \subseteq again' /\ UNCHANGED <<row, version, finalizing>>
    BY <1>3 DEF SendTask, RequestDies, history
  <2>4. ReadyKept(v)
    BY <2>3, ReadyStays
  <2> QED BY <1>2, <2>1, <2>2, <2>4 DEF Waiting
<1>4. ASSUME LeavesTasks, ReadyKept(v) PROVE OnItsWay(v)'
  BY <1>2, <1>4 DEF LeavesTasks, Waiting
<1>5. ASSUME NEW r \in Rows, PatchUpload(r) \/ ReadToFinalize(r) \/ FinalizeRefused(r) \/ EditJob(r)
      PROVE  OnItsWay(v)'
  <2>1. LeavesTasks /\ version' = version
    BY <1>5 DEF PatchUpload, ReadToFinalize, FinalizeRefused, EditJob, LeavesTasks, workerVars, history
  <2>2. ReadyKept(v)
    <3>1. CASE PatchUpload(r)
      <4>1. \A q \in Rows : row'[q].item = row[q].item /\ row'[q].status = row[q].status
        BY <3>1 DEF PatchUpload, TypeOK, Row
      <4> QED BY <2>1, <3>1, <4>1, ReadyStays DEF PatchUpload, LeavesTasks
    <3>2. CASE ReadToFinalize(r)
      BY <2>1, <3>2 DEF ReadToFinalize, LeavesTasks, ReadyKept, Open, Its, Ready, IsUpload
    <3>3. CASE FinalizeRefused(r)
      BY <2>1, <3>3, ReadyStays DEF FinalizeRefused, LeavesTasks
    <3>4. CASE EditJob(r)
      <4>1. row[r].item = "JOB_DESCRIPTION" /\ finalizing' = finalizing /\ \A q \in Rows \ {r} : row'[q] = row[q]
        BY <3>4 DEF EditJob, IsJob, TypeOK
      <4> QED BY <2>1, <4>1 DEF LeavesTasks, ReadyKept, Open, Its, Ready, IsUpload
    <3> QED BY <1>5, <3>1, <3>2, <3>3, <3>4
  <2> QED BY <1>4, <2>1, <2>2
<1>6. ASSUME NEW r \in Rows, DeleteUpload(r) PROVE OnItsWay(v)'
  <2>1. /\ LeavesTasks /\ finalizing' = finalizing /\ version' = Orphaned(r)
        /\ \A q \in Rows \ {r} : row'[q] = row[q]
    BY <1>6 DEF DeleteUpload, LeavesTasks, workerVars, history, TypeOK
  <2>2. /\ version'[v].processing = version[v].processing
        /\ version'[v].source = IF version[v].source = r THEN NoRow ELSE version[v].source
    BY <2>1 DEF Orphaned, TypeOK, Version
  <2>3. ReadyKept(v)
    BY <2>1, <2>2, NamesAssumption DEF LeavesTasks, ReadyKept, Open, Its, Ready, IsUpload
  <2> QED BY <1>4, <2>1, <2>3
<1>7. ASSUME NEW r \in Rows, DeleteJob(r) PROVE OnItsWay(v)'
  <2>1. /\ LeavesTasks /\ finalizing' = finalizing /\ row[r].item = "JOB_DESCRIPTION"
        /\ \A q \in Rows \ {r} : row'[q] = row[q]
    BY <1>7 DEF DeleteJob, IsJob, LeavesTasks, workerVars, history, TypeOK
  <2>2. /\ version'[v].processing \in {version[v].processing, "PENDING"}
        /\ version'[v].source \in {version[v].source, NoRow}
    BY <1>7 DEF DeleteJob, VersionsOf, Orphaned, NewVersion, TypeOK, Version
  <2>3. ReadyKept(v)
    BY <2>1, <2>2, NamesAssumption DEF LeavesTasks, ReadyKept, Open, Its, Ready, IsUpload
  <2> QED BY <1>4, <2>1, <2>3
<1>8. ASSUME NEW r \in Rows, NEW u \in Versions, NEW listing \in Listings, Finalize(r, u, listing)
      PROVE  OnItsWay(v)'
  <2>1. /\ LeavesTasks /\ finalizing' \subseteq finalizing /\ r \in finalizing
        /\ \A q \in Rows \ {r} : row'[q] = row[q]
    BY <1>8 DEF Finalize, LeavesTasks, workerVars, history, TypeOK
  <2>2. CASE u = v
    <3>1. \A t \in Known : t.version # v
      BY <1>8, <2>2 DEF Finalize, Sound, TasksSound
    <3> QED BY <1>1, <2>1, <3>1 DEF LeavesTasks, OnItsWay, Known, Waiting, Working, HeldVersion
  <2>3. CASE u # v
    <3>1. version'[v] = version[v]
      BY <1>8, <2>3 DEF Finalize, TypeOK
    <3>2. ReadyKept(v)
      BY <2>1, <3>1 DEF LeavesTasks, ReadyKept, Open, Its, Ready, IsUpload
    <3> QED BY <1>4, <2>1, <3>2
  <2> QED BY <2>2, <2>3
<1>9. ASSUME NEW u \in Versions, Publish(u) PROVE OnItsWay(v)'
  <2> DEFINE job == version[u].job
  <2>1. /\ LeavesTasks /\ finalizing' = finalizing /\ job \in Rows
        /\ \A q \in Rows \ {job} : row'[q] = row[q]
    BY <1>9 DEF Publish, LeavesTasks, workerVars, history, TypeOK
  <2>2. row[job].item = "JOB_DESCRIPTION"
    BY <2>1 DEF Sound, VersionsSound, IsJob
  <2>3. version'[v] \in {version[v], [version[v] EXCEPT !.status = "ACTIVE"],
                         [version[v] EXCEPT !.status = "SUPERSEDED"]}
    BY <1>9 DEF Publish, Published
  <2>4. version[v] \in Version
    BY DEF TypeOK
  <2>5. version'[v].processing = version[v].processing /\ version'[v].source = version[v].source
    BY <2>3, <2>4 DEF Version
  <2>6. ReadyKept(v)
    BY <2>1, <2>2, <2>5 DEF LeavesTasks, ReadyKept, Open, Its, Ready, IsUpload
  <2> QED BY <1>4, <2>1, <2>6
<1>10. ASSUME NEW r \in Rows, NEW n \in Versions \cup {NoVersion}, Asks(r, n) PROVE OnItsWay(v)'
  BY <1>1, <1>10, AskWay
<1>11. ASSUME NEW r \in Rows, Upload(r) \/ ReparseUpload(r) PROVE OnItsWay(v)'
  BY <1>10, <1>11 DEF Asks
<1>12. ASSUME NEW job \in Rows, NEW r \in Rows, NEW n \in Versions, CreateVersion(job, r, n)
       PROVE OnItsWay(v)'
  BY <1>10, <1>12 DEF Asks
<1> QED BY <1>3, <1>5, <1>6, <1>7, <1>8, <1>9, <1>11, <1>12 DEF Administer

LEMMA RunWay ==
    ASSUME TypeOK, Holding, Sound, NEW v \in Versions, Once(v), OnItsWay(v), NEW w \in Workers, Run(w)
    PROVE  OnItsWay(v)'
<1>1. finalizing' = finalizing /\ again' = again /\ IsABag(queue)
  BY DEF Run, Start, Claim, NotClaimed, SetupFails, Complete, Copy, Fail, FailAgain, Release, Retry, Acknowledge,
         history, TypeOK
<1>2. ASSUME NEW t \in BagToSet(queue), Start(w, t) PROVE OnItsWay(v)'
  <2>1. /\ row' = row /\ unsent' = unsent /\ pc[w] = "idle" /\ pc'[w] = "start" /\ task'[w] = t
        /\ \A x \in Workers \ {w} : task'[x] = task[x] /\ pc'[x] = pc[x]
    BY <1>2 DEF Start, Goto, TypeOK
  <2>2. BagToSet(queue') \subseteq BagToSet(queue)
    BY <1>1, <1>2, BagTakes DEF Start
  <2>3. /\ version'[v].processing \in {version[v].processing, "PROCESSING"}
        /\ version'[v].source = version[v].source
        /\ t.version # v => version'[v] = version[v]
    BY <1>2 DEF Start, TypeOK, Version
  <2>4. /\ Open(v) => Open(v)'
        /\ \A q \in Rows : (Its(v, q)' <=> Its(v, q)) /\ \A s \in {"PENDING", "PARSING"} : Ready(q, s)' <=> Ready(q, s)
    BY <1>1, <2>1, <2>3 DEF Open, Its, Ready, IsUpload
  <2>5. \A k \in Waiting' : k \in Waiting /\ k.upload \in Rows
    BY <2>1, <2>2 DEF Waiting, TypeOK, Tasks
  <2>6. t \in Waiting /\ t.upload \in Rows
    BY DEF Waiting, TypeOK, Tasks
  <2>7. \A x \in Workers \ {w} : Working(x)' => /\ Working(x) /\ Held(x) \in Rows
                                              /\ Held(x)' = Held(x) /\ HeldVersion(x)' = HeldVersion(x)
    BY <2>1 DEF Working, Held, HeldVersion, Holding, Tasks
  <2>8. Held(w)' = t.upload /\ HeldVersion(w)' = t.version
    BY <2>1 DEF Held, HeldVersion
  <2> QED BY <2>1, <2>4, <2>5, <2>6, <2>7, <2>8 DEF OnItsWay
<1>3. CASE Acknowledge(w)
  <2>1. /\ UNCHANGED <<row, version, queue, unsent>> /\ pc'[w] = "idle"
        /\ \A x \in Workers \ {w} : task'[x] = task[x] /\ pc'[x] = pc[x]
    BY <1>3 DEF Acknowledge, Idle, Goto, TypeOK
  <2>2. ReadyKept(v)
    BY <1>1, <2>1, ReadyStays
  <2> QED BY <2>1, <2>2, WayKept DEF Waiting, Working, Held, HeldVersion
<1>4. CASE Retry(w)
  <2> DEFINE t == [task[w] EXCEPT !.tries = @ + 1]
  <2>1. /\ UNCHANGED <<row, version, unsent, task>> /\ queue' = queue (+) SetToBag({t})
        /\ pc[w] = "retry" /\ pc'[w] = "ack" /\ \A x \in Workers \ {w} : pc'[x] = pc[x]
    BY <1>4 DEF Retry, Goto, TypeOK
  <2>2. t.upload = Held(w) /\ t.version = HeldVersion(w)
    BY <2>1 DEF Held, HeldVersion, Holding, Tasks
  <2> HIDE DEF t
  <2>3. BagToSet(queue') = BagToSet(queue) \cup {t}
    <3>1. queue' = queue (+) SetToBag({t})
      BY <2>1
    <3> QED BY <1>1, <3>1, BagAdds
  <2>4. /\ Open(v)' <=> Open(v)
        /\ \A q : (Its(v, q)' <=> Its(v, q)) /\ (Ready(q, "PENDING")' <=> Ready(q, "PENDING"))
                  /\ (Ready(q, "PARSING")' <=> Ready(q, "PARSING"))
    BY <1>1, <2>1 DEF Open, Its, Ready, IsUpload
  <2>5. Waiting' = Waiting \cup {t}
    BY <2>1, <2>3 DEF Waiting
  <2>6. t.version = v => Open(v) /\ (Its(v, t.upload) => Ready(t.upload, "PENDING"))
    BY <2>1, <2>2 DEF OnItsWay, Working
  <2>7. \A x \in Workers : Working(x)' => /\ Working(x) /\ pc'[x] = pc[x]
                                        /\ Held(x)' = Held(x) /\ HeldVersion(x)' = HeldVersion(x)
    BY <2>1 DEF Working, Held, HeldVersion
  <2> QED BY <2>4, <2>5, <2>6, <2>7 DEF OnItsWay
<1>5. ASSUME GoesOn(w), HeldVersion(w) # v PROVE OnItsWay(v)'
  <2>1. /\ UNCHANGED <<queue, unsent, task>> /\ Working(w)
        /\ \A x \in Workers \ {w} : pc'[x] = pc[x]
    BY <1>5 DEF GoesOn, LeavesTasks
  <2>2. Held(w) \in Rows /\ task[w] \in Known
    BY <2>1 DEF Holding, Working, Tasks, Held, Known
  <2>3. \A q \in Rows \ {Held(w)} : row'[q] = row[q]
    BY DEF Run, Start, Claim, NotClaimed, SetupFails, Complete, Copy, Fail, FailAgain, Release, Retry, Acknowledge,
           MarkUpload, TypeOK
  <2>4. version'[v] = version[v]
    <3>1. ASSUME NEW t \in BagToSet(queue), Start(w, t) PROVE FALSE
      BY <2>1, <3>1 DEF Start, Working
    <3> QED
      BY <1>5, <3>1 DEF Run, Claim, NotClaimed, SetupFails, Complete, Copy, Fail, FailAgain, Release, Retry,
             Acknowledge, MarkVersion
  <2>5. ~ Its(v, Held(w))
    BY <1>5, <2>2 DEF Sound, TasksSound, Its, Held, HeldVersion
  <2>6. ReadyKept(v)
    BY <1>1, <2>3, <2>4, <2>5, ReadyStays
  <2> QED BY <1>5, <2>1, <2>6, WayKept DEF Waiting, Working, Held, HeldVersion
<1>6. ASSUME GoesOn(w), HeldVersion(w) = v PROVE OnItsWay(v)'
  <2>1. /\ UNCHANGED <<queue, unsent, task>> /\ Working(w)
        /\ \A x \in Workers \ {w} : pc'[x] = pc[x]
    BY <1>6 DEF GoesOn, LeavesTasks
  <2>2. \A t \in Waiting' : t.version # v
    BY <1>6, <2>1 DEF Once, Waiting
  <2>3. \A x \in Workers \ {w} : Working(x)' => HeldVersion(x)' # v
    BY <1>6, <2>1 DEF Once, Working, HeldVersion
  <2>4. /\ Open(v)
        /\ Its(v, Held(w)) /\ pc[w] \in {"start", "retry"} => Ready(Held(w), "PENDING")
        /\ Its(v, Held(w)) /\ pc[w] = "parse" => Ready(Held(w), "PARSING")
    BY <1>6, <2>1 DEF OnItsWay
  <2>5. Held(w) \in Rows
    BY <2>1 DEF Holding, Working, Tasks, Held
  <2>6. CASE ~ Working(w)'
    BY <2>2, <2>3, <2>6 DEF OnItsWay
  <2>7. CASE Working(w)'
    <3>1. version' = version
      BY <2>1, <2>7 DEF Run, Start, Claim, NotClaimed, SetupFails, Complete, Copy, Fail, FailAgain, Release, Retry,
             Acknowledge, Goto, TypeOK, Working
    <3>2. /\ Its(v, Held(w)) /\ pc'[w] \in {"start", "retry"} => Ready(Held(w), "PENDING")'
          /\ Its(v, Held(w)) /\ pc'[w] = "parse" => Ready(Held(w), "PARSING")'
      <4>0. Held(w)' = Held(w)
        BY <2>1 DEF Held
      <4>1. CASE Claim(w)
        <5>1. pc[w] = "start" /\ pc'[w] = "parse" /\ MarkUpload(Held(w), "PARSING")
          BY <4>1 DEF Claim, Goto, TypeOK
        <5>2. IsUpload(Held(w)) => row'[Held(w)].item = "JD_UPLOAD" /\ row'[Held(w)].status = "PARSING"
          BY <2>5, <5>1 DEF MarkUpload, IsUpload, TypeOK, Row
        <5> QED BY <1>1, <2>4, <4>0, <5>1, <5>2 DEF Ready, IsUpload
      <4>2. CASE SetupFails(w)
        <5>1. pc[w] = "start" /\ pc'[w] \in {"failed", "retry"} /\ row' = row
          BY <4>2 DEF SetupFails, Goto, TypeOK
        <5> QED BY <1>1, <2>4, <4>0, <5>1 DEF Ready, IsUpload
      <4>3. CASE Release(w)
        <5>1. /\ pc[w] = "parse" /\ pc'[w] = "retry"
              /\ row[Held(w)].status = "PARSING" => MarkUpload(Held(w), "PENDING")
          BY <4>3 DEF Release, Goto, TypeOK
        <5>2. IsUpload(Held(w)) /\ row[Held(w)].status = "PARSING" =>
                 row'[Held(w)].item = "JD_UPLOAD" /\ row'[Held(w)].status = "PENDING"
          BY <2>5, <5>1 DEF MarkUpload, IsUpload, TypeOK, Row
        <5> QED BY <1>1, <2>4, <4>0, <5>1, <5>2 DEF Ready, IsUpload
      <4>4. CASE NotClaimed(w) \/ Complete(w) \/ Copy(w) \/ Fail(w) \/ FailAgain(w)
        <5>1. pc'[w] \in {"ack", "copy", "failed"}
          BY <4>4 DEF NotClaimed, Complete, Copy, Fail, FailAgain, Goto, TypeOK
        <5> QED BY <5>1
      <4>5. ~ Acknowledge(w) /\ ~ Retry(w) /\ ~ \E t \in BagToSet(queue) : Start(w, t)
        BY <2>1, <2>7 DEF Acknowledge, Retry, Start, Idle, Goto, TypeOK, Working
      <4> QED BY <4>1, <4>2, <4>3, <4>4, <4>5 DEF Run
    <3>3. (Its(v, Held(w))' <=> Its(v, Held(w))) /\ Open(v)' /\ Held(w)' = Held(w)
      BY <1>1, <2>1, <2>4, <3>1 DEF Its, Open, Held
    <3> QED BY <2>2, <2>3, <3>2, <3>3 DEF OnItsWay, Ready, IsUpload, Its, Held
  <2> QED BY <2>6, <2>7
<1> QED BY <1>2, <1>3, <1>4, <1>5, <1>6, RunTasks

LEMMA TasksOnTheirWayStep ==
    ASSUME TypeOK, Holding, Sound, TasksOnce, TasksOnTheirWay, [Next]_vars
    PROVE  TasksOnTheirWay'
<1> SUFFICES ASSUME NEW v \in Versions, v \notin twice' PROVE OnItsWay(v)'
  BY DEF TasksOnTheirWay
<1>1. twice \subseteq twice'
  BY AdministerTasks, RunTasks
     DEF Next, WorkerDies, GoStale, LeavesTasks, GoesOn, Retry, Acknowledge, Start, history, vars
<1>2. Once(v) /\ OnItsWay(v) /\ IsABag(queue)
  BY <1>1 DEF TasksOnce, TasksOnTheirWay, TypeOK
<1>3. ASSUME NEW w \in Workers, WorkerDies(w) PROVE OnItsWay(v)'
  <2> DEFINE t == task[w]
  <2>1. /\ UNCHANGED <<row, version, unsent, finalizing, again>> /\ queue' = queue (+) SetToBag({t})
        /\ pc'[w] = "idle" /\ t.version # v
        /\ \A x \in Workers \ {w} : task'[x] = task[x] /\ pc'[x] = pc[x]
    BY <1>3 DEF WorkerDies, Idle, Goto, HeldVersion, TypeOK
  <2> HIDE DEF t
  <2>2. BagToSet(queue') = BagToSet(queue) \cup {t}
    <3>1. queue' = queue (+) SetToBag({t})
      BY <2>1
    <3> QED BY <1>2, <3>1, BagAdds
  <2>3. ReadyKept(v)
    BY <2>1, ReadyStays
  <2>4. \A k \in Waiting' : k \in Waiting \/ k.version # v
    BY <2>1, <2>2 DEF Waiting
  <2>5. \A x \in Workers : Working(x)' => Working(x) /\ UNCHANGED <<pc[x], Held(x), HeldVersion(x)>>
    BY <2>1 DEF Working, Held, HeldVersion
  <2> QED BY <1>2, <2>3, <2>4, <2>5, WayKept
<1>4. ASSUME NEW r \in Rows, GoStale(r) PROVE OnItsWay(v)'
  <2>1. /\ UNCHANGED <<version, queue, unsent, finalizing, pc, task, again>>
        /\ \A q \in Rows : row'[q].item = row[q].item /\ row'[q].status = row[q].status
    BY <1>4 DEF GoStale, workerVars, history, TypeOK, Row
  <2>2. ReadyKept(v)
    BY <2>1, ReadyStays
  <2> QED BY <1>2, <2>1, <2>2, WayKept DEF Waiting, Working, Held, HeldVersion
<1>5. CASE UNCHANGED vars
  BY <1>2, <1>5 DEF vars, workerVars, history, OnItsWay, Waiting, Working, Held, HeldVersion, Open, Its, Ready, IsUpload
<1> QED BY <1>2, <1>3, <1>4, <1>5, AdministerWay, RunWay DEF Next

-----------------------------------------------------------------------------
(* A version that is not done has its task.                                 *)

Carried(v) ==
    \/ \E t \in Waiting : t.version = v
    \/ \E w \in Workers : Working(w) /\ HeldVersion(w) = v

(* The versions VersionInFlight is about.                                   *)
Awaited(v) ==
    /\ version[v].job \in Rows /\ Open(v)
    /\ v \notin twice /\ version[v].source \notin {NoRow} \cup again

LEMMA InFlightIsCarried == VersionInFlight <=> \A v \in Versions : Awaited(v) => Carried(v)
BY DEF VersionInFlight, Awaited, Carried, Waiting, Working, Open

LEMMA InFlightStep ==
    ASSUME TypeOK, Holding, Sound, TasksOnTheirWay, NEW v \in Versions, Awaited(v) => Carried(v),
           Awaited(v)', [Next]_vars
    PROVE  Carried(v)'
<1>1. IsABag(queue) /\ version[v] \in Version
  BY DEF TypeOK
<1>2. twice \subseteq twice' /\ again \subseteq again'
  BY KnownStep, AdministerTasks, RunTasks
     DEF Next, WorkerDies, GoStale, LeavesTasks, GoesOn, Retry, Acknowledge, Start, history, vars
<1>3. ASSUME version'[v] = version[v] PROVE Awaited(v) /\ Carried(v)
  BY <1>2, <1>3 DEF Awaited, Open
<1>4. ASSUME UNCHANGED <<unsent, queue, pc, task>>, Carried(v) PROVE Carried(v)'
  BY <1>4 DEF Carried, Waiting, Working, HeldVersion
<1>5. CASE Administer
  <2>1. UNCHANGED <<pc, task>>
    BY <1>5, AdministerTasks
  <2>2. ASSUME NEW r \in Rows, NEW n \in Versions \cup {NoVersion}, Asks(r, n) PROVE Carried(v)'
    <3>1. Waiting' = Waiting \cup {Task(r, n, 0)} /\ Task(r, n, 0).version = n
      BY <2>2, AskedTasks DEF Waiting, Task
    <3>2. CASE n = v
      BY <3>1, <3>2 DEF Carried
    <3>3. CASE n # v
      <4>1. version'[v] = version[v]
        BY <2>2, <3>3 DEF Asks, Upload, ReparseUpload, CreateVersion, TypeOK
      <4> QED BY <1>3, <2>1, <3>1, <4>1 DEF Carried, Working, HeldVersion
    <3> QED BY <3>2, <3>3
  <2>3. ASSUME NEW t \in unsent, SendTask(t) \/ RequestDies(t) PROVE Carried(v)'
    <3>1. Awaited(v) /\ Carried(v) /\ t \in Known
      BY <1>3, <2>3 DEF SendTask, RequestDies, Known, Waiting
    <3>2. CASE SendTask(t)
      <4>1. unsent' = unsent \ {t} /\ queue' = queue (+) SetToBag({t})
        BY <3>2 DEF SendTask
      <4>2. BagToSet(queue') = BagToSet(queue) \cup {t}
        BY <1>1, <4>1, BagAdds
      <4> QED BY <2>1, <3>1, <4>1, <4>2 DEF Carried, Waiting, Working, HeldVersion
    <3>3. CASE RequestDies(t)
      <4>1. /\ unsent' = unsent \ {t} /\ queue' = queue /\ version' = version
            /\ t.upload \in again'
        BY <3>3 DEF RequestDies
      <4>2. t.version # v
        BY <3>1, <4>1 DEF Sound, TasksSound, Awaited
      <4> QED BY <2>1, <3>1, <4>1, <4>2 DEF Carried, Waiting, Working, HeldVersion
    <3> QED BY <2>3, <3>2, <3>3
  <2>4. ASSUME LeavesTasks, Awaited(v) PROVE Carried(v)'
    BY <1>4, <2>1, <2>4 DEF LeavesTasks
  <2>5. ASSUME NEW r \in Rows, PatchUpload(r) \/ ReadToFinalize(r) \/ FinalizeRefused(r) \/ EditJob(r)
        PROVE  LeavesTasks /\ Awaited(v)
    BY <1>3, <2>5 DEF PatchUpload, ReadToFinalize, FinalizeRefused, EditJob, LeavesTasks, workerVars, history
  <2>6. ASSUME NEW r \in Rows, DeleteUpload(r) \/ DeleteJob(r) PROVE LeavesTasks /\ Awaited(v)
    <3>1. LeavesTasks
      BY <2>6 DEF DeleteUpload, DeleteJob, LeavesTasks, workerVars, history
    <3>2. CASE DeleteUpload(r)
      <4>1. version'[v] = IF version[v].source = r THEN [version[v] EXCEPT !.source = NoRow] ELSE version[v]
        BY <3>2 DEF DeleteUpload, Orphaned
      <4>2. [version[v] EXCEPT !.source = NoRow].source = NoRow
        BY <1>1 DEF Version
      <4> QED BY <1>3, <3>1, <4>1, <4>2 DEF Awaited
    <3>3. CASE DeleteJob(r)
      <4>1. \/ version'[v] = [NewVersion EXCEPT !.job = Deleted]
            \/ version'[v] = IF version[v].source = r THEN [version[v] EXCEPT !.source = NoRow] ELSE version[v]
        BY <3>3 DEF DeleteJob, Orphaned
      <4>2. /\ [version[v] EXCEPT !.source = NoRow].source = NoRow
            /\ [NewVersion EXCEPT !.job = Deleted].job = Deleted
        BY <1>1 DEF Version, NewVersion
      <4> QED BY <1>3, <3>1, <4>1, <4>2, NamesAssumption DEF Awaited
    <3> QED BY <2>6, <3>2, <3>3
  <2>7. ASSUME NEW r \in Rows, NEW u \in Versions, NEW listing \in Listings, Finalize(r, u, listing)
        PROVE  LeavesTasks /\ Awaited(v)
    <3>1. u # v => version'[v] = version[v]
      BY <2>7 DEF Finalize, TypeOK
    <3>2. u = v => version'[v].processing = "DONE"
      BY <2>7 DEF Finalize, TypeOK, NewVersion
    <3>3. LeavesTasks
      BY <2>7 DEF Finalize, LeavesTasks, workerVars, history
    <3> QED BY <1>3, <3>1, <3>2, <3>3 DEF Awaited, Open
  <2>8. ASSUME NEW u \in Versions, Publish(u) PROVE LeavesTasks /\ Awaited(v)
    <3>1. version'[v] \in {version[v], [version[v] EXCEPT !.status = "ACTIVE"],
                           [version[v] EXCEPT !.status = "SUPERSEDED"]}
      BY <2>8 DEF Publish, Published
    <3>2. /\ version'[v].job = version[v].job /\ version'[v].source = version[v].source
          /\ version'[v].processing = version[v].processing
      BY <1>1, <3>1 DEF Version
    <3>3. LeavesTasks
      BY <2>8 DEF Publish, LeavesTasks, workerVars, history
    <3> QED BY <1>2, <3>2, <3>3 DEF Awaited, Open
  <2>9. ASSUME NEW r \in Rows, Upload(r) \/ ReparseUpload(r) PROVE Asks(r, NoVersion)
    BY <2>9 DEF Asks
  <2>10. ASSUME NEW job \in Rows, NEW r \in Rows, NEW n \in Versions, CreateVersion(job, r, n)
         PROVE  Asks(r, n)
    BY <2>10 DEF Asks
  <2> QED BY <1>5, <2>2, <2>3, <2>4, <2>5, <2>6, <2>7, <2>8, <2>9, <2>10 DEF Administer
<1>6. ASSUME NEW w \in Workers, NEW t \in BagToSet(queue), Start(w, t) PROVE Carried(v)'
  <2>1. /\ unsent' = unsent /\ pc[w] = "idle" /\ pc'[w] = "start" /\ task'[w] = t
        /\ queue' = queue (-) SetToBag({t})
        /\ \A x \in Workers \ {w} : task'[x] = task[x] /\ pc'[x] = pc[x]
    BY <1>6 DEF Start, Goto, TypeOK
  <2>2. CASE t.version = v
    BY <2>1, <2>2 DEF Carried, Working, HeldVersion
  <2>3. CASE t.version # v
    <3>1. Carried(v)
      BY <1>3, <1>6, <2>3 DEF Start
    <3>2. BagToSet(queue) \ {t} \subseteq BagToSet(queue')
      BY <1>1, <2>1, BagTakes
    <3> QED BY <2>1, <2>3, <3>1, <3>2 DEF Carried, Waiting, Working, HeldVersion
  <2> QED BY <2>2, <2>3
<1>7. ASSUME NEW w \in Workers, Retry(w) PROVE Carried(v)'
  <2> DEFINE t == [task[w] EXCEPT !.tries = @ + 1]
  <2>1. /\ UNCHANGED <<unsent, task>> /\ queue' = queue (+) SetToBag({t})
        /\ pc[w] = "retry" /\ pc'[w] = "ack" /\ \A x \in Workers \ {w} : pc'[x] = pc[x]
    BY <1>7 DEF Retry, Goto, TypeOK
  <2>2. t.version = HeldVersion(w)
    BY <2>1 DEF HeldVersion, Holding, Tasks
  <2> HIDE DEF t
  <2>3. BagToSet(queue') = BagToSet(queue) \cup {t}
    <3>1. queue' = queue (+) SetToBag({t})
      BY <2>1
    <3> QED BY <1>1, <3>1, BagAdds
  <2>4. Carried(v)
    BY <1>3, <1>7 DEF Retry
  <2> QED BY <2>1, <2>2, <2>3, <2>4 DEF Carried, Waiting, Working, HeldVersion
<1>8. ASSUME NEW w \in Workers, Acknowledge(w) PROVE Carried(v)'
  <2>1. /\ UNCHANGED <<version, unsent, queue>> /\ ~ Working(w)
        /\ \A x \in Workers \ {w} : pc'[x] = pc[x] /\ task'[x] = task[x]
    BY <1>8 DEF Acknowledge, Idle, Goto, TypeOK, Working
  <2> QED BY <1>3, <2>1 DEF Carried, Waiting, Working, HeldVersion
<1>9. ASSUME NEW w \in Workers, WorkerDies(w) PROVE Carried(v)'
  <2> DEFINE t == task[w]
  <2>1. /\ UNCHANGED <<version, unsent>> /\ queue' = queue (+) SetToBag({t})
        /\ t.version # v /\ HeldVersion(w) # v
        /\ \A x \in Workers \ {w} : pc'[x] = pc[x] /\ task'[x] = task[x]
    BY <1>9 DEF WorkerDies, Idle, Goto, TypeOK, HeldVersion, Awaited
  <2> HIDE DEF t
  <2>2. BagToSet(queue') = BagToSet(queue) \cup {t}
    <3>1. queue' = queue (+) SetToBag({t})
      BY <2>1
    <3> QED BY <1>1, <3>1, BagAdds
  <2> QED BY <1>3, <2>1, <2>2 DEF Carried, Waiting, Working, HeldVersion
<1>10. ASSUME NEW w \in Workers, GoesOn(w), Run(w) PROVE Carried(v)'
  <2>1. /\ UNCHANGED <<queue, unsent, task, again, twice>> /\ Working(w)
        /\ \A x \in Workers \ {w} : pc'[x] = pc[x]
    BY <1>10 DEF GoesOn, LeavesTasks
  <2>2. ~ \E t \in BagToSet(queue) : Start(w, t)
    BY <2>1 DEF Start, Working
  <2>3. CASE HeldVersion(w) # v
    <3>1. version'[v] = version[v]
      BY <1>10, <2>2, <2>3 DEF Run, Claim, NotClaimed, SetupFails, Complete, Copy, Fail, FailAgain, Release, Retry,
             Acknowledge, MarkVersion
    <3> QED BY <1>3, <2>1, <2>3, <3>1 DEF Carried, Waiting, Working, HeldVersion
  <2>4. CASE HeldVersion(w) = v /\ Working(w)'
    BY <2>1, <2>4 DEF Carried, HeldVersion
  <2>5. CASE HeldVersion(w) = v /\ ~ Working(w)'
    <3>1. OnItsWay(v) /\ task[w] \in Known /\ task[w].version = v /\ task[w].upload = Held(w)
      BY <1>2, <2>1, <2>5 DEF Awaited, TasksOnTheirWay, Known, Working, HeldVersion, Held
    <3>2. version[v].source \in {NoRow, Held(w)}
      BY <3>1 DEF Sound, TasksSound
    <3>3. CASE NotClaimed(w)
      <4>1. version' = version /\ pc[w] = "start" /\ ~ Claimable(Held(w))
        BY <3>3 DEF NotClaimed
      <4>2. Its(v, Held(w))
        BY <1>2, <3>2, <4>1 DEF Awaited, Its
      <4> QED BY <2>5, <3>1, <4>1, <4>2 DEF OnItsWay, Working, Ready, Claimable
    <3>4. CASE Copy(w)
      <4>1. version'[v] = IF version[v].source = Held(w)
                          THEN [version[v] EXCEPT !.processing = "DONE", !.content = row[Held(w)].content]
                          ELSE version[v]
        BY <2>5, <3>4 DEF Copy
      <4>2. [version[v] EXCEPT !.processing = "DONE", !.content = row[Held(w)].content].processing = "DONE"
        BY <1>1 DEF Version
      <4> QED BY <3>2, <4>1, <4>2 DEF Awaited, Open
    <3>5. CASE FailAgain(w)
      <4>1. version'[v] = IF version[v].job \in Rows THEN [version[v] EXCEPT !.processing = "FAILED"]
                          ELSE version[v]
        BY <2>5, <3>5 DEF FailAgain, MarkVersion
      <4>2. [version[v] EXCEPT !.processing = "FAILED"].processing = "FAILED"
        BY <1>1 DEF Version
      <4> QED BY <4>1, <4>2 DEF Awaited, Open
    <3>6. CASE Claim(w) \/ SetupFails(w) \/ Complete(w) \/ Fail(w) \/ Release(w)
      <4>1. pc'[w] # "ack" /\ pc'[w] # "idle"
        BY <2>5, <3>6, NamesAssumption
           DEF Claim, SetupFails, Complete, Fail, Release, Goto, TypeOK
      <4> QED BY <2>5, <4>1 DEF Working
    <3>7. ~ Acknowledge(w) \/ Retry(w)
      BY <2>1 DEF Acknowledge, Working
    <3> QED BY <1>7, <1>10, <2>2, <3>3, <3>4, <3>5, <3>6, <3>7 DEF Run
  <2> QED BY <2>3, <2>4, <2>5
<1>11. CASE (\E r \in Rows : GoStale(r)) \/ UNCHANGED vars
  <2>1. version'[v] = version[v] /\ UNCHANGED <<unsent, queue, pc, task>>
    BY <1>11 DEF GoStale, vars, workerVars
  <2> QED BY <1>3, <1>4, <2>1
<1> QED BY <1>5, <1>6, <1>7, <1>8, <1>9, <1>10, <1>11, RunTasks DEF Next

-----------------------------------------------------------------------------
(* What is published stays what the job says.                               *)

(* OneActive, as a fact about each version.                                 *)
ActiveOf(r, v) == version[v].job = r /\ version[v].status = "ACTIVE"

ActivesNamed == \A r \in Rows, v \in Versions : ActiveOf(r, v) <=> v = row[r].active

ActiveSound(r) ==
    row[r].active # NoVersion =>
        LET active == version[row[r].active] IN
        /\ active.content # NoContent
        /\ row[r].active \notin twice => active.processing = "DONE" /\ row[r].content = active.content

LEMMA PublishedParts ==
    ASSUME TypeOK, ActivesNamed, \A r \in Rows : ActiveSound(r)
    PROVE  PublishedIsActive
<1> SUFFICES ASSUME NEW r \in Rows PROVE OneActive(r) /\ ActiveSound(r)
  BY DEF PublishedIsActive, ActiveSound
<1>1. row[r].active \in Versions \cup {NoVersion}
  BY DEF TypeOK, Row
<1> QED BY <1>1, NamesAssumption DEF OneActive, VersionsOf, ActiveOf, ActivesNamed

(* A step that leaves job, status and active of everything alone.           *)
LEMMA ActivesStay ==
    ASSUME ActivesNamed, \A r \in Rows : row'[r].active = row[r].active,
           \A v \in Versions : version'[v].job = version[v].job /\ version'[v].status = version[v].status
    PROVE  ActivesNamed'
BY DEF ActivesNamed, ActiveOf

LEMMA ActiveKept ==
    ASSUME TypeOK, NEW r \in Rows,
           NewUpload(r) \/ ReparseUpload(r) \/ PatchUpload(r) \/ EditJob(r) \/ DeleteUpload(r)
    PROVE  \A q \in Rows : row'[q].active = row[q].active
<1>1. row[r] \in Row
  BY DEF TypeOK
<1>2. CASE NewUpload(r) \/ DeleteUpload(r)
  BY <1>2 DEF NewUpload, DeleteUpload, TypeOK, Row
<1>3. CASE ReparseUpload(r)
  BY <1>3 DEF ReparseUpload, MarkUpload, TypeOK, Row
<1>4. CASE PatchUpload(r)
  <2>1. PICK c \in Contents : row' = [row EXCEPT ![r].content = c, ![r].fresh = TRUE]
    BY <1>4 DEF PatchUpload
  <2>2. row'[r] = [row[r] EXCEPT !.content = c, !.fresh = TRUE] /\ \A q \in Rows \ {r} : row'[q] = row[q]
    BY <2>1 DEF TypeOK
  <2> QED BY <1>1, <2>2 DEF Row
<1>5. CASE EditJob(r)
  BY <1>5 DEF EditJob, TypeOK, Row
<1> QED BY <1>2, <1>3, <1>4, <1>5

LEMMA RequestActives ==
    ASSUME TypeOK, Sound, ActivesNamed, Administer
    PROVE  ActivesNamed'
<1>1. \A v \in Versions : version[v] \in Version
  BY DEF TypeOK
<1>2. ASSUME UNCHANGED <<row, version>> PROVE ActivesNamed'
  BY <1>2, ActivesStay
<1>3. ASSUME NEW r \in Rows, Upload(r) \/ ReparseUpload(r) \/ PatchUpload(r) \/ EditJob(r) PROVE ActivesNamed'
  <2>1. version' = version
    BY <1>3 DEF Upload, ReparseUpload, PatchUpload, EditJob
  <2>2. \A q \in Rows : row'[q].active = row[q].active
    BY <1>3, ActiveKept DEF Upload
  <2> QED BY <2>1, <2>2, ActivesStay
<1>4. ASSUME NEW r \in Rows, DeleteUpload(r) PROVE ActivesNamed'
  <2>1. \A q \in Rows : row'[q].active = row[q].active
    BY <1>4 DEF DeleteUpload, TypeOK, Row
  <2>2. \A v \in Versions : version'[v].job = version[v].job /\ version'[v].status = version[v].status
    BY <1>1, <1>4 DEF DeleteUpload, Orphaned, Version
  <2> QED BY <2>1, <2>2, ActivesStay
<1>5. ASSUME NEW job \in Rows, NEW r \in Rows, NEW u \in Versions, CreateVersion(job, r, u) PROVE ActivesNamed'
  <2>1. \A q \in Rows : row'[q].active = row[q].active
    BY <1>5 DEF CreateVersion, NewUpload, TypeOK, Row
  <2>2. version[u].job = NoRow /\ version'[u].status = "DRAFT"
    BY <1>5 DEF CreateVersion, TypeOK, NewVersion
  <2>3. \A v \in Versions \ {u} : version'[v] = version[v]
    BY <1>5 DEF CreateVersion, TypeOK
  <2>4. \A q \in Rows : ~ ActiveOf(q, u) /\ ~ ActiveOf(q, u)'
    BY <2>2, NamesAssumption DEF ActiveOf
  <2> QED BY <2>1, <2>3, <2>4 DEF ActivesNamed, ActiveOf
<1>6. ASSUME NEW r \in Rows, NEW u \in Versions, NEW listing \in Listings, Finalize(r, u, listing)
      PROVE  ActivesNamed'
  <2>1. /\ row[r].item = "JD_UPLOAD" /\ version[u].job = NoRow
        /\ \A q \in Rows \ {r} : row'[q] = row[q]
        /\ \A v \in Versions \ {u} : version'[v] = version[v]
    BY <1>6 DEF Finalize, IsUpload, TypeOK
  <2>2. version'[u].job = r /\ version'[u].status = IF listing = "ACTIVE" THEN "ACTIVE" ELSE "DRAFT"
    BY <1>6 DEF Finalize, TypeOK, NewVersion
  <2>3. row'[r].active = IF listing = "ACTIVE" THEN u ELSE row[r].active
    BY <1>6 DEF Finalize, TypeOK, Row
  <2>4. row[r].active = NoVersion
    BY <2>1 DEF Sound, RowsSound, IsJob
  <2>5. \A v \in Versions : version[v].job # r
    BY <2>1 DEF Sound, VersionsSound, IsJob
  <2>6. \A q \in Rows : ~ ActiveOf(q, u)
    BY <2>1, NamesAssumption DEF ActiveOf
  <2> QED BY <2>1, <2>2, <2>3, <2>4, <2>5, <2>6, NamesAssumption DEF ActivesNamed, ActiveOf
<1>7. ASSUME NEW u \in Versions, Publish(u) PROVE ActivesNamed'
  <2> DEFINE job == version[u].job
  <2>1. /\ job \in Rows /\ \A q \in Rows \ {job} : row'[q] = row[q]
    BY <1>7 DEF Publish, TypeOK
  <2>2. row'[job].active = u
    BY <1>7, <2>1 DEF Publish, TypeOK, Row
  <2>3. ASSUME NEW v \in Versions
        PROVE  /\ version'[v].job = version[v].job
               /\ v = u => version'[v].status = "ACTIVE"
               /\ v # u /\ version[v].job = job => version'[v].status # "ACTIVE"
               /\ v # u /\ version[v].job # job => version'[v] = version[v]
    <3>1. CASE v = u
      <4>1. version'[v] = [version[v] EXCEPT !.status = "ACTIVE"]
        BY <1>7, <3>1 DEF Publish, Published
      <4> QED BY <1>1, <3>1, <4>1 DEF Version
    <3>2. CASE v # u /\ version[v].job = job /\ version[v].status = "ACTIVE"
      <4>1. version'[v] = [version[v] EXCEPT !.status = "SUPERSEDED"]
        BY <1>7, <3>2 DEF Publish, Published
      <4> QED BY <1>1, <3>2, <4>1 DEF Version
    <3>3. CASE v # u /\ ~ (version[v].job = job /\ version[v].status = "ACTIVE")
      <4>1. version'[v] = version[v]
        BY <1>7, <3>3 DEF Publish, Published
      <4> QED BY <3>3, <4>1
    <3> QED BY <3>1, <3>2, <3>3
  <2> QED BY <2>1, <2>2, <2>3 DEF ActivesNamed, ActiveOf
<1>8. ASSUME NEW r \in Rows, DeleteJob(r) PROVE ActivesNamed'
  <2>1. /\ row'[r].active = NoVersion
        /\ \A q \in Rows \ {r} : row'[q] = row[q]
    BY <1>8 DEF DeleteJob, TypeOK, Row
  <2>2. ASSUME NEW v \in Versions
        PROVE  /\ version[v].job = r => version'[v].job = Deleted
               /\ version[v].job # r => version'[v].job = version[v].job /\ version'[v].status = version[v].status
    BY <1>1, <1>8 DEF DeleteJob, VersionsOf, Orphaned, NewVersion, Version
  <2>3. Deleted \notin Rows
    BY NamesAssumption
  <2> QED BY <2>1, <2>2, <2>3, NamesAssumption DEF ActivesNamed, ActiveOf
<1>9. ASSUME \/ \E r \in Rows : ReadToFinalize(r) \/ FinalizeRefused(r)
             \/ \E t \in unsent : SendTask(t) \/ RequestDies(t)
      PROVE  ActivesNamed'
  BY <1>2, <1>9 DEF ReadToFinalize, FinalizeRefused, SendTask, RequestDies
<1> QED BY <1>3, <1>4, <1>5, <1>6, <1>7, <1>8, <1>9 DEF Administer

LEMMA ActivesStep ==
    ASSUME TypeOK, Holding, Sound, ActivesNamed, [Next]_vars
    PROVE  ActivesNamed'
<1>1. ASSUME NEW w \in Workers, Run(w) PROVE ActivesNamed'
  <2>1. \A r \in Rows : row'[r].active = row[r].active
    <3>1. Spared
      BY <1>1, RunSpares DEF Rowed, TypeOK
    <3>2. Moves /\ \A q \in Rows : row'[q].item = row[q].item
      BY <1>1, RunMoves DEF Sound
    <3> QED BY <3>1, <3>2, NamesAssumption DEF Spared, Moves, RowMoves, Sound, RowsSound, IsJob
  <2>2. ASSUME NEW v \in Versions
        PROVE  version'[v].job = version[v].job /\ version'[v].status = version[v].status
    <3>1. version[v] \in Version
      BY DEF TypeOK
    <3>2. ASSUME NEW t \in BagToSet(queue), Start(w, t)
          PROVE  version'[v] \in {version[v], [version[v] EXCEPT !.processing = "PROCESSING"]}
      BY <3>2 DEF Start
    <3>3. \/ version'[v] \in {version[v], [version[v] EXCEPT !.processing = "PROCESSING"],
                              [version[v] EXCEPT !.processing = "FAILED"]}
          \/ version'[v] = [version[v] EXCEPT !.processing = "DONE", !.content = row[Held(w)].content]
      BY <1>1, <3>2 DEF Run, Claim, NotClaimed, SetupFails, Complete, Copy, Fail, FailAgain, Release, Retry,
             Acknowledge, MarkVersion
    <3> QED BY <3>1, <3>3 DEF Version
  <2> QED BY <2>1, <2>2, ActivesStay
<1>2. CASE (\E w \in Workers : WorkerDies(w)) \/ UNCHANGED vars
  BY <1>2, ActivesStay DEF WorkerDies, vars
<1>3. ASSUME NEW r \in Rows, GoStale(r) PROVE ActivesNamed'
  <2>1. version' = version /\ \A q \in Rows : row'[q].active = row[q].active
    BY <1>3 DEF GoStale, TypeOK, Row
  <2> QED BY <2>1, ActivesStay
<1> QED BY <1>1, <1>2, <1>3, RequestActives DEF Next

(* A step that leaves the job, and its active version, alone.               *)
LEMMA ActiveStays ==
    ASSUME NEW r \in Rows, ActiveSound(r), twice \subseteq twice',
           row'[r].active = row[r].active, row'[r].content = row[r].content,
           row[r].active # NoVersion =>
              /\ version'[row[r].active].content = version[row[r].active].content
              /\ version'[row[r].active].processing = version[row[r].active].processing
    PROVE  ActiveSound(r)'
BY DEF ActiveSound

LEMMA ActiveSoundStep ==
    ASSUME TypeOK, Holding, Sound, TasksOnTheirWay, ActivesNamed, NEW r \in Rows, ActiveSound(r),
           twice \subseteq twice', [Next]_vars
    PROVE  ActiveSound(r)'
<1> DEFINE a == row[r].active
<1>1. /\ \A v \in Versions : version[v] \in Version
      /\ a # NoVersion => /\ a \in Versions /\ version[a].job = r /\ version[a].status = "ACTIVE"
                          /\ row[r].item = "JOB_DESCRIPTION"
  BY DEF TypeOK, Row, ActivesNamed, ActiveOf, Sound, RowsSound, IsJob
<1>2. CASE a = NoVersion /\ row'[r].active = NoVersion
  BY <1>2 DEF ActiveSound
<1>3. ASSUME row' = row, a # NoVersion => version'[a] = version[a] PROVE ActiveSound(r)'
  BY <1>3, ActiveStays
<1>4. CASE Administer
  <2>1. CASE a # NoVersion /\ row'[r] = row[r]
    <3>1. r \in Rows /\ NoRow \notin Rows /\ r # Deleted
      BY NamesAssumption
    <3>2. \/ version'[a].content = version[a].content /\ version'[a].processing = version[a].processing
          \/ \E u \in Versions : Publish(u)
      <4>1. ASSUME NEW q \in Rows, DeleteUpload(q) \/ DeleteJob(q), row'[q] # row[q] \/ DeleteUpload(q)
            PROVE  version'[a].content = version[a].content /\ version'[a].processing = version[a].processing
        <5>1. q # r
          BY <1>1, <2>1, <4>1 DEF DeleteUpload, IsUpload
        <5> QED BY <1>1, <2>1, <4>1, <5>1 DEF DeleteUpload, DeleteJob, VersionsOf, Orphaned, Version
      <4>2. ASSUME NEW q \in Rows, DeleteJob(q) PROVE row'[q] # row[q]
        BY <4>2 DEF DeleteJob, IsJob, TypeOK, Row
      <4>3. ASSUME NEW job \in Rows, NEW q \in Rows, NEW u \in Versions, NEW listing \in Listings,
                   CreateVersion(job, q, u) \/ Finalize(q, u, listing)
            PROVE  version'[a] = version[a]
        <5>1. u # a
          BY <1>1, <2>1, <3>1, <4>3 DEF CreateVersion, Finalize
        <5> QED BY <1>1, <2>1, <4>3, <5>1 DEF CreateVersion, Finalize, TypeOK
      <4>4. CASE version' = version
        BY <4>4
      <4>5. "ACTIVE" \in Listings
        BY DEF Listings
      <4> QED BY <1>4, <4>1, <4>2, <4>3, <4>4, <4>5
            DEF Administer, Upload, ReparseUpload, PatchUpload, ReadToFinalize, FinalizeRefused, EditJob,
                SendTask, RequestDies
    <3>3. ASSUME NEW u \in Versions, Publish(u)
          PROVE  version'[a].content = version[a].content /\ version'[a].processing = version[a].processing
      <4>1. version'[a] \in {version[a], [version[a] EXCEPT !.status = "ACTIVE"],
                             [version[a] EXCEPT !.status = "SUPERSEDED"]}
        BY <1>1, <2>1, <3>3 DEF Publish, Published
      <4> QED BY <1>1, <2>1, <4>1 DEF Version
    <3> QED BY <2>1, <3>2, <3>3, ActiveStays
  <2>2. CASE a # NoVersion /\ row'[r] # row[r]
    <3>1. EditJob(r) \/ DeleteJob(r) \/ \E v \in VersionsOf(r) : Publish(v)
      BY <1>1, <1>4, <2>2, AdministerEdits DEF IsJob, Rowed, TypeOK
    <3>2. CASE EditJob(r)
      <4>1. version' = version /\ row'[r].active = row[r].active /\ row'[r].content = row[r].content
        BY <3>2 DEF EditJob, TypeOK, Row
      <4> QED BY <4>1, ActiveStays
    <3>3. CASE DeleteJob(r)
      BY <3>3 DEF DeleteJob, ActiveSound, TypeOK, Row
    <3>4. ASSUME NEW v \in VersionsOf(r), Publish(v) PROVE ActiveSound(r)'
      <4>1. version[v].job = r /\ v \in Versions
        BY DEF VersionsOf
      <4>2. row'[r].active = v /\ row'[r].content = version[v].content
        BY <3>4, <4>1 DEF Publish, TypeOK, Row
      <4>3. version'[v] = [version[v] EXCEPT !.status = "ACTIVE"]
        BY <3>4, <4>1 DEF Publish, Published
      <4>4. version'[v].content = version[v].content /\ version'[v].processing = version[v].processing
        BY <1>1, <4>1, <4>3 DEF Version
      <4>5. version[v].content # NoContent /\ version[v].processing = "DONE"
        BY <3>4 DEF Publish
      <4> QED BY <4>2, <4>4, <4>5 DEF ActiveSound
    <3> QED BY <3>1, <3>2, <3>3, <3>4
  <2>3. CASE a = NoVersion /\ row'[r].active # NoVersion
    <3>1. ASSUME NEW q \in Rows, Upload(q) \/ ReparseUpload(q) \/ PatchUpload(q) \/ EditJob(q) \/ DeleteUpload(q)
                 \/ (\E job \in Rows, u \in Versions : CreateVersion(job, q, u)) \/ DeleteJob(q)
          PROVE  row'[r].active \in {row[r].active, NoVersion}
      <4>1. CASE DeleteJob(q)
        BY <4>1 DEF DeleteJob, TypeOK, Row
      <4>2. CASE ~ DeleteJob(q)
        BY <3>1, <4>2, ActiveKept DEF Upload, CreateVersion
      <4> QED BY <4>1, <4>2
    <3>2. CASE row' = row
      BY <2>3, <3>2
    <3>3. ASSUME NEW q \in Rows, NEW u \in Versions, NEW listing \in Listings, Finalize(q, u, listing)
          PROVE  ActiveSound(r)'
      <4>1. q # r => row'[r] = row[r]
        BY <3>3 DEF Finalize, TypeOK
      <4>2. q = r
        BY <2>3, <4>1
      <4>3. row'[r].active \in {u, row[r].active} /\ row'[r].content = row[r].content
        BY <3>3, <4>2 DEF Finalize, TypeOK, Row
      <4>4. version'[u].processing = "DONE" /\ version'[u].content = row[r].content
        BY <3>3, <4>2 DEF Finalize, TypeOK, NewVersion
      <4>5. row[r].content # NoContent
        BY <3>3, <4>2 DEF Finalize, Sound, RowsSound
      <4> QED BY <2>3, <4>3, <4>4, <4>5 DEF ActiveSound
    <3>4. ASSUME NEW v \in Versions, Publish(v) PROVE ActiveSound(r)'
      <4>1. version[v].job = r
        BY <2>3, <3>4 DEF Publish, TypeOK
      <4>2. row'[r].active = v /\ row'[r].content = version[v].content
        BY <3>4, <4>1 DEF Publish, TypeOK, Row
      <4>3. version'[v] = [version[v] EXCEPT !.status = "ACTIVE"]
        BY <3>4 DEF Publish, Published
      <4>4. version'[v].content = version[v].content /\ version'[v].processing = version[v].processing
        BY <1>1, <4>3 DEF Version
      <4>5. version[v].content # NoContent /\ version[v].processing = "DONE"
        BY <3>4 DEF Publish
      <4> QED BY <4>2, <4>4, <4>5 DEF ActiveSound
    <3> QED BY <1>4, <2>3, <3>1, <3>2, <3>3, <3>4
          DEF Administer, ReadToFinalize, FinalizeRefused, SendTask, RequestDies
  <2> QED BY <1>2, <2>1, <2>2, <2>3
<1>5. ASSUME NEW w \in Workers, Run(w) PROVE ActiveSound(r)'
  <2>1. CASE a = NoVersion
    <3>1. ActivesNamed'
      BY <1>5, ActivesStep DEF Next
    <3>2. Moves /\ row'[r].item = row[r].item
      BY <1>5, RunMoves DEF Sound
    <3>3. Spared
      BY <1>5, RunSpares DEF Rowed, TypeOK
    <3>4. row'[r].active = NoVersion
      BY <2>1, <3>2, <3>3, NamesAssumption DEF Moves, RowMoves, Spared, IsJob
    <3> QED BY <1>2, <2>1, <3>4
  <2>2. CASE a # NoVersion
    <3>1. row'[r] = row[r]
      BY <1>1, <1>5, <2>2, RunSpares DEF Rowed, TypeOK, Spared, IsJob
    <3>2. ASSUME a \notin twice, version[a].processing = "DONE"
          PROVE  version'[a] = version[a]
      <4>1. OnItsWay(a) /\ ~ Open(a)
        BY <1>1, <2>2, <3>2 DEF TasksOnTheirWay, Open
      <4>2. ASSUME NEW t \in BagToSet(queue), Start(w, t) PROVE version'[a] = version[a]
        <5>1. t.version # a
          BY <4>1 DEF OnItsWay, Waiting
        <5> QED BY <1>1, <2>2, <4>2, <5>1 DEF Start
      <4>3. CASE Copy(w) \/ FailAgain(w)
        <5>1. Working(w)
          BY <4>3 DEF Copy, FailAgain, Working
        <5>2. HeldVersion(w) # a
          BY <4>1, <5>1 DEF OnItsWay
        <5> QED BY <1>1, <2>2, <4>3, <5>2 DEF Copy, FailAgain, MarkVersion
      <4> QED BY <1>5, <4>2, <4>3 DEF Run, Claim, NotClaimed, SetupFails, Complete, Fail, Release, Retry, Acknowledge
    <3>3. ASSUME version[a].content # NoContent PROVE version'[a].content # NoContent
      <4>1. ASSUME NEW t \in BagToSet(queue), Start(w, t) PROVE version'[a].content = version[a].content
        BY <1>1, <2>2, <4>1 DEF Start, Version
      <4>2. CASE FailAgain(w)
        BY <1>1, <2>2, <3>3, <4>2 DEF FailAgain, MarkVersion, Version
      <4>3. CASE Copy(w)
        <5>1. CASE version'[a] = version[a]
          BY <3>3, <5>1
        <5>2. CASE version'[a] # version[a]
          <6>1. /\ version[a].source = Held(w) /\ pc[w] = "copy"
                /\ version'[a] = [version[a] EXCEPT !.processing = "DONE", !.content = row[Held(w)].content]
            BY <1>1, <2>2, <4>3, <5>2 DEF Copy
          <6>2. Held(w) \in Rows
            BY <6>1 DEF Holding, Tasks, Held
          <6>3. row[Held(w)].item # "GONE"
            BY <1>1, <2>2, <6>1, <6>2 DEF Sound, VersionsSound
          <6>4. row[Held(w)].content # NoContent
            BY <6>1, <6>3 DEF Sound, CopySound
          <6>5. version'[a].content = row[Held(w)].content
            BY <1>1, <2>2, <6>1 DEF Version
          <6> QED BY <6>4, <6>5
        <5> QED BY <5>1, <5>2
      <4> QED BY <1>5, <3>3, <4>1, <4>2, <4>3
            DEF Run, Claim, NotClaimed, SetupFails, Complete, Fail, Release, Retry, Acknowledge
    <3> QED BY <2>2, <3>1, <3>2, <3>3 DEF ActiveSound
  <2> QED BY <2>1, <2>2
<1>6. CASE (\E w \in Workers : WorkerDies(w)) \/ UNCHANGED vars
  BY <1>3, <1>6 DEF WorkerDies, vars
<1>7. ASSUME NEW q \in Rows, GoStale(q) PROVE ActiveSound(r)'
  <2>1. version' = version /\ row'[r].active = row[r].active /\ row'[r].content = row[r].content
    BY <1>7 DEF GoStale, TypeOK, Row
  <2> QED BY <2>1, ActiveStays
<1> QED BY <1>4, <1>5, <1>6, <1>7 DEF Next

-----------------------------------------------------------------------------

(* The inductive invariant of job descriptions.                             *)
JdInv ==
    /\ TypeOK /\ Holding /\ Sound /\ TasksOnce /\ TasksOnTheirWay
    /\ VersionInFlight
    /\ ActivesNamed /\ \A r \in Rows : ActiveSound(r)

LEMMA InitJdInv == Init => JdInv
<1> SUFFICES ASSUME Init PROVE JdInv
  OBVIOUS
<1>1. TypeOK /\ Holding
  BY InitTypeOK
<1>2. Waiting = {} /\ Known = {} /\ \A w \in Workers : ~ Working(w)
  BY DEF Init, Waiting, Known, Working, EmptyBag, BagToSet, SetToBag
<1>3. \A r \in Rows : /\ row[r].item = "NONE" /\ row[r].status = "PENDING" /\ row[r].active = NoVersion
                      /\ r \notin finalizing
  BY DEF Init
<1>4. \A v \in Versions : /\ version[v].job = NoRow /\ version[v].source = NoRow /\ version[v].status = "DRAFT"
  BY DEF Init, NewVersion
<1>5. Sound
  BY <1>2, <1>3, <1>4, NamesAssumption
     DEF Init, Sound, RowsSound, VersionsSound, TasksSound, CopySound, IsJob, IsUpload
<1>6. TasksOnce /\ TasksOnTheirWay
  BY <1>2 DEF TasksOnce, Once, TasksOnTheirWay, OnItsWay
<1>7. VersionInFlight
  BY <1>4, NamesAssumption DEF VersionInFlight
<1>8. ActivesNamed /\ \A r \in Rows : ActiveSound(r)
  BY <1>3, <1>4, NamesAssumption DEF ActivesNamed, ActiveOf, ActiveSound
<1> QED BY <1>1, <1>5, <1>6, <1>7, <1>8 DEF JdInv

(* Types, tasks, versions and jobs support each other's invariants, so they *)
(* are proved together.                                                     *)
THEOREM JdInvariant == Spec => []JdInv
<1>1. JdInv /\ [Next]_vars => JdInv'
  <2> SUFFICES ASSUME JdInv, [Next]_vars PROVE JdInv'
    OBVIOUS
  <2>1. TypeOK /\ Holding /\ Sound /\ TasksOnce /\ TasksOnTheirWay /\ ActivesNamed
    BY DEF JdInv
  <2>2. TypeOK' /\ Holding'
    BY <2>1, TypeStep
  <2>3. Sound' /\ TasksOnce' /\ TasksOnTheirWay' /\ ActivesNamed'
    BY <2>1, SoundStep, TasksOnceStep, TasksOnTheirWayStep, ActivesStep DEF Sound
  <2>4. VersionInFlight'
    <3>1. \A v \in Versions : Awaited(v)' => Carried(v)'
      BY <2>1, InFlightIsCarried, InFlightStep DEF JdInv
    <3> QED BY <3>1 DEF VersionInFlight, Awaited, Carried, Waiting, Working, Open
  <2>5. twice \subseteq twice'
    BY AdministerTasks, RunTasks, <2>1
       DEF Next, WorkerDies, GoStale, LeavesTasks, GoesOn, Retry, Acknowledge, Start, history, vars
  <2>6. \A r \in Rows : ActiveSound(r)'
    BY <2>1, <2>5, ActiveSoundStep DEF JdInv
  <2> QED BY <2>2, <2>3, <2>4, <2>6 DEF JdInv
<1> QED BY <1>1, InitJdInv, PTL DEF Spec

(* A version that is not parsed yet has a task that will finish it.         *)
THEOREM VersionsAreCarried == Spec => []VersionInFlight
<1>1. JdInv => VersionInFlight
  BY DEF JdInv
<1> QED BY <1>1, JdInvariant, PTL

(* A job is what its one active version says.                               *)
THEOREM JobsSayWhatIsPublished == Spec => []PublishedIsActive
<1>1. JdInv => PublishedIsActive
  BY PublishedParts DEF JdInv
<1> QED BY <1>1, JdInvariant, PTL
=============================================================================

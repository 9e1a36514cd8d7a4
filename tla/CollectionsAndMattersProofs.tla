---------------------- MODULE CollectionsAndMattersProofs ----------------------
(***************************************************************************)
(* Theorems about CollectionsAndMatters: what a deletion promises it keeps *)
(* while imports run, and what the two unsynchronised checks guarantee an  *)
(* import that nobody cancels, for any number of collections, artifacts,   *)
(* deletions, imports and faults.                                          *)
(***************************************************************************)
EXTENDS CollectionsAndMatters, CollectionDeletionProofs, MatterImportProofs

-----------------------------------------------------------------------------
(* Deletions, beside imports.                                               *)

\* The deletions of the composition are in order.
OrderlyComposition == ComposedSpec /\ [][InOrder]_allVars

\* What the deletions keep.
DeletionsInv == TypeInv /\ ContentInv /\ ManifestInv /\ OneBlobPerHash

\* An uploaded store is one that deletions may start from.
LEMMA ComposedStart == ComposedInit => DeletionsInv /\ OrderInv
  <1> SUFFICES ASSUME ComposedInit PROVE DeletionsInv /\ OrderInv
    OBVIOUS
  <1> DEFINE b == CHOOSE x \in Blobs : TRUE
             h == CHOOSE x \in Hashes : TRUE
  <1>1. /\ b \in Blobs /\ h \in Hashes
        /\ blobRow = [x \in Blobs |-> IF x = b THEN h ELSE Unwritten] /\ object = {b}
        /\ artifact = [a \in Artifacts |-> b] /\ collection = [c \in Collections |-> "OPEN"]
    BY ContentsAssumption DEF ComposedInit, UploadedStore, OneBlob
  <1> HIDE DEF b, h
  <1>2. /\ DeletionInit
        /\ NoTotals \in Totals /\ NoTotals \in [items : Nat, artifacts : Nat, blobs : Nat, erased : Nat]
    BY DEF ComposedInit, NoTotals, Totals
  <1>3. TypeInv
    <2>1. NoJob \in JobRecord
      BY <1>2, DeletionAssumption DEF NoJob, JobRecord, JobStatus
    <2>2. IdleRequest \in RequestRecord
      BY DeletionAssumption DEF IdleRequest, RequestRecord, RequestPC
    <2>3. NoWorkflow \in WorkflowRecord
      BY <1>2 DEF NoWorkflow, WorkflowRecord, WorkflowPC
    <2>4. TypeOK
      BY <1>1, <1>2, <2>1, <2>2, <2>3, DeletionAssumption DEF DeletionInit, TypeOK, CollectionStatus
    <2>5. RequestsKnowJobs
      BY <1>2 DEF DeletionInit, RequestsKnowJobs, IdleRequest
    <2> QED  BY <2>4, <2>5 DEF TypeInv
  <1>4. ContentInv
    <2>1. \A x \in Blobs : blobRow[x] # Erased /\ (blobRow[x] \in Hashes => x = b)
      BY <1>1, DeletionAssumption
    <2> QED
      BY <1>1, <1>2, <2>1
         DEF DeletionInit, ContentInv, ArtifactsHaveBlobs, BlobsHaveObjects, UploadsHaveObjects,
             ScheduledIsErased, ErasingIsErased, NoWorkflow, Live
  <1>5. ManifestInv /\ OneBlobPerHash
    BY <1>1, <1>2, DeletionAssumption
       DEF DeletionInit, ManifestInv, ErasedIsScheduled, PendingKeepsJob, Pending, OneBlobPerHash
  <1>6. /\ \A c : Lost(c) = {}
        /\ \A j \in Jobs : Pending(j) = {} /\ ~Alive(j) /\ Untouched(job[j].done)
    BY <1>1, <1>2, StoreAssumption
       DEF DeletionInit, Lost, Pending, Alive, NoJob, NoTotals, ActiveDeletionStatus, Untouched
  <1>7. AttemptsInv /\ ActiveInv /\ UploadsInv
    BY <1>1, <1>2, <1>6
       DEF DeletionInit, AttemptsInv, JobAttempts, Enqueues, NoJob, NoWorkflow, IdleRequest,
           ActiveInv, ActiveDeletionStatus, UploadsInv
  <1>8. BatchesInv /\ LostInv
    BY <1>2, <1>6 DEF DeletionInit, BatchesInv, BatchOK, NoWorkflow, LostInv
  <1>9. CountedInv
    <2>1. \A c : Cardinality(Lost(c)) = 0 /\ Cardinality(Lost(c) \cap ItemArtifacts) = 0
      BY <1>6, FS_EmptySet
    <2>2. ASSUME NEW j \in Jobs
          PROVE  job[j].done = NoTotals /\ job[j].status = "NONE" /\ Cardinality(Pending(j)) = 0
      BY <1>2, <1>6, FS_EmptySet DEF DeletionInit, NoJob
    <2> QED  BY <2>1, <2>2 DEF CountedInv, Counted, NoTotals
  <1> QED  BY <1>3, <1>4, <1>5, <1>7, <1>8, <1>9 DEF DeletionsInv, OrderInv

\* No step of an import touches what deletions work on.
LEMMA ImportsTouchNoArtifacts ==
    ASSUME ImportNext
    PROVE  UNCHANGED <<collection, artifact>>
  <1> USE DEF storeVars
  <1>1. ASSUME NEW i \in Imports, ImportStep(i) \/ ImportRestarts(i) \/ ImportGivesUp(i)
        PROVE  UNCHANGED <<collection, artifact>>
    BY <1>1 DEF ImportStep, CommitImport, FreezeRead, FreezeMark, SelectRead, SelectInsert, FrozenRead,
                Run, Drop, Load, Cleanup, Await, CompleteRead, Finish, FailRead, FailWrite, Halt,
                ImportRestarts, ImportGivesUp
  <1>2. ASSUME NEW i \in Imports, CancelStep(i) \/ \E c \in Collections, m \in Matters : RequestImport(i, c, m)
        PROVE  UNCHANGED <<collection, artifact>>
    BY <1>2 DEF CancelStep, CancelRead, CancelWrite, CancelRemove, CancelStop, RequestImport
  <1>3. ASSUME NEW i \in Imports, NEW k \in Batches,
               ChildStep(i, k) \/ ChildRestarts(i, k) \/ ChildGivesUp(i, k)
        PROVE  UNCHANGED <<collection, artifact>>
    BY <1>3 DEF ChildStep, ChildSkips, ChildRead, ChildCommit, ProgressRead, ProgressWrite, ChildHalts,
                ChildRestarts, ChildGivesUp
  <1> QED  BY <1>1, <1>2, <1>3 DEF ImportNext

\* A step that changes nothing that deletions work on.
LEMMA DeletionFrame ==
    ASSUME UNCHANGED <<collection, artifact, deletionVars>>
    PROVE  DeletionsInv => DeletionsInv'
  <1> USE DEF deletionVars, artifactVars
  <1>1. TypeInv => TypeInv'
    BY DEF TypeInv, TypeOK, RequestsKnowJobs
  <1>2. ContentInv => ContentInv'
    <2>1. ErasingIsErased => ErasingIsErased'
      BY DEF ErasingIsErased
    <2> QED  BY <2>1, ContentFrame DEF ContentInv
  <1>3. ManifestInv => ManifestInv'
    BY DEF ManifestInv, ErasedIsScheduled, PendingKeepsJob, Pending, Running
  <1>4. OneBlobPerHash => OneBlobPerHash'
    BY DEF OneBlobPerHash
  <1> QED  BY <1>1, <1>2, <1>3, <1>4 DEF DeletionsInv

-----------------------------------------------------------------------------
(* Collections that nothing is deleted from.                                *)

\* Where an attempt has found no document and no import that keeps it from deleting.
Deleting == {"prepare", "items", "items_commit", "record", "record_commit", "blobs", "erasing",
             "complete", "completed"}

\* A collection that has lost nothing, and that no attempt is about to take something from.
Safe(c) ==
    /\ collection[c] # "GONE" /\ Lost(c) = {}
    /\ \A j \in Jobs, n \in Attempts : job[j].target = c => wf[j][n].pc \notin Deleting

\* An OPEN collection is safe, even if an attempt to delete it has begun.
LEMMA OpenIsSafe ==
    ASSUME TypeInv, OrderInv, NEW c \in Collections, collection[c] = "OPEN"
    PROVE  Safe(c)
  <1>1. ASSUME NEW j \in Jobs, NEW n \in Attempts, job[j].target = c, wf[j][n].pc \in Deleting
        PROVE  FALSE
    <2>1. wf[j][n].pc \notin {"none", "failed"}
      BY <1>1 DEF Deleting
    <2> QED  BY <1>1, <2>1, AtWork
  <1> QED  BY <1>1 DEF Safe, OrderInv, LostInv

\* Requests start no deletion of what has lost nothing.
LEMMA RequestsAreSafe ==
    ASSUME TypeInv, OrderInv, NEW c \in Collections, Safe(c), NEW r \in Requests, RequestNext(r)
    PROVE  Safe(c)'
  <1>1. artifact' = artifact
    BY DEF RequestNext, DeleteRequest, FindJob, CreateJob, RefuseJob, RetryRequest, RetryJob,
           RefuseRetry, Enqueue, EnqueueFails, RequestDies, storeVars
  <1>2. collection'[c] # "GONE"
    <2>1. ASSUME NEW d, NEW status \in {"OPEN", "DELETING"}, collection' = [collection EXCEPT ![d] = status]
          PROVE  collection'[c] # "GONE"
      BY <2>1 DEF Safe, TypeInv, TypeOK
    <2>2. CASE CreateJob(r)
      BY <2>1, <2>2 DEF CreateJob
    <2>3. CASE RetryJob(r)
      BY <2>1, <2>3 DEF RetryJob, Safe
    <2>4. CASE EnqueueFails(r)
      BY <2>1, <2>4 DEF EnqueueFails, FailDeletion, Safe
    <2>5. CASE ~ (CreateJob(r) \/ RetryJob(r) \/ EnqueueFails(r))
      <3>1. collection' = collection
        BY <2>5 DEF RequestNext, DeleteRequest, FindJob, RefuseJob, RetryRequest, RefuseRetry, Enqueue,
                    RequestDies, storeVars
      <3> QED  BY <3>1 DEF Safe
    <2> QED  BY <2>2, <2>3, <2>4, <2>5
  <1>3. \A k \in Jobs, m \in Attempts : wf'[k][m].pc \in {wf[k][m].pc, "validate"}
    <2>1. CASE Enqueue(r)
      BY <2>1 DEF Enqueue, TypeInv, TypeOK, WorkflowRecord
    <2>2. CASE ~Enqueue(r)
      <3>1. wf' = wf
        BY <2>2 DEF RequestNext, DeleteRequest, FindJob, CreateJob, RefuseJob, RetryRequest, RetryJob,
                    RefuseRetry, EnqueueFails, RequestDies
      <3> QED  BY <3>1
    <2> QED  BY <2>1, <2>2
  <1>4. \A k \in Jobs : job'[k].target = job[k].target \/ \A m \in Attempts : wf[k][m].pc = "none"
    <2>1. CASE CreateJob(r)
      <3>1. PICK j \in Jobs : /\ job[j].status = "NONE"
                              /\ \E row : job' = [job EXCEPT ![j] = row]
        <4>1. \A k \in Jobs : k >= k
          BY DEF Jobs
        <4> QED  BY <2>1, <4>1 DEF CreateJob
      <3>2. \A m \in Attempts : wf[j][m].pc = "none"
        BY <3>1 DEF OrderInv, AttemptsInv, JobAttempts, Attempts
      <3> QED  BY <3>1, <3>2 DEF TypeInv, TypeOK
    <2>2. CASE RetryJob(r)
      <3>1. PICK j : job' = [job EXCEPT ![j].status = "QUEUED", ![j].attempt = @ + 1]
        BY <2>2 DEF RetryJob
      <3> QED  BY <3>1 DEF TypeInv, TypeOK, JobRecord
    <2>3. CASE EnqueueFails(r)
      BY <2>3 DEF EnqueueFails, FailDeletion, TypeInv, TypeOK, JobRecord
    <2>4. CASE ~ (CreateJob(r) \/ RetryJob(r) \/ EnqueueFails(r))
      <3>1. job' = job
        BY <2>4 DEF RequestNext, DeleteRequest, FindJob, RefuseJob, RetryRequest, RefuseRetry, Enqueue,
                    RequestDies, artifactVars
      <3> QED  BY <3>1
    <2> QED  BY <2>1, <2>2, <2>3, <2>4
  <1> QED
    <2>1. Lost(c)' = {}
      BY <1>1 DEF Safe, Lost
    <2>2. ASSUME NEW j \in Jobs, NEW n \in Attempts, job'[j].target = c
          PROVE  wf'[j][n].pc \notin Deleting
      BY <1>3, <1>4, <2>2 DEF Safe, Deleting
    <2> QED  BY <1>2, <2>1, <2>2 DEF Safe

\* An attempt deletes nothing of a collection that is not its own, nor of one that is blocked when
\* it asks.
LEMMA AttemptsAreSafe ==
    ASSUME TypeInv, OrderInv, NEW c \in Collections, Safe(c), Blocked(c),
           NEW j \in Jobs, NEW n \in Attempts, WorkflowStep(j, n) \/ WorkflowFault(j, n)
    PROVE  Safe(c)'
  <1>1. /\ wf[j][n].pc # "none"
        /\ \A k \in Jobs : job'[k].target = job[k].target
        /\ \A k \in Jobs, m \in Attempts : wf'[k][m] = wf[k][m] \/ (k = j /\ m = n)
    BY OwnRows
  <1>2. CASE job[j].target # c
    <2>1. collection'[c] = collection[c]
      <3>1. collection' = collection \/ \E s : collection' = [collection EXCEPT ![job[j].target] = s]
        BY DEF WorkflowStep, WorkflowFault, Validate, CheckBlockers, Prepare, SetStatus, ReadItems,
               CommitItems, ReadRecord, CommitRecord, BatchConflict, ReadBlobs, EraseObject, MarkBlobs,
               Complete, Fail, FailDeletion, StepGivesUp, StepRestarts, StepReplays, FailReplays, storeVars
      <3> QED  BY <1>2, <3>1 DEF TypeInv, TypeOK
    <2>2. \A a \in Artifacts : CollectionOf[a] = c => artifact'[a] = artifact[a]
      <3>1. CASE CommitItems(j, n) \/ CommitRecord(j, n)
        <4>1. job[j].target \in Collections /\ BatchOK(j, job[j].target, wf[j][n])
          <5>1. wf[j][n].pc \in {"items_commit", "record_commit"}
            BY <3>1 DEF CommitItems, CommitRecord, At
          <5> QED  BY <5>1, AtWork DEF OrderInv, BatchesInv
        <4>2. wf[j][n].batch \subseteq Held(job[j].target)
          BY <3>1, <4>1 DEF CommitItems, CommitRecord, At, BatchOK
        <4>3. artifact' = [a \in Artifacts |-> IF a \in wf[j][n].batch THEN Removed ELSE artifact[a]]
          BY <3>1 DEF CommitItems, CommitRecord, DeleteArtifacts
        <4> QED  BY <1>2, <4>2, <4>3 DEF Held
      <3>2. CASE ~ (CommitItems(j, n) \/ CommitRecord(j, n))
        BY <3>2
           DEF WorkflowStep, WorkflowFault, Validate, CheckBlockers, Prepare, SetStatus, ReadItems,
               ReadRecord, BatchConflict, ReadBlobs, EraseObject, MarkBlobs, Complete, Fail,
               StepGivesUp, StepRestarts, StepReplays, FailReplays, storeVars
      <3> QED  BY <3>1, <3>2
    <2>3. Lost(c)' = {}
      BY <2>2 DEF Safe, Lost
    <2>4. \A k \in Jobs, m \in Attempts : job'[k].target = c => wf'[k][m] = wf[k][m]
      BY <1>1, <1>2
    <2> QED  BY <1>1, <2>1, <2>3, <2>4 DEF Safe
  <1>3. CASE job[j].target = c
    <2>1. wf[j][n].pc \in {"validate", "check", "fail", "failed"}
      BY <1>1, <1>3, Rows DEF Safe, Deleting, WorkflowRecord, WorkflowPC
    <2>2. \/ Validate(j, n) \/ CheckBlockers(j, n) \/ Fail(j, n)
          \/ StepGivesUp(j, n) \/ StepRestarts(j, n) \/ FailReplays(j, n)
      BY <2>1 DEF WorkflowStep, WorkflowFault, Prepare, ReadItems, CommitItems, ReadRecord, CommitRecord,
                  BatchConflict, ReadBlobs, EraseObject, MarkBlobs, Complete, StepReplays, At
    <2>3. job[j].status # "COMPLETED"
      BY <1>3 DEF OrderInv, ActiveInv, Safe
    <2>4. \E pc \in {"validate", "check", "fail", "failed"} : Goto(j, n, pc)
      BY <1>3, <2>1, <2>2, <2>3
         DEF Validate, SetStatus, CheckBlockers, Fail, StepGivesUp, StepRestarts, FailReplays, At
    <2>5. wf'[j][n].pc \notin Deleting
      BY <2>4, GotoPC DEF TypeInv, Deleting
    <2>6. artifact' = artifact
      BY <2>2 DEF Validate, SetStatus, CheckBlockers, Fail, StepGivesUp, StepRestarts, FailReplays, storeVars
    <2>7. collection'[c] # "GONE"
      BY <2>2 DEF Validate, SetStatus, CheckBlockers, Fail, FailDeletion, StepGivesUp, StepRestarts,
                  FailReplays, storeVars, Safe, TypeInv, TypeOK
    <2> QED  BY <1>1, <1>3, <2>5, <2>6, <2>7 DEF Safe, Lost
  <1> QED  BY <1>2, <1>3

\* While a document or an import that is not finished keeps it, a safe collection stays safe.
LEMMA BlockedStaysSafe ==
    ASSUME TypeInv, OrderInv, NEW c \in Collections, Safe(c), Blocked(c), [DeletionNext]_vars
    PROVE  Safe(c)'
  <1>1. ASSUME UNCHANGED <<collection, job, wf>>,
               \A a \in Artifacts : artifact'[a] = Removed => artifact[a] = Removed
        PROVE  Safe(c)'
    BY <1>1 DEF Safe, Lost
  <1>2. CASE UNCHANGED vars
    BY <1>1, <1>2 DEF vars, storeVars, deletionVars, artifactVars
  <1>3. CASE UploadNext
    <2>1. UNCHANGED <<collection, job, wf>>
      BY <1>3 DEF UploadNext, UploadBegin, UploadCommit, UploadRollback, storeVars
    <2>2. ASSUME NEW d \in Collections, UploadCommit(d)
          PROVE  \A a \in Artifacts : artifact'[a] = Removed => artifact[a] = Removed
      <3>1. upload[d] \in UploadRecord
        BY <2>2 DEF UploadCommit, TypeInv, TypeOK
      <3> QED  BY <2>2, <3>1, StoreAssumption DEF UploadCommit, UploadRecord, TypeInv, TypeOK
    <2>3. artifact' = artifact \/ \E d \in Collections : UploadCommit(d)
      BY <1>3 DEF UploadNext, UploadBegin, UploadRollback, storeVars
    <2> QED  BY <1>1, <2>1, <2>2, <2>3
  <1>4. CASE \E d \in Collections : StartTextRun(d) \/ FinishTextRun(d)
    BY <1>1, <1>4 DEF StartTextRun, FinishTextRun, storeVars
  <1> QED  BY <1>2, <1>3, <1>4, RequestsAreSafe, AttemptsAreSafe DEF DeletionNext

-----------------------------------------------------------------------------
(* Imports, beside deletions.                                               *)

\* An import that is requested has a source and a matter; its batches come after its selection.
Asked(i) ==
    /\ iwf[i].pc \in {"none", "accepted"} => importJob[i].status = "NONE"
    /\ iwf[i].pc = "none" => DOMAIN selection[i].items = {}
    /\ iwf[i].pc # "none" => importJob[i].source \in Collections /\ importJob[i].matter \in Matters
    /\ iwf[i].pc \in Early => \A k \in Batches : child[i][k].pc = "none"
    /\ \A k \in Batches : child[i][k].pc = "none" => child[i][k].items = {}
    /\ \A k \in Batches : child[i][k].pc # "none" => k <= BatchCount(iwf[i].total)
    /\ cancel[i].pc # "idle" => iwf[i].pc \notin {"none", "accepted"}

\* What an import selects is of its source.
FromSource(i) ==
    /\ \A x \in DOMAIN selection[i].items : CollectionOf[selection[i].items[x]] = importJob[i].source
    /\ \A k \in Batches : \A a \in child[i][k].items : CollectionOf[a] = importJob[i].source

\* While nobody cancels it, the status of an import says where its workflow is: it is the only one
\* that writes it.
Uncanceled(i) ==
    cancel[i].pc = "idle" =>
        /\ i \notin halted /\ iwf[i].pc # "halted"
        /\ iwf[i].pc \notin {"none", "accepted", "ended"} => importJob[i].status \in ActiveImportStatus
        /\ iwf[i].pc \in {"mark", "run", "finish", "failwrite"} => iwf[i].seen = importJob[i].status
        /\ iwf[i].pc \in Loaded => importJob[i].status = "RUNNING"
        /\ iwf[i].pc \in {"complete", "finish"} \/ Completed(i) =>
              \A k \in Batches : child[i][k].pc \in {"none", "done"}
        /\ \A k \in Batches : child[i][k].pc # "none" =>
              importJob[i].status \in {"RUNNING", "FAILED", "COMPLETED"}
        /\ Completed(i) => iwf[i].pc = "ended"

\* An import that has read its OPEN collection, and that nobody cancels, keeps it safe.
SourceSafe(i) ==
    cancel[i].pc = "idle" /\ (importJob[i].status = "RUNNING" \/ iwf[i].pc \in {"insert", "frozen", "run"})
        => Safe(importJob[i].source)

\* So do its documents, unless it fails.
DocumentsSafe(i) ==
    cancel[i].pc = "idle" /\ importJob[i].status # "FAILED" =>
        \A d \in docs : d.by = i => Safe(CollectionOf[d.item])

SafeImport(i) == Asked(i) /\ FromSource(i) /\ Uncanceled(i) /\ SourceSafe(i) /\ DocumentsSafe(i)

\* The inductive invariant of the imports.
ImportsInv == ImportRowsOK /\ \A i \in Imports : SafeImport(i)

\* Nothing has been imported at the start.
LEMMA ImportsInvStart == ComposedInit => ImportsInv
  <1> SUFFICES ASSUME ComposedInit PROVE ImportsInv
    OBVIOUS
  <1> USE DEF ComposedInit, UploadedStore, ImportInit
  <1>1. NoCounts \in ImportCounts
    BY DEF NoCounts, ImportCounts
  <1>2. /\ importJob \in [Imports -> JobRows] /\ iwf \in [Imports -> WorkflowRows]
        /\ batchRow \in [Imports -> [Batches -> BatchRows]]
    BY <1>1 DEF NoImport, JobRows, ImportStatus, NoImportWorkflow, WorkflowRows, ImportPC,
                NoBatch, BatchRows
  <1>3. selection \in [Imports -> SelectionRows]
    BY NoSelectionRow
  <1>4. child \in [Imports -> [Batches -> ChildRows]] /\ cancel \in [Imports -> CancelRows]
    BY <1>1 DEF NoChild, ChildRows, ChildPC, NoCancel, CancelRows, ImportStatus
  <1>5. ImportRowsOK
    BY <1>2, <1>3, <1>4 DEF ImportRowsOK
  <1>6. ASSUME NEW i \in Imports
        PROVE  SafeImport(i)
    <2>1. /\ importJob[i].status = "NONE" /\ iwf[i].pc = "none" /\ selection[i] = NoSelection
          /\ cancel[i].pc = "idle"
          /\ \A k \in Batches : child[i][k].pc = "none" /\ child[i][k].items = {}
          /\ docs = {} /\ halted = {}
      BY DEF NoImport, NoImportWorkflow, NoChild, NoCancel
    <2>2. DOMAIN selection[i].items = {}
      BY <2>1 DEF NoSelection
    <2>3. Asked(i) /\ FromSource(i)
      BY <2>1, <2>2 DEF Asked, FromSource
    <2>4. Uncanceled(i)
      BY <2>1 DEF Uncanceled, Completed, Loaded
    <2> QED  BY <2>1, <2>3, <2>4 DEF SafeImport, SourceSafe, DocumentsSafe
  <1> QED  BY <1>5, <1>6 DEF ImportsInv

\* A safe collection stays so when an import takes a step.
LEMMA SafeFrame ==
    ASSUME UNCHANGED <<collection, artifact, deletionVars>>
    PROVE  \A c : Safe(c)' = Safe(c)
  BY DEF Safe, Lost, deletionVars, artifactVars

\* What a deletion leaves of a selection.
LEMMA SelectionsShrink ==
    ASSUME ImportRowsOK, NEW j \in Jobs, NEW n \in Attempts, WorkflowStep(j, n) \/ WorkflowFault(j, n)
    PROVE  /\ (selection \in [Imports -> SelectionRows])'
           /\ \A i \in Imports : \A x \in DOMAIN selection'[i].items :
                 \E y \in DOMAIN selection[i].items : selection'[i].items[x] = selection[i].items[y]
  <1>1. selection \in [Imports -> SelectionRows]
    BY DEF ImportRowsOK
  <1>2. CASE CommitItems(j, n)
    <2> DEFINE T == ItemArtifacts \ wf[j][n].batch
    <2>1. selection' = [i \in Imports |-> [selection[i] EXCEPT !.items = Kept(@, T)]]
      BY <1>2 DEF CommitItems
    <2> HIDE DEF T
    <2>2. ASSUME NEW i \in Imports
          PROVE  /\ selection'[i] \in SelectionRows
                 /\ \A x \in DOMAIN selection'[i].items :
                       \E y \in DOMAIN selection[i].items : selection'[i].items[x] = selection[i].items[y]
      <3> DEFINE s == selection[i].items
                 S == {s[y] : y \in DOMAIN s}
      <3>1. s \in Seq(ItemArtifacts) /\ s \in Seq(S)
        BY <1>1 DEF SelectionRows
      <3>2. Kept(s, T) \in Seq(S \cap T) /\ Kept(s, T) \in Seq(ItemArtifacts \cap T)
        BY <3>1, KeptIsSequence
      <3>3. Kept(s, T) \in Seq(ItemArtifacts)
        BY <3>2
      <3>4. /\ selection'[i] = [selection[i] EXCEPT !.items = Kept(s, T)]
            /\ selection'[i] \in SelectionRows /\ selection'[i].items = Kept(s, T)
            /\ selection'[i].row = selection[i].row /\ selection'[i].total = selection[i].total
        BY <1>1, <2>1, <3>3 DEF SelectionRows
      <3>5. \A x \in DOMAIN Kept(s, T) : Kept(s, T)[x] \in S
        BY <3>2
      <3> QED  BY <3>4, <3>5
    <2>3. selection' \in [Imports -> SelectionRows]
      BY <2>1, <2>2
    <2> QED  BY <2>2, <2>3
  <1>3. CASE CommitRecord(j, n)
    <2>1. selection' = [i \in Imports |->
             IF importJob[i].source = job[j].target THEN NoSelection ELSE selection[i]]
      BY <1>3 DEF CommitRecord
    <2>2. DOMAIN NoSelection.items = {}
      BY DEF NoSelection
    <2> QED  BY <1>1, <2>1, <2>2, NoSelectionRow
  <1>4. CASE ~ (CommitItems(j, n) \/ CommitRecord(j, n))
    <2>1. selection' = selection
      BY <1>4
         DEF WorkflowStep, WorkflowFault, Validate, CheckBlockers, Prepare, SetStatus, ReadItems,
             ReadRecord, BatchConflict, ReadBlobs, EraseObject, MarkBlobs, Complete, Fail,
             StepGivesUp, StepRestarts, StepReplays, FailReplays, storeVars
    <2> QED  BY <1>1, <2>1
  <1> QED  BY <1>2, <1>3, <1>4

\* Only the selections of a collection that is deleted change under the imports.
LEMMA DeletionsTouchSelections ==
    ASSUME ImportRowsOK, [DeletionNext]_vars
    PROVE  /\ UNCHANGED <<importJob, docs>>
           /\ (selection \in [Imports -> SelectionRows])'
           /\ \A i \in Imports : \A x \in DOMAIN selection'[i].items :
                 \E y \in DOMAIN selection[i].items : selection'[i].items[x] = selection[i].items[y]
  <1>1. CASE UNCHANGED <<selection, importJob, docs>>
    BY <1>1 DEF ImportRowsOK
  <1>2. ASSUME NEW r \in Requests, RequestNext(r)
        PROVE  UNCHANGED <<selection, importJob, docs>>
    BY <1>2 DEF RequestNext, DeleteRequest, FindJob, CreateJob, RefuseJob, RetryRequest, RetryJob,
                RefuseRetry, Enqueue, EnqueueFails, RequestDies, storeVars
  <1>3. CASE \/ UNCHANGED vars \/ UploadNext
             \/ \E c \in Collections : StartTextRun(c) \/ FinishTextRun(c)
    <2>1. UNCHANGED <<selection, importJob, docs>>
      BY <1>3 DEF vars, UploadNext, UploadBegin, UploadCommit, UploadRollback, StartTextRun,
                  FinishTextRun, storeVars
    <2> QED  BY <1>1, <2>1
  <1>4. ASSUME NEW j \in Jobs, NEW n \in Attempts, WorkflowStep(j, n) \/ WorkflowFault(j, n)
        PROVE  UNCHANGED <<importJob, docs>>
    BY <1>4
       DEF WorkflowStep, WorkflowFault, Validate, CheckBlockers, Prepare, SetStatus, ReadItems,
           CommitItems, ReadRecord, CommitRecord, BatchConflict, ReadBlobs, EraseObject, MarkBlobs,
           Complete, Fail, StepGivesUp, StepRestarts, StepReplays, FailReplays, storeVars
  <1> QED  BY <1>1, <1>2, <1>3, <1>4, SelectionsShrink DEF DeletionNext

\* A deletion keeps the invariant: an import that relies on a collection, or on a document of it,
\* is what blocks it.
LEMMA DeletionsKeepImports ==
    ASSUME TypeInv, OrderInv, ImportsInv, [DeletionNext]_vars, UNCHANGED importVars
    PROVE  ImportsInv'
  <1>1. UNCHANGED <<importJob, docs, batchRow, iwf, child, cancel, halted>>
    BY DeletionsTouchSelections DEF ImportsInv, importVars
  <1>2. ImportRowsOK'
    BY <1>1, DeletionsTouchSelections DEF ImportsInv, ImportRowsOK
  <1>3. ASSUME NEW i \in Imports
        PROVE  SafeImport(i)'
    <2>1. SafeImport(i)
      BY DEF ImportsInv
    <2>2. \A x \in DOMAIN selection'[i].items :
             \E y \in DOMAIN selection[i].items : selection'[i].items[x] = selection[i].items[y]
      BY DeletionsTouchSelections DEF ImportsInv
    <2>3. Asked(i)'
      BY <1>1, <2>1, <2>2 DEF SafeImport, Asked
    <2>4. FromSource(i)'
      BY <1>1, <2>1, <2>2 DEF SafeImport, FromSource
    <2>5. Uncanceled(i)'
      BY <1>1, <2>1 DEF SafeImport, Uncanceled, Completed
    <2>6. SourceSafe(i)'
      <3>1. SUFFICES ASSUME cancel[i].pc = "idle",
                            importJob[i].status = "RUNNING" \/ iwf[i].pc \in {"insert", "frozen", "run"}
                     PROVE  Safe(importJob[i].source)'
        BY <1>1 DEF SourceSafe
      <3>2. importJob[i].status \in ActiveImportStatus /\ importJob[i].source \in Collections
        BY <2>1, <3>1 DEF SafeImport, Uncanceled, Asked, ActiveImportStatus
      <3>3. Safe(importJob[i].source) /\ Blocked(importJob[i].source)
        BY <2>1, <3>1, <3>2 DEF SafeImport, SourceSafe, Blocked
      <3>4. \A c \in Collections : Safe(c) /\ Blocked(c) => Safe(c)'
        BY BlockedStaysSafe
      <3> QED  BY <1>1, <3>2, <3>3, <3>4
    <2>7. DocumentsSafe(i)'
      <3>1. SUFFICES ASSUME cancel[i].pc = "idle", importJob[i].status # "FAILED",
                            NEW d \in docs, d.by = i
                     PROVE  Safe(CollectionOf[d.item])'
        BY <1>1 DEF DocumentsSafe
      <3>2. d.item \in Artifacts /\ CollectionOf[d.item] \in Collections
        BY StoreAssumption DEF ImportsInv, ImportRowsOK, Document
      <3>3. Safe(CollectionOf[d.item]) /\ Blocked(CollectionOf[d.item])
        BY <2>1, <3>1, <3>2 DEF SafeImport, DocumentsSafe, Blocked
      <3> QED  BY <3>2, <3>3, BlockedStaysSafe
    <2> QED  BY <2>3, <2>4, <2>5, <2>6, <2>7 DEF SafeImport
  <1> QED  BY <1>2, <1>3 DEF ImportsInv

-----------------------------------------------------------------------------
(* The steps of an import.                                                  *)

\* A step of one import keeps the invariant of the others.
LEMMA OthersStaySafe ==
    ASSUME ImportsInv, NEW i \in Imports, UNCHANGED <<collection, artifact, deletionVars>>,
           NEW w \in WorkflowRows, iwf' = [iwf EXCEPT ![i] = w],
           NEW row \in JobRows, importJob' = [importJob EXCEPT ![i] = row],
           NEW sel \in SelectionRows, selection' = [selection EXCEPT ![i] = sel],
           NEW mine \in [Batches -> ChildRows], child' = [child EXCEPT ![i] = mine],
           NEW req \in CancelRows, cancel' = [cancel EXCEPT ![i] = req],
           (batchRow \in [Imports -> [Batches -> BatchRows]])',
           (halted \subseteq Imports)', halted' \subseteq halted \cup {i},
           (docs \subseteq Document)', \A d \in docs' \ docs : d.by = i,
           SafeImport(i)'
    PROVE  ImportsInv'
  <1>1. ImportRowsOK'
    BY DEF ImportsInv, ImportRowsOK
  <1>2. ASSUME NEW j \in Imports, j # i
        PROVE  SafeImport(j)'
    <2>1. /\ importJob'[j] = importJob[j] /\ iwf'[j] = iwf[j] /\ selection'[j] = selection[j]
          /\ child'[j] = child[j] /\ cancel'[j] = cancel[j]
      BY <1>2 DEF ImportsInv, ImportRowsOK
    <2>2. j \in halted' => j \in halted
      BY <1>2
    <2>3. \A d \in docs' : d.by = j => d \in docs
      BY <1>2
    <2>4. Asked(j) /\ FromSource(j) /\ Uncanceled(j) /\ SourceSafe(j) /\ DocumentsSafe(j)
      BY DEF ImportsInv, SafeImport
    <2>5. Asked(j)' /\ FromSource(j)'
      BY <2>1, <2>4 DEF Asked, FromSource
    <2>6. Uncanceled(j)'
      BY <2>1, <2>2, <2>4 DEF Uncanceled, Completed
    <2>7. SourceSafe(j)'
      BY <2>1, <2>4, SafeFrame DEF SourceSafe
    <2>8. DocumentsSafe(j)'
      BY <2>1, <2>3, <2>4, SafeFrame DEF DocumentsSafe
    <2> QED  BY <2>5, <2>6, <2>7, <2>8 DEF SafeImport
  <1> QED  BY <1>1, <1>2 DEF ImportsInv

\* What the rows of an import are.
LEMMA OwnImportRows ==
    ASSUME ImportsInv, NEW i \in Imports
    PROVE  /\ iwf[i] \in WorkflowRows /\ iwf = [iwf EXCEPT ![i] = iwf[i]]
           /\ importJob[i] \in JobRows /\ importJob = [importJob EXCEPT ![i] = importJob[i]]
           /\ selection[i] \in SelectionRows /\ selection = [selection EXCEPT ![i] = selection[i]]
           /\ child[i] \in [Batches -> ChildRows] /\ child = [child EXCEPT ![i] = child[i]]
           /\ cancel[i] \in CancelRows /\ cancel = [cancel EXCEPT ![i] = cancel[i]]
           /\ ImportRowsOK /\ Asked(i) /\ FromSource(i) /\ Uncanceled(i) /\ SourceSafe(i) /\ DocumentsSafe(i)
  BY DEF ImportsInv, ImportRowsOK, SafeImport

\* A step of the workflow that changes no batch.
LEMMA WorkflowStaysSafe ==
    ASSUME ImportsInv, NEW i \in Imports, UNCHANGED <<collection, artifact, deletionVars>>,
           NEW w \in WorkflowRows, iwf' = [iwf EXCEPT ![i] = w],
           NEW row \in JobRows, importJob' = [importJob EXCEPT ![i] = row],
           NEW sel \in SelectionRows, selection' = [selection EXCEPT ![i] = sel],
           UNCHANGED <<docs, batchRow, child, cancel, halted>>,
           w.pc # "none", row.source \in Collections, row.matter \in Matters,
           w.pc = "accepted" => row.status = "NONE" /\ cancel[i].pc = "idle",
           iwf[i].pc = "none" \/ row.source = importJob[i].source,
           \A x \in DOMAIN sel.items : CollectionOf[sel.items[x]] = row.source,
           w.pc \in Early => iwf[i].pc \in Early,
           iwf[i].pc \in Early \/ w.total = iwf[i].total,
           cancel[i].pc = "idle" /\ row.status # "FAILED" => importJob[i].status # "FAILED",
           Uncanceled(i)', SourceSafe(i)'
    PROVE  ImportsInv'
  <1>1. iwf'[i] = w /\ importJob'[i] = row /\ selection'[i] = sel /\ child'[i] = child[i] /\ cancel'[i] = cancel[i]
    BY DEF ImportsInv, ImportRowsOK
  <1>2. /\ (batchRow \in [Imports -> [Batches -> BatchRows]])'
        /\ (halted \subseteq Imports)' /\ (docs \subseteq Document)'
    BY DEF ImportsInv, ImportRowsOK
  <1>3. iwf[i].pc \in Early => \A k \in Batches : child[i][k].pc = "none" /\ child[i][k].items = {}
    BY OwnImportRows DEF Asked
  <1>4. Asked(i)'
    <2>1. \A k \in Batches : child[i][k].pc # "none" => k <= BatchCount(w.total)
      BY <1>3, OwnImportRows DEF Asked
    <2>2. \A k \in Batches : child[i][k].pc = "none" => child[i][k].items = {}
      BY OwnImportRows DEF Asked
    <2>3. w.pc \in Early => \A k \in Batches : child[i][k].pc = "none"
      BY <1>3
    <2>4. cancel[i].pc # "idle" => w.pc \notin {"none", "accepted"}
      OBVIOUS
    <2> QED  BY <1>1, <2>1, <2>2, <2>3, <2>4 DEF Asked
  <1>5. FromSource(i)'
    <2>1. iwf[i].pc = "none" => iwf[i].pc \in Early
      BY DEF Early
    <2>2. \A k \in Batches : \A a \in child[i][k].items : CollectionOf[a] = row.source
      BY <1>3, <2>1, OwnImportRows DEF FromSource
    <2> QED  BY <1>1, <2>2 DEF FromSource
  <1>6. DocumentsSafe(i)'
    BY <1>1, OwnImportRows, SafeFrame DEF DocumentsSafe
  <1>7. SafeImport(i)'
    BY <1>4, <1>5, <1>6 DEF SafeImport
  <1>8. /\ child[i] \in [Batches -> ChildRows] /\ child' = [child EXCEPT ![i] = child[i]]
        /\ cancel[i] \in CancelRows /\ cancel' = [cancel EXCEPT ![i] = cancel[i]]
    BY OwnImportRows
  <1>9. halted' \subseteq halted \cup {i} /\ \A d \in docs' \ docs : d.by = i
    OBVIOUS
  <1> QED  BY <1>2, <1>7, <1>8, <1>9, OthersStaySafe

\* A step of the workflow that only moves on.
LEMMA MoveStaysSafe ==
    ASSUME ImportsInv, NEW i \in Imports, UNCHANGED <<storeVars, deletionVars>>,
           UNCHANGED <<batchRow, child, cancel, halted>>,
           NEW w \in WorkflowRows, iwf' = [iwf EXCEPT ![i] = w], w.total = iwf[i].total,
           iwf[i].pc \notin {"none", "accepted", "ended"}, w.pc \notin {"none", "accepted"},
           w.pc \in Early => iwf[i].pc \in Early,
           w.pc \in Loaded => iwf[i].pc \in Loaded,
           cancel[i].pc = "idle" =>
               /\ w.pc # "halted"
               /\ w.pc \in {"mark", "run", "finish", "failwrite"} => w.seen = importJob[i].status
               /\ w.pc \in {"complete", "finish"} => \A k \in Batches : child[i][k].pc \in {"none", "done"}
               /\ w.pc \in {"insert", "frozen", "run"} => Safe(importJob[i].source)
    PROVE  ImportsInv'
  <1>1. /\ collection' = collection /\ artifact' = artifact /\ importJob' = importJob
        /\ selection' = selection /\ docs' = docs /\ batchRow' = batchRow /\ child' = child
        /\ cancel' = cancel /\ halted' = halted /\ UNCHANGED deletionVars
    BY DEF storeVars
  <1>2. iwf'[i] = w
    BY DEF ImportsInv, ImportRowsOK
  <1>3. Uncanceled(i)'
    BY <1>1, <1>2, OwnImportRows DEF Uncanceled, Completed, ActiveImportStatus
  <1>4. SourceSafe(i)'
    BY <1>1, <1>2, OwnImportRows, SafeFrame DEF SourceSafe
  <1>5. /\ importJob[i].source \in Collections /\ importJob[i].matter \in Matters
        /\ \A x \in DOMAIN selection[i].items : CollectionOf[selection[i].items[x]] = importJob[i].source
    BY OwnImportRows DEF Asked, FromSource
  <1>6. /\ importJob[i] \in JobRows /\ importJob' = [importJob EXCEPT ![i] = importJob[i]]
        /\ selection[i] \in SelectionRows /\ selection' = [selection EXCEPT ![i] = selection[i]]
    BY <1>1, OwnImportRows
  <1> QED  BY <1>1, <1>3, <1>4, <1>5, <1>6, WorkflowStaysSafe

\* The steps of the workflow that only move on, and its restarts.
LEMMA MovesStaySafe ==
    ASSUME TypeInv, OrderInv, ImportsInv, NEW i \in Imports, UNCHANGED deletionVars,
           \/ FreezeRead(i) \/ SelectRead(i) \/ FrozenRead(i) \/ Await(i) \/ FailRead(i) \/ Halt(i)
           \/ ImportRestarts(i) \/ ImportGivesUp(i)
    PROVE  ImportsInv'
  <1>1. ImportRowsOK /\ Asked(i) /\ Uncanceled(i) /\ SourceSafe(i) /\ importJob[i].source \in Collections \cup {NoCollection}
    BY OwnImportRows DEF JobRows
  <1>2. UNCHANGED <<storeVars, batchRow, child, cancel, halted>>
    BY DEF FreezeRead, SelectRead, FrozenRead, Await, FailRead, Halt, ImportRestarts, ImportGivesUp
  <1>3. CASE FreezeRead(i)
    <2>1. iwf[i].pc = "freeze" /\ (ImportGoto(i, "ended") \/ Sees(i, "mark"))
      BY <1>3 DEF FreezeRead, ImportAt, ImportGoto, Sees
    <2>2. PICK w \in WorkflowRows : /\ iwf' = [iwf EXCEPT ![i] = w] /\ w.total = iwf[i].total
                                    /\ w.pc = "ended" \/ (w.pc = "mark" /\ w.seen = importJob[i].status)
      <3>1. "ended" \in ImportPC /\ "mark" \in ImportPC
        BY DEF ImportPC
      <3> QED  BY <1>1, <2>1, <3>1, GotoRow, SeenRow
    <2> QED  BY <1>2, <2>1, <2>2, MoveStaysSafe DEF Early, Loaded
  <1>4. CASE SelectRead(i)
    <2>1. /\ iwf[i].pc = "select"
          /\ \/ ImportGoto(i, "insert") /\ collection[importJob[i].source] = "OPEN"
             \/ ImportGoto(i, "fail")
      BY <1>4 DEF SelectRead, ImportAt
    <2>2. PICK w \in WorkflowRows : /\ iwf' = [iwf EXCEPT ![i] = w] /\ w.total = iwf[i].total
                                    /\ \/ w.pc = "insert" /\ collection[importJob[i].source] = "OPEN"
                                       \/ w.pc = "fail"
      <3>1. "insert" \in ImportPC /\ "fail" \in ImportPC
        BY DEF ImportPC
      <3> QED  BY <1>1, <2>1, <3>1, GotoRow
    <2>3. importJob[i].source \in Collections
      BY <1>1, <2>1 DEF Asked
    <2>4. w.pc = "insert" => Safe(importJob[i].source)
      BY <2>2, <2>3, OpenIsSafe
    <2> QED  BY <1>2, <2>1, <2>2, <2>4, MoveStaysSafe DEF Early, Loaded
  <1>5. CASE FrozenRead(i)
    <2>1. iwf[i].pc = "frozen" /\ (Sees(i, "drop") \/ Sees(i, "run"))
      BY <1>5 DEF FrozenRead, ImportAt, Sees
    <2>2. PICK w \in WorkflowRows : /\ iwf' = [iwf EXCEPT ![i] = w] /\ w.total = iwf[i].total
                                    /\ w.pc \in {"drop", "run"} /\ w.seen = importJob[i].status
      <3>1. "drop" \in ImportPC /\ "run" \in ImportPC
        BY DEF ImportPC
      <3> QED  BY <1>1, <2>1, <3>1, SeenRow
    <2>3. cancel[i].pc = "idle" => Safe(importJob[i].source)
      BY <1>1, <2>1 DEF SourceSafe
    <2> QED  BY <1>2, <2>1, <2>2, <2>3, MoveStaysSafe DEF Early, Loaded
  <1>6. CASE Await(i)
    <2>1. /\ iwf[i].pc = "await"
          /\ \/ /\ ImportGoto(i, "complete")
                /\ \A k \in 1..BatchCount(iwf[i].total) : child[i][k].pc = "done"
             \/ ImportGoto(i, "fail")
      BY <1>6 DEF Await, ImportAt
    <2>2. PICK w \in WorkflowRows :
             /\ iwf' = [iwf EXCEPT ![i] = w] /\ w.total = iwf[i].total
             /\ \/ w.pc = "complete" /\ \A k \in 1..BatchCount(iwf[i].total) : child[i][k].pc = "done"
                \/ w.pc = "fail"
      <3>1. "complete" \in ImportPC /\ "fail" \in ImportPC
        BY DEF ImportPC
      <3> QED  BY <1>1, <2>1, <3>1, GotoRow
    <2>3. w.pc = "complete" => \A k \in Batches : child[i][k].pc \in {"none", "done"}
      <3>1. iwf[i].total \in Nat
        BY OwnImportRows DEF WorkflowRows
      <3>2. BatchCount(iwf[i].total) \in Nat
        BY <3>1, BatchCounts
      <3> QED  BY <1>1, <2>2, <3>2 DEF Asked, Batches
    <2> QED  BY <1>2, <2>1, <2>2, <2>3, MoveStaysSafe DEF Early, Loaded
  <1>7. CASE FailRead(i)
    <2>1. iwf[i].pc = "fail" /\ (ImportGoto(i, "ended") \/ Sees(i, "failwrite"))
      BY <1>7 DEF FailRead, ImportAt, ImportGoto, Sees
    <2>2. PICK w \in WorkflowRows : /\ iwf' = [iwf EXCEPT ![i] = w] /\ w.total = iwf[i].total
                                    /\ w.pc = "ended" \/ (w.pc = "failwrite" /\ w.seen = importJob[i].status)
      <3>1. "ended" \in ImportPC /\ "failwrite" \in ImportPC
        BY DEF ImportPC
      <3> QED  BY <1>1, <2>1, <3>1, GotoRow, SeenRow
    <2> QED  BY <1>2, <2>1, <2>2, MoveStaysSafe DEF Early, Loaded
  <1>8. CASE Halt(i)
    <2>1. /\ i \in halted /\ ImportGoto(i, "halted")
          /\ iwf[i].pc \in {"freeze", "load", "cleanup", "await", "complete", "fail"}
      BY <1>8 DEF Halt
    <2>2. PICK w \in WorkflowRows : /\ iwf' = [iwf EXCEPT ![i] = w] /\ w.total = iwf[i].total
                                    /\ w.pc = "halted"
      BY <1>1, <2>1, GotoRow DEF ImportPC
    <2>3. cancel[i].pc # "idle"
      BY <1>1, <2>1 DEF Uncanceled
    <2> QED  BY <1>2, <2>1, <2>2, <2>3, MoveStaysSafe DEF Early, Loaded
  <1>9. CASE ImportRestarts(i)
    <2>1. \/ /\ iwf[i].pc \in {"mark", "select", "insert", "frozen", "run", "drop"}
             /\ ImportGoto(i, "freeze")
          \/ iwf[i].pc = "finish" /\ ImportGoto(i, "complete")
          \/ iwf[i].pc = "failwrite" /\ ImportGoto(i, "fail")
      BY <1>9 DEF ImportRestarts, ImportAt
    <2>2. PICK w \in WorkflowRows :
             /\ iwf' = [iwf EXCEPT ![i] = w] /\ w.total = iwf[i].total
             /\ \/ /\ iwf[i].pc \in {"mark", "select", "insert", "frozen", "run", "drop"}
                   /\ w.pc = "freeze"
                \/ iwf[i].pc = "finish" /\ w.pc = "complete"
                \/ iwf[i].pc = "failwrite" /\ w.pc = "fail"
      <3>1. "freeze" \in ImportPC /\ "complete" \in ImportPC /\ "fail" \in ImportPC
        BY DEF ImportPC
      <3> QED  BY <1>1, <2>1, <3>1, GotoRow
    <2>3. w.pc = "complete" /\ cancel[i].pc = "idle" => \A k \in Batches : child[i][k].pc \in {"none", "done"}
      BY <1>1, <2>2 DEF Uncanceled
    <2> QED  BY <1>2, <2>2, <2>3, MoveStaysSafe DEF Early, Loaded
  <1>10. CASE ImportGivesUp(i)
    <2>1. /\ ImportGoto(i, "fail")
          /\ iwf[i].pc \notin {"none", "accepted", "await", "fail", "failwrite", "ended", "halted"}
      BY <1>10 DEF ImportGivesUp
    <2>2. PICK w \in WorkflowRows : /\ iwf' = [iwf EXCEPT ![i] = w] /\ w.total = iwf[i].total
                                    /\ w.pc = "fail"
      BY <1>1, <2>1, GotoRow DEF ImportPC
    <2> QED  BY <1>2, <2>1, <2>2, MoveStaysSafe DEF Early, Loaded
  <1> QED  BY <1>3, <1>4, <1>5, <1>6, <1>7, <1>8, <1>9, <1>10

\* A request names the source and the matter of an import that has nothing yet.
LEMMA RequestStaysSafe ==
    ASSUME ImportsInv, NEW i \in Imports, UNCHANGED deletionVars,
           NEW c \in Collections, NEW m \in Matters, RequestImport(i, c, m)
    PROVE  ImportsInv'
  <1> DEFINE row == [importJob[i] EXCEPT !.source = c, !.matter = m]
  <1>1. importJob \in [Imports -> JobRows] /\ importJob[i] \in JobRows
    BY OwnImportRows DEF ImportRowsOK
  <1>2. row \in JobRows /\ row.source = c /\ row.matter = m /\ row.status = importJob[i].status
    BY <1>1 DEF JobRows
  <1>3. importJob' = [importJob EXCEPT ![i] = row]
    BY <1>1 DEF RequestImport
  <1> HIDE DEF row
  <1>4. PICK w \in WorkflowRows : /\ iwf' = [iwf EXCEPT ![i] = w] /\ w.pc = "accepted"
    <2>1. "accepted" \in ImportPC /\ ImportGoto(i, "accepted")
      BY DEF ImportPC, RequestImport
    <2> QED  BY <2>1, OwnImportRows, GotoRow
  <1>5. /\ iwf[i].pc = "none" /\ collection' = collection /\ artifact' = artifact
        /\ selection' = selection /\ docs' = docs /\ batchRow' = batchRow /\ child' = child
        /\ cancel' = cancel /\ halted' = halted
    BY DEF RequestImport, ImportAt
  <1>6. /\ importJob[i].status = "NONE" /\ DOMAIN selection[i].items = {} /\ iwf[i].pc \in Early
        /\ cancel[i].pc = "idle" /\ \A k \in Batches : child[i][k].pc = "none"
    BY <1>5, OwnImportRows DEF Asked, Early
  <1>7. iwf'[i] = w /\ importJob'[i] = row
    BY <1>3, <1>4, OwnImportRows DEF ImportRowsOK
  <1>8. Uncanceled(i)'
    BY <1>2, <1>4, <1>5, <1>6, <1>7, OwnImportRows DEF Uncanceled, Completed, Loaded
  <1>9. SourceSafe(i)'
    BY <1>2, <1>4, <1>5, <1>6, <1>7 DEF SourceSafe
  <1>10. selection[i] \in SelectionRows /\ selection' = [selection EXCEPT ![i] = selection[i]]
    BY <1>5, OwnImportRows
  <1> QED  BY <1>2, <1>3, <1>4, <1>5, <1>6, <1>8, <1>9, <1>10, WorkflowStaysSafe

\* A step of the workflow that writes to its job.
LEMMA WriteStaysSafe ==
    ASSUME ImportsInv, NEW i \in Imports, UNCHANGED <<collection, artifact, deletionVars>>,
           NEW w \in WorkflowRows, iwf' = [iwf EXCEPT ![i] = w], w.total = iwf[i].total,
           NEW row \in JobRows, importJob' = [importJob EXCEPT ![i] = row],
           UNCHANGED <<docs, batchRow, child, cancel, halted>>,
           selection' = selection \/ selection' = [selection EXCEPT ![i] = NoSelection],
           iwf[i].pc # "none", w.pc \notin {"none", "accepted"},
           w.pc \in Early => iwf[i].pc \in Early,
           row.source = importJob[i].source, row.matter = importJob[i].matter,
           cancel[i].pc = "idle" /\ row.status # "FAILED" => importJob[i].status # "FAILED",
           Uncanceled(i)', SourceSafe(i)'
    PROVE  ImportsInv'
  <1>1. /\ row.source \in Collections /\ row.matter \in Matters
        /\ \A x \in DOMAIN selection[i].items : CollectionOf[selection[i].items[x]] = row.source
    BY OwnImportRows DEF Asked, FromSource
  <1>2. CASE selection' = selection
    <2>1. selection[i] \in SelectionRows /\ selection' = [selection EXCEPT ![i] = selection[i]]
      BY <1>2, OwnImportRows
    <2> QED  BY <1>1, <2>1, WorkflowStaysSafe
  <1>3. CASE selection' = [selection EXCEPT ![i] = NoSelection]
    <2>1. DOMAIN NoSelection.items = {}
      BY DEF NoSelection
    <2> QED  BY <1>1, <1>3, <2>1, NoSelectionRow, WorkflowStaysSafe
  <1> QED  BY <1>2, <1>3

\* The job is created.
LEMMA CommitStaysSafe ==
    ASSUME ImportsInv, NEW i \in Imports, UNCHANGED deletionVars, CommitImport(i)
    PROVE  ImportsInv'
  <1> DEFINE row == [importJob[i] EXCEPT !.status = "QUEUED"]
  <1>1. importJob \in [Imports -> JobRows] /\ importJob[i] \in JobRows
    BY OwnImportRows DEF ImportRowsOK
  <1>2. /\ row \in JobRows /\ row.source = importJob[i].source /\ row.matter = importJob[i].matter
        /\ row.status = "QUEUED"
    BY <1>1 DEF JobRows, ImportStatus
  <1>3. importJob' = [importJob EXCEPT ![i] = row]
    BY <1>1 DEF CommitImport
  <1> HIDE DEF row
  <1>4. PICK w \in WorkflowRows : iwf' = [iwf EXCEPT ![i] = w] /\ w.pc = "freeze" /\ w.total = iwf[i].total
    <2>1. "freeze" \in ImportPC /\ ImportGoto(i, "freeze")
      BY DEF ImportPC, CommitImport
    <2> QED  BY <2>1, OwnImportRows, GotoRow
  <1>5. /\ iwf[i].pc = "accepted" /\ collection' = collection /\ artifact' = artifact
        /\ selection' = selection /\ docs' = docs /\ batchRow' = batchRow /\ child' = child
        /\ cancel' = cancel /\ halted' = halted
    BY DEF CommitImport, ImportAt
  <1>6. /\ importJob[i].status = "NONE" /\ iwf[i].pc \in Early
        /\ \A k \in Batches : child[i][k].pc = "none"
    BY <1>5, OwnImportRows DEF Asked, Early
  <1>7. iwf'[i] = w /\ importJob'[i] = row
    BY <1>3, <1>4, OwnImportRows DEF ImportRowsOK
  <1>8. Uncanceled(i)'
    BY <1>2, <1>4, <1>5, <1>6, <1>7, OwnImportRows DEF Uncanceled, Completed, Loaded, ActiveImportStatus
  <1>9. SourceSafe(i)'
    BY <1>2, <1>4, <1>5, <1>7 DEF SourceSafe
  <1> QED  BY <1>2, <1>3, <1>4, <1>5, <1>6, <1>8, <1>9, WriteStaysSafe

\* The status that a session writes, if nobody cancels the import.
LEMMA StatusStaysSafe ==
    ASSUME ImportsInv, NEW i \in Imports, UNCHANGED <<collection, artifact, deletionVars>>,
           NEW seen, NEW new \in ImportStatus, Writes(i, seen, new),
           NEW pc \in ImportPC, ImportGoto(i, pc),
           UNCHANGED <<docs, batchRow, child, cancel, halted, selection>>,
           iwf[i].pc \notin {"none", "accepted", "ended"}, pc \notin {"none", "accepted"},
           pc \in Early => iwf[i].pc \in Early,
           cancel[i].pc = "idle" =>
               /\ seen = importJob[i].status
               /\ (pc = "select" /\ new = "SNAPSHOTTING" /\ iwf[i].pc \in Early) \/ (pc = "ended" /\ new = "FAILED")
    PROVE  ImportsInv'
  <1>1. PICK w \in WorkflowRows : iwf' = [iwf EXCEPT ![i] = w] /\ w.pc = pc /\ w.total = iwf[i].total
    BY OwnImportRows, GotoRow
  <1>2. PICK row \in JobRows :
           /\ importJob' = [importJob EXCEPT ![i] = row]
           /\ row.status \in {importJob[i].status, new} /\ row.status = Written(i, seen, new)
           /\ row.source = importJob[i].source /\ row.matter = importJob[i].matter
    BY OwnImportRows, StatusRow
  <1>3. iwf'[i] = w /\ importJob'[i] = row /\ child' = child /\ cancel' = cancel /\ halted' = halted
    BY <1>1, <1>2, OwnImportRows DEF ImportRowsOK
  <1>4. cancel[i].pc = "idle" => importJob[i].status \in ActiveImportStatus /\ row.status = new
    BY <1>2, OwnImportRows DEF Uncanceled, Written
  <1>5. cancel[i].pc = "idle" /\ pc = "select" => \A k \in Batches : child[i][k].pc = "none"
    BY OwnImportRows DEF Asked
  <1>6. Uncanceled(i)'
    BY <1>1, <1>3, <1>4, <1>5, OwnImportRows DEF Uncanceled, Completed, Loaded, ActiveImportStatus
  <1>7. SourceSafe(i)'
    BY <1>1, <1>3, <1>4 DEF SourceSafe
  <1>8. cancel[i].pc = "idle" /\ row.status # "FAILED" => importJob[i].status # "FAILED"
    BY <1>4 DEF ActiveImportStatus
  <1> QED  BY <1>1, <1>2, <1>6, <1>7, <1>8, WriteStaysSafe

\* The import is SNAPSHOTTING, or has failed.
LEMMA MarksStaySafe ==
    ASSUME ImportsInv, NEW i \in Imports, UNCHANGED deletionVars, FreezeMark(i) \/ FailWrite(i)
    PROVE  ImportsInv'
  <1>1. UNCHANGED <<collection, artifact, docs, batchRow, child, cancel, halted, selection>>
    BY DEF FreezeMark, FailWrite
  <1>2. CASE FreezeMark(i)
    <2>1. iwf[i].pc = "mark" /\ ImportGoto(i, "select") /\ Writes(i, iwf[i].seen, "SNAPSHOTTING")
      BY <1>2 DEF FreezeMark, ImportAt, Writes
    <2>2. /\ "SNAPSHOTTING" \in ImportStatus /\ "select" \in ImportPC /\ iwf[i].pc \in Early
          /\ cancel[i].pc = "idle" => iwf[i].seen = importJob[i].status
      BY <2>1, OwnImportRows DEF ImportStatus, ImportPC, Early, Uncanceled
    <2> QED  BY <1>1, <2>1, <2>2, StatusStaysSafe
  <1>3. CASE FailWrite(i)
    <2>1. iwf[i].pc = "failwrite" /\ ImportGoto(i, "ended") /\ Writes(i, iwf[i].seen, "FAILED")
      BY <1>3 DEF FailWrite, ImportAt, Writes
    <2>2. /\ "FAILED" \in ImportStatus /\ "ended" \in ImportPC /\ "ended" \notin Early
          /\ cancel[i].pc = "idle" => iwf[i].seen = importJob[i].status
      BY <2>1, OwnImportRows DEF ImportStatus, ImportPC, Early, Uncanceled
    <2> QED  BY <1>1, <2>1, <2>2, StatusStaysSafe
  <1> QED  BY <1>2, <1>3

\* The sums over the batches are counts, and so is what a session writes of them.
LEMMA TotalsType ==
    ASSUME batchRow \in [Imports -> [Batches -> BatchRows]], NEW i \in Imports
    PROVE  BatchTotals(i) \in ImportCounts
  <1>1. Count(i, "added") \in Nat /\ Count(i, "duplicate") \in Nat /\ Count(i, "items") \in Nat
    BY CountType
  <1> QED  BY <1>1 DEF BatchTotals, ImportCounts

\* The columns that a session leaves alone hold counts as well.
LEMMA MergedType ==
    ASSUME NEW i \in Imports, importJob[i].counts \in ImportCounts,
           NEW seen, NEW totals \in ImportCounts
    PROVE  Merged(i, seen, totals) \in ImportCounts
  <1> DEFINE m == Merged(i, seen, totals)
  <1>1. m = [f \in {"processed", "added", "duplicate"} |->
               IF seen[f] = totals[f] THEN importJob[i].counts[f] ELSE totals[f]]
    BY DEF Merged
  <1>2. \A f \in {"processed", "added", "duplicate"} : totals[f] \in Nat /\ importJob[i].counts[f] \in Nat
    BY DEF ImportCounts
  <1>3. \A f \in {"processed", "added", "duplicate"} : m[f] \in Nat
    BY <1>1, <1>2
  <1> HIDE DEF m
  <1>4. m = [processed |-> m.processed, added |-> m.added, duplicate |-> m.duplicate]
    BY <1>1
  <1>5. m \in ImportCounts
    BY <1>3, <1>4 DEF ImportCounts
  <1> QED  BY <1>5 DEF m

\* The import is RUNNING: it has found its collection OPEN.
LEMMA RunStaysSafe ==
    ASSUME ImportsInv, NEW i \in Imports, UNCHANGED deletionVars, Run(i)
    PROVE  ImportsInv'
  <1> DEFINE status == Written(i, iwf[i].seen, "RUNNING")
             row == [importJob[i] EXCEPT !.status = status, !.frozen = TRUE, !.matched = iwf[i].total]
             w == [iwf[i] EXCEPT !.pc = "load", !.next = 1]
  <1>1. /\ importJob \in [Imports -> JobRows] /\ importJob[i] \in JobRows
        /\ iwf \in [Imports -> WorkflowRows] /\ iwf[i] \in WorkflowRows /\ iwf[i].total \in Nat
    BY OwnImportRows DEF ImportRowsOK, WorkflowRows
  <1>2. /\ importJob' = [importJob EXCEPT ![i] = row] /\ iwf' = [iwf EXCEPT ![i] = w]
        /\ iwf[i].pc = "run" /\ collection' = collection /\ artifact' = artifact
        /\ selection' = selection /\ docs' = docs /\ batchRow' = batchRow /\ child' = child
        /\ cancel' = cancel /\ halted' = halted
    BY <1>1 DEF Run, ImportAt
  <1>3. status \in ImportStatus /\ (iwf[i].seen = importJob[i].status => status = "RUNNING")
    BY <1>1 DEF Written, ImportStatus, JobRows
  <1> HIDE DEF status
  <1>4. /\ row \in JobRows /\ row.source = importJob[i].source /\ row.matter = importJob[i].matter
        /\ row.status = status
    BY <1>1, <1>3 DEF JobRows
  <1>5. w \in WorkflowRows /\ w.pc = "load" /\ w.total = iwf[i].total
    BY <1>1 DEF WorkflowRows, ImportPC
  <1> HIDE DEF row, w
  <1>6. iwf'[i] = w /\ importJob'[i] = row /\ iwf[i].pc \in Early /\ w.pc \notin Early
    BY <1>1, <1>2, <1>5 DEF Early
  <1>7. \A k \in Batches : child[i][k].pc = "none"
    BY <1>6, OwnImportRows DEF Asked
  <1>8. cancel[i].pc = "idle" =>
           importJob[i].status \in ActiveImportStatus /\ row.status = "RUNNING" /\ i \notin halted
    BY <1>2, <1>3, <1>4, OwnImportRows DEF Uncanceled
  <1>9. Uncanceled(i)'
    BY <1>2, <1>5, <1>6, <1>7, <1>8 DEF Uncanceled, Completed, Loaded, ActiveImportStatus
  <1>10. SourceSafe(i)'
    BY <1>2, <1>4, <1>6, OwnImportRows, SafeFrame DEF SourceSafe
  <1>11. cancel[i].pc = "idle" => importJob[i].status # "FAILED"
    BY <1>8 DEF ActiveImportStatus
  <1> QED  BY <1>2, <1>4, <1>5, <1>6, <1>9, <1>10, <1>11, WriteStaysSafe

\* The selection is removed, with the reference to it, or because the import has been canceled.
LEMMA RemovalStaysSafe ==
    ASSUME ImportsInv, NEW i \in Imports, UNCHANGED deletionVars, Drop(i) \/ Cleanup(i)
    PROVE  ImportsInv'
  <1>1. /\ selection' = [selection EXCEPT ![i] = NoSelection]
        /\ collection' = collection /\ artifact' = artifact
        /\ docs' = docs /\ batchRow' = batchRow /\ child' = child /\ cancel' = cancel /\ halted' = halted
    BY DEF Drop, Cleanup, RemoveSelection
  <1>2. PICK row \in JobRows : /\ importJob' = [importJob EXCEPT ![i] = row]
                               /\ row.source = importJob[i].source /\ row.matter = importJob[i].matter
                               /\ row.status = importJob[i].status
    <2>1. CASE Drop(i)
      BY <2>1, OwnImportRows DEF Drop
    <2>2. CASE Cleanup(i)
      <3> DEFINE row == [importJob[i] EXCEPT !.frozen = FALSE]
      <3>1. importJob \in [Imports -> JobRows] /\ importJob[i] \in JobRows
        BY OwnImportRows DEF ImportRowsOK
      <3>2. /\ row \in JobRows /\ row.source = importJob[i].source /\ row.matter = importJob[i].matter
            /\ row.status = importJob[i].status
        BY <3>1 DEF JobRows
      <3>3. importJob' = [importJob EXCEPT ![i] = row]
        BY <2>2, <3>1 DEF Cleanup
      <3> HIDE DEF row
      <3> QED  BY <3>2, <3>3
    <2> QED  BY <2>1, <2>2
  <1>3. /\ iwf[i].pc \in {"drop", "cleanup"}
        /\ ImportGoto(i, "ended") \/ (iwf[i].pc = "cleanup" /\ ImportGoto(i, "await"))
    BY DEF Drop, Cleanup, ImportAt
  <1>4. PICK w \in WorkflowRows : /\ iwf' = [iwf EXCEPT ![i] = w] /\ w.total = iwf[i].total
                                  /\ w.pc = "ended" \/ (iwf[i].pc = "cleanup" /\ w.pc = "await")
    <2>1. "ended" \in ImportPC /\ "await" \in ImportPC
      BY DEF ImportPC
    <2> QED  BY <1>3, <2>1, OwnImportRows, GotoRow
  <1>5. iwf'[i] = w /\ importJob'[i] = row /\ w.pc \notin Early
    BY <1>2, <1>4, OwnImportRows DEF ImportRowsOK, Early
  <1>6. Uncanceled(i)'
    BY <1>1, <1>2, <1>3, <1>4, <1>5, OwnImportRows DEF Uncanceled, Completed, Loaded, ActiveImportStatus
  <1>7. SourceSafe(i)'
    BY <1>1, <1>2, <1>4, <1>5, OwnImportRows, SafeFrame DEF SourceSafe
  <1> QED  BY <1>1, <1>2, <1>3, <1>4, <1>5, <1>6, <1>7, WriteStaysSafe

\* The counts are read once more, by the read that completes the import.
LEMMA CompleteReadStaysSafe ==
    ASSUME ImportsInv, NEW i \in Imports, UNCHANGED deletionVars, CompleteRead(i)
    PROVE  ImportsInv'
  <1>1. /\ iwf[i].pc = "complete" /\ selection' = selection /\ docs' = docs /\ batchRow' = batchRow
        /\ child' = child /\ cancel' = cancel /\ halted' = halted
        /\ collection' = collection /\ artifact' = artifact
    BY DEF CompleteRead, ImportAt
  <1>2. CASE importJob[i].status = "CANCELED"
    <2>1. ImportGoto(i, "ended") /\ importJob' = importJob
      BY <1>2 DEF CompleteRead
    <2>2. PICK w \in WorkflowRows : iwf' = [iwf EXCEPT ![i] = w] /\ w.pc = "ended" /\ w.total = iwf[i].total
      BY <2>1, OwnImportRows, GotoRow DEF ImportPC
    <2>3. UNCHANGED <<storeVars, batchRow, child, cancel, halted>>
      BY <1>1, <2>1 DEF storeVars
    <2> QED  BY <1>1, <2>2, <2>3, MoveStaysSafe DEF Early, Loaded
  <1>3. CASE importJob[i].status # "CANCELED"
    <2> DEFINE counts == Merged(i, importJob[i].counts, BatchTotals(i))
               row == [importJob[i] EXCEPT !.counts = counts]
               w == [iwf[i] EXCEPT !.pc = "finish", !.seen = importJob[i].status]
    <2>1. /\ importJob \in [Imports -> JobRows] /\ importJob[i] \in JobRows
          /\ iwf \in [Imports -> WorkflowRows] /\ iwf[i] \in WorkflowRows
          /\ batchRow \in [Imports -> [Batches -> BatchRows]]
      BY OwnImportRows DEF ImportRowsOK
    <2>2. importJob' = [importJob EXCEPT ![i] = row] /\ iwf' = [iwf EXCEPT ![i] = w]
      BY <1>3, <2>1 DEF CompleteRead
    <2>3. counts \in ImportCounts
      BY <2>1, MergedType, TotalsType DEF JobRows
    <2> HIDE DEF counts
    <2>4. /\ row \in JobRows /\ row.source = importJob[i].source /\ row.matter = importJob[i].matter
          /\ row.status = importJob[i].status
      BY <2>1, <2>3 DEF JobRows
    <2>5. /\ w \in WorkflowRows /\ w.pc = "finish" /\ w.seen = importJob[i].status
          /\ w.total = iwf[i].total
      BY <2>1 DEF WorkflowRows, JobRows, ImportPC
    <2> HIDE DEF row, w
    <2>6. iwf'[i] = w /\ importJob'[i] = row /\ w.pc \notin Early
      BY <2>1, <2>2, <2>5 DEF Early
    <2>7. Uncanceled(i)'
      BY <1>1, <2>4, <2>5, <2>6, OwnImportRows DEF Uncanceled, Completed, Loaded, ActiveImportStatus
    <2>8. SourceSafe(i)'
      BY <1>1, <2>4, <2>5, <2>6, OwnImportRows, SafeFrame DEF SourceSafe
    <2> QED  BY <1>1, <2>2, <2>4, <2>5, <2>6, <2>7, <2>8, WriteStaysSafe
  <1> QED  BY <1>2, <1>3

\* The import is COMPLETED.
LEMMA FinishStaysSafe ==
    ASSUME ImportsInv, NEW i \in Imports, UNCHANGED deletionVars, Finish(i)
    PROVE  ImportsInv'
  <1> DEFINE status == Written(i, iwf[i].seen, "COMPLETED")
             counts == [importJob[i].counts EXCEPT !.processed = importJob[i].matched]
             row == [importJob[i] EXCEPT !.status = status, !.counts = counts, !.frozen = FALSE]
  <1>1. /\ importJob \in [Imports -> JobRows] /\ importJob[i] \in JobRows
        /\ importJob[i].counts \in ImportCounts /\ importJob[i].matched \in Nat
    BY OwnImportRows DEF ImportRowsOK, JobRows
  <1>2. /\ iwf[i].pc = "finish" /\ importJob' = [importJob EXCEPT ![i] = row]
        /\ selection' = selection /\ docs' = docs /\ batchRow' = batchRow /\ child' = child
        /\ cancel' = cancel /\ halted' = halted /\ collection' = collection /\ artifact' = artifact
    BY <1>1 DEF Finish, ImportAt, JobRows
  <1>3. PICK w \in WorkflowRows : iwf' = [iwf EXCEPT ![i] = w] /\ w.pc = "ended" /\ w.total = iwf[i].total
    <2>1. "ended" \in ImportPC /\ ImportGoto(i, "ended")
      BY DEF ImportPC, Finish
    <2> QED  BY <2>1, OwnImportRows, GotoRow
  <1>4. status \in ImportStatus /\ (iwf[i].seen = importJob[i].status => status \in {"COMPLETED"})
    BY <1>1 DEF Written, ImportStatus, JobRows
  <1>5. counts \in ImportCounts
    BY <1>1 DEF ImportCounts
  <1> HIDE DEF status, counts
  <1>6. /\ row \in JobRows /\ row.source = importJob[i].source /\ row.matter = importJob[i].matter
        /\ row.status = status
    BY <1>1, <1>4, <1>5 DEF JobRows
  <1> HIDE DEF row
  <1>7. iwf'[i] = w /\ importJob'[i] = row /\ w.pc \notin Early
    BY <1>1, <1>2, <1>3, OwnImportRows DEF ImportRowsOK, Early
  <1>8. cancel[i].pc = "idle" =>
           /\ importJob[i].status = "RUNNING" /\ row.status = "COMPLETED" /\ i \notin halted
           /\ \A k \in Batches : child[i][k].pc \in {"none", "done"}
    BY <1>2, <1>4, <1>6, OwnImportRows DEF Uncanceled, Loaded
  <1>9. Uncanceled(i)'
    BY <1>2, <1>3, <1>7, <1>8 DEF Uncanceled, Completed, Loaded, ActiveImportStatus
  <1>10. SourceSafe(i)'
    BY <1>2, <1>3, <1>7, <1>8 DEF SourceSafe
  <1> QED  BY <1>2, <1>3, <1>6, <1>7, <1>8, <1>9, <1>10, WriteStaysSafe

\* The selection that exists, or what matches now, is of the source.
LEMMA FrozenStaysSafe ==
    ASSUME ImportsInv, NEW i \in Imports, UNCHANGED <<collection, artifact, deletionVars>>,
           iwf[i].pc = "insert",
           NEW sel \in SelectionRows, selection' = [selection EXCEPT ![i] = sel],
           \A x \in DOMAIN sel.items : CollectionOf[sel.items[x]] = importJob[i].source,
           iwf' = [iwf EXCEPT ![i].pc = "frozen", ![i].total = sel.total],
           UNCHANGED <<importJob, docs, batchRow, child, cancel, halted>>
    PROVE  ImportsInv'
  <1> DEFINE w == [iwf[i] EXCEPT !.pc = "frozen", !.total = sel.total]
  <1>1. iwf[i] \in WorkflowRows /\ iwf \in [Imports -> WorkflowRows]
    BY OwnImportRows DEF ImportRowsOK
  <1>2. w \in WorkflowRows /\ w.pc = "frozen"
    BY <1>1 DEF WorkflowRows, SelectionRows, ImportPC
  <1>3. iwf' = [iwf EXCEPT ![i] = w]
    BY <1>1
  <1> HIDE DEF w
  <1>4. iwf'[i] = w
    BY <1>1, <1>3
  <1>5. iwf[i].pc \in Early /\ importJob' = importJob /\ child' = child /\ cancel' = cancel /\ halted' = halted
    BY DEF Early
  <1>6. \A k \in Batches : child[i][k].pc = "none"
    BY <1>5, OwnImportRows DEF Asked
  <1>7. Uncanceled(i)'
    BY <1>2, <1>4, <1>5, <1>6, OwnImportRows DEF Uncanceled, Completed, Loaded, ActiveImportStatus
  <1>8. SourceSafe(i)'
    BY <1>4, <1>5, OwnImportRows, SafeFrame DEF SourceSafe
  <1>9. /\ importJob[i] \in JobRows /\ importJob' = [importJob EXCEPT ![i] = importJob[i]]
        /\ importJob[i].source \in Collections /\ importJob[i].matter \in Matters
    BY OwnImportRows DEF Asked
  <1> QED  BY <1>2, <1>3, <1>5, <1>7, <1>8, <1>9, WorkflowStaysSafe

\* The selection is created in the Artifact database.
LEMMA InsertStaysSafe ==
    ASSUME ImportsInv, NEW i \in Imports, UNCHANGED deletionVars, SelectInsert(i)
    PROVE  ImportsInv'
  <1>1. /\ iwf[i].pc = "insert" /\ collection' = collection /\ artifact' = artifact
        /\ UNCHANGED <<importJob, docs, batchRow, child, cancel, halted>>
    BY DEF SelectInsert, ImportAt
  <1>2. CASE /\ iwf' = [iwf EXCEPT ![i].pc = "frozen", ![i].total = selection[i].total]
             /\ UNCHANGED selection
    <2>1. selection[i] \in SelectionRows /\ selection' = [selection EXCEPT ![i] = selection[i]]
      BY <1>2, OwnImportRows
    <2>2. \A x \in DOMAIN selection[i].items : CollectionOf[selection[i].items[x]] = importJob[i].source
      BY OwnImportRows DEF FromSource
    <2> QED  BY <1>1, <1>2, <2>1, <2>2, FrozenStaysSafe
  <1>3. ASSUME NEW matched \in SUBSET ItemsOf(importJob[i].source),
               selection' = [selection EXCEPT ![i] = [row   |-> TRUE,
                                                      items |-> SetToSeq(matched),
                                                      total |-> Cardinality(matched)]],
               iwf' = [iwf EXCEPT ![i].pc = "frozen", ![i].total = Cardinality(matched)]
        PROVE  ImportsInv'
    <2>1. matched \subseteq ItemArtifacts /\ \A a \in matched : CollectionOf[a] = importJob[i].source
      BY DEF ItemsOf
    <2>2. IsFiniteSet(matched)
      BY <2>1, StoreAssumption, FS_Subset
    <2>3. PICK s, n : s = SetToSeq(matched) /\ n = Cardinality(matched)
      OBVIOUS
    <2>4. s \in Seq(matched) /\ n \in Nat
      BY <2>2, <2>3, EnumerationIsSequence, FS_CardinalityType
    <2> DEFINE sel == [row |-> TRUE, items |-> s, total |-> n]
    <2>5. sel \in SelectionRows
      BY <2>1, <2>4 DEF SelectionRows
    <2>6. \A x \in DOMAIN sel.items : CollectionOf[sel.items[x]] = importJob[i].source
      BY <2>1, <2>4
    <2>7. selection' = [selection EXCEPT ![i] = sel]
      BY <1>3, <2>3
    <2>8. iwf' = [iwf EXCEPT ![i].pc = "frozen", ![i].total = sel.total]
      BY <1>3, <2>3
    <2> HIDE DEF sel
    <2> QED  BY <1>1, <2>5, <2>6, <2>7, <2>8, FrozenStaysSafe
  <1>4. CASE ImportGoto(i, "fail") /\ UNCHANGED selection
    <2>1. PICK w \in WorkflowRows : iwf' = [iwf EXCEPT ![i] = w] /\ w.pc = "fail" /\ w.total = iwf[i].total
      BY <1>4, OwnImportRows, GotoRow DEF ImportPC
    <2>2. UNCHANGED <<storeVars, batchRow, child, cancel, halted>>
      BY <1>1, <1>4 DEF storeVars
    <2> QED  BY <1>1, <2>1, <2>2, MoveStaysSafe DEF Early, Loaded
  <1> QED  BY <1>2, <1>3, <1>4 DEF SelectInsert

\* A batch is enqueued: its items are of the selection.
LEMMA EnqueueStaysSafe ==
    ASSUME ImportsInv, NEW i \in Imports, UNCHANGED <<storeVars, deletionVars>>,
           iwf[i].pc = "load", NEW k, k = iwf[i].next, k <= BatchCount(iwf[i].total),
           child' = [child EXCEPT ![i][k] =
                        IF @.pc # "none" THEN @
                        ELSE [NoChild EXCEPT !.pc = "queued", !.items = Slice(selection[i].items, k)]],
           iwf' = [iwf EXCEPT ![i].next = k + 1],
           UNCHANGED <<batchRow, cancel, halted>>
    PROVE  ImportsInv'
  <1> DEFINE row == [NoChild EXCEPT !.pc = "queued", !.items = Slice(selection[i].items, k)]
             cell == IF child[i][k].pc # "none" THEN child[i][k] ELSE row
             mine == [child[i] EXCEPT ![k] = cell]
             w == [iwf[i] EXCEPT !.next = k + 1]
  <1>1. /\ iwf[i] \in WorkflowRows /\ iwf \in [Imports -> WorkflowRows] /\ k \in Nat
        /\ child[i] \in [Batches -> ChildRows] /\ child \in [Imports -> [Batches -> ChildRows]]
        /\ selection[i].items \in Seq(ItemArtifacts)
    BY OwnImportRows DEF ImportRowsOK, WorkflowRows, SelectionRows
  <1>2. /\ child' = [child EXCEPT ![i] = mine]
        /\ iwf' = [iwf EXCEPT ![i] = w]
    BY <1>1
  <1>3. /\ Slice(selection[i].items, k) \subseteq ItemArtifacts
        /\ \A a \in Slice(selection[i].items, k) : CollectionOf[a] = importJob[i].source
    BY <1>1, OwnImportRows DEF Slice, FromSource
  <1>4. row \in ChildRows /\ row.pc = "queued" /\ row.items = Slice(selection[i].items, k)
    <2>1. NoChild \in ChildRows /\ "queued" \in ChildPC
      BY DEF NoChild, ChildRows, ChildPC, ImportCounts, NoCounts
    <2> HIDE DEF Slice
    <2> QED  BY <1>3, <2>1 DEF ChildRows
  <1>5. w \in WorkflowRows /\ w.pc = "load" /\ w.total = iwf[i].total
    <2>1. PICK n \in Nat : n = k + 1
      BY <1>1
    <2>2. w = [iwf[i] EXCEPT !.next = n]
      BY <2>1
    <2> HIDE DEF w
    <2> QED  BY <1>1, <2>2 DEF WorkflowRows
  <1> HIDE DEF w, row
  <1>6. /\ mine \in [Batches -> ChildRows]
        /\ \A l \in Batches : \/ mine[l] = child[i][l]
                              \/ l = k /\ child[i][k].pc = "none" /\ mine[l] = row
    BY <1>1, <1>4
  <1> HIDE DEF mine
  <1>7. /\ iwf'[i] = w /\ child'[i] = mine /\ importJob' = importJob /\ selection' = selection
        /\ docs' = docs /\ cancel' = cancel /\ halted' = halted /\ w.pc \notin Early
    BY <1>1, <1>2, <1>5 DEF storeVars, Early
  <1>8. Asked(i)'
    <2>1. importJob[i].source \in Collections /\ importJob[i].matter \in Matters
      BY OwnImportRows DEF Asked
    <2>2. \A l \in Batches : /\ mine[l].pc = "none" => mine[l].items = {}
                             /\ mine[l].pc # "none" => l <= BatchCount(w.total)
      BY <1>4, <1>5, <1>6, OwnImportRows DEF Asked
    <2> QED  BY <1>5, <1>7, <2>1, <2>2 DEF Asked
  <1>9. FromSource(i)'
    <2>1. \A l \in Batches : \A a \in mine[l].items : CollectionOf[a] = importJob[i].source
      BY <1>3, <1>4, <1>6, OwnImportRows DEF FromSource
    <2> QED  BY <1>7, <2>1, OwnImportRows DEF FromSource
  <1>10. cancel[i].pc = "idle" => importJob[i].status = "RUNNING" /\ i \notin halted
    BY OwnImportRows DEF Uncanceled, Loaded
  <1>11. Uncanceled(i)'
    BY <1>5, <1>7, <1>10 DEF Uncanceled, Completed, Loaded, ActiveImportStatus
  <1>12. SourceSafe(i)'
    BY <1>5, <1>7, OwnImportRows, SafeFrame DEF SourceSafe, storeVars
  <1>13. DocumentsSafe(i)'
    BY <1>7, OwnImportRows, SafeFrame DEF DocumentsSafe, storeVars
  <1>14. SafeImport(i)'
    BY <1>8, <1>9, <1>11, <1>12, <1>13 DEF SafeImport
  <1>15. /\ UNCHANGED <<collection, artifact, deletionVars>>
         /\ importJob[i] \in JobRows /\ importJob' = [importJob EXCEPT ![i] = importJob[i]]
         /\ selection[i] \in SelectionRows /\ selection' = [selection EXCEPT ![i] = selection[i]]
         /\ cancel[i] \in CancelRows /\ cancel' = [cancel EXCEPT ![i] = cancel[i]]
    BY <1>7, OwnImportRows DEF storeVars
  <1>16. /\ (batchRow \in [Imports -> [Batches -> BatchRows]])'
         /\ (halted \subseteq Imports)' /\ (docs \subseteq Document)'
         /\ halted' \subseteq halted \cup {i} /\ \A d \in docs' \ docs : d.by = i
    BY <1>7 DEF ImportsInv, ImportRowsOK
  <1> QED  BY <1>2, <1>5, <1>6, <1>14, <1>15, <1>16, OthersStaySafe

\* The batches are loaded one by one.
LEMMA LoadStaysSafe ==
    ASSUME ImportsInv, NEW i \in Imports, UNCHANGED deletionVars, Load(i)
    PROVE  ImportsInv'
  <1>1. iwf[i].pc = "load" /\ UNCHANGED <<storeVars, batchRow, cancel, halted>>
    BY DEF Load, ImportAt
  <1>2. CASE UNCHANGED child /\ (ImportGoto(i, "fail") \/ ImportGoto(i, "cleanup"))
    <2>1. PICK w \in WorkflowRows : /\ iwf' = [iwf EXCEPT ![i] = w] /\ w.total = iwf[i].total
                                    /\ w.pc \in {"fail", "cleanup"}
      <3>1. "fail" \in ImportPC /\ "cleanup" \in ImportPC
        BY DEF ImportPC
      <3> QED  BY <1>2, <3>1, OwnImportRows, GotoRow
    <2> QED  BY <1>1, <1>2, <2>1, MoveStaysSafe DEF Early, Loaded
  <1>3. CASE /\ iwf[i].next <= BatchCount(iwf[i].total)
             /\ child' = [child EXCEPT ![i][iwf[i].next] =
                   IF @.pc # "none" THEN @
                   ELSE [NoChild EXCEPT !.pc = "queued",
                                        !.items = Slice(selection[i].items, iwf[i].next)]]
             /\ iwf' = [iwf EXCEPT ![i].next = iwf[i].next + 1]
    BY <1>1, <1>3, EnqueueStaysSafe
  <1> QED  BY <1>2, <1>3 DEF Load, Slice

\* A step of a batch that is at work: new documents are of its items.
LEMMA BatchStaysSafe ==
    ASSUME ImportsInv, NEW i \in Imports, NEW k \in Batches,
           UNCHANGED <<collection, artifact, deletionVars>>,
           NEW c \in ChildRows, child' = [child EXCEPT ![i] = [child[i] EXCEPT ![k] = c]],
           child[i][k].pc \notin {"none", "done"}, c.pc # "none", c.items = child[i][k].items,
           NEW row \in JobRows, importJob' = [importJob EXCEPT ![i] = row],
           row.source = importJob[i].source, row.matter = importJob[i].matter,
           row.status = importJob[i].status,
           UNCHANGED <<selection, iwf, cancel, halted>>,
           (batchRow \in [Imports -> [Batches -> BatchRows]])', (docs \subseteq Document)',
           \A d \in docs' \ docs : d.by = i /\ d.item \in child[i][k].items
    PROVE  ImportsInv'
  <1> DEFINE mine == [child[i] EXCEPT ![k] = c]
  <1>1. child \in [Imports -> [Batches -> ChildRows]] /\ child[i] \in [Batches -> ChildRows]
    BY OwnImportRows DEF ImportRowsOK
  <1>2. /\ mine \in [Batches -> ChildRows] /\ mine[k] = c
        /\ \A l \in Batches : l # k => mine[l] = child[i][l]
    BY <1>1
  <1>3. child' = [child EXCEPT ![i] = mine]
    OBVIOUS
  <1> HIDE DEF mine
  <1>4. child'[i] = mine /\ importJob'[i] = row
    BY <1>1, <1>3, OwnImportRows DEF ImportRowsOK
  <1>5. selection' = selection /\ iwf' = iwf /\ cancel' = cancel /\ halted' = halted
    OBVIOUS
  <1>6. \A l \in Batches : /\ mine[l].pc = "none" <=> child[i][l].pc = "none"
                           /\ mine[l].items = child[i][l].items
    BY <1>2
  <1>7. Asked(i)'
    BY <1>4, <1>5, <1>6, OwnImportRows DEF Asked
  <1>8. FromSource(i)'
    BY <1>4, <1>5, <1>6, OwnImportRows DEF FromSource
  <1>9. cancel[i].pc = "idle" =>
           /\ iwf[i].pc \notin {"complete", "finish"} /\ ~Completed(i)
           /\ importJob[i].status \in {"RUNNING", "FAILED"}
    BY OwnImportRows DEF Uncanceled, Completed
  <1>10. Uncanceled(i)'
    BY <1>4, <1>5, <1>6, <1>9, OwnImportRows DEF Uncanceled, Completed
  <1>11. SourceSafe(i)'
    BY <1>4, <1>5, OwnImportRows, SafeFrame DEF SourceSafe
  <1>12. DocumentsSafe(i)'
    <2>1. SUFFICES ASSUME cancel[i].pc = "idle", importJob[i].status # "FAILED", NEW d \in docs', d.by = i
                   PROVE  Safe(CollectionOf[d.item])'
      BY <1>4, <1>5 DEF DocumentsSafe
    <2>2. CASE d \in docs
      BY <2>1, <2>2, OwnImportRows, SafeFrame DEF DocumentsSafe
    <2>3. CASE d \notin docs
      <3>1. CollectionOf[d.item] = importJob[i].source
        BY <2>3, OwnImportRows DEF FromSource
      <3>2. Safe(importJob[i].source)
        BY <1>9, <2>1, OwnImportRows DEF SourceSafe
      <3> QED  BY <3>1, <3>2, SafeFrame
    <2> QED  BY <2>2, <2>3
  <1>13. SafeImport(i)'
    BY <1>7, <1>8, <1>10, <1>11, <1>12 DEF SafeImport
  <1>14. /\ iwf[i] \in WorkflowRows /\ iwf' = [iwf EXCEPT ![i] = iwf[i]]
         /\ selection[i] \in SelectionRows /\ selection' = [selection EXCEPT ![i] = selection[i]]
         /\ cancel[i] \in CancelRows /\ cancel' = [cancel EXCEPT ![i] = cancel[i]]
    BY <1>5, OwnImportRows
  <1>15. /\ (halted \subseteq Imports)' /\ halted' \subseteq halted \cup {i}
         /\ \A d \in docs' \ docs : d.by = i
    BY <1>5 DEF ImportsInv, ImportRowsOK
  <1> QED  BY <1>2, <1>3, <1>13, <1>14, <1>15, OthersStaySafe

\* A batch that goes somewhere.
BatchGoto(i, k, pc) == child' = [child EXCEPT ![i][k].pc = pc]

\* It keeps its items.
LEMMA BatchRow ==
    ASSUME ImportsInv, NEW i \in Imports, NEW k \in Batches, NEW pc \in ChildPC, BatchGoto(i, k, pc)
    PROVE  \E c \in ChildRows : /\ child' = [child EXCEPT ![i] = [child[i] EXCEPT ![k] = c]]
                                /\ c.pc = pc /\ c.items = child[i][k].items
  <1> DEFINE c == [child[i][k] EXCEPT !.pc = pc]
  <1>1. child[i][k] \in ChildRows /\ child \in [Imports -> [Batches -> ChildRows]]
    BY OwnImportRows DEF ImportRowsOK
  <1>2. c \in ChildRows /\ c.pc = pc /\ c.items = child[i][k].items
    BY <1>1 DEF ChildRows
  <1>3. child' = [child EXCEPT ![i] = [child[i] EXCEPT ![k] = c]]
    BY <1>1 DEF BatchGoto
  <1> QED  BY <1>2, <1>3

\* A batch that goes somewhere and changes nothing but its own row.
LEMMA BatchMoveStaysSafe ==
    ASSUME ImportsInv, NEW i \in Imports, NEW k \in Batches, NEW pc \in ChildPC,
           UNCHANGED deletionVars, UNCHANGED <<storeVars, iwf, cancel, halted>>,
           BatchGoto(i, k, pc), child[i][k].pc \notin {"none", "done"}, pc # "none",
           (batchRow \in [Imports -> [Batches -> BatchRows]])'
    PROVE  ImportsInv'
  <1>1. PICK c \in ChildRows : /\ child' = [child EXCEPT ![i] = [child[i] EXCEPT ![k] = c]]
                               /\ c.pc = pc /\ c.items = child[i][k].items
    BY BatchRow
  <1>2. UNCHANGED <<collection, artifact, selection, importJob, docs>>
    BY DEF storeVars
  <1>3. /\ importJob[i] \in JobRows /\ importJob' = [importJob EXCEPT ![i] = importJob[i]]
        /\ (docs \subseteq Document)' /\ docs' = docs
    BY <1>2, OwnImportRows DEF ImportRowsOK
  <1> QED  BY <1>1, <1>2, <1>3, BatchStaysSafe

\* The batch stops, fails, starts again, or is skipped.
LEMMA BatchMovesStaySafe ==
    ASSUME ImportsInv, NEW i \in Imports, NEW k \in Batches, UNCHANGED deletionVars,
           ChildHalts(i, k) \/ ChildRestarts(i, k) \/ ChildGivesUp(i, k) \/ ChildSkips(i, k)
    PROVE  ImportsInv'
  <1>1. /\ child[i][k].pc \notin {"none", "done"} /\ UNCHANGED <<storeVars, iwf, cancel, halted>>
    BY DEF ChildHalts, ChildRestarts, ChildGivesUp, ChildSkips, ChildAt
  <1>2. (batchRow \in [Imports -> [Batches -> BatchRows]])'
    <2>1. batchRow \in [Imports -> [Batches -> BatchRows]] /\ child[i][k].items \subseteq ItemArtifacts
      BY OwnImportRows DEF ImportRowsOK, ChildRows
    <2>2. CASE UNCHANGED batchRow
      BY <2>1, <2>2
    <2>3. CASE batchRow' = [batchRow EXCEPT ![i][k] =
                  [NoBatch EXCEPT !.status = "COMPLETED", !.items = Cardinality(child[i][k].items)]]
      <3>1. PICK n \in Nat : n = Cardinality(child[i][k].items)
        <4>1. IsFiniteSet(ItemArtifacts)
          BY StoreAssumption, FS_Subset
        <4> QED  BY <2>1, <4>1, FS_Subset, FS_CardinalityType
      <3>2. [NoBatch EXCEPT !.status = "COMPLETED", !.items = n] \in BatchRows
        BY DEF BatchRows, NoBatch
      <3> QED  BY <2>1, <2>3, <3>1, <3>2
    <2> QED  BY <2>2, <2>3 DEF ChildHalts, ChildRestarts, ChildGivesUp, ChildSkips
  <1>3. \/ BatchGoto(i, k, "halted") \/ BatchGoto(i, k, "queued")
        \/ BatchGoto(i, k, "error") \/ BatchGoto(i, k, "done")
    BY DEF ChildHalts, ChildRestarts, ChildGivesUp, ChildSkips, BatchGoto
  <1>4. {"halted", "queued", "error", "done"} \subseteq ChildPC
    BY DEF ChildPC
  <1> QED  BY <1>1, <1>2, <1>3, <1>4, BatchMoveStaysSafe

\* The batch reads what the matter has; it reads the counts and writes them.
LEMMA BatchReadsStaySafe ==
    ASSUME ImportsInv, NEW i \in Imports, NEW k \in Batches, UNCHANGED deletionVars,
           ChildRead(i, k) \/ ProgressRead(i, k)
    PROVE  ImportsInv'
  <1>1. /\ child[i][k] \in ChildRows /\ child \in [Imports -> [Batches -> ChildRows]]
        /\ importJob[i].counts \in ImportCounts
        /\ batchRow \in [Imports -> [Batches -> BatchRows]] /\ docs \subseteq Document
    BY OwnImportRows DEF ImportRowsOK, JobRows
  <1>2. /\ child[i][k].pc \notin {"none", "done"} /\ UNCHANGED <<storeVars, batchRow, iwf, cancel, halted>>
    BY DEF ChildRead, ProgressRead, ChildAt
  <1>3. /\ importJob[i] \in JobRows /\ importJob' = [importJob EXCEPT ![i] = importJob[i]]
        /\ collection' = collection /\ artifact' = artifact /\ selection' = selection /\ docs' = docs
        /\ batchRow' = batchRow
    BY <1>2, OwnImportRows DEF storeVars
  <1>4. (batchRow \in [Imports -> [Batches -> BatchRows]])' /\ (docs \subseteq Document)'
    BY <1>1, <1>3
  <1>5. CASE ChildRead(i, k)
    <2>1. PICK pc, known : /\ pc = IF child[i][k].items \cap Unimportable = {} THEN "commit" ELSE "error"
                           /\ known = child[i][k].items \cap InMatter(importJob[i].matter)
      OBVIOUS
    <2> DEFINE c == [child[i][k] EXCEPT !.pc = pc, !.known = known]
    <2>2. pc \in {"commit", "error"} /\ pc \in ChildPC /\ known \in SUBSET ItemArtifacts
      BY <1>1, <2>1 DEF ChildPC, ChildRows
    <2>3. c \in ChildRows /\ c.pc = pc /\ c.items = child[i][k].items
      BY <1>1, <2>2 DEF ChildRows
    <2>4. child' = [child EXCEPT ![i] = [child[i] EXCEPT ![k] = c]]
      <3>1. child' = [child EXCEPT ![i][k].pc = pc, ![i][k].known = known]
        BY <1>5, <2>1 DEF ChildRead
      <3> QED  BY <1>1, <3>1
    <2> HIDE DEF c
    <2> QED  BY <1>2, <1>3, <1>4, <2>2, <2>3, <2>4, BatchStaysSafe
  <1>6. CASE ProgressRead(i, k) /\ importJob[i].status = "CANCELED"
    <2>1. BatchGoto(i, k, "done") /\ "done" \in ChildPC
      BY <1>6 DEF ProgressRead, ChildPC, BatchGoto
    <2> QED  BY <1>2, <1>4, <2>1, BatchMoveStaysSafe
  <1>7. CASE ProgressRead(i, k) /\ importJob[i].status # "CANCELED"
    <2>1. PICK totals \in ImportCounts, seen \in ImportCounts :
                  totals = BatchTotals(i) /\ seen = importJob[i].counts
      BY <1>1, TotalsType
    <2> DEFINE c == [child[i][k] EXCEPT !.pc = "write", !.seen = seen, !.totals = totals]
    <2>2. c \in ChildRows /\ c.pc = "write" /\ c.items = child[i][k].items
      BY <1>1 DEF ChildRows, ChildPC
    <2>3. child' = [child EXCEPT ![i] = [child[i] EXCEPT ![k] = c]]
      <3>1. child' = [child EXCEPT ![i][k].pc = "write", ![i][k].seen = seen, ![i][k].totals = totals]
        BY <1>7, <2>1 DEF ProgressRead
      <3> QED  BY <1>1, <3>1
    <2> HIDE DEF c
    <2> QED  BY <1>2, <1>3, <1>4, <2>2, <2>3, BatchStaysSafe
  <1> QED  BY <1>5, <1>6, <1>7

\* The counts that the batch has read are written.
LEMMA ProgressStaysSafe ==
    ASSUME ImportsInv, NEW i \in Imports, NEW k \in Batches, UNCHANGED deletionVars, ProgressWrite(i, k)
    PROVE  ImportsInv'
  <1> DEFINE counts == Merged(i, child[i][k].seen, child[i][k].totals)
             row == [importJob[i] EXCEPT !.counts = counts]
             c == [child[i][k] EXCEPT !.pc = "done", !.seen = NoCounts, !.totals = NoCounts]
  <1>1. /\ child[i][k] \in ChildRows /\ child \in [Imports -> [Batches -> ChildRows]]
        /\ importJob[i] \in JobRows /\ importJob \in [Imports -> JobRows]
        /\ batchRow \in [Imports -> [Batches -> BatchRows]] /\ docs \subseteq Document
    BY OwnImportRows DEF ImportRowsOK
  <1>2. /\ child[i][k].pc = "write" /\ collection' = collection /\ artifact' = artifact
        /\ batchRow' = batchRow /\ docs' = docs /\ UNCHANGED <<selection, iwf, cancel, halted>>
    BY DEF ProgressWrite, ChildAt
  <1>3. counts \in ImportCounts
    BY <1>1, MergedType DEF JobRows, ChildRows
  <1>4. importJob' = [importJob EXCEPT ![i] = row]
    BY <1>1 DEF ProgressWrite
  <1> HIDE DEF counts
  <1>5. /\ row \in JobRows /\ row.source = importJob[i].source /\ row.matter = importJob[i].matter
        /\ row.status = importJob[i].status
    BY <1>1, <1>3 DEF JobRows
  <1>6. c \in ChildRows /\ c.pc = "done" /\ c.items = child[i][k].items
    BY <1>1 DEF ChildRows, ChildPC, NoCounts, ImportCounts
  <1>7. child' = [child EXCEPT ![i] = [child[i] EXCEPT ![k] = c]]
    BY <1>1 DEF ProgressWrite
  <1> HIDE DEF row, c
  <1>8. /\ (batchRow \in [Imports -> [Batches -> BatchRows]])' /\ (docs \subseteq Document)'
        /\ UNCHANGED <<collection, artifact, deletionVars>>
    BY <1>1, <1>2
  <1> QED  BY <1>2, <1>4, <1>5, <1>6, <1>7, <1>8, BatchStaysSafe

\* The documents are inserted.
LEMMA ChildCommitStaysSafe ==
    ASSUME ImportsInv, NEW i \in Imports, NEW k \in Batches, UNCHANGED deletionVars, ChildCommit(i, k)
    PROVE  ImportsInv'
  <1>1. PICK new : new = child[i][k].items \ child[i][k].known
    OBVIOUS
  <1>2. /\ child[i][k].pc = "commit"
        /\ UNCHANGED <<collection, artifact, selection, importJob, iwf, cancel, halted>>
    BY DEF ChildCommit, ChildAt
  <1>3. /\ child[i][k] \in ChildRows /\ child \in [Imports -> [Batches -> ChildRows]]
        /\ batchRow \in [Imports -> [Batches -> BatchRows]] /\ docs \subseteq Document
        /\ importJob[i] \in JobRows /\ importJob' = [importJob EXCEPT ![i] = importJob[i]]
    BY <1>2, OwnImportRows DEF ImportRowsOK
  <1>4. CASE new \cap InMatter(importJob[i].matter) # {}
    <2>1. BatchGoto(i, k, "queued") /\ UNCHANGED <<docs, batchRow>>
      BY <1>1, <1>4 DEF ChildCommit, BatchGoto
    <2>2. /\ UNCHANGED <<storeVars, iwf, cancel, halted>> /\ "queued" \in ChildPC
          /\ (batchRow \in [Imports -> [Batches -> BatchRows]])'
      BY <1>2, <1>3, <2>1 DEF storeVars, ChildPC
    <2> QED  BY <1>2, <2>1, <2>2, BatchMoveStaysSafe
  <1>5. CASE new \cap InMatter(importJob[i].matter) = {}
    <2>1. /\ docs' = docs \cup {[matter |-> importJob[i].matter, item |-> a, by |-> i] : a \in new}
          /\ batchRow' = [batchRow EXCEPT ![i][k] =
                [status |-> "COMPLETED", items |-> Cardinality(child[i][k].items),
                 added |-> Cardinality(new), duplicate |-> Cardinality(child[i][k].known)]]
          /\ BatchGoto(i, k, "progress")
      BY <1>1, <1>5 DEF ChildCommit, BatchGoto
    <2>2. PICK c \in ChildRows : /\ child' = [child EXCEPT ![i] = [child[i] EXCEPT ![k] = c]]
                                 /\ c.pc = "progress" /\ c.items = child[i][k].items
      <3>1. "progress" \in ChildPC
        BY DEF ChildPC
      <3> QED  BY <2>1, <3>1, BatchRow
    <2>3. PICK items, known :
             /\ items = child[i][k].items /\ known = child[i][k].known
             /\ items \subseteq ItemArtifacts /\ known \subseteq ItemArtifacts /\ new \subseteq items
      BY <1>1, <1>3 DEF ChildRows
    <2>4. Cardinality(items) \in Nat /\ Cardinality(known) \in Nat /\ Cardinality(new) \in Nat
      <3>1. IsFiniteSet(ItemArtifacts) /\ new \subseteq ItemArtifacts
        BY <2>3, StoreAssumption, FS_Subset
      <3>2. IsFiniteSet(items) /\ IsFiniteSet(known) /\ IsFiniteSet(new)
        BY <2>3, <3>1, FS_Subset
      <3> QED  BY <3>2, FS_CardinalityType
    <2>5. (batchRow \in [Imports -> [Batches -> BatchRows]])'
      <3> DEFINE b == [status |-> "COMPLETED", items |-> Cardinality(items),
                       added |-> Cardinality(new), duplicate |-> Cardinality(known)]
      <3>1. b \in BatchRows
        BY <2>4 DEF BatchRows
      <3>2. batchRow' = [batchRow EXCEPT ![i][k] = b]
        BY <2>1, <2>3
      <3> HIDE DEF b
      <3> QED  BY <1>3, <3>1, <3>2
    <2>6. importJob[i].matter \in Matters
      <3>1. iwf[i].pc # "none"
        BY <1>2, OwnImportRows DEF Asked, Early
      <3> QED  BY <3>1, OwnImportRows DEF Asked
    <2>7. (docs \subseteq Document)' /\ \A d \in docs' \ docs : d.by = i /\ d.item \in child[i][k].items
      <3>1. \A a \in new : [matter |-> importJob[i].matter, item |-> a, by |-> i] \in Document
        BY <2>3, <2>6 DEF Document
      <3> QED  BY <1>3, <2>1, <2>3, <3>1
    <2> QED  BY <1>2, <1>3, <2>2, <2>5, <2>7, BatchStaysSafe
  <1> QED  BY <1>4, <1>5

\* Once a user asks to cancel it, an import promises nothing about its source.
LEMMA CancelStaysSafe ==
    ASSUME ImportsInv, NEW i \in Imports, UNCHANGED <<collection, artifact, deletionVars>>,
           NEW req \in CancelRows, cancel' = [cancel EXCEPT ![i] = req], req.pc # "idle",
           iwf[i].pc \notin {"none", "accepted"},
           NEW row \in JobRows, importJob' = [importJob EXCEPT ![i] = row],
           row.source = importJob[i].source, row.matter = importJob[i].matter,
           selection' = selection \/ selection' = [selection EXCEPT ![i] = NoSelection],
           UNCHANGED <<iwf, child, batchRow, docs>>,
           (halted \subseteq Imports)', halted' \subseteq halted \cup {i}
    PROVE  ImportsInv'
  <1>1. PICK sel \in SelectionRows : /\ selection' = [selection EXCEPT ![i] = sel]
                                     /\ sel = selection[i] \/ DOMAIN sel.items = {}
    <2>1. CASE selection' = selection
      BY <2>1, OwnImportRows
    <2>2. CASE selection' = [selection EXCEPT ![i] = NoSelection]
      <3>1. DOMAIN NoSelection.items = {}
        BY DEF NoSelection
      <3> QED  BY <2>2, <3>1, NoSelectionRow
    <2> QED  BY <2>1, <2>2
  <1>2. /\ cancel'[i] = req /\ importJob'[i] = row /\ selection'[i] = sel
        /\ iwf' = iwf /\ child' = child /\ docs' = docs
    BY <1>1, OwnImportRows DEF ImportRowsOK
  <1>3. Asked(i)'
    BY <1>2, OwnImportRows DEF Asked
  <1>4. FromSource(i)'
    BY <1>1, <1>2, OwnImportRows DEF FromSource
  <1>5. Uncanceled(i)' /\ SourceSafe(i)' /\ DocumentsSafe(i)'
    BY <1>2 DEF Uncanceled, SourceSafe, DocumentsSafe
  <1>6. SafeImport(i)'
    BY <1>3, <1>4, <1>5 DEF SafeImport
  <1>7. /\ iwf[i] \in WorkflowRows /\ iwf' = [iwf EXCEPT ![i] = iwf[i]]
        /\ child[i] \in [Batches -> ChildRows] /\ child' = [child EXCEPT ![i] = child[i]]
        /\ (batchRow \in [Imports -> [Batches -> BatchRows]])' /\ (docs \subseteq Document)'
        /\ \A d \in docs' \ docs : d.by = i
    BY <1>2, OwnImportRows DEF ImportRowsOK
  <1> QED  BY <1>1, <1>6, <1>7, OthersStaySafe

\* A request to cancel that goes on.
CancelGoto(i, pc) == cancel' = [cancel EXCEPT ![i].pc = pc]

\* It keeps what it has read.
LEMMA CancelRow ==
    ASSUME ImportsInv, NEW i \in Imports, NEW pc \in {"write", "remove", "stop", "done"}, CancelGoto(i, pc)
    PROVE  \E req \in CancelRows : cancel' = [cancel EXCEPT ![i] = req] /\ req.pc = pc
  <1> DEFINE req == [cancel[i] EXCEPT !.pc = pc]
  <1>1. cancel[i] \in CancelRows /\ cancel \in [Imports -> CancelRows]
    BY OwnImportRows DEF ImportRowsOK
  <1>2. req \in CancelRows /\ req.pc = pc
    BY <1>1 DEF CancelRows
  <1>3. cancel' = [cancel EXCEPT ![i] = req]
    BY <1>1 DEF CancelGoto
  <1> QED  BY <1>2, <1>3

\* Every step of a request to cancel.
LEMMA CancelsStaySafe ==
    ASSUME ImportsInv, NEW i \in Imports, UNCHANGED deletionVars, CancelStep(i)
    PROVE  ImportsInv'
  <1>1. /\ UNCHANGED <<collection, artifact, deletionVars>> /\ UNCHANGED <<iwf, child, batchRow, docs>>
        /\ (halted \subseteq Imports)' /\ halted' \subseteq halted \cup {i}
    <2>1. halted \subseteq Imports
      BY OwnImportRows DEF ImportRowsOK
    <2> QED  BY <2>1 DEF CancelStep, CancelRead, CancelWrite, CancelRemove, CancelStop, storeVars
  <1>2. iwf[i].pc \notin {"none", "accepted"}
    <2>1. importJob[i].status \in ActiveImportStatus \/ cancel[i].pc # "idle"
      BY DEF CancelStep, CancelRead, CancelWrite, CancelRemove, CancelStop
    <2> QED  BY <2>1, OwnImportRows DEF Asked, ActiveImportStatus
  <1>3. CASE CancelRead(i)
    <2>1. /\ importJob[i] \in JobRows /\ importJob' = [importJob EXCEPT ![i] = importJob[i]]
          /\ selection' = selection
      BY <1>3, OwnImportRows DEF CancelRead, storeVars
    <2> DEFINE req == [pc |-> "write", seen |-> importJob[i].status, frozen |-> importJob[i].frozen]
    <2>2. req \in CancelRows /\ req.pc # "idle"
      BY <2>1 DEF CancelRows, JobRows
    <2>3. cancel' = [cancel EXCEPT ![i] = req]
      BY <1>3 DEF CancelRead
    <2> HIDE DEF req
    <2> QED  BY <1>1, <1>2, <2>1, <2>2, <2>3, CancelStaysSafe
  <1>4. CASE CancelWrite(i)
    <2>1. CancelGoto(i, "remove") /\ Writes(i, cancel[i].seen, "CANCELED") /\ "CANCELED" \in ImportStatus
      BY <1>4 DEF CancelWrite, CancelGoto, Writes, ImportStatus
    <2>2. PICK req \in CancelRows : cancel' = [cancel EXCEPT ![i] = req] /\ req.pc = "remove"
      BY <2>1, CancelRow
    <2>3. PICK row \in JobRows :
             /\ importJob' = [importJob EXCEPT ![i] = row]
             /\ row.status \in {importJob[i].status, "CANCELED"}
             /\ row.status = Written(i, cancel[i].seen, "CANCELED")
             /\ row.source = importJob[i].source /\ row.matter = importJob[i].matter
      BY <2>1, OwnImportRows, StatusRow
    <2>4. selection' = selection
      BY <1>4 DEF CancelWrite
    <2> QED  BY <1>1, <1>2, <2>2, <2>3, <2>4, CancelStaysSafe
  <1>5. CASE CancelRemove(i)
    <2>1. PICK req \in CancelRows : cancel' = [cancel EXCEPT ![i] = req] /\ req.pc = "stop"
      <3>1. CancelGoto(i, "stop")
        BY <1>5 DEF CancelRemove, CancelGoto
      <3> QED  BY <3>1, CancelRow
    <2>2. CASE UNCHANGED <<selection, importJob>>
      <3>1. importJob[i] \in JobRows /\ importJob' = [importJob EXCEPT ![i] = importJob[i]]
        BY <2>2, OwnImportRows
      <3> QED  BY <1>1, <1>2, <2>1, <2>2, <3>1, CancelStaysSafe
    <2>3. CASE RemoveSelection(i) /\ importJob' = [importJob EXCEPT ![i].frozen = FALSE]
      <3> DEFINE row == [importJob[i] EXCEPT !.frozen = FALSE]
      <3>1. importJob \in [Imports -> JobRows] /\ importJob[i] \in JobRows
        BY OwnImportRows DEF ImportRowsOK
      <3>2. row \in JobRows /\ row.source = importJob[i].source /\ row.matter = importJob[i].matter
        BY <3>1 DEF JobRows
      <3>3. importJob' = [importJob EXCEPT ![i] = row]
        BY <2>3, <3>1
      <3>4. selection' = [selection EXCEPT ![i] = NoSelection]
        BY <2>3 DEF RemoveSelection
      <3> HIDE DEF row
      <3> QED  BY <1>1, <1>2, <2>1, <3>2, <3>3, <3>4, CancelStaysSafe
    <2> QED  BY <1>5, <2>2, <2>3 DEF CancelRemove
  <1>6. CASE CancelStop(i)
    <2>1. PICK req \in CancelRows : cancel' = [cancel EXCEPT ![i] = req] /\ req.pc = "done"
      <3>1. CancelGoto(i, "done")
        BY <1>6 DEF CancelStop, CancelGoto
      <3> QED  BY <3>1, CancelRow
    <2>2. /\ importJob[i] \in JobRows /\ importJob' = [importJob EXCEPT ![i] = importJob[i]]
          /\ selection' = selection
      BY <1>6, OwnImportRows DEF CancelStop, storeVars
    <2> QED  BY <1>1, <1>2, <2>1, <2>2, CancelStaysSafe
  <1> QED  BY <1>3, <1>4, <1>5, <1>6 DEF CancelStep

\* Every step of an import.
LEMMA ImportsStaySafe ==
    ASSUME TypeInv, OrderInv, ImportsInv, ImportNext, UNCHANGED deletionVars
    PROVE  ImportsInv'
  <1>1. ASSUME NEW i \in Imports, ImportStep(i) \/ ImportRestarts(i) \/ ImportGivesUp(i)
        PROVE  ImportsInv'
    BY <1>1, CommitStaysSafe, MovesStaySafe, MarksStaySafe, InsertStaysSafe, RunStaysSafe,
       RemovalStaysSafe, LoadStaysSafe, CompleteReadStaysSafe, FinishStaysSafe DEF ImportStep
  <1>2. ASSUME NEW i \in Imports, NEW k \in Batches,
               ChildStep(i, k) \/ ChildRestarts(i, k) \/ ChildGivesUp(i, k)
        PROVE  ImportsInv'
    BY <1>2, BatchMovesStaySafe, BatchReadsStaySafe, ProgressStaysSafe, ChildCommitStaysSafe DEF ChildStep
  <1> QED  BY <1>1, <1>2, RequestStaysSafe, CancelsStaySafe DEF ImportNext

-----------------------------------------------------------------------------
(* Every step of the composition.                                           *)

\* A step is one of the deletions, which changes nothing else of the imports, or one of the imports.
LEMMA ComposedStep ==
    ASSUME [ComposedNext]_allVars
    PROVE  \/ [DeletionNext]_vars /\ UNCHANGED importVars
           \/ ImportNext /\ UNCHANGED <<collection, artifact, deletionVars>>
  BY ImportsTouchNoArtifacts DEF ComposedNext, allVars, vars

\* It keeps what the deletions keep.
LEMMA ComposedKeepsDeletions ==
    ASSUME DeletionsInv, [ComposedNext]_allVars
    PROVE  DeletionsInv'
  <1>1. CASE [DeletionNext]_vars
    BY <1>1, StepType, StepContent, StepManifest, StepDeduplicates DEF DeletionsInv
  <1> QED  BY <1>1, ComposedStep, DeletionFrame

\* In order, it keeps the invariants of the deletions and of the imports.
LEMMA ComposedKeepsOrder ==
    ASSUME DeletionsInv, OrderInv, ImportsInv, [ComposedNext]_allVars, [InOrder]_allVars
    PROVE  OrderInv' /\ ImportsInv'
  <1>1. TypeInv /\ ContentInv
    BY DEF DeletionsInv
  <1>2. CASE [DeletionNext]_vars /\ UNCHANGED importVars
    <2>1. [InOrder]_vars
      BY DEF allVars, vars
    <2> QED  BY <1>1, <1>2, <2>1, StepOrder, DeletionsKeepImports
  <1>3. CASE ImportNext /\ UNCHANGED <<collection, artifact, deletionVars>>
    <2>1. OrderInv'
      BY <1>3, OrderFrame DEF deletionVars, artifactVars
    <2> QED  BY <1>1, <1>3, <2>1, ImportsStaySafe
  <1> QED  BY <1>2, <1>3, ComposedStep

\* What the deletions keep, whatever they are asked for.
LEMMA ComposedDeletions == ComposedSpec => []DeletionsInv
  BY ComposedStart, ComposedKeepsDeletions, PTL DEF ComposedSpec

\* What deletions in order and imports keep.
LEMMA ComposedInvariant == OrderlyComposition => [](DeletionsInv /\ OrderInv /\ ImportsInv)
  <1>1. ComposedInit => OrderInv /\ ImportsInv
    BY ComposedStart, ImportsInvStart
  <1> QED
    BY ComposedDeletions, ComposedKeepsOrder, <1>1, PTL DEF OrderlyComposition, ComposedSpec

(***************************************************************************)
(* Beside any number of imports, cancels and their faults, a deletion      *)
(* keeps the content of every other artifact, one blob for each content,   *)
(* and a manifest of all that it has still to erase.                       *)
(***************************************************************************)
THEOREM ContentOutlivesImports ==
    ComposedSpec => [](TypeOK /\ ContentRetained /\ OneBlobPerHash /\ ManifestComplete)
  <1>1. DeletionsInv => TypeOK /\ ContentRetained /\ OneBlobPerHash /\ ManifestComplete
    BY TrackedIsRetained, ScheduledIsComplete DEF DeletionsInv, TypeInv
  <1> QED  BY ComposedDeletions, <1>1, PTL

(***************************************************************************)
(* While an import that nobody cancels runs its batches, its collection    *)
(* has lost nothing: the deletion finds either the job, which is active    *)
(* from before the collection is read until after the last batch, or the   *)
(* collection is seen to be deleted.                                       *)
(***************************************************************************)
THEOREM RunningImportsStayWhole == OrderlyComposition => []RunningImportsAreWhole
  <1>1. ImportsInv => RunningImportsAreWhole
    <2> SUFFICES ASSUME ImportsInv, NEW i \in Imports, importJob[i].status = "RUNNING",
                        cancel[i].pc = "idle", NEW a \in Artifacts, CollectionOf[a] = importJob[i].source
                 PROVE  artifact[a] # Removed
      BY DEF RunningImportsAreWhole
    <2>1. Lost(importJob[i].source) = {}
      BY DEF ImportsInv, SafeImport, SourceSafe, Safe
    <2> QED  BY <2>1 DEF Lost
  <1> QED  BY ComposedInvariant, <1>1, PTL

(***************************************************************************)
(* Only an import that has failed, or that a user asked to cancel, leaves  *)
(* a document without its item: what another import has written blocks     *)
(* every later deletion, and what it is about to write blocks the one      *)
(* that runs beside it.                                                    *)
(***************************************************************************)
THEOREM OnlyEndedImportsMayDangle == OrderlyComposition => []OnlyEndedImportsDangle
  <1>1. ImportsInv => OnlyEndedImportsDangle
    <2> SUFFICES ASSUME ImportsInv, NEW d \in Dangling
                 PROVE  importJob[d.by].status = "FAILED" \/ cancel[d.by].pc # "idle"
      BY DEF OnlyEndedImportsDangle
    <2>1. d \in docs /\ artifact[d.item] = Removed /\ d.item \in Artifacts /\ d.by \in Imports
      BY StoreAssumption DEF Dangling, ImportsInv, ImportRowsOK, Document
    <2>2. d.item \in Lost(CollectionOf[d.item])
      BY <2>1 DEF Lost
    <2> QED  BY <2>1, <2>2 DEF ImportsInv, SafeImport, DocumentsSafe, Safe
  <1> QED  BY ComposedInvariant, <1>1, PTL

(***************************************************************************)
(* A completed deletion has left nothing, and its totals count each row    *)
(* and object once, although imports select, mark and drop rows of the     *)
(* collection while it works.                                              *)
(***************************************************************************)
THEOREM DeletionsEndBesideImports == OrderlyComposition => [](CompletedIsGone /\ TotalsExact)
  <1>1. DeletionsInv /\ OrderInv => CompletedIsGone /\ TotalsExact
    BY GoneWhenCompleted, CountedIsExact DEF DeletionsInv
  <1> QED  BY ComposedInvariant, <1>1, PTL

(***************************************************************************)
(* With one deletion, retried by one request at a time and with no fail    *)
(* step that is repeated, the composition is in order whatever the imports *)
(* do: the theorems above hold of every behaviour.                         *)
(***************************************************************************)
THEOREM OneDeletionBesideImports == ASSUME OneDeletion PROVE ComposedSpec => OrderlyComposition
  <1>1. ComposedInit => OrderInv /\ ImportsInv /\ AskedInv
    <2>1. DeletionInit => AskedInv
      BY DEF DeletionInit, AskedInv, IdleRequest
    <2> QED  BY <2>1, ComposedStart, ImportsInvStart DEF ComposedInit
  <1>2. ASSUME DeletionsInv, OrderInv, ImportsInv, AskedInv, [ComposedNext]_allVars
        PROVE  InOrder /\ OrderInv' /\ ImportsInv' /\ AskedInv'
    <2>1. InOrder
      BY <1>2, OneIsInOrder DEF DeletionsInv
    <2>2. AskedInv'
      <3>1. CASE [DeletionNext]_vars
        BY <1>2, <3>1, StepAsked DEF DeletionsInv
      <3>2. CASE UNCHANGED <<collection, artifact, deletionVars>>
        BY <1>2, <3>2 DEF AskedInv, ActiveJobs, deletionVars, artifactVars
      <3> QED  BY <1>2, <3>1, <3>2, ComposedStep
    <2> QED  BY <1>2, <2>1, <2>2, ComposedKeepsOrder
  <1> QED  BY ComposedDeletions, <1>1, <1>2, PTL DEF OrderlyComposition, ComposedSpec
=============================================================================

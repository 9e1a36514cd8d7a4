----------------------- MODULE CollectionDeletionProofs -----------------------
(***************************************************************************)
(* Theorems about CollectionDeletion, for every number of collections,     *)
(* artifacts, blobs, jobs, attempts, requests and faults.                  *)
(***************************************************************************)
EXTENDS CollectionDeletion, FiniteSetTheorems, TLAPS

\* A request that retries or enqueues a job knows the job.
RequestsKnowJobs ==
    \A r \in Requests : request[r].pc \in {"retry", "enqueue"} => request[r].job \in Jobs

\* The type invariant that is inductive.
TypeInv == TypeOK /\ RequestsKnowJobs

-----------------------------------------------------------------------------
(* Lemmas.                                                                  *)

\* A set of artifacts or of blobs has a natural number of elements.
LEMMA SubsetsAreFinite ==
    /\ \A S \in SUBSET Artifacts : Cardinality(S) \in Nat
    /\ \A S \in SUBSET Blobs : Cardinality(S) \in Nat
  BY StoreAssumption, FS_Subset, FS_CardinalityType

\* The blobs of the artifacts of a batch are blobs.
LEMMA UnsharedType ==
    ASSUME NEW batch, batch \subseteq Live
    PROVE  Unshared(batch) \in SUBSET Blobs
  BY DEF Unshared, Live

\* Moving on to another step keeps the type of wf.
LEMMA GotoType ==
    ASSUME TypeOK, NEW j \in Jobs, NEW n \in Attempts, NEW pc \in WorkflowPC, Goto(j, n, pc)
    PROVE  wf' \in [Jobs -> [Attempts -> WorkflowRecord]]
  <1>1. [NoWorkflow EXCEPT !.pc = pc] \in WorkflowRecord
    BY DEF NoWorkflow, WorkflowRecord, NoTotals, Totals
  <1> QED  BY <1>1 DEF TypeOK, Goto

\* Writing the status of a job keeps the types of job and wf.
LEMMA SetStatusType ==
    ASSUME TypeOK, NEW j \in Jobs, NEW n \in Attempts,
           NEW status \in JobStatus, NEW next \in WorkflowPC,
           SetStatus(j, n, status, next)
    PROVE  TypeOK'
  <1>1. wf' \in [Jobs -> [Attempts -> WorkflowRecord]]
    BY GotoType DEF SetStatus, WorkflowPC
  <1>2. [job[j] EXCEPT !.status = status] \in JobRecord
    BY DEF TypeOK, JobRecord
  <1>3. job' \in [Jobs -> JobRecord]
    BY <1>2 DEF SetStatus, TypeOK
  <1> QED  BY <1>1, <1>3 DEF SetStatus, TypeOK, storeVars

\* Marking a job as failed keeps the types of job and collection.
LEMMA FailDeletionType ==
    ASSUME TypeOK, NEW j \in Jobs, FailDeletion(j)
    PROVE  /\ job' \in [Jobs -> JobRecord]
           /\ collection' \in [Collections -> CollectionStatus]
  <1>1. [job[j] EXCEPT !.status = "FAILED"] \in JobRecord
    BY ZenonT(60) DEF TypeOK, JobRecord, JobStatus
  <1>2. job' \in [Jobs -> JobRecord]
    BY <1>1 DEF FailDeletion, TypeOK
  <1>3. collection' \in [Collections -> CollectionStatus]
    BY DEF FailDeletion, TypeOK, CollectionStatus
  <1> QED  BY <1>2, <1>3

\* The transaction that deletes a batch keeps the types of what it writes.
LEMMA DeleteArtifactsType ==
    ASSUME TypeOK, NEW j \in Jobs, NEW n \in Attempts, NEW items \in Nat,
           NEW status \in JobStatus, DeleteArtifacts(j, n, items, status)
    PROVE  /\ artifact' \in [Artifacts -> Blobs \cup {Absent, Removed}]
           /\ blobRow' \in [Blobs -> Hashes \cup {Unwritten, Erased}]
           /\ cleanup' \in [Jobs -> [Blobs -> {"NONE", "PENDING", "DELETED"}]]
           /\ job' \in [Jobs -> JobRecord]
  <1> DEFINE w == wf[j][n]
             done == [items     |-> w.seen.items + items,
                      artifacts |-> w.seen.artifacts + Cardinality(w.batch),
                      blobs     |-> w.seen.blobs + Cardinality(w.blobs),
                      erased    |-> job[j].done.erased]
  <1>1. w \in WorkflowRecord /\ job[j] \in JobRecord
    BY DEF TypeOK
  <1>2. Cardinality(w.batch) \in Nat /\ Cardinality(w.blobs) \in Nat
    BY <1>1, SubsetsAreFinite DEF WorkflowRecord
  <1>3. done \in Totals
    BY <1>1, <1>2 DEF WorkflowRecord, JobRecord, Totals
  <1>4. [job[j] EXCEPT !.status = status, !.done = done] \in JobRecord
    BY <1>1, <1>3 DEF JobRecord
  <1>5. job' = [job EXCEPT ![j] = [job[j] EXCEPT !.status = status, !.done = done]]
    BY DEF DeleteArtifacts, TypeOK, JobRecord
  <1>6. job' \in [Jobs -> JobRecord]
    BY <1>4, <1>5 DEF TypeOK
  <1>7. artifact' \in [Artifacts -> Blobs \cup {Absent, Removed}]
    BY DEF DeleteArtifacts, TypeOK
  <1>8. blobRow' \in [Blobs -> Hashes \cup {Unwritten, Erased}]
    BY DEF DeleteArtifacts, TypeOK
  <1>9. cleanup' \in [Jobs -> [Blobs -> {"NONE", "PENDING", "DELETED"}]]
    BY DEF DeleteArtifacts, TypeOK
  <1> QED  BY <1>6, <1>7, <1>8, <1>9

-----------------------------------------------------------------------------
(* Type correctness.                                                        *)

\* Nothing has been requested at the start.
LEMMA InitType == Init => TypeInv
  <1> SUFFICES ASSUME Init PROVE TypeInv
    OBVIOUS
  <1>1. NoTotals \in Totals /\ NoTotals \in [items : Nat, artifacts : Nat, blobs : Nat, erased : Nat]
    BY DEF NoTotals, Totals
  <1>2. NoJob \in JobRecord
    BY <1>1, DeletionAssumption DEF NoJob, JobRecord, JobStatus
  <1>3. IdleRequest \in RequestRecord
    BY DeletionAssumption DEF IdleRequest, RequestRecord, RequestPC
  <1>4. NoWorkflow \in WorkflowRecord
    BY <1>1 DEF NoWorkflow, WorkflowRecord, WorkflowPC
  <1>5. TypeOK
    BY <1>2, <1>3, <1>4, DeletionAssumption
       DEF Init, StoreInit, NoBlobs, DeletionInit, TypeOK, CollectionStatus
  <1>6. RequestsKnowJobs
    BY DEF Init, DeletionInit, RequestsKnowJobs, IdleRequest
  <1> QED  BY <1>5, <1>6 DEF TypeInv

\* Uploads and text processing runs.
LEMMA UploadType ==
    ASSUME TypeInv,
           \/ UploadNext
           \/ \E c \in Collections : StartTextRun(c) \/ FinishTextRun(c)
    PROVE  TypeInv'
  <1> USE DEF TypeInv, RequestsKnowJobs
  <1>1. ASSUME NEW a \in Artifacts, NEW h \in Hashes, NEW b \in Blobs, UploadBegin(a, h, b)
        PROVE  TypeInv'
    <2>1. object' \in SUBSET Blobs
      BY <1>1 DEF UploadBegin, GetOrCreateBlob, TypeOK
    <2>2. upload' \in [Collections -> UploadRecord \cup {NoUpload}]
      BY <1>1, StoreAssumption DEF UploadBegin, TypeOK, UploadRecord
    <2> QED  BY <1>1, <2>1, <2>2 DEF UploadBegin, TypeOK, storeVars
  <1>2. ASSUME NEW c \in Collections, UploadCommit(c)
        PROVE  TypeInv'
    <2>1. upload[c] \in UploadRecord
      BY <1>2 DEF UploadCommit, TypeOK
    <2>2. artifact' \in [Artifacts -> Blobs \cup {Absent, Removed}]
      BY <1>2, <2>1 DEF UploadCommit, TypeOK, UploadRecord
    <2>3. blobRow' \in [Blobs -> Hashes \cup {Unwritten, Erased}]
      BY <1>2, <2>1 DEF UploadCommit, TypeOK, UploadRecord
    <2>4. upload' \in [Collections -> UploadRecord \cup {NoUpload}]
      BY <1>2 DEF UploadCommit, TypeOK
    <2> QED  BY <1>2, <2>2, <2>3, <2>4 DEF UploadCommit, TypeOK
  <1>3. ASSUME NEW c \in Collections, UploadRollback(c)
        PROVE  TypeInv'
    BY <1>3 DEF UploadRollback, TypeOK, storeVars
  <1>4. ASSUME NEW c \in Collections, StartTextRun(c) \/ FinishTextRun(c)
        PROVE  TypeInv'
    BY <1>4 DEF StartTextRun, FinishTextRun, TypeOK, storeVars
  <1> QED  BY <1>1, <1>2, <1>3, <1>4 DEF UploadNext

\* The API requests.
LEMMA RequestType ==
    ASSUME TypeInv, NEW r \in Requests, RequestNext(r)
    PROVE  TypeInv'
  <1> USE DEF TypeInv
  <1>0. /\ request[r] \in RequestRecord
        /\ IdleRequest \in RequestRecord
        /\ IdleRequest.pc = "idle"
    BY DeletionAssumption DEF TypeOK, IdleRequest, RequestRecord, RequestPC
  <1>1. ASSUME NEW c \in Collections, DeleteRequest(r, c)
        PROVE  TypeInv'
    <2>1. [IdleRequest EXCEPT !.pc = "create", !.target = c] \in RequestRecord
      BY <1>0 DEF RequestRecord, RequestPC
    <2>2. [IdleRequest EXCEPT !.pc = "create", !.target = c].pc = "create"
      BY DEF IdleRequest
    <2>3. TypeOK'
      BY <1>1, <2>1 DEF DeleteRequest, TypeOK, storeVars, artifactVars
    <2>4. RequestsKnowJobs'
      BY <1>1, <2>2 DEF DeleteRequest, TypeOK, RequestsKnowJobs
    <2> QED  BY <2>3, <2>4
  <1>2. CASE FindJob(r)
    <2>1. PICK j \in Jobs : request' = [request EXCEPT ![r].pc = "enqueue", ![r].job = j,
                                                       ![r].attempt = job[j].attempt]
      BY <1>2 DEF FindJob, ActiveJobs
    <2> DEFINE q == [request[r] EXCEPT !.pc = "enqueue", !.job = j, !.attempt = job[j].attempt]
    <2>2. job[j] \in JobRecord /\ j \in 0..MaxJobs
      BY DeletionAssumption DEF TypeOK, Jobs
    <2>3. q \in RequestRecord /\ q.job \in Jobs
      BY <1>0, <2>2 DEF RequestRecord, RequestPC, JobRecord
    <2>4. request' = [request EXCEPT ![r] = q]
      BY <2>1 DEF TypeOK
    <2>5. TypeOK'
      BY <1>2, <2>3, <2>4 DEF FindJob, TypeOK, storeVars, artifactVars
    <2>6. RequestsKnowJobs'
      BY <2>3, <2>4 DEF TypeOK, RequestsKnowJobs
    <2> QED  BY <2>5, <2>6
  <1>3. CASE CreateJob(r)
    <2>1. PICK j \in Jobs :
             /\ job' = [job EXCEPT ![j] = [status |-> "QUEUED", target |-> request[r].target,
                                           attempt |-> 1, done |-> NoTotals]]
             /\ request' = [request EXCEPT ![r].pc = "enqueue", ![r].job = j, ![r].attempt = 1]
      BY <1>3 DEF CreateJob
    <2> DEFINE q == [request[r] EXCEPT !.pc = "enqueue", !.job = j, !.attempt = 1]
    <2>2. j \in 0..MaxJobs /\ 1 \in 0..MaxAttempts
      BY DeletionAssumption DEF Jobs
    <2>3. q \in RequestRecord /\ q.job \in Jobs
      BY <1>0, <2>2 DEF RequestRecord, RequestPC
    <2>4. request' = [request EXCEPT ![r] = q]
      BY <2>1 DEF TypeOK
    <2>5. [status |-> "QUEUED", target |-> request[r].target,
           attempt |-> 1, done |-> NoTotals] \in JobRecord
      BY <1>0, <2>2 DEF JobRecord, JobStatus, RequestRecord, NoTotals, Totals
    <2>6. job' \in [Jobs -> JobRecord]
      BY <2>1, <2>5 DEF TypeOK
    <2>7. collection' \in [Collections -> CollectionStatus]
      BY <1>3 DEF CreateJob, TypeOK, CollectionStatus
    <2>8. TypeOK'
      BY <1>3, <2>3, <2>4, <2>6, <2>7 DEF CreateJob, TypeOK
    <2>9. RequestsKnowJobs'
      BY <2>3, <2>4 DEF TypeOK, RequestsKnowJobs
    <2> QED  BY <2>8, <2>9
  <1>4. CASE RefuseJob(r) \/ RefuseRetry(r) \/ RequestDies(r)
    <2>1. /\ request' = [request EXCEPT ![r] = IdleRequest]
          /\ UNCHANGED <<storeVars, artifactVars, wf>>
          /\ faults' \in 0..MaxFaults
      BY <1>4, DeletionAssumption DEF RefuseJob, RefuseRetry, RequestDies, Fault, TypeOK
    <2>2. TypeOK'
      BY <1>0, <2>1 DEF TypeOK, storeVars, artifactVars
    <2>3. RequestsKnowJobs'
      BY <1>0, <2>1 DEF TypeOK, RequestsKnowJobs
    <2> QED  BY <2>2, <2>3
  <1>5. ASSUME NEW j \in Jobs, RetryRequest(r, j)
        PROVE  TypeInv'
    <2> DEFINE q == [IdleRequest EXCEPT !.pc = "retry", !.job = j]
    <2>1. j \in 0..MaxJobs
      BY DeletionAssumption DEF Jobs
    <2>2. q \in RequestRecord
      BY <1>0, <2>1 DEF RequestRecord, RequestPC
    <2>3. q.job = j
      BY DEF IdleRequest
    <2>4. request' = [request EXCEPT ![r] = q]
      BY <1>5 DEF RetryRequest
    <2>5. TypeOK'
      BY <1>5, <2>2, <2>4 DEF RetryRequest, TypeOK, storeVars, artifactVars
    <2>6. RequestsKnowJobs'
      BY <2>3, <2>4 DEF TypeOK, RequestsKnowJobs
    <2> QED  BY <2>5, <2>6
  <1>6. CASE RetryJob(r)
    <2> DEFINE j == request[r].job
               q == [request[r] EXCEPT !.pc = "enqueue", !.attempt = job[j].attempt + 1]
               row == [job[j] EXCEPT !.status = "QUEUED", !.attempt = @ + 1]
    <2>1. j \in Jobs
      BY <1>6 DEF RetryJob, RequestsKnowJobs
    <2>2. job[j] \in JobRecord
      BY <2>1 DEF TypeOK
    <2>3. job[j].attempt + 1 \in 0..MaxAttempts
      BY <1>6, <2>2, DeletionAssumption DEF RetryJob, JobRecord
    <2>4. row \in JobRecord
      BY <2>2, <2>3 DEF JobRecord, JobStatus
    <2>5. job' = [job EXCEPT ![j] = row]
      BY <1>6, <2>1 DEF RetryJob, TypeOK
    <2>6. job' \in [Jobs -> JobRecord]
      BY <2>4, <2>5 DEF TypeOK
    <2>7. q \in RequestRecord /\ q.job \in Jobs
      BY <1>0, <2>1, <2>3 DEF RequestRecord, RequestPC
    <2>8. request' = [request EXCEPT ![r] = q]
      BY <1>6 DEF RetryJob, TypeOK
    <2>9. collection' \in [Collections -> CollectionStatus]
      BY <1>6 DEF RetryJob, TypeOK, CollectionStatus
    <2>10. TypeOK'
      BY SMTT(30), <1>6, <2>6, <2>7, <2>8, <2>9 DEF RetryJob, TypeOK
    <2>11. RequestsKnowJobs'
      BY <2>7, <2>8 DEF TypeOK, RequestsKnowJobs
    <2> QED  BY <2>10, <2>11
  <1>7. CASE Enqueue(r)
    <2>1. request' = [request EXCEPT ![r] = IdleRequest]
      BY <1>7 DEF Enqueue
    <2>2. \A w \in WorkflowRecord : [w EXCEPT !.pc = "validate"] \in WorkflowRecord
      BY DEF WorkflowRecord, WorkflowPC
    <2>3. wf' \in [Jobs -> [Attempts -> WorkflowRecord]]
      <3> DEFINE j == request[r].job
                 n == request[r].attempt
      <3>1. CASE wf' = wf
        BY <3>1 DEF TypeOK
      <3>2. CASE wf' = [wf EXCEPT ![j][n].pc = "validate"]
        <4>1. CASE j \in Jobs /\ n \in Attempts
          <5>1. [wf[j][n] EXCEPT !.pc = "validate"] \in WorkflowRecord
            BY <2>2, <4>1 DEF TypeOK
          <5> QED  BY <3>2, <4>1, <5>1 DEF TypeOK
        <4>2. CASE ~ (j \in Jobs /\ n \in Attempts)
          BY <3>2, <4>2 DEF TypeOK
        <4> QED  BY <4>1, <4>2
      <3> QED  BY <1>7, <3>1, <3>2 DEF Enqueue
    <2>4. TypeOK'
      BY <1>0, <1>7, <2>1, <2>3 DEF Enqueue, TypeOK, storeVars, artifactVars
    <2>5. RequestsKnowJobs'
      BY <1>0, <2>1 DEF TypeOK, RequestsKnowJobs
    <2> QED  BY <2>4, <2>5
  <1>8. CASE EnqueueFails(r)
    <2>1. request' = [request EXCEPT ![r] = IdleRequest]
      BY <1>8 DEF EnqueueFails
    <2>2. /\ job' \in [Jobs -> JobRecord]
          /\ collection' \in [Collections -> CollectionStatus]
      BY <1>8, FailDeletionType DEF EnqueueFails, RequestsKnowJobs
    <2>3. faults' \in 0..MaxFaults
      BY <1>8, DeletionAssumption DEF EnqueueFails, Fault, TypeOK
    <2>4. TypeOK'
      BY <1>0, <1>8, <2>1, <2>2, <2>3 DEF EnqueueFails, TypeOK
    <2>5. RequestsKnowJobs'
      BY <1>0, <2>1 DEF TypeOK, RequestsKnowJobs
    <2> QED  BY <2>4, <2>5
  <1> QED  BY <1>1, <1>2, <1>3, <1>4, <1>5, <1>6, <1>7, <1>8 DEF RequestNext

\* The steps of the workflow.
LEMMA WorkflowType ==
    ASSUME TypeInv, NEW j \in Jobs, NEW n \in Attempts,
           WorkflowStep(j, n) \/ WorkflowFault(j, n)
    PROVE  TypeInv'
  <1> USE DEF TypeInv
  <1>1. SUFFICES TypeOK'
    <2>1. request' = request
      BY DEF WorkflowStep, WorkflowFault, Validate, CheckBlockers, Prepare, SetStatus, ReadItems,
             CommitItems, ReadRecord, CommitRecord, BatchConflict, ReadBlobs, EraseObject,
             MarkBlobs, Complete, Fail, StepGivesUp, StepRestarts, StepReplays, FailReplays
    <2> QED  BY <2>1 DEF RequestsKnowJobs
  <1>2. CASE \/ CheckBlockers(j, n) \/ BatchConflict(j, n)
             \/ StepGivesUp(j, n) \/ StepRestarts(j, n) \/ StepReplays(j, n) \/ FailReplays(j, n)
    <2>1. /\ UNCHANGED <<storeVars, artifactVars, request>>
          /\ faults' \in 0..MaxFaults
          /\ \E pc \in WorkflowPC : Goto(j, n, pc)
      BY <1>2, DeletionAssumption
         DEF CheckBlockers, BatchConflict, StepGivesUp, StepRestarts, StepReplays, FailReplays,
             Fault, WorkflowPC, TypeOK
    <2>2. wf' \in [Jobs -> [Attempts -> WorkflowRecord]]
      BY <2>1, GotoType
    <2> QED  BY <2>1, <2>2 DEF TypeOK, storeVars, artifactVars
  <1>3. CASE Validate(j, n) \/ Prepare(j, n)
    <2>1. CASE job[j].status = "COMPLETED"
      <3>1. wf' \in [Jobs -> [Attempts -> WorkflowRecord]]
        BY <1>3, <2>1, GotoType DEF Validate, Prepare, WorkflowPC
      <3> QED  BY <1>3, <2>1, <3>1 DEF Validate, Prepare, TypeOK, storeVars, artifactVars
    <2>2. CASE job[j].status # "COMPLETED"
      BY <1>3, <2>2, SetStatusType DEF Validate, Prepare, WorkflowPC, JobStatus
    <2> QED  BY <2>1, <2>2
  <1>4. ASSUME NEW batch \in SUBSET Live, NEW pc \in WorkflowPC, ReadBatch(j, n, batch, pc)
        PROVE  wf' \in [Jobs -> [Attempts -> WorkflowRecord]]
    <2>1. batch \in SUBSET Artifacts /\ Unshared(batch) \in SUBSET Blobs
      BY UnsharedType DEF Live
    <2>2. job[j].done \in Totals
      BY DEF TypeOK, JobRecord
    <2>3. [pc |-> pc, batch |-> batch, blobs |-> Unshared(batch), seen |-> job[j].done]
             \in WorkflowRecord
      BY <2>1, <2>2 DEF WorkflowRecord
    <2> QED  BY <1>4, <2>3 DEF ReadBatch, TypeOK
  <1>5. CASE ReadItems(j, n)
    <2>1. wf' \in [Jobs -> [Attempts -> WorkflowRecord]]
      <3>1. CASE Goto(j, n, "record")
        BY <3>1, GotoType DEF WorkflowPC
      <3>2. ASSUME NEW batch \in SUBSET ItemsOf(job[j].target),
                   ReadBatch(j, n, batch, "items_commit")
            PROVE  wf' \in [Jobs -> [Attempts -> WorkflowRecord]]
        BY <1>4, <3>2 DEF ItemsOf, WorkflowPC
      <3> QED  BY <1>5, <3>1, <3>2 DEF ReadItems
    <2> QED  BY <1>5, <2>1 DEF ReadItems, TypeOK, storeVars, artifactVars
  <1>6. CASE CommitItems(j, n)
    <2>1. Cardinality(wf[j][n].batch) \in Nat /\ job[j].status \in JobStatus
      BY SubsetsAreFinite DEF TypeOK, WorkflowRecord, JobRecord
    <2>2. /\ artifact' \in [Artifacts -> Blobs \cup {Absent, Removed}]
          /\ blobRow' \in [Blobs -> Hashes \cup {Unwritten, Erased}]
          /\ cleanup' \in [Jobs -> [Blobs -> {"NONE", "PENDING", "DELETED"}]]
          /\ job' \in [Jobs -> JobRecord]
      BY <1>6, <2>1, DeleteArtifactsType DEF CommitItems
    <2>3. wf' \in [Jobs -> [Attempts -> WorkflowRecord]]
      BY <1>6, GotoType DEF CommitItems, WorkflowPC
    <2> QED  BY <1>6, <2>2, <2>3 DEF CommitItems, TypeOK
  <1>7. CASE ReadRecord(j, n)
    <2>1. CASE SetStatus(j, n, "DELETING_BLOBS", "blobs")
      BY <2>1, SetStatusType DEF WorkflowPC, JobStatus
    <2>2. CASE UNCHANGED <<storeVars, artifactVars, request, faults>>
      <3>1. wf' \in [Jobs -> [Attempts -> WorkflowRecord]]
        <4>1. CASE Goto(j, n, "fail")
          BY <4>1, GotoType DEF WorkflowPC
        <4>2. CASE ReadBatch(j, n, ContainersOf(job[j].target), "record_commit")
          BY <1>4, <4>2 DEF ContainersOf, WorkflowPC
        <4>3. CASE SetStatus(j, n, "DELETING_BLOBS", "blobs")
          BY <4>3, SetStatusType DEF WorkflowPC, JobStatus, TypeOK
        <4> QED  BY <1>7, <4>1, <4>2, <4>3 DEF ReadRecord
      <3> QED  BY <2>2, <3>1 DEF TypeOK, storeVars, artifactVars
    <2> QED  BY <1>7, <2>1, <2>2 DEF ReadRecord
  <1>8. CASE CommitRecord(j, n)
    <2>1. /\ artifact' \in [Artifacts -> Blobs \cup {Absent, Removed}]
          /\ blobRow' \in [Blobs -> Hashes \cup {Unwritten, Erased}]
          /\ cleanup' \in [Jobs -> [Blobs -> {"NONE", "PENDING", "DELETED"}]]
          /\ job' \in [Jobs -> JobRecord]
      BY <1>8, DeleteArtifactsType DEF CommitRecord, JobStatus
    <2>2. wf' \in [Jobs -> [Attempts -> WorkflowRecord]]
      BY <1>8, GotoType DEF CommitRecord, WorkflowPC
    <2>3. /\ collection' \in [Collections -> CollectionStatus]
          /\ textRun' \in SUBSET Collections
      BY <1>8 DEF CommitRecord, TypeOK, CollectionStatus
    <2> QED  BY <1>8, <2>1, <2>2, <2>3 DEF CommitRecord, TypeOK
  <1>9. CASE ReadBlobs(j, n)
    <2>1. ASSUME NEW batch \in SUBSET Blobs
          PROVE  [NoWorkflow EXCEPT !.pc = "erasing", !.blobs = batch, !.seen = job[j].done]
                    \in WorkflowRecord
      <3>1. job[j].done \in Totals
        BY DEF TypeOK, JobRecord
      <3> QED  BY <3>1 DEF NoWorkflow, WorkflowRecord, WorkflowPC
    <2>2. wf' \in [Jobs -> [Attempts -> WorkflowRecord]]
      <3>1. CASE Goto(j, n, "complete")
        BY <3>1, GotoType DEF WorkflowPC
      <3>2. ASSUME NEW batch \in SUBSET Blobs,
                   wf' = [wf EXCEPT ![j][n] = [NoWorkflow EXCEPT
                             !.pc = "erasing", !.blobs = batch, !.seen = job[j].done]]
            PROVE  wf' \in [Jobs -> [Attempts -> WorkflowRecord]]
        BY <2>1, <3>2 DEF TypeOK
      <3> QED  BY <1>9, <3>1, <3>2 DEF ReadBlobs, Pending
    <2> QED  BY <1>9, <2>2 DEF ReadBlobs, TypeOK, storeVars, artifactVars
  <1>10. ASSUME NEW b \in Blobs, EraseObject(j, n, b)
         PROVE  TypeOK'
    BY <1>10 DEF EraseObject, TypeOK, storeVars
  <1>11. CASE MarkBlobs(j, n)
    <2> DEFINE w == wf[j][n]
               done == [job[j].done EXCEPT !.erased = w.seen.erased + Cardinality(w.blobs)]
    <2>1. w \in WorkflowRecord /\ job[j] \in JobRecord
      BY DEF TypeOK
    <2>2. done \in Totals
      BY <2>1, SubsetsAreFinite DEF WorkflowRecord, JobRecord, Totals
    <2>3. [job[j] EXCEPT !.done = done] \in JobRecord
      BY <2>1, <2>2 DEF JobRecord
    <2>4. job' = [job EXCEPT ![j] = [job[j] EXCEPT !.done = done]]
      BY <1>11, <2>1 DEF MarkBlobs, TypeOK, JobRecord, Totals
    <2>5. job' \in [Jobs -> JobRecord]
      BY <2>3, <2>4 DEF TypeOK
    <2>6. cleanup' \in [Jobs -> [Blobs -> {"NONE", "PENDING", "DELETED"}]]
      BY <1>11 DEF MarkBlobs, TypeOK
    <2>7. wf' \in [Jobs -> [Attempts -> WorkflowRecord]]
      BY <1>11, GotoType DEF MarkBlobs, WorkflowPC
    <2> QED  BY <1>11, <2>5, <2>6, <2>7 DEF MarkBlobs, TypeOK, storeVars
  <1>12. CASE Complete(j, n)
    <2>1. wf' \in [Jobs -> [Attempts -> WorkflowRecord]]
      BY <1>12, GotoType DEF Complete, WorkflowPC
    <2>2. CASE Pending(j) # {}
      BY <1>12, <2>1, <2>2 DEF Complete, TypeOK, storeVars
    <2>3. CASE Pending(j) = {}
      <3>1. [job[j] EXCEPT !.status = "COMPLETED"] \in JobRecord
        BY ZenonT(60) DEF TypeOK, JobRecord, JobStatus
      <3>2. job' \in [Jobs -> JobRecord]
        BY <1>12, <2>3, <3>1 DEF Complete, TypeOK
      <3>3. cleanup' \in [Jobs -> [Blobs -> {"NONE", "PENDING", "DELETED"}]]
        <4>1. cleanup' = [cleanup EXCEPT ![j] = [b \in Blobs |-> "NONE"]]
          BY <1>12, <2>3 DEF Complete
        <4> QED  BY <4>1 DEF TypeOK
      <3> QED  BY <1>12, <2>1, <3>2, <3>3 DEF Complete, TypeOK, storeVars
    <2> QED  BY <2>2, <2>3
  <1>13. CASE Fail(j, n)
    <2>1. /\ job' \in [Jobs -> JobRecord]
          /\ collection' \in [Collections -> CollectionStatus]
      BY <1>13, FailDeletionType DEF Fail
    <2>2. wf' \in [Jobs -> [Attempts -> WorkflowRecord]]
      BY <1>13, GotoType DEF Fail, WorkflowPC
    <2> QED  BY <1>13, <2>1, <2>2 DEF Fail, TypeOK
  <1> QED
    BY <1>2, <1>3, <1>5, <1>6, <1>7, <1>8, <1>9, <1>10, <1>11, <1>12, <1>13
       DEF WorkflowStep, WorkflowFault

\* Every step keeps the types.
LEMMA StepType ==
    ASSUME TypeInv, [DeletionNext]_vars
    PROVE  TypeInv'
  <1>1. CASE UNCHANGED vars
    BY <1>1 DEF vars, storeVars, deletionVars, artifactVars, TypeInv, TypeOK, RequestsKnowJobs
  <1>2. CASE DeletionNext
    BY <1>2, UploadType, RequestType, WorkflowType DEF DeletionNext
  <1> QED  BY <1>1, <1>2

\* The types, and that a request which retries or enqueues a deletion knows its job.
LEMMA TypeInvariant == Spec => []TypeInv
  <1>1. TypeInv /\ [DeletionNext]_vars => TypeInv'
    BY StepType
  <1> QED  BY InitType, <1>1, PTL DEF Spec

(***************************************************************************)
(* Type correctness: every column, key and program counter holds a value   *)
(* that the code can store there.                                          *)
(***************************************************************************)
THEOREM TypeCorrect == Spec => []TypeOK
  <1>1. TypeInv => TypeOK
    BY DEF TypeInv
  <1> QED  BY TypeInvariant, <1>1, PTL

-----------------------------------------------------------------------------
(* Content is retained.                                                     *)

\* An artifact in the database refers to a blob in the database.
ArtifactsHaveBlobs == \A a \in Live : blobRow[artifact[a]] \in Hashes

\* A blob in the database has its object.
BlobsHaveObjects == \A b \in Blobs : blobRow[b] \in Hashes => b \in object

\* An upload has put the object of a blob before it inserts the row.
UploadsHaveObjects ==
    \A c \in Collections :
        upload[c] # NoUpload /\ blobRow[upload[c].blob] = Unwritten => upload[c].blob \in object

\* What is scheduled to be erased has no row any more.
ScheduledIsErased ==
    \A j \in Jobs, b \in Blobs : cleanup[j][b] # "NONE" => blobRow[b] = Erased

\* What a step is erasing has no row any more.
ErasingIsErased ==
    \A j \in Jobs, n \in Attempts :
        wf[j][n].pc = "erasing" => \A b \in wf[j][n].blobs : blobRow[b] = Erased

\* Where the content of what is stored, uploaded or scheduled is.
ContentInv ==
    /\ ArtifactsHaveBlobs
    /\ BlobsHaveObjects
    /\ UploadsHaveObjects
    /\ ScheduledIsErased
    /\ ErasingIsErased

\* An empty store has nothing to account for.
LEMMA InitContent == Init => ContentInv
  <1> SUFFICES ASSUME Init PROVE ContentInv
    OBVIOUS
  <1>1. Live = {}
    BY StoreAssumption DEF Init, StoreInit, Live
  <1>2. \A b \in Blobs : blobRow[b] \notin Hashes
    BY DeletionAssumption DEF Init, NoBlobs
  <1> QED
    BY <1>1, <1>2
       DEF Init, DeletionInit, ContentInv, ArtifactsHaveBlobs, BlobsHaveObjects,
           UploadsHaveObjects, ScheduledIsErased, ErasingIsErased, NoWorkflow

\* A step that changes neither artifacts, blobs, objects, the manifest nor uploads.
LEMMA ContentFrame ==
    ASSUME ContentInv, UNCHANGED <<artifact, blobRow, object, cleanup, upload>>,
           ErasingIsErased'
    PROVE  ContentInv'
  BY DEF ContentInv, ArtifactsHaveBlobs, BlobsHaveObjects, UploadsHaveObjects,
         ScheduledIsErased, Live

\* Moving on to a step that is not erasing, when no erased row comes back.
LEMMA GotoErasing ==
    ASSUME TypeOK, ErasingIsErased,
           NEW j \in Jobs, NEW n \in Attempts, NEW pc \in WorkflowPC, pc # "erasing",
           Goto(j, n, pc),
           \A b \in Blobs : blobRow[b] = Erased => blobRow'[b] = Erased
    PROVE  ErasingIsErased'
  <1> SUFFICES ASSUME NEW k \in Jobs, NEW m \in Attempts, wf'[k][m].pc = "erasing",
                      NEW b \in wf'[k][m].blobs
               PROVE  blobRow'[b] = Erased
    BY DEF ErasingIsErased
  <1>1. wf' = [wf EXCEPT ![j][n] = [NoWorkflow EXCEPT !.pc = pc]]
    BY DEF Goto
  <1>2. [NoWorkflow EXCEPT !.pc = pc].pc = pc
    BY DEF NoWorkflow
  <1>3. wf'[k][m] = wf[k][m]
    BY <1>1, <1>2 DEF TypeOK
  <1>4. wf[k][m].blobs \in SUBSET Blobs
    BY DEF TypeOK, WorkflowRecord
  <1> QED  BY <1>3, <1>4 DEF ErasingIsErased

(***************************************************************************)
(* The transaction that deletes a batch: the foreign key has made sure     *)
(* that what it erases is not referred to by anything it leaves.           *)
(***************************************************************************)
LEMMA DeleteArtifactsContent ==
    ASSUME TypeOK, ContentInv, NEW j \in Jobs, NEW n \in Attempts, NEW items, NEW status,
           NEW pc \in WorkflowPC, pc # "erasing",
           Deletable(j, n), DeleteArtifacts(j, n, items, status), Goto(j, n, pc),
           UNCHANGED <<object, upload>>
    PROVE  ContentInv'
  <1> DEFINE w == wf[j][n]
  <1>1. /\ artifact' = [a \in Artifacts |-> IF a \in w.batch THEN Removed ELSE artifact[a]]
        /\ blobRow' = [b \in Blobs |-> IF b \in w.blobs THEN Erased ELSE blobRow[b]]
        /\ cleanup' = [cleanup EXCEPT ![j] =
                          [b \in Blobs |-> IF b \in w.blobs THEN "PENDING" ELSE cleanup[j][b]]]
    BY DEF DeleteArtifacts, TypeOK
  <1>2. ArtifactsHaveBlobs'
    <2> SUFFICES ASSUME NEW a \in Live' PROVE blobRow'[artifact'[a]] \in Hashes
      BY DEF ArtifactsHaveBlobs
    <2>1. a \in Live \ w.batch /\ artifact'[a] = artifact[a]
      BY <1>1, StoreAssumption DEF Live
    <2>2. artifact[a] \in Blobs \ w.blobs
      BY <2>1 DEF Deletable, Live
    <2> QED  BY <1>1, <2>1, <2>2 DEF ContentInv, ArtifactsHaveBlobs
  <1>3. BlobsHaveObjects'
    BY <1>1, DeletionAssumption DEF ContentInv, BlobsHaveObjects
  <1>4. UploadsHaveObjects'
    <2> SUFFICES ASSUME NEW c \in Collections, upload[c] # NoUpload,
                        blobRow'[upload[c].blob] = Unwritten
                 PROVE  upload[c].blob \in object
      BY DEF UploadsHaveObjects
    <2>1. upload[c].blob \in Blobs
      BY DEF TypeOK, UploadRecord
    <2>2. blobRow[upload[c].blob] = Unwritten
      BY <1>1, <2>1, DeletionAssumption
    <2> QED  BY <2>2 DEF ContentInv, UploadsHaveObjects
  <1>5. ScheduledIsErased'
    BY <1>1 DEF ContentInv, ScheduledIsErased, TypeOK
  <1>6. ErasingIsErased'
    BY <1>1, GotoErasing DEF ContentInv
  <1> QED  BY <1>2, <1>3, <1>4, <1>5, <1>6 DEF ContentInv

\* An upload puts its object before its row, and its row before the artifact.
LEMMA UploadContent ==
    ASSUME TypeInv, ContentInv, UploadNext
    PROVE  ContentInv'
  <1> USE DEF TypeInv
  <1>1. ASSUME NEW a \in Artifacts, NEW h \in Hashes, NEW b \in Blobs, UploadBegin(a, h, b)
        PROVE  ContentInv'
    <2>1. /\ UNCHANGED <<artifact, blobRow, cleanup, wf>>
          /\ object \subseteq object'
          /\ upload' = [upload EXCEPT ![CollectionOf[a]] =
                           [artifact |-> a, hash |-> h, blob |-> b]]
          /\ blobRow[b] = Unwritten => b \in object'
      BY <1>1, DeletionAssumption DEF UploadBegin, GetOrCreateBlob, storeVars
    <2>2. UploadsHaveObjects'
      BY <2>1 DEF ContentInv, UploadsHaveObjects, TypeOK
    <2> QED
      BY <2>1, <2>2
         DEF ContentInv, ArtifactsHaveBlobs, BlobsHaveObjects, ScheduledIsErased,
             ErasingIsErased, Live
  <1>2. ASSUME NEW c \in Collections, UploadCommit(c)
        PROVE  ContentInv'
    <2> DEFINE u == upload[c]
    <2>1. u \in UploadRecord /\ u.blob \in Blobs /\ u.hash \in Hashes /\ u.artifact \in Artifacts
      BY <1>2 DEF UploadCommit, TypeOK, UploadRecord
    <2>2. /\ artifact' = [artifact EXCEPT ![u.artifact] = u.blob]
          /\ blobRow' = [blobRow EXCEPT ![u.blob] = u.hash]
          /\ upload' = [upload EXCEPT ![c] = NoUpload]
          /\ UNCHANGED <<object, cleanup, wf>>
          /\ blobRow[u.blob] = u.hash \/ blobRow[u.blob] = Unwritten
      BY <1>2 DEF UploadCommit
    <2>3. u.blob \in object
      BY <1>2, <2>1, <2>2
         DEF UploadCommit, ContentInv, BlobsHaveObjects, UploadsHaveObjects
    <2>4. \A b \in Blobs : blobRow[b] = Erased => blobRow'[b] = Erased
      BY <2>1, <2>2, DeletionAssumption DEF TypeOK
    <2>5. ArtifactsHaveBlobs'
      BY <2>1, <2>2 DEF ContentInv, ArtifactsHaveBlobs, Live, TypeOK
    <2>6. BlobsHaveObjects'
      BY <2>1, <2>2, <2>3 DEF ContentInv, BlobsHaveObjects, TypeOK
    <2>7. UploadsHaveObjects'
      <3> SUFFICES ASSUME NEW d \in Collections, upload'[d] # NoUpload,
                          blobRow'[upload'[d].blob] = Unwritten
                   PROVE  upload'[d].blob \in object'
        BY DEF UploadsHaveObjects
      <3>1. upload'[d] = upload[d] /\ upload[d] # NoUpload
        BY <2>2 DEF TypeOK
      <3>2. upload[d].blob \in Blobs
        BY <3>1 DEF TypeOK, UploadRecord
      <3>3. blobRow[upload[d].blob] = Unwritten
        BY <2>1, <2>2, <3>1, <3>2, DeletionAssumption DEF TypeOK
      <3> QED  BY <2>2, <3>1, <3>3 DEF ContentInv, UploadsHaveObjects
    <2>8. ScheduledIsErased'
      BY <2>2, <2>4 DEF ContentInv, ScheduledIsErased
    <2>9. ErasingIsErased'
      BY <2>2, <2>4 DEF ContentInv, ErasingIsErased, TypeOK, WorkflowRecord
    <2> QED  BY <2>5, <2>6, <2>7, <2>8, <2>9 DEF ContentInv
  <1>3. ASSUME NEW c \in Collections, UploadRollback(c)
        PROVE  ContentInv'
    <2>1. /\ UNCHANGED <<artifact, blobRow, object, cleanup, wf>>
          /\ upload' = [upload EXCEPT ![c] = NoUpload]
      BY <1>3 DEF UploadRollback, storeVars
    <2> QED
      BY <2>1
         DEF ContentInv, ArtifactsHaveBlobs, BlobsHaveObjects, UploadsHaveObjects,
             ScheduledIsErased, ErasingIsErased, Live, TypeOK
  <1> QED  BY <1>1, <1>2, <1>3 DEF UploadNext

\* Requests and text processing runs do not touch contents; they start workflows.
LEMMA RequestContent ==
    ASSUME TypeInv, ContentInv,
           \/ \E c \in Collections : StartTextRun(c) \/ FinishTextRun(c)
           \/ \E r \in Requests : RequestNext(r)
    PROVE  ContentInv'
  <1> USE DEF TypeInv
  <1>1. UNCHANGED <<artifact, blobRow, object, cleanup, upload>>
    BY ZenonT(60) DEF StartTextRun, FinishTextRun, RequestNext, DeleteRequest, FindJob, CreateJob, RefuseJob,
           RetryRequest, RetryJob, RefuseRetry, Enqueue, EnqueueFails, RequestDies,
           storeVars, artifactVars
  <1>2. ErasingIsErased'
    <2>1. CASE wf' = wf
      BY <1>1, <2>1 DEF ContentInv, ErasingIsErased
    <2>2. ASSUME NEW j, NEW n, wf' = [wf EXCEPT ![j][n].pc = "validate"]
          PROVE  ErasingIsErased'
      <3> SUFFICES ASSUME NEW k \in Jobs, NEW m \in Attempts, wf'[k][m].pc = "erasing",
                          NEW b \in wf'[k][m].blobs
                   PROVE  blobRow[b] = Erased
        BY <1>1 DEF ErasingIsErased
      <3>1. wf'[k][m] = wf[k][m] \/ wf'[k][m] = [wf[k][m] EXCEPT !.pc = "validate"]
        BY <2>2 DEF TypeOK
      <3>2. [wf[k][m] EXCEPT !.pc = "validate"].pc = "validate"
        BY DEF TypeOK, WorkflowRecord
      <3>3. wf'[k][m] = wf[k][m]
        BY <3>1, <3>2
      <3> QED  BY <3>3 DEF ContentInv, ErasingIsErased
    <2> QED
      BY ZenonT(60), <2>1, <2>2
         DEF StartTextRun, FinishTextRun, RequestNext, DeleteRequest, FindJob, CreateJob,
             RefuseJob, RetryRequest, RetryJob, RefuseRetry, Enqueue, EnqueueFails, RequestDies
  <1> QED  BY <1>1, <1>2, ContentFrame

\* The workflow erases only what no row refers to.
LEMMA WorkflowContent ==
    ASSUME TypeInv, ContentInv, NEW j \in Jobs, NEW n \in Attempts,
           WorkflowStep(j, n) \/ WorkflowFault(j, n)
    PROVE  ContentInv'
  <1> USE DEF TypeInv
  <1>1. CASE \/ Validate(j, n) \/ CheckBlockers(j, n) \/ Prepare(j, n) \/ BatchConflict(j, n)
             \/ Fail(j, n)
             \/ StepGivesUp(j, n) \/ StepRestarts(j, n) \/ StepReplays(j, n) \/ FailReplays(j, n)
    <2>1. /\ UNCHANGED <<artifact, blobRow, object, cleanup, upload>>
          /\ \E pc \in WorkflowPC \ {"erasing"} : Goto(j, n, pc)
      BY <1>1
         DEF Validate, CheckBlockers, Prepare, SetStatus, BatchConflict, Fail, StepGivesUp,
             StepRestarts, StepReplays, FailReplays, WorkflowPC, storeVars, artifactVars
    <2> QED  BY <2>1, GotoErasing, ContentFrame DEF ContentInv
  <1>2. CASE ReadItems(j, n) \/ ReadRecord(j, n)
    <2>1. UNCHANGED <<artifact, blobRow, object, cleanup, upload>>
      BY <1>2 DEF ReadItems, ReadRecord, SetStatus, storeVars, artifactVars
    <2>2. CASE \E pc \in WorkflowPC \ {"erasing"} : Goto(j, n, pc)
      BY <2>1, <2>2, GotoErasing, ContentFrame DEF ContentInv
    <2>3. ASSUME NEW batch, NEW pc, pc # "erasing", ReadBatch(j, n, batch, pc)
          PROVE  ContentInv'
      <3>1. ErasingIsErased'
        <4>1. wf' = [wf EXCEPT ![j][n] = [pc |-> pc, batch |-> batch, blobs |-> Unshared(batch),
                                          seen |-> job[j].done]]
          BY <2>3 DEF ReadBatch
        <4> QED  BY <2>1, <2>3, <4>1 DEF ContentInv, ErasingIsErased, TypeOK
      <3> QED  BY <2>1, <3>1, ContentFrame
    <2> QED  BY <1>2, <2>2, <2>3 DEF ReadItems, ReadRecord, SetStatus, WorkflowPC
  <1>3. CASE CommitItems(j, n)
    BY <1>3, DeleteArtifactsContent DEF CommitItems, WorkflowPC
  <1>4. CASE CommitRecord(j, n)
    BY <1>4, DeleteArtifactsContent DEF CommitRecord, WorkflowPC
  <1>5. CASE ReadBlobs(j, n)
    <2>1. UNCHANGED <<artifact, blobRow, object, cleanup, upload>>
      BY <1>5 DEF ReadBlobs, storeVars, artifactVars
    <2>2. CASE Goto(j, n, "complete")
      BY <2>1, <2>2, GotoErasing, ContentFrame DEF ContentInv, WorkflowPC
    <2>3. ASSUME NEW batch \in SUBSET Pending(j),
                 wf' = [wf EXCEPT ![j][n] = [NoWorkflow EXCEPT
                           !.pc = "erasing", !.blobs = batch, !.seen = job[j].done]]
          PROVE  ContentInv'
      <3>1. \A b \in batch : blobRow[b] = Erased
        BY DEF Pending, ContentInv, ScheduledIsErased
      <3>2. [NoWorkflow EXCEPT !.pc = "erasing", !.blobs = batch, !.seen = job[j].done].blobs
               = batch
        BY DEF NoWorkflow
      <3>3. ErasingIsErased'
        BY <2>1, <2>3, <3>1, <3>2 DEF ContentInv, ErasingIsErased, TypeOK
      <3> QED  BY <2>1, <3>3, ContentFrame
    <2> QED  BY <1>5, <2>2, <2>3 DEF ReadBlobs
  <1>6. ASSUME NEW b \in Blobs, EraseObject(j, n, b)
        PROVE  ContentInv'
    <2>1. /\ UNCHANGED <<artifact, blobRow, cleanup, upload, wf>>
          /\ object' = object \ {b}
          /\ blobRow[b] = Erased
      BY <1>6 DEF EraseObject, At, storeVars, ContentInv, ErasingIsErased
    <2>2. BlobsHaveObjects'
      BY <2>1, DeletionAssumption DEF ContentInv, BlobsHaveObjects
    <2>3. UploadsHaveObjects'
      BY <2>1, DeletionAssumption DEF ContentInv, UploadsHaveObjects
    <2> QED
      BY <2>1, <2>2, <2>3
         DEF ContentInv, ArtifactsHaveBlobs, ScheduledIsErased, ErasingIsErased, Live
  <1>7. CASE MarkBlobs(j, n) \/ Complete(j, n)
    <2>1. /\ UNCHANGED <<artifact, blobRow, object, upload>>
          /\ \E pc \in WorkflowPC \ {"erasing"} : Goto(j, n, pc)
      BY <1>7 DEF MarkBlobs, Complete, WorkflowPC, storeVars
    <2>2. ErasingIsErased'
      BY <2>1, GotoErasing DEF ContentInv
    <2>3. ScheduledIsErased'
      <3>1. CASE MarkBlobs(j, n)
        <4>1. /\ At(j, n, "erasing")
              /\ cleanup' = [cleanup EXCEPT ![j] = [b \in Blobs |->
                                IF b \in wf[j][n].blobs THEN "DELETED" ELSE cleanup[j][b]]]
          BY <3>1 DEF MarkBlobs, TypeOK
        <4> QED  BY <2>1, <4>1 DEF At, ContentInv, ScheduledIsErased, ErasingIsErased, TypeOK
      <3>2. CASE Complete(j, n)
        <4>1. cleanup' = cleanup \/ cleanup' = [cleanup EXCEPT ![j] = [b \in Blobs |-> "NONE"]]
          BY <3>2 DEF Complete
        <4> QED  BY <2>1, <4>1 DEF ContentInv, ScheduledIsErased, TypeOK
      <3> QED  BY <1>7, <3>1, <3>2
    <2> QED
      BY <2>1, <2>2, <2>3
         DEF ContentInv, ArtifactsHaveBlobs, BlobsHaveObjects, UploadsHaveObjects, Live
  <1> QED
    BY <1>1, <1>2, <1>3, <1>4, <1>5, <1>6, <1>7 DEF WorkflowStep, WorkflowFault

\* Every step keeps track of the content.
LEMMA StepContent ==
    ASSUME TypeInv, ContentInv, [DeletionNext]_vars
    PROVE  ContentInv'
  <1>1. CASE UNCHANGED vars
    <2>1. ErasingIsErased'
      BY <1>1 DEF vars, deletionVars, artifactVars, ContentInv, ErasingIsErased
    <2> QED  BY <1>1, <2>1, ContentFrame DEF vars, storeVars, deletionVars, artifactVars
  <1>2. CASE DeletionNext
    BY <1>2, UploadContent, RequestContent, WorkflowContent DEF DeletionNext
  <1> QED  BY <1>1, <1>2

\* The content of every artifact.
LEMMA ContentInvariant == Spec => []ContentInv
  <1>1. TypeInv /\ ContentInv /\ [DeletionNext]_vars => ContentInv'
    BY StepContent
  <1> QED  BY InitContent, TypeInvariant, <1>1, PTL DEF Spec

\* What is tracked is retained.
LEMMA TrackedIsRetained ==
    ASSUME TypeInv, ContentInv
    PROVE  ContentRetained
  BY DEF TypeInv, TypeOK, ContentInv, ArtifactsHaveBlobs, BlobsHaveObjects, ContentRetained, Live

(***************************************************************************)
(* "A blob shared by another artifact is retained until its final          *)
(* reference is deleted" (collections.mdx): whatever uploads, deletions,   *)
(* retries, restarts and repeated steps interleave, every artifact in the  *)
(* database has its content blob and the blob has its object.              *)
(***************************************************************************)
THEOREM ContentIsRetained == Spec => []ContentRetained
  <1>1. TypeInv /\ ContentInv => ContentRetained
    BY TrackedIsRetained
  <1> QED  BY ContentInvariant, TypeInvariant, <1>1, PTL

-----------------------------------------------------------------------------
(* Uploads are deduplicated.                                                *)

\* No step keeps a content in two blobs.
LEMMA StepDeduplicates ==
    ASSUME TypeInv, OneBlobPerHash, [DeletionNext]_vars
    PROVE  OneBlobPerHash'
  <1> USE DEF TypeInv
  <1>1. ASSUME blobRow' = blobRow
        PROVE  OneBlobPerHash'
    BY <1>1 DEF OneBlobPerHash
  <1>2. ASSUME NEW S, blobRow' = [b \in Blobs |-> IF b \in S THEN Erased ELSE blobRow[b]]
        PROVE  OneBlobPerHash'
    BY <1>2, DeletionAssumption DEF OneBlobPerHash
  <1>3. CASE UNCHANGED vars
    BY <1>1, <1>3 DEF vars, deletionVars, artifactVars
  <1>4. CASE UploadNext
    <2>1. ASSUME NEW c \in Collections, UploadCommit(c)
          PROVE  OneBlobPerHash'
      <3> DEFINE u == upload[c]
      <3>1. u.blob \in Blobs /\ u.hash \in Hashes
        BY <2>1 DEF UploadCommit, TypeOK, UploadRecord
      <3>2. blobRow' = [blobRow EXCEPT ![u.blob] = u.hash]
        BY <2>1 DEF UploadCommit
      <3>3. CASE blobRow[u.blob] = u.hash
        BY <1>1, <3>1, <3>2, <3>3 DEF TypeOK
      <3>4. CASE \A b \in Blobs : blobRow[b] # u.hash
        BY <3>1, <3>2, <3>4 DEF OneBlobPerHash, TypeOK
      <3> QED  BY <2>1, <3>3, <3>4 DEF UploadCommit
    <2> QED  BY <1>1, <1>4, <2>1 DEF UploadNext, UploadBegin, UploadRollback
  <1>5. CASE \/ \E c \in Collections : StartTextRun(c) \/ FinishTextRun(c)
             \/ \E r \in Requests : RequestNext(r)
    <2>1. blobRow' = blobRow
      BY <1>5
         DEF StartTextRun, FinishTextRun, RequestNext, DeleteRequest, FindJob, CreateJob,
             RefuseJob, RetryRequest, RetryJob, RefuseRetry, Enqueue, EnqueueFails, RequestDies,
             artifactVars
    <2> QED  BY <1>1, <2>1
  <1>6. ASSUME NEW j \in Jobs, NEW n \in Attempts, WorkflowStep(j, n) \/ WorkflowFault(j, n)
        PROVE  OneBlobPerHash'
    <2>1. CASE CommitItems(j, n) \/ CommitRecord(j, n)
      BY <1>2, <2>1 DEF CommitItems, CommitRecord, DeleteArtifacts
    <2>2. CASE ~ (CommitItems(j, n) \/ CommitRecord(j, n))
      <3>1. blobRow' = blobRow
        BY <1>6, <2>2
           DEF WorkflowStep, WorkflowFault, Validate, CheckBlockers, Prepare, SetStatus,
               ReadItems, ReadRecord, BatchConflict, ReadBlobs, EraseObject, MarkBlobs,
               Complete, Fail, StepGivesUp, StepRestarts, StepReplays, FailReplays, artifactVars
      <3> QED  BY <1>1, <3>1
    <2> QED  BY <2>1, <2>2
  <1> QED  BY <1>3, <1>4, <1>5, <1>6 DEF DeletionNext

(***************************************************************************)
(* The unique index keeps one blob for each content: two uploads of equal  *)
(* contents that both found no blob, and both put an object, never both    *)
(* commit their row; and a row that was deleted never comes back.          *)
(***************************************************************************)
THEOREM UploadsAreDeduplicated == Spec => []OneBlobPerHash
  <1>1. Init => OneBlobPerHash
    BY DeletionAssumption DEF Init, NoBlobs, OneBlobPerHash
  <1>2. TypeInv /\ OneBlobPerHash /\ [DeletionNext]_vars => OneBlobPerHash'
    BY StepDeduplicates
  <1> QED  BY TypeInvariant, <1>1, <1>2, PTL DEF Spec

-----------------------------------------------------------------------------
(* No object is forgotten.                                                  *)

\* An object without a row is on the cleanup manifest of a job.
ErasedIsScheduled ==
    \A b \in object : blobRow[b] = Erased => \E j \in Jobs : cleanup[j][b] = "PENDING"

\* A job with an object to erase is running, or has not completed.
PendingKeepsJob ==
    \A j \in Jobs : Pending(j) # {} => job[j].status # "COMPLETED" \/ Running(j)

\* What the manifest of a job says of the object store.
ManifestInv == ErasedIsScheduled /\ PendingKeepsJob

\* No object is erased at the start.
LEMMA InitManifest == Init => ManifestInv
  BY DEF Init, NoBlobs, DeletionInit, ManifestInv, ErasedIsScheduled, PendingKeepsJob, Pending

\* Uploads do not put objects under a key that was used before.
LEMMA UploadManifest ==
    ASSUME TypeInv, ManifestInv, UploadNext
    PROVE  ManifestInv'
  <1> USE DEF TypeInv
  <1>1. PendingKeepsJob'
    <2>1. UNCHANGED <<cleanup, job, wf>>
      BY DEF UploadNext, UploadBegin, UploadCommit, UploadRollback
    <2> QED  BY <2>1 DEF ManifestInv, PendingKeepsJob, Pending, Running
  <1>2. ErasedIsScheduled'
    <2>1. ASSUME NEW a \in Artifacts, NEW h \in Hashes, NEW b \in Blobs, UploadBegin(a, h, b)
          PROVE  \A x \in object' : x \in object \/ blobRow[x] = Unwritten
      BY <2>1 DEF UploadBegin, GetOrCreateBlob, Fresh
    <2>2. ASSUME NEW c \in Collections, UploadCommit(c)
          PROVE  \A b \in Blobs : blobRow'[b] = Erased => blobRow[b] = Erased
      <3>1. upload[c] \in UploadRecord /\ upload[c].hash \in Hashes
        BY <2>2 DEF UploadCommit, TypeOK, UploadRecord
      <3> QED  BY <2>2, <3>1, DeletionAssumption DEF UploadCommit, TypeOK
    <2>3. /\ \A b \in Blobs : blobRow'[b] = Erased => blobRow[b] = Erased
          /\ \A x \in object' : x \in object \/ blobRow[x] = Unwritten
          /\ cleanup' = cleanup
          /\ object' \in SUBSET Blobs
      <3>1. object' \in SUBSET Blobs
        BY UploadType DEF TypeOK
      <3> QED
        BY <2>1, <2>2, <3>1 DEF UploadNext, UploadBegin, UploadCommit, UploadRollback
    <2> QED  BY <2>3, DeletionAssumption DEF ManifestInv, ErasedIsScheduled
  <1> QED  BY <1>1, <1>2 DEF ManifestInv

\* Requests never complete a job, and never stop a workflow.
LEMMA RequestManifest ==
    ASSUME TypeInv, ManifestInv,
           \/ \E c \in Collections : StartTextRun(c) \/ FinishTextRun(c)
           \/ \E r \in Requests : RequestNext(r)
    PROVE  ManifestInv'
  <1> USE DEF TypeInv
  <1>1. UNCHANGED <<blobRow, object, cleanup>>
    BY DEF StartTextRun, FinishTextRun, RequestNext, DeleteRequest, FindJob, CreateJob, RefuseJob,
           RetryRequest, RetryJob, RefuseRetry, Enqueue, EnqueueFails, RequestDies,
           artifactVars
  <1>2. ASSUME NEW j \in Jobs, job'[j].status = "COMPLETED"
        PROVE  job[j].status = "COMPLETED"
    <2>1. CASE job' = job
      BY <1>2, <2>1
    <2>3. ASSUME NEW k, NEW status, status # "COMPLETED", job' = [job EXCEPT ![k].status = status]
          PROVE  job[j].status = "COMPLETED"
      BY <1>2, <2>3 DEF TypeOK, JobRecord
    <2>4. ASSUME NEW r \in Requests, RetryJob(r)
          PROVE  job[j].status = "COMPLETED"
      BY <1>2, <2>4 DEF RetryJob, TypeOK, JobRecord
    <2>5. ASSUME NEW r \in Requests, CreateJob(r)
          PROVE  job[j].status = "COMPLETED"
      <3>1. PICK k \in Jobs : job' = [job EXCEPT ![k] =
                [status |-> "QUEUED", target |-> request[r].target,
                 attempt |-> 1, done |-> NoTotals]]
        BY <2>5 DEF CreateJob
      <3> QED  BY <1>2, <3>1 DEF TypeOK
    <2>6. ASSUME NEW r \in Requests, EnqueueFails(r)
          PROVE  job[j].status = "COMPLETED"
      BY <2>3, <2>6 DEF EnqueueFails, FailDeletion
    <2> QED
      BY <2>1, <2>4, <2>5, <2>6
         DEF StartTextRun, FinishTextRun, RequestNext, DeleteRequest, FindJob, RefuseJob,
             RetryRequest, RefuseRetry, Enqueue, RequestDies, artifactVars
  <1>3. ASSUME NEW j \in Jobs, Running(j)
        PROVE  Running(j)'
    <2>1. CASE wf' = wf
      BY <1>3, <2>1 DEF Running
    <2>2. ASSUME NEW k, NEW m, wf' = [wf EXCEPT ![k][m].pc = "validate"]
          PROVE  Running(j)'
      <3>1. PICK n \in Attempts : wf[j][n].pc \notin {"none", "completed", "failed"}
        BY <1>3 DEF Running
      <3>2. wf'[j][n] = wf[j][n] \/ wf'[j][n] = [wf[j][n] EXCEPT !.pc = "validate"]
        BY <2>2 DEF TypeOK
      <3>3. [wf[j][n] EXCEPT !.pc = "validate"].pc = "validate"
        BY DEF TypeOK, WorkflowRecord
      <3>4. wf'[j][n].pc \notin {"none", "completed", "failed"}
        BY <3>1, <3>2, <3>3
      <3> QED  BY <3>4 DEF Running
    <2> QED
      BY ZenonT(60), <2>1, <2>2
         DEF StartTextRun, FinishTextRun, RequestNext, DeleteRequest, FindJob, CreateJob,
             RefuseJob, RetryRequest, RetryJob, RefuseRetry, Enqueue, EnqueueFails, RequestDies
  <1>4. PendingKeepsJob'
    <2> SUFFICES ASSUME NEW j \in Jobs, Pending(j)' # {}, job'[j].status = "COMPLETED"
                 PROVE  Running(j)'
      BY DEF PendingKeepsJob
    <2>1. Pending(j) # {}
      BY <1>1 DEF Pending
    <2> QED  BY <1>2, <1>3, <2>1 DEF ManifestInv, PendingKeepsJob
  <1>5. ErasedIsScheduled'
    BY <1>1 DEF ManifestInv, ErasedIsScheduled
  <1> QED  BY <1>4, <1>5 DEF ManifestInv

\* A step of an attempt concerns its own job; the attempt goes on, or it leaves no work.
LEMMA StepKeepsJob ==
    ASSUME TypeInv, PendingKeepsJob, NEW j \in Jobs, NEW n \in Attempts, NEW pc \in WorkflowPC,
           \A k \in Jobs \ {j} : job'[k].status = job[k].status /\ cleanup'[k] = cleanup[k],
           wf'[j][n].pc = pc,
           \A k \in Jobs \ {j} : wf'[k] = wf[k],
           \/ pc \notin {"none", "completed", "failed"}
           \/ job'[j].status # "COMPLETED"
           \/ Pending(j)' = {}
    PROVE  PendingKeepsJob'
  <1> SUFFICES ASSUME NEW k \in Jobs, Pending(k)' # {}, job'[k].status = "COMPLETED"
               PROVE  Running(k)'
    BY DEF PendingKeepsJob
  <1>1. CASE k = j
    BY <1>1 DEF Running
  <1>2. CASE k # j
    <2>1. Running(k)
      BY <1>2 DEF PendingKeepsJob, Pending
    <2> QED  BY <1>2, <2>1 DEF Running
  <1> QED  BY <1>1, <1>2

\* What Goto does to the program counters.
LEMMA GotoPC ==
    ASSUME TypeOK, NEW j \in Jobs, NEW n \in Attempts, NEW pc, Goto(j, n, pc)
    PROVE  /\ wf'[j][n].pc = pc
           /\ \A k \in Jobs \ {j} : wf'[k] = wf[k]
  <1>1. wf' = [wf EXCEPT ![j][n] = [NoWorkflow EXCEPT !.pc = pc]]
    BY DEF Goto
  <1>2. [NoWorkflow EXCEPT !.pc = pc].pc = pc
    BY DEF NoWorkflow
  <1> QED  BY <1>1, <1>2 DEF TypeOK

\* A workflow erases only what its manifest lists, and lists it before.
LEMMA WorkflowManifest ==
    ASSUME TypeInv, ManifestInv, NEW j \in Jobs, NEW n \in Attempts,
           WorkflowStep(j, n) \/ WorkflowFault(j, n)
    PROVE  ManifestInv'
  <1> USE DEF TypeInv
  <1> DEFINE Ended == {"none", "completed", "failed"}
  <1>1. CASE \/ Validate(j, n) \/ CheckBlockers(j, n) \/ Prepare(j, n) \/ BatchConflict(j, n)
             \/ ReadItems(j, n) \/ ReadRecord(j, n) \/ ReadBlobs(j, n)
             \/ StepGivesUp(j, n) \/ StepRestarts(j, n) \/ StepReplays(j, n) \/ FailReplays(j, n)
    <2>1. UNCHANGED <<blobRow, object, cleanup>>
      BY <1>1
         DEF Validate, CheckBlockers, Prepare, SetStatus, BatchConflict, ReadItems, ReadRecord,
             ReadBlobs, StepGivesUp, StepRestarts, StepReplays, FailReplays, artifactVars
    <2>2. \A k \in Jobs \ {j} : job'[k].status = job[k].status
      <3>1. job' = job \/ \E status \in JobStatus : job' = [job EXCEPT ![j].status = status]
        BY <1>1
           DEF Validate, CheckBlockers, Prepare, SetStatus, BatchConflict, ReadItems, ReadRecord,
               ReadBlobs, StepGivesUp, StepRestarts, StepReplays, FailReplays, artifactVars,
               JobStatus
      <3> QED  BY <3>1 DEF TypeOK
    <2> DEFINE GoesOn == /\ wf'[j][n].pc \in WorkflowPC \ Ended
                         /\ \A k \in Jobs \ {j} : wf'[k] = wf[k]
    <2>3. GoesOn
      <3>1. ASSUME NEW pc \in WorkflowPC \ Ended, Goto(j, n, pc)
            PROVE  GoesOn
        BY <3>1, GotoPC
      <3>2. ASSUME NEW pc \in WorkflowPC \ Ended, NEW batch, ReadBatch(j, n, batch, pc)
            PROVE  GoesOn
        BY <3>2 DEF ReadBatch, TypeOK
      <3>3. ASSUME NEW batch, wf' = [wf EXCEPT ![j][n] = [NoWorkflow EXCEPT
                             !.pc = "erasing", !.blobs = batch, !.seen = job[j].done]]
            PROVE  GoesOn
        <4>1. [NoWorkflow EXCEPT !.pc = "erasing", !.blobs = batch, !.seen = job[j].done].pc
                 = "erasing"
          BY DEF NoWorkflow
        <4> QED  BY <3>3, <4>1 DEF TypeOK, WorkflowPC
      <3>4. CASE ReadItems(j, n) \/ ReadRecord(j, n) \/ ReadBlobs(j, n)
        BY <3>1, <3>2, <3>3, <3>4 DEF ReadItems, ReadRecord, ReadBlobs, SetStatus, WorkflowPC
      <3>5. CASE ~ (ReadItems(j, n) \/ ReadRecord(j, n) \/ ReadBlobs(j, n))
        BY <1>1, <3>1, <3>5
           DEF Validate, CheckBlockers, Prepare, SetStatus, BatchConflict, StepGivesUp,
               StepRestarts, StepReplays, FailReplays, WorkflowPC
      <3> QED  BY <3>4, <3>5
    <2>4. PendingKeepsJob'
      BY <2>1, <2>2, <2>3, StepKeepsJob DEF ManifestInv
    <2>5. ErasedIsScheduled'
      BY <2>1 DEF ManifestInv, ErasedIsScheduled
    <2> QED  BY <2>4, <2>5 DEF ManifestInv
  <1>2. CASE CommitItems(j, n) \/ CommitRecord(j, n)
    <2>1. /\ blobRow' = [b \in Blobs |-> IF b \in wf[j][n].blobs THEN Erased ELSE blobRow[b]]
          /\ cleanup' = [cleanup EXCEPT ![j] = [b \in Blobs |->
                            IF b \in wf[j][n].blobs THEN "PENDING" ELSE cleanup[j][b]]]
          /\ object' = object
      BY <1>2 DEF CommitItems, CommitRecord, DeleteArtifacts, TypeOK
    <2>2. \A k \in Jobs \ {j} : job'[k] = job[k] /\ cleanup'[k] = cleanup[k]
      BY <1>2 DEF CommitItems, CommitRecord, DeleteArtifacts, TypeOK
    <2>3. \E pc \in WorkflowPC \ Ended : Goto(j, n, pc)
      BY <1>2 DEF CommitItems, CommitRecord, WorkflowPC
    <2>4. PendingKeepsJob'
      BY <2>2, <2>3, GotoPC, StepKeepsJob DEF ManifestInv
    <2>5. ErasedIsScheduled'
      <3> SUFFICES ASSUME NEW b \in object, blobRow'[b] = Erased
                   PROVE  \E k \in Jobs : cleanup'[k][b] = "PENDING"
        BY <2>1 DEF ErasedIsScheduled
      <3>1. b \in Blobs
        BY DEF TypeOK
      <3>2. CASE b \in wf[j][n].blobs
        BY <2>1, <3>1, <3>2 DEF TypeOK
      <3>3. CASE b \notin wf[j][n].blobs
        <4>1. PICK k \in Jobs : cleanup[k][b] = "PENDING"
          BY <2>1, <3>1, <3>3 DEF ManifestInv, ErasedIsScheduled
        <4>2. cleanup'[k][b] = "PENDING"
          BY <2>1, <3>1, <3>3, <4>1 DEF TypeOK
        <4> QED  BY <4>2
      <3> QED  BY <3>2, <3>3
    <2> QED  BY <2>4, <2>5 DEF ManifestInv
  <1>3. ASSUME NEW b \in Blobs, EraseObject(j, n, b)
        PROVE  ManifestInv'
    <2>1. UNCHANGED <<blobRow, cleanup, job, wf>> /\ object' = object \ {b}
      BY <1>3 DEF EraseObject
    <2> QED
      BY <2>1 DEF ManifestInv, ErasedIsScheduled, PendingKeepsJob, Pending, Running
  <1>4. CASE MarkBlobs(j, n)
    <2>1. /\ UNCHANGED <<blobRow, object>>
          /\ wf[j][n].blobs \cap object = {}
          /\ cleanup' = [cleanup EXCEPT ![j] = [b \in Blobs |->
                            IF b \in wf[j][n].blobs THEN "DELETED" ELSE cleanup[j][b]]]
      BY <1>4 DEF MarkBlobs, TypeOK
    <2>2. \A k \in Jobs \ {j} : job'[k] = job[k] /\ cleanup'[k] = cleanup[k]
      BY <1>4, <2>1 DEF MarkBlobs, TypeOK
    <2>3. \E pc \in WorkflowPC \ Ended : Goto(j, n, pc)
      BY <1>4 DEF MarkBlobs, WorkflowPC
    <2>4. PendingKeepsJob'
      BY <2>2, <2>3, GotoPC, StepKeepsJob DEF ManifestInv
    <2>5. ASSUME NEW b \in object, NEW k \in Jobs, cleanup[k][b] = "PENDING"
          PROVE  cleanup'[k][b] = "PENDING"
      BY <2>1, <2>5 DEF TypeOK
    <2>6. ErasedIsScheduled'
      BY <2>1, <2>5 DEF ManifestInv, ErasedIsScheduled
    <2> QED  BY <2>4, <2>6 DEF ManifestInv
  <1>5. CASE Complete(j, n)
    <2>1. UNCHANGED <<blobRow, object>>
      BY <1>5 DEF Complete
    <2>2. CASE Pending(j) # {}
      <3>1. UNCHANGED <<cleanup, job>> /\ Goto(j, n, "fail")
        BY <1>5, <2>2 DEF Complete
      <3>2. PendingKeepsJob'
        BY <3>1, GotoPC, StepKeepsJob DEF ManifestInv, WorkflowPC
      <3> QED  BY <2>1, <3>1, <3>2 DEF ManifestInv, ErasedIsScheduled
    <2>3. CASE Pending(j) = {}
      <3>1. /\ cleanup' = [cleanup EXCEPT ![j] = [b \in Blobs |-> "NONE"]]
            /\ job' = [job EXCEPT ![j].status = "COMPLETED"]
            /\ Goto(j, n, "completed")
        BY <1>5, <2>3 DEF Complete
      <3>2. \A k \in Jobs \ {j} : job'[k] = job[k] /\ cleanup'[k] = cleanup[k]
        BY <3>1 DEF TypeOK
      <3>3. Pending(j)' = {}
        BY <3>1 DEF Pending, TypeOK
      <3>4. PendingKeepsJob'
        BY <3>1, <3>2, <3>3, GotoPC, StepKeepsJob DEF ManifestInv, WorkflowPC
      <3>5. ErasedIsScheduled'
        <4> SUFFICES ASSUME NEW b \in object, blobRow[b] = Erased
                     PROVE  \E k \in Jobs : cleanup'[k][b] = "PENDING"
          BY <2>1 DEF ErasedIsScheduled
        <4>1. PICK k \in Jobs : cleanup[k][b] = "PENDING"
          BY DEF ManifestInv, ErasedIsScheduled
        <4>2. k # j
          BY <2>3, <4>1 DEF Pending, TypeOK
        <4> QED  BY <3>2, <4>1, <4>2
      <3> QED  BY <3>4, <3>5 DEF ManifestInv
    <2> QED  BY <2>2, <2>3
  <1>6. CASE Fail(j, n)
    <2>1. /\ UNCHANGED <<blobRow, object, cleanup>>
          /\ job' = [job EXCEPT ![j].status = "FAILED"]
          /\ Goto(j, n, "failed")
      BY <1>6 DEF Fail, FailDeletion
    <2>2. /\ \A k \in Jobs \ {j} : job'[k] = job[k]
          /\ job'[j].status = "FAILED"
      BY <2>1 DEF TypeOK, JobRecord
    <2>3. PendingKeepsJob'
      BY <2>1, <2>2, GotoPC, StepKeepsJob DEF ManifestInv, WorkflowPC
    <2> QED  BY <2>1, <2>3 DEF ManifestInv, ErasedIsScheduled
  <1> QED
    BY <1>1, <1>2, <1>3, <1>4, <1>5, <1>6 DEF WorkflowStep, WorkflowFault

\* Every step keeps what is to be erased on a manifest.
LEMMA StepManifest ==
    ASSUME TypeInv, ManifestInv, [DeletionNext]_vars
    PROVE  ManifestInv'
  <1>1. CASE UNCHANGED vars
    BY <1>1
       DEF vars, deletionVars, artifactVars, ManifestInv, ErasedIsScheduled, PendingKeepsJob,
           Pending, Running
  <1>2. CASE DeletionNext
    BY <1>2, UploadManifest, RequestManifest, WorkflowManifest DEF DeletionNext
  <1> QED  BY <1>1, <1>2

\* What is scheduled with a job is on a complete manifest.
LEMMA ScheduledIsComplete ==
    ASSUME TypeInv, ManifestInv
    PROVE  ManifestComplete
  BY DEF TypeInv, TypeOK, ManifestInv, ErasedIsScheduled, PendingKeepsJob, ManifestComplete, Pending

(***************************************************************************)
(* "Retrying continues from the remaining database rows or blob cleanup    *)
(* manifest" (collections.mdx): an object whose row was deleted stays on   *)
(* the manifest of a job until it is erased, and that job is running or    *)
(* has not completed, whatever fails or is repeated in between.            *)
(***************************************************************************)
THEOREM NothingIsForgotten == Spec => []ManifestComplete
  <1>1. TypeInv /\ ManifestInv /\ [DeletionNext]_vars => ManifestInv'
    BY StepManifest
  <1>2. TypeInv /\ ManifestInv => ManifestComplete
    BY ScheduledIsComplete
  <1> QED  BY InitManifest, TypeInvariant, <1>1, <1>2, PTL DEF Spec

-----------------------------------------------------------------------------
(* Deletions in order.                                                      *)

(***************************************************************************)
(* What keeps a collection's promises from its deletion: who marks a job   *)
(* as failed is the only one at work on it, and a retry is of the job that *)
(* deleted something.  The code checks neither: fail_deletion does not ask *)
(* who else works on the job, be it after the enqueue of one of two        *)
(* requests or in a fail step that is repeated after a retry, and          *)
(* retry_deletion_job does not look at later jobs of the collection.       *)
(***************************************************************************)
InOrder ==
    /\ \A r \in Requests : EnqueueFails(r) =>
          /\ wf[request[r].job][request[r].attempt].pc = "none"
          /\ \A q \in Requests \ {r} : request[q].pc = "enqueue" => request[q].job # request[r].job
    /\ \A j \in Jobs, n \in Attempts : ~ FailReplays(j, n)
    /\ \A r \in Requests : RetryJob(r) =>
          \A k \in Jobs \ {request[r].job} :
              job[k].target = job[request[r].job].target => Untouched(job[k].done)

OrderlySpec == Spec /\ [][InOrder]_vars

\* A job whose deletion goes on or has succeeded.
Alive(j) == job[j].status \in ActiveDeletionStatus \cup {"COMPLETED"}

\* The current attempt of a job is at work or has ended, or it waits to be enqueued.
JobAttempts(j) ==
    /\ job[j].status = "NONE" <=> job[j].attempt = 0
    /\ job[j].status = "NONE" => job[j].target = NoCollection /\ job[j].done = NoTotals
    /\ job[j].status # "NONE" => job[j].target \in Collections
    /\ \A n \in Attempts : wf[j][n].pc # "none" => n <= job[j].attempt
    /\ \A n \in Attempts : wf[j][n].pc \notin {"none", "failed"} => n = job[j].attempt /\ Alive(j)
    /\ \A n \in Attempts : wf[j][n].pc = "completed" => job[j].status = "COMPLETED"
    /\ job[j].status \notin {"NONE", "QUEUED", "FAILED"} => wf[j][job[j].attempt].pc # "none"

\* A request deletes a collection; it enqueues the current attempt of its job, or one whose
\* workflow exists.
Enqueues(r) ==
    /\ request[r].pc = "create" => request[r].target \in Collections
    /\ request[r].pc = "enqueue" =>
        /\ request[r].attempt \in 1..job[request[r].job].attempt
        /\ wf[request[r].job][request[r].attempt].pc = "none" =>
              /\ request[r].attempt = job[request[r].job].attempt
              /\ job[request[r].job].status = "QUEUED"

AttemptsInv == (\A j \in Jobs : JobAttempts(j)) /\ (\A r \in Requests : Enqueues(r))

\* A collection has one active job, during which it is not OPEN; it is GONE once its record is.
ActiveInv ==
    /\ \A j \in Jobs, k \in Jobs :
          job[j].status \in ActiveDeletionStatus /\ job[k].status \in ActiveDeletionStatus
              /\ job[j].target = job[k].target => j = k
    /\ \A j \in Jobs : job[j].status \in ActiveDeletionStatus => collection[job[j].target] # "OPEN"
    /\ \A j \in Jobs : job[j].status = "COMPLETED" => collection[job[j].target] = "GONE"
    /\ \A j \in Jobs, n \in Attempts :
          wf[j][n].pc \in {"blobs", "erasing", "complete", "completed"} => collection[job[j].target] = "GONE"

\* The artifacts that a collection has and those it has lost.
Held(c) == {a \in Live : CollectionOf[a] = c}
Lost(c) == {a \in Artifacts : artifact[a] = Removed /\ CollectionOf[a] = c}

\* An upload is into an OPEN collection and stores what was never stored; nothing outlives
\* the record of its collection.
UploadsInv ==
    /\ \A c \in Collections : upload[c] # NoUpload =>
          /\ collection[c] = "OPEN"
          /\ CollectionOf[upload[c].artifact] = c
          /\ artifact[upload[c].artifact] = Absent
    /\ \A c \in Collections : collection[c] = "GONE" => Held(c) = {}

\* A batch that was read and not committed is still there, and nobody else has counted.
BatchOK(j, c, w) ==
    /\ w.pc \in {"items_commit", "record_commit"} =>
          collection[c] = "DELETING" /\ w.batch \subseteq Held(c) /\ w.seen = job[j].done
    /\ w.pc = "items_commit" => w.batch # {} /\ w.batch \subseteq ItemArtifacts
    /\ w.pc = "record_commit" => w.batch = Held(c) /\ w.batch \cap ItemArtifacts = {}
    /\ w.pc = "erasing" => w.seen = job[j].done /\ w.blobs \subseteq Pending(j)

BatchesInv ==
    \A j \in Jobs, n \in Attempts, c \in Collections : job[j].target = c => BatchOK(j, c, wf[j][n])

\* What a collection has lost, a job of it has counted: the one that goes on, if one does.
LostInv ==
    /\ \A c \in Collections : collection[c] = "OPEN" => Lost(c) = {}
    /\ \A c \in Collections : Lost(c) # {} => \E j \in Jobs : job[j].target = c /\ ~Untouched(job[j].done)
    /\ \A j \in Jobs, c \in Collections :
          Alive(j) /\ job[j].target = c /\ Untouched(job[j].done) => Lost(c) = {}

\* A job that worked alone has counted what its collection lost, and every job its blobs.
Sole(j) == \A k \in Jobs \ {j} : job[k].target = job[j].target => Untouched(job[k].done)
Counted(j) ==
    /\ \A c \in Collections \cup {NoCollection} : job[j].target = c /\ Sole(j) =>
          /\ job[j].done.items = Cardinality(Lost(c) \cap ItemArtifacts)
          /\ job[j].done.artifacts = Cardinality(Lost(c))
    /\ job[j].done.blobs = job[j].done.erased + Cardinality(Pending(j))
    /\ job[j].status = "COMPLETED" => Pending(j) = {}

CountedInv == \A j \in Jobs : Counted(j)

(***************************************************************************)
(* The inductive invariant.  That the totals are exact says nothing of     *)
(* what a step has read before it writes (BatchesInv), of who else may     *)
(* write (AttemptsInv, ActiveInv), or of the job that is started or tried  *)
(* again later (LostInv).                                                  *)
(***************************************************************************)
OrderInv == AttemptsInv /\ ActiveInv /\ UploadsInv /\ BatchesInv /\ LostInv /\ CountedInv

-----------------------------------------------------------------------------
(* What the invariant says of a workflow at work.                           *)

\* Sets of artifacts and sets of blobs are finite.
LEMMA FiniteSubsets ==
    ASSUME NEW S, S \subseteq Artifacts \/ S \subseteq Blobs
    PROVE  IsFiniteSet(S) /\ Cardinality(S) \in Nat
  BY StoreAssumption, FS_Subset, FS_CardinalityType

\* The size of a union of two sets that share nothing.
LEMMA DisjointSizes ==
    ASSUME NEW S, NEW T, IsFiniteSet(S), IsFiniteSet(T), S \cap T = {}
    PROVE  Cardinality(S \cup T) = Cardinality(S) + Cardinality(T)
  <1>1. Cardinality(S \cup T) = Cardinality(S) + Cardinality(T) - Cardinality({})
    BY FS_Union
  <1>2. Cardinality({}) = 0 /\ Cardinality(S) \in Nat /\ Cardinality(T) \in Nat
    BY FS_EmptySet, FS_CardinalityType
  <1> QED  BY <1>1, <1>2

\* The rows of a job and of a workflow.
LEMMA Rows ==
    ASSUME TypeInv, NEW j \in Jobs
    PROVE  /\ job[j] \in JobRecord /\ job[j].done \in Totals
           /\ job[j].status \in JobStatus /\ job[j].attempt \in Nat /\ job[j].attempt \in 0..MaxAttempts
           /\ job[j].target \in Collections \cup {NoCollection}
           /\ \A n \in Attempts : wf[j][n] \in WorkflowRecord
  BY DeletionAssumption DEF TypeInv, TypeOK, JobRecord

\* A workflow that has begun and not failed is the current attempt of a job that is alive, and
\* the only one that is not over.
LEMMA AtWork ==
    ASSUME TypeInv, OrderInv, NEW j \in Jobs, NEW n \in Attempts, wf[j][n].pc \notin {"none", "failed"}
    PROVE  /\ n = job[j].attempt /\ Alive(j)
           /\ job[j].target \in Collections /\ collection[job[j].target] \in {"DELETING", "GONE"}
           /\ \A m \in Attempts : wf[j][m].pc \notin {"none", "failed"} => m = n
  <1>1. JobAttempts(j) /\ ActiveInv
    BY DEF OrderInv, AttemptsInv
  <1>2. n = job[j].attempt /\ Alive(j)
    BY <1>1 DEF JobAttempts
  <1>3. \A m \in Attempts : wf[j][m].pc \notin {"none", "failed"} => m = n
    BY <1>1, <1>2 DEF JobAttempts
  <1>4. job[j].target \in Collections
    BY <1>1, <1>2 DEF JobAttempts, Alive, ActiveDeletionStatus
  <1>5. collection[job[j].target] # "OPEN"
    BY <1>1, <1>2 DEF ActiveInv, Alive
  <1> QED  BY <1>2, <1>3, <1>4, <1>5 DEF TypeInv, TypeOK, CollectionStatus

\* While a collection is being deleted, one job of it is alive, and it is active.
LEMMA Alone ==
    ASSUME OrderInv, NEW j \in Jobs, Alive(j), collection[job[j].target] = "DELETING"
    PROVE  /\ job[j].status \in ActiveDeletionStatus
           /\ \A k \in Jobs : Alive(k) /\ job[k].target = job[j].target => k = j
  BY DEF OrderInv, ActiveInv, Alive

-----------------------------------------------------------------------------
(* Steps that leave parts of the invariant alone.                           *)

\* Nothing is lost, counted, scheduled or given to another collection; a job that comes alive,
\* or a collection that opens, has lost nothing.
Quiet ==
    /\ \A a \in Artifacts : artifact'[a] = Removed <=> artifact[a] = Removed
    /\ \A k \in Jobs, b \in Blobs : cleanup'[k][b] = "PENDING" <=> cleanup[k][b] = "PENDING"
    /\ \A k \in Jobs : /\ job'[k].done = job[k].done
                       /\ job'[k].target = job[k].target
                       /\ job'[k].status = "COMPLETED" => job[k].status = "COMPLETED" \/ Pending(k) = {}
                       /\ job'[k].status \in ActiveDeletionStatus \cup {"COMPLETED"} =>
                             Alive(k) \/ ~Untouched(job[k].done) \/ Lost(job[k].target) = {}
    /\ \A c \in Collections : collection'[c] = "OPEN" => Lost(c) = {}

\* Such a step keeps the accounts.
LEMMA QuietAccounts ==
    ASSUME OrderInv, Quiet
    PROVE  LostInv' /\ CountedInv'
  <1>1. \A c : Lost(c)' = Lost(c)
    BY DEF Quiet, Lost
  <1>2. \A k \in Jobs : Pending(k)' = Pending(k)
    BY DEF Quiet, Pending
  <1>3. LostInv'
    <2>1. \A c \in Collections : collection'[c] = "OPEN" => Lost(c)' = {}
      BY <1>1 DEF Quiet
    <2>2. ASSUME NEW c \in Collections, Lost(c)' # {}
          PROVE  \E j \in Jobs : job'[j].target = c /\ ~Untouched(job'[j].done)
      BY <1>1, <2>2 DEF OrderInv, LostInv, Quiet
    <2>3. ASSUME NEW j \in Jobs, NEW c \in Collections,
                 Alive(j)', job'[j].target = c, Untouched(job'[j].done)
          PROVE  Lost(c)' = {}
      <3>1. job'[j].done = job[j].done /\ job'[j].target = job[j].target
        BY DEF Quiet
      <3>2. Alive(j) \/ Lost(job[j].target) = {}
        BY <2>3, <3>1 DEF Quiet, Alive
      <3>3. Lost(c) = {}
        BY <2>3, <3>1, <3>2 DEF OrderInv, LostInv
      <3> QED  BY <1>1, <3>3
    <2> QED  BY <2>1, <2>2, <2>3 DEF LostInv
  <1>4. ASSUME NEW j \in Jobs
        PROVE  Counted(j)'
    <2>1. job'[j].done = job[j].done /\ job'[j].target = job[j].target
      BY DEF Quiet
    <2>2. Counted(j)
      BY DEF OrderInv, CountedInv
    <2>3. Sole(j)' => Sole(j)
      BY DEF Sole, Quiet
    <2>4. ASSUME NEW c \in Collections \cup {NoCollection}, job'[j].target = c, Sole(j)'
          PROVE  /\ job'[j].done.items = Cardinality(Lost(c)' \cap ItemArtifacts)
                 /\ job'[j].done.artifacts = Cardinality(Lost(c)')
      BY <1>1, <2>1, <2>2, <2>3, <2>4 DEF Counted
    <2>5. job'[j].status = "COMPLETED" => Pending(j)' = {}
      BY <1>2, <2>2 DEF Quiet, Counted
    <2>6. job'[j].done.blobs = job'[j].done.erased + Cardinality(Pending(j)')
      BY <1>2, <2>1, <2>2 DEF Counted
    <2> QED  BY <2>4, <2>5, <2>6 DEF Counted
  <1> QED  BY <1>3, <1>4 DEF CountedInv

\* A step that changes nothing the invariant speaks of but requests.
LEMMA RequestsMove ==
    ASSUME OrderInv, UNCHANGED <<collection, artifact, cleanup, job, wf, upload>>,
           \A r \in Requests : Enqueues(r)'
    PROVE  OrderInv'
  <1>1. Quiet
    BY DEF Quiet, OrderInv, LostInv, Alive
  <1>2. AttemptsInv'
    BY DEF OrderInv, AttemptsInv, JobAttempts, Alive
  <1>3. ActiveInv' /\ UploadsInv'
    BY DEF OrderInv, ActiveInv, UploadsInv, Held, Live
  <1>4. BatchesInv'
    BY DEF OrderInv, BatchesInv, BatchOK, Held, Live, Pending
  <1> QED  BY <1>1, <1>2, <1>3, <1>4, QuietAccounts DEF OrderInv

\* A step that does not change them either.
LEMMA OrderFrame ==
    ASSUME OrderInv, UNCHANGED <<collection, artifact, cleanup, job, wf, upload, request>>
    PROVE  OrderInv'
  BY RequestsMove DEF OrderInv, AttemptsInv, Enqueues

-----------------------------------------------------------------------------
(* Uploads, text processing runs and requests.                              *)

\* Nothing is requested, stored or lost at the start.
LEMMA InitOrder == Init => OrderInv
  <1> SUFFICES ASSUME Init PROVE OrderInv
    OBVIOUS
  <1>1. /\ \A c : Lost(c) = {} /\ Held(c) = {}
        /\ \A j \in Jobs : Pending(j) = {} /\ ~Alive(j) /\ Untouched(job[j].done)
    BY StoreAssumption
       DEF Init, StoreInit, DeletionInit, Lost, Held, Live, Pending, Alive, NoJob, NoTotals,
           ActiveDeletionStatus, Untouched
  <1>2. AttemptsInv
    BY <1>1 DEF Init, DeletionInit, AttemptsInv, JobAttempts, Enqueues, NoJob, NoWorkflow, IdleRequest
  <1>3. ActiveInv
    BY DEF Init, DeletionInit, ActiveInv, NoJob, NoWorkflow, ActiveDeletionStatus
  <1>4. UploadsInv
    BY <1>1 DEF Init, DeletionInit, UploadsInv
  <1>5. BatchesInv
    BY DEF Init, DeletionInit, BatchesInv, BatchOK, NoWorkflow
  <1>6. LostInv
    BY <1>1 DEF LostInv
  <1>7. CountedInv
    <2>1. \A c : Cardinality(Lost(c)) = 0 /\ Cardinality(Lost(c) \cap ItemArtifacts) = 0
      BY <1>1, FS_EmptySet
    <2>2. ASSUME NEW j \in Jobs
          PROVE  job[j].done = NoTotals /\ job[j].status = "NONE" /\ Cardinality(Pending(j)) = 0
      BY <1>1, FS_EmptySet DEF Init, DeletionInit, NoJob
    <2> QED  BY <2>1, <2>2 DEF CountedInv, Counted, NoTotals
  <1> QED  BY <1>2, <1>3, <1>4, <1>5, <1>6, <1>7 DEF OrderInv

\* Uploads: what is stored is in an OPEN collection, which no workflow works on.
LEMMA UploadOrder ==
    ASSUME TypeInv, OrderInv, UploadNext
    PROVE  OrderInv'
  <1>1. UNCHANGED <<collection, cleanup, job, wf, request>>
    BY DEF UploadNext, UploadBegin, UploadCommit, UploadRollback, storeVars
  <1>2. AttemptsInv' /\ ActiveInv'
    BY <1>1 DEF OrderInv, AttemptsInv, JobAttempts, Alive, Enqueues, ActiveInv
  <1>3. ASSUME artifact' = artifact, UploadsInv'
        PROVE  OrderInv'
    <2>1. Quiet
      BY <1>1, <1>3 DEF Quiet, OrderInv, LostInv, Alive
    <2>2. BatchesInv'
      BY <1>1, <1>3 DEF OrderInv, BatchesInv, BatchOK, Held, Live, Pending
    <2> QED  BY <1>2, <1>3, <2>1, <2>2, QuietAccounts DEF OrderInv
  <1>4. ASSUME NEW a \in Artifacts, NEW h \in Hashes, NEW b \in Blobs, UploadBegin(a, h, b)
        PROVE  OrderInv'
    <2> DEFINE u == [artifact |-> a, hash |-> h, blob |-> b]
    <2>1. /\ collection[CollectionOf[a]] = "OPEN" /\ artifact[a] = Absent
          /\ upload' = [upload EXCEPT ![CollectionOf[a]] = u]
          /\ artifact' = artifact
      BY <1>4 DEF UploadBegin, storeVars
    <2>2. u.artifact = a
      OBVIOUS
    <2> HIDE DEF u
    <2>3. UploadsInv'
      BY <1>1, <2>1, <2>2 DEF OrderInv, UploadsInv, Held, Live, TypeInv, TypeOK
    <2> QED  BY <1>3, <2>1, <2>3
  <1>5. ASSUME NEW c \in Collections, UploadRollback(c)
        PROVE  OrderInv'
    <2>1. upload' = [upload EXCEPT ![c] = NoUpload] /\ artifact' = artifact
      BY <1>5 DEF UploadRollback, storeVars
    <2>2. UploadsInv'
      BY <1>1, <2>1 DEF OrderInv, UploadsInv, Held, Live, TypeInv, TypeOK
    <2> QED  BY <1>3, <2>1, <2>2
  <1>6. ASSUME NEW c \in Collections, UploadCommit(c)
        PROVE  OrderInv'
    <2> DEFINE u == upload[c]
    <2>1. /\ u \in UploadRecord /\ u.artifact \in Artifacts /\ u.blob \in Blobs
          /\ artifact' = [artifact EXCEPT ![u.artifact] = u.blob]
          /\ upload' = [upload EXCEPT ![c] = NoUpload]
      BY <1>6 DEF UploadCommit, TypeInv, TypeOK, UploadRecord
    <2>2. collection[c] = "OPEN" /\ CollectionOf[u.artifact] = c /\ artifact[u.artifact] = Absent
      BY <1>6 DEF UploadCommit, OrderInv, UploadsInv
    <2> HIDE DEF u
    <2>3. \A x \in Artifacts : artifact'[x] = IF x = u.artifact THEN u.blob ELSE artifact[x]
      BY <2>1 DEF TypeInv, TypeOK
    <2>4. Quiet
      BY <1>1, <2>1, <2>2, <2>3, StoreAssumption DEF Quiet, OrderInv, LostInv, Alive
    <2>5. \A d : d # c => Held(d)' = Held(d)
      BY <2>2, <2>3 DEF Held, Live
    <2>6. UploadsInv'
      <3>1. ASSUME NEW d \in Collections, upload'[d] # NoUpload
            PROVE  /\ collection'[d] = "OPEN"
                   /\ CollectionOf[upload'[d].artifact] = d
                   /\ artifact'[upload'[d].artifact] = Absent
        <4>1. d # c /\ upload'[d] = upload[d]
          BY <2>1, <3>1 DEF TypeInv, TypeOK
        <4>2. upload[d].artifact \in Artifacts
          BY <3>1, <4>1 DEF TypeInv, TypeOK, UploadRecord
        <4>3. /\ collection[d] = "OPEN" /\ CollectionOf[upload[d].artifact] = d
              /\ artifact[upload[d].artifact] = Absent
          BY <3>1, <4>1 DEF OrderInv, UploadsInv
        <4> QED  BY <1>1, <2>2, <2>3, <4>1, <4>2, <4>3
      <3>2. ASSUME NEW d \in Collections, collection'[d] = "GONE"
            PROVE  Held(d)' = {}
        BY <1>1, <2>2, <2>5, <3>2 DEF OrderInv, UploadsInv
      <3> QED  BY <3>1, <3>2 DEF UploadsInv
    <2>7. BatchesInv'
      <3> SUFFICES ASSUME NEW j \in Jobs, NEW n \in Attempts, NEW d \in Collections, job[j].target = d
                   PROVE  BatchOK(j, d, wf[j][n])'
        BY <1>1 DEF BatchesInv
      <3>1. BatchOK(j, d, wf[j][n])
        BY DEF OrderInv, BatchesInv
      <3>2. Pending(j)' = Pending(j)
        BY <1>1 DEF Pending
      <3>3. CASE d = c
        BY <1>1, <2>2, <3>1, <3>2, <3>3 DEF BatchOK
      <3>4. CASE d # c
        BY <1>1, <2>5, <3>1, <3>2, <3>4 DEF BatchOK
      <3> QED  BY <3>3, <3>4
    <2> QED  BY <1>2, <2>4, <2>6, <2>7, QuietAccounts DEF OrderInv
  <1> QED  BY <1>4, <1>5, <1>6 DEF UploadNext

\* Steps of a request that change only the request.
LEMMA AskOrder ==
    ASSUME TypeInv, OrderInv, NEW r \in Requests,
           \/ \E c \in Collections : DeleteRequest(r, c)
           \/ \E j \in Jobs : RetryRequest(r, j)
           \/ RefuseJob(r) \/ RefuseRetry(r) \/ RequestDies(r) \/ FindJob(r)
    PROVE  OrderInv'
  <1>1. UNCHANGED <<collection, artifact, cleanup, job, wf, upload>>
    BY DEF DeleteRequest, RetryRequest, RefuseJob, RefuseRetry, RequestDies, FindJob, storeVars, artifactVars
  <1>2. ASSUME NEW q \in RequestRecord, request' = [request EXCEPT ![r] = q],
               q.pc # "enqueue", q.pc = "create" => q.target \in Collections
        PROVE  OrderInv'
    <2>1. \A p \in Requests : Enqueues(p)'
      BY <1>1, <1>2 DEF OrderInv, AttemptsInv, Enqueues, TypeInv, TypeOK
    <2> QED  BY <1>1, <2>1, RequestsMove
  <1>3. IdleRequest \in RequestRecord /\ IdleRequest.pc = "idle"
    BY DeletionAssumption DEF IdleRequest, RequestRecord, RequestPC
  <1>4. CASE RefuseJob(r) \/ RefuseRetry(r) \/ RequestDies(r)
    BY <1>2, <1>3, <1>4 DEF RefuseJob, RefuseRetry, RequestDies
  <1>5. ASSUME NEW c \in Collections, DeleteRequest(r, c)
        PROVE  OrderInv'
    <2> DEFINE q == [IdleRequest EXCEPT !.pc = "create", !.target = c]
    <2>1. q \in RequestRecord /\ q.pc = "create" /\ q.target = c
      BY <1>3 DEF RequestRecord, RequestPC
    <2> QED  BY <1>2, <1>5, <2>1 DEF DeleteRequest
  <1>6. ASSUME NEW j \in Jobs, RetryRequest(r, j)
        PROVE  OrderInv'
    <2> DEFINE q == [IdleRequest EXCEPT !.pc = "retry", !.job = j]
    <2>1. j \in 0..MaxJobs
      BY DeletionAssumption DEF Jobs
    <2>2. q \in RequestRecord
      BY <1>3, <2>1 DEF RequestRecord, RequestPC
    <2>3. q.pc = "retry"
      BY DEF IdleRequest
    <2> QED  BY <1>2, <1>6, <2>2, <2>3 DEF RetryRequest
  <1>7. CASE FindJob(r)
    <2>1. PICK j \in Jobs :
             /\ job[j].status \in ActiveDeletionStatus
             /\ request' = [request EXCEPT ![r].pc = "enqueue", ![r].job = j,
                                           ![r].attempt = job[j].attempt]
      BY <1>7 DEF FindJob, ActiveJobs
    <2> DEFINE q == [request[r] EXCEPT !.pc = "enqueue", !.job = j, !.attempt = job[j].attempt]
    <2>2. request' = [request EXCEPT ![r] = q]
      BY <2>1 DEF TypeInv, TypeOK
    <2>3. q.job = j /\ q.attempt = job[j].attempt /\ q.pc = "enqueue"
      BY DEF TypeInv, TypeOK, RequestRecord
    <2> HIDE DEF q
    <2>4. JobAttempts(j) /\ job[j].attempt \in 1..job[j].attempt
      BY <2>1, Rows DEF OrderInv, AttemptsInv, JobAttempts, ActiveDeletionStatus
    <2>5. wf[j][job[j].attempt].pc = "none" => job[j].status = "QUEUED"
      BY <2>1, <2>4 DEF JobAttempts, ActiveDeletionStatus
    <2>6. \A p \in Requests : Enqueues(p)'
      BY <1>1, <2>2, <2>3, <2>4, <2>5 DEF OrderInv, AttemptsInv, Enqueues, TypeInv, TypeOK
    <2> QED  BY <1>1, <2>6, RequestsMove
  <1> QED  BY <1>4, <1>5, <1>6, <1>7

\* A new job is of a whole collection that no other job works on.
LEMMA CreateOrder ==
    ASSUME TypeInv, OrderInv, NEW r \in Requests, CreateJob(r)
    PROVE  OrderInv'
  <1> DEFINE c == request[r].target
             row == [status |-> "QUEUED", target |-> c, attempt |-> 1, done |-> NoTotals]
  <1>1. PICK j \in Jobs :
           /\ job[j].status = "NONE"
           /\ job' = [job EXCEPT ![j] = row]
           /\ request' = [request EXCEPT ![r].pc = "enqueue", ![r].job = j, ![r].attempt = 1]
    <2>1. \A k \in Jobs : k >= k
      BY DEF Jobs
    <2> QED  BY <2>1 DEF CreateJob
  <1>2. /\ c \in Collections /\ collection[c] = "OPEN" /\ upload[c] = NoUpload
        /\ collection' = [collection EXCEPT ![c] = "DELETING"]
        /\ UNCHANGED <<artifact, cleanup, upload, wf>>
        /\ \A k \in Jobs : job[k].status \in ActiveDeletionStatus => job[k].target # c
    BY DEF CreateJob, ActiveJobs, OrderInv, AttemptsInv, Enqueues
  <1>3. /\ row.status = "QUEUED" /\ row.target = c /\ row.attempt = 1
        /\ row.done = NoTotals /\ Untouched(row.done)
    BY DEF Untouched, NoTotals
  <1>4. JobAttempts(j) /\ job[j].attempt = 0 /\ job[j].target = NoCollection /\ job[j].done = NoTotals
    BY <1>1 DEF OrderInv, AttemptsInv, JobAttempts
  <1>5. \A n \in Attempts : wf[j][n].pc = "none"
    BY <1>4 DEF JobAttempts, Attempts
  <1> HIDE DEF c, row
  <1>6. \A k \in Jobs : job'[k] = IF k = j THEN row ELSE job[k]
    BY <1>1 DEF TypeInv, TypeOK
  <1>7. \A d \in Collections : collection'[d] = IF d = c THEN "DELETING" ELSE collection[d]
    BY <1>2 DEF TypeInv, TypeOK
  <1>8. (\A d : Lost(d)' = Lost(d) /\ Held(d)' = Held(d)) /\ (\A k \in Jobs : Pending(k)' = Pending(k))
    BY <1>2 DEF Lost, Held, Live, Pending
  <1>9. AttemptsInv'
    <2>1. JobAttempts(j)'
      BY <1>2, <1>3, <1>5, <1>6 DEF JobAttempts
    <2>2. ASSUME NEW k \in Jobs, k # j
          PROVE  JobAttempts(k)'
      BY <1>2, <1>6, <2>2 DEF OrderInv, AttemptsInv, JobAttempts, Alive
    <2>3. ASSUME NEW q \in Requests
          PROVE  Enqueues(q)'
      <3>1. CASE q = r
        <4>1. /\ request'[q].pc = "enqueue" /\ request'[q].job = j /\ request'[q].attempt = 1
          BY <1>1, <3>1 DEF TypeInv, TypeOK, RequestRecord
        <4> QED  BY <1>3, <1>6, <4>1 DEF Enqueues
      <3>2. CASE q # r
        <4>1. request'[q] = request[q] /\ Enqueues(q)
          BY <1>1, <3>2 DEF TypeInv, TypeOK, OrderInv, AttemptsInv
        <4>2. request[q].pc = "enqueue" => request[q].job \in Jobs /\ request[q].job # j
          BY <1>4, <4>1 DEF Enqueues, TypeInv, RequestsKnowJobs
        <4> QED  BY <1>2, <1>6, <4>1, <4>2 DEF Enqueues
      <3> QED  BY <3>1, <3>2
    <2> QED  BY <2>1, <2>2, <2>3 DEF AttemptsInv
  <1>10. \A k \in Jobs : k # j /\ job[k].target = c =>
            /\ job[k].status # "COMPLETED"
            /\ \A n \in Attempts : wf[k][n].pc \notin {"blobs", "erasing", "complete", "completed",
                                                       "items_commit", "record_commit"}
    BY <1>2 DEF OrderInv, ActiveInv, BatchesInv, BatchOK
  <1>11. ActiveInv'
    <2>1. \A k \in Jobs : job'[k].status \in ActiveDeletionStatus /\ job'[k].target = c => k = j
      BY <1>2, <1>6
    <2>2. \A k \in Jobs : k # j /\ job[k].status # "NONE" => job[k].target \in Collections
      BY DEF OrderInv, AttemptsInv, JobAttempts
    <2>3. ASSUME NEW k \in Jobs, k # j, job[k].target \in Collections
          PROVE  /\ job[k].status \in ActiveDeletionStatus => collection'[job[k].target] # "OPEN"
                 /\ job[k].status = "COMPLETED" => collection'[job[k].target] = "GONE"
                 /\ \A n \in Attempts :
                       wf[k][n].pc \in {"blobs", "erasing", "complete", "completed"} =>
                          collection'[job[k].target] = "GONE"
      BY <1>7, <1>10, <2>3 DEF OrderInv, ActiveInv
    <2>4. \A k \in Jobs, n \in Attempts :
             wf[k][n].pc \in {"blobs", "erasing", "complete", "completed"} => job[k].target \in Collections
      BY AtWork
    <2>5. \A k \in Jobs, l \in Jobs :
             job'[k].status \in ActiveDeletionStatus /\ job'[l].status \in ActiveDeletionStatus
                /\ job'[k].target = job'[l].target => k = l
      BY <1>3, <1>6, <2>1 DEF OrderInv, ActiveInv
    <2>6. \A k \in Jobs : job'[k].status \in ActiveDeletionStatus => collection'[job'[k].target] # "OPEN"
      BY <1>2, <1>3, <1>6, <1>7, <2>2, <2>3 DEF ActiveDeletionStatus
    <2>7. \A k \in Jobs : job'[k].status = "COMPLETED" => collection'[job'[k].target] = "GONE"
      BY <1>3, <1>6, <2>2, <2>3
    <2>8. \A k \in Jobs, n \in Attempts :
             wf'[k][n].pc \in {"blobs", "erasing", "complete", "completed"} =>
                collection'[job'[k].target] = "GONE"
      BY <1>2, <1>5, <1>6, <2>3, <2>4
    <2> QED  BY <2>5, <2>6, <2>7, <2>8 DEF ActiveInv
  <1>12. UploadsInv'
    BY <1>2, <1>7, <1>8 DEF OrderInv, UploadsInv
  <1>13. BatchesInv'
    <2> SUFFICES ASSUME NEW k \in Jobs, NEW n \in Attempts, NEW d \in Collections, job'[k].target = d
                 PROVE  BatchOK(k, d, wf[k][n])'
      BY <1>2 DEF BatchesInv
    <2>1. CASE k = j
      BY <1>2, <1>5, <2>1 DEF BatchOK
    <2>2. CASE k # j
      <3>1. job'[k] = job[k] /\ BatchOK(k, d, wf[k][n])
        BY <1>6, <2>2 DEF OrderInv, BatchesInv
      <3>2. d = c => wf[k][n].pc \notin {"items_commit", "record_commit"}
        BY <1>10, <2>2, <3>1
      <3> QED  BY <1>2, <1>7, <1>8, <3>1, <3>2 DEF BatchOK
    <2> QED  BY <2>1, <2>2
  <1>14. Lost(c) = {}
    BY <1>2 DEF OrderInv, LostInv
  <1>15. LostInv'
    <2>1. \A d \in Collections : collection'[d] = "OPEN" => Lost(d)' = {}
      BY <1>7, <1>8 DEF OrderInv, LostInv
    <2>2. ASSUME NEW d \in Collections, Lost(d)' # {}
          PROVE  \E k \in Jobs : job'[k].target = d /\ ~Untouched(job'[k].done)
      <3>1. PICK k \in Jobs : job[k].target = d /\ ~Untouched(job[k].done)
        BY <1>8, <2>2 DEF OrderInv, LostInv
      <3> QED  BY <1>4, <1>6, <3>1, StoreAssumption
    <2>3. \A k \in Jobs, d \in Collections :
             Alive(k)' /\ job'[k].target = d /\ Untouched(job'[k].done) => Lost(d)' = {}
      BY <1>3, <1>6, <1>8, <1>14 DEF OrderInv, LostInv, Alive
    <2> QED  BY <2>1, <2>2, <2>3 DEF LostInv
  <1>16. CountedInv'
    <2> SUFFICES ASSUME NEW k \in Jobs PROVE Counted(k)'
      BY DEF CountedInv
    <2>1. Counted(k) /\ Counted(j)
      BY DEF OrderInv, CountedInv
    <2>2. CASE k = j
      <3>1. job'[k].done = NoTotals /\ job'[k].target = c /\ job'[k].status = "QUEUED"
        BY <1>3, <1>6, <2>2
      <3>2. Cardinality(Lost(c)) = 0 /\ Cardinality(Lost(c) \cap ItemArtifacts) = 0
        BY <1>14, FS_EmptySet
      <3>3. job[k].done = NoTotals
        BY <1>4, <2>2
      <3> QED  BY <1>8, <2>1, <3>1, <3>2, <3>3 DEF Counted, NoTotals
    <2>3. CASE k # j
      <3>1. job'[k] = job[k]
        BY <1>6, <2>3
      <3>2. Sole(k)' => Sole(k)
        <4> SUFFICES ASSUME Sole(k)', NEW l \in Jobs \ {k}, job[l].target = job[k].target
                     PROVE  Untouched(job[l].done)
          BY DEF Sole
        <4>1. CASE l = j
          BY <1>4, <4>1 DEF Untouched, NoTotals
        <4>2. CASE l # j
          BY <1>6, <3>1, <4>2 DEF Sole
        <4> QED  BY <4>1, <4>2
      <3> QED  BY <1>8, <2>1, <3>1, <3>2 DEF Counted
    <2> QED  BY <2>2, <2>3
  <1> QED  BY <1>9, <1>11, <1>12, <1>13, <1>15, <1>16 DEF OrderInv

-----------------------------------------------------------------------------
(* Jobs that fail and are tried again.                                      *)

\* No attempt of job j is at work, and what the others have read stays.
Stays(j) ==
    /\ \A n \in Attempts : wf'[j][n].pc \in {"none", "failed"}
    /\ \A k \in Jobs, n \in Attempts : wf'[k][n] = wf[k][n] \/ wf'[k][n].pc = "failed"

\* A job that works on its collection alone fails: the collection opens again if it is whole.
LEMMA FailOrder ==
    ASSUME TypeInv, OrderInv, NEW j \in Jobs, Alive(j), FailDeletion(j), Stays(j),
           UNCHANGED <<artifact, cleanup, upload>>
    PROVE  ActiveInv' /\ UploadsInv' /\ BatchesInv' /\ LostInv' /\ CountedInv'
  <1> DEFINE c == job[j].target
             row == [job[j] EXCEPT !.status = "FAILED"]
  <1>1. c \in Collections /\ collection[c] # "OPEN"
    BY DEF OrderInv, AttemptsInv, JobAttempts, ActiveInv, Alive, ActiveDeletionStatus
  <1>2. job' = [job EXCEPT ![j] = row]
    BY DEF FailDeletion, TypeInv, TypeOK
  <1>3. row.status = "FAILED" /\ row.target = c /\ row.done = job[j].done
    BY Rows DEF JobRecord
  <1> HIDE DEF row
  <1>4. \A k \in Jobs : job'[k] = IF k = j THEN row ELSE job[k]
    BY <1>2 DEF TypeInv, TypeOK
  <1>5. \A k \in Jobs : /\ job'[k].target = job[k].target /\ job'[k].done = job[k].done
                        /\ job'[k].status # "FAILED" => k # j /\ job'[k].status = job[k].status
    BY <1>3, <1>4
  <1>6. \A d \in Collections :
           \/ collection'[d] = collection[d]
           \/ d = c /\ collection[c] = "DELETING" /\ collection'[c] = "OPEN" /\ Untouched(job[j].done)
    BY <1>1 DEF FailDeletion, TypeInv, TypeOK, CollectionStatus
  <1>7. \A k \in Jobs, d \in Collections :
           Alive(k) /\ job[k].target = d /\ k # j => collection'[d] = collection[d]
    BY <1>6, Alone
  <1> HIDE DEF c
  <1>8. ActiveInv'
    <2>1. \A k \in Jobs, l \in Jobs :
             job'[k].status \in ActiveDeletionStatus /\ job'[l].status \in ActiveDeletionStatus
                /\ job'[k].target = job'[l].target => k = l
      BY <1>5 DEF OrderInv, ActiveInv, ActiveDeletionStatus
    <2>2. ASSUME NEW k \in Jobs, Alive(k)'
          PROVE  k # j /\ Alive(k) /\ job'[k] = job[k] /\ job[k].target \in Collections
                       /\ collection'[job[k].target] = collection[job[k].target]
      <3>1. k # j /\ Alive(k)
        BY <1>5, <2>2 DEF Alive, ActiveDeletionStatus
      <3>2. job[k].target \in Collections
        BY <3>1 DEF OrderInv, AttemptsInv, JobAttempts, Alive, ActiveDeletionStatus
      <3> QED  BY <1>4, <1>7, <3>1, <3>2
    <2>3. \A k \in Jobs : job'[k].status \in ActiveDeletionStatus => collection'[job'[k].target] # "OPEN"
      BY <2>2 DEF OrderInv, ActiveInv, Alive
    <2>4. \A k \in Jobs : job'[k].status = "COMPLETED" => collection'[job'[k].target] = "GONE"
      BY <2>2 DEF OrderInv, ActiveInv, Alive
    <2>5. ASSUME NEW k \in Jobs, NEW n \in Attempts,
                 wf'[k][n].pc \in {"blobs", "erasing", "complete", "completed"}
          PROVE  collection'[job'[k].target] = "GONE"
      <3>1. wf'[k][n] = wf[k][n]
        BY <2>5 DEF Stays
      <3>2. job[k].target \in Collections /\ collection[job[k].target] = "GONE"
        BY <2>5, <3>1, AtWork DEF OrderInv, ActiveInv
      <3> QED  BY <1>5, <1>6, <3>2
    <2> QED  BY <2>1, <2>3, <2>4, <2>5 DEF ActiveInv
  <1>9. \A d : Held(d)' = Held(d)
    BY DEF Held, Live
  <1>10. UploadsInv'
    BY <1>6, <1>9 DEF OrderInv, UploadsInv
  <1>11. BatchesInv'
    <2> SUFFICES ASSUME NEW k \in Jobs, NEW n \in Attempts, NEW d \in Collections, job[k].target = d,
                        wf'[k][n].pc \in {"items_commit", "record_commit", "erasing"}
                 PROVE  BatchOK(k, d, wf[k][n])'
      BY <1>5 DEF BatchesInv, BatchOK
    <2>1. wf'[k][n] = wf[k][n] /\ k # j
      BY DEF Stays
    <2>2. BatchOK(k, d, wf[k][n]) /\ Alive(k)
      BY <2>1, AtWork DEF OrderInv, BatchesInv
    <2>3. collection'[d] = collection[d] /\ Pending(k)' = Pending(k)
      BY <1>7, <2>1, <2>2 DEF Pending
    <2> QED  BY <1>5, <1>9, <2>1, <2>2, <2>3 DEF BatchOK
  <1>12. Quiet
    <2>1. \A d \in Collections : collection'[d] = "OPEN" => Lost(d) = {}
      BY <1>6 DEF OrderInv, LostInv, c
    <2>2. \A k \in Jobs : job'[k].status \in ActiveDeletionStatus \cup {"COMPLETED"} =>
             Alive(k) /\ job'[k].status = job[k].status
      BY <1>5 DEF Alive, ActiveDeletionStatus
    <2> QED  BY <1>5, <2>1, <2>2 DEF Quiet
  <1> QED  BY <1>8, <1>10, <1>11, <1>12, QuietAccounts

\* The enqueue of a job that nobody works on fails.
LEMMA EnqueueFailsOrder ==
    ASSUME TypeInv, OrderInv, InOrder, NEW r \in Requests, EnqueueFails(r)
    PROVE  OrderInv'
  <1>0. PICK j \in Jobs : j = request[r].job
    BY DEF EnqueueFails, TypeInv, RequestsKnowJobs
  <1> DEFINE n == request[r].attempt
             row == [job[j] EXCEPT !.status = "FAILED"]
  <1>1. /\ FailDeletion(j) /\ request' = [request EXCEPT ![r] = IdleRequest]
        /\ UNCHANGED <<artifact, cleanup, upload, wf>>
        /\ wf[j][n].pc = "none"
        /\ \A q \in Requests \ {r} : request[q].pc = "enqueue" => request[q].job # j
    BY <1>0 DEF EnqueueFails, InOrder
  <1>2. n = job[j].attempt /\ job[j].status = "QUEUED" /\ Alive(j)
    BY <1>0, <1>1 DEF EnqueueFails, OrderInv, AttemptsInv, Enqueues, Alive, ActiveDeletionStatus
  <1>3. job' = [job EXCEPT ![j] = row]
    BY <1>1 DEF FailDeletion, TypeInv, TypeOK
  <1>4. row.status = "FAILED" /\ row.target = job[j].target /\ row.attempt = n /\ row.done = job[j].done
    BY <1>1, <1>2, Rows DEF JobRecord
  <1> HIDE DEF n, row
  <1>5. \A k \in Jobs : job'[k] = IF k = j THEN row ELSE job[k]
    BY <1>1, <1>3 DEF TypeInv, TypeOK
  <1>6. \A m \in Attempts : wf[j][m].pc \in {"none", "failed"}
    BY <1>1, <1>2 DEF OrderInv, AttemptsInv, JobAttempts
  <1>7. Stays(j)
    BY <1>1, <1>6 DEF Stays
  <1>8. JobAttempts(j)'
    <2>1. JobAttempts(j) /\ wf' = wf /\ job'[j] = row
      BY <1>1, <1>5 DEF OrderInv, AttemptsInv
    <2>2. job[j].target \in Collections /\ n # 0 /\ (\A m \in Attempts : wf[j][m].pc # "none" => m <= n)
      BY <1>2, <2>1 DEF JobAttempts
    <2> QED  BY <1>4, <1>6, <2>1, <2>2 DEF JobAttempts
  <1>9. ASSUME NEW k \in Jobs
        PROVE  JobAttempts(k)'
    <2>1. CASE k = j
      BY <1>8, <2>1
    <2>2. CASE k # j
      <3>1. job'[k] = job[k] /\ wf' = wf /\ JobAttempts(k)
        BY <1>1, <1>5, <2>2 DEF OrderInv, AttemptsInv
      <3> QED  BY <3>1 DEF JobAttempts, Alive
    <2> QED  BY <2>1, <2>2
  <1>10. ASSUME NEW q \in Requests
         PROVE  Enqueues(q)'
    <2>1. CASE q = r
      BY <1>1, <2>1 DEF Enqueues, IdleRequest, TypeInv, TypeOK
    <2>2. CASE q # r
      <3>1. request'[q] = request[q] /\ Enqueues(q)
        BY <1>1, <2>2 DEF TypeInv, TypeOK, OrderInv, AttemptsInv
      <3>2. request[q].pc = "enqueue" => request[q].job \in Jobs /\ request[q].job # j
        BY <1>1, <2>2 DEF TypeInv, RequestsKnowJobs
      <3> QED  BY <1>1, <1>5, <3>1, <3>2 DEF Enqueues
    <2> QED  BY <2>1, <2>2
  <1> QED  BY <1>1, <1>2, <1>7, <1>9, <1>10, FailOrder DEF OrderInv, AttemptsInv

\* The retry of the only job that deleted anything.
LEMMA RetryOrder ==
    ASSUME TypeInv, OrderInv, InOrder, NEW r \in Requests, RetryJob(r)
    PROVE  OrderInv'
  <1>0. PICK j \in Jobs : j = request[r].job
    BY DEF RetryJob, TypeInv, RequestsKnowJobs
  <1> DEFINE row == [job[j] EXCEPT !.status = "QUEUED", !.attempt = job[j].attempt + 1]
  <1>1. PICK c \in Collections : c = job[j].target
    BY <1>0 DEF RetryJob, OrderInv, AttemptsInv, JobAttempts
  <1>2. /\ job[j].status = "FAILED" /\ upload[c] = NoUpload
        /\ job[j].attempt < MaxAttempts
        /\ collection' = IF collection[c] = "GONE" THEN collection
                         ELSE [collection EXCEPT ![c] = "DELETING"]
        /\ request' = [request EXCEPT ![r].pc = "enqueue", ![r].attempt = job[j].attempt + 1]
        /\ UNCHANGED <<artifact, cleanup, upload, wf>>
        /\ \A k \in Jobs : k # j /\ job[k].target = c =>
              job[k].status \notin ActiveDeletionStatus /\ Untouched(job[k].done)
    BY <1>0, <1>1 DEF RetryJob, Conflict, ActiveJobs, InOrder
  <1>3. job' = [job EXCEPT ![j] = row]
    BY <1>0 DEF RetryJob, TypeInv, TypeOK
  <1>4. /\ row.status = "QUEUED" /\ row.target = c /\ row.done = job[j].done
        /\ row.attempt = job[j].attempt + 1 /\ row.attempt \in Attempts
    BY <1>1, <1>2, Rows, DeletionAssumption DEF JobRecord, Attempts
  <1> HIDE DEF row
  <1>5. \A k \in Jobs : job'[k] = IF k = j THEN row ELSE job[k]
    BY <1>3 DEF TypeInv, TypeOK
  <1>6. \A k \in Jobs : job'[k].target = job[k].target /\ job'[k].done = job[k].done
    BY <1>1, <1>4, <1>5
  <1>7. \A d \in Collections :
           collection'[d] = IF d = c /\ collection[c] # "GONE" THEN "DELETING" ELSE collection[d]
    BY <1>2 DEF TypeInv, TypeOK
  <1>8. JobAttempts(j) /\ ~Alive(j)
    BY <1>2 DEF OrderInv, AttemptsInv, Alive, ActiveDeletionStatus
  <1>9. \A n \in Attempts : wf[j][n].pc \in {"none", "failed"}
    BY <1>8 DEF JobAttempts
  <1>10. \A n \in Attempts : wf[j][n].pc # "none" => n <= job[j].attempt
    BY <1>8 DEF JobAttempts
  <1>11. AttemptsInv'
    <2>1. JobAttempts(j)'
      <3>1. job'[j] = row /\ wf' = wf
        BY <1>2, <1>5
      <3>2. row.attempt # 0 /\ \A n \in Attempts : wf[j][n].pc # "none" => n <= row.attempt
        BY <1>4, <1>10, Rows DEF Attempts
      <3> QED  BY <1>4, <1>9, <3>1, <3>2 DEF JobAttempts
    <2>2. ASSUME NEW k \in Jobs, k # j
          PROVE  JobAttempts(k)'
      <3>1. job'[k] = job[k] /\ wf' = wf /\ JobAttempts(k)
        BY <1>2, <1>5, <2>2 DEF OrderInv, AttemptsInv
      <3> QED  BY <3>1 DEF JobAttempts, Alive
    <2>3. ASSUME NEW q \in Requests
          PROVE  Enqueues(q)'
      <3>1. CASE q = r
        <4>1. request'[q].pc = "enqueue" /\ request'[q].job = j /\ request'[q].attempt = row.attempt
          BY <1>0, <1>2, <1>4, <3>1 DEF TypeInv, TypeOK, RequestRecord
        <4>2. row.attempt \in 1..row.attempt
          BY <1>4 DEF Attempts
        <4> QED  BY <1>4, <1>5, <4>1, <4>2 DEF Enqueues
      <3>2. CASE q # r
        <4>1. request'[q] = request[q] /\ Enqueues(q)
          BY <1>2, <3>2 DEF TypeInv, TypeOK, OrderInv, AttemptsInv
        <4>2. CASE request[q].job = j
          <5>1. request[q].pc = "enqueue" =>
                   /\ wf[j][request[q].attempt].pc # "none"
                   /\ request[q].attempt \in 1..job[j].attempt
            BY <1>2, <4>1, <4>2 DEF Enqueues
          <5>2. request[q].pc = "enqueue" => request[q].attempt \in 1..row.attempt
            BY <1>4, <5>1, Rows
          <5> QED  BY <1>2, <1>5, <4>1, <4>2, <5>1, <5>2 DEF Enqueues
        <4>3. CASE request[q].job # j
          <5>1. request[q].pc = "enqueue" => request[q].job \in Jobs
            BY DEF TypeInv, RequestsKnowJobs
          <5> QED  BY <1>2, <1>5, <4>1, <4>3, <5>1 DEF Enqueues
        <4> QED  BY <4>2, <4>3
      <3> QED  BY <3>1, <3>2
    <2> QED  BY <2>1, <2>2, <2>3 DEF AttemptsInv
  <1>12. ActiveInv'
    <2>1. \A k \in Jobs, l \in Jobs :
             job'[k].status \in ActiveDeletionStatus /\ job'[l].status \in ActiveDeletionStatus
                /\ job'[k].target = job'[l].target => k = l
      BY <1>1, <1>2, <1>4, <1>5 DEF OrderInv, ActiveInv
    <2>2. ASSUME NEW k \in Jobs, k # j, Alive(k)
          PROVE  /\ job[k].target \in Collections
                 /\ collection[job[k].target] # "OPEN"
                 /\ job[k].status = "COMPLETED" => collection[job[k].target] = "GONE"
      <3>1. job[k].target \in Collections
        BY <2>2 DEF OrderInv, AttemptsInv, JobAttempts, Alive, ActiveDeletionStatus
      <3> QED  BY <2>2, <3>1 DEF OrderInv, ActiveInv, Alive
    <2>3. \A k \in Jobs : job'[k].status \in ActiveDeletionStatus => collection'[job'[k].target] # "OPEN"
      BY <1>1, <1>4, <1>5, <1>7, <2>2 DEF Alive
    <2>4. \A k \in Jobs : job'[k].status = "COMPLETED" => collection'[job'[k].target] = "GONE"
      BY <1>4, <1>5, <1>7, <2>2 DEF Alive
    <2>5. ASSUME NEW k \in Jobs, NEW n \in Attempts,
                 wf'[k][n].pc \in {"blobs", "erasing", "complete", "completed"}
          PROVE  collection'[job'[k].target] = "GONE"
      <3>1. job[k].target \in Collections /\ collection[job[k].target] = "GONE"
        BY <1>2, <2>5, AtWork DEF OrderInv, ActiveInv
      <3> QED  BY <1>6, <1>7, <3>1
    <2> QED  BY <2>1, <2>3, <2>4, <2>5 DEF ActiveInv
  <1>13. (\A d : Lost(d)' = Lost(d) /\ Held(d)' = Held(d)) /\ (\A k \in Jobs : Pending(k)' = Pending(k))
    BY <1>2 DEF Lost, Held, Live, Pending
  <1>14. UploadsInv'
    BY <1>2, <1>7, <1>13 DEF OrderInv, UploadsInv
  <1>15. BatchesInv'
    <2> SUFFICES ASSUME NEW k \in Jobs, NEW n \in Attempts, NEW d \in Collections, job[k].target = d
                 PROVE  BatchOK(k, d, wf[k][n])'
      BY <1>6 DEF BatchesInv
    <2>1. BatchOK(k, d, wf[k][n])
      BY DEF OrderInv, BatchesInv
    <2>2. collection[d] = "DELETING" => collection'[d] = "DELETING"
      BY <1>7
    <2> QED  BY <1>2, <1>6, <1>13, <2>1, <2>2 DEF BatchOK
  <1>16. Quiet
    <2>1. Untouched(job[j].done) => Lost(c) = {}
      BY <1>2 DEF OrderInv, LostInv
    <2>2. \A d \in Collections : collection'[d] = "OPEN" => Lost(d) = {}
      BY <1>7 DEF OrderInv, LostInv
    <2>3. ASSUME NEW k \in Jobs
          PROVE  /\ job'[k].status = "COMPLETED" => job[k].status = "COMPLETED"
                 /\ job'[k].status \in ActiveDeletionStatus \cup {"COMPLETED"} =>
                       Alive(k) \/ ~Untouched(job[k].done) \/ Lost(job[k].target) = {}
      BY <1>1, <1>4, <1>5, <2>1 DEF Alive
    <2> QED  BY <1>2, <1>6, <2>2, <2>3 DEF Quiet
  <1> QED  BY <1>11, <1>12, <1>14, <1>15, <1>16, QuietAccounts DEF OrderInv

\* A workflow begins with the current attempt of a job that waits for it.
LEMMA EnqueueOrder ==
    ASSUME TypeInv, OrderInv, NEW r \in Requests, Enqueue(r)
    PROVE  OrderInv'
  <1>0. PICK j \in Jobs : j = request[r].job
    BY DEF Enqueue, TypeInv, RequestsKnowJobs
  <1> DEFINE n == request[r].attempt
             row == [wf[j][n] EXCEPT !.pc = "validate"]
  <1>1. /\ request[r].pc = "enqueue" /\ request' = [request EXCEPT ![r] = IdleRequest]
        /\ UNCHANGED <<collection, artifact, cleanup, job, upload>>
        /\ wf' = IF wf[j][n].pc = "none" THEN [wf EXCEPT ![j][n].pc = "validate"] ELSE wf
    BY <1>0 DEF Enqueue, storeVars, artifactVars
  <1>2. n \in 1..job[j].attempt /\ n \in Attempts /\ n <= job[j].attempt
    BY <1>0, <1>1, Rows, DeletionAssumption DEF OrderInv, AttemptsInv, Enqueues, Attempts
  <1>3. wf[j][n].pc = "none" => n = job[j].attempt /\ job[j].status = "QUEUED"
    BY <1>0, <1>1 DEF OrderInv, AttemptsInv, Enqueues
  <1>4. row.pc = "validate"
    BY <1>2, Rows DEF WorkflowRecord
  <1>5. wf[j][n].pc = "none" => wf' = [wf EXCEPT ![j][n] = row]
    BY <1>1, <1>2 DEF TypeInv, TypeOK
  <1> HIDE DEF n, row
  <1>6. \A k \in Jobs, m \in Attempts :
           \/ wf'[k][m] = wf[k][m]
           \/ k = j /\ m = n /\ wf[j][n].pc = "none" /\ wf'[k][m].pc = "validate"
    BY <1>1, <1>2, <1>4, <1>5 DEF TypeInv, TypeOK
  <1>7. ASSUME NEW q \in Requests
        PROVE  Enqueues(q)'
    <2>1. CASE q = r
      BY <1>1, <2>1 DEF Enqueues, IdleRequest, TypeInv, TypeOK
    <2>2. CASE q # r
      <3>1. request'[q] = request[q] /\ Enqueues(q)
        BY <1>1, <2>2 DEF TypeInv, TypeOK, OrderInv, AttemptsInv
      <3>2. request[q].pc = "enqueue" => request[q].job \in Jobs
        BY DEF TypeInv, RequestsKnowJobs
      <3>3. request[q].pc = "enqueue" => request[q].attempt \in Attempts
        BY <3>1, <3>2, Rows, DeletionAssumption DEF Enqueues, Attempts
      <3>4. request[q].pc = "enqueue" /\ wf'[request[q].job][request[q].attempt].pc = "none" =>
               wf[request[q].job][request[q].attempt].pc = "none"
        BY <1>6, <3>2, <3>3
      <3> QED  BY <1>1, <3>1, <3>4 DEF Enqueues
    <2> QED  BY <2>1, <2>2
  <1>8. ASSUME NEW k \in Jobs
        PROVE  JobAttempts(k)'
    <2>1. JobAttempts(k)
      BY DEF OrderInv, AttemptsInv
    <2>2. \A m \in Attempts : wf'[k][m] # wf[k][m] =>
             /\ wf'[k][m].pc = "validate" /\ m <= job[k].attempt /\ m = job[k].attempt /\ Alive(k)
      BY <1>2, <1>3, <1>6 DEF Alive, ActiveDeletionStatus
    <2>3. \A m \in Attempts : wf'[k][m].pc = "none" => wf[k][m].pc = "none"
      BY <1>6
    <2>4. job[k].status \notin {"NONE", "QUEUED", "FAILED"} => job[k].attempt \in Attempts
      BY <2>1, Rows DEF JobAttempts, Attempts
    <2>5. Alive(k)' <=> Alive(k)
      BY <1>1 DEF Alive
    <2>6. \A m \in Attempts : wf'[k][m].pc # "none" => m <= job'[k].attempt
      BY <1>1, <2>1, <2>2 DEF JobAttempts
    <2>7. \A m \in Attempts :
             wf'[k][m].pc \notin {"none", "failed"} => m = job'[k].attempt /\ Alive(k)'
      BY <1>1, <2>1, <2>2, <2>5 DEF JobAttempts
    <2>8. \A m \in Attempts : wf'[k][m].pc = "completed" => job'[k].status = "COMPLETED"
      BY <1>1, <2>1, <2>2 DEF JobAttempts
    <2>9. job'[k].status \notin {"NONE", "QUEUED", "FAILED"} => wf'[k][job'[k].attempt].pc # "none"
      BY <1>1, <2>1, <2>3, <2>4 DEF JobAttempts
    <2>10. /\ job'[k].status = "NONE" <=> job'[k].attempt = 0
           /\ job'[k].status = "NONE" => job'[k].target = NoCollection /\ job'[k].done = NoTotals
           /\ job'[k].status # "NONE" => job'[k].target \in Collections
      BY <1>1, <2>1 DEF JobAttempts
    <2> QED  BY <2>6, <2>7, <2>8, <2>9, <2>10 DEF JobAttempts
  <1>9. ActiveInv'
    BY <1>1, <1>6 DEF OrderInv, ActiveInv
  <1>10. UploadsInv'
    BY <1>1 DEF OrderInv, UploadsInv, Held, Live
  <1>11. BatchesInv'
    <2> SUFFICES ASSUME NEW k \in Jobs, NEW m \in Attempts, NEW d \in Collections, job[k].target = d
                 PROVE  BatchOK(k, d, wf[k][m])'
      BY <1>1 DEF BatchesInv
    <2>1. BatchOK(k, d, wf[k][m]) /\ Held(d)' = Held(d) /\ Pending(k)' = Pending(k)
      BY <1>1 DEF OrderInv, BatchesInv, Held, Live, Pending
    <2>2. wf'[k][m] = wf[k][m] \/ wf'[k][m].pc = "validate"
      BY <1>6
    <2> QED  BY <1>1, <2>1, <2>2 DEF BatchOK
  <1>12. Quiet
    BY <1>1 DEF Quiet, OrderInv, LostInv, Alive
  <1> QED  BY <1>7, <1>8, <1>9, <1>10, <1>11, <1>12, QuietAccounts DEF OrderInv, AttemptsInv

-----------------------------------------------------------------------------
(* The workflow.                                                            *)

\* Attempt n of job j goes on: its own rows become w and row, which is an attempt that has
\* failed exactly if the job has, and has completed only if it has.
Moves(j, n, w, row) ==
    /\ wf[j][n].pc \notin {"none", "failed"}
    /\ wf' = [wf EXCEPT ![j][n] = w]
    /\ job' = [job EXCEPT ![j] = row]
    /\ w.pc # "none"
    /\ row \in JobRecord
    /\ row.target = job[j].target
    /\ row.attempt = job[j].attempt
    /\ row.status # "NONE"
    /\ row.status = "FAILED" <=> w.pc = "failed"
    /\ w.pc = "completed" => row.status = "COMPLETED"
    /\ request' = request

\* What that changes, and that it keeps AttemptsInv.
LEMMA MovesAttempts ==
    ASSUME TypeInv, OrderInv, NEW j \in Jobs, NEW n \in Attempts, NEW w, NEW row, Moves(j, n, w, row)
    PROVE  /\ \A k \in Jobs : job'[k] = IF k = j THEN row ELSE job[k]
           /\ \A k \in Jobs, m \in Attempts : wf'[k][m] = IF k = j /\ m = n THEN w ELSE wf[k][m]
           /\ \A m \in Attempts : m # n => wf[j][m].pc \in {"none", "failed"}
           /\ AttemptsInv'
  <1>1. \A k \in Jobs : job'[k] = IF k = j THEN row ELSE job[k]
    BY DEF Moves, TypeInv, TypeOK
  <1>2. \A k \in Jobs, m \in Attempts : wf'[k][m] = IF k = j /\ m = n THEN w ELSE wf[k][m]
    BY DEF Moves, TypeInv, TypeOK
  <1>3. /\ n = job[j].attempt /\ job[j].target \in Collections
        /\ \A m \in Attempts : m # n => wf[j][m].pc \in {"none", "failed"}
    BY AtWork DEF Moves
  <1>4. JobAttempts(j)
    BY DEF OrderInv, AttemptsInv
  <1>5. JobAttempts(j)'
    <2>1. \A m \in Attempts : wf'[j][m].pc # "none" => m <= row.attempt
      BY <1>2, <1>3, <1>4 DEF JobAttempts, Moves, Attempts
    <2>2. row.status # "FAILED" => row.status \in ActiveDeletionStatus \cup {"COMPLETED"}
      BY DEF Moves, JobRecord, JobStatus, ActiveDeletionStatus
    <2>3. \A m \in Attempts : wf'[j][m].pc \notin {"none", "failed"} =>
             m = row.attempt /\ row.status \in ActiveDeletionStatus \cup {"COMPLETED"}
      BY <1>2, <1>3, <2>2 DEF Moves
    <2>4. \A m \in Attempts : wf'[j][m].pc = "completed" => row.status = "COMPLETED"
      BY <1>2, <1>3 DEF Moves
    <2>5. wf'[j][row.attempt].pc # "none" /\ row.attempt # 0 /\ row.target \in Collections
      BY <1>2, <1>3 DEF Moves, Attempts
    <2>6. job'[j] = row /\ row.status # "NONE"
      BY <1>1 DEF Moves
    <2> QED  BY <2>1, <2>3, <2>4, <2>5, <2>6 DEF JobAttempts, Alive
  <1>6. ASSUME NEW k \in Jobs, k # j
        PROVE  JobAttempts(k)'
    <2>1. JobAttempts(k) /\ job'[k] = job[k] /\ \A m \in Attempts : wf'[k][m] = wf[k][m]
      BY <1>1, <1>2, <1>6 DEF OrderInv, AttemptsInv
    <2>2. job[k].status \notin {"NONE", "QUEUED", "FAILED"} => job[k].attempt \in Attempts
      BY <2>1, Rows DEF JobAttempts, Attempts
    <2> QED  BY <2>1, <2>2 DEF JobAttempts, Alive
  <1>7. ASSUME NEW q \in Requests
        PROVE  Enqueues(q)'
    <2>1. request' = request /\ Enqueues(q)
      BY DEF Moves, OrderInv, AttemptsInv
    <2>2. CASE request[q].pc = "enqueue"
      <3>1. PICK k \in Jobs : k = request[q].job
        BY <2>2 DEF TypeInv, RequestsKnowJobs
      <3>2. PICK m \in Attempts : m = request[q].attempt
        BY <2>1, <2>2, <3>1, Rows, DeletionAssumption DEF Enqueues, Attempts
      <3>3. /\ m \in 1..job[k].attempt
            /\ wf[k][m].pc = "none" => m = job[k].attempt /\ job[k].status = "QUEUED"
        BY <2>1, <2>2, <3>1, <3>2 DEF Enqueues
      <3>4. job'[k].attempt = job[k].attempt
        BY <1>1 DEF Moves
      <3>5. wf'[k][m].pc = "none" => k # j /\ wf[k][m].pc = "none"
        BY <1>2, <1>3, <3>3 DEF Moves
      <3> QED  BY <1>1, <2>1, <2>2, <3>1, <3>2, <3>3, <3>4, <3>5 DEF Enqueues
    <2>3. CASE request[q].pc # "enqueue"
      BY <2>1, <2>3 DEF Enqueues
    <2> QED  BY <2>2, <2>3
  <1> QED  BY <1>1, <1>2, <1>3, <1>5, <1>6, <1>7 DEF AttemptsInv

\* A step that deletes and counts nothing: at most it reads a batch or changes the status.
Reads(j, n, w, row) ==
    /\ Moves(j, n, w, row)
    /\ w.pc # "failed"
    /\ row.done = job[j].done
    /\ \/ row.status = job[j].status
       \/ row.status \in ActiveDeletionStatus /\ ~ Conflict(j)
       \/ row.status = "COMPLETED" /\ Pending(j) = {} /\ collection[job[j].target] = "GONE"
    /\ w.pc \in {"blobs", "erasing", "complete", "completed"} => collection[job[j].target] = "GONE"
    /\ BatchOK(j, job[j].target, w)
    /\ \A k \in Jobs, b \in Blobs : cleanup'[k][b] = "PENDING" <=> cleanup[k][b] = "PENDING"
    /\ UNCHANGED <<collection, artifact, upload>>

\* It keeps the invariant.
LEMMA ReadsOrder ==
    ASSUME TypeInv, OrderInv, NEW j \in Jobs, NEW n \in Attempts, NEW w, NEW row, Reads(j, n, w, row)
    PROVE  OrderInv'
  <1>1. /\ \A k \in Jobs : job'[k] = IF k = j THEN row ELSE job[k]
        /\ \A k \in Jobs, m \in Attempts : wf'[k][m] = IF k = j /\ m = n THEN w ELSE wf[k][m]
        /\ \A m \in Attempts : m # n => wf[j][m].pc \in {"none", "failed"}
        /\ AttemptsInv'
    BY MovesAttempts DEF Reads
  <1>2. \A k \in Jobs : job'[k].target = job[k].target /\ job'[k].done = job[k].done
    BY <1>1 DEF Reads, Moves
  <1>3. Alive(j) /\ job[j].target \in Collections /\ collection[job[j].target] # "OPEN"
    BY AtWork DEF Reads, Moves
  <1>4. \A k \in Jobs : Pending(k)' = Pending(k)
    BY DEF Reads, Pending
  <1>5. ActiveInv'
    <2>1. \A k \in Jobs : k # j /\ job[k].status \in ActiveDeletionStatus
                             /\ job[k].target = job[j].target => row.status \notin ActiveDeletionStatus
      BY DEF Reads, Conflict, ActiveJobs, OrderInv, ActiveInv, ActiveDeletionStatus
    <2>2. \A k \in Jobs, l \in Jobs :
             job'[k].status \in ActiveDeletionStatus /\ job'[l].status \in ActiveDeletionStatus
                /\ job'[k].target = job'[l].target => k = l
      BY <1>1, <1>2, <2>1 DEF OrderInv, ActiveInv
    <2>3. \A k \in Jobs : job'[k].status \in ActiveDeletionStatus => collection'[job'[k].target] # "OPEN"
      BY <1>1, <1>2, <1>3 DEF Reads, OrderInv, ActiveInv
    <2>4. row.status = "COMPLETED" => collection[job[j].target] = "GONE"
      BY DEF Reads, OrderInv, ActiveInv, ActiveDeletionStatus
    <2>5. \A k \in Jobs : job'[k].status = "COMPLETED" => collection'[job'[k].target] = "GONE"
      BY <1>1, <1>2, <2>4 DEF Reads, OrderInv, ActiveInv
    <2>6. \A k \in Jobs, m \in Attempts :
             wf'[k][m].pc \in {"blobs", "erasing", "complete", "completed"} =>
                collection'[job'[k].target] = "GONE"
      BY <1>1, <1>2 DEF Reads, OrderInv, ActiveInv
    <2> QED  BY <2>2, <2>3, <2>5, <2>6 DEF ActiveInv
  <1>6. UploadsInv'
    BY DEF Reads, OrderInv, UploadsInv, Held, Live
  <1>7. \A d : Held(d)' = Held(d)
    BY DEF Reads, Held, Live
  <1>8. BatchesInv'
    <2> SUFFICES ASSUME NEW k \in Jobs, NEW m \in Attempts, NEW d \in Collections, job[k].target = d
                 PROVE  BatchOK(k, d, wf[k][m])'
      BY <1>2 DEF BatchesInv
    <2>1. CASE k = j /\ m = n
      BY <1>1, <1>2, <1>4, <1>7, <2>1 DEF Reads, BatchOK
    <2>2. CASE ~(k = j /\ m = n)
      <3>1. wf'[k][m] = wf[k][m] /\ BatchOK(k, d, wf[k][m])
        BY <1>1, <2>2 DEF OrderInv, BatchesInv
      <3> QED  BY <1>2, <1>4, <1>7, <3>1 DEF Reads, BatchOK
    <2> QED  BY <2>1, <2>2
  <1>9. Quiet
    <2>1. \A k \in Jobs : job'[k].status = "COMPLETED" => job[k].status = "COMPLETED" \/ Pending(k) = {}
      BY <1>1 DEF Reads, ActiveDeletionStatus
    <2>2. \A k \in Jobs : job'[k].status \in ActiveDeletionStatus \cup {"COMPLETED"} => Alive(k)
      BY <1>1, <1>3 DEF Alive
    <2>3. \A d \in Collections : collection'[d] = "OPEN" => Lost(d) = {}
      BY DEF Reads, OrderInv, LostInv
    <2> QED  BY <1>2, <2>1, <2>2, <2>3 DEF Quiet, Reads
  <1> QED  BY <1>1, <1>5, <1>6, <1>8, <1>9, QuietAccounts DEF OrderInv

\* The steps that a workflow moves on to with nothing in memory.
PlainPC == WorkflowPC \ {"none", "failed", "completed", "items_commit", "record_commit", "erasing"}

\* A workflow moves on, and writes nothing.
LEMMA GotoOrder ==
    ASSUME TypeInv, OrderInv, NEW j \in Jobs, NEW n \in Attempts, NEW pc \in PlainPC,
           wf[j][n].pc \notin {"none", "failed"},
           Goto(j, n, pc),
           pc \in {"blobs", "complete"} => collection[job[j].target] = "GONE",
           UNCHANGED <<collection, artifact, cleanup, job, upload, request>>
    PROVE  OrderInv'
  <1> DEFINE w == [NoWorkflow EXCEPT !.pc = pc]
  <1>1. w.pc = pc /\ wf' = [wf EXCEPT ![j][n] = w]
    BY DEF Goto, NoWorkflow
  <1> HIDE DEF w
  <1>2. Alive(j) /\ job[j].target \in Collections
    BY AtWork
  <1>3. job' = [job EXCEPT ![j] = job[j]] /\ job[j] \in JobRecord
    BY DEF TypeInv, TypeOK
  <1>4. Moves(j, n, w, job[j])
    BY <1>1, <1>2, <1>3 DEF Moves, PlainPC, Alive, ActiveDeletionStatus
  <1>5. BatchOK(j, job[j].target, w)
    BY <1>1 DEF BatchOK, PlainPC
  <1>6. Reads(j, n, w, job[j])
    BY <1>1, <1>4, <1>5 DEF Reads, PlainPC
  <1> QED  BY <1>6, ReadsOrder

\* A workflow writes the status of its job, or fails because another job is active.
LEMMA SetStatusOrder ==
    ASSUME TypeInv, OrderInv, NEW j \in Jobs, NEW n \in Attempts,
           NEW status \in ActiveDeletionStatus, NEW next \in PlainPC,
           wf[j][n].pc \notin {"none", "failed"},
           SetStatus(j, n, status, next),
           next \in {"blobs", "complete"} => collection[job[j].target] = "GONE"
    PROVE  OrderInv'
  <1>1. UNCHANGED <<collection, artifact, cleanup, upload, request>>
    BY DEF SetStatus, storeVars
  <1>2. CASE Conflict(j)
    <2>1. "fail" \in PlainPC /\ "fail" \notin {"blobs", "complete"}
      BY DEF PlainPC, WorkflowPC
    <2>2. job' = job /\ Goto(j, n, "fail")
      BY <1>2 DEF SetStatus
    <2> QED  BY <1>1, <2>1, <2>2, GotoOrder
  <1>3. CASE ~ Conflict(j)
    <2> DEFINE w == [NoWorkflow EXCEPT !.pc = next]
               row == [job[j] EXCEPT !.status = status]
    <2>1. w.pc = next /\ wf' = [wf EXCEPT ![j][n] = w]
      BY <1>3 DEF SetStatus, Goto, NoWorkflow
    <2>2. job' = [job EXCEPT ![j] = row]
      BY <1>3 DEF SetStatus, TypeInv, TypeOK
    <2>3. /\ row.status = status /\ row.target = job[j].target /\ row.attempt = job[j].attempt
          /\ row.done = job[j].done
      BY Rows DEF JobRecord
    <2>4. row \in JobRecord
      BY Rows DEF JobRecord, JobStatus, ActiveDeletionStatus
    <2> HIDE DEF w, row
    <2>5. Moves(j, n, w, row)
      BY <1>1, <2>1, <2>2, <2>3, <2>4 DEF Moves, PlainPC, ActiveDeletionStatus
    <2>6. BatchOK(j, job[j].target, w)
      BY <2>1 DEF BatchOK, PlainPC
    <2>7. Reads(j, n, w, row)
      BY <1>1, <1>3, <2>1, <2>3, <2>5, <2>6 DEF Reads, PlainPC
    <2> QED  BY <2>7, ReadsOrder
  <1> QED  BY <1>2, <1>3

\* A batch is read of what the collection still has, together with the totals.
LEMMA BatchReadOrder ==
    ASSUME TypeInv, OrderInv, NEW j \in Jobs, NEW n \in Attempts, NEW w,
           wf[j][n].pc \notin {"none", "failed"},
           wf' = [wf EXCEPT ![j][n] = w],
           w.pc \in {"items_commit", "record_commit", "erasing"},
           w.pc = "erasing" => collection[job[j].target] = "GONE",
           BatchOK(j, job[j].target, w),
           UNCHANGED <<collection, artifact, cleanup, job, upload, request>>
    PROVE  OrderInv'
  <1>1. Alive(j) /\ job' = [job EXCEPT ![j] = job[j]] /\ job[j] \in JobRecord
    BY AtWork DEF TypeInv, TypeOK
  <1>2. Moves(j, n, w, job[j])
    BY <1>1 DEF Moves, Alive, ActiveDeletionStatus
  <1>3. Reads(j, n, w, job[j])
    BY <1>2 DEF Reads
  <1> QED  BY <1>3, ReadsOrder

\* The steps of a workflow that write no more than the status of its job, and its faults.
LEMMA ReadingOrder ==
    ASSUME TypeInv, OrderInv, NEW j \in Jobs, NEW n \in Attempts,
           \/ Validate(j, n) \/ CheckBlockers(j, n) \/ Prepare(j, n)
           \/ ReadItems(j, n) \/ ReadRecord(j, n) \/ BatchConflict(j, n) \/ ReadBlobs(j, n)
           \/ StepGivesUp(j, n) \/ StepRestarts(j, n) \/ StepReplays(j, n)
    PROVE  OrderInv'
  <1> DEFINE Same == UNCHANGED <<collection, artifact, cleanup, job, upload, request>>
             Gone == collection[job[j].target] = "GONE"
  <1>1. {"fail", "validate", "check", "prepare", "items", "record", "blobs", "complete"} \subseteq PlainPC
    BY DEF PlainPC, WorkflowPC
  <1>2. \A pc \in PlainPC :
           /\ wf[j][n].pc \notin {"none", "failed"} /\ Goto(j, n, pc)
           /\ pc \in {"blobs", "complete"} => Gone
           /\ Same
           => OrderInv'
    BY GotoOrder
  <1>3. \A status \in ActiveDeletionStatus, next \in PlainPC :
           /\ wf[j][n].pc \notin {"none", "failed"} /\ SetStatus(j, n, status, next)
           /\ next \in {"blobs", "complete"} => Gone
           => OrderInv'
    BY SetStatusOrder
  <1>4. wf[j][n].pc \in {"blobs", "erasing", "complete", "completed"} => Gone
    BY DEF OrderInv, ActiveInv
  <1>5. wf[j][n].pc \notin {"none", "failed"} =>
           job[j].target \in Collections /\ (~Gone => collection[job[j].target] = "DELETING")
    BY AtWork
  <1>6. CASE Validate(j, n)
    BY <1>1, <1>2, <1>3, <1>6 DEF Validate, At, ActiveDeletionStatus, storeVars, artifactVars
  <1>7. CASE CheckBlockers(j, n)
    <2>1. wf[j][n].pc = "check" /\ Same /\ (Goto(j, n, "fail") \/ Goto(j, n, "prepare"))
      BY <1>7 DEF CheckBlockers, At, storeVars, artifactVars
    <2> QED  BY <1>1, <1>2, <2>1
  <1>8. CASE Prepare(j, n)
    BY <1>1, <1>2, <1>3, <1>8 DEF Prepare, At, ActiveDeletionStatus, storeVars, artifactVars
  <1>9. CASE ReadItems(j, n)
    <2>1. wf[j][n].pc = "items" /\ Same
      BY <1>9 DEF ReadItems, At, storeVars, artifactVars
    <2>2. CASE Goto(j, n, "record")
      BY <1>1, <1>2, <2>1, <2>2
    <2>3. ASSUME NEW batch \in SUBSET ItemsOf(job[j].target), batch # {},
                 ReadBatch(j, n, batch, "items_commit")
          PROVE  OrderInv'
      <3> DEFINE w == [pc |-> "items_commit", batch |-> batch, blobs |-> Unshared(batch),
                       seen |-> job[j].done]
      <3>1. wf' = [wf EXCEPT ![j][n] = w]
        BY <2>3 DEF ReadBatch
      <3>2. w.pc = "items_commit" /\ w.batch = batch /\ w.seen = job[j].done
        OBVIOUS
      <3> HIDE DEF w
      <3>3. ~Gone /\ batch \subseteq Held(job[j].target) /\ batch \subseteq ItemArtifacts
        BY <2>3 DEF ItemsOf, Held
      <3>4. BatchOK(j, job[j].target, w)
        BY <1>5, <2>1, <2>3, <3>2, <3>3 DEF BatchOK
      <3> QED  BY <2>1, <3>1, <3>2, <3>4, BatchReadOrder
    <2> QED  BY <1>9, <2>2, <2>3 DEF ReadItems
  <1>10. CASE ReadRecord(j, n)
    <2>1. wf[j][n].pc = "record"
      BY <1>10 DEF ReadRecord, At
    <2>2. CASE Gone /\ SetStatus(j, n, "DELETING_BLOBS", "blobs")
      BY <1>1, <1>3, <2>1, <2>2 DEF ActiveDeletionStatus
    <2>3. CASE Same /\ Goto(j, n, "fail")
      BY <1>1, <1>2, <2>1, <2>3
    <2>4. CASE ~Gone /\ ItemsOf(job[j].target) = {} /\ Same
               /\ ReadBatch(j, n, ContainersOf(job[j].target), "record_commit")
      <3> DEFINE batch == ContainersOf(job[j].target)
                 w == [pc |-> "record_commit", batch |-> batch, blobs |-> Unshared(batch),
                       seen |-> job[j].done]
      <3>1. wf' = [wf EXCEPT ![j][n] = w]
        BY <2>4 DEF ReadBatch
      <3>2. w.pc = "record_commit" /\ w.batch = batch /\ w.seen = job[j].done
        OBVIOUS
      <3>3. batch = Held(job[j].target) /\ batch \cap ItemArtifacts = {}
        BY <2>4 DEF ItemsOf, ContainersOf, Held
      <3> HIDE DEF w, batch
      <3>4. BatchOK(j, job[j].target, w)
        BY <1>5, <2>1, <2>4, <3>2, <3>3 DEF BatchOK
      <3> QED  BY <2>1, <2>4, <3>1, <3>2, <3>4, BatchReadOrder
    <2> QED  BY <1>10, <2>2, <2>3, <2>4 DEF ReadRecord, storeVars, artifactVars
  <1>11. CASE BatchConflict(j, n)
    <2>1. /\ wf[j][n].pc \in {"items_commit", "record_commit"} /\ Same
          /\ Goto(j, n, "items") \/ Goto(j, n, "fail") \/ Goto(j, n, "record")
      BY <1>11 DEF BatchConflict, At, storeVars, artifactVars
    <2> QED  BY <1>1, <1>2, <2>1
  <1>12. CASE ReadBlobs(j, n)
    <2>1. wf[j][n].pc = "blobs" /\ Same /\ Gone
      BY <1>4, <1>12 DEF ReadBlobs, At, storeVars, artifactVars
    <2>2. CASE Goto(j, n, "complete")
      BY <1>1, <1>2, <2>1, <2>2
    <2>3. ASSUME NEW batch \in SUBSET Pending(j),
                 wf' = [wf EXCEPT ![j][n] = [NoWorkflow EXCEPT !.pc = "erasing", !.blobs = batch,
                                                               !.seen = job[j].done]]
          PROVE  OrderInv'
      <3> DEFINE w == [NoWorkflow EXCEPT !.pc = "erasing", !.blobs = batch, !.seen = job[j].done]
      <3>1. wf' = [wf EXCEPT ![j][n] = w]
        BY <2>3
      <3>2. w.pc = "erasing" /\ w.blobs = batch /\ w.seen = job[j].done
        BY DEF NoWorkflow
      <3> HIDE DEF w
      <3>3. BatchOK(j, job[j].target, w)
        BY <2>3, <3>2 DEF BatchOK
      <3> QED  BY <2>1, <3>1, <3>2, <3>3, BatchReadOrder
    <2> QED  BY <1>12, <2>2, <2>3 DEF ReadBlobs
  <1>13. CASE StepGivesUp(j, n)
    <2>1. wf[j][n].pc \notin {"none", "failed"} /\ Same /\ Goto(j, n, "fail")
      BY <1>13 DEF StepGivesUp, storeVars, artifactVars
    <2> QED  BY <1>1, <1>2, <2>1
  <1>14. CASE StepRestarts(j, n)
    <2>1. /\ wf[j][n].pc \in {"check", "items_commit", "record_commit", "erasing"} /\ Same
          /\ \/ Goto(j, n, "validate") \/ Goto(j, n, "items") \/ Goto(j, n, "record")
             \/ wf[j][n].pc = "erasing" /\ Goto(j, n, "blobs")
      BY <1>14 DEF StepRestarts, At, storeVars, artifactVars
    <2> QED  BY <1>1, <1>2, <1>4, <2>1
  <1>15. CASE StepReplays(j, n)
    <2>1. /\ wf[j][n].pc \in {"prepare", "items", "record", "blobs", "complete", "completed"} /\ Same
          /\ \/ Goto(j, n, "validate") \/ Goto(j, n, "prepare") \/ Goto(j, n, "items")
             \/ Goto(j, n, "record")
             \/ wf[j][n].pc = "complete" /\ Goto(j, n, "blobs")
             \/ wf[j][n].pc = "completed" /\ Goto(j, n, "complete")
      BY <1>15 DEF StepReplays, At, storeVars, artifactVars
    <2> QED  BY <1>1, <1>2, <1>4, <2>1
  <1> QED  BY <1>6, <1>7, <1>8, <1>9, <1>10, <1>11, <1>12, <1>13, <1>14, <1>15

\* A transaction of job j deletes the artifacts D of collection c, which is being deleted,
\* schedules the blobs B and adds both to the totals.
Loses(j, c, D, B, row) ==
    /\ job[j].target = c /\ collection[c] = "DELETING"
    /\ D \subseteq Held(c)
    /\ B \subseteq Blobs /\ B \cap Pending(j) = {}
    /\ \A k \in Jobs : job'[k] = IF k = j THEN row ELSE job[k]
    /\ row.target = c
    /\ row.status \in ActiveDeletionStatus
    /\ row.done.items = job[j].done.items + Cardinality(D \cap ItemArtifacts)
    /\ row.done.artifacts = job[j].done.artifacts + Cardinality(D)
    /\ row.done.blobs = job[j].done.blobs + Cardinality(B)
    /\ row.done.erased = job[j].done.erased
    /\ \A a \in Artifacts : artifact'[a] = IF a \in D THEN Removed ELSE artifact[a]
    /\ \A k \in Jobs, b \in Blobs :
          cleanup'[k][b] = IF k = j /\ b \in B THEN "PENDING" ELSE cleanup[k][b]
    /\ \A d \in Collections :
          \/ collection'[d] = collection[d]
          \/ d = c /\ collection'[c] = "GONE" /\ D = Held(c)
    /\ upload' = upload

\* What the collection has lost is what it had lost and the batch, and it is counted.
LEMMA LosesAccounts ==
    ASSUME TypeInv, OrderInv, NEW j \in Jobs, NEW c \in Collections, Alive(j),
           NEW D, NEW B, NEW row, Loses(j, c, D, B, row)
    PROVE  /\ \A d : d # c => Held(d)' = Held(d)
           /\ \A k \in Jobs : k # j => Pending(k)' = Pending(k)
           /\ UploadsInv' /\ LostInv' /\ CountedInv'
  <1>1. /\ D \subseteq Artifacts /\ D \subseteq Live
        /\ \A a \in D : CollectionOf[a] = c /\ artifact[a] # Removed /\ artifact[a] # Absent
    BY StoreAssumption DEF Loses, Held, Live
  <1>2. /\ Lost(c)' = Lost(c) \cup D /\ Held(c)' = Held(c) \ D
        /\ \A d : d # c => Lost(d)' = Lost(d) /\ Held(d)' = Held(d)
    <2>1. /\ \A a \in Artifacts : artifact'[a] = IF a \in D THEN Removed ELSE artifact[a]
          /\ Removed \notin Blobs
      BY StoreAssumption DEF Loses
    <2> QED  BY <1>1, <2>1 DEF Lost, Held, Live
  <1>3. /\ Pending(j)' = Pending(j) \cup B
        /\ \A k \in Jobs : k # j => Pending(k)' = Pending(k)
    BY DEF Loses, Pending
  <1>4. \A k \in Jobs : job[k].target = c /\ Alive(k) => k = j
    BY Alone DEF Loses
  <1>5. /\ IsFiniteSet(D) /\ IsFiniteSet(B) /\ IsFiniteSet(Lost(c)) /\ IsFiniteSet(Pending(j))
        /\ IsFiniteSet(D \cap ItemArtifacts) /\ IsFiniteSet(Lost(c) \cap ItemArtifacts)
        /\ Cardinality(D) \in Nat /\ Cardinality(B) \in Nat /\ Cardinality(D \cap ItemArtifacts) \in Nat
    <2>1. /\ Lost(c) \subseteq Artifacts /\ Lost(c) \cap ItemArtifacts \subseteq Artifacts
          /\ D \cap ItemArtifacts \subseteq Artifacts /\ Pending(j) \subseteq Blobs
      BY <1>1 DEF Lost, Pending
    <2> QED  BY <1>1, <2>1, FiniteSubsets DEF Loses
  <1>6. job[j].done \in Totals
    BY Rows
  <1>7. Untouched(row.done) => D = {} /\ Untouched(job[j].done)
    <2>1. \A x \in Nat, y \in Nat : x + y = 0 => x = 0 /\ y = 0
      OBVIOUS
    <2>2. job[j].done.items \in Nat /\ job[j].done.artifacts \in Nat /\ job[j].done.blobs \in Nat
      BY <1>6 DEF Totals
    <2>3. Untouched(row.done) =>
             /\ job[j].done.items + Cardinality(D \cap ItemArtifacts) = 0
             /\ job[j].done.artifacts + Cardinality(D) = 0
             /\ job[j].done.blobs + Cardinality(B) = 0
      BY DEF Loses, Untouched
    <2>4. Untouched(row.done) => Cardinality(D) = 0 /\ Untouched(job[j].done)
      BY <1>5, <2>1, <2>2, <2>3 DEF Untouched
    <2> QED  BY <1>5, <2>4, FS_EmptySet
  <1>8. UploadsInv'
    <2>1. ASSUME NEW d \in Collections, upload'[d] # NoUpload
          PROVE  /\ collection'[d] = "OPEN"
                 /\ CollectionOf[upload'[d].artifact] = d
                 /\ artifact'[upload'[d].artifact] = Absent
      <3>1. /\ upload'[d] = upload[d] /\ collection[d] = "OPEN"
            /\ CollectionOf[upload[d].artifact] = d
            /\ artifact[upload[d].artifact] = Absent
        BY <2>1 DEF Loses, OrderInv, UploadsInv
      <3>2. upload[d].artifact \in Artifacts
        BY <2>1, <3>1 DEF TypeInv, TypeOK, UploadRecord
      <3> QED  BY <1>1, <3>1, <3>2 DEF Loses
    <2>2. ASSUME NEW d \in Collections, collection'[d] = "GONE"
          PROVE  Held(d)' = {}
      <3>1. CASE d = c
        BY <1>2, <2>2, <3>1 DEF Loses
      <3>2. CASE d # c
        BY <1>2, <2>2, <3>2 DEF Loses, OrderInv, UploadsInv
      <3> QED  BY <3>1, <3>2
    <2> QED  BY <2>1, <2>2 DEF UploadsInv
  <1>9. LostInv'
    <2>1. \A d \in Collections : collection'[d] = "OPEN" => Lost(d)' = {}
      BY <1>2 DEF Loses, OrderInv, LostInv
    <2>2. ASSUME NEW d \in Collections, Lost(d)' # {}
          PROVE  \E k \in Jobs : job'[k].target = d /\ ~Untouched(job'[k].done)
      <3>1. CASE d = c /\ D # {}
        BY <1>7, <3>1 DEF Loses
      <3>2. CASE d # c \/ D = {}
        <4>1. PICK k \in Jobs : job[k].target = d /\ ~Untouched(job[k].done)
          BY <1>2, <2>2, <3>2 DEF OrderInv, LostInv
        <4> QED  BY <1>7, <4>1 DEF Loses
      <3> QED  BY <3>1, <3>2
    <2>3. ASSUME NEW k \in Jobs, NEW d \in Collections,
                 Alive(k)', job'[k].target = d, Untouched(job'[k].done)
          PROVE  Lost(d)' = {}
      <3>1. CASE k = j
        <4>1. d = c /\ D = {} /\ Untouched(job[j].done)
          BY <1>7, <2>3, <3>1 DEF Loses
        <4> QED  BY <1>2, <4>1 DEF Loses, OrderInv, LostInv
      <3>2. CASE k # j
        <4>1. job'[k] = job[k] /\ Alive(k)
          BY <2>3, <3>2 DEF Loses, Alive
        <4> QED  BY <1>2, <1>4, <2>3, <3>2, <4>1 DEF OrderInv, LostInv
      <3> QED  BY <3>1, <3>2
    <2> QED  BY <2>1, <2>2, <2>3 DEF LostInv
  <1>10. CountedInv'
    <2> SUFFICES ASSUME NEW k \in Jobs PROVE Counted(k)'
      BY DEF CountedInv
    <2>1. Counted(k)
      BY DEF OrderInv, CountedInv
    <2>2. CASE k = j
      <3>1. job'[k] = row /\ row.status # "COMPLETED"
        BY <2>2 DEF Loses, ActiveDeletionStatus
      <3>2. Sole(k)' => Sole(k)
        BY <2>2 DEF Loses, Sole
      <3>3. D \cap Lost(c) = {}
        BY <1>1 DEF Lost
      <3>4. Cardinality(Lost(c)') = Cardinality(Lost(c)) + Cardinality(D)
        BY <1>2, <1>5, <3>3, DisjointSizes
      <3>5. Cardinality(Lost(c)' \cap ItemArtifacts)
               = Cardinality(Lost(c) \cap ItemArtifacts) + Cardinality(D \cap ItemArtifacts)
        <4>1. /\ Lost(c)' \cap ItemArtifacts = (Lost(c) \cap ItemArtifacts) \cup (D \cap ItemArtifacts)
              /\ (Lost(c) \cap ItemArtifacts) \cap (D \cap ItemArtifacts) = {}
          BY <1>2, <3>3
        <4> QED  BY <1>5, <4>1, DisjointSizes
      <3>6. Cardinality(Pending(j)') = Cardinality(Pending(j)) + Cardinality(B)
        <4>1. Pending(j) \cap B = {}
          BY DEF Loses
        <4> QED  BY <1>3, <1>5, <4>1, DisjointSizes
      <3>7. \A d \in Collections \cup {NoCollection} : row.target = d /\ Sole(k)' =>
               /\ row.done.items = Cardinality(Lost(d)' \cap ItemArtifacts)
               /\ row.done.artifacts = Cardinality(Lost(d)')
        BY <2>1, <2>2, <3>2, <3>4, <3>5 DEF Loses, Counted
      <3>8. row.done.blobs = row.done.erased + Cardinality(Pending(k)')
        <4>1. job[j].done.blobs = job[j].done.erased + Cardinality(Pending(j))
          BY <2>1, <2>2 DEF Counted
        <4>2. Cardinality(Pending(j)) \in Nat
          BY <1>5, FS_CardinalityType
        <4> QED  BY <1>5, <1>6, <2>2, <3>6, <4>1, <4>2 DEF Loses, Totals
      <3> QED  BY <3>1, <3>7, <3>8 DEF Counted
    <2>3. CASE k # j
      <3>1. job'[k] = job[k] /\ Pending(k)' = Pending(k)
        BY <1>3, <2>3 DEF Loses
      <3>2. CASE job[k].target = c
        <4>1. Sole(k)' => Untouched(row.done)
          BY <2>3, <3>1, <3>2 DEF Sole, Loses
        <4>2. Sole(k)' => Lost(c)' = Lost(c)
          BY <1>2, <1>7, <4>1
        <4>3. Sole(k)' => Sole(k)
          <5> SUFFICES ASSUME Sole(k)', NEW l \in Jobs \ {k}, job[l].target = c
                       PROVE  Untouched(job[l].done)
            BY <3>2 DEF Sole
          <5>1. CASE l = j
            BY <1>7, <4>1, <5>1
          <5>2. CASE l # j
            BY <3>1, <3>2, <5>2 DEF Sole, Loses
          <5> QED  BY <5>1, <5>2
        <4> QED  BY <2>1, <3>1, <3>2, <4>2, <4>3 DEF Counted
      <3>3. CASE job[k].target # c
        <4>1. Sole(k)' => Sole(k)
          BY <3>1, <3>3 DEF Sole, Loses
        <4> QED  BY <1>2, <2>1, <3>1, <3>3, <4>1 DEF Counted
      <3> QED  BY <3>2, <3>3
    <2> QED  BY <2>2, <2>3
  <1> QED  BY <1>2, <1>3, <1>8, <1>9, <1>10

\* The transactions that delete a batch, or the collection with the rest of its artifacts.
LEMMA CommitLoses ==
    ASSUME TypeInv, ContentInv, OrderInv, NEW j \in Jobs, NEW n \in Attempts,
           CommitItems(j, n) \/ CommitRecord(j, n)
    PROVE  /\ Alive(j)
           /\ \E c \in Collections, pc \in {"items", "record", "blobs"} : \E row :
                 /\ Loses(j, c, wf[j][n].batch, wf[j][n].blobs, row)
                 /\ Moves(j, n, [NoWorkflow EXCEPT !.pc = pc], row)
                 /\ pc = "blobs" => collection'[c] = "GONE"
  <1> DEFINE w == wf[j][n]
             record == w.pc = "record_commit"
             items == IF record THEN 0 ELSE Cardinality(w.batch)
             status == IF record THEN "DELETING_BLOBS" ELSE job[j].status
             done == [items     |-> w.seen.items + items,
                      artifacts |-> w.seen.artifacts + Cardinality(w.batch),
                      blobs     |-> w.seen.blobs + Cardinality(w.blobs),
                      erased    |-> job[j].done.erased]
             row == [job[j] EXCEPT !.status = status, !.done = done]
  <1>1. w.pc \in {"items_commit", "record_commit"} /\ (CommitRecord(j, n) <=> record)
    BY DEF CommitItems, CommitRecord, At
  <1>2. /\ Alive(j) /\ job[j].target \in Collections
        /\ BatchOK(j, job[j].target, w)
    BY <1>1, AtWork DEF OrderInv, BatchesInv
  <1>3. PICK c \in Collections : c = job[j].target
    BY <1>2
  <1>4. /\ collection[c] = "DELETING" /\ w.batch \subseteq Held(c) /\ w.seen = job[j].done
        /\ ~record => w.batch \subseteq ItemArtifacts
        /\ record => w.batch = Held(c) /\ w.batch \cap ItemArtifacts = {}
    BY <1>1, <1>2, <1>3 DEF BatchOK
  <1>5. job[j].status \in ActiveDeletionStatus
    BY <1>2, <1>3, <1>4, Alone
  <1>6. w \in WorkflowRecord /\ w.batch \subseteq Artifacts /\ w.blobs \subseteq Blobs
        /\ job[j] \in JobRecord /\ job[j].done \in Totals
    BY Rows DEF WorkflowRecord
  <1>7. Cardinality(w.batch) \in Nat /\ Cardinality(w.blobs) \in Nat
    BY <1>6, FiniteSubsets
  <1>8. Deletable(j, n) /\ DeleteArtifacts(j, n, items, status)
        /\ UNCHANGED <<upload, request>>
    BY <1>1 DEF CommitItems, CommitRecord, At
  <1>9. items = Cardinality(w.batch \cap ItemArtifacts)
    <2>1. CASE record
      BY <1>4, <2>1, FS_EmptySet
    <2>2. CASE ~record
      <3>1. w.batch \cap ItemArtifacts = w.batch
        BY <1>4, <2>2
      <3> QED  BY <2>2, <3>1
    <2> QED  BY <2>1, <2>2
  <1>10. items \in Nat
    BY <1>7
  <1>11. status \in ActiveDeletionStatus
    BY <1>5 DEF ActiveDeletionStatus
  <1>12. done \in Totals
    BY <1>4, <1>6, <1>7, <1>10 DEF Totals
  <1>13. /\ job' = [job EXCEPT ![j] = row]
    BY <1>8 DEF DeleteArtifacts, TypeInv, TypeOK, JobRecord
  <1>14. /\ row \in JobRecord
         /\ row.status = status /\ row.target = c /\ row.attempt = job[j].attempt /\ row.done = done
    BY <1>3, <1>6, <1>11, <1>12 DEF JobRecord, ActiveDeletionStatus, JobStatus
  <1>15. /\ done.items = job[j].done.items + Cardinality(w.batch \cap ItemArtifacts)
         /\ done.artifacts = job[j].done.artifacts + Cardinality(w.batch)
         /\ done.blobs = job[j].done.blobs + Cardinality(w.blobs)
         /\ done.erased = job[j].done.erased
    BY <1>4, <1>9
  <1> HIDE DEF row, done, status, items
  <1>16. \A k \in Jobs : job'[k] = IF k = j THEN row ELSE job[k]
    BY <1>13 DEF TypeInv, TypeOK
  <1>17. \A a \in Artifacts : artifact'[a] = IF a \in w.batch THEN Removed ELSE artifact[a]
    BY <1>8 DEF DeleteArtifacts
  <1>18. \A k \in Jobs, b \in Blobs :
            cleanup'[k][b] = IF k = j /\ b \in w.blobs THEN "PENDING" ELSE cleanup[k][b]
    BY <1>8 DEF DeleteArtifacts, TypeInv, TypeOK
  <1>19. w.blobs \cap Pending(j) = {}
    BY <1>8, DeletionAssumption DEF Deletable, Pending, ContentInv, ScheduledIsErased
  <1>20. \A d \in Collections :
            \/ collection'[d] = collection[d]
            \/ d = c /\ collection'[c] = "GONE" /\ w.batch = Held(c)
    <2>1. CASE record
      BY <1>1, <1>3, <1>4, <2>1 DEF CommitRecord, TypeInv, TypeOK
    <2>2. CASE ~record
      BY <1>1, <2>2 DEF CommitItems
    <2> QED  BY <2>1, <2>2
  <1>21. Loses(j, c, w.batch, w.blobs, row)
    BY <1>3, <1>4, <1>6, <1>8, <1>11, <1>14, <1>15, <1>16, <1>17, <1>18, <1>19, <1>20 DEF Loses
  <1>22. ASSUME NEW pc \in {"items", "record", "blobs"}, Goto(j, n, pc)
         PROVE  Moves(j, n, [NoWorkflow EXCEPT !.pc = pc], row)
    <2>1. [NoWorkflow EXCEPT !.pc = pc].pc = pc /\ wf' = [wf EXCEPT ![j][n] = [NoWorkflow EXCEPT !.pc = pc]]
      BY <1>22 DEF Goto, NoWorkflow
    <2> QED  BY <1>1, <1>3, <1>8, <1>11, <1>13, <1>14, <2>1 DEF Moves, ActiveDeletionStatus
  <1>23. CASE record
    <2>1. Goto(j, n, "blobs") /\ collection'[c] = "GONE"
      BY <1>1, <1>3, <1>23 DEF CommitRecord, TypeInv, TypeOK
    <2> QED  BY <1>2, <1>21, <1>22, <2>1
  <1>24. CASE ~record
    <2>1. PICK pc \in {"items", "record"} : Goto(j, n, pc)
      BY <1>1, <1>24 DEF CommitItems
    <2> QED  BY <1>2, <1>21, <1>22, <2>1
  <1> QED  BY <1>23, <1>24

\* They keep the invariant: no other workflow is at work on the collection.
LEMMA CommitOrder ==
    ASSUME TypeInv, ContentInv, OrderInv, NEW j \in Jobs, NEW n \in Attempts,
           CommitItems(j, n) \/ CommitRecord(j, n)
    PROVE  OrderInv'
  <1> DEFINE D == wf[j][n].batch
             B == wf[j][n].blobs
  <1>1. Alive(j) /\ wf[j][n].pc \notin {"none", "failed"}
    BY CommitLoses DEF CommitItems, CommitRecord, At
  <1>0. PICK c \in Collections, pc \in {"items", "record", "blobs"} : \E row :
           /\ Loses(j, c, D, B, row)
           /\ Moves(j, n, [NoWorkflow EXCEPT !.pc = pc], row)
           /\ pc = "blobs" => collection'[c] = "GONE"
    BY CommitLoses
  <1>2. PICK row :
           /\ Loses(j, c, D, B, row)
           /\ Moves(j, n, [NoWorkflow EXCEPT !.pc = pc], row)
           /\ pc = "blobs" => collection'[c] = "GONE"
    BY <1>0
  <1> DEFINE w == [NoWorkflow EXCEPT !.pc = pc]
  <1>3. w.pc = pc /\ Moves(j, n, w, row)
    BY <1>2 DEF NoWorkflow
  <1> HIDE DEF w, D, B
  <1>4. /\ \A k \in Jobs : job'[k] = IF k = j THEN row ELSE job[k]
        /\ \A k \in Jobs, m \in Attempts : wf'[k][m] = IF k = j /\ m = n THEN w ELSE wf[k][m]
        /\ \A m \in Attempts : m # n => wf[j][m].pc \in {"none", "failed"}
        /\ AttemptsInv'
    BY <1>3, MovesAttempts
  <1>5. /\ \A d : d # c => Held(d)' = Held(d)
        /\ \A k \in Jobs : k # j => Pending(k)' = Pending(k)
        /\ UploadsInv' /\ LostInv' /\ CountedInv'
    BY <1>1, <1>2, LosesAccounts
  <1>6. \A k \in Jobs : k # j /\ job[k].target = c => ~Alive(k)
    BY <1>1, <1>2, Alone DEF Loses
  <1>7. ASSUME NEW k \in Jobs, NEW m \in Attempts, wf'[k][m].pc \notin {"none", "failed"}, ~(k = j /\ m = n)
        PROVE  k # j /\ wf'[k][m] = wf[k][m] /\ job[k].target # c /\ job[k].target \in Collections
    <2>1. k # j /\ wf'[k][m] = wf[k][m]
      BY <1>4, <1>7
    <2>2. Alive(k) /\ job[k].target \in Collections
      BY <1>7, <2>1, AtWork
    <2> QED  BY <1>6, <2>1, <2>2
  <1>8. ActiveInv'
    <2>1. \A k \in Jobs, l \in Jobs :
             job'[k].status \in ActiveDeletionStatus /\ job'[l].status \in ActiveDeletionStatus
                /\ job'[k].target = job'[l].target => k = l
      <3>1. \A k \in Jobs : k # j /\ job[k].status \in ActiveDeletionStatus => job[k].target # c
        BY <1>6 DEF Alive
      <3> QED  BY <1>2, <1>4, <3>1 DEF Loses, OrderInv, ActiveInv
    <2>2. ASSUME NEW k \in Jobs, k # j, Alive(k)
          PROVE  /\ job[k].target \in Collections /\ collection'[job[k].target] = collection[job[k].target]
                 /\ collection[job[k].target] # "OPEN"
                 /\ job[k].status = "COMPLETED" => collection[job[k].target] = "GONE"
      <3>1. job[k].target \in Collections /\ job[k].target # c
        BY <1>6, <2>2 DEF OrderInv, AttemptsInv, JobAttempts, Alive, ActiveDeletionStatus
      <3> QED  BY <1>2, <2>2, <3>1 DEF Loses, OrderInv, ActiveInv, Alive
    <2>3. collection'[c] # "OPEN" /\ row.target = c /\ row.status \in ActiveDeletionStatus
      BY <1>2 DEF Loses
    <2>4. \A k \in Jobs : job'[k].status \in ActiveDeletionStatus => collection'[job'[k].target] # "OPEN"
      BY <1>4, <2>2, <2>3 DEF Alive
    <2>5. \A k \in Jobs : job'[k].status = "COMPLETED" => collection'[job'[k].target] = "GONE"
      BY <1>4, <2>2, <2>3 DEF Alive, ActiveDeletionStatus
    <2>6. ASSUME NEW k \in Jobs, NEW m \in Attempts,
                 wf'[k][m].pc \in {"blobs", "erasing", "complete", "completed"}
          PROVE  collection'[job'[k].target] = "GONE"
      <3>1. CASE k = j /\ m = n
        BY <1>2, <1>3, <1>4, <2>3, <2>6, <3>1
      <3>2. CASE ~(k = j /\ m = n)
        <4>1. k # j /\ wf'[k][m] = wf[k][m] /\ job[k].target # c /\ job[k].target \in Collections
          BY <1>7, <2>6, <3>2
        <4>2. job'[k] = job[k] /\ collection'[job[k].target] = collection[job[k].target]
          BY <1>2, <1>4, <4>1 DEF Loses
        <4> QED  BY <2>6, <4>1, <4>2 DEF OrderInv, ActiveInv
      <3> QED  BY <3>1, <3>2
    <2> QED  BY <2>1, <2>4, <2>5, <2>6 DEF ActiveInv
  <1>9. BatchesInv'
    <2> SUFFICES ASSUME NEW k \in Jobs, NEW m \in Attempts, NEW d \in Collections, job'[k].target = d,
                        wf'[k][m].pc \in {"items_commit", "record_commit", "erasing"}
                 PROVE  BatchOK(k, d, wf[k][m])'
      BY DEF BatchesInv, BatchOK
    <2>1. ~(k = j /\ m = n)
      BY <1>3, <1>4
    <2>2. k # j /\ wf'[k][m] = wf[k][m] /\ job[k].target # c
      BY <1>7, <2>1
    <2>3. job'[k] = job[k] /\ BatchOK(k, d, wf[k][m])
      BY <1>4, <2>2 DEF OrderInv, BatchesInv
    <2>4. collection'[d] = collection[d] /\ Held(d)' = Held(d) /\ Pending(k)' = Pending(k)
      BY <1>2, <1>5, <2>2, <2>3 DEF Loses
    <2> QED  BY <2>2, <2>3, <2>4 DEF BatchOK
  <1> QED  BY <1>4, <1>5, <1>8, <1>9 DEF OrderInv

\* The transaction that marks the erased blobs counts each of them once.
LEMMA MarkOrder ==
    ASSUME TypeInv, OrderInv, NEW j \in Jobs, NEW n \in Attempts, MarkBlobs(j, n)
    PROVE  OrderInv'
  <1> DEFINE B == wf[j][n].blobs
             done == [job[j].done EXCEPT !.erased = wf[j][n].seen.erased + Cardinality(B)]
             row == [job[j] EXCEPT !.done = done]
  <1>1. /\ wf[j][n].pc = "erasing" /\ Alive(j) /\ job[j].target \in Collections
        /\ collection[job[j].target] = "GONE"
        /\ UNCHANGED <<collection, artifact, upload, request>>
    BY AtWork DEF MarkBlobs, At, OrderInv, ActiveInv, storeVars
  <1>2. BatchOK(j, job[j].target, wf[j][n])
    BY <1>1 DEF OrderInv, BatchesInv
  <1>3. wf[j][n].seen = job[j].done /\ B \subseteq Pending(j)
    BY <1>1, <1>2 DEF BatchOK
  <1>4. /\ job[j] \in JobRecord /\ job[j].done \in Totals
        /\ B \subseteq Blobs /\ Pending(j) \subseteq Blobs
    BY <1>3, Rows DEF Pending
  <1>5. IsFiniteSet(B) /\ IsFiniteSet(Pending(j) \ B) /\ Cardinality(B) \in Nat
        /\ Cardinality(Pending(j) \ B) \in Nat
    <2>1. Pending(j) \ B \subseteq Blobs
      BY <1>4
    <2> QED  BY <1>4, <2>1, FiniteSubsets
  <1>6. job' = [job EXCEPT ![j] = row]
    BY DEF MarkBlobs, TypeInv, TypeOK, JobRecord
  <1>7. /\ done.items = job[j].done.items /\ done.artifacts = job[j].done.artifacts
        /\ done.blobs = job[j].done.blobs /\ done.erased = job[j].done.erased + Cardinality(B)
        /\ done \in Totals
    BY <1>3, <1>4, <1>5 DEF Totals
  <1> HIDE DEF done
  <1>8. /\ row.status = job[j].status /\ row.target = job[j].target /\ row.attempt = job[j].attempt
        /\ row.done = done /\ row \in JobRecord
    BY <1>4, <1>7 DEF JobRecord
  <1> HIDE DEF row, B
  <1>9. PICK pc \in {"complete", "blobs"} : Goto(j, n, pc)
    BY DEF MarkBlobs
  <1> DEFINE w == [NoWorkflow EXCEPT !.pc = pc]
  <1>10. w.pc = pc /\ wf' = [wf EXCEPT ![j][n] = w]
    BY <1>9 DEF Goto, NoWorkflow
  <1> HIDE DEF w
  <1>11. Moves(j, n, w, row)
    BY <1>1, <1>6, <1>8, <1>10 DEF Moves, Alive, ActiveDeletionStatus
  <1>12. /\ \A k \in Jobs : job'[k] = IF k = j THEN row ELSE job[k]
         /\ \A k \in Jobs, m \in Attempts : wf'[k][m] = IF k = j /\ m = n THEN w ELSE wf[k][m]
         /\ \A m \in Attempts : m # n => wf[j][m].pc \in {"none", "failed"}
         /\ AttemptsInv'
    BY <1>11, MovesAttempts
  <1>13. \A k \in Jobs : /\ job'[k].target = job[k].target /\ job'[k].status = job[k].status
                         /\ Untouched(job'[k].done) <=> Untouched(job[k].done)
                         /\ k # j => job'[k] = job[k]
    BY <1>7, <1>8, <1>12 DEF Untouched
  <1>14. /\ Pending(j)' = Pending(j) \ B
         /\ \A k \in Jobs : k # j => Pending(k)' = Pending(k)
    <2>1. \A k \in Jobs, b \in Blobs :
             cleanup'[k][b] = IF k = j /\ b \in B THEN "DELETED" ELSE cleanup[k][b]
      BY DEF MarkBlobs, TypeInv, TypeOK, B
    <2> QED  BY <2>1 DEF Pending
  <1>15. \A d : Lost(d)' = Lost(d) /\ Held(d)' = Held(d)
    BY <1>1 DEF Lost, Held, Live
  <1>16. ActiveInv'
    <2>1. \A k \in Jobs, m \in Attempts :
             wf'[k][m].pc \in {"blobs", "erasing", "complete", "completed"} =>
                collection[job[k].target] = "GONE"
      BY <1>1, <1>12 DEF OrderInv, ActiveInv
    <2> QED  BY <1>1, <1>13, <2>1 DEF OrderInv, ActiveInv
  <1>17. UploadsInv'
    BY <1>1, <1>15 DEF OrderInv, UploadsInv
  <1>18. BatchesInv'
    <2> SUFFICES ASSUME NEW k \in Jobs, NEW m \in Attempts, NEW d \in Collections, job[k].target = d,
                        wf'[k][m].pc \in {"items_commit", "record_commit", "erasing"}
                 PROVE  BatchOK(k, d, wf[k][m])'
      BY <1>13 DEF BatchesInv, BatchOK
    <2>1. k # j /\ wf'[k][m] = wf[k][m]
      BY <1>10, <1>12
    <2>2. job'[k] = job[k] /\ Pending(k)' = Pending(k) /\ BatchOK(k, d, wf[k][m])
      BY <1>13, <1>14, <2>1 DEF OrderInv, BatchesInv
    <2> QED  BY <1>1, <1>15, <2>1, <2>2 DEF BatchOK
  <1>19. LostInv'
    <2>1. \A k \in Jobs : Alive(k)' <=> Alive(k)
      BY <1>13 DEF Alive
    <2>2. \A d \in Collections : Lost(d)' # {} =>
             \E k \in Jobs : job'[k].target = d /\ ~Untouched(job'[k].done)
      BY <1>13, <1>15 DEF OrderInv, LostInv
    <2>3. \A k \in Jobs, d \in Collections :
             Alive(k)' /\ job'[k].target = d /\ Untouched(job'[k].done) => Lost(d)' = {}
      BY <1>13, <1>15, <2>1 DEF OrderInv, LostInv
    <2> QED  BY <1>1, <1>15, <2>2, <2>3 DEF OrderInv, LostInv
  <1>20. CountedInv'
    <2> SUFFICES ASSUME NEW k \in Jobs PROVE Counted(k)'
      BY DEF CountedInv
    <2>1. Counted(k)
      BY DEF OrderInv, CountedInv
    <2>2. Sole(k)' <=> Sole(k)
      BY <1>13 DEF Sole
    <2>3. job'[k].done.items = job[k].done.items /\ job'[k].done.artifacts = job[k].done.artifacts
      BY <1>7, <1>8, <1>12
    <2>4. CASE k = j
      <3>1. Pending(j) = B \cup (Pending(j) \ B) /\ B \cap (Pending(j) \ B) = {}
        BY <1>3 DEF B
      <3>2. Cardinality(Pending(j)) = Cardinality(B) + Cardinality(Pending(j) \ B)
        BY <1>5, <3>1, DisjointSizes
      <3>3. job[j].done.blobs = job[j].done.erased + Cardinality(Pending(j))
        BY <2>1, <2>4 DEF Counted
      <3>4. job'[j].done.blobs = job'[j].done.erased + Cardinality(Pending(j)')
        BY <1>4, <1>5, <1>7, <1>8, <1>12, <1>14, <3>2, <3>3 DEF Totals
      <3>5. job'[j].status = "COMPLETED" => Pending(j)' = {}
        BY <1>13, <1>14, <2>1, <2>4 DEF Counted
      <3> QED  BY <1>13, <1>15, <2>1, <2>2, <2>3, <2>4, <3>4, <3>5 DEF Counted
    <2>5. CASE k # j
      BY <1>13, <1>14, <1>15, <2>1, <2>2, <2>5 DEF Counted
    <2> QED  BY <2>4, <2>5
  <1> QED  BY <1>12, <1>16, <1>17, <1>18, <1>19, <1>20 DEF OrderInv

\* A job completes when nothing is pending.
LEMMA CompleteOrder ==
    ASSUME TypeInv, OrderInv, NEW j \in Jobs, NEW n \in Attempts, Complete(j, n)
    PROVE  OrderInv'
  <1>1. /\ wf[j][n].pc = "complete" /\ collection[job[j].target] = "GONE"
        /\ UNCHANGED <<collection, artifact, upload, request>>
    BY DEF Complete, At, OrderInv, ActiveInv, storeVars
  <1>2. CASE Pending(j) # {}
    <2>1. Goto(j, n, "fail") /\ UNCHANGED <<cleanup, job>>
      BY <1>2 DEF Complete
    <2>2. "fail" \in PlainPC
      BY DEF PlainPC, WorkflowPC
    <2> QED  BY <1>1, <2>1, <2>2, GotoOrder
  <1>3. CASE Pending(j) = {}
    <2> DEFINE w == [NoWorkflow EXCEPT !.pc = "completed"]
               row == [job[j] EXCEPT !.status = "COMPLETED"]
    <2>1. w.pc = "completed" /\ wf' = [wf EXCEPT ![j][n] = w]
      BY <1>3 DEF Complete, Goto, NoWorkflow
    <2>2. job' = [job EXCEPT ![j] = row]
      BY <1>3 DEF Complete, TypeInv, TypeOK
    <2>3. /\ row.status = "COMPLETED" /\ row.target = job[j].target /\ row.attempt = job[j].attempt
          /\ row.done = job[j].done
      BY Rows DEF JobRecord
    <2>4. row \in JobRecord
      BY Rows DEF JobRecord, JobStatus
    <2> HIDE DEF w, row
    <2>5. Moves(j, n, w, row)
      BY <1>1, <2>1, <2>2, <2>3, <2>4 DEF Moves
    <2>6. \A k \in Jobs, b \in Blobs : cleanup'[k][b] = "PENDING" <=> cleanup[k][b] = "PENDING"
      <3>1. \A k \in Jobs, b \in Blobs : cleanup'[k][b] = IF k = j THEN "NONE" ELSE cleanup[k][b]
        BY <1>3 DEF Complete, TypeInv, TypeOK
      <3> QED  BY <1>3, <3>1 DEF Pending
    <2>7. BatchOK(j, job[j].target, w)
      BY <2>1 DEF BatchOK
    <2>8. Reads(j, n, w, row)
      BY <1>1, <1>3, <2>1, <2>3, <2>5, <2>6, <2>7 DEF Reads
    <2> QED  BY <2>8, ReadsOrder
  <1> QED  BY <1>2, <1>3

\* The fail step of the attempt at work.
LEMMA FailStepOrder ==
    ASSUME TypeInv, OrderInv, NEW j \in Jobs, NEW n \in Attempts, Fail(j, n)
    PROVE  OrderInv'
  <1> DEFINE w == [NoWorkflow EXCEPT !.pc = "failed"]
             row == [job[j] EXCEPT !.status = "FAILED"]
  <1>1. /\ wf[j][n].pc = "fail" /\ FailDeletion(j) /\ UNCHANGED <<artifact, cleanup, upload, request>>
    BY DEF Fail, At
  <1>2. w.pc = "failed" /\ wf' = [wf EXCEPT ![j][n] = w]
    BY DEF Fail, Goto, NoWorkflow
  <1>3. job' = [job EXCEPT ![j] = row]
    BY <1>1 DEF FailDeletion, TypeInv, TypeOK
  <1>4. row.status = "FAILED" /\ row.target = job[j].target /\ row.attempt = job[j].attempt
    BY Rows DEF JobRecord
  <1>5. row \in JobRecord
    BY Rows DEF JobRecord, JobStatus
  <1> HIDE DEF w, row
  <1>6. Moves(j, n, w, row)
    BY <1>1, <1>2, <1>3, <1>4, <1>5 DEF Moves
  <1>7. /\ \A k \in Jobs, m \in Attempts : wf'[k][m] = IF k = j /\ m = n THEN w ELSE wf[k][m]
        /\ \A m \in Attempts : m # n => wf[j][m].pc \in {"none", "failed"}
        /\ AttemptsInv'
    BY <1>6, MovesAttempts
  <1>8. Stays(j)
    BY <1>2, <1>7 DEF Stays
  <1>9. Alive(j)
    BY <1>1, AtWork
  <1> QED  BY <1>1, <1>7, <1>8, <1>9, FailOrder DEF OrderInv

-----------------------------------------------------------------------------
(* What holds of deletions in order.                                        *)

\* Every step keeps the invariant.
LEMMA StepOrder ==
    ASSUME TypeInv, ContentInv, OrderInv, [DeletionNext]_vars, [InOrder]_vars
    PROVE  OrderInv'
  <1>1. CASE UNCHANGED vars
    BY <1>1, OrderFrame DEF vars, storeVars, deletionVars, artifactVars
  <1>2. ASSUME UploadNext
        PROVE  OrderInv'
    BY <1>2, UploadOrder
  <1>3. ASSUME NEW c \in Collections, StartTextRun(c) \/ FinishTextRun(c)
        PROVE  OrderInv'
    BY <1>3, OrderFrame DEF StartTextRun, FinishTextRun, storeVars
  <1>4. ASSUME NEW r \in Requests, RequestNext(r), InOrder
        PROVE  OrderInv'
    BY <1>4, AskOrder, CreateOrder, RetryOrder, EnqueueOrder, EnqueueFailsOrder DEF RequestNext
  <1>5. ASSUME NEW j \in Jobs, NEW n \in Attempts, WorkflowStep(j, n) \/ WorkflowFault(j, n), InOrder
        PROVE  OrderInv'
    <2>1. ASSUME NEW b \in Blobs, EraseObject(j, n, b)
          PROVE  OrderInv'
      BY <2>1, OrderFrame DEF EraseObject, storeVars
    <2>2. ~ FailReplays(j, n)
      BY <1>5 DEF InOrder
    <2> QED
      BY <1>5, <2>1, <2>2, ReadingOrder, CommitOrder, MarkOrder, CompleteOrder, FailStepOrder
         DEF WorkflowStep, WorkflowFault
  <1>6. CASE DeletionNext /\ InOrder
    BY <1>2, <1>3, <1>4, <1>5, <1>6 DEF DeletionNext
  <1> QED  BY <1>1, <1>6

\* It holds at the start and is kept.
LEMMA OrderInvariant == OrderlySpec => []OrderInv
  BY InitOrder, StepOrder, TypeInvariant, ContentInvariant, PTL DEF OrderlySpec, Spec

\* What a completed job has left, in order.
LEMMA GoneWhenCompleted ==
    ASSUME TypeInv, OrderInv
    PROVE  CompletedIsGone
  <1> SUFFICES ASSUME TypeInv, OrderInv, NEW j \in Jobs, job[j].status = "COMPLETED"
               PROVE  /\ collection[job[j].target] = "GONE"
                      /\ \A a \in Live : CollectionOf[a] # job[j].target
    BY DEF CompletedIsGone
  <1>1. job[j].target \in Collections /\ collection[job[j].target] = "GONE"
    BY DEF OrderInv, AttemptsInv, JobAttempts, ActiveInv
  <1>2. Held(job[j].target) = {}
    BY <1>1 DEF OrderInv, UploadsInv
  <1> QED  BY <1>1, <1>2 DEF Held

(***************************************************************************)
(* A completed job has left nothing behind, whatever steps were repeated   *)
(* and whatever attempts failed before: nothing of the collection is in    *)
(* the database, and nothing can be uploaded into it again.                *)
(***************************************************************************)
THEOREM CompletedMeansGone == OrderlySpec => []CompletedIsGone
  <1>1. TypeInv /\ OrderInv => CompletedIsGone
    BY GoneWhenCompleted
  <1> QED  BY OrderInvariant, TypeInvariant, <1>1, PTL DEF OrderlySpec

\* What the totals count, in order.
LEMMA CountedIsExact ==
    ASSUME TypeInv, OrderInv
    PROVE  TotalsExact
  <1> SUFFICES ASSUME TypeInv, OrderInv, NEW j \in Jobs, Sole(j)
               PROVE  /\ job[j].done.items = Cardinality(Lost(job[j].target) \cap ItemArtifacts)
                      /\ job[j].done.artifacts = Cardinality(Lost(job[j].target))
                      /\ job[j].status = "COMPLETED" => job[j].done.erased = job[j].done.blobs
    BY DEF TotalsExact, Sole, Lost
  <1>1. Counted(j) /\ job[j].target \in Collections \cup {NoCollection} /\ job[j].done \in Totals
    BY Rows DEF OrderInv, CountedInv
  <1>2. job[j].status = "COMPLETED" => job[j].done.blobs = job[j].done.erased + 0
    BY <1>1, FS_EmptySet DEF Counted
  <1> QED  BY <1>1, <1>2 DEF Counted, Totals

(***************************************************************************)
(* The totals that a job shows are what was deleted and erased, each row   *)
(* and each object counted once, although a step that is repeated counts   *)
(* again from the totals it reads.                                         *)
(***************************************************************************)
THEOREM TotalsAreExact == OrderlySpec => []TotalsExact
  <1>1. TypeInv /\ OrderInv => TotalsExact
    BY CountedIsExact
  <1> QED  BY OrderInvariant, TypeInvariant, <1>1, PTL DEF OrderlySpec

\* A job at work that fails opens its collection only if the collection has lost nothing.
LEMMA FailReopens ==
    ASSUME TypeInv, OrderInv, NEW j \in Jobs, Alive(j), FailDeletion(j), artifact' = artifact
    PROVE  UNCHANGED <<collection, artifact>> \/ \E c \in Collections : Lifecycle!Reopen(c)
  <1>1. PICK c \in Collections : c = job[j].target /\ collection[c] \in {"DELETING", "GONE"}
    BY DEF OrderInv, AttemptsInv, JobAttempts, ActiveInv, Alive, ActiveDeletionStatus,
           TypeInv, TypeOK, CollectionStatus
  <1>2. CASE collection' = collection
    BY <1>2
  <1>3. CASE collection' # collection
    <2>1. /\ collection[c] = "DELETING" /\ collection' = [collection EXCEPT ![c] = "OPEN"]
          /\ Lost(c) = {}
      BY <1>1, <1>3 DEF FailDeletion, OrderInv, LostInv
    <2>2. Live' = Live
      BY DEF Live
    <2> QED  BY <2>1, <2>2 DEF Lifecycle!Reopen, Lost
  <1> QED  BY <1>2, <1>3

\* Every step is a step of a collection's life, or changes nothing of it.
LEMMA StepLifecycle ==
    ASSUME TypeInv, ContentInv, OrderInv, [DeletionNext]_vars, [InOrder]_vars
    PROVE  [Lifecycle!Next]_(Lifecycle!lifecycleVars)
  <1>1. ASSUME UNCHANGED <<collection, artifact>>
        PROVE  UNCHANGED Lifecycle!lifecycleVars
    BY <1>1 DEF Lifecycle!lifecycleVars, Live
  <1>2. ASSUME NEW c \in Collections, UploadCommit(c)
        PROVE  Lifecycle!Next
    <2> DEFINE u == upload[c]
    <2>1. u \in UploadRecord /\ u.artifact \in Artifacts /\ u.blob \in Blobs
          /\ artifact' = [artifact EXCEPT ![u.artifact] = u.blob] /\ collection' = collection
      BY <1>2 DEF UploadCommit, TypeInv, TypeOK, UploadRecord
    <2>2. collection[CollectionOf[u.artifact]] = "OPEN" /\ artifact[u.artifact] = Absent
      BY <1>2 DEF UploadCommit, OrderInv, UploadsInv
    <2> HIDE DEF u
    <2>3. \A x \in Artifacts : artifact'[x] = IF x = u.artifact THEN u.blob ELSE artifact[x]
      BY <2>1 DEF TypeInv, TypeOK
    <2>4. Lifecycle!Store(u.artifact)
      BY <2>1, <2>2, <2>3, StoreAssumption DEF Lifecycle!Store, Live
    <2> QED  BY <2>1, <2>4 DEF Lifecycle!Next
  <1>3. ASSUME NEW c \in Collections, collection' = [collection EXCEPT ![c] = "DELETING"],
               artifact' = artifact, collection[c] \in {"OPEN", "DELETING"}
        PROVE  UNCHANGED <<collection, artifact>> \/ Lifecycle!Next
    <2>1. CASE collection[c] = "DELETING"
      BY <1>3, <2>1 DEF TypeInv, TypeOK
    <2>2. CASE collection[c] = "OPEN"
      <3>1. Lifecycle!Accept(c)
        BY <1>3, <2>2 DEF Lifecycle!Accept, Live
      <3> QED  BY <3>1 DEF Lifecycle!Next
    <2> QED  BY <1>3, <2>1, <2>2
  <1>4. ASSUME NEW r \in Requests, CreateJob(r)
        PROVE  Lifecycle!Next \/ UNCHANGED <<collection, artifact>>
    BY <1>3, <1>4 DEF CreateJob, OrderInv, AttemptsInv, Enqueues
  <1>5. ASSUME NEW r \in Requests, RetryJob(r)
        PROVE  Lifecycle!Next \/ UNCHANGED <<collection, artifact>>
    <2>1. PICK c \in Collections : c = job[request[r].job].target
      BY <1>5 DEF RetryJob, TypeInv, RequestsKnowJobs, OrderInv, AttemptsInv, JobAttempts
    <2>2. artifact' = artifact
          /\ collection' = IF collection[c] = "GONE" THEN collection
                           ELSE [collection EXCEPT ![c] = "DELETING"]
      BY <1>5, <2>1 DEF RetryJob
    <2> QED  BY <1>3, <2>1, <2>2 DEF TypeInv, TypeOK, CollectionStatus
  <1>6. ASSUME NEW r \in Requests, EnqueueFails(r), InOrder
        PROVE  Lifecycle!Next \/ UNCHANGED <<collection, artifact>>
    <2>1. PICK j \in Jobs : j = request[r].job
      BY <1>6 DEF EnqueueFails, TypeInv, RequestsKnowJobs
    <2>2. FailDeletion(j) /\ artifact' = artifact
      BY <1>6, <2>1 DEF EnqueueFails
    <2>3. Alive(j)
      BY <1>6, <2>1 DEF EnqueueFails, InOrder, OrderInv, AttemptsInv, Enqueues, Alive,
                        ActiveDeletionStatus
    <2> QED  BY <2>2, <2>3, FailReopens DEF Lifecycle!Next
  <1>7. ASSUME NEW j \in Jobs, NEW n \in Attempts, Fail(j, n)
        PROVE  Lifecycle!Next \/ UNCHANGED <<collection, artifact>>
    <2>1. FailDeletion(j) /\ artifact' = artifact /\ Alive(j)
      BY <1>7, AtWork DEF Fail, At
    <2> QED  BY <2>1, FailReopens DEF Lifecycle!Next
  <1>8. ASSUME NEW j \in Jobs, NEW n \in Attempts, CommitItems(j, n) \/ CommitRecord(j, n)
        PROVE  Lifecycle!Next
    <2> DEFINE D == wf[j][n].batch
    <2>0. PICK c \in Collections : \E row : Loses(j, c, D, wf[j][n].blobs, row)
      BY <1>8, CommitLoses
    <2>1. PICK row : Loses(j, c, D, wf[j][n].blobs, row)
      BY <2>0
    <2>2. /\ job[j].target = c /\ collection[c] = "DELETING"
          /\ D \subseteq Held(c) /\ D \in SUBSET Artifacts
          /\ \A a \in Artifacts : artifact'[a] = IF a \in D THEN Removed ELSE artifact[a]
      BY <2>1 DEF Loses, Held, Live
    <2>3. \/ collection' = collection
          \/ D = Held(c) /\ collection' = [collection EXCEPT ![c] = "GONE"]
      <3>1. BatchOK(j, c, wf[j][n])
        BY <2>2 DEF OrderInv, BatchesInv
      <3>2. CASE CommitItems(j, n)
        BY <3>2 DEF CommitItems
      <3>3. CASE CommitRecord(j, n)
        BY <2>2, <3>1, <3>3 DEF CommitRecord, At, BatchOK
      <3> QED  BY <1>8, <3>2, <3>3
    <2> HIDE DEF D
    <2>4. /\ Live' = Live \ D
          /\ {a \in Artifacts : artifact[a] = Removed}'
                = {a \in Artifacts : artifact[a] = Removed} \cup D
      BY <2>2, StoreAssumption DEF Live, Held
    <2>5. CASE collection' = collection
      <3>1. PICK batch \in SUBSET Artifacts : batch = D
        BY <2>2
      <3>2. Lifecycle!Lose(c, batch)
        BY <2>2, <2>4, <2>5, <3>1 DEF Lifecycle!Lose, Lifecycle!StoredIn, Held
      <3> QED  BY <3>2 DEF Lifecycle!Next
    <2>6. CASE D = Held(c) /\ collection' = [collection EXCEPT ![c] = "GONE"]
      <3>1. Lifecycle!Vanish(c)
        BY <2>2, <2>4, <2>6 DEF Lifecycle!Vanish, Lifecycle!StoredIn, Held
      <3> QED  BY <3>1 DEF Lifecycle!Next
    <2> QED  BY <2>3, <2>5, <2>6
  <1>9. CASE UNCHANGED vars
    BY <1>1, <1>9 DEF vars, storeVars
  <1>10. ASSUME NEW r \in Requests, RequestNext(r), InOrder
         PROVE  Lifecycle!Next \/ UNCHANGED <<collection, artifact>>
    BY <1>4, <1>5, <1>6, <1>10
       DEF RequestNext, DeleteRequest, FindJob, RefuseJob, RetryRequest, RefuseRetry, Enqueue,
           RequestDies, storeVars
  <1>11. ASSUME NEW j \in Jobs, NEW n \in Attempts, WorkflowStep(j, n) \/ WorkflowFault(j, n)
         PROVE  Lifecycle!Next \/ UNCHANGED <<collection, artifact>>
    BY <1>7, <1>8, <1>11
       DEF WorkflowStep, WorkflowFault, Validate, CheckBlockers, Prepare, SetStatus, ReadItems,
           ReadRecord, BatchConflict, ReadBlobs, EraseObject, MarkBlobs, Complete, StepGivesUp,
           StepRestarts, StepReplays, FailReplays, storeVars
  <1>12. ASSUME UploadNext \/ \E c \in Collections : StartTextRun(c) \/ FinishTextRun(c)
         PROVE  Lifecycle!Next \/ UNCHANGED <<collection, artifact>>
    BY <1>2, <1>12 DEF UploadNext, UploadBegin, UploadRollback, StartTextRun, FinishTextRun, storeVars
  <1>13. CASE DeletionNext /\ InOrder
    BY <1>1, <1>10, <1>11, <1>12, <1>13 DEF DeletionNext
  <1> QED  BY <1>9, <1>13

(***************************************************************************)
(* Deletion implements the life of a collection: artifacts are stored in   *)
(* OPEN collections only, an OPEN collection has lost nothing, what is     *)
(* lost stays lost, and the collection goes with the last of it.  Each     *)
(* transaction is a step of that life or changes nothing its users see.    *)
(***************************************************************************)
THEOREM DeletionIsALifecycle == OrderlySpec => LifecycleSpec
  <1>1. Init => Lifecycle!LifecycleInit
    BY StoreAssumption DEF Init, StoreInit, Live, Lifecycle!LifecycleInit
  <1> QED
    BY OrderInvariant, TypeInvariant, ContentInvariant, StepLifecycle, <1>1, PTL
       DEF OrderlySpec, Spec, LifecycleSpec, Lifecycle!Spec

-----------------------------------------------------------------------------
(* Runs and deletions, and deletions one at a time.                         *)

\* An attempt that has begun writes its own row and the status and totals of its own job.
LEMMA OwnRows ==
    ASSUME TypeInv, NEW j \in Jobs, NEW n \in Attempts, WorkflowStep(j, n) \/ WorkflowFault(j, n)
    PROVE  /\ wf[j][n].pc # "none"
           /\ \A k \in Jobs : /\ job'[k].target = job[k].target /\ job'[k].attempt = job[k].attempt
                              /\ k # j => job'[k] = job[k]
                              /\ job'[k].status = "NONE" => job[k].status = "NONE"
           /\ \A k \in Jobs, m \in Attempts : wf'[k][m] = wf[k][m] \/ (k = j /\ m = n)
           /\ request' = request
  <1>1. wf[j][n].pc # "none" /\ request' = request
    BY DEF WorkflowStep, WorkflowFault, Validate, CheckBlockers, Prepare, SetStatus, ReadItems,
           CommitItems, ReadRecord, CommitRecord, BatchConflict, ReadBlobs, EraseObject, MarkBlobs,
           Complete, Fail, StepGivesUp, StepRestarts, StepReplays, FailReplays, At
  <1>2. \E w : wf' = [wf EXCEPT ![j][n] = w] \/ wf' = wf
    BY DEF WorkflowStep, WorkflowFault, Validate, CheckBlockers, Prepare, SetStatus, ReadItems,
           ReadBatch, CommitItems, ReadRecord, CommitRecord, BatchConflict, ReadBlobs, EraseObject,
           MarkBlobs, Complete, Fail, StepGivesUp, StepRestarts, StepReplays, FailReplays, Goto
  <1>3. \A k \in Jobs, m \in Attempts : wf'[k][m] = wf[k][m] \/ (k = j /\ m = n)
    BY <1>2 DEF TypeInv, TypeOK
  <1>4. job[j] \in JobRecord
    BY Rows
  <1>5. \/ job' = job
        \/ \E status \in JobStatus \ {"NONE"} : job' = [job EXCEPT ![j].status = status]
        \/ \E status, done : /\ job' = [job EXCEPT ![j].status = status, ![j].done = done]
                             /\ status \in {job[j].status, "DELETING_BLOBS"}
        \/ \E erased : job' = [job EXCEPT ![j].done.erased = erased]
    <2>1. CASE CommitItems(j, n) \/ CommitRecord(j, n)
      BY <2>1 DEF CommitItems, CommitRecord, DeleteArtifacts
    <2>2. CASE MarkBlobs(j, n)
      BY <2>2 DEF MarkBlobs
    <2>3. CASE ~ (CommitItems(j, n) \/ CommitRecord(j, n) \/ MarkBlobs(j, n))
      BY <2>3
         DEF WorkflowStep, WorkflowFault, Validate, CheckBlockers, Prepare, SetStatus, ReadItems,
             ReadRecord, BatchConflict, ReadBlobs, EraseObject, Complete, Fail, FailDeletion,
             StepGivesUp, StepRestarts, StepReplays, FailReplays, artifactVars, JobStatus
    <2> QED  BY <2>1, <2>2, <2>3
  <1>6. \E row : /\ job' = [job EXCEPT ![j] = row]
                 /\ row.target = job[j].target /\ row.attempt = job[j].attempt
                 /\ row.status = "NONE" => job[j].status = "NONE"
    <2>1. CASE job' = job
      BY <2>1 DEF TypeInv, TypeOK
    <2>2. ASSUME NEW status \in JobStatus \ {"NONE"}, job' = [job EXCEPT ![j].status = status]
          PROVE  \E row : /\ job' = [job EXCEPT ![j] = row]
                          /\ row.target = job[j].target /\ row.attempt = job[j].attempt
                          /\ row.status = "NONE" => job[j].status = "NONE"
      <3>1. /\ job' = [job EXCEPT ![j] = [job[j] EXCEPT !.status = status]]
            /\ [job[j] EXCEPT !.status = status].target = job[j].target
            /\ [job[j] EXCEPT !.status = status].attempt = job[j].attempt
            /\ [job[j] EXCEPT !.status = status].status = status
        BY <1>4, <2>2 DEF TypeInv, TypeOK, JobRecord
      <3> QED  BY <3>1
    <2>3. ASSUME NEW status \in {job[j].status, "DELETING_BLOBS"}, NEW done,
                 job' = [job EXCEPT ![j].status = status, ![j].done = done]
          PROVE  \E row : /\ job' = [job EXCEPT ![j] = row]
                          /\ row.target = job[j].target /\ row.attempt = job[j].attempt
                          /\ row.status = "NONE" => job[j].status = "NONE"
      <3>1. /\ job' = [job EXCEPT ![j] = [job[j] EXCEPT !.status = status, !.done = done]]
            /\ [job[j] EXCEPT !.status = status, !.done = done].target = job[j].target
            /\ [job[j] EXCEPT !.status = status, !.done = done].attempt = job[j].attempt
            /\ [job[j] EXCEPT !.status = status, !.done = done].status = status
        BY <1>4, <2>3 DEF TypeInv, TypeOK, JobRecord
      <3> QED  BY <2>3, <3>1
    <2>4. ASSUME NEW erased, job' = [job EXCEPT ![j].done.erased = erased]
          PROVE  \E row : /\ job' = [job EXCEPT ![j] = row]
                          /\ row.target = job[j].target /\ row.attempt = job[j].attempt
                          /\ row.status = "NONE" => job[j].status = "NONE"
      <3>1. /\ job' = [job EXCEPT ![j] = [job[j] EXCEPT !.done.erased = erased]]
            /\ [job[j] EXCEPT !.done.erased = erased].target = job[j].target
            /\ [job[j] EXCEPT !.done.erased = erased].attempt = job[j].attempt
            /\ [job[j] EXCEPT !.done.erased = erased].status = job[j].status
        BY <1>4, <2>4 DEF TypeInv, TypeOK, JobRecord
      <3> QED  BY <3>1
    <2> QED  BY <1>5, <2>1, <2>2, <2>3, <2>4
  <1>7. \A k \in Jobs : /\ job'[k].target = job[k].target /\ job'[k].attempt = job[k].attempt
                        /\ k # j => job'[k] = job[k]
                        /\ job'[k].status = "NONE" => job[k].status = "NONE"
    BY <1>6 DEF TypeInv, TypeOK
  <1> QED  BY <1>1, <1>3, <1>7

\* A job has an attempt once it exists, and only such a job is enqueued or worked on.
BegunInv ==
    /\ \A j \in Jobs : job[j].status = "NONE" <=> job[j].attempt = 0
    /\ \A r \in Requests : request[r].pc = "enqueue" => job[request[r].job].attempt # 0
    /\ \A j \in Jobs, n \in Attempts : wf[j][n].pc # "none" => job[j].attempt # 0

\* What has begun stays so, and nothing else is enqueued or worked on.
LEMMA BegunKept ==
    ASSUME TypeInv, BegunInv,
           \A k \in Jobs : /\ job'[k].attempt = job[k].attempt
                           /\ job'[k].status = "NONE" <=> job[k].status = "NONE",
           \A r \in Requests : request'[r].pc = "enqueue" =>
              \/ request'[r] = request[r]
              \/ request'[r].job \in Jobs /\ job[request'[r].job].attempt # 0,
           \A k \in Jobs, m \in Attempts : wf'[k][m].pc = wf[k][m].pc \/ job[k].attempt # 0
    PROVE  BegunInv'
  <1>1. \A r \in Requests : request[r].pc = "enqueue" => request[r].job \in Jobs
    BY DEF TypeInv, RequestsKnowJobs
  <1> QED  BY <1>1 DEF BegunInv

\* A request gives a job its attempts; only a retry locks a collection under a run.
LEMMA RequestBegun ==
    ASSUME TypeInv, BegunInv, RunsMeetOnlyRetries, NEW r \in Requests, RequestNext(r)
    PROVE  BegunInv' /\ RunsMeetOnlyRetries'
  <1>1. IdleRequest.pc = "idle" /\ IdleRequest.pc # "enqueue"
    BY DEF IdleRequest
  <1>2. ASSUME NEW q, request' = [request EXCEPT ![r] = q], q.pc # "enqueue"
        PROVE  \A p \in Requests : request'[p].pc = "enqueue" => request'[p] = request[p]
    BY <1>2 DEF TypeInv, TypeOK
  <1>3. CASE \/ \E c \in Collections : DeleteRequest(r, c)
             \/ \E j \in Jobs : RetryRequest(r, j)
             \/ RefuseJob(r) \/ RefuseRetry(r) \/ RequestDies(r)
    <2>1. UNCHANGED <<collection, job, textRun, wf>>
      BY <1>3 DEF DeleteRequest, RetryRequest, RefuseJob, RefuseRetry, RequestDies, storeVars, artifactVars
    <2>2. \A p \in Requests : request'[p].pc = "enqueue" => request'[p] = request[p]
      <3>1. ASSUME NEW c, request' = [request EXCEPT ![r] = [IdleRequest EXCEPT !.pc = "create", !.target = c]]
            PROVE  \A p \in Requests : request'[p].pc = "enqueue" => request'[p] = request[p]
        <4>1. [IdleRequest EXCEPT !.pc = "create", !.target = c].pc = "create"
          BY DEF IdleRequest
        <4> QED  BY <1>2, <3>1, <4>1
      <3>2. ASSUME NEW j, request' = [request EXCEPT ![r] = [IdleRequest EXCEPT !.pc = "retry", !.job = j]]
            PROVE  \A p \in Requests : request'[p].pc = "enqueue" => request'[p] = request[p]
        <4>1. [IdleRequest EXCEPT !.pc = "retry", !.job = j].pc = "retry"
          BY DEF IdleRequest
        <4> QED  BY <1>2, <3>2, <4>1
      <3>3. CASE request' = [request EXCEPT ![r] = IdleRequest]
        BY <1>1, <1>2, <3>3
      <3> QED
        BY <1>3, <3>1, <3>2, <3>3 DEF DeleteRequest, RetryRequest, RefuseJob, RefuseRetry, RequestDies
    <2>3. BegunInv'
      BY <2>1, <2>2, BegunKept
    <2> QED  BY <2>1, <2>3 DEF RunsMeetOnlyRetries
  <1>4. CASE FindJob(r)
    <2>1. PICK j \in Jobs :
             /\ job[j].status \in ActiveDeletionStatus
             /\ request' = [request EXCEPT ![r].pc = "enqueue", ![r].job = j,
                                           ![r].attempt = job[j].attempt]
      BY <1>4 DEF FindJob, ActiveJobs
    <2>2. UNCHANGED <<collection, job, textRun, wf>>
      BY <1>4 DEF FindJob, storeVars, artifactVars
    <2>3. \A p \in Requests : request'[p] = request[p] \/ request'[p].job = j
      BY <2>1 DEF TypeInv, TypeOK, RequestRecord
    <2>4. job[j].attempt # 0
      BY <2>1 DEF BegunInv, ActiveDeletionStatus
    <2>5. BegunInv'
      BY <2>2, <2>3, <2>4, BegunKept
    <2> QED  BY <2>2, <2>5 DEF RunsMeetOnlyRetries
  <1>5. CASE CreateJob(r)
    <2> DEFINE c == request[r].target
               row == [status |-> "QUEUED", target |-> c, attempt |-> 1, done |-> NoTotals]
    <2>1. PICK j \in Jobs :
             /\ job[j].status = "NONE"
             /\ job' = [job EXCEPT ![j] = row]
             /\ request' = [request EXCEPT ![r].pc = "enqueue", ![r].job = j, ![r].attempt = 1]
      <3>1. \A k \in Jobs : k >= k
        BY DEF Jobs
      <3> QED  BY <1>5, <3>1 DEF CreateJob
    <2>2. /\ collection' = [collection EXCEPT ![c] = "DELETING"] /\ c \notin textRun
          /\ UNCHANGED <<textRun, wf>>
      BY <1>5 DEF CreateJob
    <2>3. row.status = "QUEUED" /\ row.attempt = 1
      OBVIOUS
    <2> HIDE DEF row, c
    <2>4. \A k \in Jobs : job'[k] = IF k = j THEN row ELSE job[k]
      BY <2>1 DEF TypeInv, TypeOK
    <2>5. \A p \in Requests : request'[p] = request[p] \/ request'[p].job = j
      BY <2>1 DEF TypeInv, TypeOK, RequestRecord
    <2>6. job[j].attempt = 0
      BY <2>1 DEF BegunInv
    <2>7. BegunInv'
      <3>1. \A p \in Requests : request[p].pc = "enqueue" => request[p].job \in Jobs
        BY DEF TypeInv, RequestsKnowJobs
      <3>2. \A k \in Jobs : job'[k].status = "NONE" <=> job'[k].attempt = 0
        BY <2>3, <2>4 DEF BegunInv
      <3>3. \A p \in Requests : request'[p].pc = "enqueue" => job'[request'[p].job].attempt # 0
        BY <2>3, <2>4, <2>5, <3>1 DEF BegunInv
      <3>4. \A k \in Jobs, m \in Attempts : wf'[k][m].pc # "none" => job'[k].attempt # 0
        BY <2>2, <2>3, <2>4 DEF BegunInv
      <3> QED  BY <3>2, <3>3, <3>4 DEF BegunInv
    <2>8. ASSUME NEW d \in textRun, collection'[d] # "OPEN"
          PROVE  \E k \in Jobs : job'[k].target = d /\ job'[k].attempt > 1
      <3>1. collection[d] # "OPEN"
        BY <2>2, <2>8 DEF TypeInv, TypeOK
      <3>2. PICK k \in Jobs : job[k].target = d /\ job[k].attempt > 1
        BY <3>1 DEF RunsMeetOnlyRetries
      <3>3. k # j
        BY <2>6, <3>2
      <3> QED  BY <2>4, <3>2, <3>3
    <2> QED  BY <2>2, <2>7, <2>8 DEF RunsMeetOnlyRetries
  <1>6. CASE RetryJob(r)
    <2>1. PICK j \in Jobs : j = request[r].job
      BY <1>6 DEF RetryJob, TypeInv, RequestsKnowJobs
    <2> DEFINE row == [job[j] EXCEPT !.status = "QUEUED", !.attempt = job[j].attempt + 1]
    <2>2. /\ job' = [job EXCEPT ![j] = row]
          /\ job[j].status = "FAILED"
          /\ collection' = collection \/ collection' = [collection EXCEPT ![job[j].target] = "DELETING"]
          /\ request' = [request EXCEPT ![r].pc = "enqueue", ![r].attempt = job[j].attempt + 1]
          /\ UNCHANGED <<textRun, wf>>
      BY <1>6, <2>1 DEF RetryJob, TypeInv, TypeOK
    <2>3. /\ row.status = "QUEUED" /\ row.attempt = job[j].attempt + 1 /\ row.target = job[j].target
          /\ job[j].attempt \in Nat
      BY Rows DEF JobRecord
    <2> HIDE DEF row
    <2>4. \A k \in Jobs : job'[k] = IF k = j THEN row ELSE job[k]
      BY <2>2 DEF TypeInv, TypeOK
    <2>5. \A p \in Requests : request'[p] = request[p] \/ request'[p].job = j
      BY <2>1, <2>2 DEF TypeInv, TypeOK, RequestRecord
    <2>6. job[j].attempt # 0
      BY <2>2 DEF BegunInv
    <2>7. BegunInv'
      <3>1. \A p \in Requests : request[p].pc = "enqueue" => request[p].job \in Jobs
        BY DEF TypeInv, RequestsKnowJobs
      <3>2. row.attempt # 0
        BY <2>3
      <3>3. \A k \in Jobs : job'[k].status = "NONE" <=> job'[k].attempt = 0
        BY <2>3, <2>4, <3>2 DEF BegunInv
      <3>4. \A p \in Requests : request'[p].pc = "enqueue" => job'[request'[p].job].attempt # 0
        BY <2>4, <2>5, <3>1, <3>2 DEF BegunInv
      <3>5. \A k \in Jobs, m \in Attempts : wf'[k][m].pc # "none" => job'[k].attempt # 0
        BY <2>2, <2>4, <3>2 DEF BegunInv
      <3> QED  BY <3>3, <3>4, <3>5 DEF BegunInv
    <2>8. ASSUME NEW d \in textRun, d \in Collections, collection'[d] # "OPEN"
          PROVE  \E k \in Jobs : job'[k].target = d /\ job'[k].attempt > 1
      <3>1. CASE d = job[j].target
        <4>1. row.attempt > 1
          BY <2>3, <2>6
        <4> QED  BY <2>3, <2>4, <3>1, <4>1
      <3>2. CASE d # job[j].target
        <4>1. collection[d] # "OPEN"
          BY <2>2, <2>8, <3>2 DEF TypeInv, TypeOK
        <4>2. PICK k \in Jobs : job[k].target = d /\ job[k].attempt > 1
          BY <4>1 DEF RunsMeetOnlyRetries
        <4> QED  BY <2>3, <2>4, <3>2, <4>2
      <3> QED  BY <3>1, <3>2
    <2> QED  BY <2>2, <2>7, <2>8 DEF RunsMeetOnlyRetries, TypeInv, TypeOK
  <1>7. CASE Enqueue(r)
    <2>1. PICK j \in Jobs : j = request[r].job
      BY <1>7 DEF Enqueue, TypeInv, RequestsKnowJobs
    <2>2. /\ UNCHANGED <<collection, job, textRun>>
          /\ wf' = wf \/ \E n : wf' = [wf EXCEPT ![j][n].pc = "validate"]
          /\ request[r].pc = "enqueue" /\ request' = [request EXCEPT ![r] = IdleRequest]
      BY <1>7, <2>1 DEF Enqueue, storeVars, artifactVars
    <2>3. job[j].attempt # 0
      BY <2>1, <2>2 DEF BegunInv
    <2>4. \A k \in Jobs, m \in Attempts : k # j => wf'[k][m] = wf[k][m]
      BY <2>2 DEF TypeInv, TypeOK
    <2>5. \A p \in Requests : request'[p].pc = "enqueue" => request'[p] = request[p]
      BY <1>1, <1>2, <2>2
    <2>6. BegunInv'
      BY <2>2, <2>3, <2>4, <2>5, BegunKept
    <2> QED  BY <2>2, <2>6 DEF RunsMeetOnlyRetries
  <1>8. CASE EnqueueFails(r)
    <2>1. PICK j \in Jobs : j = request[r].job
      BY <1>8 DEF EnqueueFails, TypeInv, RequestsKnowJobs
    <2> DEFINE row == [job[j] EXCEPT !.status = "FAILED"]
    <2>2. /\ job' = [job EXCEPT ![j] = row] /\ UNCHANGED <<textRun, wf>>
          /\ collection' = collection \/ collection' = [collection EXCEPT ![job[j].target] = "OPEN"]
          /\ request[r].pc = "enqueue" /\ request' = [request EXCEPT ![r] = IdleRequest]
      BY <1>8, <2>1 DEF EnqueueFails, FailDeletion, TypeInv, TypeOK
    <2>3. row.status = "FAILED" /\ row.attempt = job[j].attempt /\ row.target = job[j].target
      BY Rows DEF JobRecord
    <2> HIDE DEF row
    <2>4. \A k \in Jobs : job'[k] = IF k = j THEN row ELSE job[k]
      BY <2>2 DEF TypeInv, TypeOK
    <2>5. job[j].status # "NONE"
      BY <2>1, <2>2 DEF BegunInv
    <2>6. \A p \in Requests : request'[p].pc = "enqueue" => request'[p] = request[p]
      BY <1>1, <1>2, <2>2
    <2>7. BegunInv'
      BY <2>2, <2>3, <2>4, <2>5, <2>6, BegunKept
    <2>8. \A d \in Collections : collection'[d] # "OPEN" => collection[d] # "OPEN"
      BY <2>2 DEF TypeInv, TypeOK
    <2>9. \A k \in Jobs : job'[k].target = job[k].target /\ job'[k].attempt = job[k].attempt
      BY <2>3, <2>4
    <2> QED  BY <2>2, <2>7, <2>8, <2>9 DEF RunsMeetOnlyRetries, TypeInv, TypeOK
  <1> QED  BY <1>3, <1>4, <1>5, <1>6, <1>7, <1>8 DEF RequestNext

\* A workflow opens a collection, or deletes it together with its runs; it never locks one.
LEMMA WorkflowBegun ==
    ASSUME TypeInv, BegunInv, RunsMeetOnlyRetries, NEW j \in Jobs, NEW n \in Attempts,
           WorkflowStep(j, n) \/ WorkflowFault(j, n)
    PROVE  BegunInv' /\ RunsMeetOnlyRetries'
  <1>1. /\ wf[j][n].pc # "none" /\ request' = request
        /\ \A k \in Jobs : /\ job'[k].target = job[k].target /\ job'[k].attempt = job[k].attempt
                           /\ k # j => job'[k] = job[k]
                           /\ job'[k].status = "NONE" => job[k].status = "NONE"
        /\ \A k \in Jobs, m \in Attempts : wf'[k][m] = wf[k][m] \/ (k = j /\ m = n)
    BY OwnRows
  <1>2. job[j].attempt # 0 /\ job[j].status # "NONE"
    BY <1>1 DEF BegunInv
  <1>3. BegunInv'
    BY <1>1, <1>2, BegunKept
  <1>4. \/ UNCHANGED <<collection, textRun>>
        \/ \E c : textRun' = textRun \ {c} /\ collection' = [collection EXCEPT ![c] = "GONE"]
        \/ textRun' = textRun /\ \E c : collection' = [collection EXCEPT ![c] = "OPEN"]
    BY DEF WorkflowStep, WorkflowFault, Validate, CheckBlockers, Prepare, SetStatus, ReadItems,
           CommitItems, ReadRecord, CommitRecord, BatchConflict, ReadBlobs, EraseObject, MarkBlobs,
           Complete, Fail, FailDeletion, StepGivesUp, StepRestarts, StepReplays, FailReplays,
           storeVars, artifactVars
  <1>5. \A d \in Collections : d \in textRun' /\ collection'[d] # "OPEN" =>
           d \in textRun /\ collection[d] # "OPEN"
    BY <1>4 DEF TypeInv, TypeOK
  <1>6. textRun' \subseteq Collections
    BY <1>4 DEF TypeInv, TypeOK
  <1> QED  BY <1>1, <1>3, <1>5, <1>6 DEF RunsMeetOnlyRetries

(***************************************************************************)
(* "Collection has an active text processing run" (create_deletion_job):   *)
(* a run and a deletion exclude each other, except that a retry, which     *)
(* does not look for runs, may meet one that began while the collection    *)
(* was open again.                                                         *)
(***************************************************************************)
THEOREM RunsMeetRetries == Spec => []RunsMeetOnlyRetries
  <1>1. Init => BegunInv /\ RunsMeetOnlyRetries
    BY DEF Init, DeletionInit, BegunInv, RunsMeetOnlyRetries, NoJob, NoWorkflow, IdleRequest
  <1>2. TypeInv /\ BegunInv /\ RunsMeetOnlyRetries /\ [DeletionNext]_vars =>
           BegunInv' /\ RunsMeetOnlyRetries'
    <2> SUFFICES ASSUME TypeInv, BegunInv, RunsMeetOnlyRetries, [DeletionNext]_vars
                 PROVE  BegunInv' /\ RunsMeetOnlyRetries'
      OBVIOUS
    <2>1. ASSUME UNCHANGED <<job, request, wf>>
          PROVE  BegunInv'
      BY <2>1 DEF BegunInv
    <2>2. CASE UNCHANGED vars
      BY <2>1, <2>2 DEF vars, storeVars, deletionVars, artifactVars, RunsMeetOnlyRetries
    <2>3. CASE UploadNext
      <3>1. UNCHANGED <<collection, textRun, job, request, wf>>
        BY <2>3 DEF UploadNext, UploadBegin, UploadCommit, UploadRollback, storeVars
      <3> QED  BY <2>1, <3>1 DEF RunsMeetOnlyRetries
    <2>4. ASSUME NEW c \in Collections, StartTextRun(c) \/ FinishTextRun(c)
          PROVE  BegunInv' /\ RunsMeetOnlyRetries'
      <3>1. /\ UNCHANGED <<collection, job, request, wf>>
            /\ textRun' \subseteq {d \in Collections : d \in textRun \/ collection[d] = "OPEN"}
        BY <2>4 DEF StartTextRun, FinishTextRun, storeVars, TypeInv, TypeOK
      <3> QED  BY <2>1, <3>1 DEF RunsMeetOnlyRetries
    <2> QED  BY <2>2, <2>3, <2>4, RequestBegun, WorkflowBegun DEF DeletionNext
  <1> QED  BY TypeInvariant, <1>1, <1>2, PTL DEF Spec

\* One job, one request at a time, and no fail step that is repeated.
OneDeletion ==
    /\ MaxJobs <= 1
    /\ \A r, q \in Requests : r = q
    /\ "refail" \notin FaultKinds

\* Then a request that creates a job finds none at work, and enqueues what was never enqueued.
AskedInv ==
    \A r \in Requests :
       /\ request[r].pc = "create" /\ collection[request[r].target] # "GONE" =>
             ActiveJobs(request[r].target) = {}
       /\ request[r].pc = "enqueue" => wf[request[r].job][request[r].attempt].pc = "none"

\* Nobody else enqueues, retries or has deleted.
LEMMA OneIsInOrder ==
    ASSUME OneDeletion, TypeInv, AskedInv
    PROVE  InOrder
  <1>1. ASSUME NEW r \in Requests, EnqueueFails(r)
        PROVE  /\ wf[request[r].job][request[r].attempt].pc = "none"
               /\ \A q \in Requests \ {r} : request[q].pc = "enqueue" => request[q].job # request[r].job
    BY <1>1 DEF EnqueueFails, AskedInv, OneDeletion
  <1>2. \A j \in Jobs, n \in Attempts : ~ FailReplays(j, n)
    BY DEF FailReplays, Fault, OneDeletion
  <1>3. ASSUME NEW r \in Requests, RetryJob(r)
        PROVE  \A k \in Jobs \ {request[r].job} :
                  job[k].target = job[request[r].job].target => Untouched(job[k].done)
    <2>1. request[r].job \in Jobs
      BY <1>3 DEF RetryJob, TypeInv, RequestsKnowJobs
    <2>2. \A j \in Jobs, k \in Jobs : j = k
      BY DeletionAssumption DEF OneDeletion, Jobs
    <2> QED  BY <2>1, <2>2
  <1> QED  BY <1>1, <1>2, <1>3 DEF InOrder

\* Only the request itself creates or retries jobs.
LEMMA StepAsked ==
    ASSUME OneDeletion, TypeInv, OrderInv, AskedInv, [DeletionNext]_vars
    PROVE  AskedInv'
  <1>1. ASSUME UNCHANGED <<collection, job, request, wf>>
        PROVE  AskedInv'
    BY <1>1 DEF AskedInv, ActiveJobs
  <1>2. CASE UNCHANGED vars
    BY <1>1, <1>2 DEF vars, storeVars, deletionVars, artifactVars
  <1>3. CASE UploadNext \/ \E c \in Collections : StartTextRun(c) \/ FinishTextRun(c)
    BY <1>1, <1>3 DEF UploadNext, UploadBegin, UploadCommit, UploadRollback, StartTextRun,
                      FinishTextRun, storeVars
  <1>4. ASSUME NEW r \in Requests, RequestNext(r)
        PROVE  AskedInv'
    <2>1. \A q \in Requests : q = r
      BY DEF OneDeletion
    <2>2. ASSUME request'[r].pc \notin {"create", "enqueue"}
          PROVE  AskedInv'
      BY <2>1, <2>2 DEF AskedInv
    <2>3. CASE \/ RefuseJob(r) \/ RefuseRetry(r) \/ RequestDies(r) \/ Enqueue(r) \/ EnqueueFails(r)
      <3>1. request'[r] = IdleRequest
        BY <2>3 DEF RefuseJob, RefuseRetry, RequestDies, Enqueue, EnqueueFails, TypeInv, TypeOK
      <3> QED  BY <2>2, <3>1 DEF IdleRequest
    <2>4. ASSUME NEW j \in Jobs, RetryRequest(r, j)
          PROVE  AskedInv'
      <3>1. request'[r] = [IdleRequest EXCEPT !.pc = "retry", !.job = j]
        BY <2>4 DEF RetryRequest, TypeInv, TypeOK
      <3> QED  BY <2>2, <3>1 DEF IdleRequest
    <2>5. ASSUME NEW c \in Collections, DeleteRequest(r, c)
          PROVE  AskedInv'
      <3>1. /\ request' = [request EXCEPT ![r] = [IdleRequest EXCEPT !.pc = "create", !.target = c]]
            /\ UNCHANGED <<collection, job, wf>>
            /\ LatestJobs(c) \cap ActiveJobs(c) = {}
        BY <2>5 DEF DeleteRequest, storeVars, artifactVars
      <3>2. request'[r].pc = "create" /\ request'[r].target = c
        BY <3>1 DEF TypeInv, TypeOK, IdleRequest
      <3>3. ActiveJobs(c) = {}
        <4>1. \A j \in Jobs, k \in Jobs : k <= j
          BY DeletionAssumption DEF OneDeletion, Jobs
        <4> QED  BY <3>1, <4>1 DEF LatestJobs, ActiveJobs
      <3>4. \A q \in Requests : request'[q].pc = "create" /\ request'[q].target = c
        BY <2>1, <3>2
      <3>5. ActiveJobs(c)' = {}
        BY <3>1, <3>3 DEF ActiveJobs
      <3>6. \A q \in Requests : ActiveJobs(request[q].target)' = {}
        BY <3>4, <3>5 DEF ActiveJobs
      <3> QED  BY <3>4, <3>6 DEF AskedInv
    <2>6. CASE FindJob(r)
      BY <2>6 DEF FindJob, AskedInv
    <2>7. ASSUME NEW j \in Jobs, NEW n \in Attempts, wf'[j][n].pc = "none",
                 request'[r].pc = "enqueue", request'[r].job = j, request'[r].attempt = n
          PROVE  AskedInv'
      BY <2>1, <2>7 DEF AskedInv
    <2>8. CASE CreateJob(r)
      <3>1. PICK j \in Jobs :
               /\ job[j].status = "NONE"
               /\ request' = [request EXCEPT ![r].pc = "enqueue", ![r].job = j, ![r].attempt = 1]
        <4>1. \A k \in Jobs : k >= k
          BY DEF Jobs
        <4> QED  BY <2>8, <4>1 DEF CreateJob
      <3>2. request'[r].pc = "enqueue" /\ request'[r].job = j /\ request'[r].attempt = 1
        BY <3>1 DEF TypeInv, TypeOK, RequestRecord
      <3>3. 1 \in Attempts /\ wf' = wf
        BY <2>8, DeletionAssumption DEF CreateJob, Attempts
      <3>4. wf[j][1].pc = "none"
        BY <3>1, <3>3 DEF OrderInv, AttemptsInv, JobAttempts
      <3> QED  BY <2>7, <3>2, <3>3, <3>4
    <2>9. CASE RetryJob(r)
      <3>1. PICK j \in Jobs : j = request[r].job
        BY <2>9 DEF RetryJob, TypeInv, RequestsKnowJobs
      <3>2. /\ job[j].attempt < MaxAttempts /\ wf' = wf
            /\ request' = [request EXCEPT ![r].pc = "enqueue", ![r].attempt = job[j].attempt + 1]
        BY <2>9, <3>1 DEF RetryJob
      <3>3. PICK n \in Attempts : n = job[j].attempt + 1
        BY <3>2, Rows, DeletionAssumption DEF Attempts
      <3>4. request'[r].pc = "enqueue" /\ request'[r].job = j /\ request'[r].attempt = n
        BY <3>1, <3>2, <3>3 DEF TypeInv, TypeOK, RequestRecord
      <3>5. ~ (n <= job[j].attempt)
        BY <3>3, Rows
      <3>6. wf[j][n].pc = "none"
        BY <3>5 DEF OrderInv, AttemptsInv, JobAttempts
      <3> QED  BY <2>7, <3>2, <3>4, <3>6
    <2> QED  BY <1>4, <2>3, <2>4, <2>5, <2>6, <2>8, <2>9 DEF RequestNext
  <1>5. ASSUME NEW j \in Jobs, NEW n \in Attempts, WorkflowStep(j, n) \/ WorkflowFault(j, n)
        PROVE  AskedInv'
    <2>1. /\ wf[j][n].pc # "none" /\ request' = request
          /\ \A k \in Jobs : job'[k].target = job[k].target /\ (k # j => job'[k] = job[k])
          /\ \A k \in Jobs, m \in Attempts : wf'[k][m] = wf[k][m] \/ (k = j /\ m = n)
      BY <1>5, OwnRows
    <2>2. wf[j][n].pc # "failed"
      <3>1. ~ FailReplays(j, n)
        BY OneIsInOrder DEF InOrder
      <3> QED
        BY <1>5, <3>1
           DEF WorkflowStep, WorkflowFault, Validate, CheckBlockers, Prepare, SetStatus, ReadItems,
               CommitItems, ReadRecord, CommitRecord, BatchConflict, ReadBlobs, EraseObject,
               MarkBlobs, Complete, Fail, StepGivesUp, StepRestarts, StepReplays, At
    <2>3. job[j].status \in ActiveDeletionStatus \/ collection[job[j].target] = "GONE"
      BY <2>1, <2>2, AtWork DEF OrderInv, ActiveInv, Alive
    <2>4. \A d \in Collections : collection[d] = "GONE" => collection'[d] = "GONE"
      BY <1>5
         DEF WorkflowStep, WorkflowFault, Validate, CheckBlockers, Prepare, SetStatus, ReadItems,
             CommitItems, ReadRecord, CommitRecord, BatchConflict, ReadBlobs, EraseObject, MarkBlobs,
             Complete, Fail, FailDeletion, StepGivesUp, StepRestarts, StepReplays, FailReplays,
             storeVars, TypeInv, TypeOK
    <2>5. ASSUME NEW r \in Requests, request[r].pc = "create", collection'[request[r].target] # "GONE"
          PROVE  \A k \in Jobs : job'[k].target = request[r].target =>
                    job'[k].status \notin ActiveDeletionStatus
      <3>1. collection[request[r].target] # "GONE"
        BY <2>4, <2>5 DEF OrderInv, AttemptsInv, Enqueues
      <3>2. \A k \in Jobs : job[k].target = request[r].target => job[k].status \notin ActiveDeletionStatus
        BY <2>5, <3>1 DEF AskedInv, ActiveJobs
      <3> QED  BY <2>1, <2>3, <3>1, <3>2
    <2>6. ASSUME NEW r \in Requests, request[r].pc = "enqueue"
          PROVE  wf'[request[r].job][request[r].attempt].pc = "none"
      <3>1. PICK k \in Jobs : k = request[r].job
        BY <2>6 DEF TypeInv, RequestsKnowJobs
      <3>2. PICK m \in Attempts : m = request[r].attempt
        BY <2>6, <3>1, Rows, DeletionAssumption DEF OrderInv, AttemptsInv, Enqueues, Attempts
      <3>3. wf[k][m].pc = "none"
        BY <2>6, <3>1, <3>2 DEF AskedInv
      <3> QED  BY <2>1, <3>1, <3>2, <3>3
    <2> QED  BY <2>1, <2>5, <2>6 DEF AskedInv, ActiveJobs
  <1> QED  BY <1>2, <1>3, <1>4, <1>5 DEF DeletionNext

(***************************************************************************)
(* Deletions of one job, retried by one request at a time, are in order:   *)
(* the three theorems above hold of every behaviour of them, with any      *)
(* number of attempts, outages, restarts and repeated steps.               *)
(***************************************************************************)
THEOREM OneDeletionIsOrderly == ASSUME OneDeletion PROVE Spec => OrderlySpec
  <1>1. Init => AskedInv
    BY DEF Init, DeletionInit, AskedInv, IdleRequest
  <1>2. TypeInv /\ ContentInv /\ OrderInv /\ AskedInv /\ [DeletionNext]_vars =>
           InOrder /\ OrderInv' /\ AskedInv'
    BY OneIsInOrder, StepAsked, StepOrder
  <1>3. Spec => []AskedInv /\ [][InOrder]_vars
    BY InitOrder, TypeInvariant, ContentInvariant, <1>1, <1>2, PTL DEF Spec
  <1> QED  BY <1>3, PTL DEF OrderlySpec
=============================================================================

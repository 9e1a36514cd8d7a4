-------------------------- MODULE CollectionDeletion --------------------------
(***************************************************************************)
(* Uploads into a collection, and its durable deletion.                    *)
(*                                                                         *)
(*   artifact_service/api.py, service.py     uploads, deduplicated by hash *)
(*   app/routers/collection_deletions.py     delete and retry requests     *)
(*   app/workflows/collection_deletion.py    the DBOS workflow             *)
(*   artifact_service/deletion.py            the transactions of its steps *)
(*                                                                         *)
(* One action is one database transaction, or one part of it where         *)
(* another transaction may commit between what it reads and what it        *)
(* writes: the sessions run at READ COMMITTED, so only a row lock (FOR     *)
(* UPDATE), a foreign key or a unique index orders two transactions.       *)
(* A workflow executes its steps at least once: DBOS records the result of *)
(* a step after it returns, so a crash in between executes it again.       *)
(***************************************************************************)
EXTENDS CollectionStore, Sequences, Sublists

CONSTANTS
    Hashes,         \* SHA-256 digests of uploaded contents
    MaxJobs,        \* bound on the deletion jobs that are created
    MaxAttempts,    \* bound on the attempts of one job
    Requests,       \* concurrent API requests to delete or to retry
    BatchSize,      \* DATABASE_BATCH_SIZE
    BlobBatchSize,  \* BLOB_BATCH_SIZE
    FaultKinds,     \* the faults that the environment may inject
    MaxFaults,      \* bound on the number of faults
    Unwritten,      \* a content blob whose row was never committed
    Erased,         \* a content blob whose row has been deleted
    NoUpload        \* no upload holds the lock on a collection

Jobs == 1..MaxJobs
Attempts == 1..MaxAttempts

ASSUME DeletionAssumption ==
    /\ MaxJobs \in Nat
    /\ MaxAttempts \in Nat \ {0}
    /\ BatchSize \in Nat \ {0}
    /\ BlobBatchSize \in Nat \ {0}
    /\ MaxFaults \in Nat
    /\ FaultKinds \subseteq {"enqueue", "api", "outage", "restart", "replay", "refail"}
    /\ Unwritten \notin Hashes
    /\ Erased \notin Hashes
    /\ Unwritten # Erased
    /\ NoUpload \notin [artifact : Artifacts, hash : Hashes, blob : Blobs]

VARIABLES
    blobRow,    \* Artifact db: sha256 of each ContentBlob row
    object,     \* object store: the keys that hold an object
    cleanup,    \* Artifact db: CollectionDeletionBlob status, per job and blob
    job,        \* Artifact db: CollectionDeletionJob rows
    textRun,    \* Artifact db: collections with an active text processing run
    upload,     \* the upload that holds the lock on each collection
    request,    \* progress of each API request
    wf,         \* progress of each workflow, one per job and attempt
    faults      \* faults injected so far

artifactVars == <<blobRow, object, cleanup, job, textRun, upload>>
deletionVars == <<artifactVars, request, wf, faults>>
vars == <<storeVars, deletionVars>>

JobStatus == {"NONE", "QUEUED", "VALIDATING", "DELETING_DATABASE_ROWS",
              "DELETING_BLOBS", "COMPLETED", "FAILED"}

ActiveDeletionStatus ==
    {"QUEUED", "VALIDATING", "DELETING_DATABASE_ROWS", "DELETING_BLOBS"}

\* Running totals of a job: items and artifacts deleted, blobs scheduled, objects erased.
Totals == [items : Nat, artifacts : Nat, blobs : Nat, erased : Nat]
NoTotals == [items |-> 0, artifacts |-> 0, blobs |-> 0, erased |-> 0]

RequestPC == {"idle", "create", "retry", "enqueue"}

WorkflowPC == {"none", "validate", "check", "prepare", "items", "items_commit",
               "record", "record_commit", "blobs", "erasing", "complete", "fail",
               "completed", "failed"}

NoJob == [status |-> "NONE", target |-> NoCollection, attempt |-> 0, done |-> NoTotals]
IdleRequest == [pc |-> "idle", target |-> NoCollection, job |-> 0, attempt |-> 0]
NoWorkflow == [pc |-> "none", batch |-> {}, blobs |-> {}, seen |-> NoTotals]

NoBlobs ==
    /\ blobRow = [b \in Blobs |-> Unwritten]
    /\ object = {}

DeletionInit ==
    /\ cleanup = [j \in Jobs |-> [b \in Blobs |-> "NONE"]]
    /\ job = [j \in Jobs |-> NoJob]
    /\ textRun = {}
    /\ upload = [c \in Collections |-> NoUpload]
    /\ request = [r \in Requests |-> IdleRequest]
    /\ wf = [j \in Jobs |-> [n \in Attempts |-> NoWorkflow]]
    /\ faults = 0

-----------------------------------------------------------------------------
(* Uploads of items and of source containers.                               *)

\* A blob identifier that was never used: blob identifiers are fresh UUIDs.
Fresh(b) == /\ blobRow[b] = Unwritten
            /\ b \notin object
            /\ \A c \in Collections : upload[c] # NoUpload => upload[c].blob # b

\* get_or_create_blob: reuse the row with this hash, or put an object under a fresh key.
GetOrCreateBlob(h, b) ==
    \/ /\ blobRow[b] = h
       /\ UNCHANGED object
    \/ /\ \A b2 \in Blobs : blobRow[b2] # h
       /\ Fresh(b)
       /\ object' = object \cup {b}

(***************************************************************************)
(* An upload locks its collection until it commits and is refused unless   *)
(* the collection is OPEN.  Uploading an item that exists changes nothing. *)
(***************************************************************************)
UploadBegin(a, h, b) ==
    LET c == CollectionOf[a] IN
    /\ upload[c] = NoUpload
    /\ collection[c] = "OPEN"
    /\ artifact[a] = Absent
    /\ GetOrCreateBlob(h, b)
    /\ upload' = [upload EXCEPT ![c] = [artifact |-> a, hash |-> h, blob |-> b]]
    /\ UNCHANGED <<storeVars, blobRow, cleanup, job, textRun, request, wf, faults>>

\* Mutant: no unique index on the hash.
UploadCommitNotUnique(c) ==
    LET u == upload[c] IN
    /\ u # NoUpload
    /\ blobRow[u.blob] \in {u.hash, Unwritten}
    /\ artifact' = [artifact EXCEPT ![u.artifact] = u.blob]
    /\ blobRow' = [blobRow EXCEPT ![u.blob] = u.hash]
    /\ upload' = [upload EXCEPT ![c] = NoUpload]
    /\ UNCHANGED <<collection, selection, importJob, docs>>
    /\ UNCHANGED <<object, cleanup, job, textRun, request, wf, faults>>

(***************************************************************************)
(* The foreign key on content_blob_id rejects a blob that was deleted in   *)
(* the meantime, the unique index on (tenant_id, sha256) a second blob     *)
(* with the same hash.                                                     *)
(***************************************************************************)
UploadCommit(c) ==
    LET u == upload[c] IN
    /\ u # NoUpload
    /\ \/ blobRow[u.blob] = u.hash
       \/ blobRow[u.blob] = Unwritten /\ \A b \in Blobs : blobRow[b] # u.hash
    /\ artifact' = [artifact EXCEPT ![u.artifact] = u.blob]
    /\ blobRow' = [blobRow EXCEPT ![u.blob] = u.hash]
    /\ upload' = [upload EXCEPT ![c] = NoUpload]
    /\ UNCHANGED <<collection, selection, importJob, docs>>
    /\ UNCHANGED <<object, cleanup, job, textRun, request, wf, faults>>

\* An integrity error or a lost connection: the rows roll back, an object that was put stays.
UploadRollback(c) ==
    /\ upload[c] # NoUpload
    /\ upload' = [upload EXCEPT ![c] = NoUpload]
    /\ UNCHANGED <<storeVars, blobRow, object, cleanup, job, textRun, request, wf, faults>>

\* Mutant: a run does not ask whether the collection is being deleted.
StartTextRunAnyStatus(c) ==
    /\ upload[c] = NoUpload
    /\ collection[c] # "GONE"
    /\ c \notin textRun
    /\ textRun' = textRun \cup {c}
    /\ UNCHANGED <<storeVars, blobRow, object, cleanup, job, upload, request, wf, faults>>

\* start_text_processing_run: locks the collection, which must be OPEN and without a run.
StartTextRun(c) ==
    /\ upload[c] = NoUpload
    /\ collection[c] = "OPEN"
    /\ c \notin textRun
    /\ textRun' = textRun \cup {c}
    /\ UNCHANGED <<storeVars, blobRow, object, cleanup, job, upload, request, wf, faults>>

\* The run ends, whatever its outcome (or could not be queued).
FinishTextRun(c) ==
    /\ c \in textRun
    /\ textRun' = textRun \ {c}
    /\ UNCHANGED <<storeVars, blobRow, object, cleanup, job, upload, request, wf, faults>>

-----------------------------------------------------------------------------
(* The API requests.                                                        *)

Fault(kind) ==
    /\ kind \in FaultKinds
    /\ faults < MaxFaults
    /\ faults' = faults + 1

ActiveJobs(c) == {j \in Jobs : job[j].target = c /\ job[j].status \in ActiveDeletionStatus}
LatestJobs(c) == {j \in Jobs : /\ job[j].target = c
                               /\ \A k \in Jobs : job[k].target = c => k <= j}

\* delete_collection, up to its check of the Core blockers.
DeleteRequest(r, c) ==
    /\ request[r].pc = "idle"
    /\ collection[c] # "GONE"
    /\ LatestJobs(c) \cap ActiveJobs(c) = {}
    /\ ~ Blocked(c)
    /\ request' = [request EXCEPT ![r] = [IdleRequest EXCEPT !.pc = "create", !.target = c]]
    /\ UNCHANGED <<storeVars, artifactVars, wf, faults>>

\* create_deletion_job finds an active job, whose workflow the request enqueues as well.
FindJob(r) ==
    LET c == request[r].target IN
    /\ request[r].pc = "create"
    /\ collection[c] # "GONE" /\ upload[c] = NoUpload
    /\ \E j \in ActiveJobs(c) :
          request' = [request EXCEPT ![r].pc = "enqueue", ![r].job = j,
                                     ![r].attempt = job[j].attempt]
    /\ UNCHANGED <<storeVars, artifactVars, wf, faults>>

\* create_deletion_job creates a job and locks the collection out of further work.
CreateJob(r) ==
    LET c == request[r].target IN
    /\ request[r].pc = "create"
    /\ collection[c] = "OPEN" /\ upload[c] = NoUpload
    /\ ActiveJobs(c) = {}
    /\ c \notin textRun
    /\ \E j \in Jobs :
          /\ \A k \in Jobs : job[k].status = "NONE" <=> k >= j
          /\ job' = [job EXCEPT ![j] = [status |-> "QUEUED", target |-> c,
                                        attempt |-> 1, done |-> NoTotals]]
          /\ request' = [request EXCEPT ![r].pc = "enqueue", ![r].job = j, ![r].attempt = 1]
    /\ collection' = [collection EXCEPT ![c] = "DELETING"]
    /\ UNCHANGED <<artifact, selection, importJob, docs>>
    /\ UNCHANGED <<blobRow, object, cleanup, textRun, upload, wf, faults>>

\* create_deletion_job refuses, or returns a job that has failed: the request ends.
RefuseJob(r) ==
    LET c == request[r].target IN
    /\ request[r].pc = "create"
    /\ \/ collection[c] = "GONE"
       \/ /\ upload[c] = NoUpload
          /\ ActiveJobs(c) = {}
          /\ collection[c] = "DELETING" \/ c \in textRun
    /\ request' = [request EXCEPT ![r] = IdleRequest]
    /\ UNCHANGED <<storeVars, artifactVars, wf, faults>>

\* retry_collection_deletion, up to its check of the Core blockers.
RetryRequest(r, j) ==
    /\ request[r].pc = "idle"
    /\ job[j].status = "FAILED"
    /\ job[j].attempt < MaxAttempts
    /\ ~ Blocked(job[j].target)
    /\ request' = [request EXCEPT ![r] = [IdleRequest EXCEPT !.pc = "retry", !.job = j]]
    /\ UNCHANGED <<storeVars, artifactVars, wf, faults>>

\* A second active job of one collection, which the partial unique index rejects.
Conflict(j) == ActiveJobs(job[j].target) \ {j} # {}

\* Mutant: a retry does not lock a collection that was opened again.
RetryJobLeavesOpen(r) ==
    LET j == request[r].job IN
    /\ request[r].pc = "retry"
    /\ job[j].status = "FAILED"
    /\ ~ Conflict(j)
    /\ job[j].attempt < MaxAttempts
    /\ job' = [job EXCEPT ![j].status = "QUEUED", ![j].attempt = @ + 1]
    /\ request' = [request EXCEPT ![r].pc = "enqueue", ![r].attempt = job[j].attempt + 1]
    /\ UNCHANGED <<storeVars, blobRow, object, cleanup, textRun, upload, wf, faults>>

(***************************************************************************)
(* retry_deletion_job: the row lock makes only one of several retries see  *)
(* FAILED.  The update of an OPEN collection waits for an upload's lock.   *)
(***************************************************************************)
RetryJob(r) ==
    LET j == request[r].job
        c == job[j].target IN
    /\ request[r].pc = "retry"
    /\ job[j].status = "FAILED"
    /\ ~ Conflict(j)
    /\ job[j].attempt < MaxAttempts
    /\ upload[c] = NoUpload
    /\ job' = [job EXCEPT ![j].status = "QUEUED", ![j].attempt = @ + 1]
    /\ collection' = IF collection[c] = "GONE" THEN collection
                     ELSE [collection EXCEPT ![c] = "DELETING"]
    /\ request' = [request EXCEPT ![r].pc = "enqueue", ![r].attempt = job[j].attempt + 1]
    /\ UNCHANGED <<artifact, selection, importJob, docs>>
    /\ UNCHANGED <<blobRow, object, cleanup, textRun, upload, wf, faults>>

RefuseRetry(r) ==
    LET j == request[r].job IN
    /\ request[r].pc = "retry"
    /\ job[j].status # "FAILED" \/ Conflict(j) \/ job[j].attempt = MaxAttempts
    /\ request' = [request EXCEPT ![r] = IdleRequest]
    /\ UNCHANGED <<storeVars, artifactVars, wf, faults>>

\* Mutant: the workflow identifier does not contain the attempt.
EnqueueOncePerJob(r) ==
    LET j == request[r].job
        n == request[r].attempt IN
    /\ request[r].pc = "enqueue"
    /\ wf' = IF \A m \in Attempts : wf[j][m].pc = "none"
             THEN [wf EXCEPT ![j][n].pc = "validate"] ELSE wf
    /\ request' = [request EXCEPT ![r] = IdleRequest]
    /\ UNCHANGED <<storeVars, artifactVars, faults>>

\* enqueue_collection_deletion: the workflow identifier makes a second enqueue a no-op.
Enqueue(r) ==
    LET j == request[r].job
        n == request[r].attempt IN
    /\ request[r].pc = "enqueue"
    /\ wf' = IF wf[j][n].pc = "none" THEN [wf EXCEPT ![j][n].pc = "validate"] ELSE wf
    /\ request' = [request EXCEPT ![r] = IdleRequest]
    /\ UNCHANGED <<storeVars, artifactVars, faults>>

(***************************************************************************)
(* fail_deletion: whatever the status of the job, it becomes FAILED, and   *)
(* the collection opens again if the job's totals say nothing was deleted. *)
(***************************************************************************)
Untouched(t) == t.items = 0 /\ t.artifacts = 0 /\ t.blobs = 0

FailDeletion(j) ==
    LET c == job[j].target IN
    /\ job' = [job EXCEPT ![j].status = "FAILED"]
    /\ collection' = IF collection[c] # "GONE" /\ Untouched(job[j].done)
                     THEN [collection EXCEPT ![c] = "OPEN"]
                     ELSE collection

\* The enqueue raises: the request marks the job as failed and answers 503.
EnqueueFails(r) ==
    /\ request[r].pc = "enqueue"
    /\ Fault("enqueue")
    /\ FailDeletion(request[r].job)
    /\ request' = [request EXCEPT ![r] = IdleRequest]
    /\ UNCHANGED <<artifact, selection, importJob, docs>>
    /\ UNCHANGED <<blobRow, object, cleanup, textRun, upload, wf>>

\* The API process dies with the job committed and its workflow not enqueued.
RequestDies(r) ==
    /\ request[r].pc = "enqueue"
    /\ Fault("api")
    /\ request' = [request EXCEPT ![r] = IdleRequest]
    /\ UNCHANGED <<storeVars, artifactVars, wf>>

-----------------------------------------------------------------------------
(* The workflow: attempt n of job j.                                        *)

At(j, n, pc) == wf[j][n].pc = pc

\* The workflow moves on to the step pc, with nothing kept in memory.
Goto(j, n, pc) == wf' = [wf EXCEPT ![j][n] = [NoWorkflow EXCEPT !.pc = pc]]

\* A write of the job's status alone; the unique index may reject it, which ends the attempt.
SetStatus(j, n, status, next) ==
    /\ IF Conflict(j)
       THEN job' = job /\ Goto(j, n, "fail")
       ELSE job' = [job EXCEPT ![j].status = status] /\ Goto(j, n, next)
    /\ UNCHANGED <<storeVars, blobRow, object, cleanup, textRun, upload, request, faults>>

\* validate, its first transaction.
Validate(j, n) ==
    /\ At(j, n, "validate")
    /\ IF job[j].status = "COMPLETED"
       THEN Goto(j, n, "prepare") /\ UNCHANGED <<storeVars, artifactVars, request, faults>>
       ELSE SetStatus(j, n, "VALIDATING", "check")

\* validate, its read of the Core database: the blockers are checked again.
CheckBlockers(j, n) ==
    /\ At(j, n, "check")
    /\ Goto(j, n, IF Blocked(job[j].target) THEN "fail" ELSE "prepare")
    /\ UNCHANGED <<storeVars, artifactVars, request, faults>>

\* Mutant: a status that the column does not allow.
PrepareUnknownStatus(j, n) ==
    /\ At(j, n, "prepare")
    /\ IF job[j].status = "COMPLETED"
       THEN Goto(j, n, "items") /\ UNCHANGED <<storeVars, artifactVars, request, faults>>
       ELSE SetStatus(j, n, "DELETING", "items")

\* prepare_deletion.
Prepare(j, n) ==
    /\ At(j, n, "prepare")
    /\ IF job[j].status = "COMPLETED"
       THEN Goto(j, n, "items") /\ UNCHANGED <<storeVars, artifactVars, request, faults>>
       ELSE SetStatus(j, n, "DELETING_DATABASE_ROWS", "items")

\* The blobs that no artifact outside the batch refers to, as one transaction sees them.
Unshared(batch) ==
    {b \in {artifact[a] : a \in batch} : \A a \in Live \ batch : artifact[a] # b}

\* The batch, the blobs to schedule and the totals, as read before anything is written.
ReadBatch(j, n, batch, pc) ==
    wf' = [wf EXCEPT ![j][n] = [pc |-> pc, batch |-> batch, blobs |-> Unshared(batch),
                                seen |-> job[j].done]]

\* delete_item_batch reads a batch of items; without one the loop ends.
ReadItems(j, n) ==
    LET rows == ItemsOf(job[j].target) IN
    /\ At(j, n, "items")
    /\ \/ /\ rows = {}
          /\ Goto(j, n, "record")
       \/ \E batch \in SUBSET rows :
             /\ batch # {}
             /\ Cardinality(batch) <= BatchSize
             /\ batch # rows => Cardinality(batch) = BatchSize
             /\ ReadBatch(j, n, batch, "items_commit")
    /\ UNCHANGED <<storeVars, artifactVars, request, faults>>

\* Mutant: the foreign key does not restrict the deletion of a blob.
DeletableUnrestricted(j, n) == \A b \in wf[j][n].blobs : blobRow[b] \in Hashes

(***************************************************************************)
(* A batch commits only if no transaction that committed since refers to   *)
(* one of its blobs (the foreign key is ON DELETE RESTRICT) and none has   *)
(* scheduled them for the same job (unique per job and key).               *)
(***************************************************************************)
Deletable(j, n) ==
    \A b \in wf[j][n].blobs : /\ blobRow[b] \in Hashes
                              /\ \A a \in Live \ wf[j][n].batch : artifact[a] # b

\* Mutant: the rows of the blobs are deleted and nothing is put on the manifest.
DeleteArtifactsUnscheduled(j, n, items, status) ==
    LET w == wf[j][n] IN
    /\ artifact' = [a \in Artifacts |-> IF a \in w.batch THEN Removed ELSE artifact[a]]
    /\ blobRow' = [b \in Blobs |-> IF b \in w.blobs THEN Erased ELSE blobRow[b]]
    /\ job' = [job EXCEPT ![j].status = status,
                          ![j].done = [items     |-> w.seen.items + items,
                                       artifacts |-> w.seen.artifacts + Cardinality(w.batch),
                                       blobs     |-> w.seen.blobs + Cardinality(w.blobs),
                                       erased    |-> @.erased]]
    /\ UNCHANGED cleanup

\* _delete_artifacts_and_schedule_blobs, with the totals of its caller.
DeleteArtifacts(j, n, items, status) ==
    LET w == wf[j][n] IN
    /\ artifact' = [a \in Artifacts |-> IF a \in w.batch THEN Removed ELSE artifact[a]]
    /\ blobRow' = [b \in Blobs |-> IF b \in w.blobs THEN Erased ELSE blobRow[b]]
    /\ cleanup' = [cleanup EXCEPT ![j] =
                      [b \in Blobs |-> IF b \in w.blobs THEN "PENDING" ELSE @[b]]]
    /\ job' = [job EXCEPT ![j].status = status,
                          ![j].done = [items     |-> w.seen.items + items,
                                       artifacts |-> w.seen.artifacts + Cardinality(w.batch),
                                       blobs     |-> w.seen.blobs + Cardinality(w.blobs),
                                       erased    |-> @.erased]]

\* delete_item_batch deletes the batch and looks whether items remain.
CommitItems(j, n) ==
    LET w == wf[j][n] IN
    /\ At(j, n, "items_commit")
    /\ Deletable(j, n)
    /\ DeleteArtifacts(j, n, Cardinality(w.batch), job[j].status)
    /\ selection' = [i \in Imports |->
          [selection[i] EXCEPT !.items = Kept(@, ItemArtifacts \ w.batch)]]
    /\ Goto(j, n, IF ItemsOf(job[j].target) \subseteq w.batch THEN "record" ELSE "items")
    /\ UNCHANGED <<collection, importJob, docs>>
    /\ UNCHANGED <<object, textRun, upload, request, faults>>

\* Mutant: without items, the collection and its containers are taken to be gone.
ReadRecordSkips(j, n) ==
    /\ At(j, n, "record")
    /\ SetStatus(j, n, "DELETING_BLOBS", "blobs")

\* delete_collection_record reads the collection and its source containers.
ReadRecord(j, n) ==
    LET c == job[j].target IN
    /\ At(j, n, "record")
    /\ \/ /\ collection[c] = "GONE"
          /\ SetStatus(j, n, "DELETING_BLOBS", "blobs")
       \/ /\ collection[c] # "GONE"
          /\ IF ItemsOf(c) # {} THEN Goto(j, n, "fail")
                                ELSE ReadBatch(j, n, ContainersOf(c), "record_commit")
          /\ UNCHANGED <<storeVars, artifactVars, request, faults>>

(***************************************************************************)
(* delete_collection_record deletes the containers, the selections and the *)
(* collection.  Its delete waits for an upload's lock and cascades to the  *)
(* item rows.                                                              *)
(***************************************************************************)
CommitRecord(j, n) ==
    LET c == job[j].target IN
    /\ At(j, n, "record_commit")
    /\ collection[c] # "GONE"
    /\ upload[c] = NoUpload
    /\ ~ Conflict(j)
    /\ Deletable(j, n)
    /\ DeleteArtifacts(j, n, 0, "DELETING_BLOBS")
    /\ selection' = [i \in Imports |->
          IF importJob[i].source = c THEN NoSelection ELSE selection[i]]
    /\ textRun' = textRun \ {c}
    /\ collection' = [collection EXCEPT ![c] = "GONE"]
    /\ Goto(j, n, "blobs")
    /\ UNCHANGED <<importJob, docs, object, upload, request, faults>>

\* The transaction is rejected, or waits and then is: the step starts again.
BatchConflict(j, n) ==
    /\ \/ At(j, n, "items_commit") /\ ~ Deletable(j, n) /\ Goto(j, n, "items")
       \/ /\ At(j, n, "record_commit")
          /\ ~ Deletable(j, n) \/ Conflict(j) \/ collection[job[j].target] = "GONE"
          /\ Goto(j, n, IF Conflict(j) THEN "fail" ELSE "record")
    /\ UNCHANGED <<storeVars, artifactVars, request, faults>>

Pending(j) == {b \in Blobs : cleanup[j][b] = "PENDING"}

\* delete_blob_batch reads a batch of pending blobs.
ReadBlobs(j, n) ==
    /\ At(j, n, "blobs")
    /\ \/ /\ Pending(j) = {}
          /\ Goto(j, n, "complete")
       \/ \E batch \in SUBSET Pending(j) :
             /\ batch # {}
             /\ Cardinality(batch) <= BlobBatchSize
             /\ batch # Pending(j) => Cardinality(batch) = BlobBatchSize
             /\ wf' = [wf EXCEPT ![j][n] = [NoWorkflow EXCEPT !.pc = "erasing", !.blobs = batch,
                                                              !.seen = job[j].done]]
    /\ UNCHANGED <<storeVars, artifactVars, request, faults>>

\* storage.delete of one object of the batch, which no transaction protects.
EraseObject(j, n, b) ==
    /\ At(j, n, "erasing")
    /\ b \in wf[j][n].blobs \cap object
    /\ object' = object \ {b}
    /\ UNCHANGED <<storeVars, blobRow, cleanup, job, textRun, upload, request, wf, faults>>

\* Mutant: the total counts the blobs that were pending, not the batch.
MarkBlobsMiscounted(j, n) ==
    LET w == wf[j][n] IN
    /\ At(j, n, "erasing")
    /\ w.blobs \cap object = {}
    /\ cleanup' = [cleanup EXCEPT ![j] =
                      [b \in Blobs |-> IF b \in w.blobs THEN "DELETED" ELSE @[b]]]
    /\ job' = [job EXCEPT ![j].done.erased = w.seen.erased + Cardinality(Pending(j))]
    /\ Goto(j, n, IF Pending(j) \subseteq w.blobs THEN "complete" ELSE "blobs")
    /\ UNCHANGED <<storeVars, blobRow, object, textRun, upload, request, faults>>

\* delete_blob_batch marks the batch, commits and looks whether blobs remain.
MarkBlobs(j, n) ==
    LET w == wf[j][n] IN
    /\ At(j, n, "erasing")
    /\ w.blobs \cap object = {}
    /\ cleanup' = [cleanup EXCEPT ![j] =
                      [b \in Blobs |-> IF b \in w.blobs THEN "DELETED" ELSE @[b]]]
    /\ job' = [job EXCEPT ![j].done.erased = w.seen.erased + Cardinality(w.blobs)]
    /\ Goto(j, n, IF Pending(j) \subseteq w.blobs THEN "complete" ELSE "blobs")
    /\ UNCHANGED <<storeVars, blobRow, object, textRun, upload, request, faults>>

\* complete_deletion: drops the cleanup manifest, or raises if a blob is pending.
Complete(j, n) ==
    /\ At(j, n, "complete")
    /\ IF Pending(j) # {}
       THEN Goto(j, n, "fail") /\ UNCHANGED <<cleanup, job>>
       ELSE /\ cleanup' = [cleanup EXCEPT ![j] = [b \in Blobs |-> "NONE"]]
            /\ job' = [job EXCEPT ![j].status = "COMPLETED"]
            /\ Goto(j, n, "completed")
    /\ UNCHANGED <<storeVars, blobRow, object, textRun, upload, request, faults>>

\* The fail step, then the workflow ends with the error.
Fail(j, n) ==
    /\ At(j, n, "fail")
    /\ FailDeletion(j)
    /\ Goto(j, n, "failed")
    /\ UNCHANGED <<artifact, selection, importJob, docs>>
    /\ UNCHANGED <<blobRow, object, cleanup, textRun, upload, request, faults>>

\* A step exhausts its retries: its transaction rolls back and the workflow fails.
StepGivesUp(j, n) ==
    /\ wf[j][n].pc \notin {"none", "fail", "completed", "failed"}
    /\ Fault("outage")
    /\ Goto(j, n, "fail")
    /\ UNCHANGED <<storeVars, artifactVars, request>>

\* The worker dies or an error is retried within a step: the step starts from its beginning.
StepRestarts(j, n) ==
    /\ Fault("restart")
    /\ \/ At(j, n, "check") /\ Goto(j, n, "validate")
       \/ At(j, n, "items_commit") /\ Goto(j, n, "items")
       \/ At(j, n, "record_commit") /\ Goto(j, n, "record")
       \/ At(j, n, "erasing") /\ Goto(j, n, "blobs")
    /\ UNCHANGED <<storeVars, artifactVars, request>>

\* The worker dies after a step commits and before DBOS records it: the step runs again.
StepReplays(j, n) ==
    /\ Fault("replay")
    /\ \/ At(j, n, "prepare") /\ Goto(j, n, "validate")
       \/ At(j, n, "items") /\ Goto(j, n, "prepare")
       \/ At(j, n, "record") /\ Goto(j, n, "items")
       \/ At(j, n, "blobs") /\ Goto(j, n, "record")
       \/ At(j, n, "complete") /\ Goto(j, n, "blobs")
       \/ At(j, n, "completed") /\ Goto(j, n, "complete")
    /\ UNCHANGED <<storeVars, artifactVars, request>>

\* The same for the fail step: the workflow is recovered after its job was marked as failed.
FailReplays(j, n) ==
    /\ Fault("refail")
    /\ At(j, n, "failed")
    /\ Goto(j, n, "fail")
    /\ UNCHANGED <<storeVars, artifactVars, request>>

-----------------------------------------------------------------------------
UploadNext ==
    \/ \E a \in Artifacts, h \in Hashes, b \in Blobs : UploadBegin(a, h, b)
    \/ \E c \in Collections : UploadCommit(c) \/ UploadRollback(c)

RequestNext(r) ==
    \/ \E c \in Collections : DeleteRequest(r, c)
    \/ FindJob(r) \/ CreateJob(r) \/ RefuseJob(r)
    \/ \E j \in Jobs : RetryRequest(r, j)
    \/ RetryJob(r) \/ RefuseRetry(r)
    \/ Enqueue(r) \/ EnqueueFails(r) \/ RequestDies(r)

\* What the worker does with attempt n of job j when nothing goes wrong around it.
WorkflowStep(j, n) ==
    \/ Validate(j, n) \/ CheckBlockers(j, n) \/ Prepare(j, n)
    \/ ReadItems(j, n) \/ CommitItems(j, n)
    \/ ReadRecord(j, n) \/ CommitRecord(j, n) \/ BatchConflict(j, n)
    \/ ReadBlobs(j, n) \/ (\E b \in Blobs : EraseObject(j, n, b)) \/ MarkBlobs(j, n)
    \/ Complete(j, n) \/ Fail(j, n)

WorkflowFault(j, n) ==
    StepGivesUp(j, n) \/ StepRestarts(j, n) \/ StepReplays(j, n) \/ FailReplays(j, n)

\* Some attempt of job j has not ended.
Running(j) == \E n \in Attempts : wf[j][n].pc \notin {"none", "completed", "failed"}

DeletionNext ==
    \/ UploadNext
    \/ \E c \in Collections : StartTextRun(c) \/ FinishTextRun(c)
    \/ \E r \in Requests : RequestNext(r)
    \/ \E j \in Jobs, n \in Attempts : WorkflowStep(j, n) \/ WorkflowFault(j, n)

Init == StoreInit /\ NoBlobs /\ DeletionInit

Spec == Init /\ [][DeletionNext]_vars

\* An API request that has begun goes on while its process lives.
RequestStep(r) ==
    FindJob(r) \/ CreateJob(r) \/ RefuseJob(r) \/ RetryJob(r) \/ RefuseRetry(r) \/ Enqueue(r)

\* The worker polls its queue, recovers its workflows and executes their next step.
DeletionFairness ==
    /\ \A r \in Requests : WF_vars(RequestStep(r))
    /\ \A j \in Jobs, n \in Attempts : WF_vars(WorkflowStep(j, n))

FairSpec == Spec /\ DeletionFairness

-----------------------------------------------------------------------------
(* Properties.                                                              *)

UploadRecord == [artifact : Artifacts, hash : Hashes, blob : Blobs]
JobRecord == [status : JobStatus, target : Collections \cup {NoCollection},
              attempt : 0..MaxAttempts, done : Totals]
RequestRecord == [pc : RequestPC, target : Collections \cup {NoCollection},
                  job : 0..MaxJobs, attempt : 0..MaxAttempts]
WorkflowRecord == [pc : WorkflowPC, batch : SUBSET Artifacts, blobs : SUBSET Blobs,
                   seen : Totals]

\* Every variable holds a value that its column, key or program counter can hold.
TypeOK ==
    /\ collection \in [Collections -> CollectionStatus]
    /\ artifact \in [Artifacts -> Blobs \cup {Absent, Removed}]
    /\ blobRow \in [Blobs -> Hashes \cup {Unwritten, Erased}]
    /\ object \in SUBSET Blobs
    /\ cleanup \in [Jobs -> [Blobs -> {"NONE", "PENDING", "DELETED"}]]
    /\ job \in [Jobs -> JobRecord]
    /\ textRun \in SUBSET Collections
    /\ upload \in [Collections -> UploadRecord \cup {NoUpload}]
    /\ request \in [Requests -> RequestRecord]
    /\ wf \in [Jobs -> [Attempts -> WorkflowRecord]]
    /\ faults \in 0..MaxFaults

(***************************************************************************)
(* "A blob shared by another artifact is retained until its final          *)
(* reference is deleted" (collections.mdx): the content of every artifact  *)
(* in the database can be read, whatever uploads and deletions ran at the  *)
(* same time and whatever steps were repeated.                             *)
(***************************************************************************)
ContentRetained == \A a \in Live : blobRow[artifact[a]] \in Hashes /\ artifact[a] \in object

(***************************************************************************)
(* Uploads are deduplicated: two content blobs never have the same hash.   *)
(***************************************************************************)
OneBlobPerHash ==
    \A b1, b2 \in Blobs : blobRow[b1] \in Hashes /\ blobRow[b1] = blobRow[b2] => b1 = b2

(***************************************************************************)
(* No object is forgotten by a deletion: an object whose row was deleted   *)
(* is still on the cleanup manifest of a job that is running or can be     *)
(* retried ("Retrying continues from the remaining database rows or blob   *)
(* cleanup manifest").                                                     *)
(***************************************************************************)
ManifestComplete ==
    \A b \in object : blobRow[b] = Erased =>
        \E j \in Jobs : /\ cleanup[j][b] = "PENDING"
                        /\ job[j].status # "COMPLETED" \/ Running(j)

(***************************************************************************)
(* A completed job left nothing of its collection behind: no row of the    *)
(* collection, of an item or of a container.                               *)
(***************************************************************************)
CompletedIsGone ==
    \A j \in Jobs : job[j].status = "COMPLETED" =>
        /\ collection[job[j].target] = "GONE"
        /\ \A a \in Live : CollectionOf[a] # job[j].target

(***************************************************************************)
(* "Collection has an active text processing run" (create_deletion_job):   *)
(* starting a run and starting a deletion exclude each other.  Only a      *)
(* retry, which does not look for runs, can delete under one.              *)
(***************************************************************************)
RunsMeetOnlyRetries ==
    \A c \in textRun : collection[c] # "OPEN" =>
        \E j \in Jobs : job[j].target = c /\ job[j].attempt > 1

(***************************************************************************)
(* The totals of a job are exact however often its steps are repeated:     *)
(* what they count is what is gone, unless another job of the collection   *)
(* did part of the work.                                                   *)
(***************************************************************************)
TotalsExact ==
    \A j \in Jobs :
        LET gone == {a \in Artifacts : artifact[a] = Removed /\ CollectionOf[a] = job[j].target}
            sole == \A k \in Jobs \ {j} : job[k].target = job[j].target => Untouched(job[k].done)
        IN  sole => /\ job[j].done.items = Cardinality(gone \cap ItemArtifacts)
                    /\ job[j].done.artifacts = Cardinality(gone)
                    /\ job[j].status = "COMPLETED" => job[j].done.erased = job[j].done.blobs

(***************************************************************************)
(* Deletion is durable: a job that is accepted ends, as COMPLETED or as    *)
(* FAILED (from where it can be retried), despite restarts of the worker.  *)
(***************************************************************************)
EveryJobEnds ==
    \A j \in Jobs :
        job[j].status \in ActiveDeletionStatus ~> job[j].status \in {"COMPLETED", "FAILED"}

(***************************************************************************)
(* A collection's life as its users see it (CollectionLifecycle).          *)
(***************************************************************************)
Lifecycle == INSTANCE CollectionLifecycle WITH
    phase  <- collection,
    stored <- Live,
    lost   <- {a \in Artifacts : artifact[a] = Removed}

\* Deletion implements it: an OPEN collection has lost nothing, and what is lost stays lost.
LifecycleSpec == Lifecycle!Spec
=============================================================================

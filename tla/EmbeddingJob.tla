----------------------------- MODULE EmbeddingJob -----------------------------
(***************************************************************************)
(* The embedding of a matter's documents.                                  *)
(*                                                                         *)
(*   app/routers/matter_embeddings.py    create and cancel requests        *)
(*   app/workflows/matter_embeddings.py  the job's workflow and the        *)
(*                                       workflows of its batches          *)
(*   app/matter_embeddings.py            the transactions of the steps     *)
(*   app/voyage_batch.py                 the provider's batch API          *)
(*   app/provider_usage.py               the usage ledger                  *)
(*                                                                         *)
(* No session locks a row: what it read may be stale when it commits, and  *)
(* it commits the columns that it changed.  A transaction with a gap       *)
(* between the two is two actions.  Documents are numbered in the order of *)
(* their identifiers; a document's chunks and vectors are one artifact.    *)
(***************************************************************************)
EXTENDS Naturals, FiniteSets, Sums

CONSTANTS
    EmbeddingJobs,      \* identities of jobs
    ExecutionModes,     \* of "synchronous", "voyage_realtime" and "voyage_batch"
    EmbeddingBatchSize, \* matter_embedding_batch_size
    MaxDocuments,       \* bound on the documents of the matter
    MaxEmbeddingFaults  \* bound on restarts, outages and lost answers

ASSUME EmbeddingAssumption ==
    /\ ExecutionModes \subseteq {"synchronous", "voyage_realtime", "voyage_batch"}
    /\ EmbeddingBatchSize \in Nat \ {0}
    /\ MaxDocuments \in Nat /\ MaxEmbeddingFaults \in Nat

VARIABLES
    documentCount,   \* the matter has the documents 1..documentCount
    embedJob,        \* MatterEmbeddingJob rows
    embedBatch,      \* MatterEmbeddingBatch rows
    jobFlow,         \* the workflow of each job
    batchFlow,       \* the workflow of each batch
    embedCancel,     \* the cancel request of each job
    stopped,         \* DBOS: the jobs whose workflows were canceled
    vectors,         \* documents with a CHUNK_VECTOR_SET artifact
    provider,        \* the provider's input file and batches for each batch
    usage,           \* ExternalProviderUsage: the batches that are recorded
    embeddingFaults

embeddingVars == <<documentCount, embedJob, embedBatch, jobFlow, batchFlow, embedCancel,
                   stopped, vectors, provider, usage, embeddingFaults>>

Numbers == 1..MaxDocuments
ActiveStatuses == {"QUEUED", "RUNNING"}
NoTally == [processed |-> 0, embedded |-> 0, skipped |-> 0, failed |-> 0]

EmbeddingInit ==
    /\ documentCount \in 1..MaxDocuments
    /\ embedJob = [j \in EmbeddingJobs |-> [status |-> "NONE", mode |-> "synchronous", total |-> 0,
                                            batches |-> 0, counts |-> NoTally]]
    /\ embedBatch = [j \in EmbeddingJobs |-> [n \in Numbers |->
            [status |-> "NONE", documents |-> {}, counts |-> NoTally,
             pending |-> {}, prepared |-> NoTally, submitted |-> FALSE, providerStatus |-> "none"]]]
    /\ jobFlow = [j \in EmbeddingJobs |-> [pc |-> "none", batches |-> 0, next |-> 1, failed |-> 0]]
    /\ batchFlow = [j \in EmbeddingJobs |-> [n \in Numbers |->
            [pc |-> "none", todo |-> {}, tally |-> NoTally]]]
    /\ embedCancel = [j \in EmbeddingJobs |-> "idle"]
    /\ stopped = {}
    /\ vectors = {}
    /\ provider = [j \in EmbeddingJobs |-> [n \in Numbers |->
            [file |-> {}, batches |-> 0, status |-> "none"]]]
    /\ usage = {}
    /\ embeddingFaults = 0

EmbeddingFault == embeddingFaults < MaxEmbeddingFaults /\ embeddingFaults' = embeddingFaults + 1

\* A step of job j's workflow, or of a batch's: DBOS starts none once they are canceled.
StepOf(j, pc) == jobFlow[j].pc = pc /\ j \notin stopped
BatchStep(j, n, pc) == batchFlow[j][n].pc = pc /\ j \notin stopped
JobGoto(j, pc) == jobFlow' = [jobFlow EXCEPT ![j].pc = pc]
BatchAt(j, n, pc) == batchFlow[j][n].pc = pc
BatchGoto(j, n, pc) == batchFlow' = [batchFlow EXCEPT ![j][n].pc = pc]

Sums(j) == [field \in DOMAIN NoTally |->
    SumTo([n \in 1..embedJob[j].batches |-> embedBatch[j][n].counts[field]], embedJob[j].batches)]

-----------------------------------------------------------------------------
(* Requests.                                                                *)

ImportDocument ==
    /\ documentCount < MaxDocuments
    /\ documentCount' = documentCount + 1
    /\ UNCHANGED <<embedJob, embedBatch, jobFlow, batchFlow, embedCancel, stopped, vectors,
                   provider, usage, embeddingFaults>>

\* One active job a matter, by check and by unique index; job and workflow in one transaction.
CreateEmbeddingJob(j, mode) ==
    /\ embedJob[j].status = "NONE"
    /\ \A k \in EmbeddingJobs : embedJob[k].status \notin ActiveStatuses
    /\ embedJob' = [embedJob EXCEPT ![j].status = "QUEUED", ![j].mode = mode]
    /\ JobGoto(j, "plan")
    /\ UNCHANGED <<documentCount, embedBatch, batchFlow, embedCancel, stopped, vectors, provider,
                   usage, embeddingFaults>>

BeginCancelEmbedding(j) ==
    /\ embedCancel[j] = "idle" /\ embedJob[j].status \in ActiveStatuses
    /\ embedCancel' = [embedCancel EXCEPT ![j] = "write"]
    /\ UNCHANGED <<documentCount, embedJob, embedBatch, jobFlow, batchFlow, stopped, vectors,
                   provider, usage, embeddingFaults>>

WriteCancelEmbedding(j) ==
    /\ embedCancel[j] = "write"
    /\ embedJob' = [embedJob EXCEPT ![j].status = "CANCELED"]
    /\ embedBatch' = [embedBatch EXCEPT ![j] = [n \in Numbers |->
            IF @[n].status = "QUEUED" THEN [@[n] EXCEPT !.status = "CANCELED"] ELSE @[n]]]
    /\ embedCancel' = [embedCancel EXCEPT ![j] = "stop"]
    /\ UNCHANGED <<documentCount, jobFlow, batchFlow, stopped, vectors, provider, usage,
                   embeddingFaults>>

\* DBOS stops the job's workflow and its children; a refusal is only logged.
StopEmbedding(j, refused) ==
    /\ embedCancel[j] = "stop"
    /\ stopped' = IF refused THEN stopped ELSE stopped \cup {j}
    /\ embedCancel' = [embedCancel EXCEPT ![j] = "provider"]
    /\ UNCHANGED <<documentCount, embedJob, embedBatch, jobFlow, batchFlow, vectors, provider,
                   usage, embeddingFaults>>

\* The provider is asked to cancel the batches that are known here to be active.
CancelVoyageBatches(j, refused) ==
    /\ embedCancel[j] = "provider"
    /\ provider' = [provider EXCEPT ![j] = [n \in Numbers |->
            IF ~refused /\ embedBatch[j][n].submitted
               /\ embedBatch[j][n].providerStatus = "in_progress" /\ @[n].status = "in_progress"
            THEN [@[n] EXCEPT !.status = "cancelled"] ELSE @[n]]]
    /\ embedCancel' = [embedCancel EXCEPT ![j] = "idle"]
    /\ UNCHANGED <<documentCount, embedJob, embedBatch, jobFlow, batchFlow, stopped, vectors,
                   usage, embeddingFaults>>

-----------------------------------------------------------------------------
(* The workflow of a job.                                                   *)

\* The batches of job j hold the documents that the matter has now.
Slice(n) == {d \in 1..documentCount : (d - 1) \div EmbeddingBatchSize = n - 1}
MutantSliceCount == (documentCount + EmbeddingBatchSize) \div EmbeddingBatchSize

SliceCount == (documentCount + EmbeddingBatchSize - 1) \div EmbeddingBatchSize

BeginPlan(j) ==
    /\ StepOf(j, "plan")
    /\ CASE embedJob[j].status = "CANCELED" -> JobGoto(j, "await")
         [] embedJob[j].status # "CANCELED" /\ embedJob[j].batches > 0 ->
                jobFlow' = [jobFlow EXCEPT ![j].pc = "enqueue", ![j].batches = embedJob[j].batches]
         [] OTHER -> JobGoto(j, "planWrite")
    /\ UNCHANGED <<documentCount, embedJob, embedBatch, batchFlow, embedCancel, stopped, vectors,
                   provider, usage, embeddingFaults>>

\* The status is assigned whatever a cancel request has stored since it was read.
WritePlan(j) ==
    /\ jobFlow[j].pc = "planWrite"
    /\ embedBatch' = [embedBatch EXCEPT ![j] = [n \in Numbers |->
            IF n <= SliceCount THEN [@[n] EXCEPT !.status = "QUEUED", !.documents = Slice(n)]
            ELSE @[n]]]
    /\ embedJob' = [embedJob EXCEPT ![j].status = "RUNNING", ![j].total = documentCount,
                                    ![j].batches = SliceCount]
    /\ jobFlow' = [jobFlow EXCEPT ![j].pc = "enqueue", ![j].batches = SliceCount]
    /\ UNCHANGED <<documentCount, batchFlow, embedCancel, stopped, vectors, provider, usage,
                   embeddingFaults>>

\* A batch's workflow identity is fixed: enqueueing it again changes nothing.
EnqueueBatches(j) ==
    /\ StepOf(j, "enqueue")
    /\ batchFlow' = [batchFlow EXCEPT ![j] = [n \in Numbers |->
            IF n <= jobFlow[j].batches /\ @[n].pc = "none"
            THEN [@[n] EXCEPT !.pc = IF embedJob[j].mode = "voyage_batch" THEN "submit" ELSE "process"]
            ELSE @[n]]]
    /\ JobGoto(j, "await")
    /\ UNCHANGED <<documentCount, embedJob, embedBatch, embedCancel, stopped, vectors, provider,
                   usage, embeddingFaults>>

MutantRaised(j, n) == FALSE

\* handle.get_result() raises what the batch's workflow raised.
Raised(j, n) == BatchAt(j, n, "error")

Returned(j, n) == batchFlow[j][n].pc \in {"done", "error"}

AwaitBatch(j) ==
    /\ StepOf(j, "await") /\ jobFlow[j].next <= jobFlow[j].batches
    /\ Returned(j, jobFlow[j].next)
    /\ IF Raised(j, jobFlow[j].next)
       THEN JobGoto(j, "fail") /\ UNCHANGED embedJob
       ELSE /\ jobFlow' = [jobFlow EXCEPT ![j].next = @ + 1]
            /\ embedJob' = [embedJob EXCEPT ![j].counts = Sums(j)]
    /\ UNCHANGED <<documentCount, embedBatch, batchFlow, embedCancel, stopped, vectors, provider,
                   usage, embeddingFaults>>

\* The projection of the vectors is one operation of SearchProjection.
IndexJob(j) ==
    /\ StepOf(j, "await") /\ jobFlow[j].next > jobFlow[j].batches
    /\ JobGoto(j, "complete")
    /\ UNCHANGED <<documentCount, embedJob, embedBatch, batchFlow, embedCancel, stopped, vectors,
                   provider, usage, embeddingFaults>>

BeginComplete(j) ==
    /\ StepOf(j, "complete")
    /\ embedJob' = [embedJob EXCEPT ![j].counts = Sums(j)]
    /\ jobFlow' = [jobFlow EXCEPT
            ![j].pc = IF embedJob[j].status = "CANCELED" THEN "ended" ELSE "completeWrite",
            ![j].failed = Sums(j).failed]
    /\ UNCHANGED <<documentCount, embedBatch, batchFlow, embedCancel, stopped, vectors, provider,
                   usage, embeddingFaults>>

WriteComplete(j) ==
    /\ jobFlow[j].pc = "completeWrite"
    /\ embedJob' = [embedJob EXCEPT ![j].status =
                        IF jobFlow[j].failed > 0 THEN "COMPLETED_WITH_ERRORS" ELSE "COMPLETED"]
    /\ JobGoto(j, "ended")
    /\ UNCHANGED <<documentCount, embedBatch, batchFlow, embedCancel, stopped, vectors, provider,
                   usage, embeddingFaults>>

MutantMayFail(j) == embedJob[j].status = "CANCELED"

MayFail(j) == embedJob[j].status # "CANCELED"

BeginFail(j) ==
    /\ StepOf(j, "fail")
    /\ JobGoto(j, IF MayFail(j) THEN "failWrite" ELSE "ended")
    /\ UNCHANGED <<documentCount, embedJob, embedBatch, batchFlow, embedCancel, stopped, vectors,
                   provider, usage, embeddingFaults>>

WriteFail(j) ==
    /\ jobFlow[j].pc = "failWrite"
    /\ embedJob' = [embedJob EXCEPT ![j].status = "FAILED"]
    /\ JobGoto(j, "ended")
    /\ UNCHANGED <<documentCount, embedBatch, batchFlow, embedCancel, stopped, vectors, provider,
                   usage, embeddingFaults>>

\* A step has failed as often as it is tried.
JobStepFails(j) ==
    /\ EmbeddingFault
    /\ jobFlow[j].pc \in {"plan", "planWrite", "await", "complete", "completeWrite"}
    /\ jobFlow[j].pc = "await" => \A n \in {jobFlow[j].next} \cap 1..jobFlow[j].batches : Returned(j, n)
    /\ JobGoto(j, "fail")
    /\ UNCHANGED <<documentCount, embedJob, embedBatch, batchFlow, embedCancel, stopped, vectors,
                   provider, usage>>

\* A worker dies: its workflow is recovered at the step that has not ended.
JobWorkerRestarts(j) ==
    /\ EmbeddingFault
    /\ \/ jobFlow[j].pc = "planWrite" /\ JobGoto(j, "plan")
       \/ jobFlow[j].pc = "enqueue" /\ embedJob[j].batches > 0 /\ JobGoto(j, "plan")
       \/ jobFlow[j].pc = "completeWrite" /\ JobGoto(j, "complete")
       \/ jobFlow[j].pc = "failWrite" /\ JobGoto(j, "fail")
    /\ UNCHANGED <<documentCount, embedJob, embedBatch, batchFlow, embedCancel, stopped, vectors,
                   provider, usage>>

-----------------------------------------------------------------------------
(* The workflow of a batch that is embedded by requests.                    *)

BeginProcess(j, n) ==
    /\ BatchStep(j, n, "process")
    /\ CASE embedBatch[j][n].status = "COMPLETED" ->
                BatchGoto(j, n, "done") /\ UNCHANGED embedBatch
         [] embedBatch[j][n].status # "COMPLETED" /\ embedJob[j].status = "CANCELED" ->
                /\ embedBatch' = [embedBatch EXCEPT ![j][n].status = "CANCELED"]
                /\ BatchGoto(j, n, "done")
         [] OTHER ->
                /\ embedBatch' = [embedBatch EXCEPT ![j][n].status = "RUNNING"]
                /\ batchFlow' = [batchFlow EXCEPT ![j][n] =
                        [pc |-> "embed", todo |-> embedBatch[j][n].documents, tally |-> NoTally]]
    /\ UNCHANGED <<documentCount, embedJob, jobFlow, embedCancel, stopped, vectors, provider, usage,
                   embeddingFaults>>

\* store_derived_artifact keeps the artifact that has the derivation key.
Outcome(d) == IF d \in vectors THEN "skipped" ELSE "embedded"

Counted(tally, outcome) == [tally EXCEPT !.processed = @ + 1, ![outcome] = @ + 1]

EmbedDocument(j, n, d, outcome) ==
    /\ BatchAt(j, n, "embed") /\ d \in batchFlow[j][n].todo
    /\ outcome \in {Outcome(d), "failed"}
    /\ vectors' = IF outcome = "embedded" THEN vectors \cup {d} ELSE vectors
    /\ batchFlow' = [batchFlow EXCEPT ![j][n].todo = @ \ {d},
                                      ![j][n].tally = Counted(@, outcome)]
    /\ UNCHANGED <<documentCount, embedJob, embedBatch, jobFlow, embedCancel, stopped, provider,
                   usage, embeddingFaults>>

\* The counts and the usage of the attempt are one transaction; usage has a key.
CommitBatch(j, n) ==
    LET tally == batchFlow[j][n].tally
    IN  /\ batchFlow[j][n].pc \in {"embed", "persist"} /\ batchFlow[j][n].todo = {}
        /\ embedBatch' = [embedBatch EXCEPT ![j][n].status = "COMPLETED", ![j][n].counts = tally]
        /\ usage' = IF \/ BatchAt(j, n, "persist")
                       \/ embedJob[j].mode = "voyage_realtime" /\ tally.embedded > 0
                    THEN usage \cup {<<j, n>>} ELSE usage
        /\ BatchGoto(j, n, "done")
        /\ UNCHANGED <<documentCount, embedJob, jobFlow, embedCancel, stopped, vectors, provider,
                       embeddingFaults>>

-----------------------------------------------------------------------------
(* The workflow of a batch that the provider embeds.                        *)

\* What each document of the batch would add to the manifest: vectors exist, or it is
\* pending, or it cannot be prepared.
Manifest(j, n, unprepared) ==
    LET documents == embedBatch[j][n].documents
        skipped == (documents \cap vectors) \ unprepared
        failures == documents \cap unprepared
    IN  [pending  |-> documents \ (skipped \cup failures),
         prepared |-> [processed |-> Cardinality(skipped) + Cardinality(failures), embedded |-> 0,
                       skipped |-> Cardinality(skipped), failed |-> Cardinality(failures)]]

\* submit_voyage_batch up to the upload; a batch without requests is complete.
BeginSubmit(j, n, unprepared) ==
    LET row == embedBatch[j][n]
        manifest == Manifest(j, n, unprepared)
    IN  /\ BatchStep(j, n, "submit")
        /\ unprepared \subseteq row.documents
        /\ \/ /\ row.status = "COMPLETED" /\ BatchGoto(j, n, "done")
              /\ UNCHANGED embedBatch
           \/ /\ row.status # "COMPLETED" /\ embedJob[j].status = "CANCELED"
              /\ embedBatch' = [embedBatch EXCEPT ![j][n].status = "CANCELED"]
              /\ BatchGoto(j, n, "done")
           \/ /\ row.status # "COMPLETED" /\ embedJob[j].status # "CANCELED" /\ row.submitted
              /\ BatchGoto(j, n, "poll")
              /\ UNCHANGED embedBatch
           \/ /\ row.status # "COMPLETED" /\ embedJob[j].status # "CANCELED" /\ ~row.submitted
              /\ embedBatch' = [embedBatch EXCEPT ![j][n] =
                    [@ EXCEPT !.pending = manifest.pending, !.prepared = manifest.prepared,
                              !.status = IF manifest.pending = {} THEN "COMPLETED" ELSE "RUNNING",
                              !.counts = IF manifest.pending = {} THEN manifest.prepared ELSE row.counts]]
              /\ BatchGoto(j, n, IF manifest.pending = {} THEN "done" ELSE "create")
    /\ UNCHANGED <<documentCount, embedJob, jobFlow, embedCancel, stopped, vectors, provider, usage,
                   embeddingFaults>>

MutantReconciled(j, n) == FALSE

\* find_batch: a batch with this batch's identity in its metadata exists at the provider.
Reconciled(j, n) == provider[j][n].batches > 0

\* submit_reconciled: find the batch, or find or upload its file and create it.
SubmitReconciled(j, n) ==
    IF Reconciled(j, n) THEN provider'= provider
    ELSE provider' = [provider EXCEPT ![j][n] =
            [file |-> IF @.file = {} THEN embedBatch[j][n].pending ELSE @.file,
             batches |-> @.batches + 1, status |-> "in_progress"]]

CreateBatch(j, n) ==
    /\ BatchAt(j, n, "create")
    /\ SubmitReconciled(j, n)
    /\ BatchGoto(j, n, "record")
    /\ UNCHANGED <<documentCount, embedJob, embedBatch, jobFlow, embedCancel, stopped, vectors,
                   usage, embeddingFaults>>

\* The provider has done what was asked, or only stored the file; the answer is lost.
CreateBatchAnswerLost(j, n) ==
    /\ EmbeddingFault
    /\ BatchAt(j, n, "create")
    /\ \/ SubmitReconciled(j, n)
       \/ provider' = [provider EXCEPT ![j][n].file =
                            IF @ = {} THEN embedBatch[j][n].pending ELSE @]
    /\ BatchGoto(j, n, "submit")
    /\ UNCHANGED <<documentCount, embedJob, embedBatch, jobFlow, embedCancel, stopped, vectors,
                   usage>>

RecordBatch(j, n) ==
    /\ BatchAt(j, n, "record")
    /\ embedBatch' = [embedBatch EXCEPT ![j][n].submitted = TRUE,
                                        ![j][n].providerStatus = "in_progress"]
    /\ BatchGoto(j, n, "poll")
    /\ UNCHANGED <<documentCount, embedJob, jobFlow, embedCancel, stopped, vectors, provider, usage,
                   embeddingFaults>>

\* The provider works on its own; a batch may complete with some of its requests failed.
ProviderEnds(j, n, status) ==
    /\ provider[j][n].status = "in_progress"
    /\ status \in {"completed", "failed"}
    /\ provider' = [provider EXCEPT ![j][n].status = status]
    /\ UNCHANGED <<documentCount, embedJob, embedBatch, jobFlow, batchFlow, embedCancel, stopped,
                   vectors, usage, embeddingFaults>>

\* poll_voyage_batch, after each durable sleep.
PollBatch(j, n) ==
    LET status == provider[j][n].status
        canceled == embedJob[j].status = "CANCELED"
    IN  /\ BatchStep(j, n, "poll") /\ status # embedBatch[j][n].providerStatus
        /\ embedBatch' = [embedBatch EXCEPT ![j][n].providerStatus = status,
                ![j][n].status = CASE status = "cancelled" /\ canceled -> "CANCELED"
                                   [] status = "failed" \/ (status = "cancelled" /\ ~canceled) -> "FAILED"
                                   [] OTHER -> @]
        /\ BatchGoto(j, n, CASE status = "completed" -> "finalize"
                              [] status = "cancelled" /\ canceled -> "done"
                              [] OTHER -> "error")
        /\ UNCHANGED <<documentCount, embedJob, jobFlow, embedCancel, stopped, vectors, provider,
                       usage, embeddingFaults>>

\* finalize_voyage_batch: a pending document that is not in the file has no results.
BeginFinalize(j, n) ==
    LET row == embedBatch[j][n]
        missing == row.pending \ provider[j][n].file
        known == [row.prepared EXCEPT !.processed = @ + Cardinality(missing),
                                      !.failed = @ + Cardinality(missing)]
    IN  /\ BatchStep(j, n, "finalize")
        /\ batchFlow' = [batchFlow EXCEPT ![j][n] =
                CASE row.status = "COMPLETED" \/ "CANCELED" \in {row.status, embedJob[j].status} ->
                        [@ EXCEPT !.pc = "done"]
                  [] OTHER -> [pc |-> "persist", todo |-> row.pending \ missing, tally |-> known]]
        /\ UNCHANGED <<documentCount, embedJob, embedBatch, jobFlow, embedCancel, stopped, vectors,
                       provider, usage, embeddingFaults>>

\* A request may have failed at the provider, or its vectors may not be stored.
PersistDocument(j, n, d, outcome) ==
    /\ BatchAt(j, n, "persist") /\ d \in batchFlow[j][n].todo
    /\ outcome \in {Outcome(d), "failed"}
    /\ vectors' = IF outcome = "embedded" THEN vectors \cup {d} ELSE vectors
    /\ batchFlow' = [batchFlow EXCEPT ![j][n].todo = @ \ {d},
                                      ![j][n].tally = Counted(@, outcome)]
    /\ UNCHANGED <<documentCount, embedJob, embedBatch, jobFlow, embedCancel, stopped, provider,
                   usage, embeddingFaults>>

\* The step of a batch is tried again from its start: the model, a row or the provider was away.
\* It is executed again also if the worker dies after its commit and before the parent has the
\* result.
BatchStepRestarts(j, n) ==
    /\ EmbeddingFault
    /\ \/ BatchAt(j, n, "embed") /\ BatchGoto(j, n, "process")
       \/ batchFlow[j][n].pc \in {"create", "record", "poll"} /\ BatchGoto(j, n, "submit")
       \/ BatchAt(j, n, "persist") /\ BatchGoto(j, n, "finalize")
       \/ /\ BatchAt(j, n, "done") /\ jobFlow[j].next <= n /\ embedBatch[j][n].status = "COMPLETED"
          /\ BatchGoto(j, n, CASE embedJob[j].mode # "voyage_batch" -> "process"
                                [] embedBatch[j][n].submitted -> "finalize"
                                [] OTHER -> "submit")
    /\ UNCHANGED <<documentCount, embedJob, embedBatch, jobFlow, embedCancel, stopped, vectors,
                   provider, usage>>

\* It has failed as often as it is tried, or the worker's configuration has changed.
BatchStepFails(j, n) ==
    /\ EmbeddingFault
    /\ batchFlow[j][n].pc \in {"process", "embed", "submit", "create", "record", "poll", "finalize",
                               "persist"}
    /\ BatchGoto(j, n, "error")
    /\ UNCHANGED <<documentCount, embedJob, embedBatch, jobFlow, embedCancel, stopped, vectors,
                   provider, usage>>

-----------------------------------------------------------------------------
JobFlow(j) ==
    \/ BeginPlan(j) \/ WritePlan(j) \/ EnqueueBatches(j) \/ AwaitBatch(j) \/ IndexJob(j)
    \/ BeginComplete(j) \/ WriteComplete(j) \/ BeginFail(j) \/ WriteFail(j)

BatchFlow(j, n) ==
    \/ BeginProcess(j, n) \/ CommitBatch(j, n)
    \/ \E d \in Numbers, outcome \in DOMAIN NoTally :
           EmbedDocument(j, n, d, outcome) \/ PersistDocument(j, n, d, outcome)
    \/ \E unprepared \in SUBSET Numbers : BeginSubmit(j, n, unprepared)
    \/ CreateBatch(j, n) \/ RecordBatch(j, n) \/ PollBatch(j, n) \/ BeginFinalize(j, n)

ProviderWorks(j, n) == \E status \in {"completed", "failed"} : ProviderEnds(j, n, status)

EmbeddingFaults(j) ==
    \/ JobStepFails(j) \/ JobWorkerRestarts(j)
    \/ \E n \in Numbers : CreateBatchAnswerLost(j, n) \/ BatchStepRestarts(j, n) \/ BatchStepFails(j, n)

EmbeddingRequests(j) ==
    \/ \E mode \in ExecutionModes : CreateEmbeddingJob(j, mode)
    \/ BeginCancelEmbedding(j) \/ WriteCancelEmbedding(j)
    \/ \E refused \in BOOLEAN : StopEmbedding(j, refused) \/ CancelVoyageBatches(j, refused)

EmbeddingNext ==
    \/ ImportDocument
    \/ \E j \in EmbeddingJobs :
           \/ EmbeddingRequests(j) \/ JobFlow(j) \/ EmbeddingFaults(j)
           \/ \E n \in Numbers : BatchFlow(j, n) \/ ProviderWorks(j, n)

\* DBOS recovers workflows, the queues are served, and the provider ends what it has accepted.
EmbeddingFairness ==
    \A j \in EmbeddingJobs :
        /\ WF_embeddingVars(JobFlow(j))
        /\ \A n \in Numbers : WF_embeddingVars(BatchFlow(j, n)) /\ WF_embeddingVars(ProviderWorks(j, n))

EmbeddingSpec == EmbeddingInit /\ [][EmbeddingNext]_embeddingVars /\ EmbeddingFairness

-----------------------------------------------------------------------------
Tallies == [DOMAIN NoTally -> 0..MaxDocuments]

\* Every variable keeps its type.
EmbeddingTypeOK ==
    /\ documentCount \in 0..MaxDocuments
    /\ embedJob \in [EmbeddingJobs ->
            [status : ActiveStatuses \cup {"NONE", "COMPLETED", "COMPLETED_WITH_ERRORS", "FAILED", "CANCELED"},
             mode : {"synchronous", "voyage_realtime", "voyage_batch"}, total : 0..MaxDocuments,
             batches : 0..MaxDocuments, counts : Tallies]]
    /\ embedBatch \in [EmbeddingJobs -> [Numbers ->
            [status : {"NONE", "QUEUED", "RUNNING", "COMPLETED", "FAILED", "CANCELED"},
             documents : SUBSET Numbers, counts : Tallies, pending : SUBSET Numbers,
             prepared : Tallies, submitted : BOOLEAN,
             providerStatus : {"none", "in_progress", "completed", "failed", "cancelled"}]]]
    /\ jobFlow \in [EmbeddingJobs ->
            [pc : {"none", "plan", "planWrite", "enqueue", "await", "complete", "completeWrite", "fail",
                   "failWrite", "ended"},
             batches : 0..MaxDocuments, next : 1..(MaxDocuments + 1), failed : 0..MaxDocuments]]
    /\ batchFlow \in [EmbeddingJobs -> [Numbers ->
            [pc : {"none", "process", "embed", "submit", "create", "record", "poll", "finalize",
                   "persist", "done", "error"},
             todo : SUBSET Numbers, tally : Tallies]]]
    /\ embedCancel \in [EmbeddingJobs -> {"idle", "write", "stop", "provider"}]
    /\ stopped \subseteq EmbeddingJobs /\ vectors \subseteq Numbers
    /\ provider \in [EmbeddingJobs -> [Numbers ->
            [file : SUBSET Numbers, batches : Nat,
             status : {"none", "in_progress", "completed", "failed", "cancelled"}]]]
    /\ usage \subseteq EmbeddingJobs \X Numbers
    /\ embeddingFaults \in 0..MaxEmbeddingFaults

\* A job that says it is completed has counted each of its documents once, whatever was retried:
\* the vectors of those it does not count as failed exist, and what the provider has answered
\* for its batches is in the ledger.
CompletedJobIsWhole ==
    \A j \in EmbeddingJobs :
        LET counts == embedJob[j].counts
            planned == UNION {embedBatch[j][n].documents : n \in Numbers}
        IN  embedJob[j].status \in {"COMPLETED", "COMPLETED_WITH_ERRORS"} =>
                /\ counts.processed = embedJob[j].total
                /\ counts.processed = counts.embedded + counts.skipped + counts.failed
                /\ Cardinality(planned \ vectors) <= counts.failed
                /\ embedJob[j].status = "COMPLETED" => planned \subseteq vectors
                /\ \A n \in Numbers : embedBatch[j][n].providerStatus = "completed" => <<j, n>> \in usage

\* However often a submission is tried and its answers are lost, the provider is given a batch
\* once, and what it embeds are documents that the batch holds.
OneProviderBatch ==
    \A j \in EmbeddingJobs, n \in Numbers :
        provider[j][n].batches <= 1 /\ provider[j][n].file \subseteq embedBatch[j][n].documents

\* A job that is not canceled ends, though its batches fail: a matter is not left with an active
\* job that no workflow works on, which would refuse every later job.
EveryEmbeddingJobEnds ==
    \A j \in EmbeddingJobs :
        (embedJob[j].status \in ActiveStatuses) ~>
            (embedJob[j].status \notin ActiveStatuses \/ j \in stopped)
=============================================================================

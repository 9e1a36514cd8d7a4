------------------------------- MODULE JobProofs -------------------------------
(***************************************************************************)
(* What the jobs that DBOS executes promise, for any number of jobs and    *)
(* documents and any size of a batch.                                      *)
(*                                                                         *)
(* EmbeddingInv and TopicInv are the inductive invariants: where the       *)
(* workflow of a job is, which documents its batches share, and what a     *)
(* batch has counted of them.  Each action keeps them by a lemma of its    *)
(* own, over lemmas on steps of one job and of one batch.  That the counts *)
(* of a job are right then follows from the sums of SumsProofs.  TextInv,  *)
(* at the end, does the same for the runs of text processing.              *)
(***************************************************************************)
EXTENDS EmbeddingJob, TopicJob, TextProcessing, SumsProofs

(***************************************************************************)
(* Embedding: the invariant.                                               *)
(***************************************************************************)

\* A count of every document that a batch has dealt with.
TallyRows == [processed : Nat, embedded : Nat, skipped : Nat, failed : Nat]

\* The rows of the embedding tables and of the workflows that serve them.
EmbedJobRows ==
    [status : ActiveStatuses \cup {"NONE", "COMPLETED", "COMPLETED_WITH_ERRORS", "FAILED", "CANCELED"},
     mode : {"synchronous", "voyage_realtime", "voyage_batch"}, total : Nat, batches : Nat,
     counts : TallyRows]
EmbedBatchRows ==
    [status : {"NONE", "QUEUED", "RUNNING", "COMPLETED", "FAILED", "CANCELED"},
     documents : SUBSET Numbers, counts : TallyRows, pending : SUBSET Numbers,
     prepared : TallyRows, submitted : BOOLEAN,
     providerStatus : {"none", "in_progress", "completed", "failed", "cancelled"}]
JobFlowRows ==
    [pc : {"none", "plan", "planWrite", "enqueue", "await", "complete", "completeWrite", "fail",
           "failWrite", "ended"},
     batches : Nat, next : Nat, failed : Nat]
BatchFlowRows ==
    [pc : {"none", "process", "embed", "submit", "create", "record", "poll", "finalize", "persist",
           "done", "error"},
     todo : SUBSET Numbers, tally : TallyRows]
ProviderRows ==
    [file : SUBSET Numbers, batches : Nat,
     status : {"none", "in_progress", "completed", "failed", "cancelled"}]

EmbeddingRows ==
    /\ documentCount \in 0..MaxDocuments
    /\ embedJob \in [EmbeddingJobs -> EmbedJobRows]
    /\ embedBatch \in [EmbeddingJobs -> [Numbers -> EmbedBatchRows]]
    /\ jobFlow \in [EmbeddingJobs -> JobFlowRows]
    /\ batchFlow \in [EmbeddingJobs -> [Numbers -> BatchFlowRows]]
    /\ provider \in [EmbeddingJobs -> [Numbers -> ProviderRows]]

\* The tally has each of these documents once, and those without vectors as failed.
Dealt(tally, documents) ==
    /\ tally.processed = Cardinality(documents)
    /\ tally.processed = tally.embedded + tally.skipped + tally.failed
    /\ Cardinality(documents \ vectors) <= tally.failed

\* The documents of batch n of a job that has these many.
Share(total, n) == {d \in 1..total : (d - 1) \div EmbeddingBatchSize = n - 1}

\* A batch whose workflow has not started has nothing at the provider.
Untouched(j, n) ==
    batchFlow[j][n].pc = "none" =>
        /\ embedBatch[j][n].pending = {} /\ ~embedBatch[j][n].submitted
        /\ provider[j][n].batches = 0 /\ provider[j][n].file = {}
        /\ embedBatch[j][n].status # "COMPLETED"

\* What a batch is given and hands to the provider.
Given(j, n) ==
    /\ n <= embedJob[j].batches => embedBatch[j][n].documents = Share(embedJob[j].total, n)
    /\ n > embedJob[j].batches => /\ embedBatch[j][n].documents = {}
                                  /\ embedBatch[j][n].status = "NONE" /\ batchFlow[j][n].pc = "none"
    /\ embedBatch[j][n].pending \subseteq embedBatch[j][n].documents
    /\ provider[j][n].file \subseteq embedBatch[j][n].documents
    /\ provider[j][n].batches <= 1

\* Where the workflow of a batch is, and what its row says.
Placed(j, n) ==
    /\ batchFlow[j][n].pc \in {"embed", "create", "record", "poll", "persist"} =>
            embedBatch[j][n].status # "COMPLETED"
    /\ embedJob[j].mode # "voyage_batch" =>
            /\ ~embedBatch[j][n].submitted
            /\ batchFlow[j][n].pc \in {"none", "process", "embed", "done", "error"}
    /\ embedJob[j].mode = "voyage_batch" => batchFlow[j][n].pc \notin {"process", "embed"}
    /\ batchFlow[j][n].pc \in {"poll", "finalize", "persist"} => embedBatch[j][n].submitted
    /\ embedBatch[j][n].providerStatus # "none" => embedBatch[j][n].submitted
    /\ \/ batchFlow[j][n].pc = "done" /\ embedBatch[j][n].status # "COMPLETED"
       \/ embedBatch[j][n].status = "CANCELED"
       => embedJob[j].status \in {"CANCELED", "FAILED"}
    /\ n < jobFlow[j].next => batchFlow[j][n].pc = "done"
    /\ jobFlow[j].pc \in {"none", "plan", "planWrite", "enqueue"} => batchFlow[j][n].pc = "none"

\* What the batch has counted.
Counts(j, n) ==
    LET row == embedBatch[j][n]
        flow == batchFlow[j][n]
    IN  /\ flow.pc \in {"embed", "persist"} =>
                flow.todo \subseteq row.documents /\ Dealt(flow.tally, row.documents \ flow.todo)
        /\ flow.pc \in {"create", "record"} \/ row.submitted => Dealt(row.prepared, row.documents \ row.pending)
        /\ row.status = "COMPLETED" => /\ Dealt(row.counts, row.documents)
                                       /\ row.submitted => <<j, n>> \in usage

\* A batch that is as the table says, and the job that has only such batches.
BatchOK(j, n) == Untouched(j, n) /\ Given(j, n) /\ Placed(j, n) /\ Counts(j, n)

\* A job whose workflow reported success.
CompletedEmbedding(j) == embedJob[j].status \in {"COMPLETED", "COMPLETED_WITH_ERRORS"}

\* Every batch has been counted, and the counts of the job are their sums.
Finished(j) ==
    /\ jobFlow[j].batches = embedJob[j].batches /\ jobFlow[j].next > jobFlow[j].batches
    /\ \A n \in Numbers : n <= embedJob[j].batches => embedBatch[j][n].status = "COMPLETED"
    /\ embedJob[j].counts = Sums(j) /\ jobFlow[j].failed = Sums(j).failed

\* What every job's rows are, taken together.
JobOK(j) ==
    /\ embedJob[j].status = "NONE" => jobFlow[j].pc = "none"
    /\ jobFlow[j].pc \in {"none", "planWrite"} => embedJob[j].batches = 0
    /\ embedJob[j].total <= MaxDocuments
    /\ embedJob[j].batches = (embedJob[j].total + EmbeddingBatchSize - 1) \div EmbeddingBatchSize
    /\ jobFlow[j].pc = "enqueue" => jobFlow[j].batches = embedJob[j].batches
    /\ jobFlow[j].pc \in {"await", "complete"} /\ embedJob[j].status # "CANCELED" =>
            jobFlow[j].batches = embedJob[j].batches
    /\ jobFlow[j].pc = "complete" => jobFlow[j].next > jobFlow[j].batches
    /\ CompletedEmbedding(j) \/ embedJob[j].status = "FAILED" => jobFlow[j].pc = "ended"
    /\ jobFlow[j].pc = "completeWrite" \/ CompletedEmbedding(j) => Finished(j)
    /\ embedJob[j].status = "COMPLETED" => embedJob[j].counts.failed = 0

\* The inductive invariant of the embedding jobs.
EmbeddingInv ==
    /\ EmbeddingRows
    /\ \A j \in EmbeddingJobs : JobOK(j) /\ \A n \in Numbers : BatchOK(j, n)

(***************************************************************************)
(* Embedding: rows, and steps that leave them alone.                       *)
(***************************************************************************)

\* What the invariant says of the variables.
LEMMA EmbeddingRowsHold ==
  ASSUME EmbeddingInv
  PROVE  /\ EmbeddingRows
         /\ documentCount \in 0..MaxDocuments
         /\ embedJob \in [EmbeddingJobs -> EmbedJobRows]
         /\ embedBatch \in [EmbeddingJobs -> [Numbers -> EmbedBatchRows]]
         /\ jobFlow \in [EmbeddingJobs -> JobFlowRows]
         /\ batchFlow \in [EmbeddingJobs -> [Numbers -> BatchFlowRows]]
         /\ provider \in [EmbeddingJobs -> [Numbers -> ProviderRows]]
         /\ \A j \in EmbeddingJobs : JobOK(j) /\ \A n \in Numbers : BatchOK(j, n)
  BY DEF EmbeddingInv, EmbeddingRows

\* There are finitely many documents.
LEMMA FiniteDocuments ==
  ASSUME NEW S \in SUBSET Numbers
  PROVE  IsFiniteSet(S) /\ Cardinality(S) \in Nat /\ Cardinality(S) <= MaxDocuments
<1>1. IsFiniteSet(1..MaxDocuments) /\ Cardinality(1..MaxDocuments) = MaxDocuments
  BY EmbeddingAssumption, FS_Interval
<1>2. S \subseteq 1..MaxDocuments
  BY DEF Numbers
<1> QED BY <1>1, <1>2, FS_Subset, FS_CardinalityType

\* Vectors are kept: what was dealt with stays so.
LEMMA DealtStays ==
  ASSUME NEW tally \in TallyRows, NEW S \in SUBSET Numbers, Dealt(tally, S), vectors \subseteq vectors'
  PROVE  Dealt(tally, S)'
<1> PICK now, later : now = S \ vectors /\ later = S \ vectors'
  OBVIOUS
<1>1. later \subseteq now /\ now \in SUBSET Numbers /\ later \in SUBSET Numbers
  OBVIOUS
<1>2. Cardinality(later) <= Cardinality(now)
  BY <1>1, FiniteDocuments, FS_Subset
<1>3. Cardinality(later) \in Nat /\ Cardinality(now) \in Nat
  BY <1>1, FiniteDocuments
<1>4. Cardinality(now) <= tally.failed
  BY DEF Dealt
<1>5. Cardinality(later) <= tally.failed
  BY <1>2, <1>3, <1>4 DEF TallyRows
<1> QED BY <1>5 DEF Dealt

\* A batch whose rows a step does not touch.
LEMMA BatchStays ==
  ASSUME NEW j \in EmbeddingJobs, NEW n \in Numbers, BatchOK(j, n), EmbeddingRows,
         embedJob'[j].status = embedJob[j].status \/ embedJob'[j].status \in {"CANCELED", "FAILED"},
         embedJob'[j].mode = embedJob[j].mode \/ batchFlow[j][n].pc = "none",
         embedJob'[j].total = embedJob[j].total, embedJob'[j].batches = embedJob[j].batches,
         embedBatch'[j][n] = embedBatch[j][n], batchFlow'[j][n] = batchFlow[j][n],
         provider'[j][n] = provider[j][n],
         n < jobFlow'[j].next => batchFlow[j][n].pc = "done",
         jobFlow'[j].pc \in {"none", "plan", "planWrite", "enqueue"} => batchFlow[j][n].pc = "none",
         vectors \subseteq vectors', usage \subseteq usage'
  PROVE  BatchOK(j, n)'
<1>1. Untouched(j, n)'
  BY DEF BatchOK, Untouched
<1>2. Given(j, n)'
  BY DEF BatchOK, Given
<1>3. Placed(j, n)'
  BY DEF BatchOK, Placed, Untouched
<1>4. Counts(j, n)'
  <2>1. embedBatch[j][n] \in EmbedBatchRows /\ batchFlow[j][n] \in BatchFlowRows
    BY DEF EmbeddingRows
  <2>2. /\ embedBatch[j][n].counts \in TallyRows /\ embedBatch[j][n].prepared \in TallyRows
        /\ embedBatch[j][n].documents \in SUBSET Numbers /\ batchFlow[j][n].tally \in TallyRows
    BY <2>1 DEF EmbedBatchRows, BatchFlowRows
  <2>3. PICK counts \in TallyRows, prepared \in TallyRows, tally \in TallyRows,
             all \in SUBSET Numbers, left \in SUBSET Numbers, done \in SUBSET Numbers :
               /\ counts = embedBatch[j][n].counts /\ prepared = embedBatch[j][n].prepared
               /\ tally = batchFlow[j][n].tally /\ all = embedBatch[j][n].documents
               /\ left = embedBatch[j][n].documents \ embedBatch[j][n].pending
               /\ done = embedBatch[j][n].documents \ batchFlow[j][n].todo
    BY <2>2
  <2>4. /\ Dealt(counts, all) => Dealt(counts, all)'
        /\ Dealt(prepared, left) => Dealt(prepared, left)'
        /\ Dealt(tally, done) => Dealt(tally, done)'
    BY DealtStays
  <2> QED BY <2>3, <2>4 DEF BatchOK, Counts
<1> QED BY <1>1, <1>2, <1>3, <1>4 DEF BatchOK

\* A job whose rows a step does not touch.
LEMMA JobStays ==
  ASSUME NEW j \in EmbeddingJobs, JobOK(j), embedJob'[j] = embedJob[j], jobFlow'[j] = jobFlow[j],
         \A n \in Numbers : /\ embedBatch'[j][n].status = embedBatch[j][n].status
                            /\ embedBatch'[j][n].counts = embedBatch[j][n].counts,
         embedJob[j].batches \in Nat, embedJob[j].batches <= MaxDocuments
  PROVE  JobOK(j)'
<1>1. Sums(j)' = Sums(j)
  <2>1. \A n \in 1..embedJob[j].batches : n \in Numbers
    BY EmbeddingAssumption DEF Numbers
  <2> QED BY <2>1 DEF Sums
<1>2. CompletedEmbedding(j)' <=> CompletedEmbedding(j)
  BY DEF CompletedEmbedding
<1>3. Finished(j) => Finished(j)'
  BY <1>1 DEF Finished
<1> QED BY <1>2, <1>3 DEF JobOK

\* A job has at most as many batches as documents, and its batches hold its documents.
LEMMA Shares ==
  ASSUME NEW total \in Nat, total <= MaxDocuments, NEW batches,
         batches = (total + EmbeddingBatchSize - 1) \div EmbeddingBatchSize
  PROVE  /\ batches \in Nat /\ batches <= total /\ batches <= MaxDocuments
         /\ \A n \in Numbers : Share(total, n) \subseteq Numbers
         /\ \A m, n \in Numbers : m # n => Share(total, m) \cap Share(total, n) = {}
         /\ \A d \in 1..total : \E n \in 1..batches : d \in Share(total, n)
<1>1. EmbeddingBatchSize \in Nat \ {0} /\ MaxDocuments \in Nat
  BY EmbeddingAssumption
<1>2. batches \in Nat /\ batches <= total
  BY <1>1, Z3
<1>3. \A n \in Numbers : Share(total, n) \subseteq Numbers
  BY <1>1 DEF Share, Numbers
<1>4. \A m, n \in Numbers : m # n => Share(total, m) \cap Share(total, n) = {}
  BY DEF Share, Numbers
<1>5. ASSUME NEW d \in 1..total
      PROVE  \E n \in 1..batches : d \in Share(total, n)
  <2>1. PICK q \in Nat : q = (d - 1) \div EmbeddingBatchSize /\ q + 1 <= batches
    BY <1>1, Z3
  <2>2. q + 1 \in 1..batches /\ (q + 1) - 1 = q
    BY <1>2, <2>1
  <2> QED BY <2>1, <2>2 DEF Share
<1> QED BY <1>1, <1>2, <1>3, <1>4, <1>5

\* The number of batches of a job.
LEMMA BatchBound ==
  ASSUME EmbeddingInv, NEW j \in EmbeddingJobs
  PROVE  embedJob[j].batches \in Nat /\ embedJob[j].batches <= MaxDocuments
<1>1. embedJob[j].total \in Nat /\ embedJob[j].total <= MaxDocuments
  BY EmbeddingRowsHold DEF EmbedJobRows, JobOK
<1>2. embedJob[j].batches = (embedJob[j].total + EmbeddingBatchSize - 1) \div EmbeddingBatchSize
  BY EmbeddingRowsHold DEF JobOK
<1> QED BY <1>1, <1>2, Shares

\* A step of one job.
LEMMA OneJobMoves ==
  ASSUME EmbeddingInv, NEW j \in EmbeddingJobs, documentCount' \in 0..MaxDocuments,
         NEW job \in EmbedJobRows, embedJob' = [embedJob EXCEPT ![j] = job],
         NEW w \in JobFlowRows, jobFlow' = [jobFlow EXCEPT ![j] = w],
         NEW bs \in [Numbers -> EmbedBatchRows], embedBatch' = [embedBatch EXCEPT ![j] = bs],
         NEW fs \in [Numbers -> BatchFlowRows], batchFlow' = [batchFlow EXCEPT ![j] = fs],
         NEW ps \in [Numbers -> ProviderRows], provider' = [provider EXCEPT ![j] = ps],
         vectors \subseteq vectors', usage \subseteq usage',
         JobOK(j)', \A n \in Numbers : BatchOK(j, n)'
  PROVE  EmbeddingInv'
<1>1. EmbeddingRows'
  BY EmbeddingRowsHold DEF EmbeddingRows
<1>2. ASSUME NEW k \in EmbeddingJobs, k # j
      PROVE  JobOK(k)' /\ \A n \in Numbers : BatchOK(k, n)'
  <2>1. /\ embedJob'[k] = embedJob[k] /\ jobFlow'[k] = jobFlow[k] /\ embedBatch'[k] = embedBatch[k]
        /\ batchFlow'[k] = batchFlow[k] /\ provider'[k] = provider[k] /\ EmbeddingRows
    BY <1>2, EmbeddingRowsHold
  <2>2. JobOK(k)'
    BY <2>1, EmbeddingRowsHold, BatchBound, JobStays
  <2>3. ASSUME NEW n \in Numbers
        PROVE  BatchOK(k, n)'
    <3>1. BatchOK(k, n)
      BY EmbeddingRowsHold
    <3>2. /\ n < jobFlow[k].next => batchFlow[k][n].pc = "done"
          /\ jobFlow[k].pc \in {"none", "plan", "planWrite", "enqueue"} => batchFlow[k][n].pc = "none"
      BY <3>1 DEF BatchOK, Placed
    <3> QED BY <2>1, <3>1, <3>2, BatchStays
  <2> QED BY <2>2, <2>3
<1>3. ASSUME NEW k \in EmbeddingJobs
      PROVE  JobOK(k)' /\ \A n \in Numbers : BatchOK(k, n)'
  BY <1>2
<1> QED BY <1>1, <1>3 DEF EmbeddingInv

\* A step that changes no row.
LEMMA RowsStay ==
  ASSUME EmbeddingInv, documentCount' \in 0..MaxDocuments,
         UNCHANGED <<embedJob, embedBatch, jobFlow, batchFlow, provider, vectors, usage>>
  PROVE  EmbeddingInv'
<1>1. EmbeddingRows' /\ EmbeddingRows
  BY EmbeddingRowsHold DEF EmbeddingRows
<1>2. ASSUME NEW k \in EmbeddingJobs
      PROVE  JobOK(k)' /\ \A n \in Numbers : BatchOK(k, n)'
  <2>1. /\ embedJob'[k] = embedJob[k] /\ jobFlow'[k] = jobFlow[k] /\ embedBatch'[k] = embedBatch[k]
        /\ batchFlow'[k] = batchFlow[k] /\ provider'[k] = provider[k]
    OBVIOUS
  <2>2. JobOK(k)'
    BY <2>1, EmbeddingRowsHold, BatchBound, JobStays
  <2>3. ASSUME NEW n \in Numbers
        PROVE  BatchOK(k, n)'
    <3>1. BatchOK(k, n)
      BY EmbeddingRowsHold
    <3>2. /\ n < jobFlow[k].next => batchFlow[k][n].pc = "done"
          /\ jobFlow[k].pc \in {"none", "plan", "planWrite", "enqueue"} => batchFlow[k][n].pc = "none"
      BY <3>1 DEF BatchOK, Placed
    <3> QED BY <1>1, <2>1, <3>1, <3>2, BatchStays
  <2> QED BY <2>2, <2>3
<1> QED BY <1>1, <1>2 DEF EmbeddingInv

\* A step of the workflow of a job that leaves its batches alone.
LEMMA JobFlowMoves ==
  ASSUME EmbeddingInv, NEW j \in EmbeddingJobs,
         NEW job \in EmbedJobRows, embedJob' = [embedJob EXCEPT ![j] = job],
         NEW w \in JobFlowRows, jobFlow' = [jobFlow EXCEPT ![j] = w],
         UNCHANGED <<documentCount, embedBatch, batchFlow, provider, vectors, usage>>,
         job.total = embedJob[j].total, job.batches = embedJob[j].batches,
         JobOK(j)', \A n \in Numbers : Placed(j, n)'
  PROVE  EmbeddingInv'
<1>1. /\ embedJob'[j] = job /\ documentCount' \in 0..MaxDocuments
      /\ embedBatch[j] \in [Numbers -> EmbedBatchRows] /\ embedBatch' = [embedBatch EXCEPT ![j] = embedBatch[j]]
      /\ batchFlow[j] \in [Numbers -> BatchFlowRows] /\ batchFlow' = [batchFlow EXCEPT ![j] = batchFlow[j]]
      /\ provider[j] \in [Numbers -> ProviderRows] /\ provider' = [provider EXCEPT ![j] = provider[j]]
      /\ vectors \subseteq vectors' /\ usage \subseteq usage'
  BY EmbeddingRowsHold
<1>2. ASSUME NEW n \in Numbers
      PROVE  BatchOK(j, n)'
  <2>1. BatchOK(j, n) /\ Placed(j, n)'
    BY EmbeddingRowsHold
  <2>2. Untouched(j, n)' /\ Given(j, n)'
    BY <1>1, <2>1 DEF BatchOK, Untouched, Given
  <2>3. Counts(j, n)'
    BY <1>1, <2>1 DEF BatchOK, Counts, Dealt
  <2> QED BY <2>1, <2>2, <2>3 DEF BatchOK
<1> QED BY <1>1, <1>2, OneJobMoves

(***************************************************************************)
(* Embedding: the workflow of a job.                                       *)
(***************************************************************************)

\* The sums of the counts are counts.
LEMMA SumsType ==
  ASSUME EmbeddingInv, NEW j \in EmbeddingJobs
  PROVE  Sums(j) \in TallyRows
<1>1. /\ embedBatch[j] \in [Numbers -> EmbedBatchRows]
      /\ embedJob[j].batches \in Nat /\ embedJob[j].batches <= MaxDocuments
  BY EmbeddingRowsHold, BatchBound
<1>2. \A n \in 1..embedJob[j].batches : embedBatch[j][n].counts \in TallyRows
  <2>1. \A n \in 1..embedJob[j].batches : n \in Numbers
    BY <1>1, EmbeddingAssumption DEF Numbers
  <2> QED BY <1>1, <2>1 DEF EmbedBatchRows
<1>3. ASSUME NEW field \in {"processed", "embedded", "skipped", "failed"}
      PROVE  Sums(j)[field] \in Nat
  <2> DEFINE f == [n \in 1..embedJob[j].batches |-> embedBatch[j][n].counts[field]]
  <2>1. f \in [1..embedJob[j].batches -> Nat]
    BY <1>2 DEF TallyRows
  <2>2. Sums(j)[field] = SumTo(f, embedJob[j].batches)
    BY DEF Sums, NoTally
  <2> HIDE DEF f
  <2> QED BY <1>1, <2>1, <2>2, SumType
<1> PICK g : g = Sums(j)
  OBVIOUS
<1>4. g = [field \in {"processed", "embedded", "skipped", "failed"} |-> Sums(j)[field]]
  BY DEF Sums, NoTally
<1>5. g = [processed |-> g.processed, embedded |-> g.embedded, skipped |-> g.skipped, failed |-> g.failed]
  BY <1>4
<1> QED BY <1>3, <1>5 DEF TallyRows

\* Sums of counts that a step does not touch.
LEMMA SumsStay ==
  ASSUME NEW j, embedBatch'[j] = embedBatch[j], embedJob'[j].batches = embedJob[j].batches
  PROVE  Sums(j)' = Sums(j)
  BY DEF Sums

\* The row of a workflow after a move.
LEMMA JobFlowRow ==
  ASSUME EmbeddingInv, NEW j \in EmbeddingJobs, NEW pc, JobGoto(j, pc),
         pc \in {"plan", "planWrite", "enqueue", "await", "complete", "completeWrite", "fail",
                 "failWrite", "ended"}
  PROVE  \E w \in JobFlowRows :
            /\ jobFlow' = [jobFlow EXCEPT ![j] = w] /\ w.pc = pc
            /\ w.batches = jobFlow[j].batches /\ w.next = jobFlow[j].next /\ w.failed = jobFlow[j].failed
<1> DEFINE w == [jobFlow[j] EXCEPT !.pc = pc]
<1>1. jobFlow[j] \in JobFlowRows /\ jobFlow \in [EmbeddingJobs -> JobFlowRows]
  BY EmbeddingRowsHold
<1>2. /\ w \in JobFlowRows /\ w.pc = pc
      /\ w.batches = jobFlow[j].batches /\ w.next = jobFlow[j].next /\ w.failed = jobFlow[j].failed
  BY <1>1 DEF JobFlowRows
<1>3. jobFlow' = [jobFlow EXCEPT ![j] = w]
  BY <1>1 DEF JobGoto
<1> QED BY <1>2, <1>3

\* A move of a workflow that has started and not ended.
LEMMA FlowGoes ==
  ASSUME EmbeddingInv, NEW j \in EmbeddingJobs, NEW pc, JobGoto(j, pc),
         pc \in {"plan", "planWrite", "await", "complete", "fail", "failWrite", "ended"},
         UNCHANGED <<documentCount, embedJob, embedBatch, batchFlow, provider, vectors, usage>>,
         jobFlow[j].pc \notin {"none", "ended"},
         pc = "planWrite" => embedJob[j].batches = 0,
         pc \in {"plan", "planWrite"} => jobFlow[j].pc \in {"plan", "planWrite", "enqueue"},
         pc \in {"await", "complete"} /\ embedJob[j].status # "CANCELED" =>
            jobFlow[j].batches = embedJob[j].batches,
         pc = "complete" => jobFlow[j].next > jobFlow[j].batches
  PROVE  EmbeddingInv'
<1>1. PICK w \in JobFlowRows :
            /\ jobFlow' = [jobFlow EXCEPT ![j] = w] /\ w.pc = pc
            /\ w.batches = jobFlow[j].batches /\ w.next = jobFlow[j].next /\ w.failed = jobFlow[j].failed
  BY JobFlowRow
<1>2. /\ embedJob[j] \in EmbedJobRows /\ embedJob' = [embedJob EXCEPT ![j] = embedJob[j]]
      /\ jobFlow'[j] = w /\ JobOK(j)
  BY <1>1, EmbeddingRowsHold
<1>3. JobOK(j)'
  <2>1. ~CompletedEmbedding(j)' /\ embedJob[j].status # "FAILED"
    BY <1>2 DEF JobOK, CompletedEmbedding
  <2>2. embedJob[j].status # "COMPLETED"
    BY <1>2 DEF JobOK, CompletedEmbedding
  <2> QED BY <1>1, <1>2, <2>1, <2>2 DEF JobOK
<1>4. \A n \in Numbers : Placed(j, n)'
  <2>1. \A n \in Numbers : Placed(j, n)
    BY EmbeddingRowsHold DEF BatchOK
  <2> QED BY <1>1, <1>2, <2>1 DEF Placed
<1> QED BY <1>1, <1>2, <1>3, <1>4, JobFlowMoves

\* The plan is read.
LEMMA BeginPlanKeeps == ASSUME EmbeddingInv, NEW j \in EmbeddingJobs, BeginPlan(j) PROVE EmbeddingInv'
<1>1. /\ jobFlow[j].pc = "plan"
      /\ UNCHANGED <<documentCount, embedJob, embedBatch, batchFlow, provider, vectors, usage>>
  BY DEF BeginPlan, StepOf
<1>2. CASE embedJob[j].status = "CANCELED" /\ JobGoto(j, "await")
  BY <1>1, <1>2, FlowGoes
<1>3. CASE embedJob[j].batches = 0 /\ JobGoto(j, "planWrite")
  BY <1>1, <1>3, FlowGoes
<1>4. CASE /\ embedJob[j].batches > 0
           /\ jobFlow' = [jobFlow EXCEPT ![j].pc = "enqueue", ![j].batches = embedJob[j].batches]
  <2> DEFINE w == [jobFlow[j] EXCEPT !.pc = "enqueue", !.batches = embedJob[j].batches]
  <2>1. /\ jobFlow[j] \in JobFlowRows /\ jobFlow \in [EmbeddingJobs -> JobFlowRows]
        /\ embedJob[j] \in EmbedJobRows /\ embedJob' = [embedJob EXCEPT ![j] = embedJob[j]]
        /\ JobOK(j) /\ embedJob[j].batches \in Nat
    BY <1>1, EmbeddingRowsHold, BatchBound
  <2>2. /\ w \in JobFlowRows /\ w.pc = "enqueue" /\ w.batches = embedJob[j].batches
        /\ w.next = jobFlow[j].next
    BY <2>1 DEF JobFlowRows
  <2>3. jobFlow' = [jobFlow EXCEPT ![j] = w]
    BY <1>4, <2>1
  <2> HIDE DEF w
  <2>4. jobFlow'[j] = w
    BY <2>1, <2>3
  <2>5. JobOK(j)'
    BY <1>1, <2>1, <2>2, <2>4 DEF JobOK, CompletedEmbedding
  <2>6. \A n \in Numbers : Placed(j, n)'
    <3>1. \A n \in Numbers : Placed(j, n)
      BY EmbeddingRowsHold DEF BatchOK
    <3> QED BY <1>1, <2>2, <2>4, <3>1 DEF Placed
  <2> QED BY <1>1, <2>1, <2>2, <2>3, <2>5, <2>6, JobFlowMoves
<1>5. embedJob[j].batches \in Nat
  BY BatchBound
<1> QED BY <1>2, <1>3, <1>4, <1>5 DEF BeginPlan

\* The batches have all been awaited.
LEMMA IndexJobKeeps == ASSUME EmbeddingInv, NEW j \in EmbeddingJobs, IndexJob(j) PROVE EmbeddingInv'
<1>1. /\ jobFlow[j].pc = "await" /\ jobFlow[j].next > jobFlow[j].batches /\ JobGoto(j, "complete")
      /\ UNCHANGED <<documentCount, embedJob, embedBatch, batchFlow, provider, vectors, usage>>
  BY DEF IndexJob, StepOf
<1>2. embedJob[j].status # "CANCELED" => jobFlow[j].batches = embedJob[j].batches
  BY <1>1, EmbeddingRowsHold DEF JobOK
<1> QED BY <1>1, <1>2, FlowGoes

\* The workflow fails, or ends without a word if the job is canceled.
LEMMA BeginFailKeeps == ASSUME EmbeddingInv, NEW j \in EmbeddingJobs, BeginFail(j) PROVE EmbeddingInv'
<1>1. /\ jobFlow[j].pc = "fail" /\ (JobGoto(j, "failWrite") \/ JobGoto(j, "ended"))
      /\ UNCHANGED <<documentCount, embedJob, embedBatch, batchFlow, provider, vectors, usage>>
  BY DEF BeginFail, StepOf
<1> QED BY <1>1, FlowGoes

\* See BeginFailKeeps.
LEMMA JobStepFailsKeeps ==
  ASSUME EmbeddingInv, NEW j \in EmbeddingJobs, JobStepFails(j)
  PROVE  EmbeddingInv'
<1>1. /\ jobFlow[j].pc \notin {"none", "ended"} /\ JobGoto(j, "fail")
      /\ UNCHANGED <<documentCount, embedJob, embedBatch, batchFlow, provider, vectors, usage>>
  BY DEF JobStepFails
<1> QED BY <1>1, FlowGoes

\* The workflow is recovered at a step that has not ended.
LEMMA JobWorkerRestartsKeeps ==
  ASSUME EmbeddingInv, NEW j \in EmbeddingJobs, JobWorkerRestarts(j)
  PROVE  EmbeddingInv'
<1>1. UNCHANGED <<documentCount, embedJob, embedBatch, batchFlow, provider, vectors, usage>>
  BY DEF JobWorkerRestarts
<1>2. CASE jobFlow[j].pc \in {"planWrite", "enqueue"} /\ JobGoto(j, "plan")
  BY <1>1, <1>2, FlowGoes
<1>3. CASE jobFlow[j].pc = "completeWrite" /\ JobGoto(j, "complete")
  <2>1. jobFlow[j].batches = embedJob[j].batches /\ jobFlow[j].next > jobFlow[j].batches
    BY <1>3, EmbeddingRowsHold DEF JobOK, Finished
  <2> QED BY <1>1, <1>3, <2>1, FlowGoes
<1>4. CASE jobFlow[j].pc = "failWrite" /\ JobGoto(j, "fail")
  BY <1>1, <1>4, FlowGoes
<1> QED BY <1>2, <1>3, <1>4 DEF JobWorkerRestarts

\* The row of a job after its status is written.
LEMMA EmbedJobRow ==
  ASSUME EmbeddingInv, NEW j \in EmbeddingJobs, NEW status,
         status \in {"QUEUED", "RUNNING", "COMPLETED", "COMPLETED_WITH_ERRORS", "FAILED", "CANCELED"},
         embedJob' = [embedJob EXCEPT ![j].status = status]
  PROVE  \E job \in EmbedJobRows :
            /\ embedJob' = [embedJob EXCEPT ![j] = job] /\ job.status = status
            /\ job.mode = embedJob[j].mode /\ job.total = embedJob[j].total
            /\ job.batches = embedJob[j].batches /\ job.counts = embedJob[j].counts
<1> DEFINE job == [embedJob[j] EXCEPT !.status = status]
<1>1. embedJob[j] \in EmbedJobRows /\ embedJob \in [EmbeddingJobs -> EmbedJobRows]
  BY EmbeddingRowsHold
<1>2. /\ job \in EmbedJobRows /\ job.status = status
      /\ job.mode = embedJob[j].mode /\ job.total = embedJob[j].total
      /\ job.batches = embedJob[j].batches /\ job.counts = embedJob[j].counts
  BY <1>1 DEF EmbedJobRows, ActiveStatuses
<1>3. embedJob' = [embedJob EXCEPT ![j] = job]
  BY <1>1
<1> QED BY <1>2, <1>3

\* The failure is written.
LEMMA WriteFailKeeps == ASSUME EmbeddingInv, NEW j \in EmbeddingJobs, WriteFail(j) PROVE EmbeddingInv'
<1>1. PICK job \in EmbedJobRows :
            /\ embedJob' = [embedJob EXCEPT ![j] = job] /\ job.status = "FAILED"
            /\ job.mode = embedJob[j].mode /\ job.total = embedJob[j].total
            /\ job.batches = embedJob[j].batches /\ job.counts = embedJob[j].counts
  BY EmbedJobRow DEF WriteFail
<1>2. PICK w \in JobFlowRows :
            /\ jobFlow' = [jobFlow EXCEPT ![j] = w] /\ w.pc = "ended"
            /\ w.batches = jobFlow[j].batches /\ w.next = jobFlow[j].next /\ w.failed = jobFlow[j].failed
  BY JobFlowRow DEF WriteFail
<1>3. /\ jobFlow[j].pc = "failWrite"
      /\ UNCHANGED <<documentCount, embedBatch, batchFlow, provider, vectors, usage>>
  BY DEF WriteFail
<1>4. embedJob'[j] = job /\ jobFlow'[j] = w /\ JobOK(j)
  BY <1>1, <1>2, EmbeddingRowsHold
<1>5. JobOK(j)'
  BY <1>1, <1>2, <1>3, <1>4 DEF JobOK, CompletedEmbedding
<1>6. \A n \in Numbers : Placed(j, n)'
  <2>1. \A n \in Numbers : Placed(j, n)
    BY EmbeddingRowsHold DEF BatchOK
  <2> QED BY <1>1, <1>2, <1>3, <1>4, <2>1 DEF Placed
<1> QED BY <1>1, <1>2, <1>3, <1>5, <1>6, JobFlowMoves

\* The completion is written: the job has counted its batches.
LEMMA WriteCompleteKeeps ==
  ASSUME EmbeddingInv, NEW j \in EmbeddingJobs, WriteComplete(j)
  PROVE  EmbeddingInv'
<1>1. PICK status : /\ status = IF jobFlow[j].failed > 0 THEN "COMPLETED_WITH_ERRORS" ELSE "COMPLETED"
                    /\ embedJob' = [embedJob EXCEPT ![j].status = status]
  BY DEF WriteComplete
<1>2. status \in {"COMPLETED", "COMPLETED_WITH_ERRORS"}
  BY <1>1
<1>3. PICK job \in EmbedJobRows :
            /\ embedJob' = [embedJob EXCEPT ![j] = job] /\ job.status = status
            /\ job.mode = embedJob[j].mode /\ job.total = embedJob[j].total
            /\ job.batches = embedJob[j].batches /\ job.counts = embedJob[j].counts
  BY ZenonT(60), <1>1, <1>2, EmbedJobRow
<1>4. PICK w \in JobFlowRows :
            /\ jobFlow' = [jobFlow EXCEPT ![j] = w] /\ w.pc = "ended"
            /\ w.batches = jobFlow[j].batches /\ w.next = jobFlow[j].next /\ w.failed = jobFlow[j].failed
  BY JobFlowRow DEF WriteComplete
<1>5. /\ jobFlow[j].pc = "completeWrite"
      /\ UNCHANGED <<documentCount, embedBatch, batchFlow, provider, vectors, usage>>
  BY DEF WriteComplete
<1>6. embedJob'[j] = job /\ jobFlow'[j] = w /\ JobOK(j) /\ Finished(j) /\ jobFlow[j].failed \in Nat
  BY <1>3, <1>4, <1>5, EmbeddingRowsHold DEF JobOK, JobFlowRows
<1>7. JobOK(j)'
  <2>1. Sums(j)' = Sums(j)
    BY <1>3, <1>5, <1>6, SumsStay
  <2>2. Finished(j)'
    BY <1>3, <1>4, <1>5, <1>6, <2>1 DEF Finished
  <2>3. status = "COMPLETED" => embedJob[j].counts.failed = 0
    BY <1>1, <1>6 DEF Finished
  <2> QED BY <1>2, <1>3, <1>4, <1>5, <1>6, <2>2, <2>3 DEF JobOK, CompletedEmbedding
<1>8. \A n \in Numbers : Placed(j, n)'
  <2> SUFFICES ASSUME NEW n \in Numbers
               PROVE  Placed(j, n)'
    OBVIOUS
  <2>1. Placed(j, n) /\ Given(j, n)
    BY EmbeddingRowsHold DEF BatchOK
  <2>2. \/ embedBatch[j][n].status = "COMPLETED"
        \/ embedBatch[j][n].status = "NONE" /\ batchFlow[j][n].pc = "none"
    <3>1. n \in Nat /\ embedJob[j].batches \in Nat
      BY EmbeddingAssumption, BatchBound DEF Numbers
    <3> QED BY <1>6, <2>1, <3>1 DEF Finished, Given
  <2> QED BY <1>3, <1>4, <1>5, <1>6, <2>1, <2>2 DEF Placed
<1> QED BY <1>3, <1>4, <1>5, <1>7, <1>8, JobFlowMoves

\* The counts of a job after its batches are summed.
LEMMA SummedJobRow ==
  ASSUME EmbeddingInv, NEW j \in EmbeddingJobs, embedJob' = [embedJob EXCEPT ![j].counts = Sums(j)]
  PROVE  \E job \in EmbedJobRows :
            /\ embedJob' = [embedJob EXCEPT ![j] = job] /\ job.counts = Sums(j)
            /\ job.mode = embedJob[j].mode /\ job.total = embedJob[j].total
            /\ job.batches = embedJob[j].batches /\ job.status = embedJob[j].status
<1> PICK counts \in TallyRows : counts = Sums(j)
  BY SumsType
<1> DEFINE job == [embedJob[j] EXCEPT !.counts = counts]
<1>1. embedJob[j] \in EmbedJobRows /\ embedJob \in [EmbeddingJobs -> EmbedJobRows]
  BY EmbeddingRowsHold
<1>2. /\ job \in EmbedJobRows /\ job.status = embedJob[j].status
      /\ job.mode = embedJob[j].mode /\ job.total = embedJob[j].total
      /\ job.batches = embedJob[j].batches /\ job.counts = counts
  BY <1>1 DEF EmbedJobRows
<1>3. embedJob' = [embedJob EXCEPT ![j] = job]
  BY <1>1
<1> QED BY <1>2, <1>3

\* The result of the next batch.
LEMMA AwaitBatchKeeps == ASSUME EmbeddingInv, NEW j \in EmbeddingJobs, AwaitBatch(j) PROVE EmbeddingInv'
<1>1. /\ jobFlow[j].pc = "await" /\ jobFlow[j].next <= jobFlow[j].batches
      /\ Returned(j, jobFlow[j].next)
      /\ UNCHANGED <<documentCount, embedBatch, batchFlow, provider, vectors, usage>>
  BY DEF AwaitBatch, StepOf
<1>2. CASE JobGoto(j, "fail") /\ UNCHANGED embedJob
  BY <1>1, <1>2, FlowGoes
<1>3. CASE /\ ~Raised(j, jobFlow[j].next) /\ jobFlow' = [jobFlow EXCEPT ![j].next = @ + 1]
           /\ embedJob' = [embedJob EXCEPT ![j].counts = Sums(j)]
  <2>1. PICK job \in EmbedJobRows :
            /\ embedJob' = [embedJob EXCEPT ![j] = job] /\ job.counts = Sums(j)
            /\ job.mode = embedJob[j].mode /\ job.total = embedJob[j].total
            /\ job.batches = embedJob[j].batches /\ job.status = embedJob[j].status
    BY <1>3, SummedJobRow
  <2>2. jobFlow[j] \in JobFlowRows /\ jobFlow \in [EmbeddingJobs -> JobFlowRows] /\ JobOK(j)
    BY EmbeddingRowsHold
  <2>3. PICK next \in Nat : next = jobFlow[j].next + 1
    BY <2>2 DEF JobFlowRows
  <2> DEFINE w == [jobFlow[j] EXCEPT !.next = next]
  <2>4. /\ w \in JobFlowRows /\ w.pc = "await" /\ w.batches = jobFlow[j].batches
        /\ w.next = next /\ w.failed = jobFlow[j].failed
    BY <1>1, <2>2 DEF JobFlowRows
  <2>5. jobFlow' = [jobFlow EXCEPT ![j] = w]
    BY <1>3, <2>2, <2>3
  <2> HIDE DEF w
  <2>6. embedJob'[j] = job /\ jobFlow'[j] = w
    BY <2>1, <2>2, <2>5, EmbeddingRowsHold
  <2>7. JobOK(j)'
    <3>1. ~CompletedEmbedding(j)' /\ embedJob[j].status \notin {"FAILED", "COMPLETED"}
      BY <1>1, <2>1, <2>2, <2>6 DEF JobOK, CompletedEmbedding
    <3> QED BY <1>1, <2>1, <2>2, <2>4, <2>6, <3>1 DEF JobOK
  <2>8. \A n \in Numbers : Placed(j, n)'
    <3> SUFFICES ASSUME NEW n \in Numbers
                 PROVE  Placed(j, n)'
      OBVIOUS
    <3>1. Placed(j, n)
      BY EmbeddingRowsHold DEF BatchOK
    <3>2. n < next => n < jobFlow[j].next \/ n = jobFlow[j].next
      BY <2>2, <2>3, EmbeddingAssumption DEF JobFlowRows, Numbers
    <3>3. n = jobFlow[j].next => batchFlow[j][n].pc = "done"
      BY <1>1, <1>3 DEF Returned, Raised, BatchAt
    <3> QED BY <1>1, <2>1, <2>4, <2>6, <3>1, <3>2, <3>3 DEF Placed
  <2> QED BY <1>1, <2>1, <2>4, <2>5, <2>7, <2>8, JobFlowMoves
<1> QED BY <1>1, <1>2, <1>3 DEF AwaitBatch

\* The counts of the job are summed, and its status is read.
LEMMA BeginCompleteKeeps ==
  ASSUME EmbeddingInv, NEW j \in EmbeddingJobs, BeginComplete(j)
  PROVE  EmbeddingInv'
<1>1. /\ jobFlow[j].pc = "complete"
      /\ UNCHANGED <<documentCount, embedBatch, batchFlow, provider, vectors, usage>>
  BY DEF BeginComplete, StepOf
<1>2. PICK job \in EmbedJobRows :
            /\ embedJob' = [embedJob EXCEPT ![j] = job] /\ job.counts = Sums(j)
            /\ job.mode = embedJob[j].mode /\ job.total = embedJob[j].total
            /\ job.batches = embedJob[j].batches /\ job.status = embedJob[j].status
  BY SummedJobRow DEF BeginComplete
<1>3. PICK failed \in Nat, pc \in {"ended", "completeWrite"} :
            /\ failed = Sums(j).failed
            /\ pc = IF embedJob[j].status = "CANCELED" THEN "ended" ELSE "completeWrite"
  BY SumsType DEF TallyRows
<1> DEFINE w == [jobFlow[j] EXCEPT !.pc = pc, !.failed = failed]
<1>4. jobFlow[j] \in JobFlowRows /\ jobFlow \in [EmbeddingJobs -> JobFlowRows] /\ JobOK(j)
  BY EmbeddingRowsHold
<1>5. pc \in {"ended", "completeWrite"}
  BY <1>3
<1>6. /\ w \in JobFlowRows /\ w.pc = pc /\ w.batches = jobFlow[j].batches
      /\ w.next = jobFlow[j].next /\ w.failed = failed
  BY <1>4, <1>5 DEF JobFlowRows
<1>7. jobFlow' = [jobFlow EXCEPT ![j] = w]
  <2>1. jobFlow' = [jobFlow EXCEPT ![j].pc = pc, ![j].failed = failed]
    BY <1>3 DEF BeginComplete
  <2> QED BY <1>4, <2>1
<1> HIDE DEF w
<1>8. embedJob'[j] = job /\ jobFlow'[j] = w
  BY <1>2, <1>4, <1>7, EmbeddingRowsHold
<1>9. ~CompletedEmbedding(j)' /\ embedJob[j].status \notin {"FAILED", "COMPLETED"}
  BY <1>1, <1>2, <1>4, <1>8 DEF JobOK, CompletedEmbedding
<1>10. JobOK(j)'
  <2>1. pc = "completeWrite" => Finished(j)'
    <3> SUFFICES ASSUME pc = "completeWrite"
                 PROVE  Finished(j)'
      OBVIOUS
    <3>1. Sums(j)' = Sums(j)
      BY <1>1, <1>2, <1>8, SumsStay
    <3>2. /\ embedJob[j].status # "CANCELED" /\ jobFlow[j].batches = embedJob[j].batches
          /\ jobFlow[j].next > jobFlow[j].batches
      BY <1>1, <1>3, <1>4 DEF JobOK
    <3>3. ASSUME NEW n \in Numbers, n <= embedJob[j].batches
          PROVE  embedBatch[j][n].status = "COMPLETED"
      <4>1. Placed(j, n)
        BY EmbeddingRowsHold DEF BatchOK
      <4>2. n < jobFlow[j].next
        BY <1>4, <3>2, <3>3, EmbeddingAssumption DEF JobFlowRows, Numbers
      <4> QED BY <1>9, <3>2, <4>1, <4>2 DEF Placed
    <3> QED BY <1>1, <1>2, <1>3, <1>6, <1>8, <3>1, <3>2, <3>3 DEF Finished
  <2> QED BY <1>1, <1>2, <1>4, <1>5, <1>6, <1>8, <1>9, <2>1 DEF JobOK
<1>11. \A n \in Numbers : Placed(j, n)'
  <2>1. \A n \in Numbers : Placed(j, n)
    BY EmbeddingRowsHold DEF BatchOK
  <2> QED BY <1>1, <1>2, <1>5, <1>6, <1>8, <2>1 DEF Placed
<1> QED BY <1>1, <1>2, <1>6, <1>7, <1>10, <1>11, JobFlowMoves

\* A job is created, while none is active.
LEMMA CreateEmbeddingJobKeeps ==
  ASSUME EmbeddingInv, NEW j \in EmbeddingJobs, NEW mode \in ExecutionModes, CreateEmbeddingJob(j, mode)
  PROVE  EmbeddingInv'
<1> DEFINE job == [embedJob[j] EXCEPT !.status = "QUEUED", !.mode = mode]
<1>1. /\ embedJob[j].status = "NONE"
      /\ UNCHANGED <<documentCount, embedBatch, batchFlow, provider, vectors, usage>>
  BY DEF CreateEmbeddingJob
<1>2. /\ embedJob[j] \in EmbedJobRows /\ embedJob \in [EmbeddingJobs -> EmbedJobRows]
      /\ JobOK(j) /\ jobFlow[j].pc = "none"
      /\ mode \in {"synchronous", "voyage_realtime", "voyage_batch"}
  BY <1>1, EmbeddingRowsHold, EmbeddingAssumption DEF JobOK
<1>3. /\ job \in EmbedJobRows /\ job.status = "QUEUED" /\ job.mode = mode
      /\ job.total = embedJob[j].total /\ job.batches = embedJob[j].batches
      /\ job.counts = embedJob[j].counts
  BY <1>2 DEF EmbedJobRows, ActiveStatuses
<1>4. embedJob' = [embedJob EXCEPT ![j] = job]
  BY <1>2 DEF CreateEmbeddingJob
<1> HIDE DEF job
<1>5. PICK w \in JobFlowRows :
            /\ jobFlow' = [jobFlow EXCEPT ![j] = w] /\ w.pc = "plan"
            /\ w.batches = jobFlow[j].batches /\ w.next = jobFlow[j].next /\ w.failed = jobFlow[j].failed
  BY JobFlowRow DEF CreateEmbeddingJob
<1>6. embedJob'[j] = job /\ jobFlow'[j] = w
  BY <1>2, <1>4, <1>5, EmbeddingRowsHold
<1>7. JobOK(j)'
  BY <1>2, <1>3, <1>5, <1>6 DEF JobOK, CompletedEmbedding
<1>8. \A n \in Numbers : Placed(j, n)'
  <2> SUFFICES ASSUME NEW n \in Numbers
               PROVE  Placed(j, n)'
    OBVIOUS
  <2>1. Placed(j, n) /\ Untouched(j, n) /\ Given(j, n) /\ batchFlow[j][n].pc = "none"
    BY <1>2, EmbeddingRowsHold DEF BatchOK, Placed
  <2>2. embedBatch[j][n].status = "NONE"
    <3>1. embedJob[j].batches = 0 /\ n > 0
      BY <1>2, EmbeddingAssumption DEF JobOK, Numbers
    <3> QED BY <2>1, <3>1 DEF Given
  <2> QED BY <1>1, <1>3, <1>5, <1>6, <2>1, <2>2 DEF Placed, Untouched
<1> QED BY <1>1, <1>3, <1>4, <1>5, <1>7, <1>8, JobFlowMoves

\* The batches of the job get the documents that the matter has now.
LEMMA WritePlanKeeps == ASSUME EmbeddingInv, NEW j \in EmbeddingJobs, WritePlan(j) PROVE EmbeddingInv'
<1> PICK batches : batches = SliceCount
  OBVIOUS
<1> DEFINE job == [embedJob[j] EXCEPT !.status = "RUNNING", !.total = documentCount, !.batches = batches]
           w == [jobFlow[j] EXCEPT !.pc = "enqueue", !.batches = batches]
           bs == [n \in Numbers |-> IF n <= batches
                                    THEN [embedBatch[j][n] EXCEPT !.status = "QUEUED",
                                                                  !.documents = Slice(n)]
                                    ELSE embedBatch[j][n]]
<1>1. /\ jobFlow[j].pc = "planWrite"
      /\ UNCHANGED <<documentCount, batchFlow, provider, vectors, usage>>
  BY DEF WritePlan
<1>2. /\ documentCount \in Nat /\ documentCount <= MaxDocuments /\ documentCount' \in 0..MaxDocuments
      /\ embedJob[j] \in EmbedJobRows /\ embedJob \in [EmbeddingJobs -> EmbedJobRows]
      /\ jobFlow[j] \in JobFlowRows /\ jobFlow \in [EmbeddingJobs -> JobFlowRows]
      /\ embedBatch[j] \in [Numbers -> EmbedBatchRows]
      /\ embedBatch \in [EmbeddingJobs -> [Numbers -> EmbedBatchRows]]
      /\ batchFlow[j] \in [Numbers -> BatchFlowRows] /\ batchFlow' = [batchFlow EXCEPT ![j] = batchFlow[j]]
      /\ provider[j] \in [Numbers -> ProviderRows] /\ provider' = [provider EXCEPT ![j] = provider[j]]
      /\ JobOK(j)
  BY <1>1, EmbeddingRowsHold, EmbeddingAssumption
<1>3. /\ batches = (documentCount + EmbeddingBatchSize - 1) \div EmbeddingBatchSize
      /\ batches \in Nat /\ \A n \in Numbers : Slice(n) = Share(documentCount, n)
      /\ \A n \in Numbers : Share(documentCount, n) \in SUBSET Numbers
  <2>1. batches = (documentCount + EmbeddingBatchSize - 1) \div EmbeddingBatchSize
    BY DEF SliceCount
  <2> QED BY <1>2, <2>1, Shares DEF Slice, Share
<1>4. /\ job \in EmbedJobRows /\ job.status = "RUNNING" /\ job.mode = embedJob[j].mode
      /\ job.total = documentCount /\ job.batches = batches
  BY <1>2, <1>3 DEF EmbedJobRows, ActiveStatuses
<1>5. /\ w \in JobFlowRows /\ w.pc = "enqueue" /\ w.batches = batches /\ w.next = jobFlow[j].next
  BY <1>2, <1>3 DEF JobFlowRows
<1>6. embedJob' = [embedJob EXCEPT ![j] = job] /\ jobFlow' = [jobFlow EXCEPT ![j] = w]
  <2>1. /\ embedJob' = [embedJob EXCEPT ![j].status = "RUNNING", ![j].total = documentCount,
                                        ![j].batches = batches]
        /\ jobFlow' = [jobFlow EXCEPT ![j].pc = "enqueue", ![j].batches = batches]
    BY DEF WritePlan
  <2> QED BY <1>2, <2>1
<1>7. embedBatch' = [embedBatch EXCEPT ![j] = bs]
  BY <1>2 DEF WritePlan
<1> HIDE DEF job, w
<1>8. ASSUME NEW n \in Numbers
      PROVE  /\ bs[n] \in EmbedBatchRows
             /\ bs[n].pending = embedBatch[j][n].pending /\ bs[n].submitted = embedBatch[j][n].submitted
             /\ bs[n].providerStatus = embedBatch[j][n].providerStatus
             /\ n <= batches => bs[n].status = "QUEUED" /\ bs[n].documents = Share(documentCount, n)
             /\ ~(n <= batches) => bs[n] = embedBatch[j][n]
  <2>1. embedBatch[j][n] \in EmbedBatchRows
    BY <1>2
  <2>2. CASE n <= batches
    <3>1. PICK slice \in SUBSET Numbers : slice = Share(documentCount, n) /\ slice = Slice(n)
      BY <1>3
    <3>2. bs[n] = [embedBatch[j][n] EXCEPT !.status = "QUEUED", !.documents = slice]
      BY <2>2, <3>1
    <3> HIDE DEF bs
    <3> QED BY <2>1, <2>2, <3>1, <3>2 DEF EmbedBatchRows
  <2>3. CASE ~(n <= batches)
    BY <2>1, <2>3
  <2> QED BY <2>2, <2>3
<1>9. bs \in [Numbers -> EmbedBatchRows]
  BY <1>8
<1> HIDE DEF bs
<1>10. embedJob'[j] = job /\ jobFlow'[j] = w /\ embedBatch'[j] = bs
  BY <1>2, <1>6, <1>7
<1>11. JobOK(j)'
  BY <1>2, <1>3, <1>4, <1>5, <1>10 DEF JobOK, CompletedEmbedding
<1>12. ASSUME NEW n \in Numbers
       PROVE  BatchOK(j, n)'
  <2>1. /\ Untouched(j, n) /\ Given(j, n) /\ Placed(j, n) /\ batchFlow[j][n].pc = "none"
        /\ n \in Nat /\ n > 0 /\ embedJob[j].batches = 0
    BY <1>1, <1>2, EmbeddingRowsHold, EmbeddingAssumption DEF BatchOK, Placed, JobOK, Numbers
  <2>2. /\ embedBatch[j][n].documents = {} /\ embedBatch[j][n].status = "NONE"
        /\ embedBatch[j][n].pending = {} /\ ~embedBatch[j][n].submitted
        /\ provider[j][n].batches = 0 /\ provider[j][n].file = {}
    BY <2>1 DEF Given, Untouched
  <2>3. bs[n].status \in {"NONE", "QUEUED"} /\ bs[n].pending = {} /\ ~bs[n].submitted
    BY <1>8, <2>2
  <2>4. Untouched(j, n)'
    BY <1>1, <1>10, <2>2, <2>3 DEF Untouched
  <2>5. Given(j, n)'
    BY <1>1, <1>3, <1>4, <1>8, <1>10, <2>1, <2>2, <2>3 DEF Given
  <2>6. Placed(j, n)'
    BY <1>1, <1>4, <1>5, <1>8, <1>10, <2>1, <2>3 DEF Placed
  <2>7. Counts(j, n)'
    BY <1>1, <1>10, <2>1, <2>3 DEF Counts
  <2> QED BY <2>4, <2>5, <2>6, <2>7 DEF BatchOK
<1> QED BY <1>1, <1>2, <1>4, <1>5, <1>6, <1>7, <1>9, <1>11, <1>12, OneJobMoves

(***************************************************************************)
(* Embedding: the workflow of a batch.                                     *)
(***************************************************************************)

\* A job whose batches have all been counted has none at work.
LEMMA FinishedIsIdle ==
  ASSUME EmbeddingInv, NEW j \in EmbeddingJobs, Finished(j), NEW n \in Numbers
  PROVE  batchFlow[j][n].pc \in {"none", "done"}
<1>1. /\ jobFlow[j].batches = embedJob[j].batches /\ jobFlow[j].next > jobFlow[j].batches
      /\ Placed(j, n) /\ Given(j, n) /\ jobFlow[j] \in JobFlowRows
  BY EmbeddingRowsHold DEF Finished, BatchOK
<1>2. n \in Nat /\ embedJob[j].batches \in Nat /\ jobFlow[j].next \in Nat
  BY <1>1, EmbeddingAssumption, BatchBound DEF Numbers, JobFlowRows
<1>3. CASE n <= embedJob[j].batches
  <2>1. n < jobFlow[j].next
    BY <1>1, <1>2, <1>3
  <2> QED BY <1>1, <2>1 DEF Placed
<1>4. CASE n > embedJob[j].batches
  BY <1>1, <1>4 DEF Given
<1> QED BY <1>2, <1>3, <1>4

\* The rows with this one for batch n of job j.
Put(rows, j, n, row) == [rows EXCEPT ![j][n] = row]

\* A step of one batch.
LEMMA OneBatch ==
  ASSUME EmbeddingInv, NEW j \in EmbeddingJobs, NEW n \in Numbers,
         UNCHANGED <<documentCount, embedJob, jobFlow>>,
         NEW b \in EmbedBatchRows, embedBatch' = Put(embedBatch, j, n, b),
         NEW f \in BatchFlowRows, batchFlow' = Put(batchFlow, j, n, f),
         NEW p \in ProviderRows, provider' = Put(provider, j, n, p),
         vectors \subseteq vectors', usage \subseteq usage',
         \/ b.status = embedBatch[j][n].status /\ b.counts = embedBatch[j][n].counts
         \/ batchFlow[j][n].pc \notin {"none", "done"},
         BatchOK(j, n)'
  PROVE  EmbeddingInv'
<1> DEFINE bs == [embedBatch[j] EXCEPT ![n] = b]
           fs == [batchFlow[j] EXCEPT ![n] = f]
           ps == [provider[j] EXCEPT ![n] = p]
<1>1. /\ embedBatch[j] \in [Numbers -> EmbedBatchRows] /\ batchFlow[j] \in [Numbers -> BatchFlowRows]
      /\ provider[j] \in [Numbers -> ProviderRows] /\ embedJob[j] \in EmbedJobRows
      /\ jobFlow[j] \in JobFlowRows /\ documentCount' \in 0..MaxDocuments
      /\ embedBatch \in [EmbeddingJobs -> [Numbers -> EmbedBatchRows]]
      /\ batchFlow \in [EmbeddingJobs -> [Numbers -> BatchFlowRows]]
      /\ provider \in [EmbeddingJobs -> [Numbers -> ProviderRows]]
  BY EmbeddingRowsHold
<1>2. /\ bs \in [Numbers -> EmbedBatchRows] /\ embedBatch' = [embedBatch EXCEPT ![j] = bs]
      /\ bs[n] = b /\ \A m \in Numbers \ {n} : bs[m] = embedBatch[j][m]
  BY <1>1 DEF Put
<1>3. /\ fs \in [Numbers -> BatchFlowRows] /\ batchFlow' = [batchFlow EXCEPT ![j] = fs]
      /\ fs[n] = f /\ \A m \in Numbers \ {n} : fs[m] = batchFlow[j][m]
  BY <1>1 DEF Put
<1>4. /\ ps \in [Numbers -> ProviderRows] /\ provider' = [provider EXCEPT ![j] = ps]
      /\ ps[n] = p /\ \A m \in Numbers \ {n} : ps[m] = provider[j][m]
  BY <1>1 DEF Put
<1> HIDE DEF bs, fs, ps
<1>5. embedBatch'[j] = bs /\ batchFlow'[j] = fs /\ provider'[j] = ps
  BY <1>1, <1>2, <1>3, <1>4
<1>6. embedJob' = [embedJob EXCEPT ![j] = embedJob[j]] /\ jobFlow' = [jobFlow EXCEPT ![j] = jobFlow[j]]
  BY EmbeddingRowsHold
<1>7. embedJob'[j] = embedJob[j] /\ jobFlow'[j] = jobFlow[j] /\ JobOK(j)
  BY EmbeddingRowsHold
<1>8. JobOK(j)'
  <2>1. CASE b.status = embedBatch[j][n].status /\ b.counts = embedBatch[j][n].counts
    <3>1. \A m \in Numbers : /\ embedBatch'[j][m].status = embedBatch[j][m].status
                             /\ embedBatch'[j][m].counts = embedBatch[j][m].counts
      BY <1>2, <1>5, <2>1
    <3> QED BY <1>7, <3>1, BatchBound, JobStays
  <2>2. CASE batchFlow[j][n].pc \notin {"none", "done"}
    <3>1. ~Finished(j)
      BY <2>2, FinishedIsIdle
    <3> QED BY <1>7, <3>1 DEF JobOK, CompletedEmbedding
  <2> QED BY <2>1, <2>2
<1>9. ASSUME NEW m \in Numbers
      PROVE  BatchOK(j, m)'
  <2>1. CASE m = n
    BY <2>1
  <2>2. CASE m # n
    <3>1. /\ embedBatch'[j][m] = embedBatch[j][m] /\ batchFlow'[j][m] = batchFlow[j][m]
          /\ provider'[j][m] = provider[j][m]
      BY <1>2, <1>3, <1>4, <1>5, <2>2
    <3>2. BatchOK(j, m) /\ EmbeddingRows
      BY EmbeddingRowsHold
    <3>3. /\ m < jobFlow[j].next => batchFlow[j][m].pc = "done"
          /\ jobFlow[j].pc \in {"none", "plan", "planWrite", "enqueue"} => batchFlow[j][m].pc = "none"
      BY <3>2 DEF BatchOK, Placed
    <3> QED BY <1>7, <3>1, <3>2, <3>3, BatchStays
  <2> QED BY <2>1, <2>2
<1> QED BY <1>1, <1>2, <1>3, <1>4, <1>6, <1>8, <1>9, OneJobMoves

\* The rows of a batch.
LEMMA BatchRows ==
  ASSUME EmbeddingInv, NEW j \in EmbeddingJobs, NEW n \in Numbers
  PROVE  /\ embedBatch[j][n] \in EmbedBatchRows
         /\ embedBatch' = embedBatch =>
                embedBatch' = Put(embedBatch, j, n, embedBatch[j][n])
         /\ batchFlow[j][n] \in BatchFlowRows
         /\ provider[j][n] \in ProviderRows
         /\ provider' = provider =>
                provider' = Put(provider, j, n, provider[j][n])
         /\ JobOK(j) /\ BatchOK(j, n)
<1>1. /\ embedBatch \in [EmbeddingJobs -> [Numbers -> EmbedBatchRows]]
      /\ batchFlow \in [EmbeddingJobs -> [Numbers -> BatchFlowRows]]
      /\ provider \in [EmbeddingJobs -> [Numbers -> ProviderRows]]
      /\ JobOK(j) /\ BatchOK(j, n)
  BY EmbeddingRowsHold
<1> QED BY <1>1 DEF Put


\* What a step of one batch leaves.
LEMMA BatchWrites ==
  ASSUME EmbeddingInv, NEW j \in EmbeddingJobs, NEW n \in Numbers, NEW row
  PROVE  /\ Put(embedBatch, j, n, row)[j][n] = row
         /\ Put(batchFlow, j, n, row)[j][n] = row
         /\ Put(provider, j, n, row)[j][n] = row
<1>1. /\ embedBatch \in [EmbeddingJobs -> [Numbers -> EmbedBatchRows]]
      /\ batchFlow \in [EmbeddingJobs -> [Numbers -> BatchFlowRows]]
      /\ provider \in [EmbeddingJobs -> [Numbers -> ProviderRows]]
  BY EmbeddingRowsHold
<1> QED BY <1>1 DEF Put

\* The row of a batch's workflow after a move.
LEMMA BatchFlowRow ==
  ASSUME EmbeddingInv, NEW j \in EmbeddingJobs, NEW n \in Numbers, NEW pc, BatchGoto(j, n, pc),
         pc \in {"process", "submit", "create", "record", "poll", "finalize", "done", "error"}
  PROVE  \E f \in BatchFlowRows :
            /\ batchFlow' = Put(batchFlow, j, n, f) /\ f.pc = pc
            /\ f.todo = batchFlow[j][n].todo /\ f.tally = batchFlow[j][n].tally
<1> DEFINE f == [batchFlow[j][n] EXCEPT !.pc = pc]
<1>1. batchFlow[j][n] \in BatchFlowRows /\ batchFlow \in [EmbeddingJobs -> [Numbers -> BatchFlowRows]]
  BY EmbeddingRowsHold
<1>2. f \in BatchFlowRows /\ f.pc = pc /\ f.todo = batchFlow[j][n].todo /\ f.tally = batchFlow[j][n].tally
  BY <1>1 DEF BatchFlowRows
<1>3. batchFlow' = Put(batchFlow, j, n, f)
  BY <1>1 DEF BatchGoto, Put
<1> QED BY <1>2, <1>3

\* The batch of a workflow that is not done is still to be awaited.
LEMMA NotAwaited ==
  ASSUME EmbeddingInv, NEW j \in EmbeddingJobs, NEW n \in Numbers,
         batchFlow[j][n].pc # "done" \/ jobFlow[j].next <= n
  PROVE  ~(n < jobFlow[j].next)
<1>1. Placed(j, n) /\ jobFlow[j] \in JobFlowRows
  BY EmbeddingRowsHold DEF BatchOK
<1>2. n \in Nat /\ jobFlow[j].next \in Nat
  BY <1>1, EmbeddingAssumption DEF Numbers, JobFlowRows
<1> QED BY <1>1, <1>2 DEF Placed

\* A move of a batch's workflow that has started; the provider may have been called.
LEMMA BatchGoes ==
  ASSUME EmbeddingInv, NEW j \in EmbeddingJobs, NEW n \in Numbers, NEW pc, BatchGoto(j, n, pc),
         pc \in {"process", "submit", "record", "poll", "finalize", "done", "error"},
         UNCHANGED <<documentCount, embedJob, embedBatch, jobFlow, vectors, usage>>,
         NEW p \in ProviderRows, provider' = Put(provider, j, n, p),
         p.file \subseteq embedBatch[j][n].documents, p.batches <= 1,
         batchFlow[j][n].pc # "none", batchFlow[j][n].pc # "done" \/ jobFlow[j].next <= n,
         pc = "process" => embedJob[j].mode # "voyage_batch",
         pc \in {"submit", "record", "poll", "finalize"} => embedJob[j].mode = "voyage_batch",
         pc = "record" => batchFlow[j][n].pc = "create",
         pc = "poll" => embedBatch[j][n].submitted /\ embedBatch[j][n].status # "COMPLETED",
         pc = "finalize" => embedBatch[j][n].submitted,
         pc = "done" => \/ embedBatch[j][n].status = "COMPLETED"
                        \/ embedJob[j].status \in {"CANCELED", "FAILED"}
  PROVE  EmbeddingInv'
<1>1. PICK f \in BatchFlowRows :
            /\ batchFlow' = Put(batchFlow, j, n, f) /\ f.pc = pc
            /\ f.todo = batchFlow[j][n].todo /\ f.tally = batchFlow[j][n].tally
  BY BatchFlowRow
<1>2. PICK b \in EmbedBatchRows : b = embedBatch[j][n]
  BY BatchRows
<1>3. embedBatch' = Put(embedBatch, j, n, b)
  BY <1>2, BatchRows
<1>4. embedBatch'[j][n] = b /\ batchFlow'[j][n] = f /\ provider'[j][n] = p
  <2>1. Put(batchFlow, j, n, f)[j][n] = f
    BY BatchWrites
  <2>2. Put(provider, j, n, p)[j][n] = p
    BY BatchWrites
  <2> QED BY <1>1, <1>2, <2>1, <2>2
<1>5. BatchOK(j, n) /\ ~(n < jobFlow[j].next)
  BY BatchRows, NotAwaited
<1>6. Untouched(j, n)'
  BY <1>1, <1>4 DEF Untouched
<1>7. Given(j, n)'
  BY <1>1, <1>2, <1>4, <1>5 DEF BatchOK, Given
<1>8. Placed(j, n)'
  <2>1. Placed(j, n)
    BY <1>5 DEF BatchOK
  <2>2. jobFlow[j].pc \notin {"none", "plan", "planWrite", "enqueue"}
    BY <2>1 DEF Placed
  <2>3. pc \in {"record"} => embedBatch[j][n].status # "COMPLETED"
    BY <2>1 DEF Placed
  <2> QED BY <1>1, <1>2, <1>4, <1>5, <2>1, <2>2, <2>3 DEF Placed
<1>9. Counts(j, n)'
  BY <1>1, <1>2, <1>4, <1>5 DEF BatchOK, Counts, Dealt
<1>10. BatchOK(j, n)'
  BY <1>6, <1>7, <1>8, <1>9 DEF BatchOK
<1> QED BY <1>1, <1>2, <1>3, <1>10, OneBatch

\* A move during which the provider is not called.
LEMMA BatchGoesAlone ==
  ASSUME EmbeddingInv, NEW j \in EmbeddingJobs, NEW n \in Numbers, NEW pc, BatchGoto(j, n, pc),
         pc \in {"process", "submit", "poll", "finalize", "done", "error"},
         UNCHANGED <<documentCount, embedJob, embedBatch, jobFlow, provider, vectors, usage>>,
         batchFlow[j][n].pc # "none", batchFlow[j][n].pc # "done" \/ jobFlow[j].next <= n,
         pc = "process" => embedJob[j].mode # "voyage_batch",
         pc \in {"submit", "poll", "finalize"} => embedJob[j].mode = "voyage_batch",
         pc = "poll" => embedBatch[j][n].submitted /\ embedBatch[j][n].status # "COMPLETED",
         pc = "finalize" => embedBatch[j][n].submitted,
         pc = "done" => \/ embedBatch[j][n].status = "COMPLETED"
                        \/ embedJob[j].status \in {"CANCELED", "FAILED"}
  PROVE  EmbeddingInv'
<1>1. PICK p \in ProviderRows : p = provider[j][n]
  BY BatchRows
<1>2. provider' = Put(provider, j, n, p)
  BY <1>1, BatchRows
<1>3. p.file \subseteq embedBatch[j][n].documents /\ p.batches <= 1
  BY <1>1, BatchRows DEF BatchOK, Given
<1> QED BY <1>2, <1>3, BatchGoes

\* See BatchGoes.
LEMMA BatchStepFailsKeeps ==
  ASSUME EmbeddingInv, NEW j \in EmbeddingJobs, NEW n \in Numbers, BatchStepFails(j, n)
  PROVE  EmbeddingInv'
<1>1. /\ batchFlow[j][n].pc \notin {"none", "done"} /\ BatchGoto(j, n, "error")
      /\ UNCHANGED <<documentCount, embedJob, embedBatch, jobFlow, provider, vectors, usage>>
  BY DEF BatchStepFails
<1> QED BY <1>1, BatchGoesAlone

\* A step is tried again, or executed again after its commit.
LEMMA BatchStepRestartsKeeps ==
  ASSUME EmbeddingInv, NEW j \in EmbeddingJobs, NEW n \in Numbers, BatchStepRestarts(j, n)
  PROVE  EmbeddingInv'
<1>1. /\ UNCHANGED <<documentCount, embedJob, embedBatch, jobFlow, provider, vectors, usage>>
      /\ Placed(j, n)
  BY BatchRows DEF BatchStepRestarts, BatchOK
<1>2. CASE batchFlow[j][n].pc = "embed" /\ BatchGoto(j, n, "process")
  <2>1. embedJob[j].mode # "voyage_batch"
    BY <1>1, <1>2 DEF Placed
  <2> QED BY <1>1, <1>2, <2>1, BatchGoesAlone
<1>3. CASE batchFlow[j][n].pc \in {"create", "record", "poll"} /\ BatchGoto(j, n, "submit")
  <2>1. embedJob[j].mode = "voyage_batch"
    BY <1>1, <1>3 DEF Placed
  <2> QED BY <1>1, <1>3, <2>1, BatchGoesAlone
<1>4. CASE batchFlow[j][n].pc = "persist" /\ BatchGoto(j, n, "finalize")
  <2>1. embedJob[j].mode = "voyage_batch" /\ embedBatch[j][n].submitted
    BY <1>1, <1>4 DEF Placed
  <2> QED BY <1>1, <1>4, <2>1, BatchGoesAlone
<1>5. CASE /\ batchFlow[j][n].pc = "done" /\ jobFlow[j].next <= n
           /\ BatchGoto(j, n, CASE embedJob[j].mode # "voyage_batch" -> "process"
                                [] embedBatch[j][n].submitted -> "finalize"
                                [] OTHER -> "submit")
  <2>1. CASE embedJob[j].mode # "voyage_batch" /\ BatchGoto(j, n, "process")
    BY <1>1, <1>5, <2>1, BatchGoesAlone
  <2>2. CASE /\ embedJob[j].mode = "voyage_batch" /\ embedBatch[j][n].submitted
             /\ BatchGoto(j, n, "finalize")
    BY <1>1, <1>5, <2>2, BatchGoesAlone
  <2>3. CASE embedJob[j].mode = "voyage_batch" /\ BatchGoto(j, n, "submit")
    BY <1>1, <1>5, <2>3, BatchGoesAlone
  <2>4. embedJob[j].mode # "voyage_batch" => ~embedBatch[j][n].submitted
    BY <1>1 DEF Placed
  <2> QED BY <1>5, <2>1, <2>2, <2>3, <2>4
<1> QED BY <1>2, <1>3, <1>4, <1>5 DEF BatchStepRestarts, BatchAt


\* The marks on a batch that is not completed, with a move of its workflow.
LEMMA BatchMarks ==
  ASSUME EmbeddingInv, NEW j \in EmbeddingJobs, NEW n \in Numbers, NEW pc, BatchGoto(j, n, pc),
         pc \in {"poll", "finalize", "done", "error"},
         UNCHANGED <<documentCount, embedJob, jobFlow, provider, vectors, usage>>,
         NEW b \in EmbedBatchRows, embedBatch' = Put(embedBatch, j, n, b),
         b.documents = embedBatch[j][n].documents, b.counts = embedBatch[j][n].counts,
         b.pending = embedBatch[j][n].pending, b.prepared = embedBatch[j][n].prepared,
         batchFlow[j][n].pc \notin {"none", "done"},
         embedBatch[j][n].status # "COMPLETED", b.status # "COMPLETED",
         b.status = embedBatch[j][n].status \/ embedJob[j].status = "CANCELED" \/ b.status = "FAILED",
         n > embedJob[j].batches => b.status = "NONE",
         \/ b.submitted = embedBatch[j][n].submitted
         \/ embedJob[j].mode = "voyage_batch" /\ batchFlow[j][n].pc = "record",
         b.providerStatus # "none" => b.submitted,
         pc \in {"poll", "finalize"} => embedJob[j].mode = "voyage_batch" /\ b.submitted,
         pc = "done" => embedJob[j].status = "CANCELED"
  PROVE  EmbeddingInv'
<1>1. PICK f \in BatchFlowRows :
            /\ batchFlow' = Put(batchFlow, j, n, f) /\ f.pc = pc
            /\ f.todo = batchFlow[j][n].todo /\ f.tally = batchFlow[j][n].tally
  BY BatchFlowRow
<1>2. PICK p \in ProviderRows : p = provider[j][n]
  BY BatchRows
<1>3. provider' = Put(provider, j, n, p)
  BY <1>2, BatchRows
<1>4. embedBatch'[j][n] = b /\ batchFlow'[j][n] = f
  <2>1. Put(batchFlow, j, n, f)[j][n] = f
    BY BatchWrites
  <2>2. Put(embedBatch, j, n, b)[j][n] = b
    BY BatchWrites
  <2> QED BY <1>1, <2>1, <2>2
<1>5. BatchOK(j, n) /\ ~(n < jobFlow[j].next)
  BY BatchRows, NotAwaited
<1>6. Untouched(j, n)'
  BY <1>1, <1>4 DEF Untouched
<1>7. Given(j, n)'
  BY <1>1, <1>2, <1>4, <1>5 DEF BatchOK, Given
<1>8. Placed(j, n)'
  <2>1. Placed(j, n)
    BY <1>5 DEF BatchOK
  <2>2. jobFlow[j].pc \notin {"none", "plan", "planWrite", "enqueue"}
    BY <2>1 DEF Placed
  <2> QED BY <1>1, <1>4, <1>5, <2>1, <2>2 DEF Placed
<1>9. Counts(j, n)'
  BY ZenonT(60), <1>1, <1>4, <1>5 DEF BatchOK, Counts, Dealt
<1>10. BatchOK(j, n)'
  BY <1>6, <1>7, <1>8, <1>9 DEF BatchOK
<1> QED BY <1>1, <1>2, <1>3, <1>10, OneBatch

\* A batch with a workflow at work is one of its job's.
LEMMA WorkingBatch ==
  ASSUME EmbeddingInv, NEW j \in EmbeddingJobs, NEW n \in Numbers, batchFlow[j][n].pc # "none"
  PROVE  /\ n <= embedJob[j].batches /\ ~(n > embedJob[j].batches)
         /\ embedBatch[j][n].documents = Share(embedJob[j].total, n)
         /\ jobFlow[j].pc \notin {"none", "plan", "planWrite", "enqueue"}
<1>1. Given(j, n) /\ Placed(j, n)
  BY BatchRows DEF BatchOK
<1>2. n \in Nat /\ embedJob[j].batches \in Nat
  BY EmbeddingAssumption, BatchBound DEF Numbers
<1> QED BY <1>1, <1>2 DEF Given, Placed

\* The worker finds that the job is canceled.
LEMMA BatchCanceled ==
  ASSUME EmbeddingInv, NEW j \in EmbeddingJobs, NEW n \in Numbers, BatchGoto(j, n, "done"),
         embedBatch' = [embedBatch EXCEPT ![j][n].status = "CANCELED"],
         UNCHANGED <<documentCount, embedJob, jobFlow, provider, vectors, usage>>,
         batchFlow[j][n].pc \notin {"none", "done"}, embedBatch[j][n].status # "COMPLETED",
         embedJob[j].status = "CANCELED"
  PROVE  EmbeddingInv'
<1> DEFINE b == [embedBatch[j][n] EXCEPT !.status = "CANCELED"]
<1>1. embedBatch[j][n] \in EmbedBatchRows /\ Placed(j, n)
  BY BatchRows DEF BatchOK
<1>2. /\ b \in EmbedBatchRows /\ b.status = "CANCELED" /\ b.documents = embedBatch[j][n].documents
      /\ b.counts = embedBatch[j][n].counts /\ b.pending = embedBatch[j][n].pending
      /\ b.prepared = embedBatch[j][n].prepared /\ b.submitted = embedBatch[j][n].submitted
      /\ b.providerStatus = embedBatch[j][n].providerStatus
  BY <1>1 DEF EmbedBatchRows
<1>3. embedBatch' = Put(embedBatch, j, n, b)
  BY EmbeddingRowsHold DEF Put
<1> HIDE DEF b
<1>4. b.providerStatus # "none" => b.submitted
  BY <1>1, <1>2 DEF Placed
<1> QED BY <1>2, <1>3, <1>4, WorkingBatch, BatchMarks

\* The submitted batch is recorded.
LEMMA RecordBatchKeeps ==
  ASSUME EmbeddingInv, NEW j \in EmbeddingJobs, NEW n \in Numbers, RecordBatch(j, n)
  PROVE  EmbeddingInv'
<1> DEFINE b == [embedBatch[j][n] EXCEPT !.submitted = TRUE, !.providerStatus = "in_progress"]
<1>1. /\ batchFlow[j][n].pc = "record" /\ BatchGoto(j, n, "poll")
      /\ UNCHANGED <<documentCount, embedJob, jobFlow, provider, vectors, usage>>
  BY DEF RecordBatch, BatchAt
<1>2. embedBatch[j][n] \in EmbedBatchRows /\ Placed(j, n)
  BY BatchRows DEF BatchOK
<1>3. /\ b \in EmbedBatchRows /\ b.status = embedBatch[j][n].status
      /\ b.documents = embedBatch[j][n].documents
      /\ b.counts = embedBatch[j][n].counts /\ b.pending = embedBatch[j][n].pending
      /\ b.prepared = embedBatch[j][n].prepared /\ b.submitted
  BY <1>2 DEF EmbedBatchRows
<1>4. embedBatch' = Put(embedBatch, j, n, b)
  BY EmbeddingRowsHold DEF Put, RecordBatch
<1> HIDE DEF b
<1>5. embedBatch[j][n].status # "COMPLETED" /\ embedJob[j].mode = "voyage_batch"
  BY <1>1, <1>2 DEF Placed
<1>6. ~(n > embedJob[j].batches)
  BY <1>1, WorkingBatch
<1> QED BY <1>1, <1>3, <1>4, <1>5, <1>6, BatchMarks

\* What the provider says of the batch is recorded.
LEMMA PollBatchKeeps ==
  ASSUME EmbeddingInv, NEW j \in EmbeddingJobs, NEW n \in Numbers, PollBatch(j, n)
  PROVE  EmbeddingInv'
<1>1. PICK status : status = provider[j][n].status
  OBVIOUS
<1>2. PICK mark : mark = CASE status = "cancelled" /\ embedJob[j].status = "CANCELED" -> "CANCELED"
                           [] status = "failed" \/ (status = "cancelled" /\ embedJob[j].status # "CANCELED")
                                -> "FAILED"
                           [] OTHER -> embedBatch[j][n].status
  OBVIOUS
<1>3. PICK pc : pc = CASE status = "completed" -> "finalize"
                       [] status = "cancelled" /\ embedJob[j].status = "CANCELED" -> "done"
                       [] OTHER -> "error"
  OBVIOUS
<1> DEFINE b == [embedBatch[j][n] EXCEPT !.providerStatus = status, !.status = mark]
<1>4. /\ batchFlow[j][n].pc = "poll" /\ BatchGoto(j, n, pc)
      /\ UNCHANGED <<documentCount, embedJob, jobFlow, provider, vectors, usage>>
  BY <1>1, <1>3 DEF PollBatch, BatchStep
<1>5. /\ embedBatch[j][n] \in EmbedBatchRows /\ Placed(j, n)
      /\ status \in {"none", "in_progress", "completed", "failed", "cancelled"}
  BY <1>1, BatchRows DEF BatchOK, ProviderRows
<1>6. /\ embedBatch[j][n].status # "COMPLETED" /\ embedJob[j].mode = "voyage_batch"
      /\ embedBatch[j][n].submitted
  BY <1>4, <1>5 DEF Placed
<1>7. /\ mark \in {embedBatch[j][n].status, "CANCELED", "FAILED"}
      /\ mark = embedBatch[j][n].status \/ embedJob[j].status = "CANCELED" \/ mark = "FAILED"
      /\ pc \in {"finalize", "done", "error"}
      /\ pc = "done" => embedJob[j].status = "CANCELED"
  <2>1. /\ mark \in {embedBatch[j][n].status, "CANCELED", "FAILED"}
        /\ mark = embedBatch[j][n].status \/ embedJob[j].status = "CANCELED" \/ mark = "FAILED"
    BY <1>2
  <2>2. /\ pc \in {"finalize", "done", "error"}
        /\ pc = "done" => embedJob[j].status = "CANCELED"
    BY <1>3
  <2> QED BY <2>1, <2>2
<1>8. /\ b \in EmbedBatchRows /\ b.status = mark
      /\ b.documents = embedBatch[j][n].documents
      /\ b.counts = embedBatch[j][n].counts /\ b.pending = embedBatch[j][n].pending
      /\ b.prepared = embedBatch[j][n].prepared /\ b.submitted = embedBatch[j][n].submitted
  <2>1. mark \in {"NONE", "QUEUED", "RUNNING", "COMPLETED", "FAILED", "CANCELED"}
    BY <1>5, <1>7 DEF EmbedBatchRows
  <2> QED BY <1>5, <2>1 DEF EmbedBatchRows
<1>9. embedBatch' = Put(embedBatch, j, n, b)
  <2>1. embedBatch' = [embedBatch EXCEPT ![j][n].providerStatus = status, ![j][n].status = mark]
    BY <1>1, <1>2 DEF PollBatch
  <2> QED BY <2>1, EmbeddingRowsHold DEF Put
<1> HIDE DEF b
<1>10. ~(n > embedJob[j].batches)
  BY <1>4, WorkingBatch
<1> QED BY <1>4, <1>6, <1>7, <1>8, <1>9, <1>10, BatchMarks


\* An empty tally.
LEMMA NothingDealt == NoTally \in TallyRows /\ \A tally : tally = NoTally => Dealt(tally, {})
<1>1. NoTally \in TallyRows
  BY DEF NoTally, TallyRows
<1>2. Cardinality({}) = 0 /\ {} \ vectors = {}
  BY FS_EmptySet
<1>3. ASSUME NEW tally, tally = NoTally PROVE Dealt(tally, {})
  BY <1>2, <1>3 DEF Dealt, NoTally
<1> QED BY <1>1, <1>3

\* The batch is embedded by requests, from its first document.
LEMMA BeginProcessKeeps ==
  ASSUME EmbeddingInv, NEW j \in EmbeddingJobs, NEW n \in Numbers, BeginProcess(j, n)
  PROVE  EmbeddingInv'
<1>1. /\ batchFlow[j][n].pc = "process"
      /\ UNCHANGED <<documentCount, embedJob, jobFlow, provider, vectors, usage>>
  BY DEF BeginProcess, BatchStep
<1>2. CASE embedBatch[j][n].status = "COMPLETED" /\ BatchGoto(j, n, "done") /\ UNCHANGED embedBatch
  BY <1>1, <1>2, BatchGoesAlone
<1>3. CASE /\ embedBatch[j][n].status # "COMPLETED" /\ embedJob[j].status = "CANCELED"
           /\ embedBatch' = [embedBatch EXCEPT ![j][n].status = "CANCELED"] /\ BatchGoto(j, n, "done")
  BY <1>1, <1>3, BatchCanceled
<1>4. CASE /\ embedBatch[j][n].status # "COMPLETED" /\ embedJob[j].status # "CANCELED"
           /\ embedBatch' = [embedBatch EXCEPT ![j][n].status = "RUNNING"]
           /\ batchFlow' = [batchFlow EXCEPT ![j][n] =
                    [pc |-> "embed", todo |-> embedBatch[j][n].documents, tally |-> NoTally]]
  <2> DEFINE b == [embedBatch[j][n] EXCEPT !.status = "RUNNING"]
             f == [pc |-> "embed", todo |-> embedBatch[j][n].documents, tally |-> NoTally]
  <2>1. embedBatch[j][n] \in EmbedBatchRows /\ BatchOK(j, n) /\ JobOK(j)
    BY BatchRows
  <2>2. /\ b \in EmbedBatchRows /\ b.status = "RUNNING" /\ b.documents = embedBatch[j][n].documents
        /\ b.counts = embedBatch[j][n].counts /\ b.pending = embedBatch[j][n].pending
        /\ b.prepared = embedBatch[j][n].prepared /\ b.submitted = embedBatch[j][n].submitted
        /\ b.providerStatus = embedBatch[j][n].providerStatus
    BY <2>1 DEF EmbedBatchRows
  <2>3. /\ f \in BatchFlowRows /\ f.pc = "embed" /\ f.todo = embedBatch[j][n].documents
        /\ f.tally = NoTally
    BY <2>1, NothingDealt DEF EmbedBatchRows, BatchFlowRows
  <2>4. embedBatch' = Put(embedBatch, j, n, b) /\ batchFlow' = Put(batchFlow, j, n, f)
    BY <1>4, EmbeddingRowsHold DEF Put
  <2> HIDE DEF b, f
  <2>5. embedBatch'[j][n] = b /\ batchFlow'[j][n] = f
    <3>1. Put(batchFlow, j, n, f)[j][n] = f
      BY BatchWrites
    <3>2. Put(embedBatch, j, n, b)[j][n] = b
      BY BatchWrites
    <3> QED BY <2>4, <3>1, <3>2
  <2>6. PICK p \in ProviderRows : p = provider[j][n]
    BY BatchRows
  <2>7. provider' = Put(provider, j, n, p)
    BY <1>1, <2>6, BatchRows
  <2>8. /\ ~(n < jobFlow[j].next) /\ n <= embedJob[j].batches /\ ~(n > embedJob[j].batches)
        /\ jobFlow[j].pc \notin {"none", "plan", "planWrite", "enqueue"}
    BY <1>1, NotAwaited, WorkingBatch
  <2>9. Untouched(j, n)'
    BY <2>3, <2>5 DEF Untouched
  <2>10. Given(j, n)'
    BY <1>1, <2>1, <2>2, <2>5, <2>8 DEF BatchOK, Given
  <2>11. Placed(j, n) /\ embedJob[j].mode # "voyage_batch"
    BY <1>1, <2>1 DEF BatchOK, Placed
  <2>12. Placed(j, n)'
    BY <1>1, <2>2, <2>3, <2>5, <2>8, <2>11 DEF Placed
  <2>13. Counts(j, n)'
    <3>1. ~b.submitted
      BY <2>2, <2>11 DEF Placed
    <3>2. embedBatch[j][n].documents \ embedBatch[j][n].documents = {}
      OBVIOUS
    <3>3. Dealt(f.tally, b.documents \ f.todo)
      BY <2>2, <2>3, <3>2, NothingDealt
    <3> QED BY <1>1, <2>2, <2>3, <2>5, <3>1, <3>3 DEF Counts, Dealt
  <2>14. BatchOK(j, n)'
    BY <2>9, <2>10, <2>12, <2>13 DEF BatchOK
  <2> QED BY <1>1, <2>2, <2>3, <2>4, <2>6, <2>7, <2>14, OneBatch
<1> QED BY <1>2, <1>3, <1>4 DEF BeginProcess


\* A document more is counted once, with its outcome.
LEMMA OneMoreDealt ==
  ASSUME NEW tally \in TallyRows, NEW S \in SUBSET Numbers, NEW d \in Numbers, d \notin S,
         Dealt(tally, S), NEW outcome, outcome \in {Outcome(d), "failed"},
         vectors' = IF outcome = "embedded" THEN vectors \cup {d} ELSE vectors
  PROVE  Counted(tally, outcome) \in TallyRows /\ Dealt(Counted(tally, outcome), S \cup {d})'
<1> PICK later, now : later = (S \cup {d}) \ vectors' /\ now = S \ vectors
  OBVIOUS
<1>1. /\ tally.processed \in Nat /\ tally.embedded \in Nat /\ tally.skipped \in Nat /\ tally.failed \in Nat
      /\ tally = [processed |-> tally.processed, embedded |-> tally.embedded,
                  skipped |-> tally.skipped, failed |-> tally.failed]
  BY DEF TallyRows
<1>2. /\ tally.processed = Cardinality(S) /\ Cardinality(now) <= tally.failed
      /\ tally.processed = tally.embedded + tally.skipped + tally.failed
  BY DEF Dealt
<1>3. /\ IsFiniteSet(S) /\ IsFiniteSet(now) /\ Cardinality(S) \in Nat /\ Cardinality(now) \in Nat
      /\ IsFiniteSet(later) /\ Cardinality(later) \in Nat
  <2>1. later \in SUBSET Numbers /\ now \in SUBSET Numbers
    OBVIOUS
  <2> QED BY <2>1, FiniteDocuments
<1>4. Cardinality(S \cup {d}) = Cardinality(S) + 1
  BY <1>3, FS_AddElement
<1>5. outcome \in {"skipped", "embedded", "failed"}
  BY DEF Outcome
<1> PICK new : new = Counted(tally, outcome)
  OBVIOUS
<1>6. CASE outcome = "failed"
  <2>1. new = [processed |-> tally.processed + 1, embedded |-> tally.embedded,
               skipped |-> tally.skipped, failed |-> tally.failed + 1]
    BY <1>1, <1>6 DEF Counted
  <2>2. Cardinality(later) <= Cardinality(now) + 1
    <3>1. later \subseteq now \cup {d} /\ d \notin now
      BY <1>6
    <3>2. IsFiniteSet(now \cup {d}) /\ Cardinality(now \cup {d}) = Cardinality(now) + 1
      BY <1>3, <3>1, FS_AddElement
    <3> QED BY <3>1, <3>2, FS_Subset
  <2>3. new \in TallyRows
    BY <1>1, <2>1 DEF TallyRows
  <2>4. Cardinality(later) <= new.failed
    BY <1>1, <1>2, <1>3, <2>1, <2>2
  <2>5. new.processed = Cardinality(S \cup {d}) /\ new.processed = new.embedded + new.skipped + new.failed
    BY <1>1, <1>2, <1>4, <2>1
  <2> QED BY <2>3, <2>4, <2>5 DEF Dealt
<1>7. CASE outcome \in {"skipped", "embedded"}
  <2>1. /\ new.processed = tally.processed + 1 /\ new.failed = tally.failed
        /\ new.embedded + new.skipped = tally.embedded + tally.skipped + 1
        /\ new \in TallyRows
    <3>1. CASE outcome = "skipped"
      <4>1. new = [processed |-> tally.processed + 1, embedded |-> tally.embedded,
                   skipped |-> tally.skipped + 1, failed |-> tally.failed]
        BY <1>1, <3>1 DEF Counted
      <4> QED BY <1>1, <4>1 DEF TallyRows
    <3>2. CASE outcome = "embedded"
      <4>1. new = [processed |-> tally.processed + 1, embedded |-> tally.embedded + 1,
                   skipped |-> tally.skipped, failed |-> tally.failed]
        BY <1>1, <3>2 DEF Counted
      <4> QED BY <1>1, <4>1 DEF TallyRows
    <3> QED BY <1>7, <3>1, <3>2
  <2>2. Cardinality(later) <= Cardinality(now)
    <3>1. later \subseteq now
      <4>1. d \in vectors' /\ vectors \subseteq vectors'
        BY <1>7 DEF Outcome
      <4> QED BY <4>1
    <3> QED BY <1>3, <3>1, FS_Subset
  <2>3. Cardinality(later) <= new.failed
    BY <1>1, <1>2, <1>3, <2>1, <2>2
  <2>4. new.processed = Cardinality(S \cup {d}) /\ new.processed = new.embedded + new.skipped + new.failed
    <3>1. new.embedded \in Nat /\ new.skipped \in Nat
      BY <2>1 DEF TallyRows
    <3> QED BY <1>1, <1>2, <1>4, <2>1, <3>1
  <2> QED BY <2>1, <2>3, <2>4 DEF Dealt
<1> QED BY <1>5, <1>6, <1>7

\* A document of a batch is embedded or persisted, or it fails.
LEMMA DocumentKeeps ==
  ASSUME EmbeddingInv, NEW j \in EmbeddingJobs, NEW n \in Numbers, NEW d \in batchFlow[j][n].todo,
         batchFlow[j][n].pc \in {"embed", "persist"}, NEW outcome, outcome \in {Outcome(d), "failed"},
         vectors' = IF outcome = "embedded" THEN vectors \cup {d} ELSE vectors,
         batchFlow' = [batchFlow EXCEPT ![j][n].todo = @ \ {d}, ![j][n].tally = Counted(@, outcome)],
         UNCHANGED <<documentCount, embedJob, embedBatch, jobFlow, provider, usage>>
  PROVE  EmbeddingInv'
<1>1. /\ batchFlow[j][n] \in BatchFlowRows /\ embedBatch[j][n] \in EmbedBatchRows
      /\ BatchOK(j, n) /\ vectors \subseteq vectors'
  BY BatchRows
<1>2. PICK tally \in TallyRows, todo \in SUBSET Numbers, documents \in SUBSET Numbers :
        tally = batchFlow[j][n].tally /\ todo = batchFlow[j][n].todo /\ documents = embedBatch[j][n].documents
  BY <1>1 DEF BatchFlowRows, EmbedBatchRows
<1>3. todo \subseteq documents /\ Dealt(tally, documents \ todo)
  BY <1>1, <1>2 DEF BatchOK, Counts
<1>4. PICK S \in SUBSET Numbers : S = documents \ todo
  OBVIOUS
<1>5. d \in Numbers /\ d \notin S /\ Dealt(tally, S)
  BY <1>2, <1>3, <1>4
<1>6. PICK new \in TallyRows : new = Counted(tally, outcome)
  BY <1>5, OneMoreDealt
<1>7. Dealt(new, S \cup {d})'
  BY <1>5, <1>6, OneMoreDealt
<1>8. S \cup {d} = documents \ (todo \ {d})
  BY <1>2, <1>3, <1>4
<1> DEFINE f == [batchFlow[j][n] EXCEPT !.todo = todo \ {d}, !.tally = new]
<1>9. f \in BatchFlowRows /\ f.pc = batchFlow[j][n].pc /\ f.todo = todo \ {d} /\ f.tally = new
  BY <1>1 DEF BatchFlowRows
<1>10. batchFlow' = Put(batchFlow, j, n, f)
  BY <1>2, <1>6, EmbeddingRowsHold DEF Put
<1> HIDE DEF f
<1>11. batchFlow'[j][n] = f
  <2>1. Put(batchFlow, j, n, f)[j][n] = f
    BY BatchWrites
  <2> QED BY <1>10, <2>1
<1>12. PICK p \in ProviderRows, b \in EmbedBatchRows : p = provider[j][n] /\ b = embedBatch[j][n]
  BY BatchRows
<1>13. provider' = Put(provider, j, n, p) /\ embedBatch' = Put(embedBatch, j, n, b)
  BY <1>12, BatchRows
<1>14. Untouched(j, n)' /\ Given(j, n)' /\ Placed(j, n)'
  BY <1>1, <1>9, <1>11 DEF BatchOK, Untouched, Given, Placed
<1>15. Counts(j, n)'
  <2>1. PICK counts \in TallyRows, prepared \in TallyRows, handled \in SUBSET Numbers :
           /\ counts = embedBatch[j][n].counts /\ prepared = embedBatch[j][n].prepared
           /\ handled = documents \ embedBatch[j][n].pending
    BY <1>1 DEF EmbedBatchRows
  <2>2. /\ Dealt(counts, documents) => Dealt(counts, documents)'
        /\ Dealt(prepared, handled) => Dealt(prepared, handled)'
    BY <1>1, DealtStays
  <2>3. Dealt(new, documents \ (todo \ {d}))'
    BY <1>7, <1>8
  <2>4. Counts(j, n)
    BY <1>1 DEF BatchOK
  <2>5. f.todo \subseteq documents
    BY <1>3, <1>9
  <2> QED BY <1>2, <1>9, <1>11, <2>1, <2>2, <2>3, <2>4, <2>5 DEF Counts
<1>16. BatchOK(j, n)'
  BY <1>14, <1>15 DEF BatchOK
<1> QED BY <1>1, <1>9, <1>10, <1>12, <1>13, <1>16, OneBatch

\* See DocumentKeeps.
LEMMA EmbedDocumentKeeps ==
  ASSUME EmbeddingInv, NEW j \in EmbeddingJobs, NEW n \in Numbers, NEW d \in Numbers, NEW outcome,
         EmbedDocument(j, n, d, outcome) \/ PersistDocument(j, n, d, outcome)
  PROVE  EmbeddingInv'
<1>1. CASE EmbedDocument(j, n, d, outcome)
  BY <1>1, DocumentKeeps DEF EmbedDocument, BatchAt
<1>2. CASE PersistDocument(j, n, d, outcome)
  BY <1>2, DocumentKeeps DEF PersistDocument, BatchAt
<1> QED BY <1>1, <1>2


\* Documents that fail beside those that were dealt with.
LEMMA MoreFailed ==
  ASSUME NEW tally \in TallyRows, NEW S \in SUBSET Numbers, NEW M \in SUBSET Numbers, S \cap M = {},
         Dealt(tally, S), NEW new,
         new = [tally EXCEPT !.processed = @ + Cardinality(M), !.failed = @ + Cardinality(M)]
  PROVE  new \in TallyRows /\ Dealt(new, S \cup M)
<1>1. /\ IsFiniteSet(S) /\ IsFiniteSet(M) /\ Cardinality(S) \in Nat /\ Cardinality(M) \in Nat
  BY FiniteDocuments
<1> PICK m \in Nat : m = Cardinality(M)
  BY <1>1
<1>2. Cardinality(S \cup M) = Cardinality(S) + m
  <2>1. Cardinality(S \cup M) = Cardinality(S) + Cardinality(M) - Cardinality(S \cap M)
    BY <1>1, FS_Union
  <2>2. Cardinality(S \cap M) = 0
    BY FS_EmptySet
  <2> QED BY <1>1, <2>1, <2>2
<1>3. /\ new \in TallyRows /\ new.processed = tally.processed + m /\ new.failed = tally.failed + m
      /\ new.embedded = tally.embedded /\ new.skipped = tally.skipped
  <2>1. /\ tally.processed \in Nat /\ tally.embedded \in Nat /\ tally.skipped \in Nat /\ tally.failed \in Nat
        /\ tally = [processed |-> tally.processed, embedded |-> tally.embedded,
                    skipped |-> tally.skipped, failed |-> tally.failed]
    BY DEF TallyRows
  <2>2. new = [processed |-> tally.processed + m, embedded |-> tally.embedded,
               skipped |-> tally.skipped, failed |-> tally.failed + m]
    BY <2>1
  <2> QED BY <2>1, <2>2 DEF TallyRows
<1>4. Cardinality((S \cup M) \ vectors) <= tally.failed + m
  <2> PICK A, B : A = S \ vectors /\ B = (S \cup M) \ vectors
    OBVIOUS
  <2>1. A \in SUBSET Numbers /\ B \in SUBSET Numbers /\ A \cup M \in SUBSET Numbers /\ A \cap M = {}
    OBVIOUS
  <2>2. /\ IsFiniteSet(A) /\ IsFiniteSet(A \cup M) /\ Cardinality(A) \in Nat /\ Cardinality(B) \in Nat
        /\ Cardinality(A \cup M) \in Nat
    BY <2>1, FiniteDocuments
  <2>3. Cardinality(A \cup M) = Cardinality(A) + Cardinality(M) - Cardinality(A \cap M)
    BY <1>1, <2>2, FS_Union
  <2>4. Cardinality(A \cup M) = Cardinality(A) + m
    <3>1. Cardinality(A \cap M) = 0
      BY <2>1, FS_EmptySet
    <3> QED BY <2>2, <2>3, <3>1
  <2>5. Cardinality(B) <= Cardinality(A \cup M)
    <3>1. B \subseteq A \cup M
      OBVIOUS
    <3> QED BY <2>2, <3>1, FS_Subset
  <2>6. Cardinality(A) <= tally.failed
    BY DEF Dealt
  <2> QED BY <2>2, <2>4, <2>5, <2>6 DEF TallyRows
<1>5. tally.processed = Cardinality(S) /\ tally.processed = tally.embedded + tally.skipped + tally.failed
  BY DEF Dealt
<1>6. new.processed = Cardinality(S \cup M) /\ new.processed = new.embedded + new.skipped + new.failed
  BY <1>1, <1>2, <1>3, <1>5 DEF TallyRows
<1>7. Cardinality((S \cup M) \ vectors) <= new.failed
  BY <1>3, <1>4
<1> QED BY <1>3, <1>6, <1>7 DEF Dealt

\* What is in the manifest: the documents that are not pending are dealt with.
LEMMA ManifestDeals ==
  ASSUME EmbeddingInv, NEW j \in EmbeddingJobs, NEW n \in Numbers, NEW unprepared
  PROVE  /\ Manifest(j, n, unprepared).pending \subseteq embedBatch[j][n].documents
         /\ Manifest(j, n, unprepared).prepared \in TallyRows
         /\ Dealt(Manifest(j, n, unprepared).prepared,
                  embedBatch[j][n].documents \ Manifest(j, n, unprepared).pending)
<1> PICK documents \in SUBSET Numbers : documents = embedBatch[j][n].documents
  BY BatchRows DEF EmbedBatchRows
<1> PICK skipped, failures :
        skipped = (documents \cap vectors) \ unprepared /\ failures = documents \cap unprepared
  OBVIOUS
<1> PICK S : S = skipped \cup failures
  OBVIOUS
<1>1. /\ skipped \in SUBSET Numbers /\ failures \in SUBSET Numbers /\ skipped \cap failures = {}
      /\ S \in SUBSET Numbers
  OBVIOUS
<1>2. /\ IsFiniteSet(skipped) /\ IsFiniteSet(failures) /\ Cardinality(skipped) \in Nat
      /\ Cardinality(failures) \in Nat
  BY <1>1, FiniteDocuments
<1> PICK s \in Nat, f \in Nat : s = Cardinality(skipped) /\ f = Cardinality(failures)
  BY <1>2
<1>3. Cardinality(S) = s + f
  <2>1. Cardinality(S) = Cardinality(skipped) + Cardinality(failures) - Cardinality(skipped \cap failures)
    BY <1>2, FS_Union
  <2>2. Cardinality(skipped \cap failures) = 0
    BY <1>1, FS_EmptySet
  <2> QED BY <2>1, <2>2
<1>4. Cardinality(S \ vectors) <= f
  <2>1. S \ vectors \subseteq failures
    OBVIOUS
  <2> QED BY <1>2, <2>1, FS_Subset
<1>5. documents \ (documents \ S) = S /\ documents \ S \subseteq documents
  OBVIOUS
<1> PICK prepared : prepared = [processed |-> s + f, embedded |-> 0, skipped |-> s, failed |-> f]
  OBVIOUS
<1>6. prepared \in TallyRows /\ Dealt(prepared, S)
  BY <1>3, <1>4 DEF TallyRows, Dealt
<1>7. /\ Manifest(j, n, unprepared).pending = documents \ S
      /\ Manifest(j, n, unprepared).prepared = prepared
  BY DEF Manifest
<1> QED BY <1>5, <1>6, <1>7


\* A batch is completed with its counts, and the usage is recorded.
LEMMA CommitBatchKeeps ==
  ASSUME EmbeddingInv, NEW j \in EmbeddingJobs, NEW n \in Numbers, CommitBatch(j, n)
  PROVE  EmbeddingInv'
<1>1. /\ batchFlow[j][n].pc \in {"embed", "persist"} /\ batchFlow[j][n].todo = {}
      /\ BatchGoto(j, n, "done") /\ usage \subseteq usage'
      /\ batchFlow[j][n].pc = "persist" => <<j, n>> \in usage'
      /\ UNCHANGED <<documentCount, embedJob, jobFlow, provider, vectors>>
  BY DEF CommitBatch, BatchAt
<1>2. /\ batchFlow[j][n] \in BatchFlowRows /\ embedBatch[j][n] \in EmbedBatchRows /\ BatchOK(j, n)
  BY BatchRows
<1>3. PICK tally \in TallyRows : tally = batchFlow[j][n].tally
  BY <1>2 DEF BatchFlowRows
<1> DEFINE b == [embedBatch[j][n] EXCEPT !.status = "COMPLETED", !.counts = tally]
<1>4. /\ b \in EmbedBatchRows /\ b.status = "COMPLETED" /\ b.counts = tally
      /\ b.documents = embedBatch[j][n].documents /\ b.pending = embedBatch[j][n].pending
      /\ b.prepared = embedBatch[j][n].prepared /\ b.submitted = embedBatch[j][n].submitted
      /\ b.providerStatus = embedBatch[j][n].providerStatus
  BY <1>2 DEF EmbedBatchRows
<1>5. embedBatch' = Put(embedBatch, j, n, b)
  BY <1>3, EmbeddingRowsHold DEF Put, CommitBatch
<1> HIDE DEF b
<1>6. PICK f \in BatchFlowRows : batchFlow' = Put(batchFlow, j, n, f) /\ f.pc = "done"
  BY <1>1, BatchFlowRow
<1>7. embedBatch'[j][n] = b /\ batchFlow'[j][n] = f
  <2>1. Put(batchFlow, j, n, f)[j][n] = f
    BY BatchWrites
  <2>2. Put(embedBatch, j, n, b)[j][n] = b
    BY BatchWrites
  <2> QED BY <1>5, <1>6, <2>1, <2>2
<1>8. PICK p \in ProviderRows : p = provider[j][n]
  BY BatchRows
<1>9. provider' = Put(provider, j, n, p)
  BY <1>1, <1>8, BatchRows
<1>10. n <= embedJob[j].batches /\ ~(n > embedJob[j].batches)
  BY <1>1, WorkingBatch
<1>11. /\ jobFlow[j].pc \notin {"none", "plan", "planWrite", "enqueue"}
  BY <1>1, WorkingBatch
<1>12. Untouched(j, n)'
  BY <1>6, <1>7 DEF Untouched
<1>13. Given(j, n)'
  BY <1>1, <1>2, <1>4, <1>7, <1>10 DEF BatchOK, Given
<1>14. Placed(j, n)'
  <2>1. Placed(j, n)
    BY <1>2 DEF BatchOK
  <2> QED BY <1>1, <1>4, <1>6, <1>7, <1>11, <2>1 DEF Placed
<1>15. Counts(j, n)'
  <2>1. embedBatch[j][n].documents \ {} = embedBatch[j][n].documents
    OBVIOUS
  <2>2. Counts(j, n) /\ Dealt(tally, embedBatch[j][n].documents)
    BY <1>1, <1>2, <1>3, <2>1 DEF BatchOK, Counts
  <2>3. b.submitted => <<j, n>> \in usage'
    BY <1>1, <1>2, <1>4 DEF BatchOK, Placed
  <2> QED BY <1>1, <1>4, <1>6, <1>7, <2>2, <2>3 DEF Counts, Dealt
<1>16. BatchOK(j, n)'
  BY <1>12, <1>13, <1>14, <1>15 DEF BatchOK
<1> QED BY <1>1, <1>4, <1>5, <1>6, <1>8, <1>9, <1>16, OneBatch

\* The results of the provider are read; a document that is not in the file has failed.
LEMMA BeginFinalizeKeeps ==
  ASSUME EmbeddingInv, NEW j \in EmbeddingJobs, NEW n \in Numbers, BeginFinalize(j, n)
  PROVE  EmbeddingInv'
<1>1. /\ batchFlow[j][n].pc = "finalize"
      /\ UNCHANGED <<documentCount, embedJob, embedBatch, jobFlow, provider, vectors, usage>>
  BY DEF BeginFinalize, BatchStep
<1>2. /\ batchFlow[j][n] \in BatchFlowRows /\ embedBatch[j][n] \in EmbedBatchRows /\ BatchOK(j, n)
  BY BatchRows
<1> PICK missing, known :
        /\ missing = embedBatch[j][n].pending \ provider[j][n].file
        /\ known = [embedBatch[j][n].prepared EXCEPT !.processed = @ + Cardinality(missing),
                                                     !.failed = @ + Cardinality(missing)]
  OBVIOUS
<1>3. CASE /\ embedBatch[j][n].status = "COMPLETED" \/ "CANCELED" \in {embedBatch[j][n].status, embedJob[j].status}
           /\ batchFlow' = [batchFlow EXCEPT ![j][n] = [@ EXCEPT !.pc = "done"]]
  <2>1. BatchGoto(j, n, "done")
    BY <1>3, EmbeddingRowsHold DEF BatchGoto
  <2>2. embedBatch[j][n].status = "COMPLETED" \/ embedJob[j].status \in {"CANCELED", "FAILED"}
    BY <1>2, <1>3 DEF BatchOK, Placed
  <2> QED BY <1>1, <2>1, <2>2, BatchGoesAlone
<1>4. CASE /\ embedBatch[j][n].status # "COMPLETED"
           /\ batchFlow' = [batchFlow EXCEPT ![j][n] =
                    [pc |-> "persist", todo |-> embedBatch[j][n].pending \ missing, tally |-> known]]
  <2>1. PICK documents \in SUBSET Numbers, pending \in SUBSET Numbers, prepared \in TallyRows :
           /\ documents = embedBatch[j][n].documents /\ pending = embedBatch[j][n].pending
           /\ prepared = embedBatch[j][n].prepared
    BY <1>2 DEF EmbedBatchRows
  <2>2. /\ pending \subseteq documents /\ embedBatch[j][n].submitted
        /\ Dealt(prepared, documents \ pending) /\ missing \in SUBSET Numbers /\ missing \subseteq pending
    BY <1>1, <1>2, <2>1 DEF BatchOK, Given, Placed, Counts
  <2>3. PICK S \in SUBSET Numbers : S = documents \ pending
    OBVIOUS
  <2>4. S \cap missing = {} /\ S \cup missing = documents \ (pending \ missing)
    BY <2>2, <2>3
  <2>5. known \in TallyRows /\ Dealt(known, S \cup missing)
    <3>1. known = [prepared EXCEPT !.processed = @ + Cardinality(missing),
                                   !.failed = @ + Cardinality(missing)]
      BY <2>1
    <3>2. Dealt(prepared, S)
      BY <2>2, <2>3
    <3> QED BY <2>2, <2>4, <3>1, <3>2, MoreFailed
  <2> DEFINE f == [pc |-> "persist", todo |-> pending \ missing, tally |-> known]
  <2>6. f \in BatchFlowRows /\ f.pc = "persist" /\ f.todo = pending \ missing /\ f.tally = known
    BY <2>5 DEF BatchFlowRows
  <2>7. batchFlow' = Put(batchFlow, j, n, f)
    BY <1>4, <2>1 DEF Put
  <2> HIDE DEF f
  <2>8. batchFlow'[j][n] = f
    <3>1. Put(batchFlow, j, n, f)[j][n] = f
      BY BatchWrites
    <3> QED BY <2>7, <3>1
  <2>9. PICK p \in ProviderRows, b \in EmbedBatchRows : p = provider[j][n] /\ b = embedBatch[j][n]
    BY BatchRows
  <2>10. provider' = Put(provider, j, n, p) /\ embedBatch' = Put(embedBatch, j, n, b)
    BY <1>1, <2>9, BatchRows
  <2>11. Untouched(j, n)' /\ Given(j, n)' /\ Placed(j, n)'
    BY <1>1, <1>2, <1>4, <2>6, <2>8 DEF BatchOK, Untouched, Given, Placed
  <2>12. Counts(j, n)'
    <3>1. Counts(j, n) /\ f.todo \subseteq documents /\ Dealt(f.tally, documents \ f.todo)
      BY <1>2, <2>2, <2>4, <2>5, <2>6 DEF BatchOK
    <3> QED BY <1>1, <2>1, <2>6, <2>8, <3>1 DEF Counts, Dealt
  <2>13. BatchOK(j, n)'
    BY <2>11, <2>12 DEF BatchOK
  <2> QED BY <1>1, <2>6, <2>7, <2>9, <2>10, <2>13, OneBatch
<1> QED BY <1>3, <1>4 DEF BeginFinalize


\* The manifest of the batch is prepared, or there is nothing to submit.
LEMMA BeginSubmitKeeps ==
  ASSUME EmbeddingInv, NEW j \in EmbeddingJobs, NEW n \in Numbers, NEW unprepared,
         BeginSubmit(j, n, unprepared)
  PROVE  EmbeddingInv'
<1>1. /\ batchFlow[j][n].pc = "submit"
      /\ UNCHANGED <<documentCount, embedJob, jobFlow, provider, vectors, usage>>
  BY DEF BeginSubmit, BatchStep
<1>2. /\ embedBatch[j][n] \in EmbedBatchRows /\ BatchOK(j, n) /\ embedJob[j].mode = "voyage_batch"
  BY <1>1, BatchRows DEF BatchOK, Placed
<1>3. CASE embedBatch[j][n].status = "COMPLETED" /\ BatchGoto(j, n, "done") /\ UNCHANGED embedBatch
  BY <1>1, <1>3, BatchGoesAlone
<1>4. CASE /\ embedBatch[j][n].status # "COMPLETED" /\ embedJob[j].status = "CANCELED"
           /\ embedBatch' = [embedBatch EXCEPT ![j][n].status = "CANCELED"] /\ BatchGoto(j, n, "done")
  BY <1>1, <1>4, BatchCanceled
<1>5. CASE /\ embedBatch[j][n].status # "COMPLETED" /\ embedBatch[j][n].submitted
           /\ BatchGoto(j, n, "poll") /\ UNCHANGED embedBatch
  BY <1>1, <1>2, <1>5, BatchGoesAlone
<1> PICK manifest : manifest = Manifest(j, n, unprepared)
  OBVIOUS
<1>6. CASE /\ embedBatch[j][n].status # "COMPLETED" /\ embedJob[j].status # "CANCELED"
           /\ ~embedBatch[j][n].submitted
           /\ embedBatch' = [embedBatch EXCEPT ![j][n] =
                [@ EXCEPT !.pending = manifest.pending, !.prepared = manifest.prepared,
                          !.status = IF manifest.pending = {} THEN "COMPLETED" ELSE "RUNNING",
                          !.counts = IF manifest.pending = {} THEN manifest.prepared
                                    ELSE embedBatch[j][n].counts]]
           /\ BatchGoto(j, n, IF manifest.pending = {} THEN "done" ELSE "create")
  <2>1. PICK documents \in SUBSET Numbers : documents = embedBatch[j][n].documents
    BY <1>2 DEF EmbedBatchRows
  <2>2. PICK pending \in SUBSET Numbers, prepared \in TallyRows :
           pending = manifest.pending /\ prepared = manifest.prepared
    BY <2>1, ManifestDeals
  <2>3. pending \subseteq documents /\ Dealt(prepared, documents \ pending)
    BY <2>1, <2>2, ManifestDeals
  <2> PICK counts \in TallyRows : counts = IF pending = {} THEN prepared ELSE embedBatch[j][n].counts
    BY <1>2 DEF EmbedBatchRows
  <2>4. PICK status, pc : /\ status = IF pending = {} THEN "COMPLETED" ELSE "RUNNING"
                          /\ pc = IF pending = {} THEN "done" ELSE "create"
    OBVIOUS
  <2>5. /\ status \in {"COMPLETED", "RUNNING"} /\ pc \in {"done", "create"}
        /\ status = "COMPLETED" <=> pc = "done"
        /\ status = "COMPLETED" => counts = prepared /\ pending = {}
    BY <2>4
  <2> DEFINE b == [embedBatch[j][n] EXCEPT !.pending = pending, !.prepared = prepared,
                                           !.status = status, !.counts = counts]
  <2>6. /\ b \in EmbedBatchRows /\ b.status = status /\ b.counts = counts
        /\ b.documents = documents /\ b.pending = pending /\ b.prepared = prepared
        /\ b.submitted = embedBatch[j][n].submitted
        /\ b.providerStatus = embedBatch[j][n].providerStatus
    BY <1>2, <2>1, <2>5 DEF EmbedBatchRows
  <2>7. embedBatch' = Put(embedBatch, j, n, b)
    <3>1. embedBatch' = [embedBatch EXCEPT ![j][n] =
             [embedBatch[j][n] EXCEPT !.pending = pending, !.prepared = prepared,
                                      !.status = status, !.counts = counts]]
      <4> PICK row : row = [embedBatch[j][n] EXCEPT
                !.pending = manifest.pending, !.prepared = manifest.prepared,
                !.status = IF manifest.pending = {} THEN "COMPLETED" ELSE "RUNNING",
                !.counts = IF manifest.pending = {} THEN manifest.prepared ELSE embedBatch[j][n].counts]
        OBVIOUS
      <4>1. embedBatch' = [embedBatch EXCEPT ![j][n] = row]
        BY <1>6
      <4>2. row = [embedBatch[j][n] EXCEPT !.pending = pending, !.prepared = prepared,
                                           !.status = status, !.counts = counts]
        <5>1. CASE pending = {}
          BY <2>2, <2>4, <5>1
        <5>2. CASE pending # {}
          BY <2>2, <2>4, <5>2
        <5> QED BY <5>1, <5>2
      <4> QED BY <4>1, <4>2
    <3> QED BY <3>1 DEF Put
  <2> HIDE DEF b
  <2>8. BatchGoto(j, n, pc)
    BY <1>6, <2>2, <2>4
  <2>9. PICK f \in BatchFlowRows : batchFlow' = Put(batchFlow, j, n, f) /\ f.pc = pc
    BY <2>5, <2>8, BatchFlowRow
  <2>10. embedBatch'[j][n] = b /\ batchFlow'[j][n] = f
    <3>1. Put(batchFlow, j, n, f)[j][n] = f
      BY BatchWrites
    <3>2. Put(embedBatch, j, n, b)[j][n] = b
      BY BatchWrites
    <3> QED BY <2>7, <2>9, <3>1, <3>2
  <2>11. PICK p \in ProviderRows : p = provider[j][n]
    BY BatchRows
  <2>12. provider' = Put(provider, j, n, p)
    BY <1>1, <2>11, BatchRows
  <2>13. /\ ~(n < jobFlow[j].next) /\ n <= embedJob[j].batches /\ ~(n > embedJob[j].batches)
         /\ jobFlow[j].pc \notin {"none", "plan", "planWrite", "enqueue"}
    BY <1>1, NotAwaited, WorkingBatch
  <2>14. Untouched(j, n)'
    BY <2>5, <2>9, <2>10 DEF Untouched
  <2>15. Given(j, n)'
    BY <1>1, <1>2, <2>1, <2>3, <2>6, <2>10, <2>13 DEF BatchOK, Given
  <2>16. Placed(j, n)'
    <3>1. Placed(j, n) /\ ~b.submitted
      BY <1>2, <1>6, <2>6 DEF BatchOK
    <3> QED BY <1>1, <1>2, <2>5, <2>6, <2>9, <2>10, <2>13, <3>1 DEF Placed
  <2>17. Counts(j, n)'
    <3>1. ~b.submitted /\ Dealt(b.prepared, b.documents \ b.pending)
      BY <1>6, <2>3, <2>6
    <3>2. b.status = "COMPLETED" => Dealt(b.counts, b.documents)
      <4>1. documents \ {} = documents
        OBVIOUS
      <4> QED BY <2>3, <2>5, <2>6, <4>1
    <3> QED BY <1>1, <2>5, <2>9, <2>10, <3>1, <3>2 DEF Counts, Dealt
  <2>18. BatchOK(j, n)'
    BY <2>14, <2>15, <2>16, <2>17 DEF BatchOK
  <2> QED BY <1>1, <2>6, <2>7, <2>9, <2>11, <2>12, <2>18, OneBatch
<1> QED BY <1>3, <1>4, <1>5, <1>6 DEF BeginSubmit


\* The provider's row after a file and a batch, or a file only, is stored.
LEMMA ProviderRow ==
  ASSUME EmbeddingInv, NEW j \in EmbeddingJobs, NEW n \in Numbers,
         \/ SubmitReconciled(j, n)
         \/ provider' = [provider EXCEPT ![j][n].file = IF @ = {} THEN embedBatch[j][n].pending ELSE @]
  PROVE  \E p \in ProviderRows : /\ provider' = Put(provider, j, n, p) /\ p.batches <= 1
                                 /\ p.file \subseteq embedBatch[j][n].documents
<1> PICK row \in ProviderRows : row = provider[j][n]
  BY BatchRows
<1>1. /\ embedBatch[j][n] \in EmbedBatchRows /\ row.batches \in Nat /\ row.batches <= 1
      /\ row.file \subseteq embedBatch[j][n].documents
      /\ embedBatch[j][n].pending \subseteq embedBatch[j][n].documents
      /\ provider \in [EmbeddingJobs -> [Numbers -> ProviderRows]]
  BY BatchRows, EmbeddingRowsHold DEF BatchOK, Given, ProviderRows
<1> PICK file \in SUBSET Numbers : file = IF row.file = {} THEN embedBatch[j][n].pending ELSE row.file
  BY <1>1 DEF ProviderRows, EmbedBatchRows
<1>2. CASE provider' = provider
  BY <1>1, <1>2, BatchRows
<1>3. CASE ~(row.batches > 0) /\ provider' = [provider EXCEPT ![j][n] =
                [file |-> IF @.file = {} THEN embedBatch[j][n].pending ELSE @.file,
                 batches |-> @.batches + 1, status |-> "in_progress"]]
  <2> DEFINE p == [file |-> file, batches |-> 1, status |-> "in_progress"]
  <2>1. p \in ProviderRows /\ p.batches <= 1 /\ p.file \subseteq embedBatch[j][n].documents
    BY <1>1 DEF ProviderRows
  <2>2. row.batches + 1 = 1
    BY <1>1, <1>3
  <2>3. provider' = Put(provider, j, n, p)
    BY <1>1, <1>3, <2>2 DEF Put
  <2> QED BY <2>1, <2>3
<1>4. CASE provider' = [provider EXCEPT ![j][n].file = IF @ = {} THEN embedBatch[j][n].pending ELSE @]
  <2> DEFINE p == [row EXCEPT !.file = file]
  <2>1. p \in ProviderRows /\ p.batches <= 1 /\ p.file \subseteq embedBatch[j][n].documents
    BY <1>1 DEF ProviderRows
  <2>2. provider' = Put(provider, j, n, p)
    BY <1>1, <1>4 DEF Put
  <2> QED BY <2>1, <2>2
<1> QED BY <1>2, <1>3, <1>4 DEF SubmitReconciled, Reconciled

\* The batch is submitted, or found; the answer may be lost.
LEMMA CreateBatchKeeps ==
  ASSUME EmbeddingInv, NEW j \in EmbeddingJobs, NEW n \in Numbers,
         CreateBatch(j, n) \/ CreateBatchAnswerLost(j, n)
  PROVE  EmbeddingInv'
<1>1. /\ batchFlow[j][n].pc = "create"
      /\ UNCHANGED <<documentCount, embedJob, embedBatch, jobFlow, vectors, usage>>
      /\ BatchGoto(j, n, "record") \/ BatchGoto(j, n, "submit")
  BY DEF CreateBatch, CreateBatchAnswerLost, BatchAt
<1>2. embedJob[j].mode = "voyage_batch"
  BY <1>1, BatchRows DEF BatchOK, Placed
<1>3. PICK p \in ProviderRows : /\ provider' = Put(provider, j, n, p) /\ p.batches <= 1
                                /\ p.file \subseteq embedBatch[j][n].documents
  BY ProviderRow DEF CreateBatch, CreateBatchAnswerLost
<1>4. CASE BatchGoto(j, n, "record")
  BY <1>1, <1>2, <1>3, <1>4, BatchGoes
<1>5. CASE BatchGoto(j, n, "submit")
  BY <1>1, <1>2, <1>3, <1>5, BatchGoes
<1> QED BY <1>1, <1>4, <1>5

\* The provider ends batches, or they are canceled there: only their status changes.
LEMMA ProviderMoves ==
  ASSUME EmbeddingInv, NEW j \in EmbeddingJobs, NEW ps \in [Numbers -> ProviderRows],
         provider' = [provider EXCEPT ![j] = ps],
         \A n \in Numbers : ps[n].file = provider[j][n].file /\ ps[n].batches = provider[j][n].batches,
         UNCHANGED <<documentCount, embedJob, embedBatch, jobFlow, batchFlow, vectors, usage>>
  PROVE  EmbeddingInv'
<1>1. /\ embedJob[j] \in EmbedJobRows /\ embedJob' = [embedJob EXCEPT ![j] = embedJob[j]]
      /\ jobFlow[j] \in JobFlowRows /\ jobFlow' = [jobFlow EXCEPT ![j] = jobFlow[j]]
      /\ embedBatch[j] \in [Numbers -> EmbedBatchRows] /\ embedBatch' = [embedBatch EXCEPT ![j] = embedBatch[j]]
      /\ batchFlow[j] \in [Numbers -> BatchFlowRows] /\ batchFlow' = [batchFlow EXCEPT ![j] = batchFlow[j]]
      /\ documentCount' \in 0..MaxDocuments /\ JobOK(j)
      /\ vectors \subseteq vectors' /\ usage \subseteq usage'
  BY EmbeddingRowsHold
<1>2. provider'[j] = ps
  BY EmbeddingRowsHold
<1>3. JobOK(j)'
  BY <1>1, BatchBound, JobStays
<1>4. ASSUME NEW n \in Numbers
      PROVE  BatchOK(j, n)'
  <2>1. BatchOK(j, n)
    BY BatchRows
  <2>2. Untouched(j, n)' /\ Given(j, n)'
    BY <1>2, <2>1 DEF BatchOK, Untouched, Given
  <2>3. Placed(j, n)' /\ Counts(j, n)'
    BY <2>1 DEF BatchOK, Placed, Counts, Dealt
  <2> QED BY <2>2, <2>3 DEF BatchOK
<1> QED BY <1>1, <1>3, <1>4, OneJobMoves

\* See ProviderMoves.
LEMMA ProviderEndsKeeps ==
  ASSUME EmbeddingInv, NEW j \in EmbeddingJobs, NEW n \in Numbers, NEW status, ProviderEnds(j, n, status)
  PROVE  EmbeddingInv'
<1> DEFINE p == [provider[j][n] EXCEPT !.status = status]
           ps == [provider[j] EXCEPT ![n] = p]
<1>1. /\ provider[j] \in [Numbers -> ProviderRows] /\ provider[j][n] \in ProviderRows
      /\ provider \in [EmbeddingJobs -> [Numbers -> ProviderRows]]
  BY EmbeddingRowsHold
<1>2. /\ status \in {"completed", "failed"}
      /\ UNCHANGED <<documentCount, embedJob, embedBatch, jobFlow, batchFlow, vectors, usage>>
  BY DEF ProviderEnds
<1>3. p \in ProviderRows /\ p.file = provider[j][n].file /\ p.batches = provider[j][n].batches
  BY <1>1, <1>2 DEF ProviderRows
<1>4. provider' = [provider EXCEPT ![j] = ps]
  BY <1>1 DEF ProviderEnds
<1> HIDE DEF p
<1>5. /\ ps \in [Numbers -> ProviderRows]
      /\ \A m \in Numbers : ps[m].file = provider[j][m].file /\ ps[m].batches = provider[j][m].batches
  BY <1>1, <1>3
<1> HIDE DEF ps
<1> QED BY <1>2, <1>4, <1>5, ProviderMoves

\* See ProviderMoves.
LEMMA CancelVoyageBatchesKeeps ==
  ASSUME EmbeddingInv, NEW j \in EmbeddingJobs, NEW refused, CancelVoyageBatches(j, refused)
  PROVE  EmbeddingInv'
<1> DEFINE ps == [n \in Numbers |->
            IF ~refused /\ embedBatch[j][n].submitted
               /\ embedBatch[j][n].providerStatus = "in_progress" /\ provider[j][n].status = "in_progress"
            THEN [provider[j][n] EXCEPT !.status = "cancelled"] ELSE provider[j][n]]
<1>1. /\ provider[j] \in [Numbers -> ProviderRows]
      /\ provider \in [EmbeddingJobs -> [Numbers -> ProviderRows]]
      /\ UNCHANGED <<documentCount, embedJob, embedBatch, jobFlow, batchFlow, vectors, usage>>
  BY EmbeddingRowsHold DEF CancelVoyageBatches
<1>2. provider' = [provider EXCEPT ![j] = ps]
  BY <1>1 DEF CancelVoyageBatches
<1>3. ASSUME NEW n \in Numbers
      PROVE  /\ ps[n] \in ProviderRows
             /\ ps[n].file = provider[j][n].file /\ ps[n].batches = provider[j][n].batches
  <2>1. provider[j][n] \in ProviderRows
    BY <1>1
  <2>2. ps[n] = provider[j][n] \/ ps[n] = [provider[j][n] EXCEPT !.status = "cancelled"]
    OBVIOUS
  <2> HIDE DEF ps
  <2> QED BY <2>1, <2>2 DEF ProviderRows
<1>4. ps \in [Numbers -> ProviderRows]
  BY <1>3
<1> HIDE DEF ps
<1> QED BY ZenonT(60), <1>1, <1>2, <1>3, <1>4, ProviderMoves


\* The workflows of the batches start.
LEMMA EnqueueBatchesKeeps ==
  ASSUME EmbeddingInv, NEW j \in EmbeddingJobs, EnqueueBatches(j)
  PROVE  EmbeddingInv'
<1> PICK start : start = IF embedJob[j].mode = "voyage_batch" THEN "submit" ELSE "process"
  OBVIOUS
<1> DEFINE fs == [n \in Numbers |-> IF n <= jobFlow[j].batches /\ batchFlow[j][n].pc = "none"
                                    THEN [batchFlow[j][n] EXCEPT !.pc = start] ELSE batchFlow[j][n]]
<1>1. /\ jobFlow[j].pc = "enqueue" /\ JobGoto(j, "await")
      /\ UNCHANGED <<documentCount, embedJob, embedBatch, provider, vectors, usage>>
  BY DEF EnqueueBatches, StepOf
<1>2. /\ embedJob[j] \in EmbedJobRows /\ embedJob' = [embedJob EXCEPT ![j] = embedJob[j]]
      /\ embedBatch[j] \in [Numbers -> EmbedBatchRows] /\ embedBatch' = [embedBatch EXCEPT ![j] = embedBatch[j]]
      /\ provider[j] \in [Numbers -> ProviderRows] /\ provider' = [provider EXCEPT ![j] = provider[j]]
      /\ documentCount' \in 0..MaxDocuments /\ JobOK(j)
      /\ vectors \subseteq vectors' /\ usage \subseteq usage'
      /\ batchFlow \in [EmbeddingJobs -> [Numbers -> BatchFlowRows]]
      /\ jobFlow[j].batches = embedJob[j].batches
  BY <1>1, EmbeddingRowsHold DEF JobOK
<1>3. PICK w \in JobFlowRows :
            /\ jobFlow' = [jobFlow EXCEPT ![j] = w] /\ w.pc = "await"
            /\ w.batches = jobFlow[j].batches /\ w.next = jobFlow[j].next /\ w.failed = jobFlow[j].failed
  BY <1>1, JobFlowRow
<1>4. batchFlow' = [batchFlow EXCEPT ![j] = fs]
  BY <1>2 DEF EnqueueBatches
<1>5. ASSUME NEW n \in Numbers
      PROVE  /\ batchFlow[j][n].pc = "none" /\ fs[n] \in BatchFlowRows
             /\ n <= embedJob[j].batches => fs[n].pc = start
             /\ ~(n <= embedJob[j].batches) => fs[n].pc = "none"
  <2>1. batchFlow[j][n] \in BatchFlowRows /\ batchFlow[j][n].pc = "none"
    BY <1>1, BatchRows DEF BatchOK, Placed
  <2>2. CASE n <= embedJob[j].batches
    <3>1. fs[n] = [batchFlow[j][n] EXCEPT !.pc = start]
      BY <1>2, <2>1, <2>2
    <3>2. start \in {"submit", "process"}
      OBVIOUS
    <3> HIDE DEF fs
    <3> QED BY <2>1, <2>2, <3>1, <3>2 DEF BatchFlowRows
  <2>3. CASE ~(n <= embedJob[j].batches)
    BY <1>2, <2>1, <2>3
  <2> QED BY <2>1, <2>2, <2>3
<1>6. fs \in [Numbers -> BatchFlowRows]
  BY <1>5
<1> HIDE DEF fs
<1>7. jobFlow'[j] = w /\ batchFlow'[j] = fs
  BY <1>2, <1>3, <1>4, EmbeddingRowsHold
<1>8. JobOK(j)'
  <2>1. ~CompletedEmbedding(j)' /\ embedJob[j].status \notin {"FAILED", "COMPLETED"}
    BY <1>1, <1>2 DEF JobOK, CompletedEmbedding
  <2> QED BY <1>1, <1>2, <1>3, <1>7, <2>1 DEF JobOK
<1>9. ASSUME NEW n \in Numbers
      PROVE  BatchOK(j, n)'
  <2>1. BatchOK(j, n) /\ batchFlow[j][n].pc = "none" /\ ~(n < jobFlow[j].next)
    BY <1>5, BatchRows, NotAwaited
  <2>2. fs[n].pc \in {"none", start} /\ start = IF embedJob[j].mode = "voyage_batch" THEN "submit" ELSE "process"
    BY <1>5
  <2>3. Untouched(j, n)'
    BY <1>1, <1>7, <2>1 DEF BatchOK, Untouched
  <2>4. Given(j, n)'
    <3>1. n > embedJob[j].batches => fs[n].pc = "none"
      <4>1. n > embedJob[j].batches => ~(n <= embedJob[j].batches)
        BY EmbeddingAssumption, BatchBound DEF Numbers
      <4> QED BY <1>5, <4>1
    <3> QED BY <1>1, <1>7, <2>1, <3>1 DEF BatchOK, Given
  <2>5. Placed(j, n)'
    <3>1. Placed(j, n) /\ Untouched(j, n)
      BY <2>1 DEF BatchOK
    <3> QED BY <1>1, <1>3, <1>7, <2>1, <2>2, <3>1 DEF Placed, Untouched
  <2>6. Counts(j, n)'
    <3>1. Counts(j, n)
      BY <2>1 DEF BatchOK
    <3>2. fs[n].pc \notin {"embed", "persist", "create", "record"}
      BY <2>2
    <3> QED BY <1>1, <1>7, <3>1, <3>2 DEF Counts, Dealt
  <2> QED BY <2>3, <2>4, <2>5, <2>6 DEF BatchOK
<1> QED BY <1>2, <1>3, <1>4, <1>6, <1>8, <1>9, OneJobMoves

\* The cancellation is written, over whatever the job has become since it was read.
LEMMA WriteCancelEmbeddingKeeps ==
  ASSUME EmbeddingInv, NEW j \in EmbeddingJobs, WriteCancelEmbedding(j)
  PROVE  EmbeddingInv'
<1> DEFINE bs == [n \in Numbers |-> IF embedBatch[j][n].status = "QUEUED"
                                    THEN [embedBatch[j][n] EXCEPT !.status = "CANCELED"]
                                    ELSE embedBatch[j][n]]
<1>1. UNCHANGED <<documentCount, jobFlow, batchFlow, provider, vectors, usage>>
  BY DEF WriteCancelEmbedding
<1>2. /\ jobFlow[j] \in JobFlowRows /\ jobFlow' = [jobFlow EXCEPT ![j] = jobFlow[j]]
      /\ batchFlow[j] \in [Numbers -> BatchFlowRows] /\ batchFlow' = [batchFlow EXCEPT ![j] = batchFlow[j]]
      /\ provider[j] \in [Numbers -> ProviderRows] /\ provider' = [provider EXCEPT ![j] = provider[j]]
      /\ documentCount' \in 0..MaxDocuments /\ JobOK(j)
      /\ vectors \subseteq vectors' /\ usage \subseteq usage'
      /\ embedBatch \in [EmbeddingJobs -> [Numbers -> EmbedBatchRows]]
  BY <1>1, EmbeddingRowsHold
<1>3. PICK job \in EmbedJobRows :
            /\ embedJob' = [embedJob EXCEPT ![j] = job] /\ job.status = "CANCELED"
            /\ job.mode = embedJob[j].mode /\ job.total = embedJob[j].total
            /\ job.batches = embedJob[j].batches /\ job.counts = embedJob[j].counts
  BY EmbedJobRow DEF WriteCancelEmbedding
<1>4. embedBatch' = [embedBatch EXCEPT ![j] = bs]
  BY <1>2 DEF WriteCancelEmbedding
<1>5. ASSUME NEW n \in Numbers
      PROVE  /\ bs[n] \in EmbedBatchRows
             /\ bs[n].status = embedBatch[j][n].status
                \/ (bs[n].status = "CANCELED" /\ embedBatch[j][n].status = "QUEUED")
             /\ bs[n].documents = embedBatch[j][n].documents /\ bs[n].counts = embedBatch[j][n].counts
             /\ bs[n].pending = embedBatch[j][n].pending /\ bs[n].prepared = embedBatch[j][n].prepared
             /\ bs[n].submitted = embedBatch[j][n].submitted
             /\ bs[n].providerStatus = embedBatch[j][n].providerStatus
  <2>1. embedBatch[j][n] \in EmbedBatchRows
    BY <1>2
  <2>2. \/ bs[n] = embedBatch[j][n]
        \/ embedBatch[j][n].status = "QUEUED" /\ bs[n] = [embedBatch[j][n] EXCEPT !.status = "CANCELED"]
    OBVIOUS
  <2> HIDE DEF bs
  <2> QED BY <2>1, <2>2 DEF EmbedBatchRows
<1>6. bs \in [Numbers -> EmbedBatchRows]
  BY <1>5
<1> HIDE DEF bs
<1>7. embedJob'[j] = job /\ embedBatch'[j] = bs
  BY <1>2, <1>3, <1>4, EmbeddingRowsHold
<1>8. JobOK(j)'
  <2>1. Sums(j)' = Sums(j)
    <3>1. \A n \in 1..embedJob[j].batches : n \in Numbers
      BY EmbeddingAssumption, BatchBound DEF Numbers
    <3>2. /\ \A n \in Numbers : embedBatch'[j][n].counts = embedBatch[j][n].counts
          /\ embedJob'[j].batches = embedJob[j].batches
      BY <1>3, <1>5, <1>7
    <3>3. \A n \in 1..embedJob[j].batches : embedBatch'[j][n].counts = embedBatch[j][n].counts
      BY <3>1, <3>2
    <3> QED BY <3>2, <3>3 DEF Sums
  <2>2. Finished(j) => Finished(j)'
    BY <1>1, <1>3, <1>5, <1>7, <2>1 DEF Finished
  <2> QED BY <1>1, <1>2, <1>3, <1>7, <2>2 DEF JobOK, CompletedEmbedding
<1>9. ASSUME NEW n \in Numbers
      PROVE  BatchOK(j, n)'
  <2>1. BatchOK(j, n)
    BY BatchRows
  <2>2. Untouched(j, n)'
    BY <1>1, <1>5, <1>7, <2>1 DEF BatchOK, Untouched
  <2>3. Given(j, n)'
    BY <1>1, <1>3, <1>5, <1>7, <2>1 DEF BatchOK, Given
  <2>4. Placed(j, n)'
    BY <1>1, <1>3, <1>5, <1>7, <2>1 DEF BatchOK, Placed
  <2>5. Counts(j, n)'
    BY <1>1, <1>3, <1>5, <1>7, <2>1 DEF BatchOK, Counts, Dealt
  <2> QED BY <2>2, <2>3, <2>4, <2>5 DEF BatchOK
<1> QED BY <1>2, <1>3, <1>4, <1>6, <1>8, <1>9, OneJobMoves

(***************************************************************************)
(* Embedding: the invariant and what it says.                              *)
(***************************************************************************)

\* At first there are no jobs.
LEMMA EmbeddingStarts == EmbeddingInit => EmbeddingInv
<1> SUFFICES ASSUME EmbeddingInit PROVE EmbeddingInv
  OBVIOUS
<1>1. NoTally \in TallyRows
  BY NothingDealt
<1>2. EmbeddingRows
  <2>1. documentCount \in 0..MaxDocuments
    BY EmbeddingAssumption DEF EmbeddingInit
  <2>2. embedJob \in [EmbeddingJobs -> EmbedJobRows]
    BY <1>1 DEF EmbeddingInit, EmbedJobRows
  <2>3. embedBatch \in [EmbeddingJobs -> [Numbers -> EmbedBatchRows]]
    BY <1>1 DEF EmbeddingInit, EmbedBatchRows
  <2>4. jobFlow \in [EmbeddingJobs -> JobFlowRows]
    BY DEF EmbeddingInit, JobFlowRows
  <2>5. batchFlow \in [EmbeddingJobs -> [Numbers -> BatchFlowRows]]
    BY <1>1 DEF EmbeddingInit, BatchFlowRows
  <2>6. provider \in [EmbeddingJobs -> [Numbers -> ProviderRows]]
    BY DEF EmbeddingInit, ProviderRows
  <2> QED BY <2>1, <2>2, <2>3, <2>4, <2>5, <2>6 DEF EmbeddingRows
<1>3. ASSUME NEW j \in EmbeddingJobs
      PROVE  JobOK(j)
  <2>1. 0 = (0 + EmbeddingBatchSize - 1) \div EmbeddingBatchSize
    BY EmbeddingAssumption, Z3
  <2>2. MaxDocuments \in Nat
    BY EmbeddingAssumption
  <2> QED BY <2>1, <2>2 DEF EmbeddingInit, JobOK, CompletedEmbedding
<1>4. ASSUME NEW j \in EmbeddingJobs, NEW n \in Numbers
      PROVE  BatchOK(j, n)
  <2>1. n \in Nat /\ n > 0 /\ ~(n < 1) /\ ~(n <= 0)
    BY EmbeddingAssumption DEF Numbers
  <2>2. /\ embedJob[j] = [status |-> "NONE", mode |-> "synchronous", total |-> 0, batches |-> 0,
                          counts |-> NoTally]
        /\ embedBatch[j][n] = [status |-> "NONE", documents |-> {}, counts |-> NoTally, pending |-> {},
                               prepared |-> NoTally, submitted |-> FALSE, providerStatus |-> "none"]
        /\ jobFlow[j] = [pc |-> "none", batches |-> 0, next |-> 1, failed |-> 0]
        /\ batchFlow[j][n] = [pc |-> "none", todo |-> {}, tally |-> NoTally]
        /\ provider[j][n] = [file |-> {}, batches |-> 0, status |-> "none"]
    BY DEF EmbeddingInit
  <2> QED BY <2>1, <2>2 DEF BatchOK, Untouched, Given, Placed, Counts
<1> QED BY <1>2, <1>3, <1>4 DEF EmbeddingInv

\* Every step keeps the invariant.
LEMMA EmbeddingStep == EmbeddingInv /\ [EmbeddingNext]_embeddingVars => EmbeddingInv'
<1> SUFFICES ASSUME EmbeddingInv, [EmbeddingNext]_embeddingVars PROVE EmbeddingInv'
  OBVIOUS
<1>1. CASE UNCHANGED embeddingVars
  BY <1>1, EmbeddingRowsHold, RowsStay DEF embeddingVars
<1>2. CASE ImportDocument
  <2>1. documentCount' \in 0..MaxDocuments
    BY <1>2, EmbeddingRowsHold, EmbeddingAssumption DEF ImportDocument
  <2> QED BY <1>2, <2>1, RowsStay DEF ImportDocument
<1>3. ASSUME NEW j \in EmbeddingJobs, EmbeddingRequests(j)
      PROVE  EmbeddingInv'
  <2>1. CASE \E mode \in ExecutionModes : CreateEmbeddingJob(j, mode)
    BY <2>1, CreateEmbeddingJobKeeps
  <2>2. CASE BeginCancelEmbedding(j)
    BY <2>2, EmbeddingRowsHold, RowsStay DEF BeginCancelEmbedding
  <2>3. CASE WriteCancelEmbedding(j)
    BY <2>3, WriteCancelEmbeddingKeeps
  <2>4. CASE \E refused \in BOOLEAN : StopEmbedding(j, refused)
    BY <2>4, EmbeddingRowsHold, RowsStay DEF StopEmbedding
  <2>5. CASE \E refused \in BOOLEAN : CancelVoyageBatches(j, refused)
    BY <2>5, CancelVoyageBatchesKeeps
  <2> QED BY <1>3, <2>1, <2>2, <2>3, <2>4, <2>5 DEF EmbeddingRequests
<1>4. ASSUME NEW j \in EmbeddingJobs, JobFlow(j)
      PROVE  EmbeddingInv'
  BY <1>4, BeginPlanKeeps, WritePlanKeeps, EnqueueBatchesKeeps, AwaitBatchKeeps, IndexJobKeeps,
     BeginCompleteKeeps, WriteCompleteKeeps, BeginFailKeeps, WriteFailKeeps DEF JobFlow
<1>5. ASSUME NEW j \in EmbeddingJobs, EmbeddingFaults(j)
      PROVE  EmbeddingInv'
  BY <1>5, JobStepFailsKeeps, JobWorkerRestartsKeeps, CreateBatchKeeps, BatchStepRestartsKeeps,
     BatchStepFailsKeeps DEF EmbeddingFaults
<1>6. ASSUME NEW j \in EmbeddingJobs, NEW n \in Numbers, BatchFlow(j, n)
      PROVE  EmbeddingInv'
  BY <1>6, BeginProcessKeeps, CommitBatchKeeps, EmbedDocumentKeeps, BeginSubmitKeeps, CreateBatchKeeps,
     RecordBatchKeeps, PollBatchKeeps, BeginFinalizeKeeps DEF BatchFlow
<1>7. ASSUME NEW j \in EmbeddingJobs, NEW n \in Numbers, ProviderWorks(j, n)
      PROVE  EmbeddingInv'
  BY <1>7, ProviderEndsKeeps DEF ProviderWorks
<1> QED BY <1>1, <1>2, <1>3, <1>4, <1>5, <1>6, <1>7 DEF EmbeddingNext

\* The invariant of the embedding of a matter's documents: where each job and each of its batches
\* are, what a batch holds and has handed to the provider, and what was counted.
THEOREM EmbeddingInvariant == EmbeddingSpec => []EmbeddingInv
<1>1. EmbeddingInit => EmbeddingInv
  BY EmbeddingStarts
<1>2. EmbeddingInv /\ [EmbeddingNext]_embeddingVars => EmbeddingInv'
  BY EmbeddingStep
<1> QED BY <1>1, <1>2, PTL DEF EmbeddingSpec


\* A field of the counts of a job's batches.
Column(j, field) == [n \in 1..embedJob[j].batches |-> embedBatch[j][n].counts[field]]

\* Tallies of the shares of a job with b batches.
SharesTallied(total, b, p, e, s, f, V) ==
  /\ total \in Nat /\ total <= MaxDocuments /\ b = (total + EmbeddingBatchSize - 1) \div EmbeddingBatchSize
  /\ p \in [1..b -> Nat] /\ e \in [1..b -> Nat] /\ s \in [1..b -> Nat] /\ f \in [1..b -> Nat]
  /\ \A n \in 1..b : p[n] = Cardinality(Share(total, n))
  /\ \A n \in 1..b : p[n] = e[n] + s[n] + f[n]
  /\ \A n \in 1..b : Cardinality(Share(total, n) \ V) <= f[n]

\* They add up to a tally of its documents.
LEMMA SharesAddUp ==
  ASSUME NEW total, NEW b, NEW p, NEW e, NEW s, NEW f, NEW V, SharesTallied(total, b, p, e, s, f, V)
  PROVE  /\ SumTo(p, b) = total
         /\ SumTo(p, b) = SumTo(e, b) + SumTo(s, b) + SumTo(f, b)
         /\ Cardinality((1..total) \ V) <= SumTo(f, b)
<1> USE DEF SharesTallied
<1>1. /\ b \in Nat /\ b <= MaxDocuments
      /\ \A n \in Numbers : Share(total, n) \subseteq Numbers
      /\ \A m, n \in Numbers : m # n => Share(total, m) \cap Share(total, n) = {}
      /\ \A d \in 1..total : \E n \in 1..b : d \in Share(total, n)
  BY Shares
<1>2. \A n \in 1..b : n \in Numbers
  BY <1>1, EmbeddingAssumption DEF Numbers
<1>3. PICK S : \A n \in 1..b : S[n] = Share(total, n)
  <2>1. \A n \in 1..b : [k \in 1..b |-> Share(total, k)][n] = Share(total, n)
    OBVIOUS
  <2> QED BY <2>1
<1>4. \A n \in 1..b : IsFiniteSet(S[n])
  <2>1. \A n \in 1..b : S[n] \in SUBSET Numbers
    BY <1>1, <1>2, <1>3
  <2> QED BY <2>1, FiniteDocuments
<1>5. \A m, n \in 1..b : m # n => S[m] \cap S[n] = {}
  <2> SUFFICES ASSUME NEW m \in 1..b, NEW n \in 1..b, m # n
               PROVE  S[m] \cap S[n] = {}
    OBVIOUS
  <2>1. Share(total, m) \cap Share(total, n) = {}
    BY <1>1, <1>2
  <2> QED BY <1>3, <2>1
<1>6. 1..total = UNION {S[n] : n \in 1..b}
  <2>1. ASSUME NEW d \in 1..total PROVE \E n \in 1..b : d \in S[n]
    <3>1. PICK n \in 1..b : d \in Share(total, n)
      BY <1>1
    <3> QED BY <1>3, <3>1
  <2>2. ASSUME NEW n \in 1..b, NEW d \in S[n] PROVE d \in 1..total
    <3>1. d \in Share(total, n)
      BY <1>3
    <3> QED BY <3>1 DEF Share
  <2>3. \A d : d \in UNION {S[n] : n \in 1..b} <=> d \in 1..total
    BY <2>1, <2>2
  <2> QED BY <2>3
<1>7. /\ \A n \in 1..b : p[n] = Cardinality(S[n])
      /\ \A n \in 1..b : Cardinality(S[n] \ V) <= f[n]
  BY <1>3
<1>8. PICK U : U = 1..total /\ U = UNION {S[n] : n \in 1..b}
  BY <1>6
<1>11. TalliesOf(U, S, b, p, e, s, f, V)
  BY <1>4, <1>5, <1>7, <1>8 DEF TalliesOf
<1>9. /\ SumTo(p, b) = Cardinality(U)
      /\ SumTo(p, b) = SumTo(e, b) + SumTo(s, b) + SumTo(f, b)
      /\ Cardinality(U \ V) <= SumTo(f, b)
  BY <1>1, <1>11, TalliesAddUp
<1>10. Cardinality(1..total) = total
  BY FS_Interval
<1> QED BY <1>8, <1>9, <1>10

\* What the counts of a job add up to: its documents, and at least those without vectors as failed.
LEMMA SumsAreWhole ==
  ASSUME EmbeddingInv, NEW j \in EmbeddingJobs, Finished(j)
  PROVE  /\ Sums(j).processed = embedJob[j].total
         /\ Sums(j).processed = Sums(j).embedded + Sums(j).skipped + Sums(j).failed
         /\ Cardinality((1..embedJob[j].total) \ vectors) <= Sums(j).failed
         /\ UNION {embedBatch[j][n].documents : n \in Numbers} = 1..embedJob[j].total
<1>1. PICK total \in Nat, batches \in Nat : total = embedJob[j].total /\ batches = embedJob[j].batches
  BY EmbeddingRowsHold DEF EmbedJobRows
<1>2. /\ batches = (total + EmbeddingBatchSize - 1) \div EmbeddingBatchSize /\ total <= MaxDocuments
      /\ embedBatch[j] \in [Numbers -> EmbedBatchRows]
  BY <1>1, EmbeddingRowsHold DEF JobOK
<1>3. /\ batches <= MaxDocuments
      /\ \A n \in Numbers : Share(total, n) \subseteq Numbers
      /\ \A m, n \in Numbers : m # n => Share(total, m) \cap Share(total, n) = {}
      /\ \A d \in 1..total : \E n \in 1..batches : d \in Share(total, n)
  BY <1>2, Shares
<1>4. \A n \in 1..batches : n \in Numbers /\ n <= batches
  BY <1>3, EmbeddingAssumption DEF Numbers
<1>5. ASSUME NEW n \in 1..batches
      PROVE  /\ embedBatch[j][n].counts \in TallyRows
             /\ Dealt(embedBatch[j][n].counts, Share(total, n))
  <2>1. n \in Numbers /\ BatchOK(j, n) /\ embedBatch[j][n].status = "COMPLETED"
    BY <1>1, <1>4, BatchRows DEF Finished
  <2>2. embedBatch[j][n].documents = Share(total, n)
    BY <1>1, <1>4, <2>1 DEF BatchOK, Given
  <2> QED BY <1>2, <2>1, <2>2 DEF BatchOK, Counts, EmbedBatchRows
<1>6. ASSUME NEW field \in {"processed", "embedded", "skipped", "failed"}
      PROVE  /\ Column(j, field) \in [1..batches -> Nat]
             /\ \A n \in 1..batches : Column(j, field)[n] = embedBatch[j][n].counts[field]
             /\ Sums(j)[field] = SumTo(Column(j, field), batches)
  <2>1. Column(j, field) \in [1..batches -> Nat]
    BY <1>1, <1>5 DEF Column, TallyRows
  <2>2. Sums(j)[field] = SumTo(Column(j, field), batches)
    BY <1>1 DEF Sums, Column, NoTally
  <2> QED BY <1>1, <2>1, <2>2 DEF Column
<1>7. PICK p \in [1..batches -> Nat], e \in [1..batches -> Nat], s \in [1..batches -> Nat],
           f \in [1..batches -> Nat] :
        /\ p = Column(j, "processed") /\ e = Column(j, "embedded")
        /\ s = Column(j, "skipped") /\ f = Column(j, "failed")
  BY <1>6
<1>8. ASSUME NEW n \in 1..batches
      PROVE  /\ p[n] = Cardinality(Share(total, n)) /\ p[n] = e[n] + s[n] + f[n]
             /\ Cardinality(Share(total, n) \ vectors) <= f[n]
  <2>1. /\ p[n] = embedBatch[j][n].counts.processed /\ e[n] = embedBatch[j][n].counts.embedded
        /\ s[n] = embedBatch[j][n].counts.skipped /\ f[n] = embedBatch[j][n].counts.failed
    BY <1>6, <1>7
  <2> QED BY <1>5, <2>1 DEF Dealt
<1>12. /\ SumTo(p, batches) = total
       /\ SumTo(p, batches) = SumTo(e, batches) + SumTo(s, batches) + SumTo(f, batches)
       /\ Cardinality((1..total) \ vectors) <= SumTo(f, batches)
  <2>1. PICK V : V = vectors
    OBVIOUS
  <2>2. /\ \A n \in 1..batches : p[n] = Cardinality(Share(total, n))
        /\ \A n \in 1..batches : p[n] = e[n] + s[n] + f[n]
        /\ \A n \in 1..batches : Cardinality(Share(total, n) \ V) <= f[n]
    BY <1>8, <2>1
  <2>3. /\ SumTo(p, batches) = total
        /\ SumTo(p, batches) = SumTo(e, batches) + SumTo(s, batches) + SumTo(f, batches)
        /\ Cardinality((1..total) \ V) <= SumTo(f, batches)
    <3>1. total <= MaxDocuments /\ batches = (total + EmbeddingBatchSize - 1) \div EmbeddingBatchSize
      BY <1>2
    <3>2. SharesTallied(total, batches, p, e, s, f, V)
      BY <2>2, <3>1 DEF SharesTallied
    <3> QED BY <3>2, SharesAddUp
  <2> QED BY <2>1, <2>3
<1>14. UNION {embedBatch[j][n].documents : n \in Numbers} = 1..total
  <2>1. ASSUME NEW n \in Numbers
        PROVE  \/ n \in 1..batches /\ embedBatch[j][n].documents = Share(total, n)
               \/ n \notin 1..batches /\ embedBatch[j][n].documents = {}
    <3>1. Given(j, n)
      BY BatchRows DEF BatchOK
    <3>2. n \in Nat /\ n > 0 /\ batches \in Nat
      BY EmbeddingAssumption DEF Numbers
    <3>3. CASE n <= batches
      BY <1>1, <3>1, <3>2, <3>3 DEF Given
    <3>4. CASE n > batches
      BY <1>1, <3>1, <3>2, <3>4 DEF Given
    <3> QED BY <3>2, <3>3, <3>4
  <2>2. \A n \in Numbers : embedBatch[j][n].documents \subseteq 1..total
    BY <2>1 DEF Share
  <2>3. ASSUME NEW d \in 1..total PROVE \E n \in Numbers : d \in embedBatch[j][n].documents
    <3>1. PICK n \in 1..batches : d \in Share(total, n)
      BY <1>3
    <3> QED BY <1>4, <2>1, <3>1
  <2>4. \A d : d \in UNION {embedBatch[j][n].documents : n \in Numbers} <=> d \in 1..total
    BY <2>2, <2>3
  <2> QED BY <2>4
<1> QED BY <1>1, <1>6, <1>7, <1>12, <1>14

\* However often a submission is tried and its answers are lost, the provider is given a batch
\* once, of documents that the batch holds.
THEOREM ProviderBatchOnce == EmbeddingSpec => []OneProviderBatch
<1>1. EmbeddingInv => OneProviderBatch
  BY DEF EmbeddingInv, BatchOK, Given, OneProviderBatch
<1> QED BY <1>1, EmbeddingInvariant, PTL

\* What the invariant says of a job that is completed.
LEMMA InvIsWhole == EmbeddingInv => CompletedJobIsWhole
<1> SUFFICES ASSUME EmbeddingInv, NEW j \in EmbeddingJobs, CompletedEmbedding(j)
             PROVE  /\ embedJob[j].counts.processed = embedJob[j].total
                    /\ embedJob[j].counts.processed =
                          embedJob[j].counts.embedded + embedJob[j].counts.skipped + embedJob[j].counts.failed
                    /\ Cardinality((UNION {embedBatch[j][n].documents : n \in Numbers}) \ vectors)
                          <= embedJob[j].counts.failed
                    /\ embedJob[j].status = "COMPLETED" =>
                          UNION {embedBatch[j][n].documents : n \in Numbers} \subseteq vectors
                    /\ \A n \in Numbers : embedBatch[j][n].providerStatus = "completed" => <<j, n>> \in usage
  BY DEF CompletedJobIsWhole, CompletedEmbedding
<1>1. JobOK(j) /\ Finished(j) /\ embedJob[j].counts = Sums(j) /\ embedJob[j].total \in Nat
  BY EmbeddingRowsHold DEF JobOK, Finished, EmbedJobRows
<1> PICK planned : planned = UNION {embedBatch[j][n].documents : n \in Numbers}
  OBVIOUS
<1>2. /\ Sums(j).processed = embedJob[j].total
      /\ Sums(j).processed = Sums(j).embedded + Sums(j).skipped + Sums(j).failed
      /\ Cardinality(planned \ vectors) <= Sums(j).failed
      /\ planned = 1..embedJob[j].total
  BY <1>1, SumsAreWhole
<1>3. embedJob[j].status = "COMPLETED" => planned \subseteq vectors
  <2> SUFFICES ASSUME embedJob[j].status = "COMPLETED" PROVE planned \ vectors = {}
    OBVIOUS
  <2>1. IsFiniteSet(planned \ vectors)
    <3>1. IsFiniteSet(1..embedJob[j].total)
      BY <1>1, FS_Interval
    <3> QED BY <1>2, <3>1, FS_Subset
  <2>2. Cardinality(planned \ vectors) \in Nat
    BY <2>1, FS_CardinalityType
  <2>3. Sums(j).failed = 0
    BY <1>1 DEF JobOK
  <2> QED BY <1>2, <2>1, <2>2, <2>3, FS_EmptySet
<1>4. ASSUME NEW n \in Numbers, embedBatch[j][n].providerStatus = "completed"
      PROVE  <<j, n>> \in usage
  <2>1. BatchOK(j, n) /\ embedBatch[j][n].submitted
    BY <1>4, BatchRows DEF BatchOK, Placed
  <2>2. batchFlow[j][n].pc # "none"
    BY <2>1 DEF BatchOK, Untouched
  <2>3. embedBatch[j][n].status = "COMPLETED"
    BY <1>1, <2>2, WorkingBatch DEF Finished
  <2> QED BY <2>1, <2>3 DEF BatchOK, Counts
<1> QED BY <1>1, <1>2, <1>3, <1>4

\* A job that says it is completed has counted each of its documents once, whatever was retried;
\* the vectors of those that it does not count as failed exist, and what the provider has answered
\* for its batches is in the ledger.
THEOREM CompletedEmbeddingIsWhole == EmbeddingSpec => []CompletedJobIsWhole
BY EmbeddingInvariant, InvIsWhole, PTL

-----------------------------------------------------------------------------
(***************************************************************************)
(* Topics: the invariant.                                                  *)
(***************************************************************************)

\* Counts, and the rows of the tables and of the workflows.
TopicTallies == [processed : Nat, assigned : Nat, outlier : Nat, failed : Nat]
\* The rows of the topic tables and of the workflows that serve them.
TopicJobRows ==
    [status : {"NONE"} \cup ActiveTopicStatuses \cup EndedTopicStatuses, documents : Nat, batches : Nat,
     approved : BOOLEAN, counts : TopicTallies]
TopicBatchRows ==
    [status : {"NONE", "QUEUED", "RUNNING", "COMPLETED", "CANCELED"}, documents : SUBSET TopicNumbers,
     counts : TopicTallies, metadataApplied : BOOLEAN]
DiscoveryRows ==
    [pc : {"none", "discover", "sample", "cluster", "proposed", "fail", "failWrite", "ended"},
     documents : Nat]
ApplicationRows ==
    [pc : {"none", "plan", "enqueue", "await", "complete", "fail", "failWrite", "ended"},
     batches : Nat, next : Nat, failed : Nat]
ApplyingSteps == {"none", "process", "apply", "index", "done", "error"}
TopicCancelRows ==
    [pc : {"idle", "write", "stop"}, previous : {"NONE"} \cup ActiveTopicStatuses, asked : BOOLEAN]

TopicRows ==
    /\ topicDocuments \in TopicNumbers
    /\ topicJob \in [TopicJobs -> TopicJobRows]
    /\ topicBatch \in [TopicJobs -> [TopicNumbers -> TopicBatchRows]]
    /\ discovery \in [TopicJobs -> DiscoveryRows]
    /\ application \in [TopicJobs -> ApplicationRows]
    /\ applying \in [TopicJobs -> [TopicNumbers -> ApplyingSteps]]
    /\ topicCancel \in [TopicJobs -> TopicCancelRows]
    /\ applied \in [TopicJobs -> [TopicNumbers -> Nat]]

\* The documents of batch n of a job that has these many.
TopicShare(total, n) == {d \in 1..total : (d - 1) \div TopicBatchSize = n - 1}

\* How many batches those are.
TopicShareCount(total) == (total + TopicBatchSize - 1) \div TopicBatchSize

\* What a batch is given: documents of no other batch, and a workflow once it is approved.
TopicBatchGiven(j, n) ==
    /\ n <= topicJob[j].batches => topicBatch[j][n].documents = TopicShare(topicJob[j].documents, n)
    /\ n > topicJob[j].batches =>
            /\ topicBatch[j][n].documents = {} /\ topicBatch[j][n].status = "NONE"
            /\ ~topicBatch[j][n].metadataApplied /\ applying[j][n] = "none"
    /\ applying[j][n] # "none" \/ topicBatch[j][n].metadataApplied => topicJob[j].approved

\* What a batch has done to its documents, and counted.
TopicBatchCounted(j, n) ==
    LET row == topicBatch[j][n]
    IN  /\ \A d \in row.documents : applied[j][d] <= IF row.metadataApplied THEN 1 ELSE 0
        /\ row.metadataApplied =>
                /\ row.counts.processed = Cardinality(row.documents)
                /\ row.counts.failed = Cardinality({d \in row.documents : applied[j][d] = 0})
        /\ applying[j][n] = "index" \/ row.status = "COMPLETED" => row.metadataApplied

\* Where the workflow of a batch is, and what its parent knows of it.
TopicBatchPlaced(j, n) ==
    /\ applying[j][n] = "done" /\ topicBatch[j][n].status # "COMPLETED" => topicCancel[j].asked
    /\ n < application[j].next => applying[j][n] = "done"

\* A topic batch that is as the table says.
TopicBatchOK(j, n) == TopicBatchGiven(j, n) /\ TopicBatchCounted(j, n) /\ TopicBatchPlaced(j, n)

\* A job whose workflow reported success.
CompletedTopics(j) == topicJob[j].status \in {"COMPLETED", "COMPLETED_WITH_ERRORS"}

\* Every batch has been awaited, and the counts of the job are their sums.
TopicsFinished(j) ==
    /\ application[j].batches = topicJob[j].batches /\ application[j].next > application[j].batches
    /\ topicJob[j].counts = TopicSums(j) /\ application[j].failed = TopicSums(j).failed

\* A job proposes topics once, and only then can be approved.
TopicJobProposed(j) ==
    /\ topicJob[j].documents <= MaxTopicDocuments
    /\ discovery[j].pc \in {"sample", "cluster"} =>
            /\ topicJob[j].batches = 0 /\ topicJob[j].documents = discovery[j].documents
            /\ discovery[j].documents > 0
    /\ topicJob[j].batches > 0 => topicJob[j].batches = TopicShareCount(topicJob[j].documents)
    /\ topicJob[j].batches = 0 => topicJob[j].status # "AWAITING_REVIEW" /\ ~topicJob[j].approved

\* Where the workflow of an application is.
TopicJobPlaced(j) ==
    /\ application[j].pc # "none" => topicJob[j].approved
    /\ application[j].pc = "none" => application[j].batches = 0 /\ application[j].next = 1
    /\ application[j].batches \in {0, topicJob[j].batches}
    /\ application[j].pc = "enqueue" => application[j].batches = topicJob[j].batches
    /\ application[j].pc \in {"await", "complete"} /\ ~topicCancel[j].asked =>
            application[j].batches = topicJob[j].batches
    /\ topicCancel[j].pc # "idle" \/ topicJob[j].status = "CANCELED" => topicCancel[j].asked
    /\ CompletedTopics(j) => application[j].pc = "ended"
    /\ CompletedTopics(j) => (topicJob[j].status = "COMPLETED" <=> application[j].failed = 0)
    /\ application[j].pc = "complete" \/ CompletedTopics(j) => topicCancel[j].asked \/ TopicsFinished(j)

\* Topics are only given to documents of batches that were applied.
AppliedInBatches(j) ==
    \A d \in TopicNumbers : applied[j][d] > 0 =>
        \E n \in TopicNumbers : d \in topicBatch[j][n].documents /\ topicBatch[j][n].metadataApplied

\* What every topic job's rows are, taken together.
TopicJobOK(j) == TopicJobProposed(j) /\ TopicJobPlaced(j) /\ AppliedInBatches(j)

\* The inductive invariant of the topic jobs.
TopicInv ==
    /\ TopicRows
    /\ \A j \in TopicJobs : TopicJobOK(j) /\ \A n \in TopicNumbers : TopicBatchOK(j, n)

(***************************************************************************)
(* Topics: rows, and steps that leave them alone.                          *)
(***************************************************************************)

\* What the invariant says of the variables.
LEMMA TopicRowsHold ==
  ASSUME TopicInv
  PROVE  /\ TopicRows
         /\ topicDocuments \in TopicNumbers
         /\ topicJob \in [TopicJobs -> TopicJobRows]
         /\ topicBatch \in [TopicJobs -> [TopicNumbers -> TopicBatchRows]]
         /\ discovery \in [TopicJobs -> DiscoveryRows]
         /\ application \in [TopicJobs -> ApplicationRows]
         /\ applying \in [TopicJobs -> [TopicNumbers -> ApplyingSteps]]
         /\ topicCancel \in [TopicJobs -> TopicCancelRows]
         /\ applied \in [TopicJobs -> [TopicNumbers -> Nat]]
         /\ \A j \in TopicJobs : TopicJobOK(j) /\ \A n \in TopicNumbers : TopicBatchOK(j, n)
  BY DEF TopicInv, TopicRows

\* There are finitely many documents.
LEMMA FiniteTopicDocuments ==
  ASSUME NEW S \in SUBSET TopicNumbers
  PROVE  IsFiniteSet(S) /\ Cardinality(S) \in Nat /\ Cardinality(S) <= MaxTopicDocuments
<1>1. IsFiniteSet(1..MaxTopicDocuments) /\ Cardinality(1..MaxTopicDocuments) = MaxTopicDocuments
  BY TopicAssumption, FS_Interval
<1>2. S \subseteq 1..MaxTopicDocuments
  BY DEF TopicNumbers
<1> QED BY <1>1, <1>2, FS_Subset, FS_CardinalityType

\* The batches of a job hold each of its documents once.
LEMMA TopicShares ==
  ASSUME NEW total \in Nat, total <= MaxTopicDocuments, NEW batches, batches = TopicShareCount(total)
  PROVE  /\ batches \in Nat /\ batches <= total /\ batches <= MaxTopicDocuments
         /\ total > 0 => batches > 0
         /\ \A n \in TopicNumbers : TopicShare(total, n) \subseteq TopicNumbers
         /\ \A m, n \in TopicNumbers : m # n => TopicShare(total, m) \cap TopicShare(total, n) = {}
         /\ \A d \in 1..total : \E n \in 1..batches : d \in TopicShare(total, n)
         /\ \A n \in TopicNumbers : TopicShare(total, n) # {} <=> n <= batches
<1>1. TopicBatchSize \in Nat \ {0} /\ MaxTopicDocuments \in Nat
  BY TopicAssumption
<1>2. batches = (total + TopicBatchSize - 1) \div TopicBatchSize
  BY DEF TopicShareCount
<1>3. batches \in Nat /\ batches <= total /\ (total > 0 => batches > 0)
  BY <1>1, <1>2, Z3
<1>4. \A n \in TopicNumbers : TopicShare(total, n) \subseteq TopicNumbers
  BY <1>1 DEF TopicShare, TopicNumbers
<1>5. \A m, n \in TopicNumbers : m # n => TopicShare(total, m) \cap TopicShare(total, n) = {}
  BY <1>1 DEF TopicShare, TopicNumbers
<1>6. ASSUME NEW d \in 1..total
      PROVE  \E n \in 1..batches : d \in TopicShare(total, n)
  <2>1. PICK q \in Nat : q = (d - 1) \div TopicBatchSize /\ q + 1 <= batches
    BY <1>1, <1>2, Z3
  <2>2. q + 1 \in 1..batches /\ (q + 1) - 1 = q
    BY <1>3, <2>1
  <2> QED BY <2>1, <2>2 DEF TopicShare
<1>7. ASSUME NEW n \in TopicNumbers
      PROVE  TopicShare(total, n) # {} <=> n <= batches
  <2>1. n \in Nat /\ n > 0
    BY <1>1 DEF TopicNumbers
  <2>2. ASSUME NEW d \in TopicShare(total, n)
        PROVE  n <= batches
    <3>1. d \in 1..total /\ (d - 1) \div TopicBatchSize = n - 1
      BY DEF TopicShare
    <3> QED BY <1>1, <1>2, <2>1, <3>1, Z3
  <2>3. ASSUME n <= batches
        PROVE  TopicShare(total, n) # {}
    <3>1. PICK d \in Nat : d = (n - 1) * TopicBatchSize + 1
      BY <1>1, <2>1
    <3>2. (n - 1) * TopicBatchSize + 1 <= total
      BY <1>1, <1>2, <2>1, <2>3, Z3
    <3>3. ((n - 1) * TopicBatchSize) \div TopicBatchSize = n - 1
      BY <1>1, <2>1, Z3
    <3>4. d \in 1..total /\ d - 1 = (n - 1) * TopicBatchSize
      BY <1>1, <2>1, <3>1, <3>2, Z3
    <3> QED BY <3>3, <3>4 DEF TopicShare
  <2> QED BY <2>2, <2>3
<1> QED BY <1>1, <1>3, <1>4, <1>5, <1>6, <1>7

\* The number of batches of a job.
LEMMA TopicBatchBound ==
  ASSUME TopicInv, NEW j \in TopicJobs
  PROVE  topicJob[j].batches \in Nat /\ topicJob[j].batches <= MaxTopicDocuments
<1>1. /\ topicJob[j].documents \in Nat /\ topicJob[j].batches \in Nat
      /\ TopicJobProposed(j)
  BY TopicRowsHold DEF TopicJobRows, TopicJobOK
<1>2. CASE topicJob[j].batches = 0
  BY <1>2, TopicAssumption
<1>3. CASE topicJob[j].batches > 0
  BY <1>1, <1>3, TopicShares DEF TopicJobProposed
<1> QED BY <1>1, <1>2, <1>3

\* Sums of counts that a step does not touch.
LEMMA TopicSumsStay ==
  ASSUME NEW j, topicBatch'[j] = topicBatch[j], topicJob'[j].batches = topicJob[j].batches
  PROVE  TopicSums(j)' = TopicSums(j)
  BY DEF TopicSums

\* A job whose rows a step does not touch.
LEMMA TopicJobStays ==
  ASSUME NEW j \in TopicJobs, TopicJobOK(j), topicJob'[j] = topicJob[j], discovery'[j] = discovery[j],
         application'[j] = application[j], topicCancel'[j] = topicCancel[j],
         topicBatch'[j] = topicBatch[j], applied'[j] = applied[j]
  PROVE  TopicJobOK(j)'
<1>1. TopicSums(j)' = TopicSums(j)
  BY TopicSumsStay
<1>2. TopicJobProposed(j)'
  BY DEF TopicJobOK, TopicJobProposed
<1>3. TopicJobPlaced(j)'
  <2>1. TopicsFinished(j)' <=> TopicsFinished(j)
    BY <1>1 DEF TopicsFinished
  <2> QED BY <2>1 DEF TopicJobOK, TopicJobPlaced, CompletedTopics
<1>4. AppliedInBatches(j)'
  BY DEF TopicJobOK, AppliedInBatches
<1> QED BY <1>2, <1>3, <1>4 DEF TopicJobOK

\* A batch whose rows a step does not touch.
LEMMA TopicBatchStays ==
  ASSUME NEW j \in TopicJobs, NEW n \in TopicNumbers, TopicBatchOK(j, n),
         topicBatch'[j][n] = topicBatch[j][n], applying'[j][n] = applying[j][n],
         \A d \in topicBatch[j][n].documents : applied'[j][d] = applied[j][d],
         topicJob'[j].batches = topicJob[j].batches,
         topicJob'[j].documents = topicJob[j].documents \/ ~(n <= topicJob[j].batches),
         topicJob[j].approved => topicJob'[j].approved,
         topicCancel[j].asked => topicCancel'[j].asked,
         n < application'[j].next => applying[j][n] = "done"
  PROVE  TopicBatchOK(j, n)'
<1>1. TopicBatchGiven(j, n)'
  BY DEF TopicBatchOK, TopicBatchGiven
<1>2. TopicBatchCounted(j, n)'
  <2>1. {d \in topicBatch[j][n].documents : applied'[j][d] = 0}
            = {d \in topicBatch[j][n].documents : applied[j][d] = 0}
    OBVIOUS
  <2> QED BY <2>1 DEF TopicBatchOK, TopicBatchCounted
<1>3. TopicBatchPlaced(j, n)'
  BY DEF TopicBatchOK, TopicBatchPlaced
<1> QED BY <1>1, <1>2, <1>3 DEF TopicBatchOK

\* A step of one job.
LEMMA OneTopicJobMoves ==
  ASSUME TopicInv, NEW j \in TopicJobs, topicDocuments' \in TopicNumbers,
         NEW job \in TopicJobRows, topicJob' = [topicJob EXCEPT ![j] = job],
         NEW s \in DiscoveryRows, discovery' = [discovery EXCEPT ![j] = s],
         NEW w \in ApplicationRows, application' = [application EXCEPT ![j] = w],
         NEW c \in TopicCancelRows, topicCancel' = [topicCancel EXCEPT ![j] = c],
         NEW bs \in [TopicNumbers -> TopicBatchRows], topicBatch' = [topicBatch EXCEPT ![j] = bs],
         NEW fs \in [TopicNumbers -> ApplyingSteps], applying' = [applying EXCEPT ![j] = fs],
         NEW ds \in [TopicNumbers -> Nat], applied' = [applied EXCEPT ![j] = ds],
         TopicJobOK(j)', \A n \in TopicNumbers : TopicBatchOK(j, n)'
  PROVE  TopicInv'
<1>1. TopicRows'
  BY TopicRowsHold DEF TopicRows
<1>2. ASSUME NEW k \in TopicJobs, k # j
      PROVE  TopicJobOK(k)' /\ \A n \in TopicNumbers : TopicBatchOK(k, n)'
  <2>1. /\ topicJob'[k] = topicJob[k] /\ discovery'[k] = discovery[k] /\ application'[k] = application[k]
        /\ topicCancel'[k] = topicCancel[k] /\ topicBatch'[k] = topicBatch[k]
        /\ applying'[k] = applying[k] /\ applied'[k] = applied[k]
    BY <1>2, TopicRowsHold
  <2>2. TopicJobOK(k)'
    BY <2>1, TopicRowsHold, TopicJobStays
  <2>3. ASSUME NEW n \in TopicNumbers
        PROVE  TopicBatchOK(k, n)'
    <3>1. TopicBatchOK(k, n) /\ (n < application[k].next => applying[k][n] = "done")
      BY TopicRowsHold DEF TopicBatchOK, TopicBatchPlaced
    <3> QED BY <2>1, <3>1, TopicBatchStays
  <2> QED BY <2>2, <2>3
<1>3. ASSUME NEW k \in TopicJobs
      PROVE  TopicJobOK(k)' /\ \A n \in TopicNumbers : TopicBatchOK(k, n)'
  BY <1>2
<1> QED BY <1>1, <1>3 DEF TopicInv

\* A step that changes no row.
LEMMA TopicRowsStay ==
  ASSUME TopicInv, topicDocuments' \in TopicNumbers,
         UNCHANGED <<topicJob, discovery, application, topicCancel, topicBatch, applying, applied>>
  PROVE  TopicInv'
<1>1. TopicRows'
  BY TopicRowsHold DEF TopicRows
<1>2. ASSUME NEW k \in TopicJobs
      PROVE  TopicJobOK(k)' /\ \A n \in TopicNumbers : TopicBatchOK(k, n)'
  <2>1. TopicJobOK(k)'
    BY TopicRowsHold, TopicJobStays
  <2>2. ASSUME NEW n \in TopicNumbers
        PROVE  TopicBatchOK(k, n)'
    <3>1. TopicBatchOK(k, n) /\ (n < application[k].next => applying[k][n] = "done")
      BY TopicRowsHold DEF TopicBatchOK, TopicBatchPlaced
    <3> QED BY <3>1, TopicBatchStays
  <2> QED BY <2>1, <2>2
<1> QED BY <1>1, <1>2 DEF TopicInv

\* A step of one job that leaves its batches alone.
LEMMA TopicFlowMoves ==
  ASSUME TopicInv, NEW j \in TopicJobs,
         NEW job \in TopicJobRows, topicJob' = [topicJob EXCEPT ![j] = job],
         NEW s \in DiscoveryRows, discovery' = [discovery EXCEPT ![j] = s],
         NEW w \in ApplicationRows, application' = [application EXCEPT ![j] = w],
         NEW c \in TopicCancelRows, topicCancel' = [topicCancel EXCEPT ![j] = c],
         UNCHANGED <<topicDocuments, topicBatch, applying, applied>>,
         job.batches = topicJob[j].batches,
         job.documents = topicJob[j].documents \/ topicJob[j].batches = 0,
         topicJob[j].approved => job.approved, topicCancel[j].asked => c.asked,
         \A n \in TopicNumbers : n < w.next => applying[j][n] = "done",
         TopicJobProposed(j)', TopicJobPlaced(j)'
  PROVE  TopicInv'
<1>1. /\ topicJob'[j] = job /\ application'[j] = w /\ topicCancel'[j] = c
      /\ topicBatch[j] \in [TopicNumbers -> TopicBatchRows]
      /\ topicBatch' = [topicBatch EXCEPT ![j] = topicBatch[j]]
      /\ applying[j] \in [TopicNumbers -> ApplyingSteps] /\ applying' = [applying EXCEPT ![j] = applying[j]]
      /\ applied[j] \in [TopicNumbers -> Nat] /\ applied' = [applied EXCEPT ![j] = applied[j]]
      /\ topicDocuments' \in TopicNumbers
  BY TopicRowsHold
<1>2. TopicJobOK(j)'
  BY TopicRowsHold DEF TopicJobOK, AppliedInBatches
<1>3. ASSUME NEW n \in TopicNumbers
      PROVE  TopicBatchOK(j, n)'
  <2>1. TopicBatchOK(j, n) /\ n \in Nat /\ n > 0
    BY TopicRowsHold, TopicAssumption DEF TopicNumbers
  <2>2. topicJob'[j].documents = topicJob[j].documents \/ ~(n <= topicJob[j].batches)
    BY <1>1, <2>1
  <2> QED BY <1>1, <2>1, <2>2, TopicBatchStays
<1> QED BY <1>1, <1>2, <1>3, OneTopicJobMoves

(***************************************************************************)
(* Topics: requests, and the workflow that discovers topics.               *)
(***************************************************************************)

\* A step that leaves the application and its batches alone.
LEMMA OutsideApplication ==
  ASSUME TopicInv, NEW j \in TopicJobs,
         NEW job \in TopicJobRows, topicJob' = [topicJob EXCEPT ![j] = job],
         NEW s \in DiscoveryRows, discovery' = [discovery EXCEPT ![j] = s],
         NEW c \in TopicCancelRows, topicCancel' = [topicCancel EXCEPT ![j] = c],
         UNCHANGED <<topicDocuments, application, topicBatch, applying, applied>>,
         job.batches = topicJob[j].batches, job.counts = topicJob[j].counts,
         job.documents = topicJob[j].documents \/ topicJob[j].batches = 0,
         topicJob[j].approved => job.approved, topicCancel[j].asked => c.asked,
         job.status = topicJob[j].status \/ job.status \notin {"COMPLETED", "COMPLETED_WITH_ERRORS"},
         c.pc # "idle" \/ job.status = "CANCELED" => c.asked,
         TopicJobProposed(j)'
  PROVE  TopicInv'
<1>1. /\ application[j] \in ApplicationRows /\ application' = [application EXCEPT ![j] = application[j]]
      /\ application'[j] = application[j] /\ topicBatch'[j] = topicBatch[j]
      /\ topicJob'[j] = job /\ topicCancel'[j] = c /\ TopicJobOK(j)
  BY TopicRowsHold
<1>2. \A n \in TopicNumbers : n < application[j].next => applying[j][n] = "done"
  BY TopicRowsHold DEF TopicBatchOK, TopicBatchPlaced
<1>3. TopicSums(j)' = TopicSums(j)
  BY <1>1, TopicSumsStay
<1>4. TopicsFinished(j)' <=> TopicsFinished(j)
  BY <1>1, <1>3 DEF TopicsFinished
<1>5. CompletedTopics(j)' => CompletedTopics(j) /\ job.status = topicJob[j].status
  BY <1>1 DEF CompletedTopics
<1>6. TopicJobPlaced(j)'
  BY <1>1, <1>4, <1>5 DEF TopicJobOK, TopicJobPlaced
<1> QED BY <1>1, <1>2, <1>6, TopicFlowMoves

\* The rows of a job that a step does not touch.
LEMMA TopicRowsOf ==
  ASSUME TopicInv, NEW j \in TopicJobs
  PROVE  /\ topicJob[j] \in TopicJobRows
         /\ topicJob' = topicJob => topicJob' = [topicJob EXCEPT ![j] = topicJob[j]]
         /\ discovery[j] \in DiscoveryRows
         /\ discovery' = discovery => discovery' = [discovery EXCEPT ![j] = discovery[j]]
         /\ application[j] \in ApplicationRows
         /\ application' = application => application' = [application EXCEPT ![j] = application[j]]
         /\ topicCancel[j] \in TopicCancelRows
         /\ topicCancel' = topicCancel => topicCancel' = [topicCancel EXCEPT ![j] = topicCancel[j]]
         /\ TopicJobProposed(j) /\ TopicJobPlaced(j)
  BY TopicRowsHold DEF TopicJobOK

\* The row of a job after its status is written.
LEMMA TopicJobRow ==
  ASSUME TopicInv, NEW j \in TopicJobs, NEW status \in ActiveTopicStatuses \cup EndedTopicStatuses,
         topicJob' = [topicJob EXCEPT ![j].status = status]
  PROVE  \E job \in TopicJobRows :
            /\ topicJob' = [topicJob EXCEPT ![j] = job] /\ topicJob'[j] = job /\ job.status = status
            /\ job.documents = topicJob[j].documents /\ job.batches = topicJob[j].batches
            /\ job.approved = topicJob[j].approved /\ job.counts = topicJob[j].counts
<1> DEFINE job == [topicJob[j] EXCEPT !.status = status]
<1>1. topicJob[j] \in TopicJobRows /\ topicJob \in [TopicJobs -> TopicJobRows]
  BY TopicRowsHold
<1>2. /\ job \in TopicJobRows /\ job.status = status
      /\ job.documents = topicJob[j].documents /\ job.batches = topicJob[j].batches
      /\ job.approved = topicJob[j].approved /\ job.counts = topicJob[j].counts
  BY <1>1 DEF TopicJobRows
<1>3. topicJob' = [topicJob EXCEPT ![j] = job]
  BY <1>1
<1> HIDE DEF job
<1>4. topicJob'[j] = job
  BY <1>1, <1>3
<1> QED BY <1>2, <1>3, <1>4

\* The row of a discovery after a move.
LEMMA DiscoveryRow ==
  ASSUME TopicInv, NEW j \in TopicJobs, NEW pc, DiscoveryGoto(j, pc),
         pc \in {"discover", "cluster", "proposed", "fail", "failWrite", "ended"}
  PROVE  \E s \in DiscoveryRows :
            /\ discovery' = [discovery EXCEPT ![j] = s] /\ discovery'[j] = s
            /\ s.pc = pc /\ s.documents = discovery[j].documents
<1> DEFINE s == [discovery[j] EXCEPT !.pc = pc]
<1>1. discovery[j] \in DiscoveryRows /\ discovery \in [TopicJobs -> DiscoveryRows]
  BY TopicRowsHold
<1>2. s \in DiscoveryRows /\ s.pc = pc /\ s.documents = discovery[j].documents
  BY <1>1 DEF DiscoveryRows
<1>3. discovery' = [discovery EXCEPT ![j] = s]
  BY <1>1 DEF DiscoveryGoto
<1> HIDE DEF s
<1>4. discovery'[j] = s
  BY <1>1, <1>3
<1> QED BY <1>2, <1>3, <1>4

\* A move of a discovery that writes nothing.
LEMMA DiscoveryGoes ==
  ASSUME TopicInv, NEW j \in TopicJobs, NEW pc, DiscoveryGoto(j, pc),
         pc \in {"discover", "proposed", "fail", "failWrite", "ended"},
         UNCHANGED <<topicDocuments, topicJob, application, topicCancel, topicBatch, applying, applied>>
  PROVE  TopicInv'
<1>1. PICK s \in DiscoveryRows :
            /\ discovery' = [discovery EXCEPT ![j] = s] /\ discovery'[j] = s
            /\ s.pc = pc /\ s.documents = discovery[j].documents
  BY DiscoveryRow
<1>2. TopicJobProposed(j)'
  BY <1>1, TopicRowsOf DEF TopicJobProposed
<1>3. topicCancel[j].pc # "idle" \/ topicJob[j].status = "CANCELED" => topicCancel[j].asked
  BY TopicRowsOf DEF TopicJobPlaced
<1> QED BY <1>1, <1>2, <1>3, TopicRowsOf, OutsideApplication

\* A move of a discovery that writes the job's status.
LEMMA DiscoveryWrites ==
  ASSUME TopicInv, NEW j \in TopicJobs, NEW pc, DiscoveryGoto(j, pc),
         NEW status \in {"QUEUED", "CLUSTERING", "AWAITING_REVIEW", "FAILED"},
         topicJob' = [topicJob EXCEPT ![j].status = status],
         pc \in {"discover", "cluster", "proposed", "fail", "ended"},
         pc = "cluster" => discovery[j].pc = "sample",
         status = "AWAITING_REVIEW" => topicJob[j].batches # 0,
         UNCHANGED <<topicDocuments, application, topicCancel, topicBatch, applying, applied>>
  PROVE  TopicInv'
<1>1. PICK s \in DiscoveryRows :
            /\ discovery' = [discovery EXCEPT ![j] = s] /\ discovery'[j] = s
            /\ s.pc = pc /\ s.documents = discovery[j].documents
  BY DiscoveryRow
<1>2. PICK job \in TopicJobRows :
            /\ topicJob' = [topicJob EXCEPT ![j] = job] /\ topicJob'[j] = job /\ job.status = status
            /\ job.documents = topicJob[j].documents /\ job.batches = topicJob[j].batches
            /\ job.approved = topicJob[j].approved /\ job.counts = topicJob[j].counts
  BY TopicJobRow DEF ActiveTopicStatuses, EndedTopicStatuses, DiscoveringStatuses
<1>3. TopicJobProposed(j)'
  BY ZenonT(60), <1>1, <1>2, TopicRowsOf DEF TopicJobProposed
<1>4. topicCancel[j].pc # "idle" \/ job.status = "CANCELED" => topicCancel[j].asked
  BY <1>2, TopicRowsOf DEF TopicJobPlaced
<1>5. /\ topicCancel[j] \in TopicCancelRows /\ topicCancel' = [topicCancel EXCEPT ![j] = topicCancel[j]]
      /\ job.status = topicJob[j].status \/ job.status \notin {"COMPLETED", "COMPLETED_WITH_ERRORS"}
      /\ topicJob[j].approved => job.approved
      /\ job.documents = topicJob[j].documents \/ topicJob[j].batches = 0
  BY <1>2, TopicRowsOf
<1>6. /\ discovery' = [discovery EXCEPT ![j] = s] /\ topicJob' = [topicJob EXCEPT ![j] = job]
      /\ job.batches = topicJob[j].batches /\ job.counts = topicJob[j].counts
  BY <1>1, <1>2
<1> QED BY <1>3, <1>4, <1>5, <1>6, OutsideApplication

\* A job is created.
LEMMA CreateTopicJobKeeps == ASSUME TopicInv, NEW j \in TopicJobs, CreateTopicJob(j) PROVE TopicInv'
<1>1. /\ DiscoveryGoto(j, "discover") /\ topicJob' = [topicJob EXCEPT ![j].status = "QUEUED"]
      /\ UNCHANGED <<topicDocuments, application, topicCancel, topicBatch, applying, applied>>
  BY DEF CreateTopicJob
<1> QED BY <1>1, DiscoveryWrites

\* The index has accepted the sampling.
LEMMA SampleKeeps == ASSUME TopicInv, NEW j \in TopicJobs, Sample(j) PROVE TopicInv'
<1>1. /\ DiscoveryGoto(j, "cluster") /\ topicJob' = [topicJob EXCEPT ![j].status = "CLUSTERING"]
      /\ UNCHANGED <<topicDocuments, application, topicCancel, topicBatch, applying, applied>>
      /\ discovery[j].pc = "sample"
  BY DEF Sample
<1> QED BY <1>1, DiscoveryWrites

\* The moves of a discovery that write nothing, and its failure.
LEMMA DiscoveryEndsKeeps ==
  ASSUME TopicInv, NEW j \in TopicJobs,
         \/ RecordDiscovery(j) \/ DiscoveryFails(j) \/ DiscoveryRestarts(j) \/ FailDiscovery(j)
         \/ WriteFailedDiscovery(j)
  PROVE  TopicInv'
<1>1. CASE RecordDiscovery(j)
  BY <1>1, DiscoveryGoes DEF RecordDiscovery
<1>2. CASE DiscoveryFails(j)
  BY <1>2, DiscoveryGoes DEF DiscoveryFails
<1>3. CASE DiscoveryRestarts(j)
  BY <1>3, DiscoveryGoes DEF DiscoveryRestarts
<1>4. CASE FailDiscovery(j)
  <2>1. DiscoveryGoto(j, "failWrite") \/ DiscoveryGoto(j, "ended")
    BY <1>4 DEF FailDiscovery
  <2> QED BY <1>4, <2>1, DiscoveryGoes DEF FailDiscovery
<1>5. CASE WriteFailedDiscovery(j)
  BY <1>5, DiscoveryWrites DEF WriteFailedDiscovery
<1> QED BY <1>1, <1>2, <1>3, <1>4, <1>5

\* The discovery starts: it samples the documents that the matter has unless it has proposed before.
LEMMA BeginDiscoveryKeeps == ASSUME TopicInv, NEW j \in TopicJobs, BeginDiscovery(j) PROVE TopicInv'
<1>1. UNCHANGED <<topicDocuments, application, topicCancel, topicBatch, applying, applied>>
  BY DEF BeginDiscovery
<1>2. CASE DiscoveryGoto(j, "ended") /\ UNCHANGED topicJob
  BY <1>1, <1>2, DiscoveryGoes
<1>3. CASE /\ topicJob[j].batches > 0 /\ DiscoveryGoto(j, "proposed")
           /\ topicJob' = [topicJob EXCEPT ![j].status = "AWAITING_REVIEW"]
  <2>1. topicJob[j].batches # 0
    BY <1>3, TopicBatchBound
  <2> QED BY <1>1, <1>3, <2>1, DiscoveryWrites
<1>4. CASE /\ topicJob[j].batches = 0
           /\ topicJob' = [topicJob EXCEPT ![j].status = "SAMPLING", ![j].documents = topicDocuments]
           /\ discovery' = [discovery EXCEPT ![j] = [pc |-> "sample", documents |-> topicDocuments]]
  <2> DEFINE job == [topicJob[j] EXCEPT !.status = "SAMPLING", !.documents = topicDocuments]
             s == [pc |-> "sample", documents |-> topicDocuments]
  <2>1. /\ topicJob \in [TopicJobs -> TopicJobRows] /\ discovery \in [TopicJobs -> DiscoveryRows]
        /\ topicDocuments \in Nat /\ topicDocuments > 0 /\ topicDocuments <= MaxTopicDocuments
    BY TopicRowsHold, TopicAssumption DEF TopicNumbers
  <2>2. /\ job \in TopicJobRows /\ job.status = "SAMPLING" /\ job.documents = topicDocuments
        /\ job.batches = topicJob[j].batches /\ job.approved = topicJob[j].approved
        /\ job.counts = topicJob[j].counts
    BY <2>1 DEF TopicJobRows, ActiveTopicStatuses, DiscoveringStatuses
  <2>3. topicJob' = [topicJob EXCEPT ![j] = job]
    BY <1>4, <2>1
  <2>4. s \in DiscoveryRows /\ s.pc = "sample" /\ s.documents = topicDocuments
    BY <2>1 DEF DiscoveryRows
  <2>5. discovery' = [discovery EXCEPT ![j] = s]
    BY <1>4
  <2> HIDE DEF job, s
  <2>6. topicJob'[j] = job /\ discovery'[j] = s
    BY <2>1, <2>3, <2>5
  <2>7. TopicJobProposed(j)'
    BY <1>4, <2>1, <2>2, <2>4, <2>6, TopicRowsOf DEF TopicJobProposed
  <2>8. topicCancel[j].pc # "idle" \/ job.status = "CANCELED" => topicCancel[j].asked
    BY <2>2, TopicRowsOf DEF TopicJobPlaced
  <2>9. /\ topicCancel[j] \in TopicCancelRows /\ topicCancel' = [topicCancel EXCEPT ![j] = topicCancel[j]]
        /\ job.status \notin {"COMPLETED", "COMPLETED_WITH_ERRORS"}
    BY <1>1, <2>2, TopicRowsOf
  <2> QED BY ZenonT(60), <1>1, <1>4, <2>2, <2>3, <2>4, <2>5, <2>7, <2>8, <2>9, OutsideApplication
<1> QED BY <1>2, <1>3, <1>4 DEF BeginDiscovery

\* A cancel request reads the status, writes its own and stops a workflow.
LEMMA CancelTopicsKeeps ==
  ASSUME TopicInv, NEW j \in TopicJobs, BeginCancelTopics(j) \/ WriteCancelTopics(j) \/ StopTopics(j)
  PROVE  TopicInv'
<1>1. UNCHANGED <<topicDocuments, discovery, application, topicBatch, applying, applied>>
  BY DEF BeginCancelTopics, WriteCancelTopics, StopTopics
<1>2. topicCancel \in [TopicJobs -> TopicCancelRows] /\ topicCancel[j] \in TopicCancelRows
  BY TopicRowsHold
<1>3. /\ topicCancel[j].pc # "idle" \/ topicJob[j].status = "CANCELED" => topicCancel[j].asked
      /\ topicJob' = topicJob => TopicJobProposed(j)'
  BY <1>1, TopicRowsOf DEF TopicJobPlaced, TopicJobProposed
<1>4. CASE BeginCancelTopics(j)
  <2> DEFINE c == [pc |-> "write", previous |-> topicJob[j].status, asked |-> TRUE]
  <2>1. c \in TopicCancelRows /\ c.asked
    BY <1>4 DEF BeginCancelTopics, TopicCancelRows
  <2>2. topicCancel' = [topicCancel EXCEPT ![j] = c] /\ UNCHANGED topicJob
    BY <1>4 DEF BeginCancelTopics
  <2> HIDE DEF c
  <2> QED BY <1>1, <1>3, <2>1, <2>2, TopicRowsOf, OutsideApplication
<1>5. CASE WriteCancelTopics(j)
  <2> DEFINE c == [topicCancel[j] EXCEPT !.pc = "stop"]
  <2>1. c \in TopicCancelRows /\ c.asked
    BY <1>2, <1>3, <1>5 DEF WriteCancelTopics, TopicCancelRows
  <2>2. topicCancel' = [topicCancel EXCEPT ![j] = c]
    BY <1>2, <1>5 DEF WriteCancelTopics
  <2> HIDE DEF c
  <2>3. PICK job \in TopicJobRows :
            /\ topicJob' = [topicJob EXCEPT ![j] = job] /\ topicJob'[j] = job /\ job.status = "CANCELED"
            /\ job.documents = topicJob[j].documents /\ job.batches = topicJob[j].batches
            /\ job.approved = topicJob[j].approved /\ job.counts = topicJob[j].counts
    <3>1. "CANCELED" \in ActiveTopicStatuses \cup EndedTopicStatuses
      BY DEF EndedTopicStatuses
    <3>2. topicJob' = [topicJob EXCEPT ![j].status = "CANCELED"]
      BY <1>5 DEF WriteCancelTopics
    <3> QED BY <3>1, <3>2, TopicJobRow
  <2>4. TopicJobProposed(j)'
    <3>1. TopicJobProposed(j) /\ discovery'[j] = discovery[j]
      BY <1>1, TopicRowsOf
    <3> QED BY <2>3, <3>1 DEF TopicJobProposed
  <2> QED BY <1>1, <2>1, <2>2, <2>3, <2>4, TopicRowsOf, OutsideApplication
<1>6. CASE StopTopics(j)
  <2> DEFINE c == [topicCancel[j] EXCEPT !.pc = "idle", !.previous = "NONE"]
  <2>1. c \in TopicCancelRows /\ c.pc = "idle" /\ c.asked = topicCancel[j].asked
    BY <1>2 DEF TopicCancelRows
  <2>2. topicCancel' = [topicCancel EXCEPT ![j] = c] /\ UNCHANGED topicJob
    BY <1>2, <1>6 DEF StopTopics
  <2> HIDE DEF c
  <2> QED BY <1>1, <1>3, <2>1, <2>2, TopicRowsOf, OutsideApplication
<1> QED BY <1>4, <1>5, <1>6

(***************************************************************************)
(* Topics: the workflow of the application.                                *)
(***************************************************************************)

\* A step of an application that leaves its batches alone.
LEMMA ApplicationMoves ==
  ASSUME TopicInv, NEW j \in TopicJobs,
         NEW job \in TopicJobRows, topicJob' = [topicJob EXCEPT ![j] = job],
         NEW w \in ApplicationRows, application' = [application EXCEPT ![j] = w],
         UNCHANGED <<topicDocuments, discovery, topicCancel, topicBatch, applying, applied>>,
         job.batches = topicJob[j].batches, job.documents = topicJob[j].documents,
         topicJob[j].approved => job.approved,
         job.approved => topicJob[j].approved \/ topicJob[j].status = "AWAITING_REVIEW",
         job.status = topicJob[j].status \/ job.status # "AWAITING_REVIEW",
         \A n \in TopicNumbers : n < w.next => applying[j][n] = "done",
         TopicJobPlaced(j)'
  PROVE  TopicInv'
<1>1. /\ topicJob'[j] = job /\ discovery[j] \in DiscoveryRows
      /\ discovery' = [discovery EXCEPT ![j] = discovery[j]] /\ topicCancel[j] \in TopicCancelRows
      /\ topicCancel' = [topicCancel EXCEPT ![j] = topicCancel[j]]
  BY TopicRowsHold
<1>2. TopicJobProposed(j)'
  <2>1. TopicJobProposed(j) /\ discovery'[j] = discovery[j]
    BY TopicRowsOf
  <2> QED BY <1>1, <2>1 DEF TopicJobProposed
<1> QED BY <1>1, <1>2, TopicFlowMoves

\* The batches before the next one have returned.
LEMMA TopicsAwaited ==
  ASSUME TopicInv, NEW j \in TopicJobs
  PROVE  \A n \in TopicNumbers : n < application[j].next => applying[j][n] = "done"
  BY TopicRowsHold DEF TopicBatchOK, TopicBatchPlaced

\* The row of an application after a move.
LEMMA ApplicationRow ==
  ASSUME TopicInv, NEW j \in TopicJobs, NEW pc, ApplicationGoto(j, pc),
         pc \in {"plan", "await", "fail", "failWrite", "ended"}
  PROVE  \E w \in ApplicationRows :
            /\ application' = [application EXCEPT ![j] = w] /\ application'[j] = w /\ w.pc = pc
            /\ w.batches = application[j].batches /\ w.next = application[j].next
            /\ w.failed = application[j].failed
<1> DEFINE w == [application[j] EXCEPT !.pc = pc]
<1>1. application[j] \in ApplicationRows /\ application \in [TopicJobs -> ApplicationRows]
  BY TopicRowsHold
<1>2. /\ w \in ApplicationRows /\ w.pc = pc /\ w.batches = application[j].batches
      /\ w.next = application[j].next /\ w.failed = application[j].failed
  BY <1>1 DEF ApplicationRows
<1>3. application' = [application EXCEPT ![j] = w]
  BY <1>1 DEF ApplicationGoto
<1> HIDE DEF w
<1>4. application'[j] = w
  BY <1>1, <1>3
<1> QED BY <1>2, <1>3, <1>4

\* A move of an application that has started and not ended.
LEMMA ApplicationGoes ==
  ASSUME TopicInv, NEW j \in TopicJobs, NEW pc, ApplicationGoto(j, pc),
         pc \in {"await", "fail", "failWrite", "ended"},
         application[j].pc \notin {"none", "ended"},
         pc = "await" /\ ~topicCancel[j].asked => application[j].batches = topicJob[j].batches,
         UNCHANGED <<topicDocuments, topicJob, discovery, topicCancel, topicBatch, applying, applied>>
  PROVE  TopicInv'
<1>1. PICK w \in ApplicationRows :
            /\ application' = [application EXCEPT ![j] = w] /\ application'[j] = w /\ w.pc = pc
            /\ w.batches = application[j].batches /\ w.next = application[j].next
            /\ w.failed = application[j].failed
  BY ApplicationRow
<1>2. TopicJobPlaced(j) /\ topicJob'[j] = topicJob[j] /\ topicCancel'[j] = topicCancel[j]
  BY TopicRowsOf
<1>3. ~CompletedTopics(j)'
  BY <1>2 DEF TopicJobPlaced, CompletedTopics
<1>4. TopicJobPlaced(j)'
  BY <1>1, <1>2, <1>3 DEF TopicJobPlaced
<1>5. \A n \in TopicNumbers : n < w.next => applying[j][n] = "done"
  BY <1>1, TopicsAwaited
<1>6. topicJob[j] \in TopicJobRows /\ topicJob' = [topicJob EXCEPT ![j] = topicJob[j]]
  BY TopicRowsOf
<1> QED BY <1>1, <1>4, <1>5, <1>6, ApplicationMoves

\* An application that writes the job's status.
LEMMA ApplicationWrites ==
  ASSUME TopicInv, NEW j \in TopicJobs, ApplicationGoto(j, "ended"),
         application[j].pc \notin {"none", "ended"},
         NEW status \in EndedTopicStatuses \ {"CANCELED"}, topicJob' = [topicJob EXCEPT ![j].status = status],
         status \in {"COMPLETED", "COMPLETED_WITH_ERRORS"} =>
            /\ application[j].pc = "complete"
            /\ status = IF application[j].failed > 0 THEN "COMPLETED_WITH_ERRORS" ELSE "COMPLETED",
         UNCHANGED <<topicDocuments, discovery, topicCancel, topicBatch, applying, applied>>
  PROVE  TopicInv'
<1>1. PICK w \in ApplicationRows :
            /\ application' = [application EXCEPT ![j] = w] /\ application'[j] = w /\ w.pc = "ended"
            /\ w.batches = application[j].batches /\ w.next = application[j].next
            /\ w.failed = application[j].failed
  BY ApplicationRow
<1>2. PICK job \in TopicJobRows :
            /\ topicJob' = [topicJob EXCEPT ![j] = job] /\ topicJob'[j] = job /\ job.status = status
            /\ job.documents = topicJob[j].documents /\ job.batches = topicJob[j].batches
            /\ job.approved = topicJob[j].approved /\ job.counts = topicJob[j].counts
  BY TopicJobRow
<1>3. /\ TopicJobPlaced(j) /\ topicCancel'[j] = topicCancel[j] /\ topicBatch'[j] = topicBatch[j]
      /\ application[j].failed \in Nat
  BY TopicRowsOf DEF ApplicationRows
<1>4. TopicSums(j)' = TopicSums(j)
  BY <1>2, <1>3, TopicSumsStay
<1>5. TopicsFinished(j)' <=> TopicsFinished(j)
  BY <1>1, <1>2, <1>4 DEF TopicsFinished
<1>6. CompletedTopics(j)' <=> status \in {"COMPLETED", "COMPLETED_WITH_ERRORS"}
  BY <1>2 DEF CompletedTopics
<1>7. TopicJobPlaced(j)'
  BY <1>1, <1>2, <1>3, <1>5, <1>6 DEF TopicJobPlaced
<1>8. \A n \in TopicNumbers : n < w.next => applying[j][n] = "done"
  BY <1>1, TopicsAwaited
<1>9. job.status # "AWAITING_REVIEW" /\ topicJob' = [topicJob EXCEPT ![j] = job]
  BY <1>2 DEF EndedTopicStatuses
<1>10. /\ job.batches = topicJob[j].batches /\ job.documents = topicJob[j].documents
       /\ topicJob[j].approved => job.approved
       /\ job.approved => topicJob[j].approved \/ topicJob[j].status = "AWAITING_REVIEW"
  BY <1>2
<1>11. application' = [application EXCEPT ![j] = w]
  BY <1>1
<1> QED BY <1>7, <1>8, <1>9, <1>10, <1>11, ApplicationMoves

\* The job has counted its batches, or its application has failed.
LEMMA ApplicationEndsKeeps ==
  ASSUME TopicInv, NEW j \in TopicJobs, WriteCompleteTopics(j) \/ WriteFailedApplication(j)
  PROVE  TopicInv'
<1>1. CASE WriteCompleteTopics(j)
  <2>1. PICK status \in EndedTopicStatuses \ {"CANCELED"} :
            /\ status = IF application[j].failed > 0 THEN "COMPLETED_WITH_ERRORS" ELSE "COMPLETED"
            /\ topicJob' = [topicJob EXCEPT ![j].status = status]
    <3>1. PICK status : /\ status = IF application[j].failed > 0 THEN "COMPLETED_WITH_ERRORS" ELSE "COMPLETED"
                        /\ topicJob' = [topicJob EXCEPT ![j].status = status]
      BY <1>1 DEF WriteCompleteTopics
    <3>2. status \in EndedTopicStatuses \ {"CANCELED"}
      BY <3>1 DEF EndedTopicStatuses
    <3> QED BY <3>1, <3>2
  <2> QED BY <1>1, <2>1, ApplicationWrites DEF WriteCompleteTopics
<1>2. CASE WriteFailedApplication(j)
  <2>1. PICK status \in EndedTopicStatuses \ {"CANCELED"} :
            /\ status = "FAILED" /\ topicJob' = [topicJob EXCEPT ![j].status = status]
    BY <1>2 DEF WriteFailedApplication, EndedTopicStatuses
  <2> QED BY <1>2, <2>1, ApplicationWrites DEF WriteFailedApplication
<1> QED BY <1>1, <1>2

\* The moves of an application that write nothing.
LEMMA ApplicationGoesKeeps ==
  ASSUME TopicInv, NEW j \in TopicJobs, FailApplication(j) \/ ApplicationFault(j)
  PROVE  TopicInv'
<1>1. UNCHANGED <<topicDocuments, topicJob, discovery, topicCancel, topicBatch, applying, applied>>
  BY DEF FailApplication, ApplicationFault
<1>2. CASE application[j].pc = "complete" /\ ApplicationGoto(j, "await")
  <2>1. ~topicCancel[j].asked => application[j].batches = topicJob[j].batches
    BY <1>2, TopicRowsOf DEF TopicJobPlaced
  <2> QED BY <1>1, <1>2, <2>1, ApplicationGoes
<1>3. ASSUME NEW pc \in {"fail", "failWrite", "ended"}, ApplicationGoto(j, pc),
             application[j].pc \notin {"none", "ended"}
      PROVE  TopicInv'
  BY <1>1, <1>3, ApplicationGoes
<1> QED BY <1>2, <1>3 DEF FailApplication, ApplicationFault, ApplicationStep

\* The topics are approved, once or again.
LEMMA ApproveTopicsKeeps == ASSUME TopicInv, NEW j \in TopicJobs, ApproveTopics(j) PROVE TopicInv'
<1> DEFINE job == [topicJob[j] EXCEPT !.status = "PUBLISHING", !.approved = TRUE]
           w == [application[j] EXCEPT !.pc = IF application[j].pc = "none" THEN "plan" ELSE application[j].pc]
<1>1. /\ topicJob[j] \in TopicJobRows /\ topicJob \in [TopicJobs -> TopicJobRows]
      /\ application[j] \in ApplicationRows /\ application \in [TopicJobs -> ApplicationRows]
  BY TopicRowsHold
<1>2. /\ UNCHANGED <<topicDocuments, discovery, topicCancel, topicBatch, applying, applied>>
      /\ topicJob[j].status = "AWAITING_REVIEW"
  BY DEF ApproveTopics
<1>3. /\ job \in TopicJobRows /\ job.status = "PUBLISHING" /\ job.approved
      /\ job.documents = topicJob[j].documents /\ job.batches = topicJob[j].batches
      /\ job.counts = topicJob[j].counts
  BY <1>1 DEF TopicJobRows, ActiveTopicStatuses
<1>4. /\ w \in ApplicationRows
      /\ w.pc = application[j].pc \/ (application[j].pc = "none" /\ w.pc = "plan")
      /\ w.batches = application[j].batches /\ w.next = application[j].next
      /\ w.failed = application[j].failed
  BY <1>1 DEF ApplicationRows
<1>5. topicJob' = [topicJob EXCEPT ![j] = job]
  BY <1>1 DEF ApproveTopics
<1>6. application' = [application EXCEPT ![j] = w]
  <2>1. CASE application[j].pc = "none"
    BY <1>1, <2>1 DEF ApproveTopics
  <2>2. CASE application[j].pc # "none"
    <3>1. w = application[j]
      BY <1>1, <2>2 DEF ApplicationRows
    <3> QED BY <1>1, <2>2, <3>1 DEF ApproveTopics
  <2> QED BY <2>1, <2>2
<1> HIDE DEF job, w
<1>7. /\ topicJob'[j] = job /\ application'[j] = w /\ topicCancel'[j] = topicCancel[j]
      /\ topicBatch'[j] = topicBatch[j] /\ TopicJobPlaced(j)
  BY <1>1, <1>2, <1>5, <1>6, TopicRowsOf
<1>8. TopicJobPlaced(j)'
  <2>1. TopicSums(j)' = TopicSums(j)
    BY <1>3, <1>7, TopicSumsStay
  <2>2. TopicsFinished(j)' <=> TopicsFinished(j)
    BY <1>3, <1>4, <1>7, <2>1 DEF TopicsFinished
  <2>3. ~CompletedTopics(j)'
    BY <1>3, <1>7 DEF CompletedTopics
  <2> QED BY <1>3, <1>4, <1>7, <2>2, <2>3 DEF TopicJobPlaced
<1>9. \A n \in TopicNumbers : n < w.next => applying[j][n] = "done"
  BY <1>4, TopicsAwaited
<1> QED BY <1>2, <1>3, <1>4, <1>5, <1>6, <1>8, <1>9, ApplicationMoves

\* The plan of an application: every batch of the job, if it is still being published.
LEMMA PlanApplicationKeeps == ASSUME TopicInv, NEW j \in TopicJobs, PlanApplication(j) PROVE TopicInv'
<1>1. /\ UNCHANGED <<topicDocuments, topicJob, discovery, topicCancel, topicBatch, applying, applied>>
      /\ application[j].pc = "plan"
  BY DEF PlanApplication, ApplicationStep
<1>2. CASE topicJob[j].status = "CANCELED"
  <2>1. topicCancel[j].asked
    BY <1>2, TopicRowsOf DEF TopicJobPlaced
  <2>2. ApplicationGoto(j, "await")
    BY <1>2 DEF PlanApplication
  <2> QED BY <1>1, <2>1, <2>2, ApplicationGoes
<1>3. CASE topicJob[j].status = "PUBLISHING"
  <2> DEFINE w == [application[j] EXCEPT !.pc = "enqueue", !.batches = topicJob[j].batches]
  <2>1. /\ application[j] \in ApplicationRows /\ application \in [TopicJobs -> ApplicationRows]
        /\ topicJob[j].batches \in Nat
    BY TopicRowsHold, TopicBatchBound
  <2>2. /\ w \in ApplicationRows /\ w.pc = "enqueue" /\ w.batches = topicJob[j].batches
        /\ w.next = application[j].next /\ w.failed = application[j].failed
    BY <2>1 DEF ApplicationRows
  <2>3. application' = [application EXCEPT ![j] = w]
    BY <1>3, <2>1 DEF PlanApplication
  <2> HIDE DEF w
  <2>4. /\ application'[j] = w /\ topicJob'[j] = topicJob[j] /\ topicCancel'[j] = topicCancel[j]
        /\ TopicJobPlaced(j)
    BY <1>1, <2>1, <2>3, TopicRowsOf
  <2>5. TopicJobPlaced(j)'
    <3>1. ~CompletedTopics(j)'
      BY <1>3, <2>4 DEF CompletedTopics
    <3> QED BY <1>1, <1>3, <2>2, <2>4, <3>1 DEF TopicJobPlaced
  <2>6. \A n \in TopicNumbers : n < w.next => applying[j][n] = "done"
    BY <2>2, TopicsAwaited
  <2>7. topicJob[j] \in TopicJobRows /\ topicJob' = [topicJob EXCEPT ![j] = topicJob[j]]
    BY <1>1, TopicRowsOf
  <2> QED BY <1>1, <2>2, <2>3, <2>5, <2>6, <2>7, ApplicationMoves
<1>4. CASE topicJob[j].status \notin {"CANCELED", "PUBLISHING"}
  <2>1. ApplicationGoto(j, "fail")
    BY <1>4 DEF PlanApplication
  <2> QED BY <1>1, <2>1, ApplicationGoes
<1> QED BY <1>2, <1>3, <1>4

\* The sums of the counts are counts.
LEMMA TopicSumsType ==
  ASSUME TopicInv, NEW j \in TopicJobs
  PROVE  TopicSums(j) \in TopicTallies
<1>1. /\ topicBatch[j] \in [TopicNumbers -> TopicBatchRows]
      /\ topicJob[j].batches \in Nat /\ topicJob[j].batches <= MaxTopicDocuments
  BY TopicRowsHold, TopicBatchBound
<1>2. \A n \in 1..topicJob[j].batches : topicBatch[j][n].counts \in TopicTallies
  <2>1. \A n \in 1..topicJob[j].batches : n \in TopicNumbers
    BY <1>1, TopicAssumption DEF TopicNumbers
  <2> QED BY <1>1, <2>1 DEF TopicBatchRows
<1>3. ASSUME NEW field \in {"processed", "assigned", "outlier", "failed"}
      PROVE  TopicSums(j)[field] \in Nat
  <2> DEFINE f == [n \in 1..topicJob[j].batches |-> topicBatch[j][n].counts[field]]
  <2>1. f \in [1..topicJob[j].batches -> Nat]
    BY <1>2 DEF TopicTallies
  <2>2. TopicSums(j)[field] = SumTo(f, topicJob[j].batches)
    BY DEF TopicSums, NoCounts
  <2> HIDE DEF f
  <2> QED BY <1>1, <2>1, <2>2, SumType
<1> PICK g : g = TopicSums(j)
  OBVIOUS
<1>4. g = [field \in {"processed", "assigned", "outlier", "failed"} |-> TopicSums(j)[field]]
  BY DEF TopicSums, NoCounts
<1>5. g = [processed |-> g.processed, assigned |-> g.assigned, outlier |-> g.outlier, failed |-> g.failed]
  BY <1>4
<1> QED BY <1>3, <1>5 DEF TopicTallies

\* The counts of a job after its batches are summed.
LEMMA SummedTopicJobRow ==
  ASSUME TopicInv, NEW j \in TopicJobs, topicJob' = [topicJob EXCEPT ![j].counts = TopicSums(j)]
  PROVE  \E job \in TopicJobRows :
            /\ topicJob' = [topicJob EXCEPT ![j] = job] /\ topicJob'[j] = job
            /\ job.counts = TopicSums(j) /\ job.status = topicJob[j].status
            /\ job.documents = topicJob[j].documents /\ job.batches = topicJob[j].batches
            /\ job.approved = topicJob[j].approved
<1> PICK counts \in TopicTallies : counts = TopicSums(j)
  BY TopicSumsType
<1> DEFINE job == [topicJob[j] EXCEPT !.counts = counts]
<1>1. topicJob[j] \in TopicJobRows /\ topicJob \in [TopicJobs -> TopicJobRows]
  BY TopicRowsHold
<1>2. /\ job \in TopicJobRows /\ job.counts = counts /\ job.status = topicJob[j].status
      /\ job.documents = topicJob[j].documents /\ job.batches = topicJob[j].batches
      /\ job.approved = topicJob[j].approved
  BY <1>1 DEF TopicJobRows
<1>3. topicJob' = [topicJob EXCEPT ![j] = job]
  BY <1>1
<1> HIDE DEF job
<1>4. topicJob'[j] = job
  BY <1>1, <1>3
<1> QED BY <1>2, <1>3, <1>4

\* A step of an application that has started and not ended, and sums the counts of the batches.
LEMMA ApplicationSums ==
  ASSUME TopicInv, NEW j \in TopicJobs, topicJob' = [topicJob EXCEPT ![j].counts = TopicSums(j)],
         application[j].pc = "await", ~CompletedTopics(j),
         NEW w \in ApplicationRows, application' = [application EXCEPT ![j] = w],
         UNCHANGED <<topicDocuments, discovery, topicCancel, topicBatch, applying, applied>>,
         w.batches = application[j].batches, w.pc \in {"await", "complete", "ended"},
         w.pc = "complete" => w.next > w.batches /\ w.failed = TopicSums(j).failed,
         \A n \in TopicNumbers : n < w.next => applying[j][n] = "done"
  PROVE  TopicInv'
<1>1. PICK job \in TopicJobRows :
            /\ topicJob' = [topicJob EXCEPT ![j] = job] /\ topicJob'[j] = job
            /\ job.counts = TopicSums(j) /\ job.status = topicJob[j].status
            /\ job.documents = topicJob[j].documents /\ job.batches = topicJob[j].batches
            /\ job.approved = topicJob[j].approved
  BY SummedTopicJobRow
<1>2. /\ application'[j] = w /\ topicCancel'[j] = topicCancel[j] /\ topicBatch'[j] = topicBatch[j]
      /\ TopicJobPlaced(j)
  BY TopicRowsHold, TopicRowsOf
<1>3. TopicSums(j)' = TopicSums(j)
  BY <1>1, <1>2, TopicSumsStay
<1>4. ~CompletedTopics(j)'
  BY <1>1 DEF CompletedTopics
<1>5. w.pc = "complete" => topicCancel[j].asked \/ TopicsFinished(j)'
  BY <1>1, <1>2, <1>3 DEF TopicsFinished, TopicJobPlaced
<1>6. TopicJobPlaced(j)'
  BY <1>1, <1>2, <1>4, <1>5 DEF TopicJobPlaced
<1>7. /\ topicJob' = [topicJob EXCEPT ![j] = job]
      /\ job.batches = topicJob[j].batches /\ job.documents = topicJob[j].documents
      /\ topicJob[j].approved => job.approved
      /\ job.approved => topicJob[j].approved \/ topicJob[j].status = "AWAITING_REVIEW"
      /\ job.status = topicJob[j].status \/ job.status # "AWAITING_REVIEW"
  BY <1>1
<1> QED BY <1>6, <1>7, ApplicationMoves

\* The result of the next batch.
LEMMA AwaitTopicBatchKeeps == ASSUME TopicInv, NEW j \in TopicJobs, AwaitTopicBatch(j) PROVE TopicInv'
<1>1. /\ UNCHANGED <<topicDocuments, discovery, topicCancel, topicBatch, applying, applied>>
      /\ application[j].pc = "await" /\ TopicJobPlaced(j)
      /\ application[j] \in ApplicationRows /\ application \in [TopicJobs -> ApplicationRows]
  BY TopicRowsOf, TopicRowsHold DEF AwaitTopicBatch, ApplicationStep
<1>2. CASE ApplicationGoto(j, "fail") /\ UNCHANGED topicJob
  BY <1>1, <1>2, ApplicationGoes
<1>3. CASE /\ applying[j][application[j].next] = "done"
           /\ application' = [application EXCEPT ![j].next = application[j].next + 1]
           /\ topicJob' = [topicJob EXCEPT ![j].counts = TopicSums(j)]
  <2>1. PICK next \in Nat : next = application[j].next + 1
    BY <1>1 DEF ApplicationRows
  <2> DEFINE w == [application[j] EXCEPT !.next = next]
  <2>2. /\ w \in ApplicationRows /\ w.pc = "await" /\ w.batches = application[j].batches /\ w.next = next
    BY <1>1 DEF ApplicationRows
  <2>3. application' = [application EXCEPT ![j] = w]
    BY <1>1, <1>3, <2>1
  <2> HIDE DEF w
  <2>4. \A n \in TopicNumbers : n < w.next => applying[j][n] = "done"
    <3> SUFFICES ASSUME NEW n \in TopicNumbers, n < w.next
                 PROVE  applying[j][n] = "done"
      OBVIOUS
    <3>1. n \in Nat /\ application[j].next \in Nat
      BY <1>1, TopicAssumption DEF TopicNumbers, ApplicationRows
    <3>2. n < application[j].next \/ n = application[j].next
      BY <2>1, <2>2, <3>1
    <3> QED BY <1>3, <3>2, TopicsAwaited
  <2>5. ~CompletedTopics(j)
    BY <1>1 DEF TopicJobPlaced
  <2> QED BY <1>1, <1>3, <2>2, <2>3, <2>4, <2>5, ApplicationSums
<1> QED BY <1>2, <1>3 DEF AwaitTopicBatch

\* Every batch has returned.
LEMMA BeginCompleteTopicsKeeps ==
  ASSUME TopicInv, NEW j \in TopicJobs, BeginCompleteTopics(j)
  PROVE  TopicInv'
<1>1. /\ UNCHANGED <<topicDocuments, discovery, topicCancel, topicBatch, applying, applied>>
      /\ application[j].pc = "await" /\ TopicJobPlaced(j) /\ application[j].next > application[j].batches
      /\ application[j] \in ApplicationRows /\ application \in [TopicJobs -> ApplicationRows]
      /\ topicJob' = [topicJob EXCEPT ![j].counts = TopicSums(j)]
  BY TopicRowsOf, TopicRowsHold DEF BeginCompleteTopics, ApplicationStep
<1>2. PICK pc \in {"ended", "complete"}, failed \in Nat :
         /\ failed = TopicSums(j).failed
         /\ application' = [application EXCEPT ![j].pc = pc, ![j].failed = failed]
  <2>1. TopicSums(j).failed \in Nat
    BY TopicSumsType DEF TopicTallies
  <2> QED BY <2>1 DEF BeginCompleteTopics
<1> DEFINE w == [application[j] EXCEPT !.pc = pc, !.failed = failed]
<1>3. /\ w \in ApplicationRows /\ w.pc = pc /\ w.batches = application[j].batches
      /\ w.next = application[j].next /\ w.failed = failed
  BY <1>1 DEF ApplicationRows
<1>4. application' = [application EXCEPT ![j] = w]
  BY <1>1, <1>2
<1> HIDE DEF w
<1>5. ~CompletedTopics(j)
  BY <1>1 DEF TopicJobPlaced
<1>6. \A n \in TopicNumbers : n < w.next => applying[j][n] = "done"
  BY <1>3, TopicsAwaited
<1>7. /\ w.batches = application[j].batches /\ w.pc \in {"await", "complete", "ended"}
      /\ w.pc = "complete" => w.next > w.batches /\ w.failed = TopicSums(j).failed
  BY <1>1, <1>2, <1>3
<1>8. w \in ApplicationRows
  BY <1>3
<1> QED BY <1>1, <1>4, <1>5, <1>6, <1>7, <1>8, ApplicationSums

\* The workflows of the batches are put in their queue.
LEMMA EnqueueTopicBatchesKeeps ==
  ASSUME TopicInv, NEW j \in TopicJobs, EnqueueTopicBatches(j)
  PROVE  TopicInv'
<1>1. /\ UNCHANGED <<topicDocuments, topicJob, discovery, topicBatch, topicCancel, applied>>
      /\ ApplicationGoto(j, "await") /\ application[j].pc = "enqueue" /\ TopicJobPlaced(j)
      /\ applying \in [TopicJobs -> [TopicNumbers -> ApplyingSteps]]
  BY TopicRowsOf, TopicRowsHold DEF EnqueueTopicBatches, ApplicationStep
<1> DEFINE fs == [n \in TopicNumbers |->
                    IF n <= application[j].batches /\ applying[j][n] = "none" THEN "process" ELSE applying[j][n]]
<1>2. fs \in [TopicNumbers -> ApplyingSteps] /\ applying' = [applying EXCEPT ![j] = fs]
  BY <1>1 DEF EnqueueTopicBatches, ApplyingSteps
<1>3. \A n \in TopicNumbers :
         \/ fs[n] = applying[j][n]
         \/ fs[n] = "process" /\ applying[j][n] = "none" /\ n <= application[j].batches
  OBVIOUS
<1> HIDE DEF fs
<1>4. PICK w \in ApplicationRows :
            /\ application' = [application EXCEPT ![j] = w] /\ application'[j] = w /\ w.pc = "await"
            /\ w.batches = application[j].batches /\ w.next = application[j].next
            /\ w.failed = application[j].failed
  BY <1>1, ApplicationRow
<1>5. /\ topicJob'[j] = topicJob[j] /\ topicBatch'[j] = topicBatch[j] /\ topicCancel'[j] = topicCancel[j]
      /\ applied'[j] = applied[j] /\ applying'[j] = fs /\ TopicJobOK(j) /\ discovery'[j] = discovery[j]
  BY <1>1, <1>2, TopicRowsHold
<1>6. TopicJobOK(j)'
  <2>1. TopicJobProposed(j)' /\ AppliedInBatches(j)'
    BY <1>5 DEF TopicJobOK, TopicJobProposed, AppliedInBatches
  <2>2. ~CompletedTopics(j)'
    BY <1>1, <1>5 DEF TopicJobPlaced, CompletedTopics
  <2>3. TopicJobPlaced(j)'
    BY <1>1, <1>4, <1>5, <2>2 DEF TopicJobPlaced
  <2> QED BY <2>1, <2>3 DEF TopicJobOK
<1>7. ASSUME NEW n \in TopicNumbers
      PROVE  TopicBatchOK(j, n)'
  <2>1. TopicBatchOK(j, n) /\ n \in Nat /\ topicJob[j].batches \in Nat
    BY TopicRowsHold, TopicAssumption, TopicBatchBound DEF TopicNumbers
  <2>2. CASE fs[n] = applying[j][n]
    <3>1. n < application'[j].next => applying[j][n] = "done"
      BY <1>4, TopicsAwaited
    <3> QED BY <1>5, <2>1, <2>2, <3>1, TopicBatchStays
  <2>3. CASE fs[n] = "process" /\ applying[j][n] = "none" /\ n <= application[j].batches
    <3>1. n <= topicJob[j].batches /\ topicJob[j].approved
      BY <1>1, <2>3 DEF TopicJobPlaced
    <3>2. TopicBatchGiven(j, n)'
      BY <1>5, <2>1, <3>1 DEF TopicBatchOK, TopicBatchGiven
    <3>3. TopicBatchCounted(j, n)'
      BY <1>5, <2>1, <2>3 DEF TopicBatchOK, TopicBatchCounted
    <3>4. TopicBatchPlaced(j, n)'
      BY <1>4, <1>5, <2>1, <2>3 DEF TopicBatchOK, TopicBatchPlaced
    <3> QED BY <3>2, <3>3, <3>4 DEF TopicBatchOK
  <2> QED BY <1>3, <2>2, <2>3
<1>8. /\ topicJob[j] \in TopicJobRows /\ topicJob' = [topicJob EXCEPT ![j] = topicJob[j]]
      /\ discovery[j] \in DiscoveryRows /\ discovery' = [discovery EXCEPT ![j] = discovery[j]]
      /\ topicCancel[j] \in TopicCancelRows /\ topicCancel' = [topicCancel EXCEPT ![j] = topicCancel[j]]
      /\ topicBatch[j] \in [TopicNumbers -> TopicBatchRows]
      /\ topicBatch' = [topicBatch EXCEPT ![j] = topicBatch[j]]
      /\ applied[j] \in [TopicNumbers -> Nat] /\ applied' = [applied EXCEPT ![j] = applied[j]]
      /\ topicDocuments' \in TopicNumbers
  BY <1>1, TopicRowsHold
<1>9. w \in ApplicationRows /\ application' = [application EXCEPT ![j] = w]
  BY <1>4
<1>10. \A n \in TopicNumbers : TopicBatchOK(j, n)'
  BY <1>7
<1> QED BY <1>2, <1>6, <1>8, <1>9, <1>10, OneTopicJobMoves

(***************************************************************************)
(* Topics: the proposal of topics, and the batches.                        *)
(***************************************************************************)

\* The number of batches that are proposed.
LEMMA ProposedBatches ==
  ASSUME TopicInv, NEW j \in TopicJobs, discovery[j].pc = "cluster"
  PROVE  LET total == discovery[j].documents
         IN  /\ total \in Nat /\ total > 0 /\ total <= MaxTopicDocuments /\ total = topicJob[j].documents
             /\ Cardinality({n \in TopicNumbers : TopicSlice(j, n) # {}}) = TopicShareCount(total)
             /\ \A n \in TopicNumbers : TopicSlice(j, n) = TopicShare(total, n)
<1> PICK total : total = discovery[j].documents
  OBVIOUS
<1>1. total \in Nat /\ total > 0 /\ total <= MaxTopicDocuments /\ total = topicJob[j].documents
  <2>1. TopicJobProposed(j) /\ discovery[j] \in DiscoveryRows
    BY TopicRowsOf
  <2> QED BY <2>1 DEF TopicJobProposed, DiscoveryRows
<1>2. \A n \in TopicNumbers : TopicSlice(j, n) = TopicShare(total, n)
  BY DEF TopicSlice, TopicShare
<1>3. PICK batches : batches = TopicShareCount(total)
  OBVIOUS
<1>4. /\ batches \in Nat /\ batches <= MaxTopicDocuments
      /\ \A n \in TopicNumbers : TopicShare(total, n) # {} <=> n <= batches
  BY <1>1, <1>3, TopicShares
<1>5. {n \in TopicNumbers : TopicSlice(j, n) # {}} = 1..batches
  <2>1. \A n : n \in TopicNumbers /\ TopicSlice(j, n) # {} <=> n \in 1..batches
    <3>1. \A n : n \in TopicNumbers /\ n <= batches <=> n \in 1..batches
      BY <1>4, TopicAssumption DEF TopicNumbers
    <3> QED BY <1>2, <1>4, <3>1
  <2> QED BY <2>1
<1>6. Cardinality(1..batches) = batches
  <2>1. batches \in Nat
    BY <1>4
  <2> QED BY <2>1, FS_Interval
<1> QED BY <1>1, <1>2, <1>3, <1>5, <1>6

\* A job that has no batches has given topics to no document.
LEMMA NothingApplied ==
  ASSUME TopicInv, NEW j \in TopicJobs, topicJob[j].batches = 0
  PROVE  /\ \A d \in TopicNumbers : applied[j][d] = 0
         /\ \A n \in TopicNumbers :
                /\ topicBatch[j][n].documents = {} /\ ~topicBatch[j][n].metadataApplied
                /\ topicBatch[j][n].status = "NONE" /\ applying[j][n] = "none"
         /\ application[j].pc = "none" /\ application[j].batches = 0 /\ application[j].next = 1
         /\ ~topicJob[j].approved
<1>1. ASSUME NEW n \in TopicNumbers
      PROVE  /\ topicBatch[j][n].documents = {} /\ ~topicBatch[j][n].metadataApplied
             /\ topicBatch[j][n].status = "NONE" /\ applying[j][n] = "none"
  <2>1. n > topicJob[j].batches
    BY TopicAssumption DEF TopicNumbers
  <2> QED BY <2>1, TopicRowsHold DEF TopicBatchOK, TopicBatchGiven
<1>2. \A d \in TopicNumbers : applied[j][d] \in Nat /\ ~(applied[j][d] > 0)
  BY <1>1, TopicRowsHold DEF TopicJobOK, AppliedInBatches
<1> QED BY <1>1, <1>2, TopicRowsOf DEF TopicJobProposed, TopicJobPlaced

\* The topics are proposed: the documents that were loaded are shared between new batches.
LEMMA ProposeKeeps == ASSUME TopicInv, NEW j \in TopicJobs, Propose(j) PROVE TopicInv'
<1>1. PICK total : total = discovery[j].documents
  OBVIOUS
<1>2. /\ UNCHANGED <<topicDocuments, application, applying, topicCancel, applied>>
      /\ DiscoveryGoto(j, "proposed") /\ discovery[j].pc = "cluster"
  BY DEF Propose
<1>3. PICK batches : batches = TopicShareCount(total)
  OBVIOUS
<1>4. /\ total \in Nat /\ total > 0 /\ total <= MaxTopicDocuments /\ total = topicJob[j].documents
      /\ Cardinality({n \in TopicNumbers : TopicSlice(j, n) # {}}) = batches
      /\ \A n \in TopicNumbers : TopicSlice(j, n) = TopicShare(total, n)
  BY <1>1, <1>2, <1>3, ProposedBatches
<1>5. /\ batches \in Nat /\ batches > 0
      /\ \A n \in TopicNumbers : TopicShare(total, n) \subseteq TopicNumbers
      /\ \A n \in TopicNumbers : TopicShare(total, n) # {} <=> n <= batches
  BY <1>3, <1>4, TopicShares
<1>6. topicJob[j].batches = 0
  BY <1>2, TopicRowsOf DEF TopicJobProposed
<1>7. /\ \A d \in TopicNumbers : applied[j][d] = 0
      /\ \A n \in TopicNumbers :
            /\ topicBatch[j][n].documents = {} /\ ~topicBatch[j][n].metadataApplied
            /\ topicBatch[j][n].status = "NONE" /\ applying[j][n] = "none"
      /\ application[j].pc = "none" /\ application[j].batches = 0 /\ application[j].next = 1
      /\ ~topicJob[j].approved
  BY <1>6, NothingApplied
<1>8. PICK bs : /\ bs = [n \in TopicNumbers |->
                    IF TopicSlice(j, n) = {} THEN topicBatch[j][n]
                    ELSE [topicBatch[j][n] EXCEPT !.status = "QUEUED", !.documents = TopicSlice(j, n)]]
                /\ topicBatch' = [topicBatch EXCEPT ![j] = bs]
  BY TopicRowsHold DEF Propose
<1>9. topicBatch[j] \in [TopicNumbers -> TopicBatchRows] /\ topicBatch \in [TopicJobs -> [TopicNumbers -> TopicBatchRows]]
  BY TopicRowsHold
<1>10. ASSUME NEW n \in TopicNumbers
       PROVE  /\ bs[n] \in TopicBatchRows /\ ~bs[n].metadataApplied /\ bs[n].status # "COMPLETED"
              /\ n <= batches => bs[n].documents = TopicShare(total, n)
              /\ ~(n <= batches) => bs[n] = topicBatch[j][n]
  <2>1. CASE n <= batches
    <3>2. PICK slice \in SUBSET TopicNumbers : slice = TopicSlice(j, n) /\ slice = TopicShare(total, n)
      BY <1>4, <1>5
    <3> DEFINE row == [topicBatch[j][n] EXCEPT !.status = "QUEUED", !.documents = slice]
    <3>1. bs[n] = row
      BY <1>4, <1>5, <1>8, <2>1, <3>2
    <3>4. topicBatch[j][n] \in TopicBatchRows
      BY <1>9
    <3>3. /\ row \in TopicBatchRows /\ row.status = "QUEUED" /\ row.documents = slice
          /\ row.metadataApplied = topicBatch[j][n].metadataApplied
      BY <3>4 DEF TopicBatchRows
    <3> HIDE DEF row
    <3> QED BY <1>7, <2>1, <3>1, <3>2, <3>3
  <2>2. CASE ~(n <= batches)
    <3>1. bs[n] = topicBatch[j][n]
      BY <1>4, <1>5, <1>8, <2>2
    <3> QED BY <1>7, <1>9, <2>2, <3>1
  <2> QED BY <2>1, <2>2
<1>11. bs \in [TopicNumbers -> TopicBatchRows]
  BY <1>8, <1>10
<1> DEFINE job == [topicJob[j] EXCEPT !.status = "AWAITING_REVIEW", !.batches = batches]
<1>12. topicJob[j] \in TopicJobRows /\ topicJob \in [TopicJobs -> TopicJobRows]
  BY TopicRowsHold
<1>13. /\ job \in TopicJobRows /\ job.status = "AWAITING_REVIEW" /\ job.batches = batches
       /\ job.documents = total /\ job.approved = topicJob[j].approved
  BY <1>4, <1>5, <1>12 DEF TopicJobRows, ActiveTopicStatuses
<1>14. topicJob' = [topicJob EXCEPT ![j] = job]
  BY <1>4, <1>12 DEF Propose
<1> HIDE DEF job
<1>15. PICK s \in DiscoveryRows :
            /\ discovery' = [discovery EXCEPT ![j] = s] /\ discovery'[j] = s
            /\ s.pc = "proposed" /\ s.documents = discovery[j].documents
  BY <1>2, DiscoveryRow
<1>16. /\ topicJob'[j] = job /\ topicBatch'[j] = bs /\ application'[j] = application[j]
       /\ topicCancel'[j] = topicCancel[j] /\ applied'[j] = applied[j] /\ applying'[j] = applying[j]
  BY <1>2, <1>8, <1>9, <1>12, <1>14
<1>17. TopicJobOK(j)'
  <2>1. TopicJobProposed(j)'
    BY <1>3, <1>4, <1>5, <1>13, <1>15, <1>16 DEF TopicJobProposed
  <2>2. TopicJobPlaced(j)'
    <3>1. ~CompletedTopics(j)'
      BY <1>13, <1>16 DEF CompletedTopics
    <3>2. TopicJobPlaced(j)
      BY TopicRowsOf
    <3> QED BY <1>7, <1>13, <1>16, <3>1, <3>2 DEF TopicJobPlaced
  <2>3. AppliedInBatches(j)'
    BY <1>7, <1>16 DEF AppliedInBatches
  <2> QED BY <2>1, <2>2, <2>3 DEF TopicJobOK
<1>18. ASSUME NEW n \in TopicNumbers
       PROVE  TopicBatchOK(j, n)'
  <2>1. n \in Nat /\ n > 0
    BY TopicAssumption DEF TopicNumbers
  <2>2. TopicBatchGiven(j, n)'
    <3>1. CASE n <= batches
      BY <1>5, <1>7, <1>10, <1>13, <1>16, <2>1, <3>1 DEF TopicBatchGiven
    <3>2. CASE ~(n <= batches)
      BY <1>5, <1>7, <1>10, <1>13, <1>16, <2>1, <3>2 DEF TopicBatchGiven
    <3> QED BY <3>1, <3>2
  <2>3. TopicBatchCounted(j, n)'
    <3>1. bs[n].documents \subseteq TopicNumbers
      BY <1>10 DEF TopicBatchRows
    <3> QED BY <1>7, <1>10, <1>16, <3>1 DEF TopicBatchCounted
  <2>4. TopicBatchPlaced(j, n)'
    BY <1>7, <1>16, <2>1 DEF TopicBatchPlaced
  <2> QED BY <2>2, <2>3, <2>4 DEF TopicBatchOK
<1>19. /\ application[j] \in ApplicationRows /\ application' = [application EXCEPT ![j] = application[j]]
       /\ topicCancel[j] \in TopicCancelRows /\ topicCancel' = [topicCancel EXCEPT ![j] = topicCancel[j]]
       /\ applying[j] \in [TopicNumbers -> ApplyingSteps] /\ applying' = [applying EXCEPT ![j] = applying[j]]
       /\ applied[j] \in [TopicNumbers -> Nat] /\ applied' = [applied EXCEPT ![j] = applied[j]]
       /\ topicDocuments' \in TopicNumbers
  BY <1>2, TopicRowsHold
<1>20. /\ job \in TopicJobRows /\ topicJob' = [topicJob EXCEPT ![j] = job]
       /\ topicBatch' = [topicBatch EXCEPT ![j] = bs] /\ discovery' = [discovery EXCEPT ![j] = s]
  BY <1>8, <1>13, <1>14, <1>15
<1>21. \A n \in TopicNumbers : TopicBatchOK(j, n)'
  BY <1>18
<1> QED BY <1>11, <1>17, <1>19, <1>20, <1>21, OneTopicJobMoves

\* Two batches of a job share no document.
LEMMA TopicBatchesDisjoint ==
  ASSUME TopicInv, NEW j \in TopicJobs, NEW m \in TopicNumbers, NEW n \in TopicNumbers, m # n
  PROVE  topicBatch[j][m].documents \cap topicBatch[j][n].documents = {}
<1>1. PICK total \in Nat, batches \in Nat : total = topicJob[j].documents /\ batches = topicJob[j].batches
  BY TopicRowsHold DEF TopicJobRows
<1>2. /\ TopicBatchGiven(j, m) /\ TopicBatchGiven(j, n) /\ TopicJobProposed(j)
      /\ m \in Nat /\ n \in Nat /\ m > 0 /\ n > 0
  BY TopicRowsHold, TopicAssumption DEF TopicBatchOK, TopicJobOK, TopicNumbers
<1>3. CASE m <= batches /\ n <= batches
  <2>1. total <= MaxTopicDocuments
    BY <1>1, <1>2 DEF TopicJobProposed
  <2>2. TopicShare(total, m) \cap TopicShare(total, n) = {}
    BY <2>1, TopicShares
  <2> QED BY <1>1, <1>2, <1>3, <2>2 DEF TopicBatchGiven
<1>4. CASE m > batches \/ n > batches
  BY <1>1, <1>2, <1>4 DEF TopicBatchGiven
<1> QED BY <1>2, <1>3, <1>4

\* The workflows of a job's batches have returned when the job is counted.
LEMMA FinishedTopicsAreIdle ==
  ASSUME TopicInv, NEW j \in TopicJobs, NEW n \in TopicNumbers, TopicsFinished(j),
         applying[j][n] # "none"
  PROVE  applying[j][n] = "done"
<1>1. /\ TopicBatchOK(j, n) /\ application[j] \in ApplicationRows /\ topicJob[j].batches \in Nat
      /\ n \in Nat
  BY TopicRowsHold, TopicBatchBound, TopicAssumption DEF TopicNumbers
<1>2. n <= topicJob[j].batches
  BY <1>1 DEF TopicBatchOK, TopicBatchGiven
<1>3. n < application[j].next
  BY <1>1, <1>2 DEF TopicsFinished, ApplicationRows
<1> QED BY <1>3, TopicsAwaited

\* A step of one batch.
LEMMA OneTopicBatch ==
  ASSUME TopicInv, NEW j \in TopicJobs, NEW n \in TopicNumbers,
         UNCHANGED <<topicDocuments, topicJob, discovery, application, topicCancel>>,
         NEW b \in TopicBatchRows, topicBatch' = Put(topicBatch, j, n, b),
         NEW f \in ApplyingSteps, applying' = Put(applying, j, n, f),
         NEW ds \in [TopicNumbers -> Nat], applied' = [applied EXCEPT ![j] = ds],
         b.documents = topicBatch[j][n].documents,
         topicBatch[j][n].metadataApplied => b.metadataApplied,
         \A d \in TopicNumbers : \/ ds[d] = applied[j][d]
                                 \/ d \in b.documents /\ b.metadataApplied,
         b.counts = topicBatch[j][n].counts \/ applying[j][n] \notin {"none", "done"},
         TopicBatchOK(j, n)'
  PROVE  TopicInv'
<1> DEFINE bs == [topicBatch[j] EXCEPT ![n] = b]
           fs == [applying[j] EXCEPT ![n] = f]
<1>1. /\ topicBatch[j] \in [TopicNumbers -> TopicBatchRows]
      /\ topicBatch \in [TopicJobs -> [TopicNumbers -> TopicBatchRows]]
      /\ applying[j] \in [TopicNumbers -> ApplyingSteps]
      /\ applying \in [TopicJobs -> [TopicNumbers -> ApplyingSteps]]
      /\ applied \in [TopicJobs -> [TopicNumbers -> Nat]]
  BY TopicRowsHold
<1>2. /\ bs \in [TopicNumbers -> TopicBatchRows] /\ topicBatch' = [topicBatch EXCEPT ![j] = bs]
      /\ bs[n] = b /\ \A m \in TopicNumbers \ {n} : bs[m] = topicBatch[j][m]
  BY <1>1 DEF Put
<1>3. /\ fs \in [TopicNumbers -> ApplyingSteps] /\ applying' = [applying EXCEPT ![j] = fs]
      /\ fs[n] = f /\ \A m \in TopicNumbers \ {n} : fs[m] = applying[j][m]
  BY <1>1 DEF Put
<1> HIDE DEF bs, fs
<1>4. topicBatch'[j] = bs /\ applying'[j] = fs /\ applied'[j] = ds
  BY <1>1, <1>2, <1>3
<1>5. /\ topicJob[j] \in TopicJobRows /\ topicJob' = [topicJob EXCEPT ![j] = topicJob[j]]
      /\ discovery[j] \in DiscoveryRows /\ discovery' = [discovery EXCEPT ![j] = discovery[j]]
      /\ application[j] \in ApplicationRows /\ application' = [application EXCEPT ![j] = application[j]]
      /\ topicCancel[j] \in TopicCancelRows /\ topicCancel' = [topicCancel EXCEPT ![j] = topicCancel[j]]
      /\ topicDocuments' \in TopicNumbers
  BY TopicRowsHold
<1>6. /\ topicJob'[j] = topicJob[j] /\ discovery'[j] = discovery[j] /\ application'[j] = application[j]
      /\ topicCancel'[j] = topicCancel[j] /\ TopicJobOK(j)
  BY TopicRowsHold
<1>7. TopicJobOK(j)'
  <2>1. TopicJobProposed(j)'
    BY <1>6 DEF TopicJobOK, TopicJobProposed
  <2>2. TopicJobPlaced(j)'
    <3>1. TopicsFinished(j) => TopicsFinished(j)'
      <4> SUFFICES ASSUME TopicsFinished(j) PROVE TopicsFinished(j)'
        OBVIOUS
      <4>1. b.counts = topicBatch[j][n].counts
        BY FinishedTopicsAreIdle
      <4>2. \A m \in TopicNumbers : bs[m].counts = topicBatch[j][m].counts
        BY <1>2, <4>1
      <4>3. \A m \in 1..topicJob[j].batches : m \in TopicNumbers
        BY TopicBatchBound, TopicAssumption DEF TopicNumbers
      <4>4. TopicSums(j)' = TopicSums(j)
        BY <1>4, <1>6, <4>2, <4>3 DEF TopicSums
      <4> QED BY <1>6, <4>4 DEF TopicsFinished
    <3> QED BY <1>6, <3>1 DEF TopicJobOK, TopicJobPlaced, CompletedTopics
  <2>3. AppliedInBatches(j)'
    <3> SUFFICES ASSUME NEW d \in TopicNumbers, ds[d] > 0
                 PROVE  \E m \in TopicNumbers : d \in bs[m].documents /\ bs[m].metadataApplied
      BY <1>4 DEF AppliedInBatches
    <3>1. CASE ds[d] = applied[j][d]
      <4>1. PICK m \in TopicNumbers : d \in topicBatch[j][m].documents /\ topicBatch[j][m].metadataApplied
        BY <1>6, <3>1 DEF TopicJobOK, AppliedInBatches
      <4> QED BY <1>2, <4>1
    <3>2. CASE d \in b.documents /\ b.metadataApplied
      BY <1>2, <3>2
    <3> QED BY <3>1, <3>2
  <2> QED BY <2>1, <2>2, <2>3 DEF TopicJobOK
<1>8. ASSUME NEW m \in TopicNumbers
      PROVE  TopicBatchOK(j, m)'
  <2>1. CASE m = n
    BY <2>1
  <2>2. CASE m # n
    <3>1. topicBatch'[j][m] = topicBatch[j][m] /\ applying'[j][m] = applying[j][m]
      BY <1>2, <1>3, <1>4, <2>2
    <3>2. TopicBatchOK(j, m) /\ (m < application[j].next => applying[j][m] = "done")
      BY TopicRowsHold, TopicsAwaited
    <3>3. \A d \in topicBatch[j][m].documents : applied'[j][d] = applied[j][d]
      <4>1. topicBatch[j][m].documents \cap topicBatch[j][n].documents = {}
        BY <2>2, TopicBatchesDisjoint
      <4>2. topicBatch[j][m].documents \subseteq TopicNumbers
        BY <1>1 DEF TopicBatchRows
      <4> QED BY <1>4, <4>1, <4>2
    <3> QED BY <1>6, <3>1, <3>2, <3>3, TopicBatchStays
  <2> QED BY <2>1, <2>2
<1>9. \A m \in TopicNumbers : TopicBatchOK(j, m)'
  BY <1>8
<1> QED BY <1>2, <1>3, <1>5, <1>7, <1>9, OneTopicJobMoves

\* The rows of a batch, and what a step of it leaves.
LEMMA TopicBatchRow ==
  ASSUME TopicInv, NEW j \in TopicJobs, NEW n \in TopicNumbers
  PROVE  /\ topicBatch[j][n] \in TopicBatchRows
         /\ topicBatch' = topicBatch => topicBatch' = Put(topicBatch, j, n, topicBatch[j][n])
         /\ applying[j][n] \in ApplyingSteps
         /\ applied[j] \in [TopicNumbers -> Nat]
         /\ applied' = applied => applied' = [applied EXCEPT ![j] = applied[j]]
         /\ TopicBatchOK(j, n)
         /\ \A row : /\ Put(topicBatch, j, n, row)[j][n] = row
                     /\ Put(applying, j, n, row)[j][n] = row
<1>1. /\ topicBatch \in [TopicJobs -> [TopicNumbers -> TopicBatchRows]]
      /\ applying \in [TopicJobs -> [TopicNumbers -> ApplyingSteps]]
      /\ applied \in [TopicJobs -> [TopicNumbers -> Nat]] /\ TopicBatchOK(j, n)
  BY TopicRowsHold
<1> QED BY <1>1 DEF Put

\* The row of a batch after its status is written.
LEMMA TopicBatchStatus ==
  ASSUME TopicInv, NEW j \in TopicJobs, NEW n \in TopicNumbers,
         NEW status \in {"RUNNING", "COMPLETED", "CANCELED"},
         topicBatch' = [topicBatch EXCEPT ![j][n].status = status]
  PROVE  \E b \in TopicBatchRows :
            /\ topicBatch' = Put(topicBatch, j, n, b) /\ b.status = status
            /\ b.documents = topicBatch[j][n].documents /\ b.counts = topicBatch[j][n].counts
            /\ b.metadataApplied = topicBatch[j][n].metadataApplied
<1> DEFINE b == [topicBatch[j][n] EXCEPT !.status = status]
<1>1. /\ topicBatch \in [TopicJobs -> [TopicNumbers -> TopicBatchRows]]
      /\ topicBatch[j][n] \in TopicBatchRows
  BY TopicRowsHold
<1>2. /\ b \in TopicBatchRows /\ b.status = status
      /\ b.documents = topicBatch[j][n].documents /\ b.counts = topicBatch[j][n].counts
      /\ b.metadataApplied = topicBatch[j][n].metadataApplied
  BY <1>1 DEF TopicBatchRows
<1>3. topicBatch' = Put(topicBatch, j, n, b)
  BY <1>1 DEF Put
<1> QED BY <1>2, <1>3

\* A step of a batch that gives no topics.
LEMMA TopicBatchGoes ==
  ASSUME TopicInv, NEW j \in TopicJobs, NEW n \in TopicNumbers,
         UNCHANGED <<topicDocuments, topicJob, discovery, application, topicCancel, applied>>,
         NEW b \in TopicBatchRows, topicBatch' = Put(topicBatch, j, n, b),
         NEW pc \in {"process", "apply", "index", "done", "error"}, BatchTo(j, n, pc),
         b.documents = topicBatch[j][n].documents, b.counts = topicBatch[j][n].counts,
         b.metadataApplied = topicBatch[j][n].metadataApplied,
         applying[j][n] # "none",
         pc = "index" \/ b.status = "COMPLETED" => b.metadataApplied,
         pc = "done" /\ b.status # "COMPLETED" => topicCancel[j].asked,
         n < application[j].next => pc = "done"
  PROVE  TopicInv'
<1>1. applying' = Put(applying, j, n, pc) /\ pc \in ApplyingSteps
  BY DEF BatchTo, Put, ApplyingSteps
<1>2. /\ applied[j] \in [TopicNumbers -> Nat] /\ applied' = [applied EXCEPT ![j] = applied[j]]
      /\ TopicBatchOK(j, n) /\ topicJob[j].batches \in Nat /\ n \in Nat
  BY TopicBatchRow, TopicBatchBound, TopicAssumption DEF TopicNumbers
<1>3. topicBatch'[j][n] = b /\ applying'[j][n] = pc
  BY <1>1, TopicBatchRow
<1>4. TopicBatchGiven(j, n)'
  BY <1>2, <1>3 DEF TopicBatchOK, TopicBatchGiven
<1>5. TopicBatchCounted(j, n)'
  <2>1. applied'[j] = applied[j]
    OBVIOUS
  <2> QED BY ZenonT(60), <1>2, <1>3, <2>1 DEF TopicBatchOK, TopicBatchCounted
<1>6. TopicBatchPlaced(j, n)'
  BY <1>2, <1>3 DEF TopicBatchOK, TopicBatchPlaced
<1>7. TopicBatchOK(j, n)'
  BY <1>4, <1>5, <1>6 DEF TopicBatchOK
<1> QED BY <1>1, <1>2, <1>7, OneTopicBatch

\* A batch starts, or starts again: it has nothing left to do, is canceled, or applies its topics.
LEMMA BeginTopicBatchKeeps ==
  ASSUME TopicInv, NEW j \in TopicJobs, NEW n \in TopicNumbers, BeginTopicBatch(j, n)
  PROVE  TopicInv'
<1>1. /\ UNCHANGED <<topicDocuments, topicJob, discovery, application, topicCancel, applied>>
      /\ applying[j][n] = "process"
  BY DEF BeginTopicBatch
<1>2. /\ topicBatch[j][n] \in TopicBatchRows /\ TopicBatchOK(j, n)
      /\ topicBatch' = topicBatch => topicBatch' = Put(topicBatch, j, n, topicBatch[j][n])
      /\ ~(n < application[j].next)
  BY <1>1, TopicBatchRow DEF TopicBatchOK, TopicBatchPlaced
<1>3. CASE topicBatch[j][n].status = "COMPLETED" /\ BatchTo(j, n, "done") /\ UNCHANGED topicBatch
  <2>1. topicBatch[j][n].metadataApplied
    BY <1>2, <1>3 DEF TopicBatchOK, TopicBatchCounted
  <2> QED BY <1>1, <1>2, <1>3, <2>1, TopicBatchGoes
<1>4. CASE /\ topicJob[j].status = "CANCELED" /\ BatchTo(j, n, "done")
           /\ topicBatch' = [topicBatch EXCEPT ![j][n].status = "CANCELED"]
  <2>1. topicCancel[j].asked
    BY <1>4, TopicRowsOf DEF TopicJobPlaced
  <2>2. PICK b \in TopicBatchRows :
            /\ topicBatch' = Put(topicBatch, j, n, b) /\ b.status = "CANCELED"
            /\ b.documents = topicBatch[j][n].documents /\ b.counts = topicBatch[j][n].counts
            /\ b.metadataApplied = topicBatch[j][n].metadataApplied
    BY <1>4, TopicBatchStatus
  <2> QED BY <1>1, <1>2, <1>4, <2>1, <2>2, TopicBatchGoes
<1>5. CASE /\ BatchTo(j, n, "apply")
           /\ topicBatch' = [topicBatch EXCEPT ![j][n].status = "RUNNING"]
  <2>1. PICK b \in TopicBatchRows :
            /\ topicBatch' = Put(topicBatch, j, n, b) /\ b.status = "RUNNING"
            /\ b.documents = topicBatch[j][n].documents /\ b.counts = topicBatch[j][n].counts
            /\ b.metadataApplied = topicBatch[j][n].metadataApplied
    BY <1>5, TopicBatchStatus
  <2> QED BY <1>1, <1>2, <1>5, <2>1, TopicBatchGoes
<1> QED BY <1>3, <1>4, <1>5 DEF BeginTopicBatch

\* A batch whose values are committed is completed.
LEMMA IndexTopicBatchKeeps ==
  ASSUME TopicInv, NEW j \in TopicJobs, NEW n \in TopicNumbers, IndexTopicBatch(j, n)
  PROVE  TopicInv'
<1>1. /\ UNCHANGED <<topicDocuments, topicJob, discovery, application, topicCancel, applied>>
      /\ BatchTo(j, n, "done") /\ applying[j][n] \in {"index", "apply"}
      /\ topicBatch' = [topicBatch EXCEPT ![j][n].status = "COMPLETED"]
  BY DEF IndexTopicBatch
<1>2. topicBatch[j][n].metadataApplied
  BY TopicBatchRow DEF IndexTopicBatch, MustApply, TopicBatchOK, TopicBatchCounted
<1>3. PICK b \in TopicBatchRows :
            /\ topicBatch' = Put(topicBatch, j, n, b) /\ b.status = "COMPLETED"
            /\ b.documents = topicBatch[j][n].documents /\ b.counts = topicBatch[j][n].counts
            /\ b.metadataApplied = topicBatch[j][n].metadataApplied
  BY <1>1, TopicBatchStatus
<1> QED BY <1>1, <1>2, <1>3, TopicBatchGoes

\* A batch is tried again, or given up.
LEMMA TopicBatchFaultKeeps ==
  ASSUME TopicInv, NEW j \in TopicJobs, NEW n \in TopicNumbers, TopicBatchFault(j, n)
  PROVE  TopicInv'
<1>1. /\ UNCHANGED <<topicDocuments, topicJob, discovery, application, topicCancel, applied, topicBatch>>
      /\ applying[j][n] # "none"
  BY DEF TopicBatchFault
<1>2. ~(n < application[j].next)
  <2>1. n \in Nat /\ application[j].next \in Nat
    BY TopicRowsOf, TopicAssumption DEF TopicNumbers, ApplicationRows
  <2>2. applying[j][n] = "done" => application[j].next <= n
    BY DEF TopicBatchFault
  <2> QED BY <2>1, <2>2, TopicsAwaited
<1>3. /\ topicBatch[j][n] \in TopicBatchRows
      /\ topicBatch' = Put(topicBatch, j, n, topicBatch[j][n])
      /\ topicBatch[j][n].status = "COMPLETED" => topicBatch[j][n].metadataApplied
  BY <1>1, TopicBatchRow DEF TopicBatchOK, TopicBatchCounted
<1>4. CASE BatchTo(j, n, "process")
  BY <1>1, <1>2, <1>3, <1>4, TopicBatchGoes
<1>5. CASE BatchTo(j, n, "error")
  BY <1>1, <1>2, <1>3, <1>5, TopicBatchGoes
<1> QED BY <1>4, <1>5 DEF TopicBatchFault

\* What is left of a batch's documents.
LEMMA OutcomesCounted ==
  ASSUME NEW S \in SUBSET TopicNumbers, NEW outliers \in SUBSET S, NEW failures \in SUBSET (S \ outliers)
  PROVE  /\ Cardinality(S) \in Nat /\ Cardinality(outliers) \in Nat /\ Cardinality(failures) \in Nat
         /\ Cardinality(S) - Cardinality(outliers) - Cardinality(failures) \in Nat
<1>1. /\ IsFiniteSet(S) /\ IsFiniteSet(outliers) /\ IsFiniteSet(failures) /\ IsFiniteSet(S \ outliers)
      /\ Cardinality(S) \in Nat /\ Cardinality(outliers) \in Nat /\ Cardinality(failures) \in Nat
      /\ Cardinality(S \ outliers) \in Nat
  BY FiniteTopicDocuments
<1>2. Cardinality(S \ outliers) = Cardinality(S) - Cardinality(outliers)
  <2>1. S \cap outliers = outliers
    OBVIOUS
  <2> QED BY <1>1, <2>1, FS_Difference
<1>3. Cardinality(failures) <= Cardinality(S \ outliers)
  BY <1>1, FS_Subset
<1> QED BY <1>1, <1>2, <1>3

\* The topics of a batch's documents are committed with the mark that they are.
LEMMA ApplyTopicsKeeps ==
  ASSUME TopicInv, NEW j \in TopicJobs, NEW n \in TopicNumbers, NEW outliers, NEW failures,
         ApplyTopics(j, n, outliers, failures)
  PROVE  TopicInv'
<1>1. /\ topicBatch[j][n] \in TopicBatchRows /\ TopicBatchOK(j, n)
      /\ topicBatch \in [TopicJobs -> [TopicNumbers -> TopicBatchRows]]
      /\ applied \in [TopicJobs -> [TopicNumbers -> Nat]]
  BY TopicBatchRow, TopicRowsHold
<1>2. PICK S \in SUBSET TopicNumbers : S = topicBatch[j][n].documents
  BY <1>1 DEF TopicBatchRows
<1>3. /\ UNCHANGED <<topicDocuments, topicJob, discovery, application, topicCancel>>
      /\ applying[j][n] = "apply" /\ BatchTo(j, n, "index") /\ ~topicBatch[j][n].metadataApplied
      /\ outliers \in SUBSET S /\ failures \in SUBSET (S \ outliers)
  BY <1>2 DEF ApplyTopics, MustApply
<1>4. PICK counts \in TopicTallies :
         /\ counts.processed = Cardinality(S) /\ counts.failed = Cardinality(failures)
         /\ topicBatch' = [topicBatch EXCEPT ![j][n].metadataApplied = TRUE, ![j][n].counts = counts]
  <2> DEFINE counts == [processed |-> Cardinality(S), outlier |-> Cardinality(outliers),
                        failed |-> Cardinality(failures),
                        assigned |-> Cardinality(S) - Cardinality(outliers) - Cardinality(failures)]
  <2>1. counts \in TopicTallies
    BY <1>3, OutcomesCounted DEF TopicTallies
  <2>2. topicBatch' = [topicBatch EXCEPT ![j][n].metadataApplied = TRUE, ![j][n].counts = counts]
    BY <1>2 DEF ApplyTopics
  <2>3. counts.processed = Cardinality(S) /\ counts.failed = Cardinality(failures)
    OBVIOUS
  <2> HIDE DEF counts
  <2> QED BY <2>1, <2>2, <2>3
<1> DEFINE b == [topicBatch[j][n] EXCEPT !.metadataApplied = TRUE, !.counts = counts]
<1>5. /\ b \in TopicBatchRows /\ b.metadataApplied /\ b.counts = counts
      /\ b.documents = topicBatch[j][n].documents /\ b.status = topicBatch[j][n].status
  BY <1>1 DEF TopicBatchRows
<1>6. topicBatch' = Put(topicBatch, j, n, b)
  BY <1>1, <1>4 DEF Put
<1> HIDE DEF b
<1> DEFINE ds == [d \in TopicNumbers |-> IF d \in S \ failures THEN applied[j][d] + 1 ELSE applied[j][d]]
<1>7. ds \in [TopicNumbers -> Nat] /\ applied' = [applied EXCEPT ![j] = ds]
  BY <1>1, <1>2 DEF ApplyTopics
<1>8. ASSUME NEW d \in TopicNumbers
      PROVE  /\ ds[d] = IF d \in S \ failures THEN applied[j][d] + 1 ELSE applied[j][d]
             /\ applied[j][d] \in Nat
             /\ d \in S => applied[j][d] = 0
  <2>1. d \in S => applied[j][d] <= 0
    BY <1>1, <1>2, <1>3 DEF TopicBatchOK, TopicBatchCounted
  <2> QED BY <1>1, <2>1
<1> HIDE DEF ds
<1>9. applying' = Put(applying, j, n, "index") /\ "index" \in ApplyingSteps
  BY <1>3 DEF BatchTo, Put, ApplyingSteps
<1>10. topicBatch'[j][n] = b /\ applying'[j][n] = "index" /\ applied'[j] = ds
  BY <1>1, <1>6, <1>7, <1>9, TopicBatchRow
<1>11. TopicBatchOK(j, n)'
  <2>1. TopicBatchGiven(j, n)'
    <3>1. n \in Nat /\ topicJob[j].batches \in Nat
      BY TopicBatchBound, TopicAssumption DEF TopicNumbers
    <3> QED BY <1>1, <1>3, <1>5, <1>10, <3>1 DEF TopicBatchOK, TopicBatchGiven
  <2>2. TopicBatchCounted(j, n)'
    <3>1. \A d \in S : ds[d] = IF d \in failures THEN 0 ELSE 1
      BY <1>8
    <3>2. \A d : d \in S /\ ds[d] = 0 <=> d \in failures
      BY <1>3, <3>1
    <3>3. {d \in S : ds[d] = 0} = failures
      BY <3>2
    <3>4. \A d \in S : ds[d] <= 1
      BY <3>1
    <3>5. b.documents = S
      BY <1>2, <1>5
    <3> QED BY <1>4, <1>5, <1>10, <3>3, <3>4, <3>5 DEF TopicBatchCounted
  <2>3. TopicBatchPlaced(j, n)'
    BY <1>1, <1>3, <1>10 DEF TopicBatchOK, TopicBatchPlaced
  <2> QED BY <2>1, <2>2, <2>3 DEF TopicBatchOK
<1>12. \A d \in TopicNumbers : ds[d] = applied[j][d] \/ (d \in b.documents /\ b.metadataApplied)
  BY <1>2, <1>5, <1>8
<1>13. b.documents = topicBatch[j][n].documents /\ applying[j][n] \notin {"none", "done"}
  BY <1>3, <1>5
<1>14. b \in TopicBatchRows /\ b.metadataApplied
  BY <1>5
<1> QED BY <1>3, <1>6, <1>7, <1>9, <1>11, <1>12, <1>13, <1>14, OneTopicBatch

(***************************************************************************)
(* Topics: the invariant and what it says.                                 *)
(***************************************************************************)

\* At first there are no jobs.
LEMMA TopicStarts == TopicInit => TopicInv
<1> SUFFICES ASSUME TopicInit PROVE TopicInv
  OBVIOUS
<1>1. NoCounts \in TopicTallies
  BY DEF NoCounts, TopicTallies
<1>2. TopicRows
  <2>1. topicDocuments \in TopicNumbers
    BY DEF TopicInit
  <2>2. topicJob \in [TopicJobs -> TopicJobRows]
    BY <1>1 DEF TopicInit, TopicJobRows
  <2>3. topicBatch \in [TopicJobs -> [TopicNumbers -> TopicBatchRows]]
    BY <1>1 DEF TopicInit, TopicBatchRows
  <2>4. discovery \in [TopicJobs -> DiscoveryRows]
    BY DEF TopicInit, DiscoveryRows
  <2>5. application \in [TopicJobs -> ApplicationRows]
    BY DEF TopicInit, ApplicationRows
  <2>6. applying \in [TopicJobs -> [TopicNumbers -> ApplyingSteps]]
    BY DEF TopicInit, ApplyingSteps
  <2>7. topicCancel \in [TopicJobs -> TopicCancelRows]
    BY DEF TopicInit, TopicCancelRows
  <2>8. applied \in [TopicJobs -> [TopicNumbers -> Nat]]
    BY DEF TopicInit
  <2> QED BY <2>1, <2>2, <2>3, <2>4, <2>5, <2>6, <2>7, <2>8 DEF TopicRows
<1>3. ASSUME NEW j \in TopicJobs
      PROVE  TopicJobOK(j)
  <2>1. /\ topicJob[j] = [status |-> "NONE", documents |-> 0, batches |-> 0, approved |-> FALSE,
                          counts |-> NoCounts]
        /\ discovery[j] = [pc |-> "none", documents |-> 0]
        /\ application[j] = [pc |-> "none", batches |-> 0, next |-> 1, failed |-> 0]
        /\ topicCancel[j] = [pc |-> "idle", previous |-> "NONE", asked |-> FALSE]
        /\ applied[j] = [d \in TopicNumbers |-> 0]
    BY DEF TopicInit
  <2>2. TopicJobProposed(j)
    BY <2>1, TopicAssumption DEF TopicJobProposed
  <2>3. TopicJobPlaced(j)
    BY <2>1 DEF TopicJobPlaced, CompletedTopics
  <2>4. AppliedInBatches(j)
    BY <2>1 DEF AppliedInBatches
  <2> QED BY <2>2, <2>3, <2>4 DEF TopicJobOK
<1>4. ASSUME NEW j \in TopicJobs, NEW n \in TopicNumbers
      PROVE  TopicBatchOK(j, n)
  <2>1. n \in Nat /\ n > 0 /\ ~(n < 1) /\ ~(n <= 0)
    BY TopicAssumption DEF TopicNumbers
  <2>2. /\ topicJob[j] = [status |-> "NONE", documents |-> 0, batches |-> 0, approved |-> FALSE,
                          counts |-> NoCounts]
        /\ topicBatch[j][n] = [status |-> "NONE", documents |-> {}, counts |-> NoCounts,
                               metadataApplied |-> FALSE]
        /\ application[j] = [pc |-> "none", batches |-> 0, next |-> 1, failed |-> 0]
        /\ applying[j][n] = "none"
    BY DEF TopicInit
  <2> QED BY <2>1, <2>2 DEF TopicBatchOK, TopicBatchGiven, TopicBatchCounted, TopicBatchPlaced
<1> QED BY <1>2, <1>3, <1>4 DEF TopicInv

\* Every step keeps the invariant.
LEMMA TopicStep == TopicInv /\ [TopicNext]_topicVars => TopicInv'
<1> SUFFICES ASSUME TopicInv, [TopicNext]_topicVars PROVE TopicInv'
  OBVIOUS
<1>1. CASE UNCHANGED topicVars
  BY <1>1, TopicRowsHold, TopicRowsStay DEF topicVars
<1>2. CASE AddTopicDocument
  <2>1. topicDocuments' \in TopicNumbers
    BY <1>2, TopicRowsHold, TopicAssumption DEF AddTopicDocument, TopicNumbers
  <2> QED BY <1>2, <2>1, TopicRowsStay DEF AddTopicDocument
<1>3. ASSUME NEW j \in TopicJobs,
             CreateTopicJob(j) \/ ApproveTopics(j) \/ BeginCancelTopics(j) \/ WriteCancelTopics(j) \/ StopTopics(j)
      PROVE  TopicInv'
  BY <1>3, CreateTopicJobKeeps, ApproveTopicsKeeps, CancelTopicsKeeps
<1>4. ASSUME NEW j \in TopicJobs, Discovery(j)
      PROVE  TopicInv'
  BY <1>4, BeginDiscoveryKeeps, SampleKeeps, ProposeKeeps, DiscoveryEndsKeeps DEF Discovery
<1>5. ASSUME NEW j \in TopicJobs, Application(j)
      PROVE  TopicInv'
  BY <1>5, PlanApplicationKeeps, EnqueueTopicBatchesKeeps, AwaitTopicBatchKeeps, BeginCompleteTopicsKeeps,
     ApplicationEndsKeeps, ApplicationGoesKeeps DEF Application
<1>6. ASSUME NEW j \in TopicJobs, NEW n \in TopicNumbers, TopicBatch(j, n)
      PROVE  TopicInv'
  BY <1>6, BeginTopicBatchKeeps, IndexTopicBatchKeeps, TopicBatchFaultKeeps, ApplyTopicsKeeps DEF TopicBatch
<1> QED BY <1>1, <1>2, <1>3, <1>4, <1>5, <1>6 DEF TopicNext

\* The invariant of the discovery and the application of topics: a job proposes once, its batches
\* share its documents, and what a batch counts is what it has done.
THEOREM TopicInvariant == TopicSpec => []TopicInv
<1>1. TopicInit => TopicInv
  BY TopicStarts
<1>2. TopicInv /\ [TopicNext]_topicVars => TopicInv'
  BY TopicStep
<1> QED BY <1>1, <1>2, PTL DEF TopicSpec

\* However often batches are tried again, the topics of a document are replaced once, and only of
\* documents that the job had when it was approved.
THEOREM TopicsOnce == TopicSpec => []TopicsAppliedOnce
<1>1. TopicInv => TopicsAppliedOnce
  <2> SUFFICES ASSUME TopicInv, NEW j \in TopicJobs, NEW d \in TopicNumbers
               PROVE  /\ applied[j][d] <= 1
                      /\ applied[j][d] = 1 => topicJob[j].approved /\ d <= topicJob[j].documents
    BY DEF TopicsAppliedOnce
  <2>1. applied[j][d] \in Nat
    BY TopicRowsHold
  <2>2. CASE applied[j][d] > 0
    <3>1. PICK n \in TopicNumbers : d \in topicBatch[j][n].documents /\ topicBatch[j][n].metadataApplied
      BY <2>2, TopicRowsHold DEF TopicJobOK, AppliedInBatches
    <3>2. TopicBatchOK(j, n) /\ n \in Nat /\ topicJob[j].batches \in Nat
      BY TopicBatchRow, TopicBatchBound, TopicAssumption DEF TopicNumbers
    <3>3. topicJob[j].approved /\ n <= topicJob[j].batches
      BY <3>1, <3>2 DEF TopicBatchOK, TopicBatchGiven
    <3>4. d \in TopicShare(topicJob[j].documents, n)
      BY <3>1, <3>2, <3>3 DEF TopicBatchOK, TopicBatchGiven
    <3>5. d <= topicJob[j].documents
      BY <3>4, TopicRowsHold DEF TopicShare, TopicJobRows
    <3>6. applied[j][d] <= 1
      BY <3>1, <3>2 DEF TopicBatchOK, TopicBatchCounted
    <3> QED BY <3>3, <3>5, <3>6
  <2> QED BY <2>1, <2>2
<1> QED BY <1>1, TopicInvariant, PTL

\* The members of U are each in one of n sets, and f has their cardinalities.
SharedBetween(U, A, f, n) ==
  /\ n \in Nat /\ f \in [1..n -> Nat] /\ \A k \in 1..n : IsFiniteSet(A[k])
  /\ \A i, k \in 1..n : i # k => A[i] \cap A[k] = {}
  /\ \A k \in 1..n : f[k] = Cardinality(A[k])
  /\ \A x : x \in U <=> \E k \in 1..n : x \in A[k]

\* Those add up to the number of the members.
LEMMA SharesCount ==
  ASSUME NEW U, NEW A, NEW f, NEW n, SharedBetween(U, A, f, n)
  PROVE  SumTo(f, n) = Cardinality(U)
<1> USE DEF SharedBetween
<1>1. U = UNION {A[k] : k \in 1..n}
  <2>1. \A x : x \in U <=> x \in UNION {A[k] : k \in 1..n}
    OBVIOUS
  <2> QED BY <2>1
<1> QED BY <1>1, SumOfCardinalities

\* The documents of a batch that have no topics of the job.
WithoutTopics(j, n) == {d \in topicBatch[j][n].documents : applied[j][d] = 0}

\* What the counts of a job add up to: its documents, and as failed those without topics.
LEMMA TopicSumsAreWhole ==
  ASSUME TopicInv, NEW j \in TopicJobs, TopicsFinished(j), ~topicCancel[j].asked, topicJob[j].approved
  PROVE  /\ TopicSums(j).processed = topicJob[j].documents
         /\ TopicSums(j).failed = Cardinality({d \in 1..topicJob[j].documents : applied[j][d] = 0})
<1>1. PICK total \in Nat, batches \in Nat : total = topicJob[j].documents /\ batches = topicJob[j].batches
  BY TopicRowsHold DEF TopicJobRows
<1>2. total <= MaxTopicDocuments /\ batches = TopicShareCount(total)
  BY <1>1, TopicRowsOf DEF TopicJobProposed
<1>3. /\ batches <= MaxTopicDocuments
      /\ \A n \in TopicNumbers : TopicShare(total, n) \subseteq TopicNumbers
      /\ \A m, n \in TopicNumbers : m # n => TopicShare(total, m) \cap TopicShare(total, n) = {}
      /\ \A d \in 1..total : \E n \in 1..batches : d \in TopicShare(total, n)
  BY <1>2, TopicShares
<1>4. \A n \in 1..batches : n \in TopicNumbers /\ n <= batches
  BY <1>3, TopicAssumption DEF TopicNumbers
<1>5. ASSUME NEW n \in 1..batches
      PROVE  /\ topicBatch[j][n].documents = TopicShare(total, n) /\ topicBatch[j][n].counts \in TopicTallies
             /\ topicBatch[j][n].counts.processed = Cardinality(topicBatch[j][n].documents)
             /\ topicBatch[j][n].counts.failed = Cardinality(WithoutTopics(j, n))
  <2>1. n \in TopicNumbers /\ n <= batches /\ TopicBatchOK(j, n) /\ topicBatch[j][n] \in TopicBatchRows
    BY <1>4, TopicBatchRow
  <2>2. n < application[j].next
    BY <1>1, <2>1, TopicRowsOf, TopicAssumption DEF TopicsFinished, ApplicationRows, TopicNumbers
  <2>3. topicBatch[j][n].metadataApplied
    BY <2>1, <2>2 DEF TopicBatchOK, TopicBatchPlaced, TopicBatchCounted
  <2> QED BY <1>1, <2>1, <2>3 DEF TopicBatchOK, TopicBatchGiven, TopicBatchCounted, TopicBatchRows, WithoutTopics
<1>6. ASSUME NEW field \in {"processed", "failed"}
      PROVE  \E f \in [1..batches -> Nat] :
                /\ TopicSums(j)[field] = SumTo(f, batches)
                /\ \A n \in 1..batches : f[n] = topicBatch[j][n].counts[field]
  <2> DEFINE f == [n \in 1..batches |-> topicBatch[j][n].counts[field]]
  <2>1. f \in [1..batches -> Nat]
    BY <1>5 DEF TopicTallies
  <2>2. TopicSums(j)[field] = SumTo(f, batches)
    BY <1>1 DEF TopicSums, NoCounts
  <2>3. \A n \in 1..batches : f[n] = topicBatch[j][n].counts[field]
    OBVIOUS
  <2> HIDE DEF f
  <2> QED BY <2>1, <2>2, <2>3
<1>7. PICK p \in [1..batches -> Nat] :
         /\ TopicSums(j).processed = SumTo(p, batches)
         /\ \A n \in 1..batches : p[n] = topicBatch[j][n].counts.processed
  BY <1>6
<1>8. PICK q \in [1..batches -> Nat] :
         /\ TopicSums(j).failed = SumTo(q, batches)
         /\ \A n \in 1..batches : q[n] = topicBatch[j][n].counts.failed
  BY <1>6
<1>9. PICK A : \A n \in 1..batches : A[n] = topicBatch[j][n].documents
  <2>1. \A n \in 1..batches : [k \in 1..batches |-> topicBatch[j][k].documents][n] = topicBatch[j][n].documents
    OBVIOUS
  <2> QED BY <2>1
<1>10. PICK B : \A n \in 1..batches : B[n] = WithoutTopics(j, n)
  <2>1. \A n \in 1..batches : [k \in 1..batches |-> WithoutTopics(j, k)][n] = WithoutTopics(j, n)
    OBVIOUS
  <2> QED BY <2>1
<1>11. \A n \in 1..batches : A[n] = TopicShare(total, n) /\ A[n] \in SUBSET TopicNumbers /\ B[n] \subseteq A[n]
  <2> SUFFICES ASSUME NEW n \in 1..batches
               PROVE  A[n] = TopicShare(total, n) /\ A[n] \in SUBSET TopicNumbers /\ B[n] \subseteq A[n]
    OBVIOUS
  <2>1. A[n] = TopicShare(total, n)
    BY <1>5, <1>9
  <2>2. n \in TopicNumbers
    BY <1>4
  <2>3. TopicShare(total, n) \subseteq TopicNumbers
    BY <1>3, <2>2
  <2>4. B[n] \subseteq A[n]
    BY <1>9, <1>10 DEF WithoutTopics
  <2> QED BY <2>1, <2>3, <2>4
<1>12. /\ \A n \in 1..batches : IsFiniteSet(A[n]) /\ IsFiniteSet(B[n])
       /\ \A m, n \in 1..batches : m # n => A[m] \cap A[n] = {}
       /\ \A m, n \in 1..batches : m # n => B[m] \cap B[n] = {}
  <2>1. \A n \in 1..batches : A[n] \in SUBSET TopicNumbers /\ B[n] \in SUBSET TopicNumbers
    BY <1>11
  <2>2. \A n \in 1..batches : IsFiniteSet(A[n]) /\ IsFiniteSet(B[n])
    BY <2>1, FiniteTopicDocuments
  <2>3. ASSUME NEW m \in 1..batches, NEW n \in 1..batches, m # n
        PROVE  A[m] \cap A[n] = {} /\ B[m] \cap B[n] = {}
    <3>1. TopicShare(total, m) \cap TopicShare(total, n) = {}
      BY <1>3, <1>4, <2>3
    <3>2. A[m] \cap A[n] = {}
      BY <1>11, <3>1
    <3> QED BY <1>11, <3>2
  <2> QED BY <2>2, <2>3
<1>13. \A d : d \in 1..total <=> \E n \in 1..batches : d \in A[n]
  <2>1. \A n \in 1..batches : A[n] \subseteq 1..total
    BY <1>11 DEF TopicShare
  <2>2. \A d \in 1..total : \E n \in 1..batches : d \in A[n]
    BY SMTT(30), <1>3, <1>11
  <2> QED BY <2>1, <2>2
<1>14. PICK failing : failing = {d \in 1..total : applied[j][d] = 0}
  OBVIOUS
<1>15. \A d : d \in failing <=> \E n \in 1..batches : d \in B[n]
  <2>1. \A n \in 1..batches : \A d : d \in B[n] <=> d \in A[n] /\ applied[j][d] = 0
    BY <1>9, <1>10 DEF WithoutTopics
  <2> QED BY <1>13, <1>14, <2>1
<1>16. /\ \A n \in 1..batches : p[n] = Cardinality(A[n])
       /\ \A n \in 1..batches : q[n] = Cardinality(B[n])
  BY ZenonT(60), <1>5, <1>7, <1>8, <1>9, <1>10
<1>17. SumTo(p, batches) = Cardinality(1..total)
  <2>1. SharedBetween(1..total, A, p, batches)
    BY <1>12, <1>13, <1>16 DEF SharedBetween
  <2> QED BY <2>1, SharesCount
<1>18. SumTo(q, batches) = Cardinality(failing)
  <2>1. SharedBetween(failing, B, q, batches)
    BY <1>12, <1>15, <1>16 DEF SharedBetween
  <2> QED BY <2>1, SharesCount
<1>19. Cardinality(1..total) = total
  BY FS_Interval
<1> QED BY <1>1, <1>7, <1>8, <1>14, <1>17, <1>18, <1>19

\* A job that nobody has asked to cancel and that says it is completed has dealt with each of its
\* documents once, and those that it does not count as failed have their topics.
THEOREM CompletedTopicsWhole == TopicSpec => []CompletedTopicsAreWhole
<1>1. TopicInv => CompletedTopicsAreWhole
  <2> SUFFICES ASSUME TopicInv, NEW j \in TopicJobs, ~topicCancel[j].asked, CompletedTopics(j)
               PROVE  /\ topicJob[j].counts.processed = topicJob[j].documents
                      /\ topicJob[j].counts.failed =
                            Cardinality({d \in 1..topicJob[j].documents : applied[j][d] = 0})
                      /\ topicJob[j].status = "COMPLETED" <=> topicJob[j].counts.failed = 0
    BY DEF CompletedTopicsAreWhole, CompletedTopics
  <2>1. TopicJobPlaced(j) /\ TopicsFinished(j)
    BY TopicRowsOf DEF TopicJobPlaced
  <2>2. topicJob[j].approved /\ (topicJob[j].status = "COMPLETED" <=> application[j].failed = 0)
    BY <2>1 DEF TopicJobPlaced
  <2> QED BY <2>1, <2>2, TopicSumsAreWhole DEF TopicsFinished
<1> QED BY <1>1, TopicInvariant, PTL

-----------------------------------------------------------------------------
(***************************************************************************)
(* Text processing: the invariant.                                         *)
(***************************************************************************)

\* The rows of the runs, the workers that execute them, and what else is stored.
RunRows ==
    [status : {"NONE", "FAILED"} \cup ActiveRunStatus \cup CompletedRunStatus,
     rules : RuleSets, processed : Nat, outcomes : [RunOutcomes -> SUBSET TextItems]]
WorkerRows ==
    [pc : {"none", "begin", "list", "items", "fail"}, left : SUBSET TextItems,
     item : SUBSET NormalizedRow, attempt : Nat]

TextRows ==
    /\ texts \in [TextItems -> 0..Absent]
    /\ rules \in RuleSets
    /\ textRuns \in [TextRuns -> RunRows]
    /\ workers \in [TextRuns -> WorkerRows]
    /\ normalized \in SUBSET NormalizedRow
    /\ active \in TextRuns \cup {NoTextRun}

\* The items that a run has dealt with, each in one way, and their number.
DoneItems(row) == UNION {row.outcomes[o] : o \in RunOutcomes}
Tallied(row) ==
    /\ \A o, p \in RunOutcomes : o # p => row.outcomes[o] \cap row.outcomes[p] = {}
    /\ IsFiniteSet(DoneItems(row))
    /\ row.processed = Cardinality(DoneItems(row))

\* What a run counts as made of its rules is among the artifacts.
Made(row) ==
    \A i \in row.outcomes["created"] \cup row.outcomes["reused"] :
        \E text \in normalized : text.item = i /\ text.rules = row.rules

\* A worker deals with items that its run has not counted, and stores a text of the run's rules.
Working(row, w) ==
    /\ row.status = "NONE" => w.pc = "none"
    /\ w.pc = "list" => row.outcomes = NoOutcomes
    /\ w.pc # "items" => w.item = {}
    /\ w.pc = "items" =>
          /\ \A i \in w.left : texts[i] # Absent /\ i \notin DoneItems(row)
          /\ \A text \in w.item : text.item \in w.left /\ text.rules = row.rules
          /\ \A text, other \in w.item : text.item = other.item

TextInv ==
    /\ TextRows
    /\ \A r \in TextRuns : /\ Tallied(textRuns[r])
                           /\ Made(textRuns[r])
                           /\ Working(textRuns[r], workers[r])

-----------------------------------------------------------------------------
(* Steps of one run.                                                        *)

LEMMA NothingTallied ==
    ASSUME NEW row, row.outcomes = NoOutcomes, row.processed = 0
    PROVE  Tallied(row) /\ DoneItems(row) = {} /\ Made(row)
  <1>1. \A o \in RunOutcomes : row.outcomes[o] = {}
    BY DEF NoOutcomes
  <1>2. DoneItems(row) = {}
    BY <1>1 DEF DoneItems
  <1>3. {"created", "reused"} \subseteq RunOutcomes
    BY DEF RunOutcomes
  <1> QED  BY <1>1, <1>2, <1>3, FS_EmptySet DEF Tallied, Made

\* An item that is in none of the outcomes is counted once more.
LEMMA OneMoreTallied ==
    ASSUME NEW row \in RunRows, NEW o \in RunOutcomes, NEW i \in TextItems, Tallied(row),
           i \notin DoneItems(row)
    PROVE  LET more == [row EXCEPT !.processed = @ + 1, !.outcomes[o] = @ \union {i}] IN
           more \in RunRows /\ Tallied(more) /\ DoneItems(more) = DoneItems(row) \cup {i}
  <1> DEFINE more == [row EXCEPT !.processed = @ + 1, !.outcomes[o] = @ \union {i}]
  <1>1. more \in RunRows
    <2>1. [row.outcomes EXCEPT ![o] = @ \union {i}] \in [RunOutcomes -> SUBSET TextItems]
      BY DEF RunRows
    <2>2. more = [row EXCEPT !.processed = row.processed + 1,
                             !.outcomes = [row.outcomes EXCEPT ![o] = @ \union {i}]]
      BY DEF RunRows
    <2>3. row.processed + 1 \in Nat
      BY DEF RunRows
    <2> QED  BY <2>1, <2>2, <2>3 DEF RunRows
  <1>2. /\ more.outcomes[o] = row.outcomes[o] \cup {i}
        /\ \A p \in RunOutcomes \ {o} : more.outcomes[p] = row.outcomes[p]
        /\ more.processed = row.processed + 1
    BY DEF RunRows
  <1> HIDE DEF more
  <1>3. DoneItems(more) = DoneItems(row) \cup {i}
    BY <1>2 DEF DoneItems
  <1>4. \A p \in RunOutcomes : i \notin row.outcomes[p]
    BY DEF DoneItems
  <1>5. \A p, q \in RunOutcomes : p # q => more.outcomes[p] \cap more.outcomes[q] = {}
    BY <1>2, <1>4 DEF Tallied
  <1>6. IsFiniteSet(DoneItems(more)) /\ Cardinality(DoneItems(more)) = Cardinality(DoneItems(row)) + 1
    BY <1>3, FS_AddElement DEF Tallied
  <1> QED  BY <1>1, <1>2, <1>3, <1>5, <1>6 DEF Tallied, more

\* The runs that a step does not name stay right while artifacts and sources are only added.
LEMMA OneRunMoves ==
    ASSUME TextInv, TextRows', NEW r \in TextRuns,
           \A q \in TextRuns \ {r} : textRuns'[q] = textRuns[q] /\ workers'[q] = workers[q],
           normalized \subseteq normalized', UNCHANGED texts,
           Tallied(textRuns'[r]), Made(textRuns[r])' ,
           Working(textRuns[r], workers[r])'
    PROVE  TextInv'
  <1>1. ASSUME NEW q \in TextRuns \ {r}
        PROVE  Tallied(textRuns'[q]) /\ Made(textRuns[q])' /\ Working(textRuns[q], workers[q])'
    <2>1. textRuns'[q] = textRuns[q] /\ workers'[q] = workers[q]
      OBVIOUS
    <2>2. Tallied(textRuns[q]) /\ Made(textRuns[q]) /\ Working(textRuns[q], workers[q])
      BY DEF TextInv
    <2>3. Made(textRuns[q])'
      BY <2>1, <2>2 DEF Made
    <2>4. Working(textRuns[q], workers[q])'
      BY <2>1, <2>2 DEF Working, DoneItems, Absent
    <2> QED  BY <2>1, <2>2, <2>3, <2>4
  <1>2. ASSUME NEW q \in TextRuns
        PROVE  (Tallied(textRuns[q]) /\ Made(textRuns[q]) /\ Working(textRuns[q], workers[q]))'
    <2>1. CASE q = r
      BY <2>1
    <2>2. CASE q # r
      BY <1>1, <2>2
    <2> QED  BY <2>1, <2>2
  <1> QED  BY <1>2 DEF TextInv

\* A run whose counters do not change goes on or stops.
LEMMA WorkerMoves ==
    ASSUME TextInv, NEW r \in TextRuns, NEW w \in WorkerRows, NEW row \in RunRows,
           row.rules = textRuns[r].rules, row.outcomes = textRuns[r].outcomes,
           row.processed = textRuns[r].processed,
           workers' = [workers EXCEPT ![r] = w],
           textRuns' = [textRuns EXCEPT ![r] = row],
           active' \in TextRuns \cup {NoTextRun},
           UNCHANGED <<texts, rules, normalized>>,
           Working(row, w)
    PROVE  TextInv'
  <1>1. TextRows /\ textRuns[r] \in RunRows /\ Tallied(textRuns[r]) /\ Made(textRuns[r])
    BY DEF TextInv, TextRows
  <1>2. textRuns'[r] = row /\ workers'[r] = w
        /\ \A q \in TextRuns \ {r} : textRuns'[q] = textRuns[q] /\ workers'[q] = workers[q]
    BY <1>1 DEF TextRows
  <1>3. textRuns' \in [TextRuns -> RunRows] /\ workers' \in [TextRuns -> WorkerRows]
    BY <1>1, <1>2 DEF TextRows
  <1>4. TextRows'
    BY <1>1, <1>3 DEF TextRows, Absent, RunRows, WorkerRows
  <1>5. Tallied(textRuns'[r])
    <2>1. DoneItems(row) = DoneItems(textRuns[r])
      BY DEF DoneItems
    <2>2. Tallied(row)
      BY <1>1, <2>1 DEF Tallied
    <2> QED  BY <1>2, <2>2
  <1>6. Made(textRuns[r])'
    BY <1>1, <1>2 DEF Made
  <1>7. Working(textRuns[r], workers[r])'
    BY <1>2 DEF Working, DoneItems, Absent
  <1> QED  BY <1>2, <1>4, <1>5, <1>6, <1>7, OneRunMoves

\* What a step does to the status of a run, and to the run if it does nothing.
LEMMA StatusMoves ==
    ASSUME TextRows, NEW r \in TextRuns,
           NEW s \in {"RUNNING", "FAILED"} \cup CompletedRunStatus
    PROVE  LET row == [textRuns[r] EXCEPT !.status = s] IN
           /\ row \in RunRows /\ row.status = s /\ row.rules = textRuns[r].rules
           /\ row.outcomes = textRuns[r].outcomes /\ row.processed = textRuns[r].processed
           /\ [textRuns EXCEPT ![r].status = s] = [textRuns EXCEPT ![r] = row]
           /\ textRuns = [textRuns EXCEPT ![r] = textRuns[r]]
  BY DEF TextRows, RunRows, ActiveRunStatus, CompletedRunStatus

\* A run that starts, or starts over, has dealt with nothing.
LEMMA RunStarts ==
    ASSUME TextInv, NEW r \in TextRuns, NEW w \in WorkerRows, NEW row \in RunRows,
           row.status # "NONE", row.processed = 0, row.outcomes = NoOutcomes,
           w.pc # "items", w.item = {},
           workers' = [workers EXCEPT ![r] = w],
           textRuns' = [textRuns EXCEPT ![r] = row],
           UNCHANGED <<texts, rules, normalized, active>>
    PROVE  TextInv'
  <1>1. TextRows
    BY DEF TextInv
  <1>2. textRuns'[r] = row /\ workers'[r] = w
        /\ \A q \in TextRuns \ {r} : textRuns'[q] = textRuns[q] /\ workers'[q] = workers[q]
    BY <1>1 DEF TextRows
  <1>3. textRuns' \in [TextRuns -> RunRows] /\ workers' \in [TextRuns -> WorkerRows]
    BY <1>1, <1>2 DEF TextRows
  <1>4. TextRows'
    BY <1>1, <1>3 DEF TextRows, Absent, RunRows, WorkerRows
  <1>5. Tallied(row) /\ {"created", "reused"} \subseteq RunOutcomes
    BY NothingTallied DEF RunOutcomes
  <1>6. Made(textRuns[r])'
    BY <1>2, <1>5 DEF Made, NoOutcomes
  <1>7. Working(textRuns[r], workers[r])'
    BY <1>2 DEF Working
  <1> QED  BY <1>2, <1>4, <1>5, <1>6, <1>7, OneRunMoves

\* A worker counts an item that was left, and what it made is among the artifacts.
LEMMA ItemCounted ==
    ASSUME TextInv, NEW r \in TextRuns, NEW o \in RunOutcomes, NEW i \in workers[r].left,
           workers[r].pc = "items", Count(r, i, o), \A text \in workers[r].item : text.item = i,
           normalized \subseteq normalized', normalized' \in SUBSET NormalizedRow,
           o \in {"created", "reused"} =>
              \E text \in normalized' : text.item = i /\ text.rules = textRuns[r].rules,
           UNCHANGED <<texts, rules, active>>
    PROVE  TextInv'
  <1> DEFINE row == [textRuns[r] EXCEPT !.processed = @ + 1, !.outcomes[o] = @ \union {i}]
             w == [workers[r] EXCEPT !.left = @ \ {i}, !.item = {}]
  <1>1. /\ TextRows /\ textRuns[r] \in RunRows /\ workers[r] \in WorkerRows /\ i \in TextItems
        /\ Tallied(textRuns[r]) /\ Made(textRuns[r]) /\ Working(textRuns[r], workers[r])
    BY DEF TextInv, TextRows, WorkerRows
  <1>2. i \notin DoneItems(textRuns[r])
    BY <1>1 DEF Working
  <1>3. row \in RunRows /\ Tallied(row) /\ DoneItems(row) = DoneItems(textRuns[r]) \cup {i}
    BY <1>1, <1>2, OneMoreTallied
  <1>4. /\ row.outcomes[o] = textRuns[r].outcomes[o] \cup {i}
        /\ \A p \in RunOutcomes \ {o} : row.outcomes[p] = textRuns[r].outcomes[p]
        /\ row.rules = textRuns[r].rules /\ row.status = textRuns[r].status
    BY <1>1 DEF RunRows
  <1>5. w \in WorkerRows /\ w.pc = "items" /\ w.item = {} /\ w.left = workers[r].left \ {i}
    BY <1>1 DEF WorkerRows
  <1>6. textRuns' = [textRuns EXCEPT ![r] = row] /\ workers' = [workers EXCEPT ![r] = w]
    BY <1>1 DEF Count, TextRows, RunRows, WorkerRows
  <1> HIDE DEF row, w
  <1>7. textRuns'[r] = row /\ workers'[r] = w
        /\ \A q \in TextRuns \ {r} : textRuns'[q] = textRuns[q] /\ workers'[q] = workers[q]
    BY <1>1, <1>6 DEF TextRows
  <1>8. textRuns' \in [TextRuns -> RunRows] /\ workers' \in [TextRuns -> WorkerRows]
    BY <1>1, <1>3, <1>5, <1>7, <1>6 DEF TextRows
  <1>9. TextRows'
    BY <1>1, <1>8 DEF TextRows, Absent, RunRows, WorkerRows
  <1>10. Made(textRuns[r])'
    <2>1. ASSUME NEW k \in row.outcomes["created"] \cup row.outcomes["reused"]
          PROVE  \E text \in normalized' : text.item = k /\ text.rules = row.rules
      <3>1. CASE k \in textRuns[r].outcomes["created"] \cup textRuns[r].outcomes["reused"]
        BY <1>1, <1>4, <3>1 DEF Made
      <3>2. CASE k = i /\ o \in {"created", "reused"}
        BY <1>4, <3>2
      <3>3. {"created", "reused"} \subseteq RunOutcomes
        BY DEF RunOutcomes
      <3> QED  BY <1>4, <2>1, <3>1, <3>2, <3>3
    <2> QED  BY <1>7, <2>1 DEF Made
  <1>11. Working(textRuns[r], workers[r])'
    <2>1. \A k \in w.left : texts[k] # Absent /\ k \notin DoneItems(row)
      BY <1>1, <1>3, <1>5 DEF Working
    <2>2. row.status # "NONE"
      BY <1>1, <1>4 DEF Working
    <2> QED  BY <1>5, <1>7, <2>1, <2>2 DEF Working, DoneItems, Absent
  <1> QED  BY <1>3, <1>7, <1>9, <1>10, <1>11, OneRunMoves

-----------------------------------------------------------------------------
(* The actions.                                                             *)

\* An item that is there stays there.
LEMMA UploadTextKeeps ==
    ASSUME TextInv, NEW i \in TextItems, UploadText(i)
    PROVE  TextInv'
  <1>1. TextRows
    BY DEF TextInv
  <1>2. /\ texts' \in [TextItems -> 0..Absent]
        /\ \A k \in TextItems : texts[k] # Absent => texts'[k] # Absent
    <2>1. MaxSources \in Nat
      BY TextAssumption
    <2> QED  BY <1>1, <2>1 DEF UploadText, TextRows, Absent
  <1>3. UNCHANGED <<rules, textRuns, workers, normalized, active>>
    BY DEF UploadText
  <1>4. TextRows'
    BY <1>1, <1>2, <1>3 DEF TextRows, Absent, RunRows, WorkerRows
  <1>5. ASSUME NEW r \in TextRuns
        PROVE  (Tallied(textRuns[r]) /\ Made(textRuns[r]) /\ Working(textRuns[r], workers[r]))'
    <2>1. /\ Tallied(textRuns[r]) /\ Made(textRuns[r]) /\ Working(textRuns[r], workers[r])
          /\ workers[r].left \subseteq TextItems
      BY <1>1 DEF TextInv, TextRows, WorkerRows
    <2>2. Tallied(textRuns[r])'
      BY <1>3, <2>1 DEF Tallied, DoneItems
    <2>3. Made(textRuns[r])'
      BY <1>3, <2>1 DEF Made
    <2>4. Working(textRuns[r], workers[r])'
      BY <1>2, <1>3, <2>1 DEF Working, DoneItems, Absent
    <2> QED  BY <2>2, <2>3, <2>4
  <1> QED  BY <1>4, <1>5 DEF TextInv

LEMMA UpdateProfileKeeps ==
    ASSUME TextInv, NEW custom \in RuleSets, UpdateProfile(custom)
    PROVE  TextInv'
  <1>1. UNCHANGED <<texts, textRuns, workers, normalized, active>> /\ rules' = custom
    BY DEF UpdateProfile
  <1>2. TextRows'
    BY <1>1 DEF TextInv, TextRows, Absent, RunRows, WorkerRows
  <1>3. \A r \in TextRuns :
           (Tallied(textRuns[r]) /\ Made(textRuns[r]) /\ Working(textRuns[r], workers[r]))'
    BY <1>1 DEF TextInv, Tallied, Made, Working, DoneItems, Absent
  <1> QED  BY <1>2, <1>3 DEF TextInv

LEMMA StartRunKeeps ==
    ASSUME TextInv, NEW r \in TextRuns, StartRun(r)
    PROVE  TextInv'
  <1>1. PICK s \in {"QUEUED", "FAILED"}, pc \in {"none", "begin"} :
           /\ textRuns' = [textRuns EXCEPT ![r] = [NoRunRow EXCEPT !.status = s, !.rules = rules]]
           /\ workers' = [workers EXCEPT ![r].pc = pc]
           /\ UNCHANGED <<texts, rules, normalized, active>>
    BY DEF StartRun
  <1> DEFINE row == [NoRunRow EXCEPT !.status = s, !.rules = rules]
             w == [workers[r] EXCEPT !.pc = pc]
  <1>2. TextRows /\ workers[r] \in WorkerRows /\ Working(textRuns[r], workers[r])
        /\ textRuns[r].status = "NONE"
    BY DEF TextInv, TextRows, StartRun
  <1>3. NoOutcomes \in [RunOutcomes -> SUBSET TextItems]
    BY DEF NoOutcomes
  <1>4. row \in RunRows /\ row.status # "NONE" /\ row.processed = 0 /\ row.outcomes = NoOutcomes
    BY <1>2, <1>3 DEF RunRows, NoRunRow, TextRows, ActiveRunStatus
  <1>5. w \in WorkerRows /\ w.pc # "items" /\ w.item = {}
    BY <1>2 DEF WorkerRows, Working
  <1>6. textRuns' = [textRuns EXCEPT ![r] = row] /\ workers' = [workers EXCEPT ![r] = w]
    BY <1>1, <1>2 DEF TextRows
  <1> HIDE DEF row, w
  <1> QED  BY <1>1, <1>4, <1>5, <1>6, RunStarts

\* Workers that wait for their next step.
LEMMA IdleWorkers ==
    ASSUME NEW pc \in {"none", "begin", "list", "fail"}, NEW attempt \in Nat
    PROVE  /\ [pc |-> pc, left |-> {}, item |-> {}, attempt |-> attempt] \in WorkerRows
           /\ IdleWorker \in WorkerRows /\ IdleWorker.pc = "none" /\ IdleWorker.item = {}
           /\ LET w == [IdleWorker EXCEPT !.pc = pc, !.attempt = attempt] IN
              w \in WorkerRows /\ w.pc = pc /\ w.item = {}
           /\ LET w == [IdleWorker EXCEPT !.pc = pc] IN
              w \in WorkerRows /\ w.pc = pc /\ w.item = {}
  <1>1. [pc |-> pc, left |-> {}, item |-> {}, attempt |-> attempt] \in WorkerRows
    BY DEF WorkerRows
  <1>2. IdleWorker \in WorkerRows /\ IdleWorker.pc = "none" /\ IdleWorker.item = {}
    BY DEF WorkerRows, IdleWorker
  <1> QED  BY <1>1, <1>2 DEF WorkerRows

\* A worker that stops, or has to start over, leaves the counters of its run.
LEMMA WorkerIdles ==
    ASSUME TextInv, NEW r \in TextRuns, NEW w \in WorkerRows, NEW row \in RunRows,
           row.rules = textRuns[r].rules, row.outcomes = textRuns[r].outcomes,
           row.processed = textRuns[r].processed,
           row.status # textRuns[r].status => row.status # "NONE",
           w.pc \in {"none", "begin", "fail"}, w.item = {},
           w.pc = "none" \/ workers[r].pc # "none",
           workers' = [workers EXCEPT ![r] = w],
           textRuns' = [textRuns EXCEPT ![r] = row],
           active' \in TextRuns \cup {NoTextRun},
           UNCHANGED <<texts, rules, normalized>>
    PROVE  TextInv'
  <1>1. Working(textRuns[r], workers[r])
    BY DEF TextInv
  <1>2. Working(row, w)
    BY <1>1 DEF Working
  <1> QED  BY <1>2, WorkerMoves

LEMMA BeginRunKeeps ==
    ASSUME TextInv, NEW r \in TextRuns, BeginRun(r)
    PROVE  TextInv'
  <1>1. TextRows /\ textRuns[r] \in RunRows /\ workers[r] \in WorkerRows
        /\ workers[r].attempt \in Nat
    BY DEF TextInv, TextRows, WorkerRows
  <1>2. CASE textRuns[r].status \in CompletedRunStatus
    <2>1. workers' = [workers EXCEPT ![r] = IdleWorker] /\ textRuns' = textRuns
      BY <1>2 DEF BeginRun
    <2>2. textRuns' = [textRuns EXCEPT ![r] = textRuns[r]]
      BY <1>1, <2>1 DEF TextRows
    <2>3. IdleWorker \in WorkerRows /\ IdleWorker.pc = "none" /\ IdleWorker.item = {}
      BY <1>1, IdleWorkers
    <2>4. UNCHANGED <<texts, rules, normalized, active>> /\ active' \in TextRuns \cup {NoTextRun}
      BY <1>1 DEF BeginRun, TextRows
    <2> QED  BY <1>1, <2>1, <2>2, <2>3, <2>4, WorkerIdles
  <1>3. CASE textRuns[r].status \notin CompletedRunStatus
    <2> DEFINE row == [textRuns[r] EXCEPT !.status = "RUNNING", !.processed = 0,
                                          !.outcomes = NoOutcomes]
               w == [pc |-> "list", left |-> {}, item |-> {}, attempt |-> workers[r].attempt]
    <2>1. NoOutcomes \in [RunOutcomes -> SUBSET TextItems]
      BY DEF NoOutcomes
    <2>2. row \in RunRows /\ row.status # "NONE" /\ row.processed = 0 /\ row.outcomes = NoOutcomes
      BY <1>1, <2>1 DEF RunRows, ActiveRunStatus
    <2>3. w \in WorkerRows /\ w.pc # "items" /\ w.item = {}
      BY <1>1, IdleWorkers
    <2>4. textRuns' = [textRuns EXCEPT ![r] = row] /\ workers' = [workers EXCEPT ![r] = w]
          /\ UNCHANGED <<texts, rules, normalized, active>>
      BY <1>1, <1>3 DEF BeginRun, TextRows, RunRows
    <2> HIDE DEF row, w
    <2> QED  BY <2>2, <2>3, <2>4, RunStarts
  <1> QED  BY <1>2, <1>3

\* The worker lists items that are there, and its run has counted none yet.
LEMMA ListItemsKeeps ==
    ASSUME TextInv, NEW r \in TextRuns, ListItems(r)
    PROVE  TextInv'
  <1> DEFINE w == [workers[r] EXCEPT !.pc = "items", !.left = Present]
  <1>1. /\ TextRows /\ textRuns[r] \in RunRows /\ workers[r] \in WorkerRows
        /\ Working(textRuns[r], workers[r]) /\ workers[r].pc = "list"
    BY DEF TextInv, TextRows, ListItems
  <1>2. w \in WorkerRows /\ w.pc = "items" /\ w.left = Present /\ w.item = {}
    BY <1>1 DEF WorkerRows, Present, Working
  <1>3. textRuns[r].outcomes = NoOutcomes /\ textRuns[r].status # "NONE"
    BY <1>1 DEF Working
  <1>4. DoneItems(textRuns[r]) = {}
    BY <1>3 DEF DoneItems, NoOutcomes
  <1>5. workers' = [workers EXCEPT ![r] = w] /\ textRuns' = [textRuns EXCEPT ![r] = textRuns[r]]
    BY <1>1 DEF ListItems, TextRows
  <1>6. UNCHANGED <<texts, rules, normalized>> /\ active' \in TextRuns \cup {NoTextRun}
    BY <1>1 DEF ListItems, TextRows
  <1> HIDE DEF w
  <1>7. Working(textRuns[r], w)
    BY <1>2, <1>3, <1>4 DEF Working, Present
  <1> QED  BY <1>1, <1>2, <1>5, <1>6, <1>7, WorkerMoves

\* An item without a source is skipped, one with a text of the rules is reused, and what is
\* read of another one is not counted before it is stored.
LEMMA ReadItemKeeps ==
    ASSUME TextInv, NEW r \in TextRuns, NEW i \in TextItems, ReadItem(r, i)
    PROVE  TextInv'
  <1>1. /\ TextRows /\ textRuns[r] \in RunRows /\ workers[r] \in WorkerRows
        /\ Working(textRuns[r], workers[r])
        /\ workers[r].pc = "items" /\ workers[r].item = {} /\ i \in workers[r].left
        /\ UNCHANGED <<texts, rules, normalized, active>>
    BY DEF TextInv, TextRows, ReadItem
  <1>2. ASSUME NEW o \in {"skipped", "reused"}, Count(r, i, o),
               o = "reused" => Derived(r, i) # {}
        PROVE  TextInv'
    <2>1. o \in RunOutcomes
      BY DEF RunOutcomes
    <2>2. o \in {"created", "reused"} =>
             \E text \in normalized' : text.item = i /\ text.rules = textRuns[r].rules
      BY <1>1, <1>2 DEF Derived
    <2>3. normalized' \in SUBSET NormalizedRow /\ normalized \subseteq normalized'
      BY <1>1 DEF TextRows
    <2> QED  BY <1>1, <1>2, <2>1, <2>2, <2>3, ItemCounted
  <1>3. CASE texts[i] # 0 /\ UNCHANGED textRuns /\
             workers' = [workers EXCEPT ![r].item = {[item |-> i, source |-> texts[i],
                                                      rules |-> textRuns[r].rules, run |-> r]}]
    <2> DEFINE text == [item |-> i, source |-> texts[i], rules |-> textRuns[r].rules, run |-> r]
               w == [workers[r] EXCEPT !.item = {text}]
    <2>1. texts[i] \in 1..MaxSources
      BY <1>1, <1>3, TextAssumption DEF TextRows, Absent, Working
    <2>2. text \in NormalizedRow
      BY <1>1, <2>1 DEF NormalizedRow, RunRows
    <2>3. w \in WorkerRows /\ w.pc = "items" /\ w.left = workers[r].left /\ w.item = {text}
      BY <1>1, <2>2 DEF WorkerRows
    <2>4. Working(textRuns[r], w)
      <3>1. text.item \in w.left /\ text.rules = textRuns[r].rules
        BY <1>1, <2>3
      <3> HIDE DEF w, text
      <3> QED  BY <1>1, <2>3, <3>1 DEF Working
    <2>5. workers' = [workers EXCEPT ![r] = w] /\ textRuns' = [textRuns EXCEPT ![r] = textRuns[r]]
      BY <1>1, <1>3 DEF TextRows, WorkerRows
    <2>6. active' \in TextRuns \cup {NoTextRun}
      BY <1>1 DEF TextRows
    <2> HIDE DEF w
    <2> QED  BY <1>1, <2>3, <2>4, <2>5, <2>6, WorkerMoves
  <1>4. \/ Count(r, i, "skipped")
        \/ Count(r, i, "reused") /\ Derived(r, i) # {}
        \/ texts[i] # 0 /\ UNCHANGED textRuns /\
             workers' = [workers EXCEPT ![r].item = {[item |-> i, source |-> texts[i],
                                                      rules |-> textRuns[r].rules, run |-> r]}]
    BY DEF ReadItem
  <1> QED  BY <1>2, <1>3, <1>4

\* The text that was read is of the run's rules.
LEMMA StoreTextKeeps ==
    ASSUME TextInv, NEW r \in TextRuns, StoreText(r)
    PROVE  TextInv'
  <1>1. PICK text \in workers[r].item :
           /\ normalized' = normalized \union {text}
           /\ Count(r, text.item, "created")
           /\ UNCHANGED <<texts, rules, active>>
    BY DEF StoreText
  <1>2. /\ TextRows /\ workers[r] \in WorkerRows
        /\ Working(textRuns[r], workers[r])
    BY DEF TextInv, TextRows
  <1>3. workers[r].pc = "items" /\ text.item \in workers[r].left /\ text.rules = textRuns[r].rules
    BY <1>2 DEF Working
  <1>4. \A other \in workers[r].item : other.item = text.item
    BY <1>2, <1>3 DEF Working
  <1>5. normalized' \in SUBSET NormalizedRow /\ normalized \subseteq normalized'
        /\ text \in normalized'
    BY <1>1, <1>2 DEF TextRows, WorkerRows
  <1>6. "created" \in RunOutcomes
    BY DEF RunOutcomes
  <1> QED  BY <1>1, <1>3, <1>4, <1>5, <1>6, ItemCounted

LEMMA FailItemKeeps ==
    ASSUME TextInv, NEW r \in TextRuns, NEW i \in TextItems, FailItem(r, i)
    PROVE  TextInv'
  <1>1. /\ TextRows /\ workers[r].pc = "items" /\ i \in workers[r].left
        /\ \A text \in workers[r].item : text.item = i
        /\ Count(r, i, "failed")
        /\ UNCHANGED <<texts, rules, normalized, active>>
    BY DEF TextInv, FailItem
  <1>2. normalized' \in SUBSET NormalizedRow /\ normalized \subseteq normalized'
    BY <1>1 DEF TextRows
  <1>3. "failed" \in RunOutcomes /\ "failed" \notin {"created", "reused"}
    BY DEF RunOutcomes
  <1> QED  BY <1>1, <1>2, <1>3, ItemCounted

\* A step that fails, a process that dies.
LEMMA StepRaisesKeeps ==
    ASSUME TextInv, NEW r \in TextRuns, StepRaises(r) \/ CrashRun(r)
    PROVE  TextInv'
  <1>1. TextRows /\ textRuns[r] \in RunRows /\ workers[r] \in WorkerRows
        /\ workers[r].attempt \in Nat /\ workers[r].attempt + 1 \in Nat
    BY DEF TextInv, TextRows, WorkerRows
  <1>2. PICK w \in {[IdleWorker EXCEPT !.pc = "begin", !.attempt = workers[r].attempt + 1],
                   [IdleWorker EXCEPT !.pc = "begin", !.attempt = workers[r].attempt],
                   [IdleWorker EXCEPT !.pc = "fail"]} :
           workers' = [workers EXCEPT ![r] = w]
    BY DEF StepRaises, CrashRun, Raise
  <1>3. w \in WorkerRows /\ w.pc \in {"begin", "fail"} /\ w.item = {}
    <2>1. CASE w = [IdleWorker EXCEPT !.pc = "fail"]
      BY <1>1, <2>1, IdleWorkers
    <2>2. ASSUME NEW attempt \in Nat, w = [IdleWorker EXCEPT !.pc = "begin", !.attempt = attempt]
          PROVE  w \in WorkerRows /\ w.pc = "begin" /\ w.item = {}
      BY <2>2, IdleWorkers
    <2> QED  BY <1>1, <1>2, <2>1, <2>2
  <1>4. /\ workers[r].pc # "none" /\ UNCHANGED <<texts, rules, textRuns, normalized, active>>
        /\ active \in TextRuns \cup {NoTextRun}
    BY <1>1 DEF StepRaises, CrashRun, Raise, TextRows
  <1>5. textRuns' = [textRuns EXCEPT ![r] = textRuns[r]]
    BY <1>1, <1>4 DEF TextRows
  <1> QED  BY <1>1, <1>2, <1>3, <1>4, <1>5, WorkerIdles

LEMMA CompleteTextRunKeeps ==
    ASSUME TextInv, NEW r \in TextRuns, CompleteTextRun(r)
    PROVE  TextInv'
  <1>1. TextRows /\ textRuns[r] \in RunRows /\ workers[r].attempt \in Nat
    BY DEF TextInv, TextRows, WorkerRows
  <1>2. PICK s \in CompletedRunStatus : textRuns' = [textRuns EXCEPT ![r].status = s]
    BY DEF CompleteTextRun, CompletedRunStatus
  <1>3. PICK w \in {IdleWorker, [IdleWorker EXCEPT !.pc = "begin", !.attempt = workers[r].attempt]} :
           workers' = [workers EXCEPT ![r] = w]
    BY DEF CompleteTextRun
  <1>4. w \in WorkerRows /\ w.pc \in {"none", "begin"} /\ w.item = {}
    <2>1. CASE w = IdleWorker
      BY <1>1, <2>1, IdleWorkers
    <2>2. CASE w = [IdleWorker EXCEPT !.pc = "begin", !.attempt = workers[r].attempt]
      BY <1>1, <2>2, IdleWorkers
    <2> QED  BY <1>3, <2>1, <2>2
  <1>5. UNCHANGED <<texts, rules, normalized>> /\ workers[r].pc # "none"
        /\ active' \in TextRuns \cup {NoTextRun}
    BY DEF CompleteTextRun
  <1> DEFINE row == [textRuns[r] EXCEPT !.status = s]
  <1>6. /\ row \in RunRows /\ row.status = s /\ row.rules = textRuns[r].rules
        /\ row.outcomes = textRuns[r].outcomes /\ row.processed = textRuns[r].processed
        /\ textRuns' = [textRuns EXCEPT ![r] = row]
    BY <1>1, <1>2, StatusMoves
  <1>7. s # "NONE"
    BY DEF CompletedRunStatus
  <1> HIDE DEF row
  <1> QED  BY <1>3, <1>4, <1>5, <1>6, <1>7, WorkerIdles

LEMMA FailRunKeeps ==
    ASSUME TextInv, NEW r \in TextRuns, FailRun(r)
    PROVE  TextInv'
  <1>1. TextRows /\ active \in TextRuns \cup {NoTextRun}
    BY DEF TextInv, TextRows
  <1>2. IdleWorker \in WorkerRows /\ IdleWorker.pc = "none" /\ IdleWorker.item = {}
    BY IdleWorkers
  <1> DEFINE row == [textRuns[r] EXCEPT !.status = "FAILED"]
  <1>3. /\ row \in RunRows /\ row.status = "FAILED" /\ row.rules = textRuns[r].rules
        /\ row.outcomes = textRuns[r].outcomes /\ row.processed = textRuns[r].processed
        /\ [textRuns EXCEPT ![r].status = "FAILED"] = [textRuns EXCEPT ![r] = row]
    BY <1>1, StatusMoves
  <1>4. /\ workers' = [workers EXCEPT ![r] = IdleWorker] /\ textRuns' = [textRuns EXCEPT ![r] = row]
        /\ UNCHANGED <<texts, rules, normalized, active>>
    BY <1>3 DEF FailRun
  <1> HIDE DEF row
  <1> QED  BY <1>1, <1>2, <1>3, <1>4, WorkerIdles

LEMMA TextStarts == TextInit => TextInv
  <1> SUFFICES ASSUME TextInit PROVE TextInv
    OBVIOUS
  <1>1. NoOutcomes \in [RunOutcomes -> SUBSET TextItems]
    BY DEF NoOutcomes
  <1>2. NoRunRow \in RunRows /\ NoRunRow.status = "NONE" /\ NoRunRow.processed = 0
        /\ NoRunRow.outcomes = NoOutcomes
    BY <1>1, TextAssumption DEF NoRunRow, RunRows
  <1>3. IdleWorker \in WorkerRows /\ IdleWorker.pc = "none" /\ IdleWorker.item = {}
    BY IdleWorkers
  <1>4. texts \in [TextItems -> 0..Absent]
    <2>1. {0, 1, Absent} \subseteq 0..Absent
      BY TextAssumption DEF Absent
    <2> QED  BY <2>1 DEF TextInit
  <1>5. TextRows
    BY <1>2, <1>3, <1>4, TextAssumption DEF TextInit, TextRows
  <1>6. Tallied(NoRunRow) /\ Made(NoRunRow)
    BY <1>2, NothingTallied
  <1>7. Working(NoRunRow, IdleWorker)
    BY <1>2, <1>3 DEF Working
  <1> QED  BY <1>5, <1>6, <1>7 DEF TextInit, TextInv

LEMMA TextStep == TextInv /\ [TextNext]_textVars => TextInv'
  <1> SUFFICES ASSUME TextInv, [TextNext]_textVars PROVE TextInv'
    OBVIOUS
  <1>1. CASE UNCHANGED textVars
    <2>1. UNCHANGED <<texts, rules, textRuns, workers, normalized, active>>
      BY <1>1 DEF textVars
    <2>2. TextRows'
      BY <2>1 DEF TextInv, TextRows, Absent, RunRows, WorkerRows
    <2>3. \A r \in TextRuns :
             (Tallied(textRuns[r]) /\ Made(textRuns[r]) /\ Working(textRuns[r], workers[r]))'
      BY <2>1 DEF TextInv, Tallied, Made, Working, DoneItems, Absent
    <2> QED  BY <2>2, <2>3 DEF TextInv
  <1>2. CASE TextNext
    BY <1>2, UploadTextKeeps, UpdateProfileKeeps, StartRunKeeps, BeginRunKeeps, ListItemsKeeps,
       ReadItemKeeps, StoreTextKeeps, FailItemKeeps, StepRaisesKeeps, CompleteTextRunKeeps,
       FailRunKeeps DEF TextNext
  <1> QED  BY <1>1, <1>2

LEMMA TextInvariant == TextSpec => []TextInv
  BY TextStarts, TextStep, PTL DEF TextSpec

(***************************************************************************)
(* The rows of a text processing run, its outcomes and the text that its   *)
(* worker is about to store have the types that the model declares.        *)
(***************************************************************************)
THEOREM TextTyped == TextSpec => []TextTypeOK
  <1>1. TextInv => TextTypeOK
    BY DEF TextInv, TextRows, RunRows, WorkerRows, TextTypeOK
  <1> QED  BY <1>1, TextInvariant, PTL

(***************************************************************************)
(* A completed run has, for each item that it counts as processed, a text  *)
(* that its own rules made, although the profile may change and the step   *)
(* is repeated; and "deterministic artifact keys prevent duplicates": each *)
(* item is counted once, with any number of items, runs and attempts.      *)
(***************************************************************************)
THEOREM CompletedTextOfItsRules == TextSpec => []CompletedTextIsOfItsRules
  <1>1. TextInv => CompletedTextIsOfItsRules
    <2> SUFFICES ASSUME TextInv, NEW r \in TextRuns
                 PROVE  LET out == textRuns[r].outcomes IN
                    /\ \A i \in out["created"] \union out["reused"] :
                          \E row \in normalized : row.item = i /\ row.rules = textRuns[r].rules
                    /\ \A i \in TextItems : Cardinality({o \in RunOutcomes : i \in out[o]}) <= 1
                    /\ textRuns[r].processed = Cardinality(UNION {out[o] : o \in RunOutcomes})
      BY DEF CompletedTextIsOfItsRules
    <2> DEFINE out == textRuns[r].outcomes
    <2>1. Tallied(textRuns[r]) /\ Made(textRuns[r])
      BY DEF TextInv
    <2>2. ASSUME NEW i \in TextItems
          PROVE  Cardinality({o \in RunOutcomes : i \in out[o]}) <= 1
      <3> DEFINE ways == {o \in RunOutcomes : i \in out[o]}
      <3>1. \A o, p \in ways : o = p
        BY <2>1 DEF Tallied
      <3>2. CASE ways = {}
        BY <3>2, FS_EmptySet
      <3>3. CASE ways # {}
        <4>1. PICK o \in ways : TRUE
          BY <3>3
        <4>2. ways = {o}
          BY <3>1, <4>1
        <4> QED  BY <4>2, FS_Singleton
      <3> QED  BY <3>2, <3>3
    <2> QED  BY <2>1, <2>2 DEF Tallied, Made, DoneItems
  <1> QED  BY <1>1, TextInvariant, PTL
================================================================================

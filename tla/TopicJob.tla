------------------------------- MODULE TopicJob -------------------------------
(***************************************************************************)
(* The discovery of a matter's topics and their application after review.  *)
(*                                                                         *)
(*   app/routers/matter_topics.py      create, apply and cancel requests   *)
(*   app/workflows/matter_topics.py    the workflows of discovery, of      *)
(*                                     application and of its batches      *)
(*   app/topic_clustering.py           the transactions of their steps     *)
(*                                                                         *)
(* Steps load the job once and commit the status whatever a cancel request *)
(* has stored since.  The numerical clustering is a choice between topics  *)
(* and none; the search projection of a batch is an operation of           *)
(* SearchProjection.  Documents are numbered as they are ordered.          *)
(***************************************************************************)
EXTENDS Naturals, FiniteSets, Sums

CONSTANTS
    TopicJobs,          \* identities of jobs of one matter
    TopicBatchSize,     \* matter_topic_batch_size
    MaxTopicDocuments,  \* bound on the documents of the matter
    MaxTopicFaults      \* bound on restarts and failed steps

ASSUME TopicAssumption ==
    /\ TopicBatchSize \in Nat \ {0}
    /\ MaxTopicDocuments \in Nat /\ MaxTopicFaults \in Nat

VARIABLES
    topicDocuments,   \* the matter has the documents 1..topicDocuments
    topicJob,         \* MatterTopicJob rows
    topicBatch,       \* MatterTopicBatch rows
    discovery,        \* the workflow that discovers topics
    application,      \* the workflow that applies them
    applying,         \* the workflow of each batch
    topicCancel,      \* the cancel request of each job
    topicStopped,     \* DBOS: the workflows that were canceled
    applied,          \* applied[j][d]: how often job j has replaced the topics of d
    topicFaults

topicVars == <<topicDocuments, topicJob, topicBatch, discovery, application, applying, topicCancel,
               topicStopped, applied, topicFaults>>

TopicNumbers == 1..MaxTopicDocuments
DiscoveringStatuses == {"QUEUED", "SAMPLING", "CLUSTERING"}
ActiveTopicStatuses == DiscoveringStatuses \cup {"AWAITING_REVIEW", "PUBLISHING"}
EndedTopicStatuses == {"COMPLETED", "COMPLETED_WITH_ERRORS", "FAILED", "CANCELED"}
NoCounts == [processed |-> 0, assigned |-> 0, outlier |-> 0, failed |-> 0]

TopicInit ==
    /\ topicDocuments \in TopicNumbers
    /\ topicJob = [j \in TopicJobs |-> [status |-> "NONE", documents |-> 0, batches |-> 0,
                                        approved |-> FALSE, counts |-> NoCounts]]
    /\ topicBatch = [j \in TopicJobs |-> [n \in TopicNumbers |->
            [status |-> "NONE", documents |-> {}, counts |-> NoCounts, metadataApplied |-> FALSE]]]
    /\ discovery = [j \in TopicJobs |-> [pc |-> "none", documents |-> 0]]
    /\ application = [j \in TopicJobs |-> [pc |-> "none", batches |-> 0, next |-> 1, failed |-> 0]]
    /\ applying = [j \in TopicJobs |-> [n \in TopicNumbers |-> "none"]]
    /\ topicCancel = [j \in TopicJobs |-> [pc |-> "idle", previous |-> "NONE", asked |-> FALSE]]
    /\ topicStopped = {}
    /\ applied = [j \in TopicJobs |-> [d \in TopicNumbers |-> 0]]
    /\ topicFaults = 0

TopicFault == topicFaults < MaxTopicFaults /\ topicFaults' = topicFaults + 1

DiscoveryStep(j, pc) == discovery[j].pc = pc /\ <<j, "discovery">> \notin topicStopped
DiscoveryGoto(j, pc) == discovery' = [discovery EXCEPT ![j].pc = pc]
ApplicationStep(j, pc) == application[j].pc = pc /\ <<j, "application">> \notin topicStopped
ApplicationGoto(j, pc) == application' = [application EXCEPT ![j].pc = pc]

\* uq_matter_topic_job_active: another job of the matter is not active.
IndexAllows(j, status) ==
    status \in ActiveTopicStatuses => \A k \in TopicJobs \ {j} : topicJob[k].status \notin ActiveTopicStatuses

TopicSums(j) == [field \in DOMAIN NoCounts |->
    SumTo([n \in 1..topicJob[j].batches |-> topicBatch[j][n].counts[field]], topicJob[j].batches)]

-----------------------------------------------------------------------------
(* Requests.                                                                *)

AddTopicDocument ==
    /\ topicDocuments < MaxTopicDocuments
    /\ topicDocuments' = topicDocuments + 1
    /\ UNCHANGED <<topicJob, topicBatch, discovery, application, applying, topicCancel,
                   topicStopped, applied, topicFaults>>

CreateTopicJob(j) ==
    /\ topicJob[j].status = "NONE" /\ IndexAllows(j, "QUEUED")
    /\ topicJob' = [topicJob EXCEPT ![j].status = "QUEUED"]
    /\ DiscoveryGoto(j, "discover")
    /\ UNCHANGED <<topicDocuments, topicBatch, application, applying, topicCancel, topicStopped,
                   applied, topicFaults>>

\* apply_topic_job holds the row's lock.  The workflow of the application has one identity: a
\* second approval does not start it again.
ApproveTopics(j) ==
    /\ topicJob[j].status = "AWAITING_REVIEW"
    /\ topicJob' = [topicJob EXCEPT ![j].status = "PUBLISHING", ![j].approved = TRUE]
    /\ application' = IF application[j].pc = "none"
                      THEN [application EXCEPT ![j].pc = "plan"] ELSE application
    /\ UNCHANGED <<topicDocuments, topicBatch, discovery, applying, topicCancel, topicStopped,
                   applied, topicFaults>>

BeginCancelTopics(j) ==
    /\ topicCancel[j].pc = "idle" /\ topicJob[j].status \in ActiveTopicStatuses
    /\ topicCancel' = [topicCancel EXCEPT ![j] =
            [pc |-> "write", previous |-> topicJob[j].status, asked |-> TRUE]]
    /\ UNCHANGED <<topicDocuments, topicJob, topicBatch, discovery, application, applying,
                   topicStopped, applied, topicFaults>>

WriteCancelTopics(j) ==
    /\ topicCancel[j].pc = "write"
    /\ topicJob' = [topicJob EXCEPT ![j].status = "CANCELED"]
    /\ topicCancel' = [topicCancel EXCEPT ![j].pc = "stop"]
    /\ UNCHANGED <<topicDocuments, topicBatch, discovery, application, applying, topicStopped,
                   applied, topicFaults>>

\* The workflow that the status read before belongs to is stopped with its children.
StopTopics(j) ==
    /\ topicCancel[j].pc = "stop"
    /\ topicStopped' = topicStopped \cup
            CASE topicCancel[j].previous \in DiscoveringStatuses -> {<<j, "discovery">>}
              [] topicCancel[j].previous = "PUBLISHING" -> {<<j, "application">>}
              [] OTHER -> {}
    /\ topicCancel' = [topicCancel EXCEPT ![j].pc = "idle", ![j].previous = "NONE"]
    /\ UNCHANGED <<topicDocuments, topicJob, topicBatch, discovery, application, applying, applied,
                   topicFaults>>

-----------------------------------------------------------------------------
(* The workflow of discovery: one step with three transactions.             *)

\* An execution that finds batches was interrupted after it had committed them.
BeginDiscovery(j) ==
    /\ DiscoveryStep(j, "discover")
    /\ \/ /\ topicJob[j].status = "CANCELED" /\ DiscoveryGoto(j, "ended")
          /\ UNCHANGED topicJob
       \/ /\ topicJob[j].status # "CANCELED" /\ topicJob[j].batches > 0
          /\ IndexAllows(j, "AWAITING_REVIEW")
          /\ topicJob' = [topicJob EXCEPT ![j].status = "AWAITING_REVIEW"]
          /\ DiscoveryGoto(j, "proposed")
       \/ /\ topicJob[j].status # "CANCELED" /\ topicJob[j].batches = 0
          /\ IndexAllows(j, "SAMPLING")
          /\ topicJob' = [topicJob EXCEPT ![j].status = "SAMPLING", ![j].documents = topicDocuments]
          /\ discovery' = [discovery EXCEPT ![j] = [pc |-> "sample", documents |-> topicDocuments]]
    /\ UNCHANGED <<topicDocuments, topicBatch, application, applying, topicCancel, topicStopped,
                   applied, topicFaults>>

Sample(j) ==
    /\ discovery[j].pc = "sample" /\ IndexAllows(j, "CLUSTERING")
    /\ topicJob' = [topicJob EXCEPT ![j].status = "CLUSTERING"]
    /\ DiscoveryGoto(j, "cluster")
    /\ UNCHANGED <<topicDocuments, topicBatch, application, applying, topicCancel, topicStopped,
                   applied, topicFaults>>

MutantTopicSlice(j, n) == {d \in 1..(discovery[j].documents - 1) : (d - 1) \div TopicBatchSize = n - 1}

TopicSlice(j, n) == {d \in 1..discovery[j].documents : (d - 1) \div TopicBatchSize = n - 1}

\* The proposals and the batches of the documents that were loaded, in one transaction.
Propose(j) ==
    /\ discovery[j].pc = "cluster" /\ IndexAllows(j, "AWAITING_REVIEW")
    /\ topicBatch' = [topicBatch EXCEPT ![j] = [n \in TopicNumbers |->
            IF TopicSlice(j, n) = {} THEN @[n]
            ELSE [@[n] EXCEPT !.status = "QUEUED", !.documents = TopicSlice(j, n)]]]
    /\ topicJob' = [topicJob EXCEPT ![j].status = "AWAITING_REVIEW",
            ![j].batches = Cardinality({n \in TopicNumbers : TopicSlice(j, n) # {}})]
    /\ DiscoveryGoto(j, "proposed")
    /\ UNCHANGED <<topicDocuments, application, applying, topicCancel, topicStopped, applied,
                   topicFaults>>

\* DBOS stores the result of the step.
RecordDiscovery(j) ==
    /\ discovery[j].pc = "proposed"
    /\ DiscoveryGoto(j, "ended")
    /\ UNCHANGED <<topicDocuments, topicJob, topicBatch, application, applying, topicCancel,
                   topicStopped, applied, topicFaults>>

\* No document has current vectors, or too few of its chunks can be sampled.
NoSample(j) == discovery[j].pc = "sample"

\* The vectors have no clustering, too few topics or not as many as were asked for.
NoTopics(j) == discovery[j].pc = "cluster"

\* The step raises, or the index refuses its status; it is tried again, then given up.
DiscoveryFails(j) ==
    /\ \/ NoSample(j) \/ NoTopics(j) \/ discovery[j].pc = "discover"
    /\ \/ TopicFault
       \/ ~IndexAllows(j, "SAMPLING") /\ UNCHANGED topicFaults
    /\ DiscoveryGoto(j, "fail")
    /\ UNCHANGED <<topicDocuments, topicJob, topicBatch, application, applying, topicCancel,
                   topicStopped, applied>>

DiscoveryRestarts(j) ==
    /\ TopicFault
    /\ discovery[j].pc \in {"sample", "cluster", "proposed"}
    /\ DiscoveryGoto(j, "discover")
    /\ UNCHANGED <<topicDocuments, topicJob, topicBatch, application, applying, topicCancel,
                   topicStopped, applied>>

FailDiscovery(j) ==
    /\ DiscoveryStep(j, "fail")
    /\ DiscoveryGoto(j, IF topicJob[j].status = "CANCELED" THEN "ended" ELSE "failWrite")
    /\ UNCHANGED <<topicDocuments, topicJob, topicBatch, application, applying, topicCancel,
                   topicStopped, applied, topicFaults>>

WriteFailedDiscovery(j) ==
    /\ discovery[j].pc = "failWrite"
    /\ topicJob' = [topicJob EXCEPT ![j].status = "FAILED"]
    /\ DiscoveryGoto(j, "ended")
    /\ UNCHANGED <<topicDocuments, topicBatch, application, applying, topicCancel, topicStopped,
                   applied, topicFaults>>

-----------------------------------------------------------------------------
(* The workflow of the application.                                         *)

\* application_batch_ids: the schema is projected first; then the status is read.
PlanApplication(j) ==
    /\ ApplicationStep(j, "plan")
    /\ CASE topicJob[j].status = "CANCELED" -> ApplicationGoto(j, "await")
         [] topicJob[j].status = "PUBLISHING" ->
                application' = [application EXCEPT ![j].pc = "enqueue", ![j].batches = topicJob[j].batches]
         [] OTHER -> ApplicationGoto(j, "fail")
    /\ UNCHANGED <<topicDocuments, topicJob, topicBatch, discovery, applying, topicCancel,
                   topicStopped, applied, topicFaults>>

EnqueueTopicBatches(j) ==
    /\ ApplicationStep(j, "enqueue")
    /\ applying' = [applying EXCEPT ![j] = [n \in TopicNumbers |->
            IF n <= application[j].batches /\ @[n] = "none" THEN "process" ELSE @[n]]]
    /\ ApplicationGoto(j, "await")
    /\ UNCHANGED <<topicDocuments, topicJob, topicBatch, discovery, topicCancel, topicStopped,
                   applied, topicFaults>>

AwaitTopicBatch(j) ==
    LET n == application[j].next
    IN  /\ ApplicationStep(j, "await") /\ n <= application[j].batches
        /\ \/ applying[j][n] = "error" /\ ApplicationGoto(j, "fail") /\ UNCHANGED topicJob
           \/ /\ applying[j][n] = "done"
              /\ application' = [application EXCEPT ![j].next = n + 1]
              /\ topicJob' = [topicJob EXCEPT ![j].counts = TopicSums(j)]
        /\ UNCHANGED <<topicDocuments, topicBatch, discovery, applying, topicCancel, topicStopped,
                       applied, topicFaults>>

BeginCompleteTopics(j) ==
    /\ ApplicationStep(j, "await") /\ application[j].next > application[j].batches
    /\ topicJob' = [topicJob EXCEPT ![j].counts = TopicSums(j)]
    /\ application' = [application EXCEPT
            ![j].pc = IF topicJob[j].status = "CANCELED" THEN "ended" ELSE "complete",
            ![j].failed = TopicSums(j).failed]
    /\ UNCHANGED <<topicDocuments, topicBatch, discovery, applying, topicCancel, topicStopped,
                   applied, topicFaults>>

WriteCompleteTopics(j) ==
    /\ application[j].pc = "complete"
    /\ topicJob' = [topicJob EXCEPT ![j].status =
                        IF application[j].failed > 0 THEN "COMPLETED_WITH_ERRORS" ELSE "COMPLETED"]
    /\ ApplicationGoto(j, "ended")
    /\ UNCHANGED <<topicDocuments, topicBatch, discovery, applying, topicCancel, topicStopped,
                   applied, topicFaults>>

FailApplication(j) ==
    /\ ApplicationStep(j, "fail")
    /\ ApplicationGoto(j, IF topicJob[j].status = "CANCELED" THEN "ended" ELSE "failWrite")
    /\ UNCHANGED <<topicDocuments, topicJob, topicBatch, discovery, applying, topicCancel,
                   topicStopped, applied, topicFaults>>

WriteFailedApplication(j) ==
    /\ application[j].pc = "failWrite"
    /\ topicJob' = [topicJob EXCEPT ![j].status = "FAILED"]
    /\ ApplicationGoto(j, "ended")
    /\ UNCHANGED <<topicDocuments, topicBatch, discovery, applying, topicCancel, topicStopped,
                   applied, topicFaults>>

\* A worker dies, or a step fails as often as it is tried.
ApplicationFault(j) ==
    /\ TopicFault
    /\ \/ application[j].pc = "complete" /\ ApplicationGoto(j, "await")
       \/ application[j].pc = "failWrite" /\ ApplicationGoto(j, "fail")
       \/ application[j].pc \in {"plan", "complete"} /\ ApplicationGoto(j, "fail")
    /\ UNCHANGED <<topicDocuments, topicJob, topicBatch, discovery, applying, topicCancel,
                   topicStopped, applied>>

-----------------------------------------------------------------------------
(* process_batch.                                                           *)

BatchTo(j, n, pc) == applying' = [applying EXCEPT ![j][n] = pc]

BeginTopicBatch(j, n) ==
    LET row == topicBatch[j][n]
    IN  /\ applying[j][n] = "process" /\ <<j, "application">> \notin topicStopped
        /\ \/ row.status = "COMPLETED" /\ BatchTo(j, n, "done") /\ UNCHANGED topicBatch
           \/ /\ row.status # "COMPLETED" /\ topicJob[j].status = "CANCELED"
              /\ topicBatch' = [topicBatch EXCEPT ![j][n].status = "CANCELED"]
              /\ BatchTo(j, n, "done")
           \/ /\ row.status # "COMPLETED" /\ topicJob[j].status # "CANCELED"
              /\ topicBatch' = [topicBatch EXCEPT ![j][n].status = "RUNNING"]
              /\ BatchTo(j, n, "apply")
        /\ UNCHANGED <<topicDocuments, topicJob, discovery, application, topicCancel, topicStopped,
                       applied, topicFaults>>

MutantMustApply(row) == TRUE

\* metadata_applied is committed with the values: an attempt after that only projects them.
MustApply(row) == ~row.metadataApplied

\* Each document is assigned topics, is an outlier, or fails without harm to the others; what
\* is done for all of them is one transaction.
ApplyTopics(j, n, outliers, failures) ==
    LET row == topicBatch[j][n]
        size == Cardinality(row.documents)
    IN  /\ applying[j][n] = "apply" /\ MustApply(row)
        /\ outliers \subseteq row.documents /\ failures \subseteq row.documents \ outliers
        /\ topicBatch' = [topicBatch EXCEPT ![j][n].metadataApplied = TRUE, ![j][n].counts =
                [processed |-> size, outlier |-> Cardinality(outliers), failed |-> Cardinality(failures),
                 assigned |-> size - Cardinality(outliers) - Cardinality(failures)]]
        /\ applied' = [applied EXCEPT ![j] = [d \in TopicNumbers |->
                IF d \in row.documents \ failures THEN @[d] + 1 ELSE @[d]]]
        /\ BatchTo(j, n, "index")
        /\ UNCHANGED <<topicDocuments, topicJob, discovery, application, topicCancel, topicStopped,
                       topicFaults>>

IndexTopicBatch(j, n) ==
    /\ applying[j][n] = "index" \/ (applying[j][n] = "apply" /\ ~MustApply(topicBatch[j][n]))
    /\ topicBatch' = [topicBatch EXCEPT ![j][n].status = "COMPLETED"]
    /\ BatchTo(j, n, "done")
    /\ UNCHANGED <<topicDocuments, topicJob, discovery, application, topicCancel, topicStopped,
                   applied, topicFaults>>

\* The step is tried again from its start, also after its commit if the worker dies before the
\* parent has the result; or it has been tried as often as it may be.
TopicBatchFault(j, n) ==
    /\ TopicFault
    /\ \/ applying[j][n] \in {"apply", "index"} /\ BatchTo(j, n, "process")
       \/ /\ applying[j][n] = "done" /\ topicBatch[j][n].status = "COMPLETED" /\ application[j].next <= n
          /\ BatchTo(j, n, "process")
       \/ applying[j][n] \in {"process", "apply", "index"} /\ BatchTo(j, n, "error")
    /\ UNCHANGED <<topicDocuments, topicJob, topicBatch, discovery, application, topicCancel,
                   topicStopped, applied>>

-----------------------------------------------------------------------------
Discovery(j) ==
    \/ BeginDiscovery(j) \/ Sample(j) \/ Propose(j) \/ RecordDiscovery(j)
    \/ DiscoveryFails(j) \/ DiscoveryRestarts(j) \/ FailDiscovery(j) \/ WriteFailedDiscovery(j)

Application(j) ==
    \/ PlanApplication(j) \/ EnqueueTopicBatches(j) \/ AwaitTopicBatch(j)
    \/ BeginCompleteTopics(j) \/ WriteCompleteTopics(j)
    \/ FailApplication(j) \/ WriteFailedApplication(j) \/ ApplicationFault(j)

TopicBatch(j, n) ==
    \/ BeginTopicBatch(j, n) \/ IndexTopicBatch(j, n) \/ TopicBatchFault(j, n)
    \/ \E outliers, failures \in SUBSET topicBatch[j][n].documents :
           ApplyTopics(j, n, outliers, failures)

TopicNext ==
    \/ AddTopicDocument
    \/ \E j \in TopicJobs :
           \/ CreateTopicJob(j) \/ ApproveTopics(j)
           \/ BeginCancelTopics(j) \/ WriteCancelTopics(j) \/ StopTopics(j)
           \/ Discovery(j) \/ Application(j)
           \/ \E n \in TopicNumbers : TopicBatch(j, n)

TopicSpec == TopicInit /\ [][TopicNext]_topicVars

-----------------------------------------------------------------------------
TopicCounts == [DOMAIN NoCounts -> 0..MaxTopicDocuments]

\* Every variable keeps its type.
TopicTypeOK ==
    /\ topicDocuments \in TopicNumbers
    /\ topicJob \in [TopicJobs ->
            [status : {"NONE"} \cup ActiveTopicStatuses \cup EndedTopicStatuses,
             documents : 0..MaxTopicDocuments, batches : 0..MaxTopicDocuments,
             approved : BOOLEAN, counts : TopicCounts]]
    /\ topicBatch \in [TopicJobs -> [TopicNumbers ->
            [status : {"NONE", "QUEUED", "RUNNING", "COMPLETED", "CANCELED"},
             documents : SUBSET TopicNumbers, counts : TopicCounts, metadataApplied : BOOLEAN]]]
    /\ discovery \in [TopicJobs ->
            [pc : {"none", "discover", "sample", "cluster", "proposed", "fail", "failWrite", "ended"},
             documents : 0..MaxTopicDocuments]]
    /\ application \in [TopicJobs ->
            [pc : {"none", "plan", "enqueue", "await", "complete", "fail", "failWrite", "ended"},
             batches : 0..MaxTopicDocuments, next : 1..(MaxTopicDocuments + 1),
             failed : 0..MaxTopicDocuments]]
    /\ applying \in [TopicJobs ->
            [TopicNumbers -> {"none", "process", "apply", "index", "done", "error"}]]
    /\ topicCancel \in [TopicJobs ->
            [pc : {"idle", "write", "stop"}, previous : {"NONE"} \cup ActiveTopicStatuses,
             asked : BOOLEAN]]
    /\ topicStopped \subseteq TopicJobs \X {"discovery", "application"}
    /\ applied \in [TopicJobs -> [TopicNumbers -> Nat]]
    /\ topicFaults \in 0..MaxTopicFaults

\* A job replaces the topics of a document once, though batches are tried again after their
\* values were committed, and only of documents that it had when an administrator approved it:
\* a second time would undo what people have asserted in between.
TopicsAppliedOnce ==
    \A j \in TopicJobs, d \in TopicNumbers :
        /\ applied[j][d] <= 1
        /\ applied[j][d] = 1 => topicJob[j].approved /\ d <= topicJob[j].documents

\* A job that nobody has asked to cancel and that says it is completed has dealt with each of its
\* documents: those that it does not count as failed have its topics.
CompletedTopicsAreWhole ==
    \A j \in TopicJobs :
        LET counts == topicJob[j].counts
        IN  ~topicCancel[j].asked /\ topicJob[j].status \in {"COMPLETED", "COMPLETED_WITH_ERRORS"} =>
                /\ counts.processed = topicJob[j].documents
                /\ counts.failed = Cardinality({d \in 1..topicJob[j].documents : applied[j][d] = 0})
                /\ topicJob[j].status = "COMPLETED" <=> counts.failed = 0
=============================================================================

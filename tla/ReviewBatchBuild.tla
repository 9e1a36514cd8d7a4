---------------------------- MODULE ReviewBatchBuild ----------------------------
(***************************************************************************)
(* The building of review batches (app/review_batches.py and               *)
(* app/workflows/review_batches.py).  A batch is created QUEUED together   *)
(* with its workflow; the workflow's first step selects the documents of   *)
(* the batch and makes it READY in one transaction that holds the row of   *)
(* the batch, its second step projects the batch into the search index.    *)
(* The step that selects is retried after a failure and executed again     *)
(* after a crash, while imports keep adding documents to the matter.       *)
(*                                                                         *)
(* BUILDING is never committed: the transaction that writes it ends in     *)
(* READY or is rolled back.                                                *)
(***************************************************************************)
EXTENDS Naturals, Sequences, FiniteSets, SequencesExt, Sublists

CONSTANTS
    Batches,          \* identities of the batches that may be created
    MatterDocs,       \* documents the matter may come to have
    Reviewers,        \* users of the tenant
    Nobody,           \* no assigned user
    NoBatch,          \* no source batch
    SelectionTypes,   \* the selection types requests ask for
    SampleSizes,      \* the sample sizes requests ask for
    MaxBuildAttempts  \* attempts of a step before its workflow gives up

ASSUME BuildAssumption ==
    /\ IsFiniteSet(MatterDocs)
    /\ Nobody \notin Reviewers
    /\ NoBatch \notin Batches
    /\ SampleSizes \subseteq Nat \ {0}
    /\ MaxBuildAttempts \in Nat \ {0}

VARIABLES
    documents,  \* the documents of the matter, in the order they were added
    batch       \* batch[b]: the row of batch b with its documents and its workflow

buildVars == <<documents, batch>>

BatchStatus == {"NONE", "QUEUED", "READY", "FAILED"}
SearchStatus == {"QUEUED", "SYNCING", "READY", "FAILED"}
BuildPC == {"none", "materialize", "sync", "done", "error"}

\* The SHA-256 of the seed and the document's id puts the documents in an order
\* that depends on nothing else: an enumeration of all documents, fixed at creation.
StableOrders == SetToSeqs(MatterDocs)

NoReviewBatch == [status |-> "NONE", selection |-> "ALL_MATTER", source |-> NoBatch,
                  sample |-> 0, order |-> <<>>, members |-> <<>>, count |-> 0,
                  assigned |-> Nobody, search |-> "QUEUED", build |-> "none", attempts |-> 0]

BuildInit ==
    /\ documents \in {SubSeq(s, 1, n) : s \in {SetToSeq(MatterDocs)}, n \in 0..Cardinality(MatterDocs)}
    /\ batch = [b \in Batches |-> NoReviewBatch]

IsReady(b) == batch[b].status = "READY"
MembersOf(b) == ToSet(batch[b].members)

\* An import adds a document to the matter.
AddDocument(d) ==
    /\ d \notin ToSet(documents)
    /\ documents' = Append(documents, d)
    /\ UNCHANGED batch

\* A request creates a batch and enqueues its workflow in the same transaction.
CreateBatch(b, selection, source, sample, order, user) ==
    /\ batch[b].status = "NONE"
    /\ (selection = "RANDOM_BATCH") = (source # NoBatch)
    /\ source # NoBatch => IsReady(source)
    /\ selection \in {"ALL_MATTER", "SEARCH_QUERY"} => sample = 0
    /\ (selection \in {"RANDOM_MATTER", "RANDOM_BATCH"}) = (order # <<>>)
    /\ batch' = [batch EXCEPT ![b] = [NoReviewBatch EXCEPT
                    !.status = "QUEUED", !.selection = selection, !.source = source,
                    !.sample = sample, !.order = order, !.assigned = user,
                    !.build = "materialize"]]
    /\ UNCHANGED documents

\* The first n of a sequence, all of it when no size was asked for.
Sample(ids, n) == IF n = 0 \/ n >= Len(ids) THEN ids ELSE SubSeq(ids, 1, n)

\* What a selection from the database yields now.
DatabaseDocumentIds(b) ==
    LET candidates == IF batch[b].selection = "RANDOM_BATCH"
                      THEN batch[batch[b].source].members ELSE documents
    IN  IF batch[b].selection \in {"RANDOM_MATTER", "RANDOM_BATCH"}
        THEN Sample(Kept(batch[b].order, ToSet(candidates)), batch[b].sample)
        ELSE candidates

\* What it may yield: a search may match any of the matter's documents.
Selections(b) ==
    IF batch[b].selection = "SEARCH_QUERY"
    THEN {Kept(SetToSeq(MatterDocs), hits) : hits \in SUBSET ToSet(documents)}
    ELSE {DatabaseDocumentIds(b)}

\* A build that does not notice that the batch is READY.
MutantSelected(b) ==
    {[batch[b] EXCEPT !.members = ids, !.count = Len(ids), !.status = "READY"] : ids \in Selections(b)}

\* The rows the step's transaction may leave.  A batch that is READY stays as it is.
Selected(b) ==
    IF IsReady(b) THEN {batch[b]}
    ELSE {[batch[b] EXCEPT !.members = ids, !.count = Len(ids), !.status = "READY"] : ids \in Selections(b)}

Materialize(b) ==
    /\ batch[b].build = "materialize"
    /\ \E row \in Selected(b) :
          batch' = [batch EXCEPT ![b] = [row EXCEPT !.build = "sync", !.attempts = 0]]
    /\ UNCHANGED documents

\* The transaction commits and the worker dies before the result of the step is
\* recorded: recovery executes the step again.
MaterializeReplays(b) ==
    /\ batch[b].build = "materialize"
    /\ batch[b].attempts + 1 < MaxBuildAttempts
    /\ \E row \in Selected(b) : batch' = [batch EXCEPT ![b] = [row EXCEPT !.attempts = @ + 1]]
    /\ UNCHANGED documents

\* The selection fails: the transaction is rolled back, FAILED is committed and
\* the step is tried again until its attempts are used up.
MaterializeFails(b) ==
    /\ batch[b].build = "materialize"
    /\ ~IsReady(b)
    /\ batch' = [batch EXCEPT ![b].status = "FAILED", ![b].attempts = @ + 1,
                   ![b].build = IF batch[b].attempts + 1 = MaxBuildAttempts THEN "error" ELSE @]
    /\ UNCHANGED documents

BuildNext ==
    \/ \E d \in MatterDocs : AddDocument(d)
    \/ \E b \in Batches, selection \in SelectionTypes, source \in Batches \cup {NoBatch},
          sample \in SampleSizes \cup {0}, order \in StableOrders \cup {<<>>}, user \in Reviewers \cup {Nobody} :
            CreateBatch(b, selection, source, sample, order, user)
    \/ \E b \in Batches : Materialize(b) \/ MaterializeReplays(b) \/ MaterializeFails(b)

(***************************************************************************)
(* Properties.                                                             *)
(***************************************************************************)
BuildTypeOK ==
    /\ documents \in Seq(MatterDocs)
    /\ \A b \in Batches :
        /\ batch[b].status \in BatchStatus
        /\ batch[b].search \in SearchStatus
        /\ batch[b].build \in BuildPC
        /\ batch[b].assigned \in Reviewers \cup {Nobody}
        /\ batch[b].source \in Batches \cup {NoBatch}
        /\ batch[b].attempts \in 0..MaxBuildAttempts

\* The documents of a READY batch never change, however often its step is executed
\* and whatever is added to the matter meanwhile (materialize_review_batch returns
\* early; runs and samples of the batch rely on it).
MembershipFrozen ==
    [][\A b \in Batches : IsReady(b) => /\ batch'[b].status = "READY"
                                        /\ batch'[b].members = batch[b].members]_buildVars
=============================================================================
